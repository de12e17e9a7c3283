---------------------------- MODULE ReplayPromise ----------------------------
(***************************************************************************)
(* What the replay cache of swclid promises WorkerManager.call, without    *)
(* the order and the sizes that decide what it drops: an outcome is found  *)
(* as it was recorded until it is dropped, only recording drops anything,  *)
(* and a request_id used for another body is a conflict.                   *)
(***************************************************************************)
CONSTANTS RequestIds, Fingerprints, Responses, None

VARIABLES remembered, answer

Outcome(id, fingerprint) ==
  IF remembered[id] = None THEN None
  ELSE IF remembered[id].fingerprint = fingerprint THEN remembered[id].response
  ELSE "RequestIdConflict"

Ask(id, fingerprint) ==
  /\ answer' = [id |-> id, fingerprint |-> fingerprint, outcome |-> Outcome(id, fingerprint)]
  /\ UNCHANGED remembered

Record(id, fingerprint, response) ==
  /\ \E dropped \in SUBSET RequestIds :
       remembered' = [x \in RequestIds |->
         IF x \in dropped THEN None
         ELSE IF x = id THEN [fingerprint |-> fingerprint, response |-> response]
         ELSE remembered[x]]
  /\ UNCHANGED answer

Init == remembered = [id \in RequestIds |-> None] /\ answer = None

Next ==
  \E id \in RequestIds, f \in Fingerprints :
    Ask(id, f) \/ \E r \in Responses : Record(id, f, r)

Spec == Init /\ [][Next]_<<remembered, answer>>

=============================================================================
