----------------------------- MODULE ReplayCache -----------------------------
(***************************************************************************)
(* The replay cache of WorkerManager (daemon/server.py: _request_cache,    *)
(* _replay_response, _remember_response), an OrderedDict bounded by a      *)
(* number of entries and a number of bytes.  It implements ReplayPromise,  *)
(* which is all WorkerManager's Remember assumes of it.                    *)
(*                                                                         *)
(* A response is known by its encoded size; deep copies and the "replayed" *)
(* mark are left out.                                                      *)
(***************************************************************************)
EXTENDS Naturals, SequencesExt

CONSTANTS
  RequestIds, Fingerprints, Responses,
  Size,        \* response_size of each response
  MaxEntries,  \* REQUEST_REPLAY_MAX_ENTRIES
  MaxBytes,    \* REQUEST_REPLAY_MAX_BYTES
  None

ASSUME CacheAssumption ==
  /\ Size \in [Responses -> Nat \ {0}]
  /\ MaxEntries \in Nat \ {0} /\ MaxBytes \in Nat

ASSUME NoneAssumption == None \notin [fingerprint : Fingerprints, response : Responses]

VARIABLES
  cache,    \* _request_cache: its items, least recently used first
  bytes,    \* _request_cache_bytes
  answer,   \* the last question to _replay_response and what it returned
  watched,  \* history: some request_id,
  held,     \* history: the size of the outcome last recorded for it, or 0,
  since     \* history: the sizes of what was used after it was used last

history == <<watched, held, since>>
vars    == <<cache, bytes, answer, history>>

Items == [id : RequestIds, fingerprint : Fingerprints, response : Responses]

Cached(id) == \E i \in DOMAIN cache : cache[i].id = id
Place(id)  == CHOOSE i \in DOMAIN cache : cache[i].id = id
ItemOf(id) == cache[Place(id)]

Total(items) == FoldLeft(LAMBDA sum, item : sum + Size[item.response], 0, items)

(* Mutants: a hit leaves the item where it is, or leaves it there too. *)
MutantTouch(items, i)      == items
MutantTouchTwice(items, i) == Append(items, items[i])

(* move_to_end *)
Touch(items, i) == Append(RemoveAt(items, i), items[i])

(* popitem(last=False) until both limits hold.                             *)
(* Mutant: only the number of items is limited.                            *)
Fits(items) == Len(items) <= MaxEntries /\ Total(items) <= MaxBytes

MutantCountsOnly(items) ==
  IF Len(items) > MaxEntries THEN Tail(items) ELSE items

Evict(items) ==
  CHOOSE s \in Suffixes(items) :
    Fits(s) /\ \A t \in Suffixes(items) : Fits(t) => Len(t) <= Len(s)

Answer(id, fingerprint, outcome) ==
  answer' = [id |-> id, fingerprint |-> fingerprint, outcome |-> outcome]

Used(id, size) ==
  since' = IF id = watched THEN [x \in RequestIds |-> 0]
           ELSE [since EXCEPT ![id] = IF size > @ THEN size ELSE @]

-----------------------------------------------------------------------------
(* _replay_response.  Mutant: the body of the request is not compared. *)
MutantReplay(id, fingerprint) ==
  /\ Cached(id)
  /\ cache' = Touch(cache, Place(id))
  /\ Answer(id, fingerprint, ItemOf(id).response)
  /\ Used(id, Size[ItemOf(id).response])
  /\ UNCHANGED <<bytes, watched, held>>

Replay(id, fingerprint) ==
  \/ /\ Cached(id)
     /\ LET item == ItemOf(id) IN
        /\ cache' = Touch(cache, Place(id))
        /\ Answer(id, fingerprint, IF item.fingerprint = fingerprint THEN item.response
                                   ELSE "RequestIdConflict")
        /\ Used(id, Size[item.response])
     /\ UNCHANGED <<bytes, watched, held>>
  \/ /\ ~Cached(id)
     /\ Answer(id, fingerprint, None)
     /\ UNCHANGED <<cache, bytes, history>>

(* _remember_response: call reaches it only with an id it did not find, so *)
(* the branch that replaces a previous item never runs.                    *)
Remember(id, fingerprint, response) ==
  /\ ~Cached(id)
  /\ IF Size[response] > MaxBytes
     THEN UNCHANGED <<cache, bytes, since>>
     ELSE LET item  == [id |-> id, fingerprint |-> fingerprint, response |-> response]
              grown == Append(cache, item)
              kept  == Evict(grown)
          IN /\ cache' = kept
             /\ bytes' = bytes + Size[response]
                          - Total(SubSeq(grown, 1, Len(grown) - Len(kept)))
             /\ Used(id, Size[response])
  /\ held' = IF id # watched THEN held
             ELSE IF Size[response] > MaxBytes THEN 0 ELSE Size[response]
  /\ UNCHANGED <<answer, watched>>

Init ==
  /\ cache = <<>> /\ bytes = 0 /\ answer = None
  /\ watched \in RequestIds /\ held = 0 /\ since = [id \in RequestIds |-> 0]

Next ==
  \E id \in RequestIds, f \in Fingerprints :
    Replay(id, f) \/ \E r \in Responses : Remember(id, f, r)

Spec == Init /\ [][Next]_vars

-----------------------------------------------------------------------------
(* Properties *)

(* Every variable keeps its type, and an id has one item. *)
TypeOK ==
  /\ cache \in Seq(Items)
  /\ \A i, j \in DOMAIN cache : cache[i].id = cache[j].id => i = j
  /\ bytes \in Nat
  /\ answer \in {None} \cup
       [id : RequestIds, fingerprint : Fingerprints,
        outcome : Responses \cup {None, "RequestIdConflict"}]

(* The byte count the limit is enforced with is that of the items held,    *)
(* and both limits hold after every call.                                  *)
LimitsKept == bytes = Total(cache) /\ Fits(cache)

(* A client may rely on a retry: the outcome of a request is still there   *)
(* as long as the requests used after it, together with it, stay within    *)
(* both limits.  A conflicting retry counts as a use.                      *)
RecentOutcomeKept ==
  LET others == {id \in RequestIds : since[id] # 0} IN
  held # 0 /\ Cardinality(others) < MaxEntries
           /\ held + SumFunctionOnSet(since, others) <= MaxBytes
    => Cached(watched)

(* The cache does what WorkerManager assumes of it. *)
Promise == INSTANCE ReplayPromise WITH
  remembered <- [id \in RequestIds |->
    IF Cached(id) THEN [fingerprint |-> ItemOf(id).fingerprint, response |-> ItemOf(id).response]
    ELSE None]

KeepsPromise == Promise!Spec

=============================================================================
