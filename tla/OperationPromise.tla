-------------------------- MODULE OperationPromise --------------------------
(***************************************************************************)
(* What the answer to a typed operation promises about the document, told  *)
(* without steps, snapshots or finally clauses.  The operation may touch   *)
(* the document any number of times before it answers:                     *)
(*   refused    an error without a mutation attempted: it did not touch it *)
(*   unchanged  a success of a read, or of a write that found the document *)
(*              as asked for: it did not touch it                          *)
(*   changed    a verified success: it did                                 *)
(*   uncertain  anything else, and the client must look                    *)
(***************************************************************************)
VARIABLES answer, touched

Answers == {"none", "refused", "unchanged", "changed", "uncertain"}

Init == answer = "none" /\ touched = FALSE

Touch == answer = "none" /\ touched' = TRUE /\ UNCHANGED answer

Reply(a) == answer = "none" /\ answer' = a /\ UNCHANGED touched

Refuse == ~touched /\ Reply("refused")
ReportUnchanged == ~touched /\ Reply("unchanged")
ReportChanged == touched /\ Reply("changed")
ReportUncertain == Reply("uncertain")

NextOperation == answer # "none" /\ answer' = "none" /\ touched' = FALSE

Next == Touch \/ Refuse \/ ReportUnchanged \/ ReportChanged \/ ReportUncertain \/ NextOperation

Spec == Init /\ [][Next]_<<answer, touched>>
=============================================================================
