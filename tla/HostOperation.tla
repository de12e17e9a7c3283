--------------------------- MODULE HostOperation ---------------------------
(***************************************************************************)
(* One typed operation on the worker's COM thread: execute_operation of    *)
(* daemon/operations.py, temporarily_activate of daemon/documents.py, the  *)
(* command sequence of hosts/native_sequence.py around them, and the       *)
(* handler with the host adapter it calls, a program of HostSteps.         *)
(*                                                                         *)
(* Every COM call may fail, before or after it took effect, and people at  *)
(* the same SOLIDWORKS may edit the document, switch its configuration or  *)
(* sketch edit, or bring another document to the front between two calls.  *)
(***************************************************************************)
EXTENDS HostDiscipline

CONSTANTS
  Programs,         \* the adapters, by name
  Places,           \* bound: the other configurations, edits and documents there are
  MaxInterference   \* bound: what people do while an operation runs, by program

ASSUME HostAssumption ==
  /\ Places \in Nat /\ MaxInterference \in [DOMAIN Programs -> Nat]
  /\ \A name \in DOMAIN Programs :
       Programs[name].claims \subseteq Claims /\ Programs[name].rules \subseteq Rules

\* The adapters are written alike; the theorems of HostOperation_proofs hold of
\* every table of programs that are.
ASSUME DisciplineAssumption == \A name \in DOMAIN Programs : Disciplined(Programs[name])

VARIABLES
  program,    \* the operation's adapter
  phase,      \* where execute_operation is: "enter", "resolve", "activate", "body",
              \* "always", "after", "restore", "describe", "leave", "validate", "done"
  todo,       \* the steps left of the block it is in
  doc,        \* what a comparison of each facet of the document would find
  held,       \* what the host really has lent out: "selection", "preferences",
              \* "mutex", "staging", "foreground", "command in progress", ...
  poisoned,   \* windows_stl_options: preferences could not be restored
  retired,    \* the worker has told its supervisor that the host is lost
  snaps,      \* snapshots the adapter took
  claimed,    \* what the adapter knows it must give back
  receipt,    \* the answer under construction; its error is "" or one of "failed",
              \* "invalid", "conflict", "unconfirmed", "inactive", "unrestored",
              \* "erased"
  changed,    \* history: this operation changed the document
  lost,       \* history: a native call reported a success it did not have
  unsaved,    \* history: ... and nobody has saved it since
  drift,      \* history: guarded facets that were not the first snapshot's when
              \* the document was touched, and that nobody has put back since
  published,  \* history: the requested file has been replaced
  people      \* interference left

native == <<doc, held, poisoned, retired>>
code == <<snaps, claimed, receipt>>
history == <<changed, unsaved, lost, drift, published>>
vars == <<program, phase, todo, native, code, history, people>>

\* The table itself: TLC evaluates a definition once, a substituted constant at
\* every use.
Operations == Programs

NoReceipt == [attempted |-> FALSE, unchanged |-> FALSE, error |-> "", reported |-> {}]
Still == [facet \in Facets |-> 0]

Running == todo # <<>>
Here == Head(todo)
Enter(block, steps) == phase' = block /\ todo' = steps
Claim(what) == what \in Operations[program].claims

\* The facets each adapter watches, and the stamp the client has read.
Watched ==
  [name \in DOMAIN Operations |->
     {"stamp"} \cup UNION {Operations[name].body[i].of : i \in 1..Len(Operations[name].body)}]

\* What it must find as it was, see HostDiscipline.
Guards == [name \in DOMAIN Operations |-> Guarded(Operations[name])]

\* What a watched facet may be next.  People who leave a configuration, a sketch
\* edit or a document may come back to it.
MayBecome(facet) ==
  IF facet \notin Watched[program] THEN {doc[facet]}
  ELSE IF facet \in Stamps THEN {doc[facet], doc[facet] + 1}
  ELSE IF facet \in Flags THEN 0..1
  ELSE 0..Places

Raised(facet) == MayBecome(facet) \cap {doc[facet], doc[facet] + 1}

\* A facet that is not what the first snapshot has, or not in it.
Away(content, facet) ==
  \/ "before" \notin DOMAIN snaps
  \/ facet \notin DOMAIN snaps["before"]
  \/ content[facet] # snaps["before"][facet]

\* The document moves on; what is back where it was is forgotten.
Drifts(facets) == drift' = {facet \in drift \cup facets : Away(doc', facet)}
\* Whoever saves the document saves what the operation changed.
Saved == doc["modified"] = 1 /\ doc'["modified"] = 0

NoProgram == "none"

Init ==
  /\ program = NoProgram
  /\ phase = "idle" /\ todo = <<>>
  /\ doc = Still /\ held = {} /\ poisoned = FALSE
  /\ retired = FALSE
  /\ snaps = <<>> /\ claimed = {} /\ receipt = NoReceipt
  /\ changed = FALSE /\ unsaved = FALSE /\ lost = FALSE /\ drift = {} /\ published = FALSE
  /\ people = 0

-----------------------------------------------------------------------------
(* native_api_sequence and execute_operation up to the handler *)

Answer(error) ==
  /\ receipt' = [receipt EXCEPT !.error = error]
  /\ phase' = "leave"

\* A request arrives, with the update stamp its client read, for a document
\* that may have unsaved changes already.
Request ==
  /\ phase = "idle"
  /\ program' \in DOMAIN Programs
  /\ doc' \in {doc} \cup IF "modified" \in Watched[program']
                       THEN {[doc EXCEPT !["modified"] = 1]} ELSE {}
  /\ phase' = "enter"
  /\ people' = MaxInterference[program']
  /\ UNCHANGED <<todo, held, poisoned, retired, code, history>>

\* CommandInProgress is set in a host the daemon owns, unless it is already;
\* a setter that raised may have set it.
EnterSequence ==
  /\ phase = "enter"
  /\ \/ phase' = "resolve" /\ UNCHANGED <<held, claimed, receipt>>
     \/ /\ claimed' = claimed \cup {"command in progress"}
        /\ \/ phase' = "resolve" /\ UNCHANGED receipt
              /\ held' = held \cup {"command in progress"}
           \/ Answer("failed") /\ held' \in {held, held \cup {"command in progress"}}
  /\ UNCHANGED <<program, todo, doc, poisoned, retired, snaps, history, people>>

\* validate_operation_request: the form of the request, before anything is
\* looked up.
RefuseRequest ==
  /\ phase = "resolve"
  /\ Answer("invalid")
  /\ UNCHANGED <<program, todo, native, snaps, claimed, history, people>>

\* documents.resolve and describe, and the client's expected_update_stamp
\* compared; the lease and the handles it names are found or refused.
Resolve ==
  /\ phase = "resolve"
  /\ \/ doc["stamp"] = 0 /\ phase' = "activate" /\ UNCHANGED receipt
     \/ Answer("conflict")
  /\ UNCHANGED <<program, todo, native, snaps, claimed, history, people>>

\* The target is in front already, or the operation needs no activation.
AlreadyActive ==
  /\ phase = "activate"
  /\ Enter("body", Operations[program].body)
  /\ UNCHANGED <<program, native, code, history, people>>

\* ActivateDoc3 and is_active; an activation that cannot be confirmed is
\* refused before the try block, so it is not undone.
Activate ==
  /\ phase = "activate" /\ Claim("activation")
  /\ \/ /\ Enter("body", Operations[program].body)
        /\ held' = held \cup {"foreground"} /\ claimed' = claimed \cup {"foreground"}
        /\ UNCHANGED receipt
     \/ /\ Answer("unconfirmed")
        /\ held' \in {held, held \cup {"foreground"}}
        /\ UNCHANGED <<claimed, todo>>
  /\ UNCHANGED <<program, doc, poisoned, retired, snaps, history, people>>

-----------------------------------------------------------------------------
(* The adapter *)

Advance == todo' = Tail(todo) /\ UNCHANGED phase
\* What is left of the block is skipped.
Abandon == todo' = <<>> /\ UNCHANGED phase

\* Mutant: a finally clause is tried again until it works.
MutantRaise ==
  /\ todo' = IF phase = "body" THEN <<>> ELSE todo
  /\ UNCHANGED phase
  /\ receipt' = [receipt EXCEPT !.error = IF @ = "" THEN "failed" ELSE @]

\* The exception ends the try block, or is collected where the code does.
Raise ==
  /\ IF phase = "body" /\ Here.on \in {"raise", "once"}
     THEN Abandon ELSE Advance
  /\ receipt' =
       [receipt EXCEPT
          !.error = IF @ # "" \/ Here.on = "warn" THEN @
                    ELSE IF Here.on = "collect" THEN "unrestored" ELSE "failed",
          !.reported = IF Here.do \in {"free", "drop"} THEN @ \cup {Here.at} ELSE @]

Ended(block) == phase = block /\ todo = <<>>

\* Mutant: a function that raised has no finally clauses.
MutantLeaveBody ==
  /\ Ended("body")
  /\ Enter("always", IF receipt.error = "" THEN Operations[program].always ELSE <<>>)
  /\ UNCHANGED <<program, native, code, history, people>>

\* The try block is over, then the finally clauses: the handler has its result.
LeaveBody ==
  /\ Ended("body")
  /\ Enter("always", Operations[program].always)
  /\ UNCHANGED <<program, native, code, history, people>>

LeaveAlways ==
  /\ Ended("always")
  /\ Enter("after", Operations[program].after)
  /\ UNCHANGED <<program, native, code, history, people>>

\* A finally clause whose condition does not hold.
Idle ==
  /\ Running /\ phase = "always"
  /\ \/ Here.do \in {"free", "drop"} /\ Here.at \notin claimed
     \/ Here.do \in {"same", "note"} /\ Here.at \notin DOMAIN snaps
  /\ Advance
  /\ UNCHANGED <<program, native, code, history, people>>

DoCheck ==
  /\ Running /\ Here.do = "check"
  /\ \/ Advance /\ UNCHANGED receipt
     \/ Raise
  /\ UNCHANGED <<program, native, snaps, claimed, history, people>>

DoRead ==
  /\ Running /\ Here.do = "read"
  /\ UNCHANGED doc
  /\ Drifts(IF Claim("observation") THEN Guards[program] ELSE {})
  /\ \/ Advance /\ UNCHANGED receipt
     \/ Raise
  /\ UNCHANGED <<program, held, poisoned, retired, snaps, claimed, changed, unsaved, lost,
                 published, people>>

\* The facets of one snapshot may be observed one after the other.
Observed ==
  LET known == IF Here.at \in DOMAIN snaps THEN DOMAIN snaps[Here.at] ELSE {}
  IN [f \in known \cup Here.of |-> IF f \in Here.of THEN doc[f] ELSE snaps[Here.at][f]]

DoSnap ==
  /\ Running /\ Here.do = "snap"
  /\ \/ /\ Advance
        /\ snaps' = [name \in DOMAIN snaps \cup {Here.at} |->
                       IF name = Here.at THEN Observed ELSE snaps[name]]
        /\ UNCHANGED receipt
     \/ Raise /\ UNCHANGED snaps
  /\ UNCHANGED <<program, native, claimed, history, people>>

Moved(name, of) == {f \in of \cap DOMAIN snaps[name] : doc[f] # snaps[name][f]}

\* Mutant: a repeated observation is held against the first but for its stamp.
MutantUnstamped ==
  /\ Running /\ Here.do = "same" /\ Here.at \in DOMAIN snaps
  /\ \/ Moved(Here.at, Here.of \ {"stamp"}) = {} /\ Advance /\ UNCHANGED receipt
     \/ Raise
  /\ UNCHANGED <<program, native, snaps, claimed, history, people>>

\* Mutant: it is enough that the stamp is the same.
MutantStampOnly ==
  /\ Running /\ Here.do = "same" /\ Here.at \in DOMAIN snaps
  /\ \/ Moved(Here.at, Here.of \cap {"stamp"}) = {} /\ Advance /\ UNCHANGED receipt
     \/ Raise
  /\ UNCHANGED <<program, native, snaps, claimed, history, people>>

DoSame ==
  /\ Running /\ Here.do = "same" /\ Here.at \in DOMAIN snaps
  /\ \/ Moved(Here.at, Here.of) = {} /\ Advance /\ UNCHANGED receipt
     \/ Raise
  /\ UNCHANGED <<program, native, snaps, claimed, history, people>>

DoClean ==
  /\ Running /\ Here.do = "clean" /\ Here.at \in DOMAIN snaps
  /\ \/ /\ \A flag \in Flags \cap DOMAIN snaps[Here.at] : snaps[Here.at][flag] = 0
        /\ Advance /\ UNCHANGED receipt
     \/ Raise
  /\ UNCHANGED <<program, native, snaps, claimed, history, people>>

DoAttempt ==
  /\ Running /\ Here.do = "attempt"
  /\ Advance
  /\ receipt' = [receipt EXCEPT !.attempted = TRUE]
  /\ UNCHANGED <<program, native, snaps, claimed, history, people>>

DoNote ==
  /\ Running /\ Here.do = "note" /\ Here.at \in DOMAIN snaps
  /\ Advance
  /\ receipt' = [receipt EXCEPT !.attempted = @ \/ Moved(Here.at, {"stamp"}) # {}]
  /\ UNCHANGED <<program, native, snaps, claimed, history, people>>

\* What touches the document, or makes a file of it, does so in the state the
\* document is in then.
DriftsByTouching == Drifts(IF Claim("observation") THEN {} ELSE Guards[program])

DoWrite ==
  /\ Running /\ Writes(Here)
  /\ \E effect \in BOOLEAN :
       /\ changed' = (changed \/ effect)
       /\ IF effect
          THEN \E stamp \in Raised("stamp"), flag \in Raised("modified") :
                 /\ Here.do = "write" => stamp # doc["stamp"]
                 /\ doc' = [doc EXCEPT !["stamp"] = stamp, !["modified"] = flag]
          ELSE UNCHANGED doc
       /\ unsaved' = (unsaved \/ effect)
       /\ \/ Advance /\ lost' = (lost \/ ~effect) /\ UNCHANGED receipt
          \/ Raise /\ UNCHANGED lost
  /\ DriftsByTouching
  /\ UNCHANGED <<program, held, poisoned, retired, snaps, claimed, published, people>>

\* The file holds the document as it is now; the call may disturb it.
DoProduce ==
  /\ Running /\ Here.do = "produce"
  /\ \E stamp \in MayBecome("stamp"), flag \in MayBecome("modified"),
        rebuild \in MayBecome("needs rebuild") :
       doc' = [doc EXCEPT !["stamp"] = stamp, !["modified"] = flag, !["needs rebuild"] = rebuild]
  /\ DriftsByTouching
  /\ unsaved' = (unsaved /\ ~Saved)
  /\ \/ Advance /\ lost' \in {lost, TRUE} /\ UNCHANGED receipt
     \/ Raise /\ UNCHANGED lost
  /\ UNCHANGED <<program, held, poisoned, retired, snaps, claimed, changed, published, people>>

DoStir ==
  /\ Running /\ Here.do = "stir"
  /\ \E stamp \in Raised("stamp") : doc' = [doc EXCEPT !["stamp"] = stamp]
  /\ Drifts({})
  /\ \/ Advance /\ UNCHANGED receipt
     \/ Raise
  /\ UNCHANGED <<program, held, poisoned, retired, snaps, claimed, changed, unsaved, lost,
                 published, people>>

DoMark ==
  /\ Running /\ Here.do = "mark"
  /\ \E flag \in Raised("modified") :
       /\ doc' = [doc EXCEPT !["modified"] = flag]
       /\ \/ flag = 1 /\ Advance /\ UNCHANGED receipt
          \/ Raise
  /\ Drifts({})
  /\ UNCHANGED <<program, held, poisoned, retired, snaps, claimed, changed, unsaved, lost,
                 published, people>>

\* Mutant: what a setter returns is taken for what it did.
MutantTrust ==
  /\ Running /\ Here.do = "verify"
  /\ \/ Advance /\ UNCHANGED receipt
     \/ Raise
  /\ UNCHANGED <<program, native, snaps, claimed, history, people>>

DoVerify ==
  /\ Running /\ Here.do = "verify"
  /\ \/ ~lost /\ Advance /\ UNCHANGED receipt
     \/ Raise
  /\ UNCHANGED <<program, native, snaps, claimed, history, people>>

DoUnchanged ==
  /\ Running /\ Here.do = "unchanged"
  /\ \/ Advance /\ UNCHANGED receipt
     \/ Abandon /\ receipt' = [receipt EXCEPT !.unchanged = TRUE]
  /\ UNCHANGED <<program, native, snaps, claimed, history, people>>

Unrestorable == {"preferences", "mutex"}

\* A poisoned process is refused by require_isolation before it borrows the
\* preferences again, and an abandoned mutex poisons it.
DoTake ==
  /\ Running /\ Here.do = "take"
  /\ \/ /\ ~(poisoned /\ Here.at \in Unrestorable)
        /\ claimed' = claimed \cup {Here.at} /\ held' = held \cup {Here.at}
        /\ UNCHANGED poisoned
        /\ \/ Advance /\ UNCHANGED receipt
           \/ Raise
     \/ /\ Raise
        /\ claimed' \in IF Here.at = "mutex" \/ poisoned THEN {claimed}
                        ELSE {claimed \cup {Here.at}}
        /\ poisoned' \in IF Here.at = "mutex" THEN {poisoned, TRUE} ELSE {poisoned}
        /\ UNCHANGED held
  /\ UNCHANGED <<program, doc, retired, snaps, history, people>>

DoFree ==
  /\ Running /\ Here.do = "free" /\ Here.at \in claimed
  /\ \/ /\ Advance
        /\ held' = held \ {Here.at} /\ claimed' = claimed \ {Here.at}
        /\ UNCHANGED <<receipt, poisoned>>
     \/ /\ Raise
        /\ held' \in {held, held \ {Here.at}}
        /\ claimed' = IF Here.on = "raise" THEN claimed ELSE claimed \ {Here.at}
        /\ poisoned' = (poisoned \/ Here.at \in Unrestorable)
  /\ UNCHANGED <<program, doc, retired, snaps, history, people>>

DoDrop ==
  /\ Running /\ Here.do = "drop" /\ Here.at \in claimed
  /\ held' \in {held, held \ {Here.at}}
  /\ claimed' = claimed \ {Here.at}
  /\ \/ Advance /\ UNCHANGED receipt
     \/ Raise
  /\ UNCHANGED <<program, doc, poisoned, retired, snaps, history, people>>

DoSettle ==
  /\ Running /\ Here.do = "settle"
  /\ Advance
  /\ held' = held \ {Here.at} /\ claimed' = claimed \ {Here.at}
  /\ UNCHANGED <<program, doc, poisoned, retired, snaps, receipt, history, people>>

DoPublish ==
  /\ Running /\ Here.do = "publish"
  /\ \/ /\ Advance
        /\ published' = TRUE
        /\ held' = held \ {"staging"} /\ claimed' = claimed \ {"staging"}
        /\ UNCHANGED receipt
     \/ Raise /\ UNCHANGED <<published, held, claimed>>
  /\ UNCHANGED <<program, doc, poisoned, retired, snaps, changed, unsaved, lost, drift, people>>

-----------------------------------------------------------------------------
(* The handler after its adapter, and execute_operation after the handler *)

\* Mutant: it is answered like a failure of the adapter that attempted nothing.
MutantErased == [NoReceipt EXCEPT !.error = "failed"]

\* An exception here takes the place of the result, and its receipt with it.
Erased == [NoReceipt EXCEPT !.error = "erased"]

LeaveHandler ==
  /\ Ended("after")
  /\ Enter("restore", <<>>)
  /\ UNCHANGED <<program, native, code, history, people>>

Finish ==
  /\ Running /\ Here.do \in {"describe", "validate", "register", "refresh"}
  /\ \/ Advance /\ UNCHANGED receipt
     \/ /\ \/ Here.on = "raise"
           \/ Here.on \in {"bind", "success"} /\ receipt.error = ""
        /\ receipt' = Erased
        /\ Abandon
     \/ /\ Here.on = "keep" \/ (Here.on = "bind" /\ receipt.error # "")
        /\ receipt' = [receipt EXCEPT !.error = IF @ = "" THEN "failed" ELSE @]
        /\ Advance
  /\ UNCHANGED <<program, native, snaps, claimed, history, people>>

\* The previous foreground comes back, or the result says that it did not: a
\* success becomes DocumentActivationFailed, and an exception stays as it was.
RestoreForeground ==
  /\ phase = "restore"
  /\ phase' = IF Claim("activation") /\ receipt.error # "erased" THEN "describe" ELSE "leave"
  /\ \/ /\ "foreground" \notin claimed
        /\ UNCHANGED <<held, claimed, receipt>>
     \/ /\ "foreground" \in claimed
        /\ claimed' = claimed \ {"foreground"}
        /\ \/ held' = held \ {"foreground"} /\ UNCHANGED receipt
           \/ /\ held' \in {held, held \ {"foreground"}}
              /\ receipt' = IF receipt.error = "erased" THEN receipt
                            ELSE [receipt EXCEPT !.error = IF @ = "" THEN "inactive" ELSE @,
                                                 !.reported = @ \cup {"foreground"}]
  /\ UNCHANGED <<program, todo, doc, poisoned, retired, snaps, history, people>>

\* An operation that activates its document describes it last of all.
DescribeActivated ==
  /\ phase = "describe"
  /\ phase' = "leave"
  /\ receipt' \in {receipt, Erased}
  /\ UNCHANGED <<program, todo, native, snaps, claimed, history, people>>

\* An exception left these answers; they are no results to validate.
Exceptions == {"erased", "invalid", "conflict", "unconfirmed"}
ResultOrException ==
  phase' = IF receipt.error \in Exceptions THEN "done" ELSE "validate"

\* The worker's answer when a result could not be completed: some operations
\* get their receipt into it.
Kept(error) ==
  IF Claim("kept") /\ receipt.error \notin Exceptions
  THEN [receipt EXCEPT !.error = IF @ = "" THEN error ELSE @]
  ELSE Erased

\* Mutant: the worker serves on when CommandInProgress was not cleared.
MutantLeaveSequence ==
  /\ phase = "leave"
  /\ ResultOrException
  /\ held' \in {held, held \ {"command in progress"}}
  /\ claimed' = claimed \ {"command in progress"}
  /\ UNCHANGED <<program, todo, doc, poisoned, retired, snaps, receipt, history, people>>

\* CommandInProgress is cleared and read back, or the worker retires after its
\* answer.
LeaveSequence ==
  /\ phase = "leave"
  /\ \/ /\ ResultOrException
        /\ held' = held \ {"command in progress"}
        /\ UNCHANGED <<receipt, retired>>
     \/ /\ "command in progress" \in claimed
        /\ phase' = "done"
        /\ retired' = TRUE
        /\ receipt' = Kept("unrestored")
        /\ UNCHANGED held
  /\ claimed' = claimed \ {"command in progress"}
  /\ UNCHANGED <<program, todo, doc, poisoned, snaps, history, people>>

\* A success whose evidence contradicts itself.
Contradicts ==
  LET rules == Operations[program].rules
  IN /\ receipt.error = ""
     /\ \/ "lifecycle" \in rules /\ receipt.unchanged = receipt.attempted
        \/ "modified" \in rules /\ receipt.attempted /\ doc["modified"] = 0
        \/ "readback" \in rules /\ lost
        \/ "one state" \in rules /\ Moved("before", {"stamp"}) # {}

\* validate_operation_result: a result the operation does not advertise, or one
\* that contradicts itself, is not sent.  An accepted one that says that STL
\* preferences were changed and not restored retires the worker; when only the
\* mutex was not given back, they had been written or not.  A rejected one says
\* nothing of them.
ValidateAnswer ==
  /\ phase = "validate"
  /\ phase' = "done"
  /\ \/ /\ ~Contradicts
        /\ retired' \in {"preferences" \in receipt.reported,
                        receipt.reported \cap Unrestorable # {}}
        /\ UNCHANGED receipt
     \/ receipt' = Kept("failed") /\ UNCHANGED retired
  /\ UNCHANGED <<program, todo, doc, held, poisoned, snaps, claimed, history, people>>

\* What of the session outlives an operation: people put the rest right.
LeftBehind(lent) ==
  (lent \cap {"command in progress", "earlier preferences"})
  \cup IF "preferences" \in lent THEN {"earlier preferences"} ELSE {}

\* The answer is sent and the next operation is read, or, once the worker has
\* retired, a client starts a new worker with a host of its own.
NextOperation ==
  /\ phase = "done"
  /\ program' = NoProgram /\ phase' = "idle" /\ todo' = <<>>
  /\ \/ ~retired /\ held' = LeftBehind(held) /\ UNCHANGED <<poisoned, retired>>
     \/ retired /\ held' = {} /\ poisoned' = FALSE /\ retired' = FALSE
  /\ doc' = Still
  /\ snaps' = <<>> /\ claimed' = {} /\ receipt' = NoReceipt
  /\ changed' = FALSE /\ unsaved' = FALSE /\ lost' = FALSE /\ drift' = {} /\ published' = FALSE
  /\ people' = 0

-----------------------------------------------------------------------------
(* People at the same SOLIDWORKS *)

\* They edit the document, save it, show another configuration or bring another
\* document to the front, and back: one facet at a time, an edit that raises the
\* stamp and the save flag being two in a row.  An edit that leaves a trace in
\* none of the facets is no step at all.  After the last description of the
\* document nothing looks at it any more.
Interfere ==
  /\ people > 0
  /\ phase \in {"resolve", "activate", "body", "always", "after"}
  /\ phase = "after" => Running
  /\ \E facet \in Watched[program] : \E value \in MayBecome(facet) \ {doc[facet]} :
       doc' = [doc EXCEPT ![facet] = value]
  /\ Drifts({})
  /\ unsaved' = (unsaved /\ ~Saved)
  /\ people' = people - 1
  /\ UNCHANGED <<program, phase, todo, held, poisoned, retired, code, changed, lost, published>>

Execute ==
  \/ EnterSequence \/ RefuseRequest \/ Resolve \/ AlreadyActive \/ Activate
  \/ LeaveBody \/ LeaveAlways \/ Idle
  \/ DoCheck \/ DoRead \/ DoSnap \/ DoSame \/ DoClean \/ DoAttempt \/ DoNote
  \/ DoWrite \/ DoMark \/ DoVerify \/ DoUnchanged
  \/ DoProduce \/ DoStir \/ DoTake \/ DoFree \/ DoDrop \/ DoSettle \/ DoPublish
  \/ LeaveHandler \/ Finish \/ RestoreForeground \/ DescribeActivated \/ LeaveSequence
  \/ ValidateAnswer

Next == Request \/ Execute \/ NextOperation \/ Interfere

Spec == Init /\ [][Next]_vars

-----------------------------------------------------------------------------
(* Properties *)

Answered == phase = "done"
Succeeded == Answered /\ receipt.error = ""

\* What the client may conclude from the answer.
Conclusion ==
  IF ~Answered THEN "none"
  ELSE IF Succeeded
    THEN IF receipt.unchanged \/ Claim("observation") THEN "unchanged"
         ELSE IF Claim("receipt") /\ Claim("verified") THEN "changed" ELSE "uncertain"
  ELSE IF /\ ~receipt.attempted
          /\ \/ receipt.error # "erased" /\ (Claim("receipt") \/ Claim("observation"))
             \/ Claim("kept")
    THEN "refused"
  ELSE "uncertain"

Promise == INSTANCE OperationPromise WITH answer <- Conclusion, touched <- changed

\* An error whose receipt has no attempted mutation, and a success that says
\* "unchanged", left the document alone; a verified success changed it: the
\* flag is raised before the first native setter in every adapter.  Only the
\* exception that replaces a result says nothing, and the operations that
\* guard their receipt never answer with it.
KeepsPromise == Promise!Spec

\* The reads of a successful answer saw the document in the state first observed,
\* as far as that state is compared: an edit that raised the stamp shows, and so
\* does a save flag, configuration, sketch edit or foreground that was another one
\* at a read, unless people have put it back before the comparison.
ConsistentObservation ==
  Succeeded /\ Claim("observation") => drift = {}

\* A successful write happened in the configuration, editing context, foreground
\* or source model the adapter had observed before it flagged the mutation, or in
\* one that people have left again for that before the comparison: contexts are
\* compared by name and by IsSame, and a visit leaves no trace.
WroteInItsContext ==
  Succeeded /\ Claim("context") => drift = {}

\* What the finally clauses give back with a readback is back when a result is
\* sent, or the result says that it is not; so is the document that was in
\* front, and a success has it back.
GivenBack(what) ==
  \/ Uses(Operations[program].always, "free", what)
  \/ what = "foreground" /\ receipt.error # "unconfirmed"
BorrowedIsGivenBack ==
  Answered /\ receipt.error # "erased" =>
    /\ \A what \in held : GivenBack(what) => what \in receipt.reported
    /\ Succeeded => "foreground" \notin held

\* A success that was verified is no call that only reported success, and a
\* changed setting that nobody saved meanwhile will be saved, although its
\* setter need not say so.
SuccessIsDurable ==
  Succeeded => /\ Claim("verified") => ~lost
               /\ Claim("saved") /\ unsaved => doc["modified"] = 1

\* The requested file is replaced only by one that was verified, and that of a
\* strict export, or of one with STL options, by one made of a source that was
\* observed before: its identity, save flag and need of a rebuild were the same
\* when the file was made, with options its stamp and configuration too, or
\* people, or a native save, have put them back before the comparison.
PublishedIsVerified ==
  published => /\ ~lost
               /\ Claim("source") => drift = {}

\* The next operation finds no command in progress that is not its own, and
\* STL preferences that were not put back only in a process that refuses to
\* touch them again.
UnknownStateIsFenced ==
  [][phase' = "idle" => /\ "command in progress" \notin held'
                        /\ "earlier preferences" \in held' => poisoned']_vars

Point == [enter |-> 1, resolve |-> 2, activate |-> 3, body |-> 4, always |-> 5, after |-> 6,
          restore |-> 7, describe |-> 8, leave |-> 9, validate |-> 10, done |-> 11, idle |-> 12]

\* Whatever fails, each step of the worker's thread leads towards the answer: to a
\* later point of execute_operation or nearer to the end of its block; no finally
\* clause is tried again.  What is left of it is finite and people's interference
\* is bounded, so every operation ends.
OperationAdvances ==
  [][\/ phase = "idle" \/ people' = people - 1
     \/ Point[phase'] > Point[phase]
     \/ phase' = phase /\ Len(todo') < Len(todo)]_vars

=============================================================================
