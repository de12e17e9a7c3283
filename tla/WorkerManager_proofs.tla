------------------------ MODULE WorkerManager_proofs ------------------------
(***************************************************************************)
(* Proofs about WorkerManager: type correctness, and that a supervisor     *)
(* which requires recovery dispatches nothing more, for any number of      *)
(* handler threads, requests and any failure limit.                        *)
(***************************************************************************)
EXTENDS WorkerManager, TLAPS

(* A thread that waits for the worker to end already holds its reply. *)
JoinerReplied == \A t \in Callers : pc[t] = "joining" => reply[t] \in Replies

TypeInv == TypeOK /\ JoinerReplied

USE ThreadsAssumption, FailureLimitAssumption DEF ThreadsAssumption, FailureLimitAssumption

(* The tuples of variables. *)
USE DEF queues, workerVars, threadVars, managerVars, otherVars, vars

-----------------------------------------------------------------------------
(* Type correctness *)

LEMMA InitTypeInv == Init => TypeInv
<1> SUFFICES ASSUME Init PROVE TypeInv
  OBVIOUS
<1> DEFINE first == CHOOSE a \in Asks : TRUE
<1>1. first \in Asks
  OBVIOUS
<1> HIDE DEF first
<1>2. asked \in [Callers -> Asks]
  BY <1>1 DEF Init, first
<1>3. current \in Requests
  <2>1. first.id \in RequestIds
    BY <1>1
  <2>2. QED
    BY <2>1 DEF Init, Requests, first
<1>4. pc \in [Threads -> {"new"}]
  BY DEF Init
<1>5. JoinerReplied
  BY <1>4 DEF JoinerReplied, Threads
<1>6. /\ executions \in [RequestIds -> Nat]
      /\ reply \in [Threads -> Replies \cup {None}]
      /\ cache \in [RequestIds -> Entries \cup {None}]
  BY DEF Init
<1>7. requestQ \in Seq(Requests) /\ responseQ \in Seq(Responses) /\ lifecycleQ \in Seq(Events)
  BY DEF Init
<1>8. /\ attached \in BOOLEAN /\ lostHost \in BOOLEAN /\ process \in BOOLEAN /\ stopTimedOut \in BOOLEAN
  BY DEF Init
<1>9. /\ phase \in Phases /\ failures \in Nat /\ host \in Nat /\ pid \in Nat /\ known \in Nat
      /\ lock \in Threads \cup {None} /\ recovery \in RecoveryCodes \cup {None}
      /\ server \in {"serving", "stopping", "closed", "exited"} /\ forgotten \subseteq RequestIds
  BY DEF Init, Phases
<1>10. pc \in [Threads -> {"new", "waiting", "done"} \cup CallPoints \cup StopPoints]
  BY <1>4
<1>11. QED
  BY <1>2, <1>3, <1>5, <1>6, <1>7, <1>8, <1>9, <1>10 DEF TypeInv, TypeOK, WorkerTypeOK, ThreadTypeOK, ManagerTypeOK

(* What the worker puts on its queues has the type of the queue. *)
LEMMA RespondType ==
  ASSUME TypeOK, NEW code \in ResponseCodes, Respond(code)
  PROVE  responseQ' \in Seq(Responses)
<1>1. [id |-> current.id, code |-> code] \in Responses
  BY DEF TypeOK, WorkerTypeOK, ThreadTypeOK, ManagerTypeOK, Requests, Responses
<1>2. QED
  BY <1>1 DEF TypeOK, WorkerTypeOK, ThreadTypeOK, ManagerTypeOK, Respond

LEMMA ReportType ==
  ASSUME TypeOK, NEW event \in Events, Report(event)
  PROVE  lifecycleQ' \in Seq(Events)
  BY DEF TypeOK, WorkerTypeOK, ThreadTypeOK, ManagerTypeOK, Report

(* What a refresh leaves has the right type. *)
LEMMA RefreshType ==
  ASSUME TypeOK, Refresh
  PROVE  /\ lifecycleQ' \in Seq(Events) /\ process' \in BOOLEAN /\ known' \in Nat
         /\ recovery' \in RecoveryCodes \cup {None}
         /\ RefreshedRecovery \in RecoveryCodes \cup {None}
  BY DEF TypeOK, WorkerTypeOK, ThreadTypeOK, ManagerTypeOK, Refresh, RefreshedProcess, RefreshedKnown, RefreshedRecovery,
         RecoveryCodes, Alive

(* Remembering a reply keeps the cache a map from ids to entries. *)
LEMMA RememberType ==
  ASSUME TypeOK, NEW id \in RequestIds, NEW fingerprint \in Fingerprints,
         NEW response \in Replies, Remember(id, fingerprint, response)
  PROVE  cache' \in [RequestIds -> Entries \cup {None}] /\ forgotten' \subseteq RequestIds
<1>1. [fingerprint |-> fingerprint, response |-> response] \in Entries
  BY DEF Entries
<1>2. QED
  BY <1>1 DEF TypeOK, WorkerTypeOK, ThreadTypeOK, ManagerTypeOK, Remember

(* A step of the worker or the host. *)
LEMMA WorkerType ==
  ASSUME TypeInv, WorkerNext, UNCHANGED <<threadVars, managerVars, otherVars>>
  PROVE  TypeInv'
<1> USE DEF TypeInv, TypeOK, WorkerTypeOK, ThreadTypeOK, ManagerTypeOK, JoinerReplied
<1> "startup-failed" \in Events /\ "host-acquired" \in Events /\ "ready" \in Events
    /\ "host-disconnected" \in Events
  BY DEF Events
<1> ResponseCodes = {"ok", "failed", "stopping", "HostBusy", "ActiveDocument",
                     "HostDisconnected", "NativeCommandRestoreFailed"}
  BY DEF ResponseCodes
<1> USE RespondType, ReportType DEF Phases
<1>1. CASE AcquireHost
  <2>1. host' \in Nat /\ pid' \in Nat
    BY <1>1 DEF AcquireHost
  <2>2. QED
    BY <1>1, <2>1 DEF AcquireHost
<1>2. CASE ReportHost
  BY <1>2 DEF ReportHost
<1>3. CASE BecomeReady
  BY <1>3 DEF BecomeReady
<1>4. CASE StartupFails
  BY <1>4 DEF StartupFails
<1>5. CASE TakeRequest
  <2>1. Head(requestQ) \in Requests /\ Tail(requestQ) \in Seq(Requests)
    BY <1>5 DEF TakeRequest
  <2>2. QED
    BY <1>5, <2>1 DEF TakeRequest
<1>6. CASE IdleProbeSucceeds
  BY <1>6 DEF IdleProbeSucceeds
<1>7. CASE IdleProbeFails
  <2>1. failures' \in Nat
    BY <1>7 DEF IdleProbeFails
  <2>2. phase' \in Phases
    BY <1>7 DEF IdleProbeFails
  <2>3. lostHost' \in BOOLEAN
    BY <1>7 DEF IdleProbeFails
  <2>4. lifecycleQ' \in Seq(Events)
    BY <1>7 DEF IdleProbeFails
  <2>5. QED
    BY <1>7, <2>4, <2>1, <2>2, <2>3 DEF IdleProbeFails
<1>8. CASE ProbeRejected
  BY <1>8 DEF ProbeRejected
<1>9. CASE ProbeDisconnected
  BY <1>9 DEF ProbeDisconnected
<1>10. CASE RefuseShutdown
  BY <1>10 DEF RefuseShutdown
<1>11. CASE AcceptShutdown
  BY <1>11 DEF AcceptShutdown
<1>12. CASE Dispatch
  <2>1. current.id \in RequestIds
    BY DEF Requests
  <2>2. executions' \in [RequestIds -> Nat]
    BY <1>12, <2>1 DEF Dispatch
  <2>3. QED
    BY <1>12, <2>2 DEF Dispatch
<1>13. CASE Complete
  BY <1>13 DEF Complete
<1>14. CASE CompleteUnrestored
  BY <1>14 DEF CompleteUnrestored
<1>15. CASE Retire
  BY <1>15 DEF Retire
<1>16. CASE CleanUp
  BY <1>16 DEF CleanUp
<1>17. CASE Crash
  BY <1>17 DEF Crash
<1>18. CASE HostExits
  BY <1>18 DEF HostExits
<1>19. QED
  BY <1>1, <1>2, <1>3, <1>4, <1>5, <1>6, <1>7, <1>8, <1>9, <1>10, <1>11,
     <1>12, <1>13, <1>14, <1>15, <1>16, <1>17, <1>18 DEF WorkerNext

(* Terminating the worker, replying and moving to another point keep types. *)
LEMMA TerminateType ==
  ASSUME TypeOK, NEW force \in BOOLEAN, Terminate(force)
  PROVE  phase' \in Phases /\ host' \in Nat /\ process' \in BOOLEAN /\ known' \in Nat
  BY DEF TypeOK, WorkerTypeOK, ThreadTypeOK, ManagerTypeOK, Terminate, Phases

LEMMA ReturnType ==
  ASSUME TypeInv, NEW t \in Threads, NEW response \in Replies, Return(t, response)
  PROVE  ThreadTypeOK' /\ JoinerReplied'
<1> USE DEF TypeInv, TypeOK, WorkerTypeOK, ThreadTypeOK, ManagerTypeOK, Return
<1>1. ThreadTypeOK'
  OBVIOUS
<1>2. JoinerReplied'
  BY DEF JoinerReplied, Threads
<1>3. QED
  BY <1>1, <1>2

LEMMA GotoType ==
  ASSUME TypeInv, NEW t \in Threads,
         NEW point \in (CallPoints \cup StopPoints) \ {"joining"}, Goto(t, point)
  PROVE  ThreadTypeOK' /\ JoinerReplied'
<1> USE DEF TypeInv, TypeOK, WorkerTypeOK, ThreadTypeOK, ManagerTypeOK, Goto
<1>1. ThreadTypeOK'
  OBVIOUS
<1>2. JoinerReplied'
  BY DEF JoinerReplied, Threads
<1>3. QED
  BY <1>1, <1>2

(* A reply of the supervisor's own making, and a worker's, are replies. *)
LEMMA ErrorType ==
  ASSUME NEW id \in RequestIds, NEW code \in ResponseCodes \cup SupervisorCodes
  PROVE  Error(id, code) \in Replies
  BY DEF Error, Replies

LEMMA AskedType ==
  ASSUME TypeOK, NEW t \in Callers
  PROVE  asked[t].id \in RequestIds /\ asked[t].fingerprint \in Fingerprints
  BY DEF TypeOK, WorkerTypeOK, ThreadTypeOK, ManagerTypeOK

(* Settling a call, whatever response it settles on. *)
LEMMA SettleType ==
  ASSUME TypeInv, NEW t \in Callers, NEW response \in Replies, Settle(t, response)
  PROVE  /\ ThreadTypeOK' /\ JoinerReplied'
         /\ cache' \in [RequestIds -> Entries \cup {None}] /\ forgotten' \subseteq RequestIds
<1>1. ThreadTypeOK' /\ JoinerReplied'
  BY ReturnType DEF Settle, Threads
<1>2. QED
  BY <1>1, AskedType, RememberType DEF Settle, TypeInv

LEMMA ResponseType ==
  ASSUME TypeOK, responseQ # <<>>
  PROVE  Head(responseQ) \in Replies /\ Tail(responseQ) \in Seq(Responses)
<1>1. Head(responseQ) \in Responses /\ Tail(responseQ) \in Seq(Responses)
  BY DEF TypeOK, WorkerTypeOK
<1>2. QED
  BY <1>1 DEF Responses, Replies

LEMMA EventType ==
  ASSUME TypeOK, lifecycleQ # <<>>
  PROVE  Tail(lifecycleQ) \in Seq(Events)
  BY DEF TypeOK, WorkerTypeOK

LEMMA SendType ==
  ASSUME TypeOK, NEW t \in Callers, SendTo(t)
  PROVE  requestQ' \in Seq(Requests)
<1>1. [id |-> asked[t].id, op |-> "typed"] \in Requests
  BY AskedType DEF Requests
<1>2. QED
  BY <1>1 DEF SendTo, TypeOK, WorkerTypeOK

(* A step of a thread inside WorkerManager.call. *)
LEMMA CallType ==
  ASSUME TypeInv, NEW t \in Callers, CallStep(t)
  PROVE  TypeInv'
<1> USE AskedType, ErrorType DEF TypeInv, TypeOK, WorkerTypeOK, ManagerTypeOK, Enter
<1> t \in Threads
  BY DEF Threads
<1> {"dispatch", "starting", "awaiting"} \subseteq (CallPoints \cup StopPoints) \ {"joining"}
  BY DEF CallPoints
<1> RecoveryCodes \cup {"WorkerTimeout", "RequestIdConflict", "WorkerStartupError"}
      \subseteq SupervisorCodes
  BY DEF SupervisorCodes
<1>1. CASE CallReplays(t)
  <2>1. cache[asked[t].id] # None => cache[asked[t].id].response \in Replies
    BY DEF Entries
  <2>2. ThreadTypeOK' /\ JoinerReplied'
    BY <1>1, <2>1, ReturnType DEF CallReplays
  <2>3. QED
    BY <1>1, <2>2, RefreshType DEF CallReplays
<1>2. CASE CallBlocked(t)
  <2>1. Error(asked[t].id, RefreshedRecovery) \in Replies
    BY <1>2, RefreshType DEF CallBlocked
  <2>2. QED
    BY <1>2, <2>1, RefreshType, SettleType DEF CallBlocked
<1>3. CASE CallProceeds(t)
  BY <1>3, RefreshType, GotoType DEF CallProceeds
<1>4. CASE CallSends(t)
  BY <1>4, SendType, GotoType DEF CallSends
<1>5. CASE CallStarts(t)
  <2>1. phase' \in Phases
    BY <1>5 DEF CallStarts, Phases
  <2>2. QED
    BY <1>5, <2>1, GotoType DEF CallStarts
<1>6. CASE HostAcquired(t)
  BY <1>6, EventType DEF HostAcquired, ThreadTypeOK, JoinerReplied
<1>7. CASE WorkerReady(t)
  BY <1>7, EventType, SendType, GotoType DEF WorkerReady
<1>8. CASE StartFails(t)
  BY <1>8, EventType, TerminateType, ReturnType DEF StartFails
<1>9. CASE CallReceives(t)
  <2>1. Head(responseQ) \in Replies /\ responseQ' \in Seq(Responses)
    BY <1>9, ResponseType DEF CallReceives
  <2>2. CASE Head(responseQ).code \in {"HostDisconnected", "NativeCommandRestoreFailed"}
    <3>1. recovery' \in RecoveryCodes
      BY <1>9, <2>2 DEF CallReceives, RecoveryCodes
    <3>2. /\ reply' = [reply EXCEPT ![t] = Head(responseQ)]
          /\ pc' = [pc EXCEPT ![t] = "joining"]
          /\ UNCHANGED <<lock, asked, cache, forgotten>>
      BY <1>9, <2>2 DEF CallReceives
    <3>3. ThreadTypeOK'
      BY <2>1, <3>2 DEF ThreadTypeOK, CallPoints
    <3>4. JoinerReplied'
      BY <2>1, <3>2 DEF JoinerReplied, ThreadTypeOK, Threads
    <3>5. QED
      BY <1>9, <2>1, <3>1, <3>2, <3>3, <3>4 DEF CallReceives
  <2>3. CASE Head(responseQ).code \notin {"HostDisconnected", "NativeCommandRestoreFailed"}
    BY <1>9, <2>1, <2>3, SettleType DEF CallReceives
  <2>4. QED
    BY <2>2, <2>3
<1>10. CASE CallTimesOut(t)
  <2>1. recovery' \in RecoveryCodes \cup {None}
    BY <1>10 DEF CallTimesOut, RecoveryCodes
  <2>2. QED
    BY <1>10, <2>1, TerminateType, SettleType DEF CallTimesOut
<1>11. CASE CallJoins(t)
  <2>1. reply[t] \in Replies
    BY <1>11 DEF CallJoins, JoinerReplied
  <2>2. phase' \in Phases /\ host' \in Nat /\ process' \in BOOLEAN /\ known' \in Nat
    <3>1. CASE ~Alive /\ reply[t].code = "HostDisconnected"
      <4>1. process' = FALSE /\ known' = 0 /\ UNCHANGED <<phase, host>>
        BY <1>11, <3>1 DEF CallJoins
      <4>2. QED
        BY <4>1
    <3>2. CASE ~(~Alive /\ reply[t].code = "HostDisconnected")
      <4> DEFINE force == reply[t].code = "NativeCommandRestoreFailed"
      <4>1. force \in BOOLEAN /\ Terminate(force)
        BY <1>11, <3>2 DEF CallJoins
      <4> HIDE DEF force
      <4>2. QED
        BY <4>1, TerminateType
    <3>3. QED
      BY <3>1, <3>2
  <2>3. QED
    BY <1>11, <2>1, <2>2, SettleType DEF CallJoins
<1>12. QED
  BY <1>1, <1>2, <1>3, <1>4, <1>5, <1>6, <1>7, <1>8, <1>9, <1>10, <1>11 DEF CallStep

(* A step of a thread inside WorkerManager.shutdown. *)
LEMMA StopType ==
  ASSUME TypeInv, NEW t \in Stoppers, StopStep(t)
  PROVE  TypeInv'
<1> USE ErrorType DEF TypeInv, TypeOK, WorkerTypeOK, ManagerTypeOK
<1> t \in Threads
  BY DEF Threads
<1> StopId[t] \in RequestIds
  OBVIOUS
<1> {"stopping", "stop-joining"} \subseteq (CallPoints \cup StopPoints) \ {"joining"}
  BY DEF StopPoints
<1> {"stopping", "ShutdownTimeout"} \subseteq ResponseCodes \cup SupervisorCodes
  BY DEF ResponseCodes, SupervisorCodes
<1>1. ASSUME NEW response \in Replies, ReturnStopped(t, response)
      PROVE  /\ ThreadTypeOK' /\ JoinerReplied'
             /\ server' \in {"serving", "stopping", "closed", "exited"}
  BY <1>1, ReturnType DEF ReturnStopped
<1>2. CASE StopEnters(t)
  <2>1. [id |-> StopId[t], op |-> "shutdown"] \in Requests
    BY DEF Requests
  <2>2. CASE RefreshedProcess
    <3>1. /\ requestQ' = Append(requestQ, [id |-> StopId[t], op |-> "shutdown"])
          /\ Goto(t, "stopping") /\ UNCHANGED server
      BY <1>2, <2>2 DEF StopEnters
    <3>2. requestQ' \in Seq(Requests)
      BY <2>1, <3>1
    <3>3. ThreadTypeOK' /\ JoinerReplied'
      BY <3>1, GotoType
    <3>4. QED
      BY <1>2, <3>1, <3>2, <3>3, RefreshType DEF StopEnters, Enter
  <2>3. CASE ~RefreshedProcess
    BY <1>1, <1>2, <2>3, RefreshType DEF StopEnters, Enter
  <2>4. QED
    BY <2>2, <2>3
<1>3. CASE StopReceives(t)
  <2>1. Head(responseQ) \in Replies /\ responseQ' \in Seq(Responses)
    BY <1>3, ResponseType DEF StopReceives
  <2>2. CASE Head(responseQ).code = "HostDisconnected"
    BY <1>3, <2>1, <2>2, GotoType DEF StopReceives, RecoveryCodes
  <2>3. CASE Head(responseQ).code # "HostDisconnected"
    BY <1>1, <1>3, <2>1, <2>3 DEF StopReceives
  <2>4. QED
    BY <2>2, <2>3
<1>4. CASE StopJoins(t)
  <2>1. phase' \in Phases /\ host' \in Nat /\ process' \in BOOLEAN /\ known' \in Nat
    <3>1. CASE ~Alive
      <4>1. process' = FALSE /\ known' = 0 /\ UNCHANGED <<phase, host>>
        BY <1>4, <3>1 DEF StopJoins
      <4>2. QED
        BY <4>1
    <3>2. CASE Alive
      BY <1>4, <3>2, TerminateType DEF StopJoins
    <3>3. QED
      BY <3>1, <3>2
  <2>2. QED
    BY <1>1, <1>4, <2>1 DEF StopJoins
<1>5. CASE StopPolls(t)
  <2>1. CASE ReturnStopped(t, Error(StopId[t], "stopping")) /\ UNCHANGED stopTimedOut
    BY <1>1, <1>5, <2>1, RefreshType DEF StopPolls
  <2>2. CASE /\ Return(t, Error(StopId[t], "ShutdownTimeout"))
             /\ stopTimedOut' = TRUE /\ UNCHANGED server
    BY <1>5, <2>2, ReturnType, RefreshType DEF StopPolls
  <2>3. CASE UNCHANGED <<threadVars, server, stopTimedOut>>
    BY <1>5, <2>3, RefreshType DEF StopPolls, ThreadTypeOK, JoinerReplied
  <2>4. QED
    BY <1>5, <2>1, <2>2, <2>3 DEF StopPolls
<1>6. QED
  BY <1>2, <1>3, <1>4, <1>5 DEF StopStep

LEMMA ArriveType ==
  ASSUME TypeInv, NEW t \in Threads, Arrive(t)
  PROVE  TypeInv'
<1> USE DEF TypeInv, TypeOK, WorkerTypeOK, ManagerTypeOK, ThreadTypeOK, Arrive
<1>1. asked' \in [Callers -> Asks]
  <2>1. CASE t \in Callers
    <3>1. PICK a \in Asks : asked' = [asked EXCEPT ![t] = a]
      BY <2>1
    <3>2. QED
      BY <3>1
  <2>2. CASE t \notin Callers
    BY <2>2
  <2>3. QED
    BY <2>1, <2>2
<1>2. pc' \in [Threads -> {"new", "waiting", "done"} \cup CallPoints \cup StopPoints]
  OBVIOUS
<1>3. JoinerReplied'
  BY DEF JoinerReplied, Threads
<1>4. QED
  BY <1>1, <1>2, <1>3

LEMMA HealthType ==
  ASSUME TypeInv, Health
  PROVE  TypeInv'
<1> USE DEF TypeInv, TypeOK, WorkerTypeOK, ManagerTypeOK, ThreadTypeOK, JoinerReplied
<1>1. QED
  BY RefreshType DEF Health

LEMMA CloseType ==
  ASSUME TypeInv, Close
  PROVE  TypeInv'
<1> USE DEF TypeInv, TypeOK, WorkerTypeOK, ManagerTypeOK, ThreadTypeOK, JoinerReplied
<1>1. QED
  BY TerminateType DEF Close

LEMMA ExitType ==
  ASSUME TypeInv, ExitProcess
  PROVE  TypeInv'
  BY DEF ExitProcess, TypeInv, TypeOK, WorkerTypeOK, ManagerTypeOK, ThreadTypeOK, JoinerReplied

LEMMA StutterType ==
  ASSUME TypeInv, UNCHANGED vars
  PROVE  TypeInv'
  BY DEF TypeInv, TypeOK, WorkerTypeOK, ManagerTypeOK, ThreadTypeOK, JoinerReplied

(* Every variable keeps its type in every behaviour. *)
LEMMA TypeInvariant == Spec => []TypeInv
<1>1. TypeInv /\ [Next]_vars => TypeInv'
  BY WorkerType, CallType, StopType, ArriveType, HealthType, CloseType, ExitType, StutterType DEF Next
<1>2. QED
  BY InitTypeInv, <1>1, PTL DEF Spec

(* TypeOK is an invariant of the supervisor and its worker. *)
THEOREM TypeCorrect == Spec => []TypeOK
<1>1. TypeInv => TypeOK
  BY DEF TypeInv
<1>2. QED
  BY TypeInvariant, <1>1, PTL

-----------------------------------------------------------------------------
(* Recovery blocks dispatch *)

LEMMA InitRecoveryInv == Init => RecoveryInv
<1> SUFFICES ASSUME Init PROVE RecoveryInv
  OBVIOUS
<1> USE DEF Init
<1>1. LockInv /\ PastCheckInv
  BY DEF LockInv, PastCheckInv, InLock, CallPoints, StopPoints, Threads
<1>2. ProcessInv /\ BlockedInv
  BY DEF ProcessInv, BlockedInv
<1>3. EventInv /\ ResponseInv
  BY DEF EventInv, ResponseInv, Disconnected, LossAnswered
<1>4. QED
  BY <1>1, <1>2, <1>3 DEF RecoveryInv

(* Appending to a queue shows nothing but what is appended. *)
LEMMA ReportShows ==
  ASSUME TypeOK, NEW event \in Events, Report(event), Disconnected'
  PROVE  Disconnected \/ event = "host-disconnected"
<1> USE DEF TypeOK, WorkerTypeOK
<1>1. PICK i \in DOMAIN lifecycleQ' : lifecycleQ'[i] = "host-disconnected"
  BY DEF Disconnected
<1>2. lifecycleQ' = Append(lifecycleQ, event)
  BY DEF Report
<1>3. CASE i \in DOMAIN lifecycleQ
  BY <1>1, <1>2, <1>3 DEF Disconnected
<1>4. CASE i \notin DOMAIN lifecycleQ
  <2>1. i = Len(lifecycleQ) + 1
    BY <1>1, <1>2, <1>4
  <2>2. lifecycleQ'[i] = event
    BY <1>2, <2>1
  <2>3. QED
    BY <1>1, <2>2
<1>5. QED
  BY <1>3, <1>4

LEMMA RespondShows ==
  ASSUME TypeOK, NEW code \in ResponseCodes, Respond(code), LossAnswered'
  PROVE  LossAnswered \/ code \in LossCodes
<1> USE DEF TypeOK, WorkerTypeOK
<1>1. PICK i \in DOMAIN responseQ' : responseQ'[i].code \in LossCodes
  BY DEF LossAnswered, LossCodes
<1>2. responseQ' = Append(responseQ, [id |-> current.id, code |-> code])
  BY DEF Respond
<1>3. CASE i \in DOMAIN responseQ
  BY <1>1, <1>2, <1>3 DEF LossAnswered
<1>4. CASE i \notin DOMAIN responseQ
  BY <1>1, <1>2, <1>4
<1>5. QED
  BY <1>3, <1>4

(* Taking from a queue shows nothing new. *)
LEMMA TailShows ==
  ASSUME TypeOK
  PROVE  /\ lifecycleQ # <<>> /\ lifecycleQ' = Tail(lifecycleQ) /\ Disconnected' => Disconnected
         /\ responseQ # <<>> /\ responseQ' = Tail(responseQ) /\ LossAnswered' => LossAnswered
         /\ responseQ # <<>> /\ Head(responseQ).code \in LossCodes => LossAnswered
<1> USE DEF TypeOK, WorkerTypeOK
<1>1. ASSUME lifecycleQ # <<>>, lifecycleQ' = Tail(lifecycleQ), Disconnected'
      PROVE  Disconnected
  <2>1. PICK i \in 1..Len(lifecycleQ') : lifecycleQ'[i] = "host-disconnected"
    BY <1>1 DEF Disconnected
  <2>2. i + 1 \in DOMAIN lifecycleQ /\ lifecycleQ[i + 1] = "host-disconnected"
    BY <1>1, <2>1
  <2>3. QED
    BY <2>2 DEF Disconnected
<1>2. ASSUME responseQ # <<>>, responseQ' = Tail(responseQ), LossAnswered'
      PROVE  LossAnswered
  <2>1. PICK i \in 1..Len(responseQ') : responseQ'[i].code \in LossCodes
    BY <1>2 DEF LossAnswered, LossCodes
  <2>2. i + 1 \in DOMAIN responseQ /\ responseQ[i + 1].code \in LossCodes
    BY <1>2, <2>1
  <2>3. QED
    BY <2>2 DEF LossAnswered
<1>3. ASSUME responseQ # <<>>, Head(responseQ).code \in LossCodes
      PROVE  LossAnswered
  <2>1. 1 \in DOMAIN responseQ /\ Head(responseQ) = responseQ[1]
    BY <1>3
  <2>2. QED
    BY <1>3, <2>1 DEF LossAnswered
<1>4. QED
  BY <1>1, <1>2, <1>3

LEMMA WorkerRecovery ==
  ASSUME TypeInv, RecoveryInv, WorkerNext, UNCHANGED <<threadVars, managerVars, otherVars>>
  PROVE  RecoveryInv'
<1> USE DEF TypeInv, RecoveryInv
<1>1. LockInv' /\ PastCheckInv'
  BY DEF LockInv, PastCheckInv, InLock
<1> DEFINE Goal == ProcessInv' /\ EventInv' /\ ResponseInv' /\ BlockedInv'
<1>0. SUFFICES Goal
  BY <1>1
<1> HIDE DEF Goal
<1> "startup-failed" \in Events /\ "host-acquired" \in Events /\ "ready" \in Events
    /\ "host-disconnected" \in Events
  BY DEF Events
<1> ResponseCodes = {"ok", "failed", "stopping", "HostBusy", "ActiveDocument",
                     "HostDisconnected", "NativeCommandRestoreFailed"}
  BY DEF ResponseCodes
<1> LossCodes = {"HostDisconnected", "NativeCommandRestoreFailed"}
  BY DEF LossCodes
<1> UNCHANGED lifecycleQ => (Disconnected' <=> Disconnected)
  BY DEF Disconnected
<1> UNCHANGED responseQ => (LossAnswered' <=> LossAnswered)
  BY DEF LossAnswered, LossCodes
<1> USE ReportShows, RespondShows
    DEF ProcessInv, EventInv, ResponseInv, BlockedInv, Ended, Alive, Goal
<1>2. CASE AcquireHost
  BY <1>2 DEF AcquireHost
<1>3. CASE ReportHost
  BY <1>3 DEF ReportHost
<1>4. CASE BecomeReady
  BY <1>4 DEF BecomeReady
<1>5. CASE StartupFails
  BY <1>5 DEF StartupFails
<1>6. CASE TakeRequest
  BY <1>6 DEF TakeRequest
<1>7. CASE IdleProbeSucceeds
  BY <1>7 DEF IdleProbeSucceeds
<1>8. CASE IdleProbeFails
  BY <1>8 DEF IdleProbeFails
<1>9. CASE ProbeRejected
  BY <1>9 DEF ProbeRejected
<1>10. CASE ProbeDisconnected
  BY <1>10 DEF ProbeDisconnected
<1>11. CASE RefuseShutdown
  BY <1>11 DEF RefuseShutdown
<1>12. CASE AcceptShutdown
  BY <1>12 DEF AcceptShutdown
<1>13. CASE Dispatch
  BY <1>13 DEF Dispatch
<1>14. CASE Complete
  BY <1>14 DEF Complete
<1>15. CASE CompleteUnrestored
  BY <1>15 DEF CompleteUnrestored
<1>16. CASE Retire
  BY <1>16 DEF Retire
<1>17. CASE CleanUp
  BY <1>17 DEF CleanUp
<1>18. CASE Crash
  BY <1>18 DEF Crash
<1>19. CASE HostExits
  BY <1>19 DEF HostExits
<1>20. QED
  BY <1>2, <1>3, <1>4, <1>5, <1>6, <1>7, <1>8, <1>9, <1>10, <1>11, <1>12,
     <1>13, <1>14, <1>15, <1>16, <1>17, <1>18, <1>19 DEF WorkerNext

(* What a refresh finds: any recovery it sets is that of an ended worker. *)
LEMMA RefreshRecovery ==
  ASSUME TypeInv, RecoveryInv, Refresh, UNCHANGED <<phase, responseQ>>
  PROVE  /\ ProcessInv' /\ EventInv' /\ ResponseInv' /\ BlockedInv'
         /\ recovery' = RefreshedRecovery
<1> USE DEF RecoveryInv, Refresh
<1>1. ProcessInv'
  BY DEF ProcessInv, RefreshedProcess, Alive
<1>2. EventInv'
  BY DEF EventInv, Disconnected
<1>3. ResponseInv'
  BY DEF ResponseInv, LossAnswered, LossCodes, Ended
<1>4. BlockedInv'
  BY DEF BlockedInv, EventInv, RefreshedRecovery, Ended, Alive
<1>5. QED
  BY <1>1, <1>2, <1>3, <1>4

(* The lock after a thread returns or moves on. *)
LEMMA ReturnLock ==
  ASSUME TypeInv, LockInv, NEW t \in Threads, lock \in {None, t},
         NEW response, Return(t, response)
  PROVE  LockInv' /\ \A u \in Threads : pc'[u] \notin CallPoints \cup StopPoints
<1> USE DEF TypeInv, TypeOK, ThreadTypeOK, Return, LockInv, InLock
<1>1. pc'[t] = "done" /\ \A u \in Threads \ {t} : pc'[u] = pc[u]
  OBVIOUS
<1>2. \A u \in Threads \ {t} : pc[u] \notin CallPoints \cup StopPoints
  BY DEF Threads
<1>3. "done" \notin CallPoints \cup StopPoints
  BY DEF CallPoints, StopPoints
<1>4. \A u \in Threads : pc'[u] \notin CallPoints \cup StopPoints
  BY <1>1, <1>2, <1>3
<1>5. QED
  BY <1>4

LEMMA GotoLock ==
  ASSUME TypeInv, LockInv, NEW t \in Threads, lock \in {None, t}, NEW point, Goto(t, point)
  PROVE  /\ LockInv' /\ pc'[t] = point
         /\ \A u \in Threads \ {t} : pc'[u] \notin CallPoints \cup StopPoints
<1> USE DEF TypeInv, TypeOK, ThreadTypeOK, Goto, LockInv, InLock
<1>1. pc'[t] = point /\ \A u \in Threads \ {t} : pc'[u] = pc[u]
  OBVIOUS
<1>2. \A u \in Threads \ {t} : pc[u] \notin CallPoints \cup StopPoints
  BY DEF Threads
<1>3. QED
  BY <1>1, <1>2

(* No thread is inside the lock, so none is past the recovery check. *)
LEMMA NonePast ==
  ASSUME \A u \in Threads : pc'[u] \notin CallPoints \cup StopPoints
  PROVE  PastCheckInv'
  BY DEF PastCheckInv, CallPoints, Threads

LEMMA TerminateRecovery ==
  ASSUME TypeInv, RecoveryInv, NEW force \in BOOLEAN, Terminate(force)
  PROVE  phase' = "dead" /\ ProcessInv'
  BY DEF RecoveryInv, ProcessInv, Terminate, Alive, TypeInv, TypeOK, ManagerTypeOK

LEMMA DeadRecovery ==
  ASSUME phase' = "dead"
  PROVE  ProcessInv' /\ EventInv' /\ ResponseInv' /\ BlockedInv'
  BY DEF ProcessInv, EventInv, ResponseInv, BlockedInv, Ended, Alive

(* Steps that leave the worker, its queues' losses and the recovery alone. *)
LEMMA SameRecovery ==
  ASSUME RecoveryInv, UNCHANGED <<phase, process, recovery>>,
         Disconnected' => Disconnected, LossAnswered' => LossAnswered
  PROVE  ProcessInv' /\ EventInv' /\ ResponseInv' /\ BlockedInv'
  BY DEF RecoveryInv, ProcessInv, EventInv, ResponseInv, BlockedInv, Ended, Alive

LEMMA SameQueues ==
  /\ UNCHANGED lifecycleQ => (Disconnected' <=> Disconnected)
  /\ UNCHANGED responseQ => (LossAnswered' <=> LossAnswered)
  BY DEF Disconnected, LossAnswered, LossCodes

LEMMA CallRecovery ==
  ASSUME TypeInv, RecoveryInv, NEW t \in Callers, CallStep(t)
  PROVE  RecoveryInv'
<1> USE SameQueues
<1> t \in Threads
  BY DEF Threads
<1> LockInv
  BY DEF RecoveryInv
<1> TypeOK
  BY DEF TypeInv
<1>0. pc[t] \in CallPoints => lock = t
  BY DEF LockInv, InLock
<1> DEFINE Rest == ProcessInv' /\ EventInv' /\ ResponseInv' /\ BlockedInv'
<1>1. CASE CallReplays(t)
  <2> DEFINE entry == cache[asked[t].id]
  <2>1. PICK response : Return(t, response)
    BY <1>1 DEF CallReplays
  <2>2. LockInv' /\ PastCheckInv'
    BY <1>1, <2>1, ReturnLock, NonePast DEF CallReplays, Enter
  <2>3. Rest
    BY <1>1, RefreshRecovery DEF CallReplays, Enter
  <2>4. QED
    BY <2>2, <2>3 DEF RecoveryInv
<1>2. CASE CallBlocked(t)
  <2>1. Return(t, Error(asked[t].id, RefreshedRecovery))
    BY <1>2 DEF CallBlocked, Settle
  <2>2. LockInv' /\ PastCheckInv'
    BY <1>2, <2>1, ReturnLock, NonePast DEF CallBlocked, Enter
  <2>3. Rest
    BY <1>2, RefreshRecovery DEF CallBlocked, Enter
  <2>4. QED
    BY <2>2, <2>3 DEF RecoveryInv
<1>3. CASE CallProceeds(t)
  <2>1. recovery' = None /\ Rest
    BY <1>3, RefreshRecovery DEF CallProceeds, Enter
  <2>2. LockInv'
    BY <1>3, GotoLock DEF CallProceeds, Enter
  <2>3. PastCheckInv'
    BY <2>1 DEF PastCheckInv
  <2>4. QED
    BY <2>1, <2>2, <2>3 DEF RecoveryInv
<1>4. CASE CallSends(t)
  <2>1. pc[t] = "dispatch" /\ lock = t /\ recovery = None
    BY <1>0, <1>4 DEF CallSends, CallPoints, RecoveryInv, PastCheckInv
  <2>2. LockInv' /\ PastCheckInv'
    BY <1>4, <2>1, GotoLock DEF CallSends, PastCheckInv, managerVars
  <2>3. Rest
    BY <1>4, SameRecovery DEF CallSends
  <2>4. QED
    BY <2>2, <2>3 DEF RecoveryInv
<1>5. CASE CallStarts(t)
  <2>1. pc[t] = "dispatch" /\ lock = t /\ recovery = None
    BY <1>0, <1>5 DEF CallStarts, CallPoints, RecoveryInv, PastCheckInv
  <2>2. LockInv' /\ PastCheckInv'
    BY <1>5, <2>1, GotoLock DEF CallStarts, PastCheckInv
  <2>3. Rest
    BY <1>5, <2>1 DEF CallStarts, ProcessInv, EventInv, ResponseInv, BlockedInv,
                       Disconnected, LossAnswered
  <2>4. QED
    BY <2>2, <2>3 DEF RecoveryInv
<1>6. CASE HostAcquired(t)
  <2>1. LockInv' /\ PastCheckInv'
    BY <1>6 DEF HostAcquired, RecoveryInv, LockInv, PastCheckInv, InLock
  <2>2. Rest
    BY <1>6, TailShows, SameRecovery DEF HostAcquired
  <2>3. QED
    BY <2>1, <2>2 DEF RecoveryInv
<1>7. CASE WorkerReady(t)
  <2>1. pc[t] = "starting" /\ lock = t /\ recovery = None
    BY <1>0, <1>7 DEF WorkerReady, CallPoints, RecoveryInv, PastCheckInv
  <2>2. LockInv' /\ PastCheckInv'
    BY <1>7, <2>1, GotoLock DEF WorkerReady, PastCheckInv
  <2>3. Rest
    BY <1>7, TailShows, SameRecovery DEF WorkerReady
  <2>4. QED
    BY <2>2, <2>3 DEF RecoveryInv
<1>8. CASE StartFails(t)
  <2>1. lock = t
    BY <1>0, <1>8 DEF StartFails, CallPoints
  <2>2. LockInv' /\ PastCheckInv'
    BY <1>8, <2>1, ReturnLock, NonePast DEF StartFails
  <2>3. Rest
    BY <1>8, TerminateRecovery, DeadRecovery DEF StartFails
  <2>4. QED
    BY <2>2, <2>3 DEF RecoveryInv
<1>9. CASE CallReceives(t)
  <2>1. lock = t /\ pc[t] = "awaiting"
    BY <1>0, <1>9 DEF CallReceives, CallPoints
  <2>2. ProcessInv' /\ EventInv' /\ ResponseInv'
    BY <1>9, TailShows DEF CallReceives, RecoveryInv, ProcessInv, EventInv, ResponseInv,
                           Ended, Alive
  <2>3. CASE Head(responseQ).code \in LossCodes
    <3>1. pc' = [pc EXCEPT ![t] = "joining"] /\ lock' = lock
      BY <1>9, <2>3 DEF CallReceives, LossCodes
    <3>2. LockInv' /\ PastCheckInv'
      BY <2>1, <3>1 DEF LockInv, PastCheckInv, InLock, CallPoints, Threads,
                        TypeOK, ThreadTypeOK
    <3>3. BlockedInv'
      BY <1>9, <2>3, TailShows DEF CallReceives, BlockedInv, RecoveryInv, ResponseInv, Ended
    <3>4. QED
      BY <2>2, <3>2, <3>3 DEF RecoveryInv
  <2>4. CASE Head(responseQ).code \notin LossCodes
    <3>1. Return(t, Head(responseQ)) /\ UNCHANGED recovery
      BY <1>9, <2>4 DEF CallReceives, Settle, LossCodes
    <3>2. LockInv' /\ PastCheckInv'
      BY <2>1, <3>1, ReturnLock, NonePast
    <3>3. BlockedInv'
      BY <1>9, <3>1 DEF CallReceives, BlockedInv, RecoveryInv, Ended
    <3>4. QED
      BY <2>2, <3>2, <3>3 DEF RecoveryInv
  <2>5. QED
    BY <2>3, <2>4
<1>10. CASE CallTimesOut(t)
  <2>1. lock = t
    BY <1>0, <1>10 DEF CallTimesOut, CallPoints
  <2>2. LockInv' /\ PastCheckInv'
    BY <1>10, <2>1, ReturnLock, NonePast DEF CallTimesOut, Settle
  <2>3. Rest
    BY <1>10, TerminateRecovery, DeadRecovery DEF CallTimesOut
  <2>4. QED
    BY <2>2, <2>3 DEF RecoveryInv
<1>11. CASE CallJoins(t)
  <2>1. lock = t
    BY <1>0, <1>11 DEF CallJoins, CallPoints
  <2>2. LockInv' /\ PastCheckInv'
    BY <1>11, <2>1, ReturnLock, NonePast DEF CallJoins, Settle
  <2>3. phase' = "dead"
    <3> DEFINE force == reply[t].code = "NativeCommandRestoreFailed"
    <3>1. (~Alive /\ UNCHANGED phase) \/ Terminate(force)
      BY <1>11 DEF CallJoins
    <3>2. force \in BOOLEAN
      OBVIOUS
    <3> HIDE DEF force
    <3>3. QED
      BY <3>1, <3>2, TerminateRecovery DEF Alive
  <2>4. QED
    BY <2>2, <2>3, DeadRecovery DEF RecoveryInv
<1>12. QED
  BY <1>1, <1>2, <1>3, <1>4, <1>5, <1>6, <1>7, <1>8, <1>9, <1>10, <1>11 DEF CallStep

LEMMA StopRecovery ==
  ASSUME TypeInv, RecoveryInv, NEW t \in Stoppers, StopStep(t)
  PROVE  RecoveryInv'
<1> USE SameQueues
<1> t \in Threads
  BY DEF Threads
<1> LockInv
  BY DEF RecoveryInv
<1> TypeOK
  BY DEF TypeInv
<1>0. pc[t] \in StopPoints => lock = t
  BY DEF LockInv, InLock
<1> DEFINE Rest == ProcessInv' /\ EventInv' /\ ResponseInv' /\ BlockedInv'
<1>1. ASSUME NEW point, lock \in {None, t}, Goto(t, point)
      PROVE  LockInv' /\ PastCheckInv'
  <2>1. \A u \in Callers : pc'[u] \notin CallPoints
    BY <1>1, GotoLock DEF Threads
  <2>2. QED
    BY <1>1, <2>1, GotoLock DEF PastCheckInv, CallPoints
<1>2. ASSUME NEW response, lock \in {None, t}, Return(t, response)
      PROVE  LockInv' /\ PastCheckInv'
  BY <1>2, ReturnLock, NonePast
<1>3. CASE StopEnters(t)
  <2>1. LockInv' /\ PastCheckInv'
    <3>1. lock = None
      BY <1>3 DEF StopEnters, Enter
    <3>2. Goto(t, "stopping") \/ Return(t, Error(StopId[t], "stopping"))
      BY <1>3 DEF StopEnters, ReturnStopped
    <3>3. QED
      BY <1>1, <1>2, <3>1, <3>2
  <2>2. Rest
    BY <1>3, RefreshRecovery DEF StopEnters, Enter
  <2>3. QED
    BY <2>1, <2>2 DEF RecoveryInv
<1>4. CASE StopReceives(t)
  <2>1. lock = t
    BY <1>0, <1>4 DEF StopReceives, StopPoints
  <2>2. ProcessInv' /\ EventInv' /\ ResponseInv'
    BY <1>4, TailShows DEF StopReceives, RecoveryInv, ProcessInv, EventInv, ResponseInv,
                           Ended, Alive
  <2>3. LockInv' /\ PastCheckInv'
    <3>1. Goto(t, "stop-joining") \/ Return(t, Head(responseQ))
      BY <1>4 DEF StopReceives, ReturnStopped
    <3>2. QED
      BY <1>1, <1>2, <2>1, <3>1
  <2>4. BlockedInv'
    <3>1. CASE Head(responseQ).code = "HostDisconnected"
      BY <1>4, <3>1, TailShows DEF StopReceives, BlockedInv, RecoveryInv, ResponseInv,
                                   Ended, LossCodes
    <3>2. CASE Head(responseQ).code # "HostDisconnected"
      BY <1>4, <3>2 DEF StopReceives, BlockedInv, RecoveryInv, Ended
    <3>3. QED
      BY <3>1, <3>2
  <2>5. QED
    BY <2>2, <2>3, <2>4 DEF RecoveryInv
<1>5. CASE StopJoins(t)
  <2>1. lock = t
    BY <1>0, <1>5 DEF StopJoins, StopPoints
  <2>2. LockInv' /\ PastCheckInv'
    BY <1>2, <1>5, <2>1 DEF StopJoins, ReturnStopped
  <2>3. phase' = "dead"
    BY <1>5, TerminateRecovery DEF StopJoins, Alive
  <2>4. QED
    BY <2>2, <2>3, DeadRecovery DEF RecoveryInv
<1>6. CASE StopPolls(t)
  <2>1. lock = t /\ pc[t] = "stopping"
    BY <1>0, <1>6 DEF StopPolls, StopPoints
  <2>2. Rest
    BY <1>6, RefreshRecovery DEF StopPolls
  <2>3. CASE UNCHANGED threadVars
    <3>1. LockInv'
      BY <2>3 DEF LockInv, InLock
    <3>2. \A u \in Callers : pc[u] \notin CallPoints
      BY <2>1 DEF LockInv, InLock, CallPoints, Threads
    <3>3. PastCheckInv'
      BY <2>3, <3>2 DEF PastCheckInv, CallPoints
    <3>4. QED
      BY <2>2, <3>1, <3>3 DEF RecoveryInv
  <2>4. CASE \E response : Return(t, response)
    BY <1>2, <2>1, <2>2, <2>4 DEF RecoveryInv
  <2>5. QED
    BY <1>6, <2>3, <2>4 DEF StopPolls, ReturnStopped
<1>7. QED
  BY <1>3, <1>4, <1>5, <1>6 DEF StopStep

LEMMA OtherRecovery ==
  ASSUME TypeInv, RecoveryInv,
         (\E t \in Threads : Arrive(t)) \/ Health \/ Close \/ ExitProcess \/ UNCHANGED vars
  PROVE  RecoveryInv'
<1> USE SameQueues DEF RecoveryInv
<1>1. CASE \E t \in Threads : Arrive(t)
  <2>1. PICK t \in Threads : Arrive(t)
    BY <1>1
  <2>2. \A u \in Threads : pc'[u] = pc[u] \/ pc'[u] = "waiting"
    BY <2>1 DEF Arrive, TypeInv, TypeOK, ThreadTypeOK
  <2>3. LockInv' /\ PastCheckInv'
    BY <2>1, <2>2 DEF Arrive, LockInv, PastCheckInv, InLock, CallPoints, StopPoints, Threads
  <2>4. QED
    BY <2>1, <2>3, SameRecovery DEF Arrive
<1>2. CASE Close
  <2>1. LockInv' /\ PastCheckInv'
    BY <1>2 DEF Close, LockInv, PastCheckInv, InLock
  <2>2. QED
    BY <1>2, <2>1, TerminateRecovery, DeadRecovery DEF Close
<1>3. CASE ExitProcess \/ UNCHANGED vars
  <2>1. LockInv' /\ PastCheckInv'
    BY <1>3 DEF ExitProcess, LockInv, PastCheckInv, InLock
  <2>2. QED
    BY <1>3, <2>1, SameRecovery DEF ExitProcess
<1>4. CASE Health
  <2>1. LockInv' /\ \A t \in Threads : pc'[t] \notin CallPoints \cup StopPoints
    <3>1. UNCHANGED <<pc, lock>> /\ \A t \in Threads : ~InLock(t)
      BY <1>4, ThreadsAssumption DEF Health, LockInv, Threads
    <3>2. QED
      BY <3>1 DEF LockInv, InLock
  <2>2. QED
    BY <1>4, <2>1, NonePast, RefreshRecovery DEF Health
<1>5. QED
  BY <1>1, <1>2, <1>3, <1>4

(* Loss of the host and recovery only ever meet a worker that has left its *)
(* request loop.                                                           *)
THEOREM RecoveryInvariant == Spec => []RecoveryInv
<1>1. TypeInv /\ RecoveryInv /\ [Next]_vars => RecoveryInv'
  BY WorkerRecovery, CallRecovery, StopRecovery, OtherRecovery DEF Next
<1>2. QED
  BY InitRecoveryInv, TypeInvariant, <1>1, PTL DEF Spec

(* Only the worker dispatches, and only from its loop. *)
LEMMA OnlyDispatch ==
  ASSUME TypeInv, RecoveryInv, [Next]_vars, recovery # None
  PROVE  executions' = executions
<1>1. phase \in Ended
  BY DEF RecoveryInv, BlockedInv
<1>2. CASE WorkerNext
  BY <1>1, <1>2 DEF Ended, WorkerNext, AcquireHost, ReportHost, BecomeReady, StartupFails,
     TakeRequest, IdleProbeSucceeds, IdleProbeFails, ProbeRejected, ProbeDisconnected,
     RefuseShutdown, AcceptShutdown, Dispatch, Complete, CompleteUnrestored, Retire,
     CleanUp, Crash, HostExits
<1>3. ASSUME NEW t \in Callers, CallStep(t) PROVE executions' = executions
  BY <1>3 DEF CallStep, CallReplays, CallBlocked, CallProceeds, CallSends, CallStarts,
     HostAcquired, WorkerReady, StartFails, CallReceives, CallTimesOut, CallJoins
<1>4. ASSUME NEW t \in Stoppers, StopStep(t) PROVE executions' = executions
  BY <1>4 DEF StopStep, StopEnters, StopReceives, StopJoins, StopPolls
<1>5. QED
  BY <1>2, <1>3, <1>4 DEF Next, Arrive, Health, Close, ExitProcess

(* A supervisor that requires recovery dispatches no further operation. *)
THEOREM RecoveryBlocksDispatch == Spec => RecoveryBlocks
<1>1. TypeInv /\ RecoveryInv /\ [Next]_vars
        => [recovery # None => executions' = executions]_vars
  BY OnlyDispatch
<1>2. QED
  BY TypeInvariant, RecoveryInvariant, <1>1, PTL DEF Spec, RecoveryBlocks

=============================================================================
