---------------------------- MODULE WorkerManager ----------------------------
(***************************************************************************)
(* The supervisor of swclid (daemon/server.py, WorkerManager) composed     *)
(* with its COM worker (ComWorker).  Every connection has a handler thread *)
(* that carries one request: Callers reach WorkerManager.call, Stoppers    *)
(* reach WorkerManager.shutdown, and the main thread runs close when the   *)
(* server stops.  _lock is held from entry to reply, so only the worker    *)
(* and the host move while a thread waits in the middle of its request.    *)
(*                                                                         *)
(* The replay cache is its promise (see ReplayCache for the OrderedDict):  *)
(* a remembered reply is found again until the cache drops it.             *)
(***************************************************************************)
EXTENDS ComWorker

CONSTANTS
  Callers,       \* handler threads whose request is a typed operation
  Stoppers,      \* handler threads whose request is daemon.shutdown
  Fingerprints,  \* canonical request bodies (_request_fingerprint)
  Asks,          \* the typed requests clients send
  StopId,        \* StopId[s]: the request_id of the shutdown request of s
  None

ASSUME ThreadsAssumption ==
  /\ Callers \cap Stoppers = {}
  /\ None \notin Callers \cup Stoppers
  /\ StopId \in [Stoppers -> RequestIds]
  /\ Asks # {} /\ Asks \subseteq [id : RequestIds, fingerprint : Fingerprints]

VARIABLES
  lock,        \* the thread holding _lock, or None
  pc,          \* control point of each handler thread
  asked,       \* the request of each caller
  reply,       \* the response each handler thread returns
  process,     \* _process is not None
  known,       \* self.host: its process_id, 0 while it is empty
  recovery,    \* _recovery_required
  cache,       \* _request_cache
  server,      \* "serving", "stopping", "closed" or "exited"
  forgotten,   \* history: ids whose remembered reply the cache dropped
  stopTimedOut \* history: some shutdown gave up on a live worker

threadVars  == <<lock, pc, asked, reply>>
managerVars == <<process, known, recovery, cache>>
otherVars   == <<server, forgotten, stopTimedOut>>
vars        == <<workerVars, threadVars, managerVars, otherVars>>

Threads == Callers \cup Stoppers

RecoveryCodes == {"HostDisconnected", "NativeCommandRestoreFailed",
                  "SharedHostRecoveryRequired", "WorkerExited"}

(* What a handler thread can return: a worker response, or an error of the *)
(* supervisor's own making.                                                *)
SupervisorCodes == RecoveryCodes \cup {"WorkerTimeout", "RequestIdConflict",
                    "WorkerStartupError", "ShutdownTimeout"}
Replies == [id : RequestIds, code : ResponseCodes \cup SupervisorCodes]

Entries == [fingerprint : Fingerprints, response : Replies]

ASSUME NoneAssumption == None \notin Entries

CallPoints == {"dispatch", "starting", "awaiting", "joining"}
StopPoints == {"stopping", "stop-joining"}
InLock(t)  == pc[t] \in CallPoints \cup StopPoints

Error(id, code) == [id |-> id, code |-> code]

-----------------------------------------------------------------------------
(* Pieces of a locked step *)

(* _refresh_worker_state_locked drains lifecycleQ and notices a dead       *)
(* worker.  A disconnect event, then a dead worker, set _recovery_required. *)
Disconnected == \E i \in DOMAIN lifecycleQ : lifecycleQ[i] = "host-disconnected"

RefreshedProcess   == process /\ Alive
RefreshedKnown     == IF Disconnected \/ (process /\ ~Alive) THEN 0 ELSE known
RefreshedRecovery  ==
  IF Disconnected THEN "HostDisconnected"
  ELSE IF process /\ ~Alive /\ recovery = None THEN "WorkerExited"
  ELSE recovery

Refresh ==
  /\ lifecycleQ' = <<>>
  /\ process' = RefreshedProcess
  /\ known' = RefreshedKnown
  /\ recovery' = RefreshedRecovery

(* _terminate_worker: taskkill of an owned host happens only when a live   *)
(* worker had to be killed, or when it is forced.                          *)
Terminate(force) ==
  /\ phase' = IF process THEN "dead" ELSE phase
  /\ host' = IF ((process /\ Alive) \/ force) /\ owned_by_daemon /\ host = known
             THEN 0 ELSE host
  /\ process' = FALSE
  /\ known' = 0

(* _remember_response: the new entry replaces the old one of its id, and   *)
(* the limits may evict any other, or keep the new one out.                *)
Remember(id, fingerprint, response) ==
  \E dropped \in SUBSET {x \in RequestIds : x = id \/ cache[x] # None} :
    /\ cache' = [x \in RequestIds |->
                   IF x \in dropped THEN None
                   ELSE IF x = id
                   THEN [fingerprint |-> fingerprint, response |-> response]
                   ELSE cache[x]]
    /\ forgotten' = forgotten \cup dropped

(* The thread returns: it replies and releases the lock. *)
Return(t, response) ==
  /\ reply' = [reply EXCEPT ![t] = response]
  /\ pc' = [pc EXCEPT ![t] = "done"]
  /\ lock' = None
  /\ UNCHANGED asked

Settle(t, response) ==
  /\ Remember(asked[t].id, asked[t].fingerprint, response)
  /\ Return(t, response)

Goto(t, point) ==
  /\ pc' = [pc EXCEPT ![t] = point]
  /\ lock' = t
  /\ UNCHANGED <<asked, reply>>

-----------------------------------------------------------------------------
(* Requests arrive.  A connection accepted earlier may deliver its request *)
(* at any time before the process exits.                                   *)

Arrive(t) ==
  /\ pc[t] = "new"
  /\ server # "exited"
  /\ pc' = [pc EXCEPT ![t] = "waiting"]
  /\ asked' \in IF t \in Callers
                THEN {[asked EXCEPT ![t] = a] : a \in Asks} ELSE {asked}
  /\ UNCHANGED <<workerVars, lock, reply, managerVars, otherVars>>

Enter(t) == pc[t] = "waiting" /\ lock = None /\ server # "exited" /\ Refresh

-----------------------------------------------------------------------------
(* WorkerManager.call *)

(* _replay_response: the cached reply of the same request, or a conflict. *)
CallReplays(t) ==
  /\ Enter(t)
  /\ LET entry == cache[asked[t].id] IN
     /\ entry # None
     /\ Return(t, IF entry.fingerprint = asked[t].fingerprint
                  THEN entry.response
                  ELSE Error(asked[t].id, "RequestIdConflict"))
  /\ UNCHANGED <<attached, phase, current, failures, requestQ, responseQ, host, pid,
                 executions, lostHost, cache, otherVars>>

CallBlocked(t) ==
  /\ Enter(t)
  /\ cache[asked[t].id] = None
  /\ RefreshedRecovery # None
  /\ Settle(t, Error(asked[t].id, RefreshedRecovery))
  /\ UNCHANGED <<attached, phase, current, failures, requestQ, responseQ, host, pid,
                 executions, lostHost, server, stopTimedOut>>

(* Mutants: the recovery state, or the replay cache, is not consulted. *)
MutantIgnoresRecovery(t) ==
  /\ Enter(t)
  /\ cache[asked[t].id] = None
  /\ Goto(t, "dispatch")
  /\ UNCHANGED <<attached, phase, current, failures, requestQ, responseQ, host,
                 pid, executions, lostHost, cache, otherVars>>

MutantIgnoresCache(t) ==
  /\ Enter(t)
  /\ RefreshedRecovery = None
  /\ Goto(t, "dispatch")
  /\ UNCHANGED <<attached, phase, current, failures, requestQ, responseQ, host,
                 pid, executions, lostHost, cache, otherVars>>

CallProceeds(t) ==
  /\ Enter(t)
  /\ cache[asked[t].id] = None
  /\ RefreshedRecovery = None
  /\ Goto(t, "dispatch")
  /\ UNCHANGED <<attached, phase, current, failures, requestQ, responseQ, host, pid,
                 executions, lostHost, cache, otherVars>>

SendTo(t) == requestQ' = Append(requestQ, [id |-> asked[t].id, op |-> "typed"])

CallSends(t) ==
  /\ pc[t] = "dispatch" /\ process /\ Alive
  /\ SendTo(t)
  /\ Goto(t, "awaiting")
  /\ UNCHANGED <<attached, phase, current, failures, responseQ, lifecycleQ, host, pid,
                 executions, lostHost, managerVars, otherVars>>

(* _start_worker: a new process with new queues; the old ones are dropped. *)
CallStarts(t) ==
  /\ pc[t] = "dispatch" /\ ~(process /\ Alive)
  /\ phase' = "spawned"
  /\ requestQ' = <<>> /\ responseQ' = <<>> /\ lifecycleQ' = <<>>
  /\ process' = TRUE
  /\ Goto(t, "starting")
  /\ UNCHANGED <<attached, current, failures, host, pid, executions, lostHost,
                 known, recovery, cache, otherVars>>

HostAcquired(t) ==
  /\ pc[t] = "starting" /\ lifecycleQ # <<>> /\ Head(lifecycleQ) = "host-acquired"
  /\ lifecycleQ' = Tail(lifecycleQ)
  /\ known' = pid
  /\ UNCHANGED <<attached, phase, current, failures, requestQ, responseQ, host, pid,
                 executions, lostHost, threadVars, process, recovery, cache, otherVars>>

WorkerReady(t) ==
  /\ pc[t] = "starting" /\ lifecycleQ # <<>> /\ Head(lifecycleQ) = "ready"
  /\ lifecycleQ' = Tail(lifecycleQ)
  /\ known' = pid
  /\ SendTo(t)
  /\ Goto(t, "awaiting")
  /\ UNCHANGED <<attached, phase, current, failures, responseQ, host, pid,
                 executions, lostHost, process, recovery, cache, otherVars>>

(* Mutant: a startup that reports nothing is waited for without a deadline. *)
MutantStartWaits(t) ==
  /\ pc[t] = "starting"
  /\ lifecycleQ # <<>> /\ Head(lifecycleQ) \in {"startup-failed", "host-disconnected"}
  /\ lifecycleQ' = Tail(lifecycleQ)
  /\ Terminate(FALSE)
  /\ Return(t, Error(asked[t].id, "WorkerStartupError"))
  /\ UNCHANGED <<attached, current, failures, requestQ, responseQ, pid,
                 executions, lostHost, recovery, cache, otherVars>>

(* A failed or overdue startup raises out of call: nothing is remembered. *)
StartFails(t) ==
  /\ pc[t] = "starting"
  /\ lifecycleQ # <<>> => Head(lifecycleQ) \in {"startup-failed", "host-disconnected"}
  /\ lifecycleQ' = IF lifecycleQ = <<>> THEN <<>> ELSE Tail(lifecycleQ)
  /\ Terminate(FALSE)
  /\ Return(t, Error(asked[t].id, "WorkerStartupError"))
  /\ UNCHANGED <<attached, current, failures, requestQ, responseQ, pid,
                 executions, lostHost, recovery, cache, otherVars>>

(* Whatever is first in responseQ is taken for the reply: its request_id   *)
(* is not compared with the request's.                                     *)
CallReceives(t) ==
  /\ pc[t] = "awaiting" /\ responseQ # <<>>
  /\ responseQ' = Tail(responseQ)
  /\ LET response == Head(responseQ) IN
     IF response.code \in {"HostDisconnected", "NativeCommandRestoreFailed"}
     THEN /\ recovery' = response.code
          /\ reply' = [reply EXCEPT ![t] = response]
          /\ pc' = [pc EXCEPT ![t] = "joining"]
          /\ UNCHANGED <<lock, asked, cache, forgotten>>
     ELSE Settle(t, response) /\ UNCHANGED recovery
  /\ UNCHANGED <<attached, phase, current, failures, requestQ, lifecycleQ, host, pid,
                 executions, lostHost, process, known, server, stopTimedOut>>

(* Mutants: a timeout leaves the worker running, or is not remembered. *)
MutantKeepsWorker(t) ==
  /\ pc[t] = "awaiting" /\ responseQ = <<>>
  /\ Settle(t, Error(asked[t].id, "WorkerTimeout"))
  /\ UNCHANGED <<workerVars, process, known, recovery, server, stopTimedOut>>

MutantForgetsTimeout(t) ==
  /\ pc[t] = "awaiting" /\ responseQ = <<>>
  /\ recovery' = IF known # 0 /\ attached THEN "SharedHostRecoveryRequired" ELSE recovery
  /\ Terminate(FALSE)
  /\ Return(t, Error(asked[t].id, "WorkerTimeout"))
  /\ UNCHANGED <<attached, current, failures, queues, pid, executions, lostHost,
                 cache, otherVars>>

CallTimesOut(t) ==
  /\ pc[t] = "awaiting" /\ responseQ = <<>>
  /\ recovery' = IF known # 0 /\ attached THEN "SharedHostRecoveryRequired" ELSE recovery
  /\ Terminate(FALSE)
  /\ Settle(t, Error(asked[t].id, "WorkerTimeout"))
  /\ UNCHANGED <<attached, current, failures, queues, pid, executions, lostHost,
                 server, stopTimedOut>>

(* The wait for the worker ends when it exits or after five seconds. *)
CallJoins(t) ==
  /\ pc[t] = "joining"
  /\ IF ~Alive /\ reply[t].code = "HostDisconnected"
     THEN process' = FALSE /\ known' = 0 /\ UNCHANGED <<phase, host>>
     ELSE Terminate(reply[t].code = "NativeCommandRestoreFailed")
  /\ Settle(t, reply[t])
  /\ UNCHANGED <<attached, current, failures, queues, pid, executions, lostHost,
                 recovery, server, stopTimedOut>>

CallStep(t) ==
  \/ CallReplays(t) \/ CallBlocked(t) \/ CallProceeds(t)
  \/ CallSends(t) \/ CallStarts(t)
  \/ HostAcquired(t) \/ WorkerReady(t) \/ StartFails(t)
  \/ CallReceives(t) \/ CallTimesOut(t) \/ CallJoins(t)

-----------------------------------------------------------------------------
(* WorkerManager.shutdown; a successful reply makes the handler stop the   *)
(* server.                                                                 *)

ReturnStopped(t, response) ==
  /\ Return(t, response)
  /\ server' = IF response.code \in {"ok", "stopping"} /\ server = "serving"
               THEN "stopping" ELSE server

StopEnters(t) ==
  /\ Enter(t)
  /\ IF RefreshedProcess
     THEN /\ requestQ' = Append(requestQ, [id |-> StopId[t], op |-> "shutdown"])
          /\ Goto(t, "stopping")
          /\ UNCHANGED server
     ELSE ReturnStopped(t, Error(StopId[t], "stopping")) /\ UNCHANGED requestQ
  /\ UNCHANGED <<attached, phase, current, failures, responseQ, host, pid,
                 executions, lostHost, cache, forgotten, stopTimedOut>>

StopReceives(t) ==
  /\ pc[t] = "stopping" /\ responseQ # <<>>
  /\ responseQ' = Tail(responseQ)
  /\ LET response == Head(responseQ) IN
     IF response.code = "HostDisconnected"
     THEN /\ recovery' = "HostDisconnected"
          /\ Goto(t, "stop-joining")
          /\ UNCHANGED server
     ELSE ReturnStopped(t, response) /\ UNCHANGED recovery
  /\ UNCHANGED <<attached, phase, current, failures, requestQ, lifecycleQ, host, pid,
                 executions, lostHost, process, known, cache, forgotten, stopTimedOut>>

StopJoins(t) ==
  /\ pc[t] = "stop-joining"
  /\ IF ~Alive
     THEN process' = FALSE /\ known' = 0 /\ UNCHANGED <<phase, host>>
     ELSE Terminate(FALSE)
  /\ ReturnStopped(t, Error(StopId[t], "stopping"))
  /\ UNCHANGED <<attached, current, failures, queues, pid, executions, lostHost,
                 recovery, cache, forgotten, stopTimedOut>>

(* Every quarter second without a response the state is refreshed: a dead  *)
(* worker ends the wait, and so does the deadline.                         *)
StopPolls(t) ==
  /\ pc[t] = "stopping" /\ responseQ = <<>>
  /\ Refresh
  /\ \/ /\ ~RefreshedProcess
        /\ ReturnStopped(t, Error(StopId[t], "stopping"))
        /\ UNCHANGED stopTimedOut
     \/ /\ RefreshedProcess
        /\ Return(t, Error(StopId[t], "ShutdownTimeout"))
        /\ stopTimedOut' = TRUE
        /\ UNCHANGED server
     \/ /\ RefreshedProcess
        /\ lifecycleQ # <<>>
        /\ UNCHANGED <<threadVars, server, stopTimedOut>>
  /\ UNCHANGED <<attached, phase, current, failures, requestQ, responseQ, host, pid,
                 executions, lostHost, cache, forgotten>>

StopStep(t) == StopEnters(t) \/ StopReceives(t) \/ StopJoins(t) \/ StopPolls(t)

-----------------------------------------------------------------------------
(* WorkerManager.health, alone or for capabilities: it takes the lock only *)
(* if it is free, and then brings the state up to date; otherwise it reads *)
(* what is there.                                                          *)
Health ==
  /\ lock = None /\ server # "exited"
  /\ Refresh
  /\ UNCHANGED <<attached, phase, current, failures, requestQ, responseQ, host, pid,
                 executions, lostHost, threadVars, cache, otherVars>>

-----------------------------------------------------------------------------
(* The main thread: serve_forever returns after a stop or an interrupt,    *)
(* then close runs; the interpreter exits once no child process is left,   *)
(* taking the handler threads, which are daemon threads, with it.          *)

Close ==
  /\ server \in {"serving", "stopping"} /\ lock = None
  /\ Terminate(FALSE)
  /\ server' = "closed"
  /\ UNCHANGED <<attached, current, failures, queues, pid, executions, lostHost,
                 threadVars, recovery, cache, forgotten, stopTimedOut>>

ExitProcess ==
  /\ server = "closed" /\ ~Alive
  /\ server' = "exited"
  /\ UNCHANGED <<workerVars, threadVars, managerVars, forgotten, stopTimedOut>>

-----------------------------------------------------------------------------
(* The manager is published to the handlers once its first worker is ready. *)
Init ==
  /\ attached \in BOOLEAN
  /\ phase = "idle" /\ failures = 0 /\ host = 1 /\ pid = 1
  /\ current = [id |-> (CHOOSE a \in Asks : TRUE).id, op |-> "typed"]
  /\ requestQ = <<>> /\ responseQ = <<>> /\ lifecycleQ = <<>>
  /\ executions = [id \in RequestIds |-> 0]
  /\ lostHost = FALSE
  /\ lock = None
  /\ pc = [t \in Threads |-> "new"]
  /\ asked = [t \in Callers |-> CHOOSE a \in Asks : TRUE]
  /\ reply = [t \in Threads |-> None]
  /\ process = TRUE /\ known = 1 /\ recovery = None
  /\ cache = [id \in RequestIds |-> None]
  /\ server = "serving" /\ forgotten = {} /\ stopTimedOut = FALSE

Next ==
  \/ WorkerNext /\ UNCHANGED <<threadVars, managerVars, otherVars>>
  \/ \E t \in Threads : Arrive(t)
  \/ \E t \in Callers : server # "exited" /\ CallStep(t)
  \/ \E t \in Stoppers : server # "exited" /\ StopStep(t)
  \/ Health
  \/ Close
  \/ ExitProcess

(* Handler threads and the main thread are scheduled, and every wait of    *)
(* theirs has a deadline.  Nothing is assumed of the worker or the host.   *)
Fairness ==
  /\ \A t \in Callers : WF_vars(server # "exited" /\ CallStep(t))
  /\ \A t \in Stoppers : WF_vars(server # "exited" /\ StopStep(t))
  /\ WF_vars(server = "stopping" /\ Close)
  /\ WF_vars(ExitProcess)

Spec == Init /\ [][Next]_vars /\ Fairness

-----------------------------------------------------------------------------
(* Properties *)

(* Every variable keeps its type; the cache and the replies hold responses. *)
ThreadTypeOK ==
  /\ lock \in Threads \cup {None}
  /\ pc \in [Threads -> {"new", "waiting", "done"} \cup CallPoints \cup StopPoints]
  /\ asked \in [Callers -> Asks]
  /\ reply \in [Threads -> Replies \cup {None}]

ManagerTypeOK ==
  /\ process \in BOOLEAN /\ known \in Nat
  /\ recovery \in RecoveryCodes \cup {None}
  /\ cache \in [RequestIds -> Entries \cup {None}]
  /\ server \in {"serving", "stopping", "closed", "exited"}
  /\ forgotten \subseteq RequestIds /\ stopTimedOut \in BOOLEAN

TypeOK == WorkerTypeOK /\ ThreadTypeOK /\ ManagerTypeOK

(* The replay cache makes a request_id one attempt: whatever happens to    *)
(* the worker, and however often the client retries, its operation is      *)
(* dispatched at most once until the cache drops the id.                   *)
AtMostOnce == \A id \in RequestIds : executions[id] > 1 => id \in forgotten

(* A client gets the outcome of its own request, and so does every later   *)
(* retry of it, as long as no shutdown has given up on a live worker.      *)
RepliesAreOwn ==
  ~stopTimedOut =>
    /\ \A t \in Callers : pc[t] = "done" => reply[t].id = asked[t].id
    /\ \A id \in RequestIds : cache[id] # None => cache[id].response.id = id

(* Between requests the worker is not doing anything for anyone: nothing   *)
(* is queued, half done or unread, so no operation changes a document      *)
(* after its client was told the outcome.                                  *)
QuietWhenUnlocked ==
  lock = None /\ process /\ Alive /\ ~stopTimedOut =>
    requestQ = <<>> /\ responseQ = <<>> /\ phase \in {"idle", "retiring", "leaving"}

(* Once the supervisor requires recovery no operation is dispatched again: *)
(* typed operations stay blocked until swclid is restarted.                *)
RecoveryBlocks == [][recovery # None => executions' = executions]_vars

(* A recorded outcome is final: a failure, a timeout or a success is never *)
(* overwritten by a later attempt, it can only be dropped.                 *)
OutcomeIsFinal ==
  [][\A id \in RequestIds : cache[id] # None => cache'[id] \in {cache[id], None}]_vars

(* An operation starts only while the thread of its own request waits for  *)
(* the reply, as long as no shutdown has given up on a live worker.        *)
DispatchedForWaiter ==
  [][~stopTimedOut /\ executions' # executions =>
       \E t \in Callers : pc[t] = "awaiting" /\ asked[t].id = current.id]_vars

(* Every request that reaches the manager is answered, whatever the worker *)
(* and the host do, unless the process exits first.                        *)
EveryRequestAnswered ==
  \A t \in Threads : pc[t] = "waiting" ~> (pc[t] = "done" \/ server = "exited")

(* A server that was told to stop closes its manager. *)
StopCloses == server = "stopping" ~> server \in {"closed", "exited"}

(* Why recovery blocks: wherever the loss of the host shows, in an event,  *)
(* in an unread response or in the recovery state, the worker has already  *)
(* left its request loop; and no thread past the recovery check shares the *)
(* manager with one that sets it.                                          *)
Ended     == {"retiring", "leaving", "dead"}
LossCodes == {"HostDisconnected", "NativeCommandRestoreFailed"}

LossAnswered == \E i \in DOMAIN responseQ : responseQ[i].code \in LossCodes

LockInv      == \A t \in Threads : InLock(t) => lock = t
ProcessInv   == ~process => ~Alive
EventInv     == Disconnected => phase \in {"leaving", "dead"}
ResponseInv  == LossAnswered => phase \in Ended
BlockedInv   == recovery # None => phase \in Ended
PastCheckInv ==
  \A t \in Callers : pc[t] \in {"dispatch", "starting", "awaiting"} => recovery = None

RecoveryInv == LockInv /\ ProcessInv /\ EventInv /\ ResponseInv /\ BlockedInv /\ PastCheckInv

(* What the documentation says and the code does not keep. *)

(* "An identical retry is served from the cache": the reply recorded for a *)
(* request is a reply to that request.                                     *)
RecordedReplyIsOwn ==
  \A id \in RequestIds : cache[id] # None => cache[id].response.id = id

(* "the supervisor terminates the worker and any daemon-owned SOLIDWORKS   *)
(* process tree": when a timeout is reported the owned host is gone.       *)
TimeoutEndsOwnedHost ==
  [][\A t \in Callers :
       CallTimesOut(t) /\ owned_by_daemon => host' = 0]_vars

(* "Typed operations remain blocked so they cannot silently replace the    *)
(* lost document session": once a worker reported its host lost, nothing   *)
(* is dispatched to another one.                                           *)
LostSessionStaysBlocked == [][lostHost => executions' = executions]_vars

=============================================================================
