------------------------------ MODULE ComWorker ------------------------------
(***************************************************************************)
(* The COM worker process of swclid (daemon/server.py, _worker_main) and   *)
(* the SOLIDWORKS host it drives.  The worker talks to its supervisor      *)
(* through three queues only: it takes requests from requestQ, answers on  *)
(* responseQ and reports startup phases and host loss on lifecycleQ.  The  *)
(* supervisor's side of the queues is in WorkerManager.                    *)
(*                                                                         *)
(* COM results are nondeterministic: a probe of a live host may succeed,   *)
(* be temporarily rejected or fail; an operation may end in any of the     *)
(* ways the code tells apart.  What an operation does to the document is   *)
(* not modelled here, only that it was dispatched (executions).            *)
(***************************************************************************)
EXTENDS Naturals, Sequences

CONSTANTS
  RequestIds,     \* the request_id values clients use
  FailureLimit    \* HOST_PROBE_FAILURE_LIMIT

ASSUME FailureLimitAssumption == FailureLimit \in Nat \ {0}

VARIABLES
  attached,    \* --attach-existing: the host is shared, not owned
  phase,       \* control point of the worker process
  current,     \* the request the worker took last
  failures,    \* consecutive_failures of the idle wait it is in, or 0
  requestQ,    \* request_queue
  responseQ,   \* response_queue
  lifecycleQ,  \* lifecycle_queue
  host,        \* process id of the running SOLIDWORKS, 0 when none runs
  pid,         \* process id of the host acquired last
  executions,  \* history: times an operation was dispatched, per request_id
  lostHost     \* history: some worker reported its host disconnected

queues     == <<requestQ, responseQ, lifecycleQ>>
workerVars == <<attached, phase, current, failures, queues, host, pid, executions, lostHost>>

owned_by_daemon == ~attached

Requests == [id : RequestIds, op : {"typed", "shutdown"}]

ResponseCodes == {"ok", "failed", "stopping", "HostBusy", "ActiveDocument",
                  "HostDisconnected", "NativeCommandRestoreFailed"}
Responses     == [id : RequestIds, code : ResponseCodes]

(* The code a host-disconnected event carries only words the error later   *)
(* replies show; it is left out.                                           *)
Events == {"host-acquired", "ready", "startup-failed", "host-disconnected"}

(* "spawned" has not acquired a host; "acquired" holds one it has not      *)
(* reported; "readying" waits for StartupProcessCompleted; "idle" waits    *)
(* for work; "probing" and "running" serve a request; "retiring" answered  *)
(* a request after which the worker must end; "leaving" broke out of the   *)
(* loop and has yet to run its finally clause.                             *)
Phases == {"spawned", "acquired", "readying", "idle", "probing", "running",
           "retiring", "leaving", "dead"}

Alive  == phase # "dead"
HostUp == host # 0

(* Mutant: the operation is answered in the place of its outcome. *)
MutantEchoesOp(code) == responseQ' = Append(responseQ, [id |-> current.id, code |-> current.op])

Respond(code) == responseQ' = Append(responseQ, [id |-> current.id, code |-> code])
Report(event) == lifecycleQ' = Append(lifecycleQ, event)

-----------------------------------------------------------------------------
(* Startup *)

(* acquire_resident_app: DispatchEx starts an owned host only when no host *)
(* is active; attaching needs an active one.  Every other combination, a   *)
(* failed activation and a failed configure_resident_app raise before the  *)
(* worker holds an app, so the finally clause has nothing to close: a host *)
(* that did start is left running.                                         *)
AcquireHost ==
  /\ phase = "spawned"
  /\ \/ /\ HostUp = attached
        /\ pid' = IF attached THEN host ELSE pid + 1
        /\ host' = pid'
        /\ phase' = "acquired"
        /\ UNCHANGED lifecycleQ
     \/ /\ Report("startup-failed")
        /\ phase' = "dead"
        /\ \/ UNCHANGED <<host, pid>>
           \/ ~HostUp /\ ~attached /\ pid' = pid + 1 /\ host' = pid'
  /\ UNCHANGED <<attached, current, failures, requestQ, responseQ, executions, lostHost>>

ReportHost ==
  /\ phase = "acquired"
  /\ HostUp
  /\ Report("host-acquired")
  /\ phase' = "readying"
  /\ UNCHANGED <<attached, current, failures, requestQ, responseQ, host, pid, executions, lostHost>>

(* wait_windows_host_ready and the construction of DocumentRegistry *)
BecomeReady ==
  /\ phase = "readying"
  /\ HostUp
  /\ Report("ready")
  /\ phase' = "idle"
  /\ failures' = 0
  /\ UNCHANGED <<attached, current, requestQ, responseQ, host, pid, executions, lostHost>>

StartupFails ==
  /\ phase \in {"acquired", "readying"}
  /\ Report("startup-failed")
  /\ phase' = "leaving"
  /\ UNCHANGED <<attached, current, failures, requestQ, responseQ, host, pid, executions, lostHost>>

-----------------------------------------------------------------------------
(* The request loop *)

TakeRequest ==
  /\ phase = "idle"
  /\ requestQ # <<>>
  /\ current' = Head(requestQ)
  /\ requestQ' = Tail(requestQ)
  /\ phase' = "probing"
  /\ failures' = 0
  /\ UNCHANGED <<attached, responseQ, lifecycleQ, host, pid, executions, lostHost>>

(* _wait_for_worker_request when the queue stayed empty for an interval    *)
IdleProbeSucceeds ==
  /\ phase = "idle"
  /\ requestQ = <<>>
  /\ HostUp            \* the probe answered, or was temporarily rejected
  /\ failures' = 0
  /\ UNCHANGED <<attached, phase, current, queues, host, pid, executions, lostHost>>

(* A known disconnect HRESULT, which only a lost host returns, is conclusive *)
(* at once; any other failure counts up to the limit.                        *)
IdleProbeFails ==
  /\ phase = "idle"
  /\ requestQ = <<>>
  /\ \/ /\ failures + 1 < FailureLimit
        /\ failures' = failures + 1
        /\ UNCHANGED <<phase, lifecycleQ, lostHost>>
     \/ /\ ~HostUp \/ failures + 1 >= FailureLimit
        /\ Report("host-disconnected")
        /\ lostHost' = TRUE
        /\ phase' = "leaving"
        /\ failures' = 0
  /\ UNCHANGED <<attached, current, requestQ, responseQ, host, pid, executions>>

(* The probe before dispatch: a temporary rejection answers HostBusy and   *)
(* keeps the worker; any other failure ends it.                            *)
ProbeRejected ==
  /\ phase = "probing"
  /\ HostUp
  /\ Respond("HostBusy")
  /\ phase' = "idle"
  /\ failures' = 0
  /\ UNCHANGED <<attached, current, requestQ, lifecycleQ, host, pid, executions, lostHost>>

ProbeDisconnected ==
  /\ phase = "probing"
  /\ Respond("HostDisconnected")
  /\ phase' = "retiring"
  /\ UNCHANGED <<attached, current, failures, requestQ, lifecycleQ, host, pid, executions, lostHost>>

(* __daemon.shutdown__: an owned host with a document open refuses, and so *)
(* does one whose ActiveDoc cannot be read.                                *)
RefuseShutdown ==
  /\ phase = "probing"
  /\ HostUp
  /\ current.op = "shutdown"
  /\ owned_by_daemon
  /\ \/ Respond("ActiveDocument")
     \/ Respond("failed")
  /\ phase' = "idle"
  /\ failures' = 0
  /\ UNCHANGED <<attached, current, requestQ, lifecycleQ, host, pid, executions, lostHost>>

AcceptShutdown ==
  /\ phase = "probing"
  /\ HostUp
  /\ current.op = "shutdown"
  /\ Respond("stopping")
  /\ phase' = "leaving"
  /\ UNCHANGED <<attached, current, failures, requestQ, lifecycleQ, host, pid, executions, lostHost>>

(* execute_operation begins: from here the native model may change.        *)
Dispatch ==
  /\ phase = "probing"
  /\ HostUp
  /\ current.op = "typed"
  /\ executions' = [executions EXCEPT ![current.id] = @ + 1]
  /\ phase' = "running"
  /\ UNCHANGED <<attached, current, failures, queues, host, pid, lostHost>>

Complete ==
  /\ phase = "running"
  /\ \/ HostUp /\ Respond("ok")
     \/ Respond("failed")
  /\ phase' = "idle"
  /\ failures' = 0
  /\ UNCHANGED <<attached, current, requestQ, lifecycleQ, host, pid, executions, lostHost>>

(* Only owned hosts run inside native_api_sequence and the calibrated STL  *)
(* profile, so only there can CommandInProgress or the STL preferences be  *)
(* left in an unknown state.  The worker answers first and retires next.   *)
CompleteUnrestored ==
  /\ phase = "running"
  /\ owned_by_daemon
  /\ \/ Respond("NativeCommandRestoreFailed")
     \/ Respond("failed")
  /\ phase' = "retiring"
  /\ UNCHANGED <<attached, current, failures, requestQ, lifecycleQ, host, pid, executions, lostHost>>

(* The lifecycle event follows the response, then the loop is left. *)
Retire ==
  /\ phase = "retiring"
  /\ Report("host-disconnected")
  /\ lostHost' = TRUE
  /\ phase' = "leaving"
  /\ UNCHANGED <<attached, current, failures, requestQ, responseQ, host, pid, executions>>

(* The finally clause: ExitApp closes an owned host that has no document   *)
(* open; it may fail, and the failure is ignored.                          *)
CleanUp ==
  /\ phase = "leaving"
  /\ host' \in IF owned_by_daemon THEN {host, 0} ELSE {host}
  /\ phase' = "dead"
  /\ UNCHANGED <<attached, current, failures, queues, pid, executions, lostHost>>

-----------------------------------------------------------------------------
(* Faults *)

(* The Python process ends without running another statement. *)
Crash ==
  /\ Alive
  /\ phase' = "dead"
  /\ failures' = 0
  /\ UNCHANGED <<attached, current, queues, host, pid, executions, lostHost>>

(* SOLIDWORKS exits: it crashes, or its user closes it. *)
HostExits ==
  /\ HostUp
  /\ host' = 0
  /\ UNCHANGED <<attached, phase, current, failures, queues, pid, executions, lostHost>>

WorkerNext ==
  \/ AcquireHost \/ ReportHost \/ BecomeReady \/ StartupFails
  \/ TakeRequest \/ IdleProbeSucceeds \/ IdleProbeFails
  \/ ProbeRejected \/ ProbeDisconnected
  \/ RefuseShutdown \/ AcceptShutdown
  \/ Dispatch \/ Complete \/ CompleteUnrestored \/ Retire \/ CleanUp
  \/ Crash \/ HostExits

WorkerTypeOK ==
  /\ attached \in BOOLEAN /\ phase \in Phases /\ current \in Requests
  /\ failures \in Nat /\ host \in Nat /\ pid \in Nat
  /\ requestQ \in Seq(Requests) /\ responseQ \in Seq(Responses)
  /\ lifecycleQ \in Seq(Events)
  /\ executions \in [RequestIds -> Nat] /\ lostHost \in BOOLEAN

=============================================================================
