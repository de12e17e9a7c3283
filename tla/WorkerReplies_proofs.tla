------------------------ MODULE WorkerReplies_proofs ------------------------
(***************************************************************************)
(* Proofs about what WorkerManager tells its clients: a request is         *)
(* dispatched at most once, a recorded outcome is final, and, as long as   *)
(* no shutdown gave up on a live worker, a reply is a reply to the request *)
(* it is given to and the worker rests between requests.                   *)
(***************************************************************************)
EXTENDS WorkerManager_proofs

-----------------------------------------------------------------------------
(* The invariants *)

(* The thread that holds the lock is inside its request, callers inside    *)
(* call and stoppers inside shutdown, and a caller inside call found no    *)
(* recorded outcome of its request.                                        *)
HolderInv ==
  /\ lock # None => InLock(lock)
  /\ \A t \in Callers : pc[t] \notin StopPoints
  /\ \A t \in Stoppers : pc[t] \notin CallPoints

UnansweredInv == \A t \in Callers : pc[t] \in CallPoints => cache[asked[t].id] = None

(* An operation that was sent is queued or taken before it is dispatched;  *)
(* it is sent by a thread that keeps the lock until it has recorded the    *)
(* outcome.                                                                *)
Typed(id) == [id |-> id, op |-> "typed"]

Queued(id) == \E i \in DOMAIN requestQ : requestQ[i] = Typed(id)
Taken(id)  == phase = "probing" /\ current = Typed(id)

Waits(id) == \E t \in Callers : pc[t] \in {"awaiting", "joining"} /\ asked[t].id = id

OnceFor(id) ==
  /\ executions[id] <= 1
  /\ executions[id] = 1 => ~Queued(id) /\ ~Taken(id)
  /\ ~(Queued(id) /\ Taken(id))
  /\ \A i, j \in DOMAIN requestQ : requestQ[i] = Typed(id) /\ requestQ[j] = Typed(id) => i = j
  /\ executions[id] = 1 \/ Queued(id) \/ Taken(id) => cache[id] # None \/ Waits(id)

OnceInv == \A id \in RequestIds : id \notin forgotten => OnceFor(id)

CallInv == RecoveryInv /\ HolderInv /\ UnansweredInv /\ OnceInv

(* The queues and the worker hold nothing, or one request on its way: in   *)
(* requestQ, at work, or answered in responseQ.                            *)
Working == phase \in {"probing", "running"}
Nothing == requestQ = <<>> /\ ~Working /\ responseQ = <<>>

OneRequest(id, op) ==
  \/ Nothing
  \/ requestQ = <<[id |-> id, op |-> op]>> /\ ~Working /\ responseQ = <<>>
  \/ requestQ = <<>> /\ Working /\ current = [id |-> id, op |-> op] /\ responseQ = <<>>
  \/ requestQ = <<>> /\ ~Working /\ \E code \in ResponseCodes : responseQ = <<Error(id, code)>>

InLoop == phase \in {"idle", "retiring", "leaving"}

(* What holds for the thread that has the lock, or for nobody. *)
ExchangeInv ==
  /\ phase \in {"spawned", "acquired", "readying"} => responseQ = <<>>
  /\ lock = None \/ pc[lock] = "dispatch" => (Alive => Nothing /\ InLoop)
  /\ \A t \in Callers :
       /\ pc[t] = "starting" => Nothing
       /\ pc[t] = "awaiting" => OneRequest(asked[t].id, "typed")
       /\ pc[t] = "joining"  => Nothing /\ reply[t].id = asked[t].id
  /\ \A t \in Stoppers :
       /\ pc[t] = "stopping" => OneRequest(StopId[t], "shutdown")
       /\ pc[t] = "stop-joining" => Nothing

OwnInv == ~stopTimedOut => ExchangeInv /\ RepliesAreOwn

USE ThreadsAssumption, NoneAssumption DEF ThreadsAssumption, NoneAssumption

(* The tuples of variables. *)
USE DEF queues, workerVars, threadVars, managerVars, otherVars, vars

-----------------------------------------------------------------------------
(* Each request is dispatched once *)

LEMMA InitCallInv == Init => HolderInv /\ UnansweredInv /\ OnceInv
<1> SUFFICES ASSUME Init PROVE HolderInv /\ UnansweredInv /\ OnceInv
  OBVIOUS
<1> USE DEF Init
<1>1. HolderInv /\ UnansweredInv
  BY DEF HolderInv, UnansweredInv, CallPoints, StopPoints, Threads
<1>2. OnceInv
  BY DEF OnceInv, OnceFor, Queued, Taken
<1>3. QED
  BY <1>1, <1>2

(* Steps that send nothing, dispatch nothing and record nothing. *)
LEMMA SameOnce ==
  ASSUME OnceInv, UNCHANGED <<executions, requestQ, current, cache, forgotten>>,
         phase' = phase \/ phase' # "probing",
         \A id \in RequestIds : Waits(id) => Waits(id)'
  PROVE  OnceInv'
<1> SUFFICES ASSUME NEW id \in RequestIds, id \notin forgotten PROVE OnceFor(id)'
  BY DEF OnceInv
<1>1. OnceFor(id)
  BY DEF OnceInv
<1>2. (Queued(id)' <=> Queued(id)) /\ (Taken(id)' => Taken(id))
  BY DEF Queued, Taken, Typed
<1>3. Typed(id)' = Typed(id)
  BY DEF Typed
<1>4. QED
  BY <1>1, <1>2, <1>3 DEF OnceFor

LEMMA QueueTail ==
  ASSUME TypeOK, requestQ # <<>>, requestQ' = Tail(requestQ)
  PROVE  /\ 1 \in DOMAIN requestQ /\ requestQ[1] = Head(requestQ)
         /\ \A i \in DOMAIN requestQ' : i + 1 \in DOMAIN requestQ /\ requestQ'[i] = requestQ[i + 1]
                                         /\ i \in Nat \ {0}
  BY DEF TypeOK, WorkerTypeOK

LEMMA QueueAppend ==
  ASSUME TypeOK, NEW r \in Requests, requestQ' = Append(requestQ, r)
  PROVE  \A i \in DOMAIN requestQ' :
           \/ i \in DOMAIN requestQ /\ requestQ'[i] = requestQ[i]
           \/ i = Len(requestQ) + 1 /\ requestQ'[i] = r
  BY DEF TypeOK, WorkerTypeOK

LEMMA TakeOnce ==
  ASSUME TypeInv, OnceInv, TakeRequest, UNCHANGED <<threadVars, managerVars, otherVars>>
  PROVE  OnceInv'
<1> SUFFICES ASSUME NEW id \in RequestIds, id \notin forgotten PROVE OnceFor(id)'
  BY DEF OnceInv, TakeRequest
<1> USE DEF TakeRequest
<1>1. OnceFor(id) /\ TypeOK
  BY DEF OnceInv, TypeInv
<1>2. Waits(id)' <=> Waits(id)
  BY DEF Waits
<1>3. Typed(id)' = Typed(id)
  BY DEF Typed
<1>4. Queued(id)' => Queued(id)
  BY <1>1, <1>3, QueueTail DEF Queued
<1>5. Taken(id)' => Queued(id)
  BY <1>1, <1>3, QueueTail DEF Queued, Taken
<1>6. ~(Queued(id)' /\ Taken(id)')
  <2> SUFFICES ASSUME Queued(id)', Taken(id)' PROVE FALSE
    OBVIOUS
  <2>1. requestQ[1] = Typed(id) /\ 1 \in DOMAIN requestQ
    BY <1>1, <1>3, QueueTail DEF Taken
  <2>2. PICK i \in DOMAIN requestQ' : requestQ'[i] = Typed(id)
    BY <1>3 DEF Queued
  <2>3. i + 1 \in DOMAIN requestQ /\ requestQ[i + 1] = Typed(id) /\ i \in Nat \ {0}
    BY <1>1, <2>2, QueueTail
  <2>4. i + 1 = 1
    BY <1>1, <2>1, <2>3 DEF OnceFor
  <2>5. QED
    BY <2>3, <2>4
<1>7. \A i, j \in DOMAIN requestQ' : requestQ'[i] = Typed(id) /\ requestQ'[j] = Typed(id) => i = j
  <2> SUFFICES ASSUME NEW i \in DOMAIN requestQ', NEW j \in DOMAIN requestQ',
                      requestQ'[i] = Typed(id), requestQ'[j] = Typed(id)
               PROVE  i = j
    OBVIOUS
  <2>1. /\ i + 1 \in DOMAIN requestQ /\ requestQ[i + 1] = Typed(id) /\ i \in Nat
        /\ j + 1 \in DOMAIN requestQ /\ requestQ[j + 1] = Typed(id) /\ j \in Nat
    BY <1>1, QueueTail
  <2>2. i + 1 = j + 1
    BY <1>1, <2>1 DEF OnceFor
  <2>3. QED
    BY <2>1, <2>2
<1>8. QED
  BY <1>1, <1>2, <1>3, <1>4, <1>5, <1>6, <1>7 DEF OnceFor

LEMMA DispatchOnce ==
  ASSUME TypeInv, OnceInv, Dispatch, UNCHANGED <<threadVars, managerVars, otherVars>>
  PROVE  OnceInv'
<1> SUFFICES ASSUME NEW id \in RequestIds, id \notin forgotten PROVE OnceFor(id)'
  BY DEF OnceInv
<1> USE DEF Dispatch
<1>1. OnceFor(id) /\ TypeOK
  BY DEF OnceInv, TypeInv
<1>2. (Waits(id)' <=> Waits(id)) /\ Typed(id)' = Typed(id) /\ (Queued(id)' <=> Queued(id))
  BY DEF Waits, Queued, Typed
<1>3. ~Taken(id)'
  BY DEF Taken
<1>4. executions[id] \in Nat
  BY <1>1 DEF TypeOK, WorkerTypeOK
<1>5. CASE current.id = id
  <2>1. Taken(id)
    BY <1>1, <1>5 DEF Taken, Typed, TypeOK, WorkerTypeOK, Requests
  <2>2. executions[id] = 0 /\ ~Queued(id)
    BY <1>1, <1>4, <2>1 DEF OnceFor
  <2>3. executions'[id] = 1
    BY <1>1, <1>5, <2>2 DEF TypeOK, WorkerTypeOK
  <2>4. QED
    BY <1>1, <1>2, <1>3, <2>1, <2>2, <2>3 DEF OnceFor
<1>6. CASE current.id # id
  <2>1. executions'[id] = executions[id]
    BY <1>1, <1>6 DEF TypeOK, WorkerTypeOK
  <2>2. QED
    BY <1>1, <1>2, <1>3, <2>1 DEF OnceFor
<1>7. QED
  BY <1>5, <1>6

LEMMA WorkerOnce ==
  ASSUME TypeInv, CallInv, WorkerNext, UNCHANGED <<threadVars, managerVars, otherVars>>
  PROVE  CallInv'
<1>1. RecoveryInv'
  BY WorkerRecovery DEF CallInv
<1>2. HolderInv' /\ UnansweredInv'
  BY DEF CallInv, HolderInv, UnansweredInv, InLock
<1>3. OnceInv'
  <2>1. OnceInv /\ \A id \in RequestIds : Waits(id) => Waits(id)'
    BY DEF CallInv, Waits
  <2>2. CASE TakeRequest
    BY <2>1, <2>2, TakeOnce
  <2>3. CASE Dispatch
    BY <2>1, <2>3, DispatchOnce
  <2>4. CASE WorkerNext /\ ~TakeRequest /\ ~Dispatch
    <3>1. /\ UNCHANGED <<executions, requestQ, current>>
          /\ phase' = phase \/ phase' # "probing"
      BY <2>4 DEF WorkerNext, AcquireHost, ReportHost, BecomeReady, StartupFails,
                  IdleProbeSucceeds, IdleProbeFails, ProbeRejected, ProbeDisconnected,
                  RefuseShutdown, AcceptShutdown, Complete, CompleteUnrestored, Retire,
                  CleanUp, Crash, HostExits
    <3>2. QED
      BY <2>1, <3>1, SameOnce
  <2>5. QED
    BY <2>2, <2>3, <2>4
<1>4. QED
  BY <1>1, <1>2, <1>3 DEF CallInv

(* A thread that returns or moves on does so alone. *)
LEMMA OthersStay ==
  ASSUME TypeOK, NEW t \in Threads, NEW point, pc' = [pc EXCEPT ![t] = point]
  PROVE  pc'[t] = point /\ \A u \in Threads \ {t} : pc'[u] = pc[u]
  BY DEF TypeOK, ThreadTypeOK

(* A thread outside "awaiting" and "joining" moves: nobody's wait ends. *)
LEMMA SameWaits ==
  ASSUME TypeOK, NEW t \in Threads, NEW point, pc' = [pc EXCEPT ![t] = point],
         pc[t] \notin {"awaiting", "joining"} \/ point \in {"awaiting", "joining"},
         UNCHANGED asked
  PROVE  \A id \in RequestIds : Waits(id) => Waits(id)'
<1> SUFFICES ASSUME NEW u \in Callers, pc[u] \in {"awaiting", "joining"}
             PROVE  pc'[u] \in {"awaiting", "joining"}
  BY DEF Waits
<1>1. QED
  BY OthersStay DEF Threads

(* The lock, the roles and the open requests after a step of one thread. *)
LEMMA ReturnHolder ==
  ASSUME TypeOK, CallInv, NEW t \in Threads, lock \in {None, t}, NEW response,
         Return(t, response)
  PROVE  HolderInv' /\ UnansweredInv'
<1>1. pc'[t] = "done" /\ \A u \in Threads \ {t} : pc'[u] = pc[u]
  BY OthersStay DEF Return
<1>2. "done" \notin CallPoints \cup StopPoints
  BY DEF CallPoints, StopPoints
<1>3. HolderInv'
  BY <1>1, <1>2 DEF Return, CallInv, HolderInv, Threads
<1>4. \A u \in Threads \ {t} : pc[u] \notin CallPoints
  BY DEF CallInv, RecoveryInv, LockInv, InLock, Threads
<1>5. UnansweredInv'
  BY <1>1, <1>2, <1>4 DEF UnansweredInv, Threads
<1>6. QED
  BY <1>3, <1>5

LEMMA GotoHolder ==
  ASSUME TypeOK, CallInv, NEW t \in Callers, NEW point \in CallPoints, Goto(t, point),
         pc[t] \in CallPoints \/ cache[asked[t].id] = None, UNCHANGED cache
  PROVE  HolderInv' /\ UnansweredInv'
<1> t \in Threads
  BY DEF Threads
<1>1. pc'[t] = point /\ (\A u \in Threads \ {t} : pc'[u] = pc[u]) /\ lock' = t
  BY OthersStay DEF Goto
<1>2. CallPoints \cap StopPoints = {}
  BY DEF CallPoints, StopPoints
<1>3. HolderInv'
  BY <1>1, <1>2 DEF CallInv, HolderInv, Threads, InLock
<1>4. cache[asked[t].id] = None
  BY DEF CallInv, UnansweredInv
<1>5. UnansweredInv'
  BY <1>1, <1>4 DEF CallInv, UnansweredInv, Threads, Goto
<1>6. QED
  BY <1>3, <1>5

(* Recording an outcome: nothing recorded is replaced, and what is neither *)
(* recorded afterwards nor dropped was not recorded before.                *)
LEMMA RememberKeeps ==
  ASSUME TypeOK, NEW id \in RequestIds, NEW fingerprint \in Fingerprints,
         NEW response \in Replies, Remember(id, fingerprint, response)
  PROVE  /\ forgotten \subseteq forgotten'
         /\ \A x \in RequestIds \ forgotten' :
              /\ cache[x] # None => cache'[x] # None
              /\ x = id => cache'[x] # None
         /\ \A x \in RequestIds : x # id => cache'[x] \in {cache[x], None}
<1>1. [fingerprint |-> fingerprint, response |-> response] # None
  BY DEF Entries
<1>2. QED
  BY <1>1 DEF Remember

(* A call that settles has recorded the outcome it waited for. *)
LEMMA SettleOnce ==
  ASSUME TypeInv, CallInv, NEW t \in Callers, NEW response \in Replies, Settle(t, response),
         lock \in {None, t}, UNCHANGED <<executions, requestQ, current>>,
         phase' = phase \/ phase' # "probing"
  PROVE  HolderInv' /\ UnansweredInv' /\ OnceInv'
<1> TypeOK /\ t \in Threads
  BY DEF TypeInv, Threads
<1>1. HolderInv' /\ UnansweredInv'
  BY ReturnHolder DEF Settle
<1> SUFFICES ASSUME NEW id \in RequestIds, id \notin forgotten' PROVE OnceFor(id)'
  BY <1>1 DEF OnceInv
<1>2. /\ forgotten \subseteq forgotten'
      /\ cache[id] # None => cache'[id] # None
      /\ id = asked[t].id => cache'[id] # None
  BY AskedType, RememberKeeps DEF Settle
<1>3. OnceFor(id)
  BY <1>2 DEF CallInv, OnceInv
<1>4. (Queued(id)' <=> Queued(id)) /\ (Taken(id)' => Taken(id)) /\ Typed(id)' = Typed(id)
  BY DEF Queued, Taken, Typed
<1>5. Waits(id) => Waits(id)' \/ id = asked[t].id
  <2>1. \A u \in Threads \ {t} : pc'[u] = pc[u]
    BY OthersStay DEF Settle, Return
  <2>2. QED
    BY <2>1 DEF Waits, Settle, Return, Threads
<1>6. QED
  BY <1>2, <1>3, <1>4, <1>5 DEF OnceFor

(* A call that sends its operation: it is the first to send it. *)
LEMMA SendOnce ==
  ASSUME TypeInv, CallInv, NEW t \in Callers, pc[t] \in {"dispatch", "starting"},
         SendTo(t), Goto(t, "awaiting"),
         UNCHANGED <<executions, current, phase, cache, forgotten>>
  PROVE  OnceInv'
<1> TypeOK /\ t \in Threads
  BY DEF TypeInv, Threads
<1>0. PICK sent \in RequestIds : sent = asked[t].id /\ cache[sent] = None /\ UNCHANGED asked
  BY AskedType DEF CallInv, UnansweredInv, CallPoints, Goto
<1>1. requestQ' = Append(requestQ, Typed(sent)) /\ Typed(sent) \in Requests
  BY <1>0 DEF SendTo, Typed, Requests
<1>2. \A id \in RequestIds : Waits(id) => Waits(id)'
  BY SameWaits DEF Goto
<1>3. Waits(sent)'
  <2>1. pc'[t] = "awaiting"
    BY OthersStay DEF Goto
  <2>2. QED
    BY <1>0, <2>1 DEF Waits
<1>4. ~Waits(sent)
  <2> SUFFICES ASSUME NEW u \in Callers, pc[u] \in {"awaiting", "joining"} PROVE FALSE
    BY DEF Waits
  <2>1. InLock(u) /\ InLock(t) /\ u \in Threads /\ u # t
    BY DEF InLock, CallPoints, Threads
  <2>2. QED
    BY <2>1 DEF CallInv, RecoveryInv, LockInv
<1> SUFFICES ASSUME NEW id \in RequestIds, id \notin forgotten PROVE OnceFor(id)'
  BY DEF OnceInv
<1>5. OnceFor(id)
  BY DEF CallInv, OnceInv
<1>6. (Taken(id)' <=> Taken(id)) /\ Typed(id)' = Typed(id)
  BY DEF Taken, Typed
<1>7. CASE id = sent
  <2>1. executions[id] # 1 /\ ~Queued(id) /\ ~Taken(id)
    BY <1>0, <1>4, <1>5, <1>7 DEF OnceFor
  <2>2. \A i \in DOMAIN requestQ' : requestQ'[i] = Typed(id) => i = Len(requestQ) + 1
    BY <1>1, <2>1, QueueAppend DEF Queued
  <2>3. QED
    BY <1>3, <1>5, <1>6, <1>7, <2>1, <2>2 DEF OnceFor
<1>8. CASE id # sent
  <2>1. Typed(id) # Typed(sent)
    BY <1>8 DEF Typed
  <2>2. \A i \in DOMAIN requestQ' : requestQ'[i] = Typed(id)
                                     => i \in DOMAIN requestQ /\ requestQ[i] = Typed(id)
    BY <1>1, <2>1, QueueAppend
  <2>3. Queued(id)' => Queued(id)
    BY <1>6, <2>2 DEF Queued
  <2>4. QED
    BY <1>2, <1>5, <1>6, <2>2, <2>3 DEF OnceFor
<1>9. QED
  BY <1>7, <1>8

(* A step of one caller, outside the queues, that ends no wait. *)
LEMMA MoveOnce ==
  ASSUME TypeOK, OnceInv, NEW t \in Threads, NEW point, pc' = [pc EXCEPT ![t] = point],
         pc[t] \notin {"awaiting", "joining"} \/ point \in {"awaiting", "joining"},
         UNCHANGED <<asked, executions, requestQ, current, cache, forgotten>>,
         phase' = phase \/ phase' # "probing"
  PROVE  OnceInv'
<1>1. \A id \in RequestIds : Waits(id) => Waits(id)'
  BY SameWaits
<1>2. QED
  BY <1>1, SameOnce

LEMMA TerminatePhase ==
  ASSUME NEW force, Terminate(force)
  PROVE  phase' = phase \/ phase' # "probing"
  BY DEF Terminate

LEMMA CallOnce ==
  ASSUME TypeInv, CallInv, NEW t \in Callers, CallStep(t)
  PROVE  CallInv'
<1> TypeOK /\ OnceInv /\ t \in Threads
  BY DEF TypeInv, CallInv, Threads
<1>0. RecoveryInv'
  BY CallRecovery DEF CallInv
<1> SUFFICES HolderInv' /\ UnansweredInv' /\ OnceInv'
  BY <1>0 DEF CallInv
<1>l. pc[t] \in CallPoints => lock = t
  BY DEF CallInv, RecoveryInv, LockInv, InLock
<1>p. {"dispatch", "starting", "awaiting", "joining"} = CallPoints
  BY DEF CallPoints
<1>1. CASE CallReplays(t)
  <2>1. PICK response : Return(t, response)
    BY <1>1 DEF CallReplays
  <2>2. HolderInv' /\ UnansweredInv'
    BY <1>1, <2>1, ReturnHolder DEF CallReplays, Enter
  <2>3. OnceInv'
    BY <1>1, <2>1, MoveOnce DEF CallReplays, Enter, Return
  <2>4. QED
    BY <2>2, <2>3
<1>2. CASE CallBlocked(t)
  <2>1. Error(asked[t].id, RefreshedRecovery) \in Replies
    <3>1. RefreshedRecovery \in RecoveryCodes
      BY <1>2, RefreshType DEF CallBlocked, Enter
    <3>2. QED
      BY <3>1, AskedType, ErrorType DEF SupervisorCodes
  <2>2. QED
    BY <1>2, <2>1, SettleOnce DEF CallBlocked, Enter
<1>3. CASE CallProceeds(t)
  <2>1. HolderInv' /\ UnansweredInv'
    BY <1>3, <1>p, GotoHolder DEF CallProceeds, Enter
  <2>2. OnceInv'
    BY <1>3, MoveOnce DEF CallProceeds, Enter, Goto
  <2>3. QED
    BY <2>1, <2>2
<1>4. CASE CallSends(t)
  <2>1. HolderInv' /\ UnansweredInv'
    BY <1>4, <1>p, GotoHolder DEF CallSends
  <2>2. OnceInv'
    BY <1>4, SendOnce DEF CallSends
  <2>3. QED
    BY <2>1, <2>2
<1>5. CASE CallStarts(t)
  <2>1. HolderInv' /\ UnansweredInv'
    BY <1>5, <1>p, GotoHolder DEF CallStarts
  <2>2. OnceInv'
    <3>1. \A id \in RequestIds : Waits(id) => Waits(id)'
      BY <1>5, SameWaits DEF CallStarts, Goto
    <3>2. \A id \in RequestIds : ~Queued(id)' /\ ~Taken(id)'
      BY <1>5 DEF CallStarts, Queued, Taken
    <3>3. requestQ' = <<>> /\ UNCHANGED <<executions, cache, forgotten>>
      BY <1>5 DEF CallStarts
    <3> SUFFICES ASSUME NEW id \in RequestIds, id \notin forgotten PROVE OnceFor(id)'
      BY <3>3 DEF OnceInv
    <3>4. OnceFor(id)
      BY DEF OnceInv
    <3>5. QED
      BY <3>1, <3>2, <3>3, <3>4 DEF OnceFor
  <2>3. QED
    BY <2>1, <2>2
<1>6. CASE HostAcquired(t)
  <2>1. HolderInv' /\ UnansweredInv'
    BY <1>6 DEF HostAcquired, CallInv, HolderInv, UnansweredInv, InLock
  <2>2. \A id \in RequestIds : Waits(id) => Waits(id)'
    BY <1>6 DEF HostAcquired, Waits
  <2>3. OnceInv'
    BY <1>6, <2>2, SameOnce DEF HostAcquired
  <2>4. QED
    BY <2>1, <2>3
<1>7. CASE WorkerReady(t)
  <2>1. HolderInv' /\ UnansweredInv'
    BY <1>7, <1>p, GotoHolder DEF WorkerReady
  <2>2. OnceInv'
    BY <1>7, SendOnce DEF WorkerReady
  <2>3. QED
    BY <2>1, <2>2
<1>8. CASE StartFails(t)
  <2>1. HolderInv' /\ UnansweredInv'
    BY <1>8, <1>l, <1>p, ReturnHolder DEF StartFails
  <2>2. OnceInv'
    BY <1>8, TerminatePhase, MoveOnce DEF StartFails, Return
  <2>3. QED
    BY <2>1, <2>2
<1>9. CASE CallReceives(t)
  <2>1. lock = t /\ pc[t] = "awaiting"
    BY <1>9, <1>l, <1>p DEF CallReceives
  <2>2. CASE pc' = [pc EXCEPT ![t] = "joining"] /\ UNCHANGED <<lock, asked, cache, forgotten>>
    <3>1. \A u \in Threads : u = t \/ pc'[u] = pc[u]
      BY <2>2, OthersStay
    <3>2. pc'[t] = "joining" /\ "joining" \notin StopPoints
      BY <2>2, OthersStay DEF StopPoints
    <3>3. HolderInv' /\ UnansweredInv'
      BY <2>1, <2>2, <3>1, <3>2, <1>p DEF CallInv, HolderInv, UnansweredInv, InLock, Threads
    <3>4. OnceInv'
      BY <1>9, <2>2, MoveOnce DEF CallReceives
    <3>5. QED
      BY <3>3, <3>4
  <2>3. CASE Settle(t, Head(responseQ))
    <3>1. Head(responseQ) \in Replies
      BY <1>9, ResponseType DEF CallReceives
    <3>2. QED
      BY <1>9, <2>1, <2>3, <3>1, SettleOnce DEF CallReceives
  <2>4. QED
    BY <1>9, <2>2, <2>3 DEF CallReceives
<1>10. CASE CallTimesOut(t)
  <2>1. Error(asked[t].id, "WorkerTimeout") \in Replies /\ lock = t
    BY <1>10, <1>l, <1>p, AskedType, ErrorType DEF CallTimesOut, SupervisorCodes
  <2>2. QED
    BY <1>10, <2>1, TerminatePhase, SettleOnce DEF CallTimesOut
<1>11. CASE CallJoins(t)
  <2>1. reply[t] \in Replies /\ lock = t
    BY <1>11, <1>l, <1>p DEF CallJoins, TypeInv, JoinerReplied
  <2>2. phase' = phase \/ phase' # "probing"
    BY <1>11, TerminatePhase DEF CallJoins
  <2>3. QED
    BY <1>11, <2>1, <2>2, SettleOnce DEF CallJoins
<1>12. QED
  BY <1>1, <1>2, <1>3, <1>4, <1>5, <1>6, <1>7, <1>8, <1>9, <1>10, <1>11 DEF CallStep

(* A stopper that goes on inside shutdown. *)
LEMMA StopHolder ==
  ASSUME TypeOK, CallInv, NEW t \in Stoppers, NEW point \in StopPoints, Goto(t, point),
         lock \in {None, t}, UNCHANGED cache
  PROVE  HolderInv' /\ UnansweredInv'
<1> t \in Threads /\ t \notin Callers
  BY DEF Threads
<1>1. pc'[t] = point /\ (\A u \in Threads \ {t} : pc'[u] = pc[u]) /\ lock' = t
  BY OthersStay DEF Goto
<1>2. CallPoints \cap StopPoints = {}
  BY DEF CallPoints, StopPoints
<1>3. HolderInv'
  BY <1>1, <1>2 DEF CallInv, HolderInv, Threads, InLock
<1>4. UnansweredInv'
  BY <1>1 DEF CallInv, UnansweredInv, Threads, Goto
<1>5. QED
  BY <1>3, <1>4

LEMMA StopOnce ==
  ASSUME TypeInv, CallInv, NEW t \in Stoppers, StopStep(t)
  PROVE  CallInv'
<1> TypeOK /\ OnceInv /\ t \in Threads
  BY DEF TypeInv, CallInv, Threads
<1>0. RecoveryInv'
  BY StopRecovery DEF CallInv
<1> SUFFICES HolderInv' /\ UnansweredInv' /\ OnceInv'
  BY <1>0 DEF CallInv
<1>l. pc[t] \in StopPoints => lock = t
  BY DEF CallInv, RecoveryInv, LockInv, InLock
<1>p. {"stopping", "stop-joining"} = StopPoints
  BY DEF StopPoints
<1>1. CASE StopEnters(t)
  <2>1. CASE Goto(t, "stopping") /\ requestQ' = Append(requestQ, [id |-> StopId[t], op |-> "shutdown"])
    <3>1. HolderInv' /\ UnansweredInv'
      BY <1>1, <1>p, <2>1, StopHolder DEF StopEnters, Enter
    <3>2. \A id \in RequestIds : Waits(id) => Waits(id)'
      BY <1>1, <2>1, SameWaits DEF StopEnters, Enter, Goto
    <3> SUFFICES ASSUME NEW id \in RequestIds, id \notin forgotten PROVE OnceFor(id)'
      BY <1>1, <3>1 DEF OnceInv, StopEnters
    <3>3. OnceFor(id)
      BY DEF OnceInv
    <3>4. [id |-> StopId[t], op |-> "shutdown"] \in Requests \ {Typed(id)}
      BY DEF Requests, Typed
    <3>5. \A i \in DOMAIN requestQ' :
            requestQ'[i] = Typed(id) => i \in DOMAIN requestQ /\ requestQ[i] = Typed(id)
      BY <2>1, <3>4, QueueAppend
    <3>6. (Queued(id)' => Queued(id)) /\ (Taken(id)' => Taken(id)) /\ Typed(id)' = Typed(id)
      BY <1>1, <3>5 DEF StopEnters, Queued, Taken, Typed
    <3>7. UNCHANGED <<executions, cache>>
      BY <1>1 DEF StopEnters
    <3>8. QED
      BY <3>2, <3>3, <3>5, <3>6, <3>7 DEF OnceFor
  <2>2. CASE ReturnStopped(t, Error(StopId[t], "stopping")) /\ UNCHANGED requestQ
    <3>1. Return(t, Error(StopId[t], "stopping"))
      BY <2>2 DEF ReturnStopped
    <3>2. HolderInv' /\ UnansweredInv'
      BY <1>1, <3>1, ReturnHolder DEF StopEnters, Enter
    <3>3. OnceInv'
      BY <1>1, <2>2, <3>1, MoveOnce DEF StopEnters, Enter, Return
    <3>4. QED
      BY <3>2, <3>3
  <2>3. QED
    BY <1>1, <2>1, <2>2 DEF StopEnters
<1>2. CASE StopReceives(t)
  <2>1. lock = t /\ pc[t] = "stopping"
    BY <1>2, <1>l, <1>p DEF StopReceives
  <2>2. CASE Goto(t, "stop-joining")
    <3>1. HolderInv' /\ UnansweredInv'
      BY <1>2, <1>p, <2>1, <2>2, StopHolder DEF StopReceives
    <3>2. OnceInv'
      BY <1>2, <2>1, <2>2, MoveOnce DEF StopReceives, Goto
    <3>3. QED
      BY <3>1, <3>2
  <2>3. CASE ReturnStopped(t, Head(responseQ))
    <3>1. HolderInv' /\ UnansweredInv'
      BY <2>1, <2>3, ReturnHolder DEF ReturnStopped
    <3>2. OnceInv'
      BY <1>2, <2>1, <2>3, MoveOnce DEF StopReceives, ReturnStopped, Return
    <3>3. QED
      BY <3>1, <3>2
  <2>4. QED
    BY <1>2, <2>2, <2>3 DEF StopReceives
<1>3. CASE StopJoins(t)
  <2>1. lock = t /\ pc[t] = "stop-joining" /\ Return(t, Error(StopId[t], "stopping"))
    BY <1>3, <1>l, <1>p DEF StopJoins, ReturnStopped
  <2>2. phase' = phase \/ phase' # "probing"
    BY <1>3, TerminatePhase DEF StopJoins
  <2>3. HolderInv' /\ UnansweredInv'
    BY <2>1, ReturnHolder
  <2>4. OnceInv'
    BY <1>3, <2>1, <2>2, MoveOnce DEF StopJoins, Return
  <2>5. QED
    BY <2>3, <2>4
<1>4. CASE StopPolls(t)
  <2>1. lock = t /\ pc[t] = "stopping"
    BY <1>4, <1>l, <1>p DEF StopPolls
  <2>2. CASE UNCHANGED threadVars
    <3>1. HolderInv' /\ UnansweredInv'
      BY <1>4, <2>2 DEF StopPolls, CallInv, HolderInv, UnansweredInv, InLock
    <3>2. \A id \in RequestIds : Waits(id) => Waits(id)'
      BY <2>2 DEF Waits
    <3>3. OnceInv'
      BY <1>4, <3>2, SameOnce DEF StopPolls
    <3>4. QED
      BY <3>1, <3>3
  <2>3. CASE ~UNCHANGED threadVars
    <3>1. PICK response : Return(t, response)
      BY <1>4, <2>3 DEF StopPolls, ReturnStopped
    <3>2. HolderInv' /\ UnansweredInv'
      BY <2>1, <3>1, ReturnHolder
    <3>3. OnceInv'
      BY <1>4, <2>1, <3>1, MoveOnce DEF StopPolls, Return
    <3>4. QED
      BY <3>2, <3>3
  <2>4. QED
    BY <2>2, <2>3
<1>5. QED
  BY <1>1, <1>2, <1>3, <1>4 DEF StopStep

LEMMA OtherOnce ==
  ASSUME TypeInv, CallInv,
         (\E t \in Threads : Arrive(t)) \/ Health \/ Close \/ ExitProcess \/ UNCHANGED vars
  PROVE  CallInv'
<1> TypeOK /\ OnceInv
  BY DEF TypeInv, CallInv
<1>0. RecoveryInv'
  BY OtherRecovery DEF CallInv
<1>1. CASE \E t \in Threads : Arrive(t)
  <2>1. PICK t \in Threads : Arrive(t)
    BY <1>1
  <2>2. pc'[t] = "waiting" /\ \A u \in Threads \ {t} : pc'[u] = pc[u]
    BY <2>1, OthersStay DEF Arrive
  <2>3. \A u \in Callers \ {t} : asked'[u] = asked[u]
    BY <2>1 DEF Arrive, TypeOK, ThreadTypeOK
  <2>4. pc[t] = "new" /\ UNCHANGED <<lock, cache, forgotten, executions, requestQ, current, phase>>
    BY <2>1 DEF Arrive
  <2>5. HolderInv'
    <3>1. lock = None \/ lock \in Threads \ {t}
      BY <2>4 DEF CallInv, HolderInv, InLock, CallPoints, StopPoints, TypeOK, ThreadTypeOK
    <3>2. QED
      BY <2>2, <2>4, <3>1 DEF CallInv, HolderInv, InLock, CallPoints, StopPoints, Threads
  <2>6. UnansweredInv'
    BY <2>2, <2>3, <2>4 DEF CallInv, UnansweredInv, CallPoints, Threads
  <2>7. \A id \in RequestIds : Waits(id) => Waits(id)'
    BY <2>2, <2>3, <2>4 DEF Waits, Threads
  <2>8. OnceInv'
    BY <2>4, <2>7, SameOnce
  <2>9. QED
    BY <1>0, <2>5, <2>6, <2>8 DEF CallInv
<1>2. CASE Health \/ Close \/ ExitProcess \/ UNCHANGED vars
  <2>1. /\ UNCHANGED <<threadVars, cache, forgotten, executions, requestQ, current>>
        /\ phase' = phase \/ phase' # "probing"
    BY <1>2, TerminatePhase DEF Health, Close, ExitProcess
  <2>2. HolderInv' /\ UnansweredInv'
    BY <2>1 DEF CallInv, HolderInv, UnansweredInv, InLock
  <2>3. \A id \in RequestIds : Waits(id) => Waits(id)'
    BY <2>1 DEF Waits
  <2>4. OnceInv'
    BY <2>1, <2>3, SameOnce
  <2>5. QED
    BY <1>0, <2>2, <2>4 DEF CallInv
<1>3. QED
  BY <1>1, <1>2

(* CallInv is inductive. *)
LEMMA CallInvariant == Spec => []CallInv
<1>1. Init => CallInv
  BY InitRecoveryInv, InitCallInv DEF CallInv
<1>2. TypeInv /\ CallInv /\ [Next]_vars => CallInv'
  BY WorkerOnce, CallOnce, StopOnce, OtherOnce DEF Next
<1>3. QED
  BY <1>1, <1>2, TypeInvariant, PTL DEF Spec

(* A request_id is one attempt: whatever happens to the worker and however *)
(* often the client retries, its operation is dispatched at most once      *)
(* until the cache drops the id.                                           *)
THEOREM DispatchedAtMostOnce == Spec => []AtMostOnce
<1>1. TypeInv /\ CallInv => AtMostOnce
  BY DEF TypeInv, TypeOK, WorkerTypeOK, CallInv, OnceInv, OnceFor, AtMostOnce
<1>2. QED
  BY <1>1, TypeInvariant, CallInvariant, PTL

(* The cache changes only where a call settles its own request. *)
LEMMA OnlySettles ==
  ASSUME TypeInv, CallInv, [Next]_vars, NEW id \in RequestIds, cache[id] # None
  PROVE  cache'[id] \in {cache[id], None}
<1>1. CASE \E t \in Callers : CallStep(t)
  <2>1. PICK t \in Callers : CallStep(t)
    BY <1>1
  <2>2. CASE UNCHANGED cache
    BY <2>2
  <2>3. CASE ~UNCHANGED cache
    <3>1. CallBlocked(t) \/ CallReceives(t) \/ CallTimesOut(t) \/ CallJoins(t)
      BY <2>1, <2>3 DEF CallStep, CallReplays, CallProceeds, CallSends, CallStarts,
                        HostAcquired, WorkerReady, StartFails
    <3>2. cache[asked[t].id] = None
      BY <3>1 DEF CallBlocked, CallReceives, CallTimesOut, CallJoins,
                  CallInv, UnansweredInv, CallPoints
    <3>3. PICK response : Settle(t, response)
      BY <2>3, <3>1 DEF CallBlocked, CallReceives, CallTimesOut, CallJoins
    <3>4. id # asked[t].id
      BY <3>2
    <3>5. QED
      BY <3>3, <3>4 DEF Settle, Remember
  <2>4. QED
    BY <2>2, <2>3
<1>2. CASE ~\E t \in Callers : CallStep(t)
  <2>1. UNCHANGED cache
    BY <1>2 DEF Next, Arrive, StopStep, StopEnters, StopReceives, StopJoins, StopPolls,
                Health, Close, ExitProcess
  <2>2. QED
    BY <2>1
<1>3. QED
  BY <1>1, <1>2

(* A recorded outcome is final: a later attempt never overwrites it, it    *)
(* can only be dropped.                                                    *)
THEOREM OutcomesAreFinal == Spec => OutcomeIsFinal
<1>1. TypeInv /\ CallInv /\ [Next]_vars
        => [\A id \in RequestIds : cache[id] # None => cache'[id] \in {cache[id], None}]_vars
  BY OnlySettles
<1>2. QED
  BY <1>1, TypeInvariant, CallInvariant, PTL DEF Spec, OutcomeIsFinal

-----------------------------------------------------------------------------
(* Each reply is the answer to its request *)

LEMMA InitOwnInv == Init => OwnInv
<1> SUFFICES ASSUME Init PROVE ExchangeInv /\ RepliesAreOwn
  BY DEF OwnInv
<1> USE DEF Init
<1>1. ExchangeInv
  BY DEF ExchangeInv, Nothing, Working, InLoop, Threads
<1>2. RepliesAreOwn
  BY DEF RepliesAreOwn, Threads
<1>3. QED
  BY <1>1, <1>2

LEMMA Singletons ==
  ASSUME NEW x
  PROVE  Append(<<>>, x) = <<x>> /\ Head(<<x>>) = x /\ Tail(<<x>>) = <<>> /\ <<x>> # <<>>
  OBVIOUS

(* The worker by itself keeps the one request it has on its way, and puts  *)
(* nothing on a queue when it has none.                                    *)
LEMMA WorkerRests ==
  ASSUME WorkerNext, Nothing
  PROVE  Nothing' /\ (InLoop /\ phase' # "dead" => InLoop') /\ (phase = "dead" => phase' = "dead")
<1> USE DEF Nothing, Working, InLoop
<1>1. phase \notin {"probing", "running"} /\ requestQ = <<>>
  OBVIOUS
<1>2. QED
  BY <1>1 DEF WorkerNext, AcquireHost, ReportHost, BecomeReady, StartupFails,
     TakeRequest, IdleProbeSucceeds, IdleProbeFails, ProbeRejected, ProbeDisconnected,
     RefuseShutdown, AcceptShutdown, Dispatch, Complete, CompleteUnrestored, Retire,
     CleanUp, Crash, HostExits, Alive

LEMMA WorkerAnswers ==
  ASSUME NEW id, NEW op, OneRequest(id, op), WorkerNext
  PROVE  \/ Nothing'
         \/ requestQ' = <<[id |-> id, op |-> op]>> /\ ~Working' /\ responseQ' = <<>>
         \/ requestQ' = <<>> /\ Working' /\ current' = [id |-> id, op |-> op] /\ responseQ' = <<>>
         \/ requestQ' = <<>> /\ ~Working' /\ \E code \in ResponseCodes : responseQ' = <<Error(id, code)>>
<1>1. CASE Nothing
  BY <1>1, WorkerRests
<1>2. CASE requestQ = <<[id |-> id, op |-> op]>> /\ ~Working /\ responseQ = <<>>
  <2>1. CASE TakeRequest
    BY <1>2, <2>1, Singletons DEF TakeRequest, Working
  <2>2. CASE ~TakeRequest
    BY <1>2, <2>2 DEF Working, WorkerNext, AcquireHost, ReportHost, BecomeReady, StartupFails,
       IdleProbeSucceeds, IdleProbeFails, ProbeRejected, ProbeDisconnected,
       RefuseShutdown, AcceptShutdown, Dispatch, Complete, CompleteUnrestored, Retire,
       CleanUp, Crash, HostExits, Alive
  <2>3. QED
    BY <2>1, <2>2
<1>3. CASE requestQ = <<>> /\ Working /\ current = [id |-> id, op |-> op] /\ responseQ = <<>>
  <2>1. CASE \E code \in ResponseCodes : Respond(code)
    <3>1. PICK code \in ResponseCodes : Respond(code)
      BY <2>1
    <3>2. responseQ' = <<Error(id, code)>>
      BY <1>3, <3>1, Singletons DEF Respond, Error
    <3>3. requestQ' = <<>> /\ ~Working'
      BY <1>3, <3>1, Singletons DEF Respond, Working, WorkerNext, AcquireHost, ReportHost, BecomeReady, StartupFails,
         TakeRequest, IdleProbeSucceeds, IdleProbeFails, ProbeRejected, ProbeDisconnected,
         RefuseShutdown, AcceptShutdown, Dispatch, Complete, CompleteUnrestored, Retire,
         CleanUp, Crash, HostExits, Alive
    <3>4. QED
      BY <3>2, <3>3
  <2>2. CASE Dispatch \/ Crash \/ HostExits
    BY <1>3, <2>2 DEF Nothing, Dispatch, Crash, HostExits, Working
  <2>3. QED
    BY <1>3, <2>1, <2>2 DEF Working, WorkerNext, AcquireHost, ReportHost, BecomeReady, StartupFails,
       TakeRequest, IdleProbeSucceeds, IdleProbeFails, ProbeRejected, ProbeDisconnected,
       RefuseShutdown, AcceptShutdown, Complete, CompleteUnrestored, Retire, CleanUp, ResponseCodes
<1>4. CASE requestQ = <<>> /\ ~Working /\ \E code \in ResponseCodes : responseQ = <<Error(id, code)>>
  BY <1>4, Singletons DEF Working, WorkerNext, AcquireHost, ReportHost, BecomeReady, StartupFails,
     TakeRequest, IdleProbeSucceeds, IdleProbeFails, ProbeRejected, ProbeDisconnected,
     RefuseShutdown, AcceptShutdown, Dispatch, Complete, CompleteUnrestored, Retire,
     CleanUp, Crash, HostExits, Alive
<1>5. QED
  BY <1>1, <1>2, <1>3, <1>4 DEF OneRequest

LEMMA WorkerOwn ==
  ASSUME CallInv, OwnInv, WorkerNext, UNCHANGED <<threadVars, managerVars, otherVars>>
  PROVE  OwnInv'
<1> SUFFICES ASSUME ~stopTimedOut PROVE ExchangeInv' /\ RepliesAreOwn'
  BY DEF OwnInv
<1> ExchangeInv
  BY DEF OwnInv
<1>1. RepliesAreOwn'
  BY DEF OwnInv, RepliesAreOwn
<1>2. phase' \in {"spawned", "acquired", "readying"} => responseQ' = <<>>
  BY DEF ExchangeInv, WorkerNext, AcquireHost, ReportHost, BecomeReady, StartupFails,
     TakeRequest, IdleProbeSucceeds, IdleProbeFails, ProbeRejected, ProbeDisconnected,
     RefuseShutdown, AcceptShutdown, Dispatch, Complete, CompleteUnrestored, Retire,
     CleanUp, Crash, HostExits
<1>3. lock' = None \/ pc'[lock'] = "dispatch" => (Alive' => Nothing' /\ InLoop')
  <2> SUFFICES ASSUME lock = None \/ pc[lock] = "dispatch", Alive'
               PROVE  Nothing' /\ InLoop'
    OBVIOUS
  <2>1. Alive
    BY DEF Alive, WorkerNext, AcquireHost, ReportHost, BecomeReady, StartupFails,
       TakeRequest, IdleProbeSucceeds, IdleProbeFails, ProbeRejected, ProbeDisconnected,
       RefuseShutdown, AcceptShutdown, Dispatch, Complete, CompleteUnrestored, Retire,
       CleanUp, Crash, HostExits
  <2>2. QED
    BY <2>1, WorkerRests DEF ExchangeInv, Alive
<1>4. \A t \in Callers :
        /\ pc'[t] = "starting" => Nothing'
        /\ pc'[t] = "awaiting" => OneRequest(asked[t].id, "typed")'
        /\ pc'[t] = "joining"  => Nothing' /\ reply'[t].id = asked'[t].id
  BY WorkerRests, WorkerAnswers DEF ExchangeInv, OneRequest
<1>5. \A t \in Stoppers :
        /\ pc'[t] = "stopping" => OneRequest(StopId[t], "shutdown")'
        /\ pc'[t] = "stop-joining" => Nothing'
  BY WorkerRests, WorkerAnswers DEF ExchangeInv, OneRequest
<1>6. QED
  BY <1>1, <1>2, <1>3, <1>4, <1>5 DEF ExchangeInv

(* What is left to show after a step that leaves the lock free, or with t. *)
LEMMA FreeExchange ==
  ASSUME LockInv', lock' = None,
         phase' \in {"spawned", "acquired", "readying"} => responseQ' = <<>>,
         Alive' => Nothing' /\ InLoop'
  PROVE  ExchangeInv'
BY DEF ExchangeInv, LockInv, InLock, CallPoints, StopPoints, Threads

LEMMA HeldExchange ==
  ASSUME LockInv', NEW t \in Threads, lock' = t,
         phase' \in {"spawned", "acquired", "readying"} => responseQ' = <<>>,
         pc'[t] = "dispatch" => (Alive' => Nothing' /\ InLoop'),
         t \in Callers => /\ pc'[t] = "starting" => Nothing'
                          /\ pc'[t] = "awaiting" => OneRequest(asked[t].id, "typed")'
                          /\ pc'[t] = "joining"  => Nothing' /\ reply'[t].id = asked'[t].id,
         t \in Stoppers => /\ pc'[t] = "stopping" => OneRequest(StopId[t], "shutdown")'
                           /\ pc'[t] = "stop-joining" => Nothing'
  PROVE  ExchangeInv'
<1>1. \A u \in Threads \ {t} : pc'[u] \notin CallPoints \cup StopPoints
  BY DEF LockInv, InLock
<1>2. t # None
  BY DEF Threads
<1>3. \A u \in Callers : u # t => pc'[u] \notin {"starting", "awaiting", "joining"}
  BY <1>1 DEF CallPoints, Threads
<1>4. \A u \in Stoppers : u # t => pc'[u] \notin {"stopping", "stop-joining"}
  BY <1>1 DEF StopPoints, Threads
<1>5. QED
  BY <1>2, <1>3, <1>4 DEF ExchangeInv

(* Replies stay own when a caller returns one for its own request, and     *)
(* when it records it.                                                     *)
LEMMA ReturnOwn ==
  ASSUME TypeOK, RepliesAreOwn, ~stopTimedOut, NEW t \in Threads, NEW response,
         Return(t, response), t \in Callers => response.id = asked[t].id, UNCHANGED cache
  PROVE  RepliesAreOwn'
<1>1. \A u \in Threads \ {t} : pc'[u] = pc[u] /\ reply'[u] = reply[u]
  BY OthersStay DEF Return, TypeOK, ThreadTypeOK
<1>2. reply'[t] = response
  BY DEF Return, TypeOK, ThreadTypeOK
<1>3. QED
  BY <1>1, <1>2 DEF RepliesAreOwn, Return, Threads

LEMMA SettleOwn ==
  ASSUME TypeOK, RepliesAreOwn, ~stopTimedOut, NEW t \in Callers, NEW response,
         Settle(t, response), response.id = asked[t].id
  PROVE  RepliesAreOwn'
<1> t \in Threads
  BY DEF Threads
<1>1. \A u \in Threads \ {t} : pc'[u] = pc[u] /\ reply'[u] = reply[u]
  BY OthersStay DEF Settle, Return, TypeOK, ThreadTypeOK
<1>2. reply'[t] = response /\ UNCHANGED asked
  BY DEF Settle, Return, TypeOK, ThreadTypeOK
<1>3. \A id \in RequestIds : cache'[id] # None => cache'[id].response.id = id
  BY DEF Settle, Remember, RepliesAreOwn
<1>4. QED
  BY <1>1, <1>2, <1>3 DEF RepliesAreOwn, Threads

(* Steps of a thread that neither returns nor records anything. *)
LEMMA GoesOnOwn ==
  ASSUME TypeOK, RepliesAreOwn, ~stopTimedOut, NEW t \in Threads, NEW point,
         pc' = [pc EXCEPT ![t] = point], point # "done",
         \A u \in Threads \ {t} : reply'[u] = reply[u], UNCHANGED <<asked, cache>>
  PROVE  RepliesAreOwn'
<1>1. pc'[t] = point /\ \A u \in Threads \ {t} : pc'[u] = pc[u]
  BY OthersStay
<1>2. QED
  BY <1>1 DEF RepliesAreOwn, Threads

LEMMA CallOwn ==
  ASSUME TypeInv, CallInv, OwnInv, NEW t \in Callers, CallStep(t)
  PROVE  OwnInv'
<1> TypeOK /\ RecoveryInv /\ t \in Threads /\ t # None
  BY DEF TypeInv, CallInv, Threads
<1> UNCHANGED stopTimedOut
  BY DEF CallStep, CallReplays, CallBlocked, CallProceeds, CallSends, CallStarts,
         HostAcquired, WorkerReady, StartFails, CallReceives, CallTimesOut, CallJoins
<1> SUFFICES ASSUME ~stopTimedOut PROVE ExchangeInv' /\ RepliesAreOwn'
  BY DEF OwnInv
<1> ExchangeInv /\ RepliesAreOwn
  BY DEF OwnInv
<1>0. LockInv'
  BY CallRecovery DEF RecoveryInv
<1>l. pc[t] \in CallPoints => lock = t
  BY DEF RecoveryInv, LockInv, InLock
<1>p. {"dispatch", "starting", "awaiting", "joining"} = CallPoints
  BY DEF CallPoints
<1>e. \A code : Error(asked[t].id, code).id = asked[t].id
  BY DEF Error
<1>1. CASE CallReplays(t)
  <2> DEFINE entry == cache[asked[t].id]
             response == IF entry.fingerprint = asked[t].fingerprint THEN entry.response
                         ELSE Error(asked[t].id, "RequestIdConflict")
  <2>1. Return(t, response) /\ entry # None /\ UNCHANGED cache
    BY <1>1 DEF CallReplays
  <2>2. response.id = asked[t].id
    BY <1>e, <2>1, AskedType DEF RepliesAreOwn
  <2> HIDE DEF entry, response
  <2>3. RepliesAreOwn'
    BY <2>1, <2>2, ReturnOwn
  <2>4. lock = None /\ lock' = None /\ UNCHANGED <<phase, requestQ, responseQ>>
    BY <1>1, <2>1 DEF CallReplays, Enter, Return
  <2>5. ExchangeInv'
    BY <1>0, <2>4, FreeExchange DEF ExchangeInv, Nothing, Working, InLoop, Alive
  <2>6. QED
    BY <2>3, <2>5
<1>2. CASE CallBlocked(t)
  <2>1. RepliesAreOwn'
    BY <1>2, <1>e, SettleOwn DEF CallBlocked
  <2>2. lock = None /\ lock' = None /\ UNCHANGED <<phase, requestQ, responseQ>>
    BY <1>2 DEF CallBlocked, Enter, Settle, Return
  <2>3. ExchangeInv'
    BY <1>0, <2>2, FreeExchange DEF ExchangeInv, Nothing, Working, InLoop, Alive
  <2>4. QED
    BY <2>1, <2>3
<1>3. CASE CallProceeds(t)
  <2>1. RepliesAreOwn'
    BY <1>3, GoesOnOwn DEF CallProceeds, Goto
  <2>2. lock = None /\ lock' = t /\ pc'[t] = "dispatch" /\ UNCHANGED <<phase, requestQ, responseQ>>
    BY <1>3, OthersStay DEF CallProceeds, Enter, Goto
  <2>3. ExchangeInv'
    BY <1>0, <2>2, HeldExchange DEF ExchangeInv, Nothing, Working, InLoop, Alive
  <2>4. QED
    BY <2>1, <2>3
<1>4. CASE CallSends(t)
  <2>1. RepliesAreOwn'
    BY <1>4, GoesOnOwn DEF CallSends, Goto
  <2>2. lock = t /\ pc[t] = "dispatch" /\ Alive
    BY <1>4, <1>l, <1>p DEF CallSends
  <2>3. lock' = t /\ pc'[t] = "awaiting" /\ UNCHANGED <<phase, responseQ, asked>>
    BY <1>4, OthersStay DEF CallSends, Goto
  <2>4. Nothing
    BY <2>2 DEF ExchangeInv
  <2>5. requestQ' = <<[id |-> asked[t].id, op |-> "typed"]>>
    BY <1>4, <2>4, Singletons DEF CallSends, SendTo, Nothing
  <2>6. OneRequest(asked[t].id, "typed")'
    BY <2>3, <2>4, <2>5 DEF OneRequest, Nothing, Working
  <2>7. ExchangeInv'
    BY <1>0, <2>3, <2>6, HeldExchange DEF ExchangeInv
  <2>8. QED
    BY <2>1, <2>7
<1>5. CASE CallStarts(t)
  <2>1. RepliesAreOwn'
    BY <1>5, GoesOnOwn DEF CallStarts, Goto
  <2>2. lock' = t /\ pc'[t] = "starting" /\ Nothing' /\ responseQ' = <<>>
    BY <1>5, OthersStay DEF CallStarts, Goto, Nothing, Working
  <2>3. ExchangeInv'
    BY <1>0, <2>2, HeldExchange
  <2>4. QED
    BY <2>1, <2>3
<1>6. CASE HostAcquired(t)
  BY <1>6 DEF HostAcquired, RepliesAreOwn, ExchangeInv, OneRequest, Nothing, Working, InLoop, Alive
<1>7. CASE WorkerReady(t)
  <2>1. RepliesAreOwn'
    BY <1>7, GoesOnOwn DEF WorkerReady, Goto
  <2>2. Nothing
    BY <1>7 DEF WorkerReady, ExchangeInv
  <2>3. lock' = t /\ pc'[t] = "awaiting" /\ UNCHANGED <<phase, responseQ, asked>>
    BY <1>7, OthersStay DEF WorkerReady, Goto
  <2>4. requestQ' = <<[id |-> asked[t].id, op |-> "typed"]>>
    BY <1>7, <2>2, Singletons DEF WorkerReady, SendTo, Nothing
  <2>5. OneRequest(asked[t].id, "typed")'
    BY <2>2, <2>3, <2>4 DEF OneRequest, Nothing, Working
  <2>6. ExchangeInv'
    BY <1>0, <2>3, <2>5, HeldExchange DEF ExchangeInv
  <2>7. QED
    BY <2>1, <2>6
<1>8. CASE StartFails(t)
  <2>1. RepliesAreOwn'
    BY <1>8, <1>e, ReturnOwn DEF StartFails
  <2>2. lock' = None /\ phase' = "dead"
    BY <1>8, TerminateRecovery DEF StartFails, Return
  <2>3. ExchangeInv'
    BY <1>0, <2>2, FreeExchange DEF Alive
  <2>4. QED
    BY <2>1, <2>3
<1>9. CASE CallReceives(t)
  <2>1. lock = t /\ pc[t] = "awaiting" /\ responseQ # <<>>
    BY <1>9, <1>l, <1>p DEF CallReceives
  <2>2. PICK code \in ResponseCodes : responseQ = <<Error(asked[t].id, code)>> /\ requestQ = <<>> /\ ~Working
    BY <2>1 DEF ExchangeInv, OneRequest, Nothing
  <2>3. Head(responseQ).id = asked[t].id /\ responseQ' = <<>>
    BY <1>9, <1>e, <2>2, Singletons DEF CallReceives
  <2>4. UNCHANGED <<phase, requestQ>>
    BY <1>9 DEF CallReceives
  <2>5. Nothing' /\ (Alive' => InLoop')
    <3>1. Nothing'
      BY <2>2, <2>3, <2>4 DEF Nothing, Working
    <3>2. phase \notin {"spawned", "acquired", "readying", "probing", "running"} /\ phase \in Phases
      BY <2>1, <2>2 DEF ExchangeInv, Working, TypeOK, WorkerTypeOK
    <3>3. QED
      BY <2>4, <3>1, <3>2 DEF InLoop, Alive, Phases
  <2>6. CASE pc' = [pc EXCEPT ![t] = "joining"] /\ reply' = [reply EXCEPT ![t] = Head(responseQ)]
             /\ UNCHANGED <<lock, asked, cache>>
    <3>1. RepliesAreOwn'
      BY <2>6, GoesOnOwn DEF TypeOK, ThreadTypeOK
    <3>2. pc'[t] = "joining" /\ reply'[t].id = asked'[t].id
      BY <2>3, <2>6 DEF TypeOK, ThreadTypeOK
    <3>3. ExchangeInv'
      BY <1>0, <2>1, <2>3, <2>5, <2>6, <3>2, HeldExchange
    <3>4. QED
      BY <3>1, <3>3
  <2>7. CASE Settle(t, Head(responseQ))
    <3>1. RepliesAreOwn'
      BY <2>3, <2>7, SettleOwn
    <3>2. lock' = None
      BY <2>7 DEF Settle, Return
    <3>3. ExchangeInv'
      BY <1>0, <2>3, <2>5, <3>2, FreeExchange
    <3>4. QED
      BY <3>1, <3>3
  <2>8. QED
    BY <1>9, <2>6, <2>7 DEF CallReceives
<1>10. CASE CallTimesOut(t)
  <2>1. RepliesAreOwn'
    BY <1>10, <1>e, SettleOwn DEF CallTimesOut
  <2>2. lock' = None /\ phase' = "dead"
    BY <1>10, TerminateRecovery DEF CallTimesOut, Settle, Return
  <2>3. ExchangeInv'
    BY <1>0, <2>2, FreeExchange DEF Alive
  <2>4. QED
    BY <2>1, <2>3
<1>11. CASE CallJoins(t)
  <2>1. reply[t].id = asked[t].id
    BY <1>11 DEF CallJoins, ExchangeInv
  <2>2. RepliesAreOwn'
    BY <1>11, <2>1, SettleOwn DEF CallJoins
  <2>3. lock' = None
    BY <1>11 DEF CallJoins, Settle, Return
  <2>4. phase' = "dead"
    <3> DEFINE force == reply[t].code = "NativeCommandRestoreFailed"
    <3>1. (~Alive /\ UNCHANGED phase) \/ Terminate(force)
      BY <1>11 DEF CallJoins
    <3>2. force \in BOOLEAN
      OBVIOUS
    <3> HIDE DEF force
    <3>3. QED
      BY <3>1, <3>2, TerminateRecovery DEF Alive
  <2>5. ExchangeInv'
    BY <1>0, <2>3, <2>4, FreeExchange DEF Alive
  <2>6. QED
    BY <2>2, <2>5
<1>12. QED
  BY <1>1, <1>2, <1>3, <1>4, <1>5, <1>6, <1>7, <1>8, <1>9, <1>10, <1>11 DEF CallStep

LEMMA StopOwn ==
  ASSUME TypeInv, CallInv, OwnInv, NEW t \in Stoppers, StopStep(t)
  PROVE  OwnInv'
<1> TypeOK /\ RecoveryInv /\ t \in Threads /\ t # None /\ t \notin Callers
  BY DEF TypeInv, CallInv, Threads
<1> SUFFICES ASSUME ~stopTimedOut' PROVE ExchangeInv' /\ RepliesAreOwn'
  BY DEF OwnInv
<1> ~stopTimedOut
  BY DEF StopStep, StopEnters, StopReceives, StopJoins, StopPolls
<1> ExchangeInv /\ RepliesAreOwn
  BY DEF OwnInv
<1>0. LockInv' /\ ProcessInv'
  BY StopRecovery DEF RecoveryInv
<1>l. pc[t] \in StopPoints => lock = t
  BY DEF RecoveryInv, LockInv, InLock
<1>p. {"stopping", "stop-joining"} = StopPoints
  BY DEF StopPoints
<1>1. CASE StopEnters(t)
  <2>1. lock = None /\ UNCHANGED <<phase, responseQ, cache>>
    BY <1>1 DEF StopEnters, Enter
  <2>2. CASE RefreshedProcess
    <3>1. /\ requestQ' = Append(requestQ, [id |-> StopId[t], op |-> "shutdown"])
          /\ Goto(t, "stopping")
      BY <1>1, <2>2 DEF StopEnters
    <3>2. Nothing
      BY <2>1, <2>2 DEF ExchangeInv, RefreshedProcess
    <3>3. requestQ' = <<[id |-> StopId[t], op |-> "shutdown"]>>
      BY <3>1, <3>2, Singletons DEF Nothing
    <3>4. OneRequest(StopId[t], "shutdown")'
      BY <2>1, <3>2, <3>3 DEF OneRequest, Nothing, Working
    <3>5. lock' = t /\ pc'[t] = "stopping"
      BY <3>1, OthersStay DEF Goto
    <3>6. ExchangeInv'
      BY <1>0, <2>1, <3>2, <3>4, <3>5, HeldExchange DEF Nothing
    <3>7. RepliesAreOwn'
      BY <2>1, <3>1, GoesOnOwn DEF Goto
    <3>8. QED
      BY <3>6, <3>7
  <2>3. CASE ~RefreshedProcess
    <3>1. Return(t, Error(StopId[t], "stopping")) /\ UNCHANGED requestQ
      BY <1>1, <2>3 DEF StopEnters, ReturnStopped
    <3>2. ExchangeInv'
      BY <1>0, <2>1, <3>1, FreeExchange DEF ExchangeInv, Nothing, Working, InLoop, Alive, Return
    <3>3. RepliesAreOwn'
      BY <2>1, <3>1, ReturnOwn
    <3>4. QED
      BY <3>2, <3>3
  <2>4. QED
    BY <2>2, <2>3
<1>2. CASE StopReceives(t)
  <2>1. lock = t /\ pc[t] = "stopping" /\ responseQ # <<>> /\ UNCHANGED <<phase, requestQ, cache>>
    BY <1>2, <1>l, <1>p DEF StopReceives
  <2>2. PICK code \in ResponseCodes : responseQ = <<Error(StopId[t], code)>> /\ requestQ = <<>> /\ ~Working
    BY <2>1 DEF ExchangeInv, OneRequest, Nothing
  <2>3. responseQ' = <<>>
    BY <1>2, <2>2, Singletons DEF StopReceives
  <2>4. Nothing' /\ (Alive' => InLoop')
    <3>1. Nothing'
      BY <2>1, <2>2, <2>3 DEF Nothing, Working
    <3>2. phase \notin {"spawned", "acquired", "readying", "probing", "running"} /\ phase \in Phases
      BY <2>1, <2>2 DEF ExchangeInv, Working, TypeOK, WorkerTypeOK
    <3>3. QED
      BY <2>1, <3>1, <3>2 DEF InLoop, Alive, Phases
  <2>5. CASE Goto(t, "stop-joining")
    <3>1. lock' = t /\ pc'[t] = "stop-joining"
      BY <2>5, OthersStay DEF Goto
    <3>2. ExchangeInv'
      BY <1>0, <2>3, <2>4, <3>1, HeldExchange
    <3>3. RepliesAreOwn'
      BY <2>1, <2>5, GoesOnOwn DEF Goto
    <3>4. QED
      BY <3>2, <3>3
  <2>6. CASE \E response : Return(t, response)
    <3>1. PICK response : Return(t, response)
      BY <2>6
    <3>2. ExchangeInv'
      BY <1>0, <2>3, <2>4, <3>1, FreeExchange DEF Return
    <3>3. RepliesAreOwn'
      BY <2>1, <3>1, ReturnOwn
    <3>4. QED
      BY <3>2, <3>3
  <2>7. QED
    BY <1>2, <2>5, <2>6 DEF StopReceives, ReturnStopped
<1>3. CASE StopJoins(t)
  <2>1. Return(t, Error(StopId[t], "stopping")) /\ UNCHANGED cache
    BY <1>3 DEF StopJoins, ReturnStopped
  <2>2. RepliesAreOwn'
    BY <2>1, ReturnOwn
  <2>3. phase' = "dead"
    BY <1>3, TerminateRecovery DEF StopJoins, Alive
  <2>4. ExchangeInv'
    BY <1>0, <2>1, <2>3, FreeExchange DEF Alive, Return
  <2>5. QED
    BY <2>2, <2>4
<1>4. CASE StopPolls(t)
  <2>1. UNCHANGED <<phase, requestQ, responseQ, current, cache>>
    BY <1>4 DEF StopPolls
  <2>2. CASE ~RefreshedProcess /\ ReturnStopped(t, Error(StopId[t], "stopping"))
    <3>1. Return(t, Error(StopId[t], "stopping"))
      BY <2>2 DEF ReturnStopped
    <3>2. RepliesAreOwn'
      BY <2>1, <3>1, ReturnOwn
    <3>3. ~Alive'
      BY <1>0, <1>4, <2>2 DEF StopPolls, Refresh, ProcessInv
    <3>4. ExchangeInv'
      BY <1>0, <2>1, <3>1, <3>3, FreeExchange DEF ExchangeInv, Return
    <3>5. QED
      BY <3>2, <3>4
  <2>3. CASE UNCHANGED threadVars
    BY <2>1, <2>3 DEF RepliesAreOwn, ExchangeInv, OneRequest, Nothing, Working, InLoop, Alive
  <2>4. QED
    BY <1>4, <2>2, <2>3 DEF StopPolls
<1>5. QED
  BY <1>1, <1>2, <1>3, <1>4 DEF StopStep

LEMMA OtherOwn ==
  ASSUME TypeInv, CallInv, OwnInv,
         (\E t \in Threads : Arrive(t)) \/ Health \/ Close \/ ExitProcess \/ UNCHANGED vars
  PROVE  OwnInv'
<1> TypeOK /\ RecoveryInv
  BY DEF TypeInv, CallInv
<1> UNCHANGED stopTimedOut
  BY DEF Arrive, Health, Close, ExitProcess
<1> SUFFICES ASSUME ~stopTimedOut PROVE ExchangeInv' /\ RepliesAreOwn'
  BY DEF OwnInv
<1> ExchangeInv /\ RepliesAreOwn
  BY DEF OwnInv
<1>0. LockInv'
  BY OtherRecovery DEF RecoveryInv
<1>1. CASE \E t \in Threads : Arrive(t)
  <2>1. PICK t \in Threads : Arrive(t)
    BY <1>1
  <2>2. pc'[t] = "waiting" /\ \A u \in Threads \ {t} : pc'[u] = pc[u]
    BY <2>1, OthersStay DEF Arrive
  <2>3. \A u \in Callers \ {t} : asked'[u] = asked[u]
    BY <2>1 DEF Arrive, TypeOK, ThreadTypeOK
  <2>4. pc[t] = "new" /\ UNCHANGED <<lock, cache, reply, requestQ, responseQ, current, phase>>
    BY <2>1 DEF Arrive
  <2>5. RepliesAreOwn'
    BY <2>2, <2>3, <2>4 DEF RepliesAreOwn, Threads
  <2>6. lock = None \/ (lock \in Threads \ {t} /\ pc'[lock] = pc[lock])
    BY <2>2, <2>4 DEF CallInv, HolderInv, InLock, CallPoints, StopPoints, TypeOK, ThreadTypeOK
  <2>7. ExchangeInv'
    <3>1. phase' \in {"spawned", "acquired", "readying"} => responseQ' = <<>>
      BY <2>4 DEF ExchangeInv
    <3>2. lock' = None \/ pc'[lock'] = "dispatch" => (Alive' => Nothing' /\ InLoop')
      BY <2>4, <2>6 DEF ExchangeInv, Nothing, Working, InLoop, Alive
    <3>3. \A u \in Callers :
            /\ pc'[u] = "starting" => Nothing'
            /\ pc'[u] = "awaiting" => OneRequest(asked[u].id, "typed")'
            /\ pc'[u] = "joining"  => Nothing' /\ reply'[u].id = asked'[u].id
      <4> SUFFICES ASSUME NEW u \in Callers, pc'[u] \in {"starting", "awaiting", "joining"}
                   PROVE  /\ pc'[u] = "starting" => Nothing'
                          /\ pc'[u] = "awaiting" => OneRequest(asked[u].id, "typed")'
                          /\ pc'[u] = "joining"  => Nothing' /\ reply'[u].id = asked'[u].id
        OBVIOUS
      <4>1. u # t /\ pc'[u] = pc[u] /\ asked'[u] = asked[u]
        BY <2>2, <2>3 DEF Threads
      <4>2. QED
        BY <2>4, <4>1 DEF ExchangeInv, OneRequest, Nothing, Working
    <3>4. \A u \in Stoppers :
            /\ pc'[u] = "stopping" => OneRequest(StopId[u], "shutdown")'
            /\ pc'[u] = "stop-joining" => Nothing'
      BY <2>2, <2>4 DEF ExchangeInv, OneRequest, Nothing, Working, Threads
    <3>5. QED
      BY <3>1, <3>2, <3>3, <3>4 DEF ExchangeInv
  <2>8. QED
    BY <2>5, <2>7
<1>2. CASE Close
  <2>1. lock' = None /\ phase' = "dead" /\ UNCHANGED <<threadVars, cache>>
    BY <1>2, TerminateRecovery DEF Close
  <2>2. ExchangeInv'
    BY <1>0, <2>1, FreeExchange DEF Alive
  <2>3. QED
    BY <2>1, <2>2 DEF RepliesAreOwn
<1>3. CASE Health \/ ExitProcess \/ UNCHANGED vars
  <2>1. UNCHANGED <<threadVars, cache, phase, requestQ, responseQ, current>>
    BY <1>3 DEF Health, ExitProcess
  <2>2. QED
    BY <2>1 DEF RepliesAreOwn, ExchangeInv, OneRequest, Nothing, Working, InLoop, Alive
<1>4. QED
  BY <1>1, <1>2, <1>3

(* OwnInv is inductive, with CallInv. *)
LEMMA OwnInvariant == Spec => []OwnInv
<1>1. TypeInv /\ CallInv /\ OwnInv /\ [Next]_vars => OwnInv'
  BY WorkerOwn, CallOwn, StopOwn, OtherOwn DEF Next
<1>2. QED
  BY InitOwnInv, <1>1, TypeInvariant, CallInvariant, PTL DEF Spec

(* A client gets the outcome of its own request, and so does every retry   *)
(* of it, as long as no shutdown has given up on a live worker.            *)
THEOREM EachReplyIsOwn == Spec => []RepliesAreOwn
<1>1. OwnInv => RepliesAreOwn
  BY DEF OwnInv, RepliesAreOwn
<1>2. QED
  BY <1>1, OwnInvariant, PTL

(* Between requests nothing is queued, half done or unread: no operation   *)
(* changes a document after its client was told the outcome.               *)
THEOREM RestsBetweenRequests == Spec => []QuietWhenUnlocked
<1>1. OwnInv => QuietWhenUnlocked
  BY DEF OwnInv, QuietWhenUnlocked, ExchangeInv, Nothing, InLoop
<1>2. QED
  BY <1>1, OwnInvariant, PTL

(* What a dispatching worker carries is the request of a waiting caller.   *)
LEMMA WaiterDispatch ==
  ASSUME TypeInv, CallInv, OwnInv, [Next]_vars, ~stopTimedOut, executions' # executions
  PROVE  \E t \in Callers : pc[t] = "awaiting" /\ asked[t].id = current.id
<1>1. ASSUME NEW t \in Callers, CallStep(t) PROVE executions' = executions
  BY <1>1 DEF CallStep, CallReplays, CallBlocked, CallProceeds, CallSends, CallStarts,
     HostAcquired, WorkerReady, StartFails, CallReceives, CallTimesOut, CallJoins
<1>2. ASSUME NEW t \in Stoppers, StopStep(t) PROVE executions' = executions
  BY <1>2 DEF StopStep, StopEnters, StopReceives, StopJoins, StopPolls
<1>3. WorkerNext
  BY <1>1, <1>2 DEF Next, Arrive, Health, Close, ExitProcess
<1>4. Dispatch
  BY <1>3 DEF WorkerNext, AcquireHost, ReportHost, BecomeReady, StartupFails,
     TakeRequest, IdleProbeSucceeds, IdleProbeFails, ProbeRejected, ProbeDisconnected,
     RefuseShutdown, AcceptShutdown, Complete, CompleteUnrestored, Retire,
     CleanUp, Crash, HostExits
<1>5. Working /\ Alive /\ ~Nothing /\ current.op = "typed" /\ ExchangeInv
  BY <1>4 DEF Dispatch, Working, Alive, Nothing, OwnInv
<1>6. lock \in Threads /\ InLock(lock) /\ pc[lock] # "dispatch"
  BY <1>5 DEF ExchangeInv, CallInv, HolderInv, TypeInv, TypeOK, ThreadTypeOK
<1>7. CASE lock \in Callers
  <2>1. pc[lock] = "awaiting"
    BY <1>5, <1>6, <1>7 DEF ExchangeInv, CallInv, HolderInv, InLock, CallPoints
  <2>2. current = [id |-> asked[lock].id, op |-> "typed"]
    BY <1>5, <1>7, <2>1 DEF ExchangeInv, OneRequest
  <2>3. QED
    BY <1>7, <2>1, <2>2
<1>8. CASE lock \in Stoppers
  <2>1. pc[lock] = "stopping"
    BY <1>5, <1>6, <1>8 DEF ExchangeInv, CallInv, HolderInv, InLock, StopPoints
  <2>2. current = [id |-> StopId[lock], op |-> "shutdown"]
    BY <1>5, <1>8, <2>1 DEF ExchangeInv, OneRequest
  <2>3. QED
    BY <1>5, <2>2
<1>9. QED
  BY <1>6, <1>7, <1>8 DEF Threads

(* An operation starts only while the thread of its own request waits for  *)
(* the reply, as long as no shutdown has given up on a live worker.        *)
THEOREM DispatchesForItsWaiter == Spec => DispatchedForWaiter
<1>1. TypeInv /\ CallInv /\ OwnInv /\ [Next]_vars
        => [~stopTimedOut /\ executions' # executions =>
              \E t \in Callers : pc[t] = "awaiting" /\ asked[t].id = current.id]_vars
  BY WaiterDispatch
<1>2. QED
  BY <1>1, TypeInvariant, CallInvariant, OwnInvariant, PTL DEF Spec, DispatchedForWaiter

=============================================================================
