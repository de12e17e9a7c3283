# SWCLI in TLA+

SWCLI lets an agent on one machine drive SOLIDWORKS on another. `swclid`, the
daemon, listens for JSON requests; one supervisor (`WorkerManager`) hands typed
operations one at a time to a **COM worker process**, which drives the
SOLIDWORKS host through one **host adapter** per operation; a **workspace store**
moves files in and out, and a **transfer client** talks to it. Clients retry,
connections break, workers crash or hang, COM calls fail half way, people use the
same SOLIDWORKS by hand, and other programs use the same directory. This project models those parts, model-checks
them with TLC on small instances and proves the central invariants with TLAPS.

All paths below are relative to `src/`, the repository.

## 1. Inventory

| Component | Source | State | Operations | Correct when |
|---|---|---|---|---|
| COM worker process | `src/swcli/daemon/server.py` 91-510 (`_worker_main`), `hosts/native_sequence.py` | the host it acquired, consecutive probe failures, three queues it shares with the supervisor | start, idle probe, take a request, pre-dispatch probe, run, answer, retire, the `finally` clause | it answers what it took; whatever shows that the host is lost, it stops taking requests |
| Supervisor | `daemon/server.py` 513-909 (`WorkerManager`) | `_lock`, `_process`, queues, `host`, `_recovery_required` | `call`, `shutdown`, `close`, `_start_worker`, `_terminate_worker`, `health`, `capabilities` | a request is dispatched once, its reply is its own, a lost session is never silently replaced, every request is answered |
| Replay cache | `daemon/server.py` 739-800 | an `OrderedDict` by `request_id`, its byte count | `_replay_response`, `_remember_response` | a retry is answered from it; both limits hold |
| TCP server and handlers | `daemon/server.py` 912-1180 | 32 connection slots, handler threads | accept, authenticate, dispatch, reply, stop | slots come back; a shutdown that succeeded stops the server |
| Document registry | `daemon/documents.py` | entries, ids by key, current document per session, leases | register, sync, forget, resolve, use, refresh_key, acquire/renew/release lease, temporary activation | a handle names one native document for ever; a lease guards its document |
| Operation handlers | `daemon/operations.py` | the result under construction | `execute_operation`: select, check lease, check stamp, activate, run, restore the foreground, describe; one handler per operation around its adapter | nothing changes a document whose lease somebody else holds; the answer is true of the document |
| Host adapters | `hosts/windows*.py` | what they borrow from the host: selection, sketch edit, preferences, a mutex, a staging file, `CommandInProgress` | one function per operation and variant: preflight, snapshot, borrow, mutate, verify, give back | a success is verified, an unattempted failure changed nothing, what was borrowed is given back or reported |
| Entity, feature, sketch, dimension handles | `daemon/entities.py`, `daemon/documents.py` 343-538 | handle tables owned by a document, the observed scope | register, resolve, retire, forget | a handle never resolves to another object |
| Workspace transfers | `workspace.py`, `safe_workspace.py` | transfers, staged files, open downloads | begin, chunk, commit, abort, end, inspect, expiry, close | limits hold; a commit publishes the declared bytes or nothing |
| File transfer client | `file_transfer.py` | offset, digest, transfer id, staged destination | upload, `--resume`, download | a reported success is true, whatever was lost, late or rewritten |
| Daemon lifecycle | `daemon/main.py`, `daemon_manager.py`, `host_processes.py`, `background_runtime.py` | pid and endpoint records, process trees | start, stop, restart, serve | a start that gives up leaves nothing running |
| Daemon client, SDK | `daemon/client.py`, `sdk/` | a connection | one call per connection | reply of the id that was sent |
| Schemas and catalogues | `operation_schemas.py`, `result_schemas.py`, `document_*.py` | none | validation of requests and results | a result that contradicts its receipt is not sent |
| MCP server, CLI, tray, geometry | `mcp.py`, `cli.py`, `windows_tray.py`, `*_geometry.py` | none, or the desktop's | adapters, numeric code | - |

**How they interact.** A client opens a connection per request. Its handler
thread either calls `WorkerManager.call` (typed operations),
`WorkerManager.shutdown` (`daemon.shutdown`) or the workspace store. `_lock`
is held from the entry of `call` to its reply, so requests are serial; `call`
puts one message on `request_queue` and takes one from `response_queue`. The
worker also reports startup and host loss on `lifecycle_queue`, which the
supervisor drains the next time it takes the lock. In the worker,
`execute_operation` resolves the document and the handles of the request through
the registry, checks its lease and its stamp, brings the document to the front
if the operation needs that, and runs the handler; the handler calls its host
adapter and registers what the adapter made or found. `health` refreshes the
supervisor's state when it finds the lock free. Workspace requests never reach
the worker: they share one re-entrant lock in the store, which is released
around hashing. The transfer client sends one request per connection.

**What is hard.** A worker that crashes, hangs, or loses its host at any of its
steps while a supervisor thread waits with a deadline; stale messages in queues
that outlive the call they were for; requests repeated with one id or with
another body; several handler threads of which one is stopping the server;
documents renamed, closed or reopened between an agent's requests; leases that
expire during a session; hashing without the lock while transfers expire, are
aborted or the store closes; a client whose connection broke, and whose request
is executed after it has already resumed; COM calls that fail before or after
they took effect, or report a success they did not have, while something is
borrowed from the host; people who edit, switch or activate between two COM
calls; tokens that outlive the geometry they name.
The `hazards` of `PROJECT.json` list each at its line.

## 2. Modules

| Module | Models | Correspondence |
|---|---|---|
| `ComWorker` | `_worker_main` and the host | `phase` is the point the worker process has reached; the queues are `requestQ`, `responseQ`, `lifecycleQ`. One action per step that reads or writes a queue or may raise. `Crash` and `HostExits` may happen at any time. |
| `WorkerManager` | supervisor, handler threads, main thread | EXTENDS `ComWorker`. `pc` splits `call` where the supervisor waits: taking the lock, deciding to dispatch, starting a worker, awaiting the reply, joining a worker that was stopped. Everything else of `call` under `_lock` is in the step it belongs to. `Health` is `health` and `capabilities` when the lock is free. The replay cache appears as what it promises. |
| `ReplayPromise` | what the cache promises | the abstract specification |
| `ReplayCache` | the `OrderedDict` with both limits | implements `ReplayPromise` by the mapping `Promise` |
| `DocumentRegistry` | `DocumentRegistry` and the `document.*` handlers | `native` variables are the documents in SOLIDWORKS; `entries`, `idsByKey`, `current`, `leases`, `leaseOf` are the Python dictionaries. `Select` is `execute_operation` up to the handler, `Run...` is the handler; people and the clock act between the two. |
| `ModelHandles` | feature, sketch and dimension tables of a document | `features`, `featureIds`, `sketches`, ... are the dictionaries of `DocumentEntry`; `walk` is what a list handler has still to register, one native object per step; `Verdicts` is `IsSame`, with a disconnected proxy and any other failure |
| `EntityHandles` | `EntityRegistry`, `entity.list`, `entity.inspect`, `feature.fillet` | `registry` is the scope, the live entries, the complete kinds and the stale tokens; `op` is the handler between its native reads, where people may change the part |
| `DocumentHandles` | both together | composes `EntityHandles` and `ModelHandles`: the worker runs one operation at a time, a creation retires the entities and registers its feature, `forget` drops everything |
| `HostSteps` | the vocabulary of the adapters | a program is a Python function: the steps of its `try` block, of its `finally` clauses, and of its handler afterwards |
| `HostDiscipline` | the order in which every adapter flags, writes, verifies, marks, compares, publishes and gives back | conditions on the text of a program (`FlagsBeforeWriting`, `VerifiesAfterWriting`, ...), no code of their own; they are what the theorems about `HostOperation` need of a program |
| `HostOperation` | `execute_operation`, `temporarily_activate`, `native_api_sequence`, the worker around them | gives each step its meaning: `Do...` one action per kind of step, `Enter...` and `Leave...` the blocks, `Interfere` the people |
| `OperationPromise` | what an answer promises a client | the abstract specification; `HostOperation` implements it by `Conclusion` and `changed` |
| `AdaptersSettings`, `AdaptersDocuments`, `AdaptersFeatures`, `AdaptersSketches`, `AdaptersDimensions`, `AdaptersEntities` | the functions of `hosts/windows_*.py` by family | each is the program of its COM calls, built from the shared helpers as in the code |
| `OperationHandlers` | the handlers of `daemon/operations.py`, and what `result_schemas.py` checks of their results | what a handler does before and after its adapter: `Register`, `Bind`, `Keep`, `Describe`, `Validate`, `Judged` |
| `Workspace` | `WorkspaceStore` and `StagedFile` | a step is what a thread does from taking the lock to releasing it. `records` holds every transfer; `listed` says it is in `self.transfers`, `held` that it has a resource. `Next` is what any client may ask for. |
| `FileTransfer` | `FileTransferClient` over `call_daemon`, composed with `Workspace` | `client` is the command (`begun`, `ready`, `published`, `giving up`, ...), `asked` the request it waits for, `serving` the handler thread that executes it, `late` a request whose client is gone. `Lose` breaks the connection before the request is read, while it is executed, or before the reply is. |
| `..._proofs` | theorems about `WorkerManager` (in two modules), `ReplayCache`, `DocumentRegistry`, `HostOperation`, `DocumentHandles`, `Workspace`, `FileTransfer` | see section 6 |
| `MC...` | finite instances | constants and symmetry; `MCHostOperation` lists the operations by name |

`WorkerManager` abstracts an operation to its outcome: that one was dispatched
(`executions`), and how it ended, in the codes the supervisor and the worker
tell apart; `HostOperation` opens it up. There the document is its **facets**, each
as a comparison would find it: the update stamp, which only rises; the save flag and
the need of a rebuild, which are up or down; the configuration shown, the sketch or
component edited, the foreground, the document's identity and a drawing's source
model, which are one of a few values and can come back to what they were, because
the code compares them by name or by `IsSame`. A program reads, snapshots and
compares exactly the facets its code does, **takes** things from the host and **frees** them (with a readback) or
**drops** them (without), and its receipt says whether a mutation was
*attempted*, found *unchanged*, failed, and what could not be given back. Any
step may raise. A native write may change the document and raise, raise only, or
report a success and change nothing (`lost`). What an adapter is expected to
promise is its **claims**: a receipt, a verified success, an observation of one
state, a document marked for saving, a checked context, a checked source. What the worker holds a
success against before it sends it is its **rules**. A claim is given to an
operation where its code does what the claim needs, and an operation without a
claim is exempt from the property about it, so the claims of a program are part
of what this project says about the code. Contents of files are short sequences
of bytes; a SHA256 is the content it is of. Times are events: a deadline passes,
a lease expires, a transfer goes idle.

Worth knowing about the handles: feature and entity tokens are unique among all
ever issued, sketch and dimension tokens only among the live ones (`documents.py`
430-434 compares with the tables, not with a set of issued tokens), so an expired
sketch token could in principle be drawn again; `TokensKeepTheirMeaning` promises
"never again" for the first two only.

## 3. Plan

Built, in this order, because every promise to a client rests on the one before:

1. Supervisor and worker; proofs of type correctness and of the recovery
   invariant.
2. The replay cache as a refinement of its promise.
3. Document handles and leases; proofs of consistency and of handle stability.
4. Workspace transfers under concurrency, then their client over a connection
   that loses requests and replies.
5. One vocabulary for the host adapters, the 67 programs of the 58 operations that
   reach a document, `execute_operation` around them, and the refinement of what
   an answer promises.
6. The handle tables of a document.

7. Theorems about each of them, for every value of the constants (section 6).

Left:

8. The launcher's side of the daemon (`start_daemon`, `restart`,
   `_terminate_spawned_daemon`), if its deadlines are worth a model with a clock.

## 4. Runs

| Run | Instance | What it shows |
|---|---|---|
| `supervisor` | two callers, one stopper, two typed ids either of which may be used with two bodies, one shutdown id, probe limit 3, owned and attached hosts; 2.1 million states | types; an id is dispatched at most once unless the cache dropped it (`AtMostOnce`); replies and recorded outcomes belong to the id asked for, unless a shutdown gave up on a live worker (`RepliesAreOwn`); between requests the worker is quiet (`QuietWhenUnlocked`); recovery blocks every dispatch, with its inductive invariant (`RecoveryBlocks`, `RecoveryInv`); recorded outcomes are final; an operation starts only for a thread that waits for it |
| `supervisor_live` | one caller, one stopper | under the fairness of section 5 every request is answered and an accepted stop closes the server |
| `supervisor_stale`, `supervisor_timeout`, `supervisor_lost` | as `supervisor` | three documented promises the code does not keep, see section 7 |
| `replay_cache` | three ids, two bodies, responses of three sizes, two entries, five bytes | both limits, an oversized response, LRU order; implements `ReplayPromise` |
| `documents` | two documents, one path, two titles, three handles, two leases, two sessions, one rename the registry is not told of | tables agree (`RegistryInv`), a handle never changes document (`HandleStable`), a document's handle is found by its present key (`KeysCurrent`), a granted lease lasts (`GrantKept`) and guards (`WriterHoldsLease`) |
| `documents_renamed` | as `documents` | the lease guarantee fails for a document saved under another name by hand |
| `workspace` | two threads, two request ids, one path, two byte values, one transfer of each direction at a time, one finished transfer kept, two transfers in all; either any clients, or the transfer client with any number of commands, one lost request that may still be executed, and one transfer of its own; 1.0 million states | limits, ownership by a hash, a commit publishes the declared content and clobbers nothing, committed uploads stay committed, no staging file is left behind but one the file system refused to remove, a closed store is quiet; what has been transferred so far is a beginning of one file (`TransferredIsBeginning`), and an upload reported as a success has committed the source it hashed (`SuccessIsTrue`) |
| `workspace_replay` | as `workspace`, any clients | a receipt for a transfer that is gone |
| `operations` | the 67 programs of the 58 operations that reach a document, one after the other in one worker; one interference by people per operation, two with eleven programs that are one of each way to observe, compare, mark and publish; one other value of each context; 7.2 million states | answers are true of the document (`KeepsPromise`, the refinement of `OperationPromise`), what a successful read or write compares of the document was not different when it was read or written, unless it had come back by the comparison (`ConsistentObservation`, `WroteInItsContext`), what was borrowed is back or reported (`BorrowedIsGivenBack`), a success was verified and will be saved (`SuccessIsDurable`), a requested file is replaced only by a verified one, a strict export's only of the source it compares (`PublishedIsVerified`), unknown host state is fenced off (`UnknownStateIsFenced`), and every step of an operation leads towards its answer (`OperationAdvances`) |
| `handles` | three requests of one document, two features and two sketches that share a native id, two dimensions, a face and two edges, two configurations, two changes by people; 1.2 million states | the tables agree between any two steps (`TablesAgree`), a token keeps its meaning and a retired one stays retired (`TokensKeepTheirMeaning`), a fillet changes the edge its token was given out for (`FilletsTheNamedEdge`) |

Every property of a passing run has a mutant: a definition changed as a
plausible bug would change it, under which TLC finds the property violated in
the same instance.

**Bounds.** Supervisor: the lock makes requests serial, so two callers cover a
request, its retry and one that runs in between; three arrive with the stopper.
Each handler thread carries one request, so runs are finite without further
bounds. The probe limit is the code's own. Registry: two documents and one path are a path reused by
another document; three handles are one each and one to be minted while both are
taken; `MaxUnnoticed` bounds the renames no sync was told of. Handles and leases
are recycled once unused, which a UUID never is: that is more, not fewer,
behaviours. Workspace: one path makes every begin and publish compete; limits of
one make every slot contended; `MaxTransfers` 2 bounds the transfers ever begun, and both may be of one request
id. For other clients one-byte contents tell "as declared" from "not as
declared", and an upload is written in no or one chunk; the transfer client's
files have two bytes that differ, so that a chunk stored twice, at the wrong
place or of another version shows. `MaxOwn` 1: of the transfers the client's
requests begin one is enough, since what it compares on a resume is the transfer
it was told. At most one lost request is still to be executed (`late`); other
programs write the daemon's file only against a download, and the client's source
only during an upload; the client never passes `--overwrite`, which only widens
what the store may do and is covered with any clients.

Operations: `MaxInterference` 1 shows what one change at the wrong point does to
each of the 67 programs; 2 is the first number with which a context is left and
entered again, or an edit is saved, between two calls, and one program of each way
of comparing has it (`Compared`). `Places` 1 is one other configuration, edit,
foreground or source than the first: that is all a comparison tells apart, and the
theorems of section 6 hold of any number of both. People change one facet per step,
so an edit that raises the stamp and the save flag takes both steps. Operations follow one
another, so that what one leaves behind (`CommandInProgress`, preferences) meets
every other. Handles: three requests give a token out, use it and look again;
two changes are a switch of the configuration and the switch back; two tokens of
each model table and three entity tokens are what these can use, and a pool that
is spent refuses the registration (`SessionEnds` marks the end of a session, so
that any other stop is reported as a deadlock).

**What the comparisons do not see.** The code's observation of the document is
weaker than a revision, and the properties say no more than it can:

* The native update stamp is not raised by every edit
  (`docs/architecture.md` 478-489 names cosmetic and naming edits), nor is the save
  flag. In the model the stamp rises or not with each interference and with each
  metadata setter, and an edit that moves no facet is no step: no reader or writer
  can notice it, and `ConsistentObservation` promises nothing of it. This is just
  where properties, summary and options are read: `ConsistentObservation` says that
  their answer is of one stamp, save flag, configuration and foreground, not that
  it is of one revision.
* Contexts are compared by the configuration's name and by `IsSame`
  (`windows_custom_properties.py` 97-108, `windows_fillets.py` 158-164,
  `windows_revolves.py` 228-234). Who leaves one around a setter and comes back
  before the comparison is not noticed; `drift` forgets a facet as soon as it is what
  the first snapshot has, so `WroteInItsContext` is about those that are still away.
* A strict export compares title, path, type, save flag and need of a rebuild
  (`windows_documents.py` 253-290): neither the stamp nor the configuration. An edit
  that was saved meanwhile, one that does not raise the flag, and another
  configuration are published. Only the STL options add stamp and configuration
  (815-822, 896-905). `PublishedIsVerified` is about what each of the two compares.
* `RecoveryInv` covers what follows when idle probes have failed too often; that the
  failures are counted and reset rightly (`server.py` 309) is checked by none.
* The transfer client compares the destination of a resumed upload
  (`file_transfer.py` 85); the command of the model keeps its own, so that
  comparison never fails there.

`CHECK_DEADLOCK FALSE` is set where the system may stop: the supervisor after
`ExitProcess` or when every request is answered, the workspace after `close`.
`operations` and `handles` check it.

**Symmetry** is over callers, typed request ids and bodies, documents, handles, leases, sessions,
threads, request keys, bytes and entity tokens, which the modules only compare.
`supervisor_live`, which checks liveness, has none, and neither has `operations`.

## 5. Fairness

Only the daemon's own threads are fair: handler threads take their next step
once they can (`_lock` waits are not bounded, but whoever holds it waits with a
deadline only: `queue.get(timeout)`, `join(timeout)`), and the main thread
leaves `serve_forever` and closes the manager. **Nothing is assumed of the
worker or of SOLIDWORKS**: they may hang or die. Weak fairness of each thread's
step is enough because each run has one request per thread and so one lock
competitor that eventually leaves. `supervisor_live` declares no symmetry, which
would be unsound for liveness, and keeps one caller so that it stays small.

`HostOperation` needs no fairness: that an operation ends is stated by its steps.
`OperationAdvances` says that each one leads to a later point of `execute_operation`
or shortens what is left of its block, so that only finitely many can follow, and the
run finds no deadlock before the answer. The worker has one thread, which runs the
operation to its end, and every COM call of the model returns (one that hangs is the
supervisor's timeout, in `WorkerManager`). The other modules state no fairness and
check safety only.

## 6. Proofs

Each theorem is about a property some run checks, and each inductive invariant
was checked by TLC as an invariant of that run before it was proved
(`RecoveryInv` is listed there still).

`WorkerManager_proofs` - for every set of callers, stoppers and requests and
every probe limit, from `ThreadsAssumption` and `FailureLimitAssumption`:

* `TypeCorrect`: `Spec => []TypeOK`.
* `RecoveryInvariant`: `Spec => []RecoveryInv`. That recovery blocks dispatch is
  not inductive: a loss is known first to the worker, then shows in an event or
  an unread response, and only later in `recovery`. The conjuncts follow it:
  `LockInv` (a thread inside `call` holds the lock), `ProcessInv` (no process,
  no live worker), `EventInv` and `ResponseInv` (a loss in a queue means the
  worker has left its request loop), `BlockedInv` (so does the recovery state),
  `PastCheckInv` (a thread past the check sees no recovery state, which needs
  the lock).
* `RecoveryBlocksDispatch`: `Spec => RecoveryBlocks`. Dispatch is a step of a
  worker in the phase "probing", and with recovery set no worker is in it.

`WorkerReplies_proofs` - what the supervisor tells its clients, in addition from
`NoneAssumption` (`None` is no outcome):

* `DispatchedAtMostOnce`, `OutcomesAreFinal`: `CallInv` follows an operation from
  the thread that found no outcome for it (`UnansweredInv`) over the queue and
  the worker to the cache: an id that was not forgotten is queued, taken or
  dispatched at most once (`OnceInv`), and the thread that sent it keeps the lock
  until the outcome is recorded (`HolderInv`). This holds over every timeout,
  crash and restart, also after a shutdown that timed out.
* `EachReplyIsOwn`, `RestsBetweenRequests`, `DispatchesForItsWaiter`: the code
  compares no ids, so that a reply is the right one rests on the queues holding
  one exchange at a time. `ExchangeInv` says for each point of the thread that
  holds the lock what the two queues and the worker may hold: nothing, or one
  request in exactly one of three places. It holds until a shutdown gives up on
  a live worker, and finding 1 of section 7 is what happens then.

`ReplayCache_proofs` - for every set of requests and responses, every size
function and both limits, from `CacheAssumption` and `NoneAssumption`:

* `TypeCorrect` and `KeepsLimits`. The code counts bytes by hand; that the count
  is the sum over the items is a statement about a fold, so the module first
  proves, by induction over the natural numbers in the form "a set of naturals
  that is not empty has a least element" (`Least`, `Induction`), what the sum over
  a sequence and over a set do when an item is added, removed or moved.
* `KeepsRecentOutcomes`: eviction drops the least recently used first and no more
  than it must. `UsesInv` bounds each item behind the watched one by what was
  noted of its request since, so the watched item is evicted only when those
  items and it exceed a limit (`CoveredBounds`).
* `ImplementsPromise`: `Spec => KeepsPromise`, the refinement of `ReplayPromise`,
  step by step: a hit moves an item and changes nothing that is remembered,
  recording adds one outcome and drops others.

`DocumentRegistry_proofs` - for every set of documents, keys, handles, leases
and sessions, from `RegistryAssumption`:

* `RegistryTypeCorrect`: `Spec => []TypeOK`.
* `RegistryConsistent`: `Spec => []RegistryInv`; inductive together with the
  type invariant and with what is known of a checked operation (`WorkInv`: the
  handle of an operation that passed its checks is still registered).
* `HandlesAreStable`: `Spec => HandleStable`; needs that a minted handle is
  unused and that keys lead to registered handles only.
* `KeysAreCurrent`, `GrantsAreKept`, `WritersHoldTheirLease`: one invariant,
  `NoticedInv`. A lease follows its document only through the key it is found by,
  so that keys are current (`KeyInv`) is needed for grants (`GrantInv`), and both
  for the lease of a checked operation; all three are lost with the first rename
  that no sync was told of, which is finding 4. `SeenInv` (what is registered has
  been open, what is leased is open) holds regardless.

`DocumentHandles_proofs` - for every set of native objects, tokens, configurations
and stamps, from `EntityAssumption`:

* `HandleTablesAgree`, `TokensAreSteady`: `ModelInv` adds to the tables that a
  walk over dimensions is of a sketch that is registered (`WalkInv`); each of the
  three registrations of the code is an instance of one relation, `Registers`,
  about which the lemmas are.
* `FilletsItsEdge`: a token may be used after people switched the configuration
  and back. `Sound` ties the registry to history: a live token means what it
  meant when it was given out, in the scope the registry observed last.

`Workspace_proofs` - for every set of threads, request keys, paths and contents
and every limit, from `WorkspaceAssumption` and `NoneAssumption`:

* `TypeCorrect`, `StaysWithinLimits`, `HashOwnsItsTransfer`, `StagingHasItsOwner`,
  `ClosesQuietly`: one inductive invariant, since the lock is released around a
  hash and each of them needs the others there. `StoreInv` is about each transfer
  (one that holds its file is listed, one that is hashed is in progress),
  `ThreadInv` about each handler thread, `HashInv` says that "is hashed" and
  "hashes" are a bijection. What an action does to the tables is proved once per
  helper of the code and used by every handler that calls it.
* `CommittedStaysCommitted`, `PublishesTheDeclared`: action properties from the
  same invariant. The second needs that a begin's manifest never changes.

`FileTransfer_proofs` - in addition from `TransferAssumption`:

* `ClientsImplementStore`: `TransferSpec => Spec`. Whatever the client, its
  lossy connection and the other clients do is a step of the store or none, so
  every theorem of `Workspace_proofs` holds of the composition.
* `UploadTellsTheTruth`: `TransferSpec => SuccessIsTrue`. `CommandInv` follows the
  command: a client that sends chunks has compared the transfer with the digest
  of its source (`UploadInv`), the request it waits for is its own (`AskedInv`),
  and so is what the handler thread executes (`ServingInv`); with the manifest of
  a transfer fixed, the commit it is told of is the commit of its source.
* `TransfersABeginning`: `TransferSpec => []TransferredIsBeginning`, for any number
  of transfers the command begins. `ContentInv` says what may still arrive: while the
  source does not change, every chunk that is asked for, may be executed late or
  waits in a handler thread is the source's own byte at its offset (`FitInv`), so
  that storing only at the end of what is stored suffices, whichever of them comes
  and how often. A download reads the file its begin hashed for as long as its
  transfer is open and untouched (`DownloadInv`); a granted chunk shows that it
  still was when the byte was read (`AcceptedChunk`, `ResumedChunk`).

`HostOperation_proofs` - for every table of programs and every number of
interferences, from `HostAssumption` and `DisciplineAssumption`:

* **What is assumed of a program.** The promises hold because every adapter does
  things in one order. `HostDiscipline` states that order as conditions on the
  text of a program, which mention no state: the receipt is flagged before the
  first setter (`FlagsBeforeWriting`), what was written is verified and marked
  afterwards (`VerifiesAfterWriting`, `MarksAfterWriting`), a file is verified
  between its production and its publication (`PublishesVerified`), what is
  compared was observed before anything was read or written in it
  (`SnapsBeforeTouching`), and is compared again afterwards (`ComparesAgain`) or before
  the file is published (`ComparesSource`), and so on. Which facets a program guards
  in this way (`Guarded`) is read off its snapshots. Each is asked only of a program with the claim it serves.
  `DisciplineAssumption` says the programs obey them, and TLC evaluates it on
  all 67. So the theorems are not about 67 programs: an operation added to
  the daemon in this order inherits the promises, and one that is not is refused by
  TLC before any state is explored.
* **What an action does.** There are more than twenty kinds of steps, each of which
  may succeed, raise, be collected or only warn. `StepsProceed` summarises each
  action once, as `Begins`, `Opens`, `Turns`, `Moves`, `Closes` or `Waits`, and every
  part of the invariant is proved from these six.
* **The invariant.** The step relation knows one program text, and a promise is
  about what has happened; `Inv` relates what is left of the text (`todo`) to the
  history. Thus `EffectInv`, `VerifyInv` and `MarkInv` say that as long as the answer
  can be a success, what was written has been verified and marked, or the step
  that will do so is still to come; `SnapInv`, `SourceInv` and `AgainInv`
  say it of each guarded facet and its comparison: if it was another one when the
  document was touched and is so still (`drift`), the comparison is yet to come and
  will fail. Facets need not move one way only for this: one that came back has
  left `drift`, and nothing is claimed of it. Further, `PublishInv` speaks of a produced
  file, `AttemptInv` and `ReceiptInv` of the receipt, `LentInv`, `FrontInv` and
  `FenceInv` of what is borrowed, the foreground and the two kinds of unknown host
  state. None is true alone: a comparison counts only if the failure it raises
  survives the finally clauses (`FromInv`, `KeepInv`).
* `AnswersAreTrue`: `Spec => KeepsPromise`, the refinement of `OperationPromise`;
  `ReadsAreOfOneState`, `WritesAreInTheirContext`, `WhatIsBorrowedIsGivenBack`,
  `SuccessesAreDurable`, `OnlyVerifiedFilesAreIssued`, `UnknownStateStaysFenced`,
  `OperationsAdvance`: the other properties of the run `operations`.

The assumptions on the constants are evaluated by TLC in every run of the
module. But for `DisciplineAssumption` they say what Python gives: `None` is none of
the values it stands beside, limits are numbers, a path key is no title key, the
sizes of responses are positive.

**Model-checked only**: liveness (`EveryRequestAnswered`, `StopCloses`), which is out
of the prover's reach, that no operation is stuck (the absence of deadlock), and the
five disagreements of section 7, which are counterexamples. That the 67 programs are
those of the code is no matter of proof: it is read off the adapters.

## 7. Where the code and its documents disagree

1. **A late shutdown reply is taken for another request's** (`supervisor_stale`).
   After a shutdown that timed out on a live worker, its control request and its
   reply stay queued; `call` does not compare ids (`server.py` 675) and records
   the reply under its own id.
2. **A timeout may leave the owned SOLIDWORKS running** (`supervisor_timeout`).
   `_terminate_worker` ends the host only if it found the worker alive
   (`server.py` 627-639); the reply says it was ended.
3. **A lost session may be replaced** (`supervisor_lost`). The event of a worker
   that exits between the two looks of `call` (`server.py` 656 and 668) is dropped
   with its queue when a new worker starts.
4. **A lease does not follow a document renamed by hand** (`documents_renamed`).
   `resolve("active")` registers it as a new, unleased one (`documents.py` 581-585).
5. **A receipt for a transfer that is gone** (`workspace_replay`). A repeated
   download-begin returns the receipt of a transfer its first attempt removed
   (`workspace.py` 186-189).

Properties of the passing runs say which of these they exclude: `RepliesAreOwn`,
`QuietWhenUnlocked` and `DispatchedForWaiter` up to the first shutdown that timed
out, `WriterHoldsLease`, `GrantKept` and `KeysCurrent` while no rename went
unnoticed.

## 8. What is not modelled

* Numbers inside SOLIDWORKS: geometry, units, option values. An adapter's
  comparison of what it asked for with what it reads back is one `Verify` step,
  which a false success cannot pass.
* A COM call that never returns (in `HostOperation`; the supervisor's timeout is
  in `WorkerManager`).
* A user who restarts SOLIDWORKS in attach mode, and the delay of the
  multiprocessing feeder thread between `put` and the pipe.
* Connection slots (a semaphore taken and given back in straight-line code), TLS
  and authentication (I/O), `health`'s reads when the lock is taken (they change
  nothing).
* The daemon's start, stop and restart from the launcher's side: a loop that
  polls other processes against numeric deadlines. What could go wrong there is
  whether the deadlines nest, which a model with times as events cannot see.
* Directories and path safety of the workspace, byte ranges of downloads; a
  transfer of another session is refused like an unknown one.
* Liveness of a transfer: a network may lose every reply, and the client gives
  up at the first loss; the user resumes.
* Field-by-field JSON schemas, the catalogues of options, the SDK's data classes:
  declarations.
* MCP server, CLI, tray: they keep nothing between two calls.
* Operations that reach no document (`daemon.*`, `host.*`, `document.list`,
  `document.use`, leases) are no programs of `HostOperation`: the supervisor and
  `DocumentRegistry` model them.
