------------------------------ MODULE Workspace ------------------------------
(***************************************************************************)
(* Workspace transfers of swclid (workspace.py, WorkspaceStore, and the    *)
(* StagedFile of safe_workspace.py).  Handler threads execute requests     *)
(* under one lock, which _hash gives up while it reads a file: a step here *)
(* is what a thread does from taking the lock to releasing it.             *)
(*                                                                         *)
(* A file is its content, and a SHA256 is the content it is of.  A request *)
(* refused after its transfer was found leaves what an inspection leaves.  *)
(* Sessions are left out: a transfer of another session is refused like an *)
(* unknown one.                                                            *)
(***************************************************************************)
EXTENDS Naturals, Sequences, FiniteSets

CONSTANTS
  Threads,        \* handler threads
  Keys,           \* a client's session and request_id
  Paths,          \* files of the workspace
  Bytes,          \* what a chunk may hold
  Contents,       \* what files and upload manifests may hold
  UploadLimit, DownloadLimit,
  KeptReceipts,   \* how many finished transfers _expire keeps
  MaxTransfers,   \* bound on the transfers ever begun
  None

ASSUME WorkspaceAssumption ==
  /\ Contents \subseteq Seq(Bytes) /\ None \notin Contents
  /\ UploadLimit \in Nat \ {0} /\ DownloadLimit \in Nat \ {0}
  /\ KeptReceipts \in Nat /\ MaxTransfers \in Nat

VARIABLES
  records,   \* the transfers begun so far; listed ones are in self.transfers
  thread,    \* what each handler thread is doing
  files,     \* content of each path, or None
  temps,     \* uploads whose staging file exists
  linked,    \* uploads whose staging file is also their destination
  closed,    \* "open", "closing" (self.closed) or "closed"
  leaked     \* uploads whose staging file could not be removed, and that
             \* nothing removes any more: their resource is gone, or its
             \* "published" is set

disk == <<files, temps, linked, leaked>>
vars == <<records, thread, disk, closed>>

Ids  == 1..MaxTransfers
Idle == [at |-> "free", transfer |-> 0, request |-> None]

(* Requests on a transfer; a chunk is one byte at an offset. *)
Plain(op) == [op |-> op, offset |-> 0, data |-> None]
Chunk(offset, byte) == [op |-> "upload-chunk", offset |-> offset, data |-> byte]

Requests ==
  {Plain(op) : op \in {"upload-status", "upload-commit", "upload-abort",
                       "download-chunk", "download-end"}}
    \cup UNION {{Chunk(i - 1, content[i]) : i \in DOMAIN content} : content \in Contents}

Records == [direction : {"upload", "download"}, key : Keys, path : Paths,
            content : Contents \cup {None}, overwrite : BOOLEAN, stored : Seq(Bytes),
            state : {"uploading", "downloading", "committed", "aborted", "failed", "closed"},
            held : BOOLEAN,     \* "resource" in the record
            hashing : BOOLEAN, listed : BOOLEAN,
            hashed : BOOLEAN,   \* sha256 is known
            stale : BOOLEAN,    \* TRANSFER_TTL passed since it was used
            touched : BOOLEAN]  \* the file opened for download changed

ASSUME NoneAssumption == None \notin Records

Begun      == {t \in Ids : records[t] # None}
Listed     == {t \in Begun : records[t].listed}
InProgress == {"uploading", "downloading"}

-----------------------------------------------------------------------------
(* Pieces of a locked step *)

(* _dispose closes the resource; closing a staged file removes it unless   *)
(* it was published.  Its bytes, and the age of what is no longer listed,  *)
(* are nothing the code looks at again.                                    *)
Closed(r) == [r EXCEPT !.held = FALSE, !.stored = <<>>, !.touched = FALSE]

Disposed(recs, gone) ==
  [t \in Ids |-> IF t \in gone THEN Closed(recs[t]) ELSE recs[t]]

Delisted(recs, gone) ==
  [t \in Ids |-> IF t \in gone THEN [recs[t] EXCEPT !.listed = FALSE, !.stale = FALSE]
                 ELSE recs[t]]

(* Mutants: "published" is not looked at, or what is dropped is not closed. *)
MutantUnstaged(gone)     == temps \ gone
MutantKeepsStaging(gone) == temps

Unstaged(gone) == temps \ (gone \ leaked)

(* _expire: idle transfers go, and the oldest finished ones.               *)
(* Mutant: a transfer being hashed goes too.                               *)
MutantExpired == {t \in Listed : records[t].stale}

Expired == {t \in Listed : records[t].stale /\ ~records[t].hashing}

Pruned ==
  LET done == {t \in Listed \ Expired : records[t].state \notin InProgress}
  IN {t \in done : Cardinality({u \in done : u > t}) >= KeptReceipts}

Swept == Expired \cup Pruned

AfterSweep == Delisted(Disposed(records, Swept), Swept)

(* Closing one of the swept transfers raises: the ones before it are gone, *)
(* it has lost its resource, and its request ends there.                   *)
SweepFails ==
  \E t \in Swept, before \in SUBSET Swept :
    /\ records[t].direction = "upload" /\ records[t].held /\ t \notin before
    /\ records' = Disposed(Delisted(Disposed(records, before), before), {t})
    /\ \E left \in SUBSET ({t} \cap temps) :
         /\ temps' = Unstaged(before \cup {t}) \cup left
         /\ leaked' = leaked \cup left
    /\ UNCHANGED <<thread, files, linked, closed>>

Free(th)        == thread' = [thread EXCEPT ![th] = Idle]
Put(recs, t, r) == [u \in Ids |-> IF u = t THEN r ELSE recs[u]]
Used(recs, t)   == Put(recs, t, [recs[t] EXCEPT !.stale = FALSE])

-----------------------------------------------------------------------------
(* _begin *)

SameManifest(r, direction, path, content, overwrite) ==
  /\ r.direction = direction /\ r.path = path
  /\ direction = "upload" => r.content = content /\ r.overwrite = overwrite

(* Mutant: only transfers still in progress count. *)
MutantActive(recs, direction) ==
  {t \in Begun : recs[t].listed /\ recs[t].direction = direction /\ recs[t].state \in InProgress}

Active(recs, direction) ==
  {t \in Begun : recs[t].listed /\ recs[t].direction = direction /\ recs[t].held}

NewRecord(direction, key, path, content, overwrite) ==
  [direction |-> direction, key |-> key, path |-> path, content |-> content,
   overwrite |-> overwrite, stored |-> <<>>, 
   state |-> IF direction = "upload" THEN "uploading" ELSE "downloading",
   held |-> TRUE, hashing |-> direction = "download", listed |-> TRUE,
   hashed |-> direction = "upload", stale |-> FALSE, touched |-> FALSE]

(* A begin that was seen before waits for the first one's hash; with       *)
(* another manifest it is refused.                                         *)
Rebegin(th, key, direction, path, content, overwrite) ==
  /\ thread[th] = Idle /\ closed = "open"
  /\ \E t \in Listed \ Swept :
       /\ records[t].key = key /\ SameManifest(records[t], direction, path, content, overwrite)
       /\ IF records[t].hashing
          THEN /\ records' = AfterSweep
               /\ thread' = [thread EXCEPT ![th] = [Idle EXCEPT !.at = "begun", !.transfer = t]]
          ELSE /\ records' = Used(AfterSweep, t)
               /\ UNCHANGED thread
  /\ temps' = Unstaged(Swept)
  /\ UNCHANGED <<files, linked, leaked, closed>>

RebeginEnds(th) ==
  /\ thread[th].at = "begun" /\ ~records[thread[th].transfer].hashing
  /\ records' = Used(records, thread[th].transfer)
  /\ Free(th)
  /\ UNCHANGED <<disk, closed>>

NewTransfer(key, t) ==
  /\ closed = "open"
  /\ t \in Ids \ Begun /\ \A u \in Ids : u < t => u \in Begun
  /\ \A u \in Listed \ Swept : records[u].key # key

(* The staging file is made before anything is published: a destination    *)
(* that is there already is refused at once, unless it may be replaced.    *)
MayStage(path, overwrite) == overwrite \/ files[path] = None

UploadBegin(th, key, path, content, overwrite) ==
  /\ thread[th] = Idle
  /\ MayStage(path, overwrite)
  /\ \E t \in Ids :
       /\ NewTransfer(key, t)
       /\ Cardinality(Active(AfterSweep, "upload")) < UploadLimit
       /\ records' = Put(AfterSweep, t, NewRecord("upload", key, path, content, overwrite))
       /\ temps' = Unstaged(Swept) \cup {t}
  /\ UNCHANGED <<thread, files, linked, leaked, closed>>

(* A regular file with one name only: the staging name of a publication    *)
(* whose cleanup failed is a second one.                                   *)
Readable(path) == files[path] # None /\ \A u \in linked : records[u].path # path

(* The slot is taken and the file open before the lock is given up. *)
DownloadBegin(th, key, path) ==
  /\ thread[th] = Idle
  /\ Readable(path)
  /\ \E t \in Ids :
       /\ NewTransfer(key, t)
       /\ Cardinality(Active(AfterSweep, "download")) < DownloadLimit
       /\ records' = Put(AfterSweep, t, NewRecord("download", key, path, None, FALSE))
       /\ thread' = [thread EXCEPT ![th] = [Idle EXCEPT !.at = "hashing", !.transfer = t]]
  /\ temps' = Unstaged(Swept)
  /\ UNCHANGED <<files, linked, leaked, closed>>

(* A file that cannot be read, or changed meanwhile, ends the transfer. *)
DownloadHashed(th) ==
  LET t == thread[th].transfer IN
  /\ thread[th].at = "hashing" /\ records[t].direction = "download"
  /\ LET ready == Put(records, t, [records[t] EXCEPT !.hashing = FALSE, !.stale = FALSE])
         known == Put(ready, t, [ready[t] EXCEPT !.hashed = TRUE])
     IN \/ ~records[t].touched /\ records' = known
        \/ records[t].touched /\ records' = Delisted(Disposed(known, {t}), {t})
        \/ records' = Delisted(Disposed(ready, {t}), {t})
  /\ Free(th)
  /\ UNCHANGED <<disk, closed>>

-----------------------------------------------------------------------------
(* Operations on a transfer, after _get found it and marked it used: recs  *)
(* and staged are the records and the staging files at that point.         *)

Inspect(th, t, recs, staged) ==
  /\ records' = recs /\ temps' = staged
  /\ Free(th)
  /\ UNCHANGED <<files, linked, leaked>>

(* A chunk is stored at the end of what is stored already; an earlier one  *)
(* must be what is stored there.  Mutant: it is stored again.              *)
MutantStores(r, request) == request.offset <= Len(r.stored)

Stores(r, request)  == request.offset = Len(r.stored)
Repeats(r, request) ==
  request.offset < Len(r.stored) /\ r.stored[request.offset + 1] = request.data

UploadChunk(th, t, request, recs, staged) ==
  /\ IF Stores(recs[t], request)
     THEN \/ records' = Put(recs, t, [recs[t] EXCEPT !.stored = Append(@, request.data)])
          \/ records' = Put(recs, t, [recs[t] EXCEPT !.state = "failed"])   \* the write fails
     ELSE records' = recs
  /\ temps' = staged
  /\ Free(th)
  /\ UNCHANGED <<files, linked, leaked>>

(* A changed source fails the transfer, or only the request when it has no  *)
(* signature because it was removed.                                       *)
DownloadChunk(th, t, recs, staged) ==
  /\ \/ records' = recs
     \/ recs[t].touched /\ records' = Put(recs, t, [recs[t] EXCEPT !.state = "failed"])
  /\ temps' = staged
  /\ Free(th)
  /\ UNCHANGED <<files, linked, leaked>>

(* Mutant: whatever the transfer's state, it is aborted. *)
MutantEnded(r) == IF r.direction = "upload" THEN "aborted" ELSE "closed"

Ended(r) ==
  IF r.state \in {"committed", "aborted", "closed"} THEN r.state
  ELSE IF r.direction = "upload" THEN "aborted" ELSE "closed"

(* upload-abort and download-end.  If closing the staged file raises, the  *)
(* state stays and the resource is gone.                                   *)
End(th, t, recs, staged) ==
  /\ \/ /\ records' = Put(recs, t, [Closed(recs[t]) EXCEPT !.state = Ended(recs[t])])
        /\ temps' = IF recs[t].held THEN staged \ ({t} \ leaked) ELSE staged
        /\ UNCHANGED leaked
     \/ /\ recs[t].direction = "upload" /\ recs[t].held
        /\ records' = Disposed(recs, {t})
        /\ \E left \in SUBSET ({t} \cap staged) :
             /\ temps' = (staged \ ({t} \ leaked)) \cup left
             /\ leaked' = leaked \cup left
  /\ Free(th)
  /\ UNCHANGED <<files, linked>>

(* upload-commit up to the hash. *)
CommitStarts(th, t, recs, staged) ==
  /\ records' = Put(recs, t, [recs[t] EXCEPT !.hashing = TRUE])
  /\ temps' = staged
  /\ thread' = [thread EXCEPT ![th] = [Idle EXCEPT !.at = "hashing", !.transfer = t]]
  /\ UNCHANGED <<files, linked, leaked>>

(* What execute checks of the transfer; a staged file with a second link   *)
(* has no signature.  A repeated commit of a committed upload is only      *)
(* answered.                                                               *)
Admits(t, r, request) ==
  LET active == r.state \in InProgress /\ r.held IN
  CASE request.op \in {"upload-abort", "download-end"} -> TRUE
    [] request.op = "upload-chunk" ->
         active /\ request.offset < Len(r.content) /\ (Stores(r, request) \/ Repeats(r, request))
    [] request.op = "upload-commit" ->
         active /\ Len(r.stored) = Len(r.content) /\ t \notin linked
    [] request.op = "download-chunk" -> active
    [] OTHER -> FALSE

Perform(th, request, t, recs, staged) ==
  /\ IF Admits(t, recs[t], request)
     THEN \/ request.op = "upload-chunk" /\ UploadChunk(th, t, request, recs, staged)
          \/ request.op = "download-chunk" /\ DownloadChunk(th, t, recs, staged)
          \/ request.op \in {"upload-abort", "download-end"} /\ End(th, t, recs, staged)
          \/ request.op = "upload-commit" /\ CommitStarts(th, t, recs, staged)
     ELSE Inspect(th, t, recs, staged)
  /\ UNCHANGED closed

Direction(op) == IF op \in {"download-chunk", "download-end"} THEN "download" ELSE "upload"

(* A request refused earlier leaves the sweep it began with. *)
Refused ==
  /\ Swept # {}
  /\ records' = AfterSweep /\ temps' = Unstaged(Swept)
  /\ UNCHANGED <<thread, files, linked, leaked, closed>>

(* execute and _get: a transfer being hashed is waited for. *)
Request(th, request, t) ==
  /\ thread[th] = Idle /\ closed = "open"
  /\ t \in Listed \ Swept /\ records[t].direction = Direction(request.op)
  /\ IF records[t].hashing
     THEN /\ records' = AfterSweep /\ temps' = Unstaged(Swept)
          /\ thread' = [thread EXCEPT ![th] =
                         [at |-> "waiting", transfer |-> t, request |-> request]]
          /\ UNCHANGED <<files, linked, leaked, closed>>
     ELSE Perform(th, request, t, Used(AfterSweep, t), Unstaged(Swept))

(* A store closed meanwhile refuses. *)
Resume(th) ==
  /\ thread[th].at = "waiting" /\ ~records[thread[th].transfer].hashing
  /\ IF closed # "open"
     THEN Free(th) /\ UNCHANGED <<records, disk, closed>>
     ELSE Perform(th, thread[th].request, thread[th].transfer,
                  Used(records, thread[th].transfer), temps)

(* The rest of upload-commit.  Mutant: the hash is not compared. *)
MutantVerified(r) == Len(r.stored) = Len(r.content)

Verified(r)   == r.stored = r.content
MayPublish(r) == r.overwrite \/ files[r.path] = None

Reads(r, path) == r.direction = "download" /\ r.held /\ r.path = path

(* StagedFile.publish: os.replace, or a link of the destination and then   *)
(* the removal of the staging name, which may fail.  Either makes the file *)
(* a download has open another one than the path names.                    *)
Publish(t, ready, removed) ==
  LET r == ready[t] IN
  /\ files' = [files EXCEPT ![r.path] = r.stored]
  /\ records' = [u \in Ids |->
       IF ready[u] # None /\ Reads(ready[u], r.path)
       THEN [ready[u] EXCEPT !.touched = TRUE]
       ELSE IF u = t /\ removed THEN [Closed(r) EXCEPT !.state = "committed"]
       ELSE ready[u]]
  /\ temps' = IF removed THEN temps \ {t} ELSE temps
  /\ linked' = IF removed
               THEN {u \in linked : records[u].path # r.path}
               ELSE linked \cup {t}
  /\ leaked' = IF removed THEN leaked ELSE leaked \cup {t}

CommitHashed(th) ==
  LET t     == thread[th].transfer
      ready == Put(records, t, [records[t] EXCEPT !.hashing = FALSE, !.stale = FALSE])
  IN
  /\ thread[th].at = "hashing" /\ records[t].direction = "upload"
  /\ \/ records' = ready /\ UNCHANGED disk      \* reading, or publish, raises
     \/ /\ ~Verified(records[t])
        /\ records' = Put(ready, t, [ready[t] EXCEPT !.state = "failed"])
        /\ UNCHANGED disk
     \/ /\ Verified(records[t]) /\ MayPublish(records[t])
        /\ \/ Publish(t, ready, TRUE)
           \/ ~records[t].overwrite /\ Publish(t, ready, FALSE)
  /\ Free(th)
  /\ UNCHANGED closed

-----------------------------------------------------------------------------
(* close *)

CloseBegins ==
  /\ closed = "open"
  /\ closed' = "closing"
  /\ UNCHANGED <<records, thread, disk>>

(* Mutant: a hash in progress is not waited for. *)
MutantCloseEnds ==
  /\ closed = "closing"
  /\ records' = Delisted(Disposed(records, Listed), Listed)
  /\ closed' = "closed"
  /\ temps' = Unstaged(Listed)
  /\ UNCHANGED <<thread, files, linked, leaked>>

CloseEnds ==
  /\ closed = "closing" /\ \A t \in Listed : ~records[t].hashing
  /\ records' = Delisted(Disposed(records, Listed), Listed)
  /\ closed' = "closed"
  /\ \E left \in SUBSET {t \in Listed \cap temps : records[t].held} :
       /\ temps' = Unstaged(Listed) \cup left
       /\ leaked' = leaked \cup left
  /\ UNCHANGED <<thread, files, linked>>

-----------------------------------------------------------------------------
(* Time, and the other programs that use the workspace directory *)

GoesIdle(t) ==
  /\ t \in Listed /\ ~records[t].stale
  /\ records' = Put(records, t, [records[t] EXCEPT !.stale = TRUE])
  /\ UNCHANGED <<thread, disk, closed>>

OtherProgram(path, content) ==
  /\ files[path] # content
  /\ files' = [files EXCEPT ![path] = content]
  /\ records' = [t \in Ids |->
       IF t \in Begun /\ Reads(records[t], path)
       THEN [records[t] EXCEPT !.touched = TRUE] ELSE records[t]]
  /\ linked' = {t \in linked : records[t].path # path}
  /\ UNCHANGED <<thread, temps, leaked, closed>>

-----------------------------------------------------------------------------
Init ==
  /\ records = [t \in Ids |-> None]
  /\ thread = [th \in Threads |-> Idle]
  /\ files \in [Paths -> Contents \cup {None}]
  /\ temps = {} /\ linked = {} /\ leaked = {}
  /\ closed = "open"

(* What any client may ask for, with manifests of the given contents. *)
Idling == {th \in Threads : thread[th] = Idle}

Begins(contents) ==
  closed = "open" /\ \E th \in Idling, key \in Keys, path \in Paths :
    \/ DownloadBegin(th, key, path) \/ Rebegin(th, key, "download", path, None, FALSE)
    \/ \E content \in contents, overwrite \in BOOLEAN :
         \/ UploadBegin(th, key, path, content, overwrite)
         \/ Rebegin(th, key, "upload", path, content, overwrite)

Asks(requests) ==
  closed = "open" /\ \E th \in Idling, t \in Listed, request \in requests :
    Request(th, request, t)

(* What goes on whoever asked. *)
Continues(th) == RebeginEnds(th) \/ DownloadHashed(th) \/ Resume(th) \/ CommitHashed(th)

Sweeps == closed = "open" /\ (Refused \/ SweepFails)

TimePasses == \E t \in Ids : GoesIdle(t)

OthersWrite(contents) ==
  \E path \in Paths, content \in contents \cup {None} : OtherProgram(path, content)

Next ==
  \/ Begins(Contents) \/ Asks(Requests)
  \/ \E th \in Threads : Continues(th)
  \/ Sweeps \/ TimePasses \/ OthersWrite(Contents) \/ CloseBegins \/ CloseEnds

Spec == Init /\ [][Next]_vars

-----------------------------------------------------------------------------
(* Properties *)

(* Every variable keeps its type; a thread that waits or hashes names a    *)
(* transfer that was begun.                                                *)
TypeOK ==
  /\ records \in [Ids -> Records \cup {None}]
  /\ thread \in [Threads -> [at : {"free", "begun", "waiting", "hashing"},
                             transfer : Ids \cup {0}, request : Requests \cup {None}]]
  /\ \A th \in Threads : thread[th].at # "free" => thread[th].transfer \in Begun
  /\ files \in [Paths -> Contents \cup {None}]
  /\ temps \subseteq Begun /\ linked \subseteq temps /\ leaked \subseteq Begun
  /\ closed \in {"open", "closing", "closed"}

(* Open files and staged uploads stay within the advertised limits, also   *)
(* while begins overlap hashes and after transfers failed.                 *)
LimitsHeld ==
  /\ Cardinality({t \in Begun : records[t].held /\ records[t].direction = "upload"})
       <= UploadLimit
  /\ Cardinality({t \in Begun : records[t].held /\ records[t].direction = "download"})
       <= DownloadLimit

(* Each transfer being hashed is hashed by one thread, which owns it: no   *)
(* other request writes to it, aborts it, expires it or closes its file    *)
(* before the hash is compared.                                            *)
HashOwnsTransfer ==
  /\ \A t \in Begun : records[t].hashing =>
       /\ records[t].held /\ records[t].listed /\ records[t].state \in InProgress
       /\ Cardinality({th \in Threads : thread[th].at = "hashing" /\ thread[th].transfer = t}) = 1
  /\ \A th \in Threads : thread[th].at = "hashing" => records[thread[th].transfer].hashing

(* A commit publishes the whole declared content or nothing, and without   *)
(* overwrite it never replaces a file another program put there.           *)
CommitPublishes(t) ==
  /\ records[t] # None /\ records[t].hashing /\ records[t].direction = "upload"
  /\ records[t].state = "uploading" /\ ~records'[t].hashing

PublishesDeclared ==
  [][\A t \in Ids : CommitPublishes(t) /\ files' # files =>
       /\ files'[records[t].path] = records[t].content
       /\ records[t].overwrite \/ files[records[t].path] = None]_vars

(* A finished upload stays what its receipt said: an abort that waited for *)
(* a commit does not turn the committed upload into an aborted one.        *)
CommittedStays ==
  [][\A t \in Ids : records[t] # None /\ records[t].state = "committed" =>
       records'[t].state = "committed"]_vars

(* Whatever way a transfer ends, its staging file goes with it; only one   *)
(* the file system refused to remove is left behind.                       *)
StagingOwned ==
  \A t \in temps : (records[t].held /\ records[t].listed) \/ t \in leaked

(* A closed store has no file open, and no thread is left to publish.      *)
ClosedIsQuiet ==
  closed = "closed" =>
    /\ \A t \in Begun : ~records[t].held /\ ~records[t].listed
    /\ \A th \in Threads : thread[th].at # "hashing"

(* "A changing file ... is a transfer error": a repeated begin that waited *)
(* for the first one's hash is answered with a receipt that has a SHA256   *)
(* only if the transfer still exists.                                      *)
BeginNamesTransfer ==
  [][\A th \in Threads : thread[th].at = "begun" /\ thread'[th].at = "free" =>
       LET r == records[thread[th].transfer] IN
       closed = "open" /\ r.hashed => r.listed]_vars

=============================================================================
