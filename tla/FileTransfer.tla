---------------------------- MODULE FileTransfer ----------------------------
(***************************************************************************)
(* The client of workspace transfers (file_transfer.py over call_daemon of *)
(* daemon/client.py), composed with the store it talks to.  Each request   *)
(* has a connection of its own, which may be lost at any time: before the  *)
(* daemon has read the request, while a handler thread executes it, or     *)
(* before the reply is read.  The command then fails; the daemon does not  *)
(* notice and executes the request when it comes to it, perhaps while the  *)
(* user has already resumed the upload.                                    *)
(*                                                                         *)
(* A daemon serves this client, or (client.at = "absent") any others.      *)
(***************************************************************************)
EXTENDS Workspace, SequencesExt

CONSTANTS
  Offered,      \* manifests of other clients' uploads
  Sources,      \* what the client's files hold
  MaxOwn        \* bound on the transfers this client begins

ASSUME TransferAssumption ==
  /\ Offered \subseteq Contents /\ Sources \subseteq Contents /\ MaxOwn \in Nat
  /\ None \notin Threads \cup {"upload", "download"}

VARIABLES
  client,     \* the command under way, or the last one
  asked,      \* the request it waits for, or None
  serving,    \* the thread that executes that request, or None
  late,       \* a request that the daemon may still read although its client
              \* is gone, or None: at most one, a bound
  mine,       \* the client's file: upload source or download destination
  rewritten,  \* the source has changed since its signature was taken
  steady      \* history: the source has never changed

transferVars == <<client, asked, serving, late, mine, rewritten, steady>>
allVars      == <<vars, transferVars>>

Absent == [at |-> "absent", direction |-> None, path |-> None,
           transfer |-> 0,    \* the last transfer_id the user was told
           digest |-> None,   \* of the source, or in the receipt of a download
           offset |-> 0,
           got |-> <<>>]      \* what the staged destination holds

(* rpc, as far as the request is sent. *)
Ask(request, key) ==
  /\ asked' = [request |-> request, key |-> key,
               transfer |-> client'.transfer, content |-> client'.digest]
  /\ UNCHANGED <<vars, serving, late>>

Stage(at)   == [client EXCEPT !.at = at]
Finish(how) == [client EXCEPT !.at = how, !.offset = 0, !.got = <<>>]

-----------------------------------------------------------------------------
(* The command's side of a reply *)

(* Mutant: what a resumed transfer holds is not compared with the source. *)
MutantMatches(r) == r.path = client.path

Matches(r) == r.path = client.path /\ r.content = client.digest

(* A receipt shows that the request was granted.  A download whose hash    *)
(* failed has none: its receipt has no SHA256 and is refused by the schema.*)
Granted(message, t) ==
  CASE message.request.op = "upload-chunk" ->
         Admits(t, records[t], message.request) /\ records'[t].state = "uploading"
    [] message.request.op = "download-chunk" ->
         /\ Admits(t, records[t], message.request)
         /\ ~records[t].touched /\ records'[t].state = "downloading"
    [] message.request.op = "upload-commit" -> records'[t].state = "committed"
    [] message.request.op = "download-begin" -> records'[t].hashed
    [] OTHER -> TRUE

(* _upload: the receipt says where to go on, and a chunk's must agree. *)
UploadReceipt(op, t) ==
  LET r == records'[t] IN
  client' =
    CASE op = "upload-chunk" ->
           IF Len(r.stored) = client.offset + 1 THEN [Stage("ready") EXCEPT !.offset = @ + 1]
           ELSE Finish("failed")
      [] op = "upload-commit" -> Finish("succeeded")
      [] OTHER ->
           LET known == [client EXCEPT !.transfer = t] IN
           IF ~Matches(r) THEN [known EXCEPT !.at = "failed"]
           ELSE CASE r.state = "committed" -> [known EXCEPT !.at = "succeeded"]
                  [] r.state = "uploading" -> [known EXCEPT !.at = "ready", !.offset = Len(r.stored)]
                  [] OTHER -> [known EXCEPT !.at = "failed"]

(* The file a begin hashed; one that has changed since is not sent.        *)
Hashed(t) == IF records'[t].touched THEN None ELSE files[client.path]

(* _download: the begin's receipt is followed by root.stage, which refuses *)
(* a destination that is there; download-end is sent whatever happened.    *)
DownloadReceipt(op, t) ==
  client' =
    CASE op = "download-begin" ->
           LET known == [client EXCEPT !.transfer = t, !.digest = Hashed(t)] IN
           IF records'[t].state # "downloading" THEN [known EXCEPT !.at = "failed"]
           ELSE IF mine = None THEN [known EXCEPT !.at = "ready"]
           ELSE [known EXCEPT !.at = "giving up"]
      [] op = "download-chunk" ->
           [client EXCEPT !.offset = @ + 1, !.got = Append(@, files[client.path][client.offset + 1])]
      [] op = "download-end" -> Finish(IF client.at = "published" THEN "succeeded" ELSE "failed")

(* An error, or no reply. *)
NoReceipt(op) ==
  client' =
    CASE op = "download-chunk" -> Stage("giving up")
      [] op = "download-end" -> Finish(IF client.at = "published" THEN "succeeded" ELSE "failed")
      [] OTHER -> Finish("failed")

Reply(t, refused) ==
  LET op == asked.request.op IN
  /\ IF refused \/ ~Granted(asked, t) THEN NoReceipt(op)
     ELSE IF client.direction = "upload" THEN UploadReceipt(op, t) ELSE DownloadReceipt(op, t)
  /\ asked' = None /\ serving' = None

-----------------------------------------------------------------------------
(* The command's own steps *)

Resting == client.at \in {"new", "succeeded", "failed"}
Goes    == client.at = "ready" /\ asked = None

(* upload and download, begun anew or with --resume.  A source that changes*)
(* while it is hashed ends the command at once.                            *)
Starts(op, key) ==
  /\ Resting
  /\ rewritten' = FALSE
  /\ client' = [Stage("begun") EXCEPT !.digest = IF client.direction = "upload" THEN mine ELSE None]
  /\ Ask(Plain(op), key)
  /\ UNCHANGED <<mine, steady>>

UploadStarts   == client.direction = "upload" /\ \E key \in Keys : Starts("upload-begin", key)
UploadResumes  == client.direction = "upload" /\ client.transfer # 0 /\ Starts("upload-status", None)
DownloadStarts == client.direction = "download" /\ \E key \in Keys : Starts("download-begin", key)

(* Another program changes the source. *)
Rewritten == steady' = FALSE /\ mine' \in Sources \ {mine}

(* The source is read after its signature was compared, and may change in  *)
(* between.                                                                *)
SendsChunk ==
  /\ Goes /\ client.direction = "upload"
  /\ ~rewritten /\ client.offset < Len(client.digest)
  /\ \/ UNCHANGED <<mine, rewritten, steady>>
     \/ Rewritten /\ rewritten' = TRUE
  /\ client.offset < Len(mine')
  /\ UNCHANGED client
  /\ Ask(Chunk(client.offset, mine'[client.offset + 1]), None)

SendsCommit ==
  /\ Goes /\ client.direction = "upload"
  /\ ~rewritten /\ client.offset = Len(client.digest)
  /\ UNCHANGED <<client, mine, rewritten, steady>>
  /\ Ask(Plain("upload-commit"), None)

FindsRewritten ==
  /\ Goes /\ client.direction = "upload" /\ rewritten
  /\ client' = Finish("failed")
  /\ UNCHANGED <<vars, asked, serving, late, mine, rewritten, steady>>

AsksChunk ==
  /\ Goes /\ client.direction = "download"
  /\ client.digest # None => client.offset < Len(client.digest)
  /\ UNCHANGED <<client, mine, rewritten, steady>>
  /\ Ask(Plain("download-chunk"), None)

(* target.publish, by rename or by a link that finds the name taken.       *)
Publishes ==
  /\ Goes /\ client.direction = "download" /\ client.got = client.digest
  /\ mine' = client.got
  /\ client' = Stage("published")
  /\ UNCHANGED <<vars, asked, serving, late, rewritten, steady>>

(* A write fails, the bytes are not the hashed ones, or publish raises. *)
GivesUp ==
  /\ Goes /\ client.direction = "download"
  /\ client' = Stage("giving up")
  /\ UNCHANGED <<vars, asked, serving, late, mine, rewritten, steady>>

SendsEnd ==
  /\ client.at \in {"published", "giving up"} /\ asked = None
  /\ UNCHANGED <<client, mine, rewritten, steady>>
  /\ Ask(Plain("download-end"), None)

-----------------------------------------------------------------------------
(* The connection and the daemon's handler threads *)

Begin(op) == op \in {"upload-begin", "download-begin"}

(* A handler thread reads a request; the path is that of the one command   *)
(* that is repeated, without --overwrite.                                  *)
Accepts(th, message) ==
  LET op == message.request.op IN
  /\ CASE op = "upload-begin" ->
            \/ UploadBegin(th, message.key, client.path, message.content, FALSE)
            \/ Rebegin(th, message.key, "upload", client.path, message.content, FALSE)
       [] op = "download-begin" ->
            \/ DownloadBegin(th, message.key, client.path)
            \/ Rebegin(th, message.key, "download", client.path, None, FALSE)
       [] OTHER -> Request(th, message.request, message.transfer)
  /\ Begun' \subseteq 1..MaxOwn

(* A begin may be refused for the file system's reasons too. *)
Rejects(message) ==
  \/ closed = "open" /\ SweepFails
  \/ /\ closed = "open"
     /\ Begin(message.request.op) \/ message.transfer \notin Listed \ Swept
     /\ records' = AfterSweep /\ temps' = Unstaged(Swept)
     /\ UNCHANGED <<thread, files, linked, leaked, closed>>
  \/ closed # "open" /\ UNCHANGED vars

TransferOf(message) ==
  IF Begin(message.request.op)
  THEN CHOOSE t \in Ids : /\ records'[t] # None /\ records'[t].key = message.key
                          /\ records'[t].listed
  ELSE message.transfer

Receive(th) ==
  /\ asked # None /\ serving = None
  /\ Accepts(th, asked)
  /\ IF thread'[th] = Idle THEN Reply(TransferOf(asked), FALSE)
     ELSE serving' = th /\ UNCHANGED <<client, asked>>
  /\ UNCHANGED <<late, mine, rewritten, steady>>

Refuse ==
  /\ asked # None /\ serving = None
  /\ Rejects(asked)
  /\ NoReceipt(asked.request.op)
  /\ asked' = None
  /\ UNCHANGED <<serving, late, mine, rewritten, steady>>

(* A request that waited for a hash is refused if the store is closed. *)
Serve(th) ==
  /\ Continues(th)
  /\ IF th = serving /\ thread'[th] = Idle
     THEN Reply(thread[th].transfer, thread[th].at = "waiting" /\ closed # "open")
     ELSE UNCHANGED <<client, asked, serving>>
  /\ UNCHANGED <<late, mine, rewritten, steady>>

(* Read late, a status or a download-chunk tells nobody anything. *)
Lasts(message) == message.request.op \notin {"upload-status", "download-chunk"}

(* The connection breaks or the client stops waiting. *)
Lose ==
  /\ asked # None
  /\ NoReceipt(asked.request.op)
  /\ asked' = None /\ serving' = None
  /\ late' \in {late} \cup (IF serving = None /\ Lasts(asked) THEN {asked} ELSE {})
  /\ UNCHANGED <<vars, mine, rewritten, steady>>

ReceiveLate ==
  /\ late # None
  /\ (\E th \in Threads : Accepts(th, late)) \/ Rejects(late)
  /\ late' = None
  /\ UNCHANGED <<client, asked, serving, mine, rewritten, steady>>

(* Another program on the client's machine. *)
Rewrites ==
  /\ client.direction = "upload"
  /\ Rewritten /\ rewritten' = ~Resting
  /\ UNCHANGED <<vars, client, asked, serving, late>>

-----------------------------------------------------------------------------
TransferInit ==
  /\ \/ client = Absent /\ mine = None /\ files \in [Paths -> Offered \cup {None}]
     \/ /\ \E path \in Paths, direction \in {"upload", "download"} :
             client = [Absent EXCEPT !.at = "new", !.direction = direction, !.path = path]
        /\ IF client.direction = "upload"
           THEN mine \in Sources /\ files = [path \in Paths |-> None]
           ELSE mine \in Sources \cup {None} /\ files \in [Paths -> Sources \cup {None}]
  /\ asked = None /\ serving = None /\ late = None /\ rewritten = FALSE /\ steady = TRUE
  /\ Init

(* A status only marks the transfer used, as a refused chunk does. *)
OthersRequests == {request \in Requests : request.offset = 0 /\ request.op # "upload-status"}

Others ==
  /\ client = Absent
  /\ \/ Begins(Offered)
     \/ Asks(OthersRequests)
     \/ \E th \in Threads : Continues(th)
     \/ Sweeps \/ TimePasses \/ OthersWrite(Offered) \/ CloseBegins \/ CloseEnds
  /\ UNCHANGED transferVars

TransferNext ==
  \/ Others
  \/ UploadStarts \/ UploadResumes \/ SendsChunk \/ SendsCommit \/ FindsRewritten
  \/ DownloadStarts \/ AsksChunk \/ Publishes \/ GivesUp \/ SendsEnd
  \/ Lose \/ Refuse \/ ReceiveLate \/ Rewrites
  \/ client # Absent /\ \E th \in Threads : Receive(th) \/ Serve(th)
  \/ /\ client # Absent
     /\ \/ Sweeps \/ TimePasses \/ CloseBegins \/ CloseEnds
        \/ client.direction = "download" /\ OthersWrite(Sources)
     /\ UNCHANGED transferVars

TransferSpec == TransferInit /\ [][TransferNext]_allVars

-----------------------------------------------------------------------------
(* Properties: those of Workspace, and these. *)

(* An upload that reports success tells the truth, whatever was lost,      *)
(* executed late, resumed or rewritten: the source as this very command    *)
(* hashed it has been committed to its destination.                        *)
SuccessIsTrue ==
  [][client'.at = "succeeded" /\ client.at # "succeeded" /\ client.direction = "upload" =>
       \E t \in Ids : /\ records'[t] # None /\ records'[t].state = "committed"
                      /\ records'[t].direction = "upload" /\ records'[t].path = client.path
                      /\ records'[t].content = client.digest]_allVars

(* What has been transferred so far is a beginning of one file: a chunk of *)
(* an upload that is executed again, or late, is stored once, so that the  *)
(* upload can be resumed while its source does not change; and no download *)
(* mixes two versions of the daemon's file.                                *)
TransferredIsBeginning ==
  /\ client # Absent /\ steady =>
       \A t \in Begun : records[t].direction = "upload" =>
         IsPrefix(records[t].stored, records[t].content)
  /\ client.direction = "download" /\ client.got # <<>> =>
       client.digest # None /\ IsPrefix(client.got, client.digest)

=============================================================================
