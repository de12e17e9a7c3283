------------------------ MODULE FileTransfer_proofs -------------------------
(***************************************************************************)
(* Proofs about FileTransfer: whatever the client, its connections and the *)
(* other clients do is a behaviour of the store, so that all that is       *)
(* proved of Workspace holds of it; an upload that reports success tells   *)
(* the truth; and what has been transferred so far is a beginning of one   *)
(* file.                                                                   *)
(***************************************************************************)
EXTENDS FileTransfer, Workspace_proofs

USE WorkspaceAssumption, NoneAssumption, TransferAssumption
    DEF WorkspaceAssumption, NoneAssumption, TransferAssumption

-----------------------------------------------------------------------------
(* What the client and the requests under way always are *)

Fields == {"at", "direction", "path", "transfer", "digest", "offset", "got"}

UploadOps   == {"upload-begin", "upload-status", "upload-chunk", "upload-commit"}
DownloadOps == {"download-begin", "download-chunk", "download-end"}

Sendable(m) ==
  LET op == m.request.op IN
  /\ op \in UploadOps \cup DownloadOps
  /\ Begin(op) => m.key \in Keys
  /\ op = "upload-begin" => m.content \in Contents
  /\ ~Begin(op) => m.request \in Requests

ShapeInv ==
  /\ client = [f \in Fields |-> client[f]]
  /\ client = Absent => asked = None /\ late = None /\ serving = None
  /\ client # Absent => /\ client.at # "absent" /\ client.path \in Paths
                        /\ client.direction \in {"upload", "download"}
  /\ asked # None => Sendable(asked)
  /\ late # None => Sendable(late)

(* A command that sends chunks has compared the transfer with its source. *)
UploadInv ==
  client.direction = "upload" =>
    /\ mine \in Sources /\ client.at \notin {"published", "giving up"}
    /\ client.at \in {"begun", "ready"} => client.digest \in Sources
    /\ client.at = "ready" => /\ client.transfer \in Begun /\ Matches(records[client.transfer])
                              /\ client.offset \in Nat

(* A request that is waited for is the command's own. *)
AskedInv ==
  asked # None =>
    LET op == asked.request.op IN
    /\ asked.transfer = client.transfer /\ ~Resting
    /\ client.direction = "upload" =>
         /\ op \in UploadOps
         /\ client.at = IF op \in {"upload-begin", "upload-status"} THEN "begun" ELSE "ready"
    /\ client.direction = "download" => op \in DownloadOps

ServingInv ==
  serving # None =>
    /\ asked # None
    /\ serving \in Threads /\ thread[serving].at # "free"
    /\ ~Begin(asked.request.op) => thread[serving].transfer = asked.transfer

DeclaredInv == \A t \in Begun : records[t].direction = "download" => records[t].content = None

CommandInv == ShapeInv /\ UploadInv /\ AskedInv /\ ServingInv /\ DeclaredInv

-----------------------------------------------------------------------------
(* The requests *)

LEMMA PlainRequest ==
  /\ \A op : Plain(op).op = op
  /\ \A op \in {"upload-status", "upload-commit", "upload-abort", "download-chunk", "download-end"} :
       Plain(op) \in Requests
  BY DEF Plain, Requests

LEMMA ChunkRequest ==
  ASSUME NEW content \in Contents, NEW offset \in Nat, offset < Len(content)
  PROVE  /\ Chunk(offset, content[offset + 1]) \in Requests
         /\ Chunk(offset, content[offset + 1]).op = "upload-chunk"
<1>1. content \in Seq(Bytes)
  OBVIOUS
<1>2. offset + 1 \in DOMAIN content /\ (offset + 1) - 1 = offset
  BY <1>1
<1>3. Chunk(offset, content[offset + 1]) \in {Chunk(i - 1, content[i]) : i \in DOMAIN content}
  BY <1>2
<1>4. Chunk(offset, content[offset + 1]) \in Requests
  BY <1>3 DEF Requests
<1>5. QED
  BY <1>4 DEF Chunk

-----------------------------------------------------------------------------
(* The store takes part in every step as it would with any client *)

LEMMA AcceptsIsNext ==
  ASSUME NEW th \in Threads, NEW m, Sendable(m), client.path \in Paths, Accepts(th, m)
  PROVE  Next
<1>1. CASE m.request.op = "upload-begin"
  <2>1. \/ UploadBegin(th, m.key, client.path, m.content, FALSE)
        \/ Rebegin(th, m.key, "upload", client.path, m.content, FALSE)
    BY <1>1 DEF Accepts
  <2>2. thread[th] = Idle /\ closed = "open"
    BY <2>1 DEF UploadBegin, Rebegin, NewTransfer
  <2>3. m.key \in Keys /\ m.content \in Contents
    BY <1>1 DEF Sendable, Begin
  <2>4. Begins(Contents)
    BY <2>1, <2>2, <2>3 DEF Begins, Idling
  <2>5. QED
    BY <2>4 DEF Next
<1>2. CASE m.request.op = "download-begin"
  <2>1. \/ DownloadBegin(th, m.key, client.path)
        \/ Rebegin(th, m.key, "download", client.path, None, FALSE)
    BY <1>2 DEF Accepts
  <2>2. thread[th] = Idle /\ closed = "open"
    BY <2>1 DEF DownloadBegin, Rebegin, NewTransfer
  <2>3. m.key \in Keys
    BY <1>2 DEF Sendable, Begin
  <2>4. Begins(Contents)
    BY <2>1, <2>2, <2>3 DEF Begins, Idling
  <2>5. QED
    BY <2>4 DEF Next
<1>3. CASE ~Begin(m.request.op)
  <2>1. Request(th, m.request, m.transfer)
    BY <1>3 DEF Accepts, Begin
  <2>2. thread[th] = Idle /\ closed = "open" /\ m.transfer \in Listed
    BY <2>1 DEF Request
  <2>3. Asks(Requests)
    BY <1>3, <2>1, <2>2 DEF Asks, Idling, Sendable
  <2>4. QED
    BY <2>3 DEF Next
<1>4. QED
  BY <1>1, <1>2, <1>3 DEF Begin

(* A sweep that finds nothing changes nothing. *)
LEMMA NothingSwept ==
  ASSUME Inv, Swept = {}
  PROVE  AfterSweep = records /\ Unstaged(Swept) = temps
<1>1. records \in [Ids -> Records \cup {None}]
  BY DEF Inv, StoreInv
<1>2. Disposed(records, Swept) = [t \in Ids |-> records[t]]
  BY DEF Disposed
<1>3. Disposed(records, Swept) = records
  BY <1>1, <1>2
<1>4. AfterSweep = [t \in Ids |-> records[t]]
  BY <1>3 DEF AfterSweep, Delisted
<1>5. QED
  BY <1>1, <1>4 DEF Unstaged

LEMMA RejectsIsNext ==
  ASSUME Inv, NEW m, Rejects(m)
  PROVE  [Next]_vars
<1>1. CASE closed = "open" /\ SweepFails
  BY <1>1 DEF Next, Sweeps
<1>2. CASE closed # "open" /\ UNCHANGED vars
  BY <1>2
<1>3. CASE /\ closed = "open" /\ records' = AfterSweep /\ temps' = Unstaged(Swept)
           /\ UNCHANGED <<thread, files, linked, leaked, closed>>
  <2>1. CASE Swept = {}
    BY <1>3, <2>1, NothingSwept DEF vars, disk
  <2>2. CASE Swept # {}
    BY <1>3, <2>2 DEF Next, Sweeps, Refused
  <2>3. QED
    BY <2>1, <2>2
<1>4. QED
  BY <1>1, <1>2, <1>3 DEF Rejects

LEMMA StepIsNext ==
  ASSUME Inv, CommandInv, [TransferNext]_allVars
  PROVE  [Next]_vars
<1>1. CASE Others
  <2>1. /\ Begins(Offered) => Begins(Contents)
        /\ Asks(OthersRequests) => Asks(Requests)
        /\ OthersWrite(Offered) => OthersWrite(Contents)
    BY DEF Begins, Asks, OthersWrite, OthersRequests
  <2>2. QED
    BY <1>1, <2>1 DEF Others, Next
<1>2. CASE \/ UploadStarts \/ UploadResumes \/ SendsChunk \/ SendsCommit \/ FindsRewritten
           \/ DownloadStarts \/ AsksChunk \/ Publishes \/ GivesUp \/ SendsEnd
           \/ Lose \/ Rewrites
  BY <1>2 DEF UploadStarts, UploadResumes, SendsChunk, SendsCommit, FindsRewritten,
              DownloadStarts, AsksChunk, Publishes, GivesUp, SendsEnd, Lose, Rewrites, Starts, Ask
<1>3. CASE Refuse
  BY <1>3, RejectsIsNext DEF Refuse
<1>4. CASE ReceiveLate
  <2>1. late # None /\ Sendable(late) /\ client.path \in Paths
    BY <1>4 DEF ReceiveLate, CommandInv, ShapeInv
  <2>2. QED
    BY <1>4, <2>1, AcceptsIsNext, RejectsIsNext DEF ReceiveLate
<1>5. ASSUME NEW th \in Threads, Receive(th) PROVE [Next]_vars
  <2>1. asked # None /\ Sendable(asked) /\ client.path \in Paths
    BY <1>5 DEF Receive, CommandInv, ShapeInv
  <2>2. QED
    BY <1>5, <2>1, AcceptsIsNext DEF Receive
<1>6. ASSUME NEW th \in Threads, Serve(th) PROVE [Next]_vars
  BY <1>6 DEF Serve, Next
<1>7. CASE \/ Sweeps \/ TimePasses \/ CloseBegins \/ CloseEnds
           \/ OthersWrite(Sources)
  <2>1. OthersWrite(Sources) => OthersWrite(Contents)
    BY DEF OthersWrite
  <2>2. QED
    BY <1>7, <2>1 DEF Next
<1>8. CASE UNCHANGED allVars
  BY <1>8 DEF allVars
<1>9. QED
  BY <1>1, <1>2, <1>3, <1>4, <1>5, <1>6, <1>7, <1>8 DEF TransferNext

-----------------------------------------------------------------------------
(* What a step leaves of the client's invariant *)

(* The steps of one command leave its direction and its path alone. *)
Kept(c) ==
  /\ c = [f \in Fields |-> c[f]]
  /\ c.at # "absent" /\ c.path = client.path /\ c.direction = client.direction

(* What changing some of its fields makes of the client. *)
LEMMA EditAt ==
  ASSUME ShapeInv, client # Absent, NEW at, at # "absent", NEW c,
         c \in {Stage(at), Finish(at)}
  PROVE  Kept(c) /\ c.at = at
<1>1. client = [f \in Fields |-> client[f]] /\ client.at # "absent"
  BY DEF ShapeInv
<1>2. QED
  BY <1>1 DEF Kept, Fields, Stage, Finish

LEMMA EditTransfer ==
  ASSUME ShapeInv, client # Absent, NEW at, at # "absent", NEW transfer, NEW c,
         c = [[client EXCEPT !.transfer = transfer] EXCEPT !.at = at]
  PROVE  Kept(c) /\ c.at = at
<1>1. client = [f \in Fields |-> client[f]] /\ client.at # "absent"
  BY DEF ShapeInv
<1>2. QED
  BY <1>1 DEF Kept, Fields

LEMMA EditKnown ==
  ASSUME ShapeInv, client # Absent, NEW at, at # "absent", NEW transfer, NEW digest, NEW c,
         c = [[client EXCEPT !.transfer = transfer, !.digest = digest] EXCEPT !.at = at]
  PROVE  Kept(c) /\ c.at = at
<1>1. client = [f \in Fields |-> client[f]] /\ client.at # "absent"
  BY DEF ShapeInv
<1>2. QED
  BY <1>1 DEF Kept, Fields

LEMMA EditGot ==
  ASSUME ShapeInv, client # Absent, NEW offset, NEW got, NEW c,
         c = [client EXCEPT !.offset = offset, !.got = got]
  PROVE  Kept(c)
<1>1. client = [f \in Fields |-> client[f]] /\ client.at # "absent"
  BY DEF ShapeInv
<1>2. QED
  BY <1>1 DEF Kept, Fields

LEMMA DeclaredStays ==
  ASSUME DeclaredInv, OthersFollow
  PROVE  DeclaredInv'
<1>1. Begun' = BegunIn(records')
  BY DEF Begun, BegunIn
<1>2. \A t \in Begun : records'[t].direction = records[t].direction
                       /\ records'[t].content = records[t].content
  BY DEF OthersFollow, Follows, Manifest
<1>3. QED
  BY <1>1, <1>2 DEF DeclaredInv, OthersFollow

LEMMA MatchStays ==
  ASSUME OthersFollow, NEW t \in Begun, Matches(records[t])
  PROVE  t \in Begun' /\ records'[t].path = client.path /\ records'[t].content = client.digest
<1>1. t \in Begun'
  BY DEF OthersFollow, Begun
<1>2. records'[t].path = records[t].path /\ records'[t].content = records[t].content
  BY DEF OthersFollow, Follows, Manifest
<1>3. QED
  BY <1>1, <1>2 DEF Matches

(* The command has its answer, or never asked. *)
LEMMA Answered ==
  ASSUME CommandInv, DeclaredInv', client # Absent, Kept(client'),
         asked' = None, serving' = None, late' # None => Sendable(late'),
         client.direction = "upload" =>
           /\ mine' \in Sources /\ client'.at \notin {"published", "giving up"}
           /\ client'.at \in {"begun", "ready"} => client'.digest \in Sources
           /\ client'.at = "ready" => /\ client'.transfer \in Begun'
                                      /\ records'[client'.transfer].path = client'.path
                                      /\ records'[client'.transfer].content = client'.digest
                                      /\ client'.offset \in Nat
  PROVE  CommandInv'
<1>1. client'.at # Absent.at
  BY DEF Absent, Kept
<1>2. ShapeInv'
  BY <1>1 DEF CommandInv, ShapeInv, Kept
<1>3. UploadInv'
  BY DEF UploadInv, Kept, Matches
<1>4. AskedInv' /\ ServingInv'
  BY DEF AskedInv, ServingInv
<1>5. QED
  BY <1>2, <1>3, <1>4 DEF CommandInv

(* The command asks the store. *)
LEMMA Asked ==
  ASSUME CommandInv, UNCHANGED <<vars, serving, late>>, client # Absent, serving = None,
         Kept(client'), Sendable(asked'), asked'.transfer = client'.transfer, ~Resting',
         client.direction = "upload" =>
           /\ mine' \in Sources /\ client'.digest \in Sources
           /\ asked'.request.op \in UploadOps
           /\ client'.at = IF asked'.request.op \in {"upload-begin", "upload-status"}
                           THEN "begun" ELSE "ready"
           /\ client'.at = "ready" => UNCHANGED client /\ client.at = "ready",
         client.direction = "download" => asked'.request.op \in DownloadOps
  PROVE  CommandInv'
<1>1. client'.at # Absent.at
  BY DEF Absent, Kept
<1>2. ShapeInv'
  BY <1>1 DEF CommandInv, ShapeInv, Kept
<1>3. UNCHANGED <<records, Begun>>
  BY DEF vars, Begun
<1>4. UploadInv'
  BY <1>3 DEF CommandInv, UploadInv, Kept, Matches
<1>5. AskedInv'
  BY DEF AskedInv, Kept
<1>6. ServingInv' /\ DeclaredInv'
  BY <1>3 DEF ServingInv, CommandInv, DeclaredInv
<1>7. QED
  BY <1>2, <1>4, <1>5, <1>6 DEF CommandInv

(* The command does not take part in the step. *)
LEMMA Unasked ==
  ASSUME CommandInv, OthersFollow, UNCHANGED <<client, asked, serving>>,
         mine' \in {mine} \cup Sources,
         late' # None => Sendable(late'), late' # None => late # None,
         serving # None => /\ thread'[serving].at # "free"
                           /\ thread'[serving].transfer = thread[serving].transfer
  PROVE  CommandInv'
<1>1. DeclaredInv'
  BY DeclaredStays DEF CommandInv
<1>2. ShapeInv'
  BY DEF CommandInv, ShapeInv
<1>3. UploadInv'
  <2>1. ASSUME client.direction = "upload", client.at = "ready"
        PROVE  /\ client.transfer \in Begun' /\ Matches(records[client.transfer])'
               /\ client.offset \in Nat
    BY <2>1, MatchStays DEF CommandInv, UploadInv, Matches
  <2>2. QED
    BY <2>1 DEF CommandInv, UploadInv
<1>4. AskedInv'
  BY DEF CommandInv, AskedInv, Resting
<1>5. ServingInv'
  BY DEF CommandInv, ServingInv
<1>6. QED
  BY <1>1, <1>2, <1>3, <1>4, <1>5 DEF CommandInv

LEMMA NoReceiptKeeps ==
  ASSUME ShapeInv, client # Absent, asked # None, AskedInv, NoReceipt(asked.request.op)
  PROVE  /\ Kept(client')
         /\ client.direction = "upload" => client'.at = "failed"
<1>1. /\ Kept(Stage("giving up")) /\ Kept(Finish("succeeded"))
      /\ Kept(Finish("failed")) /\ Finish("failed").at = "failed"
  BY EditAt
<1>2. client' \in {Stage("giving up"), Finish("succeeded"), Finish("failed")}
  BY DEF NoReceipt
<1>3. client.direction = "upload" => client' = Finish("failed")
  BY DEF NoReceipt, AskedInv, UploadOps
<1>4. QED
  BY <1>1, <1>2, <1>3

-----------------------------------------------------------------------------
(* The command's own steps *)

LEMMA NoneServed ==
  ASSUME CommandInv, asked = None \/ Resting
  PROVE  asked = None /\ serving = None
  BY DEF CommandInv, AskedInv, ServingInv

LEMMA Present ==
  ASSUME client.at # "absent"
  PROVE  client # Absent
  BY DEF Absent

LEMMA StartsStep ==
  ASSUME CommandInv, UploadStarts \/ UploadResumes \/ DownloadStarts
  PROVE  CommandInv'
<1>1. PICK op \in {"upload-begin", "upload-status", "download-begin"},
           key \in Keys \cup {None} :
        /\ Starts(op, key)
        /\ op = "upload-status" \/ key \in Keys
        /\ client.direction = IF op = "download-begin" THEN "download" ELSE "upload"
  BY DEF UploadStarts, UploadResumes, DownloadStarts
<1>2. Resting /\ client # Absent /\ serving = None
  BY <1>1, NoneServed, Present DEF Starts, Resting
<1>3. PICK digest : digest = IF client.direction = "upload" THEN mine ELSE None
  OBVIOUS
<1>4. client' = [Stage("begun") EXCEPT !.digest = digest]
  BY <1>1, <1>3 DEF Starts
<1>5. /\ Kept(client') /\ client'.at = "begun"
      /\ client'.transfer = client.transfer /\ client'.digest = digest
  <2>1. ShapeInv /\ client # Absent
    BY <1>2 DEF CommandInv
  <2>2. client = [f \in Fields |-> client[f]] /\ client.at # "absent"
    BY <2>1 DEF ShapeInv
  <2>3. QED
    BY <1>4, <2>2 DEF Kept, Fields, Stage
<1>6. /\ asked' = [request |-> Plain(op), key |-> key,
                   transfer |-> client'.transfer, content |-> client'.digest]
      /\ UNCHANGED <<vars, serving, late, mine>>
  BY <1>1 DEF Starts, Ask
<1>7. /\ asked'.request = Plain(op) /\ asked'.key = key
      /\ asked'.transfer = client'.transfer /\ asked'.content = digest
      /\ asked'.request.op = op
  BY <1>5, <1>6, PlainRequest
<1>8. client.direction = "upload" => digest \in Sources /\ mine' \in Sources
  BY <1>3, <1>6 DEF CommandInv, UploadInv
<1>9. Sendable(asked')
  BY <1>1, <1>7, <1>8, PlainRequest DEF Sendable, Begin, UploadOps, DownloadOps
<1>10. ~Resting'
  BY <1>5 DEF Resting
<1>11. QED
  BY <1>1, <1>2, <1>5, <1>6, <1>7, <1>8, <1>9, <1>10, Asked DEF UploadOps, DownloadOps

LEMMA SendsStep ==
  ASSUME CommandInv, SendsChunk \/ SendsCommit \/ AsksChunk \/ SendsEnd
  PROVE  CommandInv'
<1>1. /\ client.at \in {"ready", "published", "giving up"} /\ asked = None /\ UNCHANGED client
      /\ UNCHANGED <<vars, serving, late>>
  BY DEF SendsChunk, SendsCommit, AsksChunk, SendsEnd, Goes, Ask
<1>2. client # Absent /\ serving = None /\ ~Resting
  BY <1>1, NoneServed, Present DEF Resting
<1>3. Kept(client')
  BY <1>1, <1>2 DEF CommandInv, ShapeInv, Kept
<1>4. PICK request : /\ asked' = [request |-> request, key |-> None,
                                  transfer |-> client'.transfer, content |-> client'.digest]
                     /\ \/ SendsChunk /\ request = Chunk(client.offset, mine'[client.offset + 1])
                        \/ SendsCommit /\ request = Plain("upload-commit")
                        \/ AsksChunk /\ request = Plain("download-chunk")
                        \/ SendsEnd /\ request = Plain("download-end")
  BY DEF SendsChunk, SendsCommit, AsksChunk, SendsEnd, Ask
<1>5. client.direction = "upload" =>
        /\ mine' \in Sources /\ client.digest \in Sources /\ client.at = "ready"
        /\ SendsChunk \/ SendsCommit
  <2>1. ~SendsEnd \/ client.direction # "upload"
    BY DEF SendsEnd, CommandInv, UploadInv
  <2>2. SendsChunk \/ SendsCommit => UNCHANGED mine \/ mine' \in Sources
    BY DEF SendsChunk, SendsCommit, Rewritten
  <2>3. AsksChunk => client.direction # "upload"
    BY DEF AsksChunk
  <2>4. SendsChunk \/ SendsCommit => client.at = "ready"
    BY DEF SendsChunk, SendsCommit, Goes
  <2>5. QED
    BY <2>1, <2>2, <2>3, <2>4 DEF CommandInv, UploadInv
<1>6. /\ Sendable(asked')
      /\ (client.direction = "upload" => asked'.request.op \in {"upload-chunk", "upload-commit"})
      /\ (client.direction = "download" => asked'.request.op \in DownloadOps)
  <2>1. asked'.request = request
    BY <1>4
  <2>2. CASE SendsChunk /\ request = Chunk(client.offset, mine'[client.offset + 1])
    <3>1. client.direction = "upload" /\ client.offset < Len(mine') /\ client.at = "ready"
      BY <2>2 DEF SendsChunk, Goes
    <3>2. mine' \in Contents /\ client.offset \in Nat
      BY <1>5, <3>1 DEF CommandInv, UploadInv
    <3>3. request \in Requests /\ request.op = "upload-chunk"
      BY <2>2, <3>1, <3>2, ChunkRequest
    <3>4. QED
      BY <2>1, <3>1, <3>3 DEF Sendable, Begin, UploadOps
  <2>3. ASSUME request \in {Plain("upload-commit"), Plain("download-chunk"), Plain("download-end")}
        PROVE  /\ request \in Requests
               /\ request.op \in {"upload-commit", "download-chunk", "download-end"}
    BY <2>3, PlainRequest
  <2>4. CASE SendsCommit /\ request = Plain("upload-commit")
    <3>1. client.direction = "upload" /\ request.op = "upload-commit"
      BY <2>4, PlainRequest DEF SendsCommit
    <3>2. QED
      BY <2>1, <2>3, <2>4, <3>1 DEF Sendable, Begin, UploadOps
  <2>5. CASE (AsksChunk \/ SendsEnd) /\ request \in {Plain("download-chunk"), Plain("download-end")}
    <3>1. client.direction # "upload" /\ request.op \in DownloadOps
      BY <1>5, <2>5, PlainRequest DEF DownloadOps, AsksChunk, SendsEnd, CommandInv, UploadInv
    <3>2. QED
      BY <2>1, <2>3, <2>5, <3>1 DEF Sendable, Begin, DownloadOps
  <2>6. QED
    BY <1>4, <2>2, <2>4, <2>5
<1>7. asked'.transfer = client'.transfer /\ ~Resting'
  BY <1>1, <1>2, <1>4 DEF Resting
<1>8. QED
  BY <1>1, <1>2, <1>3, <1>5, <1>6, <1>7, Asked DEF UploadOps

(* The steps that leave the store and the requests alone. *)
LEMMA AloneStep ==
  ASSUME CommandInv, OthersFollow, FindsRewritten \/ Publishes \/ GivesUp \/ Lose \/ Rewrites
  PROVE  CommandInv'
<1>1. DeclaredInv'
  BY DeclaredStays DEF CommandInv
<1>2. CASE FindsRewritten
  <2>1. /\ client # Absent /\ asked = None /\ serving = None /\ client' = Finish("failed")
        /\ UNCHANGED <<asked, serving, late, mine>>
    BY <1>2, NoneServed, Present DEF FindsRewritten, Goes
  <2>2. Kept(client') /\ client'.at = "failed"
    BY <2>1, EditAt DEF CommandInv
  <2>3. QED
    BY <1>1, <2>1, <2>2, Answered DEF CommandInv, ShapeInv, UploadInv
<1>3. CASE Publishes \/ GivesUp
  <2>1. PICK at \in {"published", "giving up"} : client' = Stage(at)
    BY <1>3 DEF Publishes, GivesUp
  <2>2. /\ client # Absent /\ asked = None /\ serving = None /\ client.direction = "download"
        /\ UNCHANGED <<asked, serving, late>>
    BY <1>3, NoneServed, Present DEF Publishes, GivesUp, Goes
  <2>3. Kept(client')
    BY <2>1, <2>2, EditAt DEF CommandInv
  <2>4. QED
    BY <1>1, <2>2, <2>3, Answered DEF CommandInv, ShapeInv
<1>4. CASE Lose
  <2>1. /\ asked # None /\ NoReceipt(asked.request.op) /\ asked' = None /\ serving' = None
        /\ late' \in {late, asked} /\ UNCHANGED mine
    BY <1>4 DEF Lose
  <2>2. client # Absent
    BY <2>1 DEF CommandInv, ShapeInv
  <2>3. Kept(client') /\ (client.direction = "upload" => client'.at = "failed")
    BY <2>1, <2>2, NoReceiptKeeps DEF CommandInv
  <2>4. QED
    BY <1>1, <2>1, <2>2, <2>3, Answered DEF CommandInv, ShapeInv, UploadInv
<1>5. CASE Rewrites
  <2>1. /\ UNCHANGED <<client, asked, serving, late, thread>> /\ mine' \in Sources
    BY <1>5 DEF Rewrites, Rewritten, vars
  <2>2. QED
    BY <2>1, Unasked DEF CommandInv, ShapeInv, ServingInv
<1>6. QED
  BY <1>2, <1>3, <1>4, <1>5

-----------------------------------------------------------------------------
(* Replies *)

LEMMA DownloadReceiptKeeps ==
  ASSUME ShapeInv, client # Absent, NEW op, NEW t, op \in DownloadOps, DownloadReceipt(op, t)
  PROVE  Kept(client')
<1>1. CASE op = "download-begin"
  <2>1. PICK digest : digest = Hashed(t)
    OBVIOUS
  <2>2. PICK known : known = [client EXCEPT !.transfer = t, !.digest = digest]
    OBVIOUS
  <2>3. PICK at \in {"failed", "ready", "giving up"} : client' = [known EXCEPT !.at = at]
    BY <1>1, <2>1, <2>2 DEF DownloadReceipt
  <2>4. QED
    BY <2>2, <2>3, EditKnown
<1>2. CASE op = "download-chunk"
  <2>1. PICK offset, got : client' = [client EXCEPT !.offset = offset, !.got = got]
    BY <1>2 DEF DownloadReceipt
  <2>2. QED
    BY <2>1, EditGot
<1>3. CASE op = "download-end"
  <2>1. PICK how \in {"succeeded", "failed"} : client' = Finish(how)
    BY <1>3 DEF DownloadReceipt
  <2>2. QED
    BY <2>1, EditAt
<1>4. QED
  BY <1>1, <1>2, <1>3 DEF DownloadOps

(* What a receipt makes of an upload: it goes on only with a transfer that *)
(* has its path and its source's hash.                                     *)
LEMMA UploadReceiptKeeps ==
  ASSUME CommandInv, Inv', OthersFollow, client # Absent, client.direction = "upload",
         asked # None, NEW t \in BegunIn(records'), UploadReceipt(asked.request.op, t)
  PROVE  /\ Kept(client') /\ client'.at \in {"ready", "succeeded", "failed"}
         /\ client'.at = "ready" =>
              /\ client'.digest = client.digest
              /\ client'.transfer \in Begun'
              /\ records'[client'.transfer].path = client.path
              /\ records'[client'.transfer].content = client.digest
              /\ client'.offset \in Nat
<1>1. records'[t].stored \in Seq(Bytes) /\ Begun' = BegunIn(records')
  BY DEF Inv, StoreInv, BegunIn, Records, Begun
<1>2. \A how \in {"succeeded", "failed"} : Kept(Finish(how)) /\ Finish(how).at = how
  BY EditAt DEF CommandInv
<1>3. CASE asked.request.op = "upload-chunk"
  <2>1. CASE client' = Finish("failed")
    BY <1>2, <2>1
  <2>2. CASE client' = [Stage("ready") EXCEPT !.offset = @ + 1]
    <3>1. client.at = "ready"
      BY <1>3 DEF CommandInv, AskedInv
    <3>2. /\ client.transfer \in Begun /\ Matches(records[client.transfer])
          /\ client.offset + 1 \in Nat
      BY <3>1 DEF CommandInv, UploadInv
    <3>3. client' = [Stage("ready") EXCEPT !.offset = client.offset + 1]
      BY <2>2 DEF CommandInv, ShapeInv, Stage, Fields
    <3>4. /\ Kept(client') /\ client'.at = "ready" /\ client'.offset = client.offset + 1
          /\ client'.transfer = client.transfer /\ client'.digest = client.digest
      <4>1. ShapeInv /\ client # Absent
        BY <1>3 DEF CommandInv
      <4>2. client = [f \in Fields |-> client[f]] /\ client.at # "absent"
        BY <4>1 DEF ShapeInv
      <4>3. QED
        BY <3>3, <4>2 DEF Kept, Fields, Stage
    <3>5. QED
      BY <3>2, <3>4, MatchStays
  <2>3. QED
    BY <1>3, <2>1, <2>2 DEF UploadReceipt
<1>4. CASE asked.request.op = "upload-commit"
  BY <1>2, <1>4 DEF UploadReceipt
<1>5. CASE asked.request.op \notin {"upload-chunk", "upload-commit"}
  <2>1. PICK known : known = [client EXCEPT !.transfer = t]
    OBVIOUS
  <2>2. CASE \E at \in {"failed", "succeeded"} : client' = [known EXCEPT !.at = at]
    BY <2>1, <2>2, EditTransfer DEF CommandInv
  <2>3. CASE /\ Matches(records'[t])
             /\ client' = [known EXCEPT !.at = "ready", !.offset = Len(records'[t].stored)]
    <3>1. PICK offset \in Nat : offset = Len(records'[t].stored)
      BY <1>1
    <3>2. client' = [known EXCEPT !.at = "ready", !.offset = offset]
      BY <2>3, <3>1
    <3>3. /\ Kept(client') /\ client'.at = "ready" /\ client'.offset = offset
          /\ client'.transfer = t /\ client'.digest = client.digest
      <4>1. ShapeInv /\ client # Absent
        BY <1>1 DEF CommandInv
      <4>2. client = [f \in Fields |-> client[f]] /\ client.at # "absent"
        BY <4>1 DEF ShapeInv
      <4>3. QED
        BY <2>1, <3>2, <4>2 DEF Kept, Fields, Stage
    <3>4. QED
      BY <1>1, <2>3, <3>3 DEF Matches
  <2>4. QED
    BY <1>5, <2>1, <2>2, <2>3 DEF UploadReceipt
<1>6. QED
  BY <1>3, <1>4, <1>5

LEMMA ReplyStep ==
  ASSUME CommandInv, Inv', OthersFollow, client # Absent, asked # None,
         NEW t \in BegunIn(records'), NEW refused, Reply(t, refused), UNCHANGED <<late, mine>>
  PROVE  CommandInv'
<1>1. DeclaredInv' /\ asked' = None /\ serving' = None
  BY DeclaredStays DEF CommandInv, Reply
<1>2. CASE NoReceipt(asked.request.op)
  <2>1. Kept(client') /\ (client.direction = "upload" => client'.at = "failed")
    BY <1>2, NoReceiptKeeps DEF CommandInv
  <2>2. QED
    BY <1>1, <2>1, Answered DEF CommandInv, ShapeInv, UploadInv
<1>3. CASE client.direction = "upload" /\ UploadReceipt(asked.request.op, t)
  <2>1. /\ Kept(client') /\ client'.at \in {"ready", "succeeded", "failed"}
        /\ client'.at = "ready" =>
             /\ client'.digest = client.digest
             /\ client'.transfer \in Begun'
             /\ records'[client'.transfer].path = client.path
             /\ records'[client'.transfer].content = client.digest
             /\ client'.offset \in Nat
    BY <1>3, UploadReceiptKeeps
  <2>2. client.digest \in Sources /\ mine' \in Sources
    <3>1. client.at \in {"begun", "ready"}
      BY <1>3 DEF CommandInv, AskedInv
    <3>2. QED
      BY <1>3, <3>1 DEF CommandInv, UploadInv
  <2>3. QED
    BY <1>1, <2>1, <2>2, Answered DEF CommandInv, ShapeInv, Kept
<1>4. CASE client.direction = "download" /\ DownloadReceipt(asked.request.op, t)
  <2>1. Kept(client')
    BY <1>4, DownloadReceiptKeeps DEF CommandInv, AskedInv
  <2>2. QED
    BY <1>1, <1>4, <2>1, Answered DEF CommandInv, ShapeInv
<1>5. QED
  BY <1>2, <1>3, <1>4 DEF Reply, CommandInv, ShapeInv

-----------------------------------------------------------------------------
(* The handler threads *)

LEMMA PerformThread ==
  ASSUME Inv, NEW th \in Threads, NEW request, NEW t, NEW recs, NEW staged,
         Perform(th, request, t, recs, staged)
  PROVE  /\ \A u \in Threads \ {th} : thread'[u] = thread[u]
         /\ thread'[th] = Idle \/ (thread'[th].at # "free" /\ thread'[th].transfer = t)
<1>1. PICK x : x = [Idle EXCEPT !.at = "hashing", !.transfer = t]
  OBVIOUS
<1>2. x.at # "free" /\ x.transfer = t
  BY <1>1 DEF Idle
<1>3. Free(th) \/ thread' = [thread EXCEPT ![th] = x]
  BY <1>1 DEF Perform, UploadChunk, DownloadChunk, End, CommitStarts, Inspect
<1>4. thread \in [Threads -> ThreadStates]
  BY DEF Inv, ThreadInv
<1>5. QED
  BY <1>2, <1>3, <1>4 DEF Free

LEMMA AcceptsThread ==
  ASSUME Inv, NEW th \in Threads, NEW m, Accepts(th, m)
  PROVE  /\ thread[th] = Idle
         /\ \A u \in Threads \ {th} : thread'[u] = thread[u]
         /\ thread'[th] # Idle => thread'[th].at # "free"
         /\ thread'[th] # Idle /\ ~Begin(m.request.op) => thread'[th].transfer = m.transfer
<1>1. thread \in [Threads -> ThreadStates]
  BY DEF Inv, ThreadInv
<1>2. ASSUME NEW t, NEW at \in {"begun", "hashing"}, thread[th] = Idle,
             \/ UNCHANGED thread
             \/ thread' = [thread EXCEPT ![th] = [Idle EXCEPT !.at = at, !.transfer = t]]
      PROVE  /\ \A u \in Threads \ {th} : thread'[u] = thread[u]
             /\ thread'[th] # Idle => thread'[th].at # "free"
  BY <1>1, <1>2 DEF Idle
<1>3. CASE Begin(m.request.op)
  <2>1. PICK direction, content :
          \/ UploadBegin(th, m.key, client.path, content, FALSE)
          \/ DownloadBegin(th, m.key, client.path)
          \/ Rebegin(th, m.key, direction, client.path, content, FALSE)
    BY <1>3 DEF Accepts, Begin
  <2>2. thread[th] = Idle
    BY <2>1 DEF UploadBegin, DownloadBegin, Rebegin
  <2>3. \E t \in Ids : \E at \in {"begun", "hashing"} :
          \/ UNCHANGED thread
          \/ thread' = [thread EXCEPT ![th] = [Idle EXCEPT !.at = at, !.transfer = t]]
    <3>1. CASE UploadBegin(th, m.key, client.path, content, FALSE)
      BY <3>1 DEF UploadBegin
    <3>2. CASE DownloadBegin(th, m.key, client.path)
      BY <3>2 DEF DownloadBegin
    <3>3. CASE Rebegin(th, m.key, direction, client.path, content, FALSE)
      BY <3>3 DEF Rebegin, Listed, Begun
    <3>4. QED
      BY <2>1, <3>1, <3>2, <3>3
  <2>4. QED
    BY <1>2, <1>3, <2>2, <2>3
<1>4. CASE ~Begin(m.request.op)
  <2>1. Request(th, m.request, m.transfer)
    BY <1>4 DEF Accepts, Begin
  <2>2. thread[th] = Idle
    BY <2>1 DEF Request
  <2>3. CASE records[m.transfer].hashing
    <3>1. PICK x : x = [at |-> "waiting", transfer |-> m.transfer, request |-> m.request]
      OBVIOUS
    <3>2. x.at # "free" /\ x.transfer = m.transfer /\ thread' = [thread EXCEPT ![th] = x]
      BY <2>1, <2>3, <3>1 DEF Request
    <3>3. QED
      BY <1>1, <2>2, <3>2
  <2>4. CASE ~records[m.transfer].hashing
    <3>1. PICK recs, staged : Perform(th, m.request, m.transfer, recs, staged)
      BY <2>1, <2>4 DEF Request
    <3>2. QED
      BY <2>2, <3>1, PerformThread
  <2>5. QED
    BY <2>3, <2>4
<1>5. QED
  BY <1>3, <1>4

LEMMA ContinuesThread ==
  ASSUME Inv, NEW th \in Threads, Continues(th)
  PROVE  /\ thread[th].at # "free"
         /\ \A u \in Threads \ {th} : thread'[u] = thread[u]
         /\ thread'[th] # Idle => thread'[th].at # "free"
                                  /\ thread'[th].transfer = thread[th].transfer
<1>1. thread \in [Threads -> ThreadStates]
  BY DEF Inv, ThreadInv
<1>2. CASE Free(th)
  BY <1>1, <1>2 DEF Free, Continues, RebeginEnds, DownloadHashed, Resume, CommitHashed
<1>3. CASE Resume(th) /\ ~Free(th)
  <2>1. Perform(th, thread[th].request, thread[th].transfer,
                Used(records, thread[th].transfer), temps)
    BY <1>3 DEF Resume
  <2>2. thread[th].at = "waiting"
    BY <1>3 DEF Resume
  <2>3. QED
    BY <2>1, <2>2, PerformThread
<1>4. QED
  BY <1>2, <1>3 DEF Continues, RebeginEnds, DownloadHashed, CommitHashed

(* The transfer a begin is answered with exists. *)
LEMMA BegunTransfer ==
  ASSUME Inv, Inv', NEW th \in Threads, NEW m, Sendable(m), client.path \in Paths,
         Accepts(th, m), Begin(m.request.op)
  PROVE  TransferOf(m) \in BegunIn(records')
<1>1. \E t \in Ids : records'[t] # None /\ records'[t].key = m.key /\ records'[t].listed
  <2>1. ASSUME NEW direction \in {"upload", "download"}, NEW content \in Contents \cup {None},
               NEW t \in Ids,
               records' = Put(AfterSweep, t, NewRecord(direction, m.key, client.path, content, FALSE))
        PROVE  records'[t] # None /\ records'[t].key = m.key /\ records'[t].listed
    <3>1. PICK r : r = NewRecord(direction, m.key, client.path, content, FALSE)
      OBVIOUS
    <3>2. r = records'[t]
      BY <2>1, <3>1 DEF Put
    <3>3. m.key \in Keys
      BY DEF Sendable
    <3>4. r \in Records /\ r.listed
      BY <3>1, <3>3, NewRecordType
    <3>5. r.key = m.key
      BY <3>1 DEF NewRecord
    <3>6. QED
      BY <3>2, <3>4, <3>5
  <2>2. ASSUME NEW direction, NEW content,
               Rebegin(th, m.key, direction, client.path, content, FALSE)
        PROVE  \E t \in Ids : records'[t] # None /\ records'[t].key = m.key /\ records'[t].listed
    <3>1. PICK t \in Listed \ Swept :
            /\ records[t].key = m.key
            /\ records' \in {AfterSweep, Used(AfterSweep, t)}
      BY <2>2 DEF Rebegin
    <3>2. t \in Ids /\ records[t] \in Records /\ records[t].listed
      BY <3>1 DEF Listed, Begun, Inv, StoreInv
    <3>3. AfterSweep[t] = records[t]
      BY <3>1, <3>2 DEF AfterSweep, Delisted, Disposed
    <3>4. PICK r : r = [records[t] EXCEPT !.stale = FALSE]
      OBVIOUS
    <3>5. r \in Records /\ r.key = records[t].key /\ r.listed = records[t].listed
      BY <3>2, <3>4 DEF Records
    <3>6. records'[t] \in {records[t], r}
      BY <3>1, <3>2, <3>3, <3>4 DEF Used, Put
    <3>7. QED
      BY <3>1, <3>2, <3>5, <3>6
  <2>3. \/ \E content \in Contents : UploadBegin(th, m.key, client.path, content, FALSE)
        \/ DownloadBegin(th, m.key, client.path)
        \/ \E direction, content : Rebegin(th, m.key, direction, client.path, content, FALSE)
    BY DEF Accepts, Begin, Sendable
  <2>4. CASE \E content \in Contents : UploadBegin(th, m.key, client.path, content, FALSE)
    BY <2>1, <2>4 DEF UploadBegin
  <2>5. CASE DownloadBegin(th, m.key, client.path)
    BY <2>1, <2>5 DEF DownloadBegin
  <2>6. QED
    BY <2>2, <2>3, <2>4, <2>5
<1>2. TransferOf(m) = CHOOSE t \in Ids : /\ records'[t] # None /\ records'[t].key = m.key
                                         /\ records'[t].listed
  BY DEF TransferOf
<1>3. QED
  BY <1>1, <1>2 DEF BegunIn

LEMMA AcceptedTransfer ==
  ASSUME Inv, Inv', OthersFollow, NEW th \in Threads, NEW m, Sendable(m), client.path \in Paths,
         Accepts(th, m)
  PROVE  TransferOf(m) \in BegunIn(records')
<1>1. CASE Begin(m.request.op)
  BY <1>1, BegunTransfer
<1>2. CASE ~Begin(m.request.op)
  <2>1. Request(th, m.request, m.transfer)
    BY <1>2 DEF Accepts, Begin
  <2>2. m.transfer \in Begun
    BY <2>1 DEF Request, Listed
  <2>3. QED
    BY <1>2, <2>2 DEF TransferOf, OthersFollow, Begun, BegunIn
<1>3. QED
  BY <1>1, <1>2

-----------------------------------------------------------------------------
(* Steps of both *)

LEMMA RefuseStep ==
  ASSUME CommandInv, OthersFollow, Refuse
  PROVE  CommandInv'
<1>1. /\ asked # None /\ serving = None /\ NoReceipt(asked.request.op) /\ asked' = None
      /\ UNCHANGED <<serving, late, mine>>
  BY DEF Refuse
<1>2. client # Absent
  BY <1>1 DEF CommandInv, ShapeInv
<1>3. Kept(client') /\ (client.direction = "upload" => client'.at = "failed")
  BY <1>1, <1>2, NoReceiptKeeps DEF CommandInv
<1>4. DeclaredInv'
  BY DeclaredStays DEF CommandInv
<1>5. QED
  BY <1>1, <1>2, <1>3, <1>4, Answered DEF CommandInv, ShapeInv, UploadInv

LEMMA ReceiveStep ==
  ASSUME Inv, CommandInv, Inv', OthersFollow, NEW th \in Threads, Receive(th)
  PROVE  CommandInv'
<1>1. /\ asked # None /\ serving = None /\ Accepts(th, asked) /\ UNCHANGED <<late, mine>>
  BY DEF Receive
<1>2. client # Absent /\ client.path \in Paths /\ Sendable(asked)
  BY <1>1 DEF CommandInv, ShapeInv
<1>3. CASE thread'[th] = Idle
  <2>1. Reply(TransferOf(asked), FALSE)
    BY <1>3 DEF Receive
  <2>2. QED
    BY <1>1, <1>2, <2>1, AcceptedTransfer, ReplyStep
<1>4. CASE thread'[th] # Idle
  <2>1. serving' = th /\ UNCHANGED <<client, asked, late, mine>>
    BY <1>1, <1>4 DEF Receive
  <2>2. DeclaredInv'
    BY DeclaredStays DEF CommandInv
  <2>3. ShapeInv'
    BY <1>2, <2>1 DEF CommandInv, ShapeInv
  <2>4. UploadInv'
    <3>1. client.direction = "upload" /\ client.at = "ready" =>
            client.transfer \in Begun' /\ Matches(records[client.transfer])'
      BY <2>1, MatchStays DEF CommandInv, UploadInv, Matches
    <3>2. QED
      BY <2>1, <3>1 DEF CommandInv, UploadInv
  <2>5. AskedInv'
    BY <2>1 DEF CommandInv, AskedInv, Resting
  <2>6. ServingInv'
    BY <1>1, <1>4, <2>1, AcceptsThread DEF ServingInv
  <2>7. QED
    BY <2>2, <2>3, <2>4, <2>5, <2>6 DEF CommandInv
<1>5. QED
  BY <1>3, <1>4

LEMMA ServeStep ==
  ASSUME Inv, CommandInv, Inv', OthersFollow, NEW th \in Threads, Serve(th)
  PROVE  CommandInv'
<1>1. Continues(th) /\ UNCHANGED <<late, mine>>
  BY DEF Serve
<1>2. CASE th = serving /\ thread'[th] = Idle
  <2>1. PICK refused : Reply(thread[th].transfer, refused)
    BY <1>2 DEF Serve
  <2>2. th # None /\ asked # None
    BY <1>2 DEF CommandInv, ServingInv
  <2>3. client # Absent
    BY <2>2 DEF CommandInv, ShapeInv
  <2>4. thread[th].transfer \in BegunIn(records')
    BY <1>1, ContinuesThread, WaiterBegun DEF OthersFollow, Begun, BegunIn
  <2>5. QED
    BY <1>1, <2>1, <2>2, <2>3, <2>4, ReplyStep
<1>3. CASE ~(th = serving /\ thread'[th] = Idle)
  <2>1. UNCHANGED <<client, asked, serving>>
    BY <1>3 DEF Serve
  <2>2. late' # None => Sendable(late')
    BY <1>1 DEF CommandInv, ShapeInv
  <2>3. serving # None => /\ thread'[serving].at # "free"
                          /\ thread'[serving].transfer = thread[serving].transfer
    BY <1>1, <1>3, ContinuesThread DEF CommandInv, ServingInv
  <2>4. QED
    BY <1>1, <2>1, <2>2, <2>3, Unasked
<1>4. QED
  BY <1>2, <1>3

LEMMA ReceiveLateStep ==
  ASSUME Inv, CommandInv, OthersFollow, ReceiveLate
  PROVE  CommandInv'
<1>1. late' = None /\ UNCHANGED <<client, asked, serving, mine>>
  BY DEF ReceiveLate
<1>2. ASSUME serving # None
      PROVE  thread'[serving] = thread[serving]
  <2>1. serving \in Threads /\ thread[serving].at # "free"
    BY <1>2 DEF CommandInv, ServingInv
  <2>2. CASE Rejects(late)
    BY <2>2 DEF Rejects, SweepFails, vars
  <2>3. ASSUME NEW th \in Threads, Accepts(th, late)
        PROVE  thread'[serving] = thread[serving]
    BY <2>1, <2>3, AcceptsThread, IdleState
  <2>4. QED
    BY <2>2, <2>3 DEF ReceiveLate
<1>3. QED
  BY <1>1, <1>2, Unasked DEF CommandInv, ServingInv

LEMMA StoreStep ==
  ASSUME CommandInv, OthersFollow, UNCHANGED transferVars,
         Others \/ UNCHANGED thread
  PROVE  CommandInv'
<1>1. UNCHANGED <<client, asked, serving, late, mine>>
  BY DEF transferVars
<1>2. serving # None => UNCHANGED thread
  BY DEF Others, CommandInv, ShapeInv
<1>3. QED
  BY <1>1, <1>2, Unasked DEF CommandInv, ShapeInv, ServingInv

LEMMA CommandStep ==
  ASSUME Inv, CommandInv, Inv', OthersFollow, [TransferNext]_allVars
  PROVE  CommandInv'
<1>1. CASE Others
  BY <1>1, StoreStep DEF Others
<1>2. CASE UploadStarts \/ UploadResumes \/ DownloadStarts
  BY <1>2, StartsStep
<1>3. CASE SendsChunk \/ SendsCommit \/ AsksChunk \/ SendsEnd
  BY <1>3, SendsStep
<1>4. CASE FindsRewritten \/ Publishes \/ GivesUp \/ Lose \/ Rewrites
  BY <1>4, AloneStep
<1>5. CASE Refuse
  BY <1>5, RefuseStep
<1>6. CASE ReceiveLate
  BY <1>6, ReceiveLateStep
<1>7. CASE \E th \in Threads : Receive(th) \/ Serve(th)
  BY <1>7, ReceiveStep, ServeStep
<1>8. CASE /\ Sweeps \/ TimePasses \/ CloseBegins \/ CloseEnds \/ OthersWrite(Sources)
           /\ UNCHANGED transferVars
  <2>1. UNCHANGED thread
    BY <1>8 DEF Sweeps, Refused, SweepFails, TimePasses, GoesIdle, CloseBegins, CloseEnds,
                OthersWrite, OtherProgram
  <2>2. QED
    BY <1>8, <2>1, StoreStep
<1>9. CASE UNCHANGED allVars
  BY <1>9, StoreStep DEF allVars, vars
<1>10. QED
  BY <1>1, <1>2, <1>3, <1>4, <1>5, <1>6, <1>7, <1>8, <1>9 DEF TransferNext

LEMMA InitCommand == TransferInit => CommandInv
<1> SUFFICES ASSUME TransferInit PROVE CommandInv
  OBVIOUS
<1>1. /\ Absent = [f \in Fields |-> Absent[f]] /\ Absent.at = "absent" /\ Absent.direction = None
  BY DEF Absent, Fields
<1>2. asked = None /\ serving = None /\ late = None /\ Init
  BY DEF TransferInit
<1>3. CASE client = Absent
  BY <1>1, <1>2, <1>3 DEF CommandInv, ShapeInv, UploadInv, AskedInv, ServingInv, DeclaredInv,
                          Init, Begun
<1>4. CASE client # Absent
  <2>1. PICK path \in Paths, direction \in {"upload", "download"} :
          client = [Absent EXCEPT !.at = "new", !.direction = direction, !.path = path]
    BY <1>4 DEF TransferInit
  <2>2. /\ client = [f \in Fields |-> client[f]] /\ client.at = "new"
        /\ client.direction = direction /\ client.path = path
    BY <1>1, <2>1 DEF Fields
  <2>3. direction = "upload" => mine \in Sources
    BY <1>4, <2>2 DEF TransferInit
  <2>4. QED
    BY <1>2, <2>2, <2>3 DEF CommandInv, ShapeInv, UploadInv, AskedInv, ServingInv, DeclaredInv,
                            Init, Begun
<1>5. QED
  BY <1>3, <1>4

LEMMA TransferInvariance == TransferSpec => [](Inv /\ CommandInv)
<1>1. TransferInit => Inv /\ CommandInv
  BY InitInv, InitCommand DEF TransferInit
<1>2. Inv /\ CommandInv /\ [TransferNext]_allVars => (Inv /\ CommandInv)'
  BY StepIsNext, InvStep, CommandStep
<1>3. QED
  BY <1>1, <1>2, PTL DEF TransferSpec

-----------------------------------------------------------------------------
(* Whatever the client of file_transfer.py sends, resends, loses or leaves *)
(* to be read late, WorkspaceStore sees no more than requests some client  *)
(* may send at any time: the composition implements the store, and every   *)
(* theorem of Workspace holds of it.                                       *)
THEOREM ClientsImplementStore == TransferSpec => Spec
<1>1. TransferInit => Init
  BY DEF TransferInit
<1>2. Inv /\ CommandInv /\ [TransferNext]_allVars => [Next]_vars
  BY StepIsNext
<1>3. QED
  BY <1>1, <1>2, TransferInvariance, PTL DEF TransferSpec, Spec

(* What a receipt that ends an upload shows. *)
LEMMA ReceiptIsTrue ==
  ASSUME Inv, CommandInv, Inv', OthersFollow, client.direction = "upload", asked # None,
         NEW t \in BegunIn(records'), NEW refused, Reply(t, refused),
         ~Begin(asked.request.op) => t = asked.transfer,
         client'.at = "succeeded"
  PROVE  \E u \in Ids : /\ records'[u] # None /\ records'[u].state = "committed"
                        /\ records'[u].direction = "upload" /\ records'[u].path = client.path
                        /\ records'[u].content = client.digest
<1>1. client # Absent
  BY DEF CommandInv, ShapeInv
<1>2. ~NoReceipt(asked.request.op)
  BY <1>1, NoReceiptKeeps DEF CommandInv
<1>3. UploadReceipt(asked.request.op, t) /\ Granted(asked, t)
  BY <1>2 DEF Reply
<1>4. t \in Ids /\ records'[t] \in Records
  BY DEF BegunIn, Inv, StoreInv
<1>5. client.digest \in Sources
  BY DEF CommandInv, UploadInv, AskedInv
<1>6. records'[t].content = client.digest => records'[t].direction = "upload"
  <2>1. DeclaredInv'
    BY DeclaredStays DEF CommandInv
  <2>2. client.digest # None
    BY <1>5
  <2>3. QED
    BY <1>4, <2>1, <2>2 DEF DeclaredInv, Records, Begun, BegunIn
<1>7. CASE asked.request.op = "upload-chunk"
  <2>1. client' \in {[Stage("ready") EXCEPT !.offset = @ + 1], Finish("failed")}
    BY <1>3, <1>7 DEF UploadReceipt
  <2>2. QED
    BY <1>1, <2>1 DEF CommandInv, ShapeInv, Stage, Finish, Fields
<1>8. CASE asked.request.op = "upload-commit"
  <2>1. records'[t].state = "committed"
    BY <1>3, <1>8 DEF Granted
  <2>2. t = client.transfer /\ client.at = "ready"
    BY <1>8 DEF Begin, CommandInv, AskedInv
  <2>3. t \in Begun /\ Matches(records[t])
    BY <2>2 DEF CommandInv, UploadInv
  <2>4. QED
    BY <1>4, <1>6, <2>1, <2>3, MatchStays
<1>9. CASE asked.request.op \notin {"upload-chunk", "upload-commit"}
  <2>1. PICK known : known = [client EXCEPT !.transfer = t]
    OBVIOUS
  <2>2. ASSUME NEW at, NEW offset,
               client' \in {[known EXCEPT !.at = at], [known EXCEPT !.at = at, !.offset = offset]}
        PROVE  client'.at = at
    BY <2>1, <2>2 DEF CommandInv, ShapeInv, Fields
  <2>3. Matches(records'[t]) /\ records'[t].state = "committed"
    <3>1. CASE ~Matches(records'[t])
      BY <1>3, <1>9, <2>1, <2>2, <3>1 DEF UploadReceipt
    <3>2. CASE Matches(records'[t]) /\ records'[t].state = "uploading"
      <4>1. client' = [known EXCEPT !.at = "ready", !.offset = Len(records'[t].stored)]
        BY <1>3, <1>9, <2>1, <3>2 DEF UploadReceipt
      <4>2. QED
        BY <2>1, <4>1 DEF CommandInv, ShapeInv, Fields
    <3>3. CASE Matches(records'[t]) /\ records'[t].state \notin {"committed", "uploading"}
      <4>1. client' = [known EXCEPT !.at = "failed"]
        BY <1>3, <1>9, <2>1, <3>3 DEF UploadReceipt
      <4>2. QED
        BY <2>2, <4>1
    <3>4. QED
      BY <3>1, <3>2, <3>3
  <2>4. QED
    BY <1>4, <1>6, <2>3 DEF Matches
<1>10. QED
  BY <1>7, <1>8, <1>9

TruthfulStep ==
  client'.at = "succeeded" /\ client.at # "succeeded" /\ client.direction = "upload" =>
    \E t \in Ids : /\ records'[t] # None /\ records'[t].state = "committed"
                   /\ records'[t].direction = "upload" /\ records'[t].path = client.path
                   /\ records'[t].content = client.digest

(* An upload that reports success tells the truth, through retries, lost   *)
(* replies, requests that are executed late, resumed uploads and a source  *)
(* that changes: the file whose hash this command took was committed.      *)
THEOREM UploadTellsTheTruth == TransferSpec => SuccessIsTrue
<1>1. ASSUME Inv, CommandInv, Inv', CommandInv', OthersFollow, [TransferNext]_allVars,
             client'.at = "succeeded", client.at # "succeeded", client.direction = "upload"
      PROVE  \E t \in Ids : /\ records'[t] # None /\ records'[t].state = "committed"
                            /\ records'[t].direction = "upload"
                            /\ records'[t].path = client.path
                            /\ records'[t].content = client.digest
  <2>1. client # Absent /\ client.at \notin {"published", "giving up"}
    <3>1. Absent.direction # "upload"
      BY DEF Absent
    <3>2. QED
      BY <1>1, <3>1 DEF CommandInv, UploadInv
  <2>2. ~UNCHANGED client
    BY <1>1
  <2>3. CASE UploadStarts \/ UploadResumes \/ DownloadStarts
    <3>1. PICK digest : client' = [Stage("begun") EXCEPT !.digest = digest]
      BY <2>3 DEF UploadStarts, UploadResumes, DownloadStarts, Starts
    <3>2. client'.at = "begun"
      BY <1>1, <3>1 DEF Stage, Fields, CommandInv, ShapeInv
    <3>3. QED
      BY <1>1, <3>2
  <2>4. CASE FindsRewritten
    BY <1>1, <2>1, <2>4, EditAt DEF FindsRewritten, CommandInv
  <2>5. CASE Refuse \/ Lose
    <3>1. asked # None /\ NoReceipt(asked.request.op)
      BY <2>5 DEF Refuse, Lose
    <3>2. QED
      BY <1>1, <2>1, <3>1, NoReceiptKeeps DEF CommandInv
  <2>6. ASSUME NEW th \in Threads, Receive(th), ~UNCHANGED client
        PROVE  \E t \in Ids : /\ records'[t] # None /\ records'[t].state = "committed"
                              /\ records'[t].direction = "upload"
                              /\ records'[t].path = client.path
                              /\ records'[t].content = client.digest
    <3>1. asked # None /\ Accepts(th, asked) /\ Reply(TransferOf(asked), FALSE)
      BY <2>6 DEF Receive
    <3>2. client.path \in Paths /\ Sendable(asked)
      BY <1>1, <2>1, <3>1 DEF CommandInv, ShapeInv
    <3>3. TransferOf(asked) \in BegunIn(records')
      BY <1>1, <3>1, <3>2, AcceptedTransfer
    <3>4. ~Begin(asked.request.op) => TransferOf(asked) = asked.transfer
      BY DEF TransferOf
    <3>5. QED
      BY <1>1, <3>1, <3>3, <3>4, ReceiptIsTrue
  <2>7. ASSUME NEW th \in Threads, Serve(th), ~UNCHANGED client
        PROVE  \E t \in Ids : /\ records'[t] # None /\ records'[t].state = "committed"
                              /\ records'[t].direction = "upload"
                              /\ records'[t].path = client.path
                              /\ records'[t].content = client.digest
    <3>1. PICK refused : Continues(th) /\ th = serving /\ Reply(thread[th].transfer, refused)
      BY <2>7 DEF Serve
    <3>2. th # None /\ asked # None
          /\ (~Begin(asked.request.op) => thread[th].transfer = asked.transfer)
      BY <1>1, <3>1 DEF CommandInv, ServingInv
    <3>3. thread[th].transfer \in BegunIn(records')
      BY <1>1, <3>1, ContinuesThread, WaiterBegun DEF OthersFollow, Begun, BegunIn
    <3>4. QED
      BY <1>1, <3>1, <3>2, <3>3, ReceiptIsTrue
  <2>8. ~Others /\ ~SendsChunk /\ ~SendsCommit /\ ~AsksChunk /\ ~SendsEnd /\ ~ReceiveLate
        /\ ~Rewrites /\ ~UNCHANGED transferVars
    BY <2>2 DEF Others, SendsChunk, SendsCommit, AsksChunk, SendsEnd, ReceiveLate, Rewrites,
                transferVars
  <2>9. ~Publishes /\ ~GivesUp
    BY <1>1 DEF Publishes, GivesUp
  <2>10. QED
    BY <1>1, <2>2, <2>3, <2>4, <2>5, <2>6, <2>7, <2>8, <2>9 DEF TransferNext, allVars
<1>2. Inv /\ CommandInv /\ [TransferNext]_allVars => TruthfulStep
  BY <1>1, StepIsNext, InvStep, CommandStep DEF TruthfulStep
<1>3. TransferSpec => [][TruthfulStep]_allVars
  BY <1>2, TransferInvariance, PTL DEF TransferSpec
<1>4. QED
  BY <1>3 DEF TruthfulStep, SuccessIsTrue

-----------------------------------------------------------------------------
(* What has been transferred so far.  In an upload whose source does not   *)
(* change every chunk that is asked for, or may still be executed, is the  *)
(* source's own; the records of a download's requests store nothing.       *)

Beginning(s, c) == Len(s) <= Len(c) /\ \A i \in 1..Len(s) : s[i] = c[i]

Expected == IF client.direction = "upload" THEN mine ELSE <<>>
OwnOps   == IF client.direction = "upload" THEN UploadOps ELSE DownloadOps

FitsRequest(request, c) ==
  request.op = "upload-chunk" => request.offset < Len(c) /\ request.data = c[request.offset + 1]

Fits(m, c) ==
  FitsRequest(m.request, c) /\ (m.request.op = "upload-begin" => m.content = c)

OwnInv ==
  client # Absent =>
    /\ late # None => late.request.op \in OwnOps
    /\ \A t \in Begun : records[t].direction = client.direction /\ records[t].path = client.path

FitInv ==
  client # Absent /\ steady =>
    /\ asked # None => Fits(asked, Expected)
    /\ late # None => Fits(late, Expected)
    /\ \A th \in Threads : thread[th].at = "waiting" => FitsRequest(thread[th].request, Expected)
    /\ \A t \in Begun : /\ Beginning(records[t].stored, Expected)
                        /\ client.direction = "upload" => records[t].content = Expected

(* A download reads the file its begin hashed for as long as its transfer  *)
(* holds it and nobody touched it.                                         *)
Intact(r) == r.held /\ ~r.touched

Receives ==
  /\ client.digest \in Contents \cup {None}
  /\ client.got \in Seq(Bytes) /\ client.offset = Len(client.got)
  /\ client.got # <<>> => client.digest # None /\ Beginning(client.got, client.digest)
  /\ client.at \notin {"ready", "published", "giving up"} => client.got = <<>>

AsksInOrder ==
  asked # None =>
    /\ asked.request.op = "download-begin" => client.at = "begun"
    /\ asked.request.op = "download-chunk" =>
         client.at = "ready" /\ (client.digest # None => client.offset < Len(client.digest))

ReadsHashed ==
  client.at = "ready" =>
    /\ client.transfer \in Begun
    /\ Intact(records[client.transfer]) => client.digest # None /\ files[client.path] = client.digest

DownloadInv ==
  client.direction = "download" =>
    /\ steady /\ Receives /\ AsksInOrder /\ ReadsHashed
    /\ \A t \in Begun : Intact(records[t]) => files[client.path] # None
    /\ serving # None /\ asked.request.op = "download-chunk" =>
         thread[serving].at = "waiting" /\ thread[serving].request = asked.request

-----------------------------------------------------------------------------
(* What a step makes of one transfer: what it stores stays a beginning of  *)
(* c, and only a file that is open and untouched stays so.                 *)

Passes(r, s, c) ==
  /\ Beginning(r.stored, c) => Beginning(s.stored, c)
  /\ Intact(s) => Intact(r)

AllPass(old, new, c) == \A t \in BegunIn(old) : Passes(old[t], new[t], c)

LEMMA EmptyBeginning == \A c \in Seq(Bytes) : Beginning(<<>>, c)
  BY DEF Beginning

LEMMA EditPasses ==
  ASSUME NEW c, NEW r, NEW s, s.stored = r.stored, s.held = r.held,
         s.touched = r.touched \/ s.touched = TRUE
  PROVE  Passes(r, s, c)
  BY DEF Passes, Intact

LEMMA ClosedPasses ==
  ASSUME NEW c \in Seq(Bytes), NEW r \in Records
  PROVE  Passes(r, Closed(r), c)
<1>1. Closed(r).stored = <<>> /\ Closed(r).held = FALSE
  BY DEF Closed, Records
<1>2. QED
  BY <1>1, EmptyBeginning DEF Passes, Intact

LEMMA PassOn ==
  ASSUME NEW c, NEW old, NEW mid, NEW new, BegunIn(mid) = BegunIn(old),
         AllPass(old, mid, c), AllPass(mid, new, c)
  PROVE  AllPass(old, new, c)
  BY DEF AllPass, Passes

LEMMA AppendPasses ==
  ASSUME NEW c \in Seq(Bytes), NEW r \in Records, NEW request \in Requests,
         request.op = "upload-chunk", FitsRequest(request, c), Stores(r, request),
         NEW s, s = [r EXCEPT !.stored = Append(@, request.data)]
  PROVE  Passes(r, s, c)
<1>1. request.data \in Bytes /\ r.stored \in Seq(Bytes)
  BY RequestType DEF Records
<1>2. s.stored = Append(r.stored, request.data) /\ s.held = r.held /\ s.touched = r.touched
  BY DEF Records
<1>3. Len(r.stored) < Len(c) /\ request.data = c[Len(r.stored) + 1]
  BY DEF FitsRequest, Stores
<1>4. ASSUME Beginning(r.stored, c)
      PROVE  Beginning(s.stored, c)
  <2>1. Len(s.stored) = Len(r.stored) + 1 /\ Len(r.stored) \in Nat /\ Len(c) \in Nat
    BY <1>1, <1>2
  <2>2. \A i \in 1..Len(s.stored) :
          s.stored[i] = IF i = Len(r.stored) + 1 THEN request.data ELSE r.stored[i]
    BY <1>1, <1>2, <2>1
  <2>3. QED
    BY <1>3, <1>4, <2>1, <2>2 DEF Beginning
<1>5. QED
  BY <1>2, <1>4 DEF Passes, Intact

(* The pieces of a locked step. *)
LEMMA PutPasses ==
  ASSUME NEW c, NEW recs, NEW t \in BegunIn(recs), NEW r, Passes(recs[t], r, c)
  PROVE  AllPass(recs, Put(recs, t, r), c)
<1>1. \A u \in Ids : Put(recs, t, r)[u] = IF u = t THEN r ELSE recs[u]
  BY DEF Put
<1>2. QED
  BY <1>1 DEF AllPass, BegunIn, Passes

LEMMA DisposedPasses ==
  ASSUME NEW c \in Seq(Bytes), NEW recs \in [Ids -> Records \cup {None}], NEW gone
  PROVE  AllPass(recs, Disposed(recs, gone), c)
<1>1. \A t \in BegunIn(recs) :
        recs[t] \in Records /\ Disposed(recs, gone)[t] \in {Closed(recs[t]), recs[t]}
  BY DEF Disposed, BegunIn
<1>2. QED
  BY <1>1, ClosedPasses DEF AllPass, Passes

LEMMA DelistedPasses ==
  ASSUME NEW c, NEW recs, \A t \in BegunIn(recs) : recs[t] \in Records, NEW gone
  PROVE  AllPass(recs, Delisted(recs, gone), c)
<1> SUFFICES ASSUME NEW t \in BegunIn(recs)
             PROVE  Passes(recs[t], Delisted(recs, gone)[t], c)
  BY DEF AllPass
<1>1. PICK s : s = [recs[t] EXCEPT !.listed = FALSE, !.stale = FALSE]
  OBVIOUS
<1>2. s.stored = recs[t].stored /\ s.held = recs[t].held /\ s.touched = recs[t].touched
  BY <1>1 DEF Records
<1>3. Delisted(recs, gone)[t] \in {s, recs[t]}
  BY <1>1 DEF Delisted, BegunIn
<1>4. QED
  BY <1>2, <1>3, EditPasses

(* A step, or a part of one, on the transfers that are there. *)
Moves(old, new, c) ==
  new \in [Ids -> Records \cup {None}] /\ BegunIn(new) = BegunIn(old) /\ AllPass(old, new, c)

LEMMA MoveOn ==
  ASSUME NEW c, NEW old, NEW mid, NEW new, Moves(old, mid, c), Moves(mid, new, c)
  PROVE  Moves(old, new, c)
  BY PassOn DEF Moves

LEMMA PutMoves ==
  ASSUME NEW c, NEW recs \in [Ids -> Records \cup {None}], NEW t \in BegunIn(recs),
         NEW r \in Records, Passes(recs[t], r, c)
  PROVE  Moves(recs, Put(recs, t, r), c) /\ Put(recs, t, r)[t] = r
<1>1. PICK new : new = Put(recs, t, r)
  OBVIOUS
<1>2. /\ new \in [Ids -> Records \cup {None}] /\ t \in Ids
      /\ \A u \in Ids : new[u] = IF u = t THEN r ELSE recs[u]
  BY <1>1 DEF Put, BegunIn
<1>3. r # None /\ recs[t] # None
  BY DEF BegunIn
<1>4. BegunIn(new) = BegunIn(recs)
  BY <1>2, <1>3 DEF BegunIn
<1>5. QED
  BY <1>1, <1>2, <1>4, PutPasses DEF Moves

(* Edits that leave alone what is stored and whether the file is open. *)
Edits(r, s) ==
  \/ \E b \in BOOLEAN : s = [r EXCEPT !.stale = b] \/ s = [r EXCEPT !.hashing = b]
  \/ s = [r EXCEPT !.hashing = FALSE, !.stale = FALSE]
  \/ s = [r EXCEPT !.hashed = TRUE]
  \/ s = [r EXCEPT !.state = "failed"]

LEMMA EditedRecord ==
  ASSUME NEW r \in Records, NEW s, Edits(r, s)
  PROVE  s \in Records /\ s.stored = r.stored /\ s.held = r.held /\ s.touched = r.touched
<1>1. CASE \E b \in BOOLEAN : s = [r EXCEPT !.stale = b] \/ s = [r EXCEPT !.hashing = b]
  BY <1>1 DEF Records
<1>2. CASE s = [r EXCEPT !.hashing = FALSE, !.stale = FALSE]
  BY <1>2 DEF Records
<1>3. CASE s = [r EXCEPT !.hashed = TRUE] \/ s = [r EXCEPT !.state = "failed"]
  BY <1>3 DEF Records
<1>4. QED
  BY <1>1, <1>2, <1>3 DEF Edits

LEMMA EditMoves ==
  ASSUME NEW c, NEW recs \in [Ids -> Records \cup {None}], NEW t \in BegunIn(recs),
         NEW r, Edits(recs[t], r)
  PROVE  Moves(recs, Put(recs, t, r), c) /\ r \in Records /\ Put(recs, t, r)[t] = r
<1>1. recs[t] \in Records
  BY DEF BegunIn
<1>2. r \in Records /\ Passes(recs[t], r, c)
  BY <1>1, EditedRecord, EditPasses
<1>3. QED
  BY <1>2, PutMoves

LEMMA DroppedMoves ==
  ASSUME NEW c \in Seq(Bytes), NEW recs \in [Ids -> Records \cup {None}],
         NEW gone \in SUBSET BegunIn(recs)
  PROVE  /\ Moves(recs, Disposed(recs, gone), c)
         /\ Moves(recs, Delisted(Disposed(recs, gone), gone), c)
<1>1. PICK mid : mid = Disposed(recs, gone)
  OBVIOUS
<1>2. PICK new : new = Delisted(mid, gone)
  OBVIOUS
<1>3. \A t \in BegunIn(recs) : t \in Ids /\ recs[t] \in Records
  BY DEF BegunIn
<1>4. /\ mid \in [Ids -> Records \cup {None}]
      /\ \A t \in Ids : mid[t] = IF t \in gone THEN Closed(recs[t]) ELSE recs[t]
  BY <1>1, <1>3, ClosedRecord DEF Disposed
<1>5. BegunIn(mid) = BegunIn(recs)
  <2>1. \A t \in Ids : mid[t] # None <=> recs[t] # None
    <3>1. \A t \in gone : Closed(recs[t]) # None /\ recs[t] # None
      BY <1>3, ClosedRecord DEF BegunIn
    <3>2. QED
      BY <1>4, <3>1
  <2>2. QED
    BY <2>1 DEF BegunIn
<1>6. Moves(recs, mid, c)
  BY <1>1, <1>4, <1>5, DisposedPasses DEF Moves
<1>7. \A t \in BegunIn(mid) : mid[t] \in Records
  BY <1>4 DEF BegunIn
<1>8. /\ new \in [Ids -> Records \cup {None}] /\ BegunIn(new) = BegunIn(mid)
  <2>1. \A t \in Ids : new[t] = IF t \in gone THEN [mid[t] EXCEPT !.listed = FALSE, !.stale = FALSE]
                                ELSE mid[t]
    BY <1>2 DEF Delisted
  <2>2. ASSUME NEW t \in BegunIn(mid)
        PROVE  new[t] \in Records
    <3>1. PICK s : s = [mid[t] EXCEPT !.listed = FALSE, !.stale = FALSE]
      OBVIOUS
    <3>2. s \in Records
      BY <1>7, <3>1, DelistedRecord
    <3>3. new[t] \in {s, mid[t]}
      BY <2>1, <3>1 DEF BegunIn
    <3>4. QED
      BY <1>7, <3>2, <3>3
  <2>3. \A t \in Ids \ BegunIn(mid) : new[t] = None
    BY <1>5, <2>1 DEF BegunIn
  <2>4. \A t \in Ids : new[t] \in Records \cup {None}
    BY <2>2, <2>3 DEF BegunIn
  <2>5. new \in [Ids -> Records \cup {None}]
    BY <1>2, <2>4 DEF Delisted
  <2>6. \A t \in Ids : new[t] # None <=> mid[t] # None
    BY <2>2, <2>3 DEF BegunIn
  <2>7. QED
    BY <2>5, <2>6 DEF BegunIn
<1>9. Moves(mid, new, c)
  BY <1>2, <1>7, <1>8, DelistedPasses DEF Moves
<1>10. QED
  BY <1>1, <1>2, <1>6, <1>9, MoveOn

LEMMA TypedRecords ==
  ASSUME Inv
  PROVE  records \in [Ids -> Records \cup {None}] /\ Begun = BegunIn(records)
  BY DEF Inv, StoreInv, Begun, BegunIn

LEMMA SweepMoves ==
  ASSUME Inv, NEW c \in Seq(Bytes)
  PROVE  Moves(records, AfterSweep, c)
  BY TypedRecords, SweptTransfers, DroppedMoves DEF AfterSweep

(* The rest of a request. *)
LEMMA EndMoves ==
  ASSUME NEW c \in Seq(Bytes), NEW recs \in [Ids -> Records \cup {None}], NEW t \in BegunIn(recs),
         NEW th, NEW staged, End(th, t, recs, staged)
  PROVE  Moves(recs, records', c)
<1>1. recs[t] \in Records
  BY DEF BegunIn
<1>2. PICK r : r = Closed(recs[t])
  OBVIOUS
<1>3. r \in Records /\ Passes(recs[t], r, c)
  BY <1>1, <1>2, ClosedRecord, ClosedPasses
<1>4. PICK state : state = Ended(recs[t])
  OBVIOUS
<1>5. state \in {"uploading", "downloading", "committed", "aborted", "failed", "closed"}
  BY <1>1, <1>4 DEF Ended, Records
<1>6. PICK s : s = [r EXCEPT !.state = state]
  OBVIOUS
<1>7. s \in Records /\ s.stored = r.stored /\ s.held = r.held /\ s.touched = r.touched
  BY <1>3, <1>5, <1>6 DEF Records
<1>8. Passes(recs[t], s, c)
  BY <1>3, <1>7 DEF Passes, Intact
<1>9. records' \in {Put(recs, t, s), Disposed(recs, {t})}
  BY <1>2, <1>4, <1>6 DEF End
<1>10. QED
  BY <1>7, <1>8, <1>9, PutMoves, DroppedMoves

LEMMA PerformMoves ==
  ASSUME NEW c \in Seq(Bytes), NEW recs \in [Ids -> Records \cup {None}], NEW t \in BegunIn(recs),
         NEW th, NEW staged, NEW request \in Requests, FitsRequest(request, c),
         Perform(th, request, t, recs, staged)
  PROVE  Moves(recs, records', c)
<1>1. recs[t] \in Records
  BY DEF BegunIn
<1>2. CASE records' = recs
  BY <1>2, EditPasses DEF Moves, AllPass
<1>3. CASE records' = Put(recs, t, [recs[t] EXCEPT !.state = "failed"])
  BY <1>3, EditMoves DEF Edits
<1>4. CASE records' = Put(recs, t, [recs[t] EXCEPT !.hashing = TRUE])
  BY <1>4, EditMoves DEF Edits
<1>5. CASE End(th, t, recs, staged)
  BY <1>5, EndMoves
<1>6. CASE /\ request.op = "upload-chunk" /\ Stores(recs[t], request)
           /\ records' = Put(recs, t, [recs[t] EXCEPT !.stored = Append(@, request.data)])
  <2>1. PICK s : s = [recs[t] EXCEPT !.stored = Append(@, request.data)]
    OBVIOUS
  <2>2. Passes(recs[t], s, c)
    BY <1>1, <1>6, <2>1, AppendPasses
  <2>3. Append(recs[t].stored, request.data) \in Seq(Bytes)
    BY <1>1, <1>6, RequestType DEF Records
  <2>4. PICK stored \in Seq(Bytes) : stored = Append(recs[t].stored, request.data)
    BY <2>3
  <2>5. s = [recs[t] EXCEPT !.stored = stored]
    BY <2>1, <2>4
  <2>6. s \in Records
    BY <1>1, <2>5 DEF Records
  <2>7. QED
    BY <1>6, <2>1, <2>2, <2>6, PutMoves
<1>7. QED
  BY <1>2, <1>3, <1>4, <1>5, <1>6 DEF Perform, UploadChunk, DownloadChunk, CommitStarts, Inspect

LEMMA DisposedAfter ==
  ASSUME NEW c \in Seq(Bytes), NEW old, NEW recs, Moves(old, recs, c),
         NEW gone \in SUBSET BegunIn(old)
  PROVE  /\ Moves(old, Disposed(recs, gone), c)
         /\ Moves(old, Delisted(Disposed(recs, gone), gone), c)
<1>1. /\ Moves(recs, Disposed(recs, gone), c)
      /\ Moves(recs, Delisted(Disposed(recs, gone), gone), c)
  BY DroppedMoves DEF Moves
<1>2. QED
  BY <1>1, MoveOn

LEMMA SweepFailsMoves ==
  ASSUME Inv, NEW c \in Seq(Bytes), SweepFails
  PROVE  Moves(records, records', c)
<1>1. PICK t \in Swept, before \in SUBSET Swept :
        records' = Disposed(Delisted(Disposed(records, before), before), {t})
  BY DEF SweepFails
<1>2. {t} \in SUBSET BegunIn(records) /\ before \in SUBSET BegunIn(records)
  BY TypedRecords, SweptTransfers
<1>3. Moves(records, Delisted(Disposed(records, before), before), c)
  BY <1>2, TypedRecords, DroppedMoves
<1>4. QED
  BY <1>1, <1>2, <1>3, DisposedAfter

LEMMA SameMoves ==
  ASSUME Inv, NEW c
  PROVE  Moves(records, records, c)
<1>1. AllPass(records, records, c)
  BY EditPasses DEF AllPass
<1>2. QED
  BY <1>1, TypedRecords DEF Moves

LEMMA RejectsMoves ==
  ASSUME Inv, NEW c \in Seq(Bytes), NEW m, Rejects(m)
  PROVE  Moves(records, records', c) /\ UNCHANGED <<files, thread>>
<1>1. CASE SweepFails
  BY <1>1, SweepFailsMoves DEF SweepFails
<1>2. CASE records' = AfterSweep /\ UNCHANGED <<thread, files>>
  BY <1>2, SweepMoves
<1>3. CASE UNCHANGED vars
  BY <1>3, SameMoves DEF vars, disk
<1>4. QED
  BY <1>1, <1>2, <1>3 DEF Rejects

LEMMA UsedMoves ==
  ASSUME NEW c, NEW old, NEW recs, Moves(old, recs, c), NEW t \in BegunIn(old)
  PROVE  Moves(old, Used(recs, t), c)
<1>1. PICK r : r = [recs[t] EXCEPT !.stale = FALSE]
  OBVIOUS
<1>2. Edits(recs[t], r)
  BY <1>1 DEF Edits
<1>3. Moves(recs, Put(recs, t, r), c)
  BY <1>2, EditMoves DEF Moves
<1>4. QED
  BY <1>1, <1>3, MoveOn DEF Used

(* What is begun. *)
Starting(m) ==
  \A t \in BegunIn(records') \ Begun :
    LET r == records'[t] IN
    /\ Begin(m.request.op) /\ r.stored = <<>> /\ r.path = client.path
    /\ m.request.op = "upload-begin" => r.direction = "upload" /\ r.content = m.content
    /\ m.request.op = "download-begin" => r.direction = "download" /\ files[client.path] # None

LEMMA BeginMoves ==
  ASSUME Inv, NEW c \in Seq(Bytes), NEW t \in Ids \ Begun, NEW r, r # None,
         records' = Put(AfterSweep, t, r)
  PROVE  /\ AllPass(records, records', c)
         /\ BegunIn(records') \ Begun = {t} /\ records'[t] = r
<1>1. Moves(records, AfterSweep, c) /\ Begun = BegunIn(records)
  BY SweepMoves, TypedRecords
<1>2. \A u \in Ids : records'[u] = IF u = t THEN r ELSE AfterSweep[u]
  BY DEF Put
<1>3. BegunIn(AfterSweep) = Begun
  BY <1>1 DEF Moves
<1>4. BegunIn(records') \ Begun = {t}
  BY <1>2, <1>3 DEF BegunIn
<1>5. AllPass(records, records', c)
  BY <1>1, <1>2 DEF Moves, AllPass, BegunIn
<1>6. QED
  BY <1>2, <1>4, <1>5

LEMMA AcceptsMoves ==
  ASSUME Inv, NEW c \in Seq(Bytes), NEW th \in Threads, NEW m, Sendable(m), client.path \in Paths,
         FitsRequest(m.request, c), Accepts(th, m)
  PROVE  AllPass(records, records', c) /\ Starting(m) /\ UNCHANGED files
<1>1. ASSUME Moves(records, records', c)
      PROVE  AllPass(records, records', c) /\ Starting(m)
  BY <1>1, TypedRecords DEF Moves, Starting
<1>2. ASSUME NEW key, NEW direction, NEW content,
             Rebegin(th, key, direction, client.path, content, FALSE)
      PROVE  Moves(records, records', c) /\ UNCHANGED files
  <2>1. PICK t \in Listed : records' \in {AfterSweep, Used(AfterSweep, t)}
    BY <1>2 DEF Rebegin
  <2>2. t \in BegunIn(records)
    BY TypedRecords DEF Listed
  <2>3. QED
    BY <1>2, <2>1, <2>2, SweepMoves, UsedMoves DEF Rebegin
<1>3. ASSUME NEW direction \in {"upload", "download"}, NEW content \in Contents \cup {None}, NEW t \in Ids,
             NewTransfer(m.key, t), m.key \in Keys,
             m.request.op = IF direction = "upload" THEN "upload-begin" ELSE "download-begin",
             direction = "upload" => content = m.content,
             direction = "download" => files[client.path] # None,
             records' = Put(AfterSweep, t, NewRecord(direction, m.key, client.path, content, FALSE))
      PROVE  AllPass(records, records', c) /\ Starting(m)
  <2>1. PICK r : r = NewRecord(direction, m.key, client.path, content, FALSE)
    OBVIOUS
  <2>2. r \in Records
    BY <1>3, <2>1, NewRecordType
  <2>3. /\ r.stored = <<>> /\ r.path = client.path /\ r.direction = direction
        /\ r.content = content
    BY <2>1 DEF NewRecord
  <2>4. t \in Ids \ Begun /\ r # None /\ records' = Put(AfterSweep, t, r)
    BY <1>3, <2>1, <2>2 DEF NewTransfer
  <2>5. /\ AllPass(records, records', c)
        /\ BegunIn(records') \ Begun = {t} /\ records'[t] = r
    BY <2>4, BeginMoves
  <2>6. QED
    BY <1>3, <2>3, <2>5 DEF Starting, Begin
<1>4. CASE m.request.op = "upload-begin"
  <2>1. m.key \in Keys /\ m.content \in Contents
    BY <1>4 DEF Sendable, Begin
  <2>2. CASE UploadBegin(th, m.key, client.path, m.content, FALSE)
    <3>1. PICK t \in Ids :
            /\ NewTransfer(m.key, t)
            /\ records' = Put(AfterSweep, t, NewRecord("upload", m.key, client.path, m.content, FALSE))
      BY <2>2 DEF UploadBegin
    <3>2. QED
      BY <1>3, <1>4, <2>1, <2>2, <3>1 DEF UploadBegin
  <2>3. QED
    BY <1>1, <1>2, <1>4, <2>2 DEF Accepts
<1>5. CASE m.request.op = "download-begin"
  <2>1. m.key \in Keys
    BY <1>5 DEF Sendable, Begin
  <2>2. CASE DownloadBegin(th, m.key, client.path)
    <3>1. PICK t \in Ids :
            /\ NewTransfer(m.key, t)
            /\ records' = Put(AfterSweep, t, NewRecord("download", m.key, client.path, None, FALSE))
      BY <2>2 DEF DownloadBegin
    <3>2. files[client.path] # None /\ UNCHANGED files
      BY <2>2 DEF DownloadBegin, Readable
    <3>3. QED
      BY <1>3, <1>5, <2>1, <3>1, <3>2
  <2>3. QED
    BY <1>1, <1>2, <1>5, <2>2 DEF Accepts
<1>6. CASE ~Begin(m.request.op)
  <2>1. Request(th, m.request, m.transfer) /\ m.request \in Requests
    BY <1>6 DEF Accepts, Begin, Sendable
  <2>2. m.transfer \in BegunIn(records)
    BY <2>1, TypedRecords DEF Request, Listed
  <2>3. CASE records' = AfterSweep /\ UNCHANGED files
    BY <1>1, <2>3, SweepMoves
  <2>4. CASE Perform(th, m.request, m.transfer, Used(AfterSweep, m.transfer), Unstaged(Swept))
    <3>1. PICK recs : recs = Used(AfterSweep, m.transfer)
      OBVIOUS
    <3>2. Moves(records, recs, c)
      BY <2>2, <3>1, SweepMoves, UsedMoves
    <3>3. Moves(recs, records', c)
      BY <2>1, <2>2, <2>4, <3>1, <3>2, PerformMoves DEF Moves
    <3>4. UNCHANGED files
      BY <2>4 DEF Perform, UploadChunk, DownloadChunk, End, CommitStarts, Inspect
    <3>5. QED
      BY <1>1, <3>2, <3>3, <3>4, MoveOn
  <2>5. QED
    BY <2>1, <2>3, <2>4 DEF Request
<1>7. QED
  BY <1>4, <1>5, <1>6 DEF Begin

LEMMA PublishMoves ==
  ASSUME NEW c \in Seq(Bytes), NEW ready \in [Ids -> Records \cup {None}], NEW t \in BegunIn(ready),
         NEW removed \in BOOLEAN, Publish(t, ready, removed)
  PROVE  AllPass(ready, records', c)
<1> SUFFICES ASSUME NEW u \in BegunIn(ready)
             PROVE  Passes(ready[u], records'[u], c)
  BY DEF AllPass
<1>1. u \in Ids /\ ready[u] \in Records /\ ready[t] \in Records
  BY DEF BegunIn
<1>2. PICK touched : touched = [ready[u] EXCEPT !.touched = TRUE]
  OBVIOUS
<1>3. Passes(ready[u], touched, c)
  <2>1. /\ touched.stored = ready[u].stored /\ touched.held = ready[u].held
        /\ touched.touched = TRUE
    BY <1>1, <1>2 DEF Records
  <2>2. QED
    BY <2>1, EditPasses
<1>4. PICK shut : shut = Closed(ready[t])
  OBVIOUS
<1>5. shut \in Records /\ Passes(ready[t], shut, c)
  BY <1>1, <1>4, ClosedRecord, ClosedPasses
<1>6. PICK done : done = [shut EXCEPT !.state = "committed"]
  OBVIOUS
<1>7. Passes(ready[t], done, c)
  <2>1. done.stored = shut.stored /\ done.held = shut.held /\ done.touched = shut.touched
    BY <1>5, <1>6 DEF Records
  <2>2. QED
    BY <1>5, <2>1 DEF Passes, Intact
<1>8. records'[u] \in {touched, ready[u]} \/ (u = t /\ records'[u] = done)
  BY <1>1, <1>2, <1>4, <1>6 DEF Publish
<1>9. QED
  BY <1>3, <1>7, <1>8, EditPasses

LEMMA ContinuesMoves ==
  ASSUME Inv, NEW c \in Seq(Bytes), NEW th \in Threads, Continues(th),
         thread[th].at = "waiting" => FitsRequest(thread[th].request, c)
  PROVE  /\ AllPass(records, records', c) /\ BegunIn(records') = Begun
         /\ (\A t \in Begun : records[t].direction = "download") => UNCHANGED files
<1> DEFINE t == thread[th].transfer
<1>1. Begun = BegunIn(records) /\ records \in [Ids -> Records \cup {None}]
  BY TypedRecords
<1>2. thread[th].at # "free" => t \in BegunIn(records)
  BY <1>1, WaiterBegun
<1>3. Moves(records, records, c)
  BY SameMoves
<1>4. CASE RebeginEnds(th)
  <2>1. records' = Used(records, t) /\ t \in BegunIn(records) /\ UNCHANGED files
    BY <1>2, <1>4 DEF RebeginEnds, disk
  <2>2. QED
    BY <1>1, <1>3, <2>1, UsedMoves DEF Moves
<1>5. CASE Resume(th)
  <2>1. CASE UNCHANGED records /\ UNCHANGED disk
    BY <1>1, <1>3, <2>1 DEF Moves, disk
  <2>2. CASE Perform(th, thread[th].request, t, Used(records, t), temps)
    <3>1. /\ thread[th].at = "waiting" /\ t \in BegunIn(records)
          /\ thread[th].request \in Requests
      BY <1>2, <1>5 DEF Resume, Inv, ThreadInv
    <3>2. PICK recs : recs = Used(records, t)
      OBVIOUS
    <3>3. Moves(records, recs, c)
      BY <1>3, <3>1, <3>2, UsedMoves
    <3>4. Moves(recs, records', c)
      BY <2>2, <3>1, <3>2, <3>3, PerformMoves DEF Moves
    <3>5. UNCHANGED files
      BY <2>2 DEF Perform, UploadChunk, DownloadChunk, End, CommitStarts, Inspect
    <3>6. QED
      BY <1>1, <3>3, <3>4, <3>5, MoveOn DEF Moves
  <2>3. QED
    BY <1>5, <2>1, <2>2 DEF Resume
<1>6. ASSUME thread[th].at = "hashing"
      PROVE  \E ready : /\ ready = Put(records, t, [records[t] EXCEPT !.hashing = FALSE, !.stale = FALSE])
                        /\ Moves(records, ready, c) /\ t \in BegunIn(ready)
  <2>1. PICK r : r = [records[t] EXCEPT !.hashing = FALSE, !.stale = FALSE]
    OBVIOUS
  <2>2. t \in BegunIn(records) /\ Edits(records[t], r)
    BY <1>2, <1>6, <2>1 DEF Edits
  <2>3. Moves(records, Put(records, t, r), c)
    BY <1>1, <2>2, EditMoves
  <2>4. QED
    BY <2>1, <2>2, <2>3 DEF Moves
<1>7. CASE DownloadHashed(th)
  <2>1. PICK ready : /\ ready = Put(records, t, [records[t] EXCEPT !.hashing = FALSE, !.stale = FALSE])
                     /\ Moves(records, ready, c) /\ t \in BegunIn(ready)
    BY <1>6, <1>7 DEF DownloadHashed
  <2>2. PICK r : r = [ready[t] EXCEPT !.hashed = TRUE]
    OBVIOUS
  <2>3. PICK known : known = Put(ready, t, r)
    OBVIOUS
  <2>4. Moves(records, known, c)
    <3>1. Edits(ready[t], r)
      BY <2>2 DEF Edits
    <3>2. ready \in [Ids -> Records \cup {None}]
      BY <2>1 DEF Moves
    <3>3. Moves(ready, known, c)
      BY <2>1, <2>3, <3>1, <3>2, EditMoves
    <3>4. QED
      BY <2>1, <3>3, MoveOn
  <2>5. \/ records' = known
        \/ records' = Delisted(Disposed(known, {t}), {t})
        \/ records' = Delisted(Disposed(ready, {t}), {t})
    BY <1>7, <2>1, <2>2, <2>3 DEF DownloadHashed
  <2>6. {t} \in SUBSET BegunIn(records)
    BY <2>1 DEF Moves
  <2>7. Moves(records, records', c)
    BY <2>1, <2>4, <2>5, <2>6, DisposedAfter
  <2>8. QED
    BY <1>1, <1>7, <2>7 DEF Moves, DownloadHashed, disk
<1>8. CASE CommitHashed(th)
  <2>1. PICK ready : /\ ready = Put(records, t, [records[t] EXCEPT !.hashing = FALSE, !.stale = FALSE])
                     /\ Moves(records, ready, c) /\ t \in BegunIn(ready)
    BY <1>6, <1>8 DEF CommitHashed
  <2>2. PICK r : r = [ready[t] EXCEPT !.state = "failed"]
    OBVIOUS
  <2>3. Moves(records, Put(ready, t, r), c)
    <3>1. Edits(ready[t], r)
      BY <2>2 DEF Edits
    <3>2. ready \in [Ids -> Records \cup {None}]
      BY <2>1 DEF Moves
    <3>3. Moves(ready, Put(ready, t, r), c)
      BY <2>1, <3>1, <3>2, EditMoves
    <3>4. QED
      BY <2>1, <3>3, MoveOn
  <2>4. \/ records' \in {ready, Put(ready, t, r)}
        \/ \E removed \in BOOLEAN : Publish(t, ready, removed)
    BY <1>8, <2>1, <2>2 DEF CommitHashed
  <2>5. AllPass(records, records', c)
    <3>1. CASE records' \in {ready, Put(ready, t, r)}
      BY <2>1, <2>3, <3>1 DEF Moves
    <3>2. ASSUME NEW removed \in BOOLEAN, Publish(t, ready, removed)
          PROVE  AllPass(records, records', c)
      <4>1. AllPass(ready, records', c)
        BY <2>1, <3>2, PublishMoves DEF Moves
      <4>2. QED
        BY <2>1, <4>1, PassOn DEF Moves
    <3>3. QED
      BY <2>4, <3>1, <3>2
  <2>6. BegunIn(records') = Begun
    BY <1>1, <1>8, CommitHashedStep DEF AllFollow
  <2>7. t \in Begun /\ records[t].direction = "upload"
    BY <1>1, <1>2, <1>8 DEF CommitHashed
  <2>8. QED
    BY <2>5, <2>6, <2>7
<1>9. QED
  BY <1>4, <1>5, <1>7, <1>8 DEF Continues

LEMMA OtherProgramMoves ==
  ASSUME Inv, NEW c \in Seq(Bytes), NEW path \in Paths, NEW content \in Contents \cup {None},
         OtherProgram(path, content)
  PROVE  /\ AllPass(records, records', c) /\ BegunIn(records') = Begun /\ UNCHANGED thread
         /\ \A t \in Begun : records[t].direction = "download" /\ Intact(records'[t]) =>
              files'[records[t].path] = files[records[t].path]
<1>1. Begun = BegunIn(records) /\ records \in [Ids -> Records \cup {None}]
  BY TypedRecords
<1>2. BegunIn(records') = Begun
  BY <1>1, OtherProgramStep DEF AllFollow
<1>3. ASSUME NEW t \in Begun
      PROVE  /\ Passes(records[t], records'[t], c)
             /\ records[t].direction = "download" /\ Intact(records'[t]) =>
                  files'[records[t].path] = files[records[t].path]
  <2>1. records[t] \in Records /\ t \in Ids
    BY <1>1 DEF BegunIn
  <2>2. CASE Reads(records[t], path)
    <3>1. PICK touched : touched = [records[t] EXCEPT !.touched = TRUE]
      OBVIOUS
    <3>2. /\ touched.stored = records[t].stored /\ touched.held = records[t].held
          /\ touched.touched = TRUE
      BY <2>1, <3>1 DEF Records
    <3>3. records'[t] = touched
      BY <2>1, <2>2, <3>1 DEF OtherProgram
    <3>4. QED
      BY <3>2, <3>3, EditPasses DEF Intact
  <2>3. CASE ~Reads(records[t], path)
    <3>1. records'[t] = records[t]
      BY <2>1, <2>3 DEF OtherProgram
    <3>2. ASSUME records[t].direction = "download", Intact(records'[t])
          PROVE  files'[records[t].path] = files[records[t].path]
      <4>1. records[t].path # path /\ records[t].path \in Paths
        BY <2>1, <2>3, <3>1, <3>2 DEF Reads, Intact, Records
      <4>2. files \in [Paths -> Contents \cup {None}]
        BY DEF Inv, OtherInv
      <4>3. QED
        BY <4>1, <4>2 DEF OtherProgram
    <3>3. QED
      BY <3>1, <3>2, EditPasses
  <2>4. QED
    BY <2>2, <2>3
<1>4. QED
  BY <1>1, <1>2, <1>3 DEF AllPass, OtherProgram

LEMMA AsideMoves ==
  ASSUME Inv, NEW c \in Seq(Bytes), Sweeps \/ TimePasses \/ CloseBegins \/ CloseEnds
  PROVE  AllPass(records, records', c) /\ BegunIn(records') = Begun /\ UNCHANGED <<files, thread>>
<1>1. Begun = BegunIn(records) /\ records \in [Ids -> Records \cup {None}]
  BY TypedRecords
<1>2. CASE Sweeps
  <2>1. Moves(records, records', c)
    BY <1>2, SweepMoves, SweepFailsMoves DEF Sweeps, Refused
  <2>2. QED
    BY <1>1, <1>2, <2>1 DEF Moves, Sweeps, Refused, SweepFails
<1>3. CASE TimePasses
  <2>1. PICK t \in Ids : GoesIdle(t)
    BY <1>3 DEF TimePasses
  <2>2. PICK r : r = [records[t] EXCEPT !.stale = TRUE]
    OBVIOUS
  <2>3. Edits(records[t], r) /\ t \in BegunIn(records) /\ records' = Put(records, t, r)
    BY <1>1, <2>1, <2>2 DEF Edits, GoesIdle, Listed
  <2>4. Moves(records, records', c)
    BY <1>1, <2>3, EditMoves
  <2>5. QED
    BY <1>1, <2>1, <2>4 DEF Moves, GoesIdle, disk
<1>4. CASE CloseBegins
  BY <1>1, <1>4, SameMoves DEF CloseBegins, Moves, disk
<1>5. CASE CloseEnds
  <2>1. Listed \in SUBSET BegunIn(records)
    BY <1>1 DEF Listed
  <2>2. Moves(records, records', c)
    BY <1>1, <1>5, <2>1, DroppedMoves DEF CloseEnds
  <2>3. QED
    BY <1>1, <1>5, <2>2 DEF Moves, CloseEnds
<1>6. QED
  BY <1>2, <1>3, <1>4, <1>5

LEMMA StartsKeeps ==
  ASSUME ShapeInv, client # Absent, NEW op, NEW key, Starts(op, key)
  PROVE  /\ Kept(client') /\ client'.at = "begun" /\ client'.got = client.got
         /\ client'.offset = client.offset
         /\ client'.digest = IF client.direction = "upload" THEN mine ELSE None
<1>1. PICK digest : digest = IF client.direction = "upload" THEN mine ELSE None
  OBVIOUS
<1>2. client' = [Stage("begun") EXCEPT !.digest = digest]
  BY <1>1 DEF Starts
<1>3. client = [f \in Fields |-> client[f]] /\ client.at # "absent"
  BY DEF ShapeInv
<1>4. QED
  BY <1>1, <1>2, <1>3 DEF Kept, Fields, Stage

LEMMA ReplyKeeps ==
  ASSUME CommandInv, Inv', OthersFollow, client # Absent, asked # None,
         NEW t \in BegunIn(records'), NEW refused, Reply(t, refused)
  PROVE  Kept(client')
<1>1. CASE NoReceipt(asked.request.op)
  BY <1>1, NoReceiptKeeps DEF CommandInv
<1>2. CASE client.direction = "upload" /\ UploadReceipt(asked.request.op, t)
  BY <1>2, UploadReceiptKeeps
<1>3. CASE client.direction = "download" /\ DownloadReceipt(asked.request.op, t)
  BY <1>3, DownloadReceiptKeeps DEF CommandInv, AskedInv
<1>4. QED
  BY <1>1, <1>2, <1>3 DEF Reply, CommandInv, ShapeInv

(* Who is answered, and about which transfer. *)
LEMMA ReceiveReplies ==
  ASSUME Inv, CommandInv, Inv', OthersFollow, NEW th \in Threads, Receive(th)
  PROVE  /\ client # Absent /\ asked # None /\ Sendable(asked) /\ client.path \in Paths
         /\ thread'[th] = Idle => /\ Reply(TransferOf(asked), FALSE)
                                  /\ TransferOf(asked) \in BegunIn(records')
         /\ thread'[th] # Idle => serving' = th /\ UNCHANGED <<client, asked>>
<1>1. asked # None /\ Accepts(th, asked)
  BY DEF Receive
<1>2. client # Absent /\ client.path \in Paths /\ Sendable(asked)
  BY <1>1 DEF CommandInv, ShapeInv
<1>3. QED
  BY <1>1, <1>2, AcceptedTransfer DEF Receive

LEMMA ServeReplies ==
  ASSUME Inv, CommandInv, Inv', OthersFollow, NEW th \in Threads, Serve(th)
  PROVE  \/ UNCHANGED <<client, asked, serving>>
         \/ /\ client # Absent /\ asked # None /\ th = serving
            /\ thread[th].transfer \in BegunIn(records')
            /\ Reply(thread[th].transfer, thread[th].at = "waiting" /\ closed # "open")
<1>1. CASE th = serving /\ thread'[th] = Idle
  <2>1. th # None /\ asked # None /\ Continues(th)
        /\ Reply(thread[th].transfer, thread[th].at = "waiting" /\ closed # "open")
    BY <1>1 DEF CommandInv, ServingInv, Serve
  <2>2. client # Absent
    BY <2>1 DEF CommandInv, ShapeInv
  <2>3. thread[th].transfer \in BegunIn(records')
    BY <2>1, ContinuesThread, WaiterBegun DEF OthersFollow, Begun, BegunIn
  <2>4. QED
    BY <1>1, <2>1, <2>2, <2>3
<1>2. QED
  BY <1>1 DEF Serve

(* The command keeps its path and its direction, and an upload whose       *)
(* source has not changed still expects the same.                          *)
LEMMA StepKeeps ==
  ASSUME Inv, CommandInv, Inv', OthersFollow, client # Absent, [TransferNext]_allVars
  PROVE  /\ Kept(client')
         /\ steady' => steady /\ Expected' = Expected
         /\ client.direction = "download" => steady' = steady
<1>1. ShapeInv /\ Kept(client)
  BY DEF CommandInv, ShapeInv, Kept
<1>2. CASE UploadStarts \/ UploadResumes \/ DownloadStarts
  <2>1. PICK op, key : Starts(op, key)
    BY <1>2 DEF UploadStarts, UploadResumes, DownloadStarts
  <2>2. QED
    BY <1>1, <2>1, StartsKeeps DEF Starts, Expected, Kept
<1>3. CASE SendsChunk \/ SendsCommit \/ AsksChunk \/ SendsEnd
  <2>1. UNCHANGED client
    BY <1>3 DEF SendsChunk, SendsCommit, AsksChunk, SendsEnd
  <2>2. UNCHANGED <<mine, steady>> \/ (steady' = FALSE /\ client.direction = "upload")
    BY <1>3 DEF SendsChunk, SendsCommit, AsksChunk, SendsEnd, Rewritten
  <2>3. QED
    BY <1>1, <2>1, <2>2 DEF Expected
<1>4. CASE FindsRewritten \/ Publishes \/ GivesUp
  <2>1. client' \in {Finish("failed"), Stage("published"), Stage("giving up")}
    BY <1>4 DEF FindsRewritten, Publishes, GivesUp
  <2>2. Kept(client')
    BY <1>1, <2>1, EditAt
  <2>3. UNCHANGED steady /\ (client.direction = "upload" => UNCHANGED mine)
    BY <1>4 DEF FindsRewritten, Publishes, GivesUp
  <2>4. QED
    BY <2>2, <2>3 DEF Expected, Kept
<1>5. CASE Lose \/ Refuse
  <2>1. asked # None /\ NoReceipt(asked.request.op) /\ UNCHANGED <<mine, steady>>
    BY <1>5 DEF Lose, Refuse
  <2>2. Kept(client')
    BY <1>1, <2>1, NoReceiptKeeps DEF CommandInv
  <2>3. QED
    BY <2>1, <2>2 DEF Expected, Kept
<1>6. CASE ReceiveLate \/ UNCHANGED transferVars
  BY <1>1, <1>6 DEF ReceiveLate, transferVars, Expected
<1>7. CASE Rewrites
  BY <1>1, <1>7 DEF Rewrites, Rewritten, Expected
<1>8. ASSUME NEW th \in Threads, Receive(th) \/ Serve(th)
      PROVE  /\ Kept(client')
             /\ steady' => steady /\ Expected' = Expected
             /\ client.direction = "download" => steady' = steady
  <2>1. UNCHANGED <<mine, steady>>
    BY <1>8 DEF Receive, Serve
  <2>2. Kept(client')
    BY <1>1, <1>8, ReceiveReplies, ServeReplies, ReplyKeeps
  <2>3. QED
    BY <2>1, <2>2 DEF Expected, Kept
<1>9. QED
  BY <1>2, <1>3, <1>4, <1>5, <1>6, <1>7, <1>8 DEF TransferNext, Others, allVars

(* The request a thread waits with. *)
LEMMA AcceptsWaits ==
  ASSUME Inv, NEW th \in Threads, NEW m, Accepts(th, m), thread'[th].at = "waiting"
  PROVE  thread'[th].request = m.request
<1>1. thread \in [Threads -> ThreadStates]
  BY DEF Inv, ThreadInv
<1>2. thread'[th] # Idle
  BY IdleState
<1>3. ASSUME NEW t \in Ids, NEW at \in {"begun", "hashing"},
             thread' = [thread EXCEPT ![th] = [Idle EXCEPT !.at = at, !.transfer = t]]
      PROVE  FALSE
  BY <1>1, <1>3, IdleState
<1>4. ~UNCHANGED thread
  BY <1>2, AcceptsThread
<1>5. ASSUME NEW direction, NEW content,
             \/ UploadBegin(th, m.key, client.path, content, FALSE)
             \/ DownloadBegin(th, m.key, client.path)
             \/ Rebegin(th, m.key, direction, client.path, content, FALSE)
      PROVE  FALSE
  BY <1>3, <1>4, <1>5 DEF UploadBegin, DownloadBegin, Rebegin, Listed, Begun
<1>6. Request(th, m.request, m.transfer)
  BY <1>5 DEF Accepts
<1>7. CASE records[m.transfer].hashing
  <2>1. PICK x : x = [at |-> "waiting", transfer |-> m.transfer, request |-> m.request]
    OBVIOUS
  <2>2. x.request = m.request /\ thread' = [thread EXCEPT ![th] = x]
    BY <1>6, <1>7, <2>1 DEF Request
  <2>3. QED
    BY <1>1, <2>2
<1>8. CASE ~records[m.transfer].hashing
  <2>1. PICK recs, staged : Perform(th, m.request, m.transfer, recs, staged)
    BY <1>6, <1>8 DEF Request
  <2>2. m.transfer \in Ids
    BY <1>6 DEF Request, Listed, Begun
  <2>3. Free(th)
    BY <1>3, <2>1, <2>2 DEF Perform, UploadChunk, DownloadChunk, End, CommitStarts, Inspect
  <2>4. QED
    BY <1>1, <1>2, <2>3 DEF Free
<1>9. QED
  BY <1>7, <1>8

LEMMA ContinuesWaits ==
  ASSUME Inv, NEW th \in Threads, Continues(th)
  PROVE  thread'[th].at # "waiting"
<1>1. thread \in [Threads -> ThreadStates]
  BY DEF Inv, ThreadInv
<1>2. CASE Free(th)
  BY <1>1, <1>2, IdleState DEF Free
<1>3. CASE ~Free(th)
  <2>1. PICK t \in Ids : thread' = [thread EXCEPT ![th] = [Idle EXCEPT !.at = "hashing", !.transfer = t]]
    <3>1. Perform(th, thread[th].request, thread[th].transfer,
                  Used(records, thread[th].transfer), temps)
      BY <1>3 DEF Continues, RebeginEnds, DownloadHashed, CommitHashed, Resume
    <3>2. thread[th].transfer \in Ids
      BY <1>3, ContinuesThread, WaiterBegun DEF Begun
    <3>3. QED
      BY <1>3, <3>1, <3>2 DEF Perform, UploadChunk, DownloadChunk, End, CommitStarts, Inspect
  <2>2. QED
    BY <1>1, <2>1, IdleState
<1>4. QED
  BY <1>2, <1>3

Fitting(c) ==
  /\ asked # None => FitsRequest(asked.request, c)
  /\ late # None => FitsRequest(late.request, c)
  /\ \A th \in Threads : thread[th].at = "waiting" => FitsRequest(thread[th].request, c)

(* What a step begins is what a request asked it to begin. *)
LEMMA StepStarts ==
  ASSUME Inv, CommandInv, client # Absent, [TransferNext]_allVars
  PROVE  BegunIn(records') = Begun \/ \E m \in {asked, late} : m # None /\ Starting(m)
<1>1. Begun = BegunIn(records) /\ <<>> \in Seq(Bytes)
  BY TypedRecords
<1>2. CASE UNCHANGED vars
  BY <1>1, <1>2 DEF vars
<1>3. ASSUME NEW m \in {asked, late}, m # None, NEW th \in Threads, Accepts(th, m)
      PROVE  BegunIn(records') = Begun \/ Starting(m)
  <2>1. Sendable(m) /\ client.path \in Paths
    BY <1>3 DEF CommandInv, ShapeInv
  <2>2. CASE Begin(m.request.op)
    <3>1. FitsRequest(m.request, <<>>)
      BY <2>2 DEF FitsRequest, Begin
    <3>2. QED
      BY <1>1, <1>3, <2>1, <3>1, AcceptsMoves
  <2>3. CASE ~Begin(m.request.op)
    <3>1. Request(th, m.request, m.transfer) /\ m.request \in Requests
      BY <1>3, <2>1, <2>3 DEF Accepts, Begin, Sendable
    <3>2. QED
      BY <1>1, <3>1, RequestStep DEF AllFollow
  <2>4. QED
    BY <2>2, <2>3
<1>4. ASSUME NEW m, Rejects(m)
      PROVE  BegunIn(records') = Begun
  BY <1>1, <1>4, RejectsMoves DEF Moves
<1>5. ASSUME NEW th \in Threads, Continues(th)
      PROVE  BegunIn(records') = Begun
  BY <1>1, <1>5, RebeginEndsStep, DownloadHashedStep, ResumeStep, CommitHashedStep
     DEF Continues, AllFollow
<1>6. CASE Sweeps \/ TimePasses \/ CloseBegins \/ CloseEnds \/ OthersWrite(Sources)
  BY <1>1, <1>6, AsideMoves, OtherProgramMoves DEF OthersWrite
<1>7. CASE \/ UploadStarts \/ UploadResumes \/ SendsChunk \/ SendsCommit \/ FindsRewritten
           \/ DownloadStarts \/ AsksChunk \/ Publishes \/ GivesUp \/ SendsEnd
           \/ Lose \/ Rewrites \/ UNCHANGED allVars
  <2>1. UNCHANGED vars
    BY <1>7 DEF UploadStarts, UploadResumes, SendsChunk, SendsCommit, FindsRewritten,
                DownloadStarts, AsksChunk, Publishes, GivesUp, SendsEnd, Lose, Rewrites, Starts,
                Ask, allVars
  <2>2. QED
    BY <1>2, <2>1
<1>8. QED
  BY <1>3, <1>4, <1>5, <1>6, <1>7 DEF TransferNext, Others, Refuse, ReceiveLate, Receive, Serve

(* What a step makes of the transfers, of the file they read and of the    *)
(* requests that wait.                                                     *)
LEMMA StepMoves ==
  ASSUME Inv, CommandInv, Inv', OthersFollow, client # Absent, [TransferNext]_allVars,
         NEW c \in Seq(Bytes), Fitting(c)
  PROVE  /\ AllPass(records, records', c)
         /\ \A th \in Threads : thread'[th].at = "waiting" => FitsRequest(thread'[th].request, c)
         /\ (\A t \in Begun : records[t].direction = "download" /\ records[t].path = client.path) =>
              \/ UNCHANGED files
              \/ /\ BegunIn(records') = Begun
                 /\ \A t \in Begun : Intact(records'[t]) => files'[client.path] = files[client.path]
<1> DEFINE Goal ==
      /\ AllPass(records, records', c)
      /\ \A th \in Threads : thread'[th].at = "waiting" => FitsRequest(thread'[th].request, c)
      /\ (\A t \in Begun : records[t].direction = "download" /\ records[t].path = client.path) =>
           \/ UNCHANGED files
           \/ /\ BegunIn(records') = Begun
              /\ \A t \in Begun : Intact(records'[t]) => files'[client.path] = files[client.path]
<1>1. CASE UNCHANGED vars
  <2>1. Moves(records, records, c) /\ Begun = BegunIn(records)
    BY SameMoves, TypedRecords
  <2>2. UNCHANGED <<records, files, thread>>
    BY <1>1 DEF vars, disk
  <2>3. QED
    BY <2>1, <2>2 DEF Moves, Fitting
<1>2. ASSUME NEW m \in {asked, late}, m # None, NEW th \in Threads, Accepts(th, m)
      PROVE  Goal
  <2>1. Sendable(m) /\ client.path \in Paths /\ FitsRequest(m.request, c)
    BY <1>2 DEF CommandInv, ShapeInv, Fitting
  <2>2. AllPass(records, records', c) /\ Starting(m) /\ UNCHANGED files
    BY <1>2, <2>1, AcceptsMoves
  <2>3. \A u \in Threads : thread'[u].at = "waiting" => FitsRequest(thread'[u].request, c)
    BY <1>2, <2>1, AcceptsThread, AcceptsWaits DEF Fitting
  <2>4. QED
    BY <1>2, <2>2, <2>3
<1>3. ASSUME NEW m, Rejects(m)
      PROVE  Goal
  <2>1. Moves(records, records', c) /\ Begun = BegunIn(records) /\ UNCHANGED <<files, thread>>
    BY <1>3, RejectsMoves, TypedRecords
  <2>2. QED
    BY <2>1 DEF Moves, Fitting
<1>4. ASSUME NEW th \in Threads, Continues(th)
      PROVE  Goal
  <2>1. /\ AllPass(records, records', c) /\ BegunIn(records') = Begun
        /\ (\A t \in Begun : records[t].direction = "download") => UNCHANGED files
    BY <1>4, ContinuesMoves DEF Fitting
  <2>2. \A u \in Threads : thread'[u].at = "waiting" => FitsRequest(thread'[u].request, c)
    BY <1>4, ContinuesThread, ContinuesWaits DEF Fitting
  <2>3. QED
    BY <2>1, <2>2
<1>5. CASE Sweeps \/ TimePasses \/ CloseBegins \/ CloseEnds
  BY <1>5, AsideMoves DEF Fitting
<1>6. CASE OthersWrite(Sources)
  <2>1. PICK path \in Paths, content \in Contents \cup {None} : OtherProgram(path, content)
    BY <1>6 DEF OthersWrite
  <2>2. /\ AllPass(records, records', c) /\ BegunIn(records') = Begun /\ UNCHANGED thread
        /\ \A t \in Begun : records[t].direction = "download" /\ Intact(records'[t]) =>
             files'[records[t].path] = files[records[t].path]
    BY <2>1, OtherProgramMoves
  <2>3. QED
    BY <2>2 DEF Fitting
<1>7. CASE \/ UploadStarts \/ UploadResumes \/ SendsChunk \/ SendsCommit \/ FindsRewritten
           \/ DownloadStarts \/ AsksChunk \/ Publishes \/ GivesUp \/ SendsEnd
           \/ Lose \/ Rewrites
  <2>1. UNCHANGED vars
    BY <1>7 DEF UploadStarts, UploadResumes, SendsChunk, SendsCommit, FindsRewritten,
                DownloadStarts, AsksChunk, Publishes, GivesUp, SendsEnd, Lose, Rewrites, Starts, Ask
  <2>2. QED
    BY <1>1, <2>1
<1>8. CASE Refuse \/ ReceiveLate
  BY <1>2, <1>3, <1>8 DEF Refuse, ReceiveLate
<1>9. ASSUME NEW th \in Threads, Receive(th) \/ Serve(th)
      PROVE  Goal
  BY <1>2, <1>4, <1>9 DEF Receive, Serve
<1>10. CASE UNCHANGED allVars
  BY <1>1, <1>10 DEF allVars
<1>11. QED
  BY <1>5, <1>6, <1>7, <1>8, <1>9, <1>10 DEF TransferNext, Others

(* The requests a step leaves: those there were, and one the command asks. *)
LEMMA StepRequests ==
  ASSUME [TransferNext]_allVars, client # Absent
  PROVE  /\ late' \in {None, late, asked}
         /\ \/ asked' \in {None, asked}
            \/ /\ UploadStarts \/ UploadResumes \/ DownloadStarts
               \/ SendsChunk \/ SendsCommit \/ AsksChunk \/ SendsEnd
<1>1. CASE UploadStarts \/ UploadResumes \/ DownloadStarts
           \/ SendsChunk \/ SendsCommit \/ AsksChunk \/ SendsEnd
  BY <1>1 DEF UploadStarts, UploadResumes, DownloadStarts, SendsChunk, SendsCommit, AsksChunk,
              SendsEnd, Starts, Ask
<1>2. CASE FindsRewritten \/ Publishes \/ GivesUp \/ Lose \/ Refuse \/ ReceiveLate \/ Rewrites
           \/ UNCHANGED transferVars
  BY <1>2 DEF FindsRewritten, Publishes, GivesUp, Lose, Refuse, ReceiveLate, Rewrites, transferVars
<1>3. ASSUME NEW th \in Threads, Receive(th) \/ Serve(th)
      PROVE  late' = late /\ asked' \in {None, asked}
  BY <1>3 DEF Receive, Serve, Reply
<1>4. QED
  BY <1>1, <1>2, <1>3 DEF TransferNext, Others, allVars

LEMMA OwnStep ==
  ASSUME Inv, CommandInv, Inv', OthersFollow, client # Absent, [TransferNext]_allVars, OwnInv
  PROVE  OwnInv'
<1>1. Kept(client')
  BY StepKeeps
<1>2. client'.direction = client.direction /\ client'.path = client.path
  BY <1>1 DEF Kept
<1>3. asked # None => asked.request.op \in OwnOps
  BY DEF CommandInv, AskedInv, ShapeInv, OwnOps
<1>4. late' # None => late'.request.op \in OwnOps
  BY <1>3, StepRequests DEF OwnInv
<1>5. OwnOps' = OwnOps
  BY <1>2 DEF OwnOps
<1>6. \A t \in Begun : records'[t].direction = records[t].direction
                       /\ records'[t].path = records[t].path
  BY DEF OthersFollow, Follows, Manifest
<1>7. ASSUME NEW m \in {asked, late}, m # None, Starting(m), NEW t \in BegunIn(records') \ Begun
      PROVE  records'[t].direction = client.direction /\ records'[t].path = client.path
  <2>1. m.request.op \in OwnOps /\ Begin(m.request.op)
    BY <1>3, <1>7 DEF OwnInv, Starting
  <2>2. client.direction \in {"upload", "download"}
    BY DEF CommandInv, ShapeInv
  <2>3. QED
    BY <1>7, <2>1, <2>2 DEF Starting, OwnOps, Begin, UploadOps, DownloadOps
<1>8. \A t \in BegunIn(records') :
        records'[t].direction = client.direction /\ records'[t].path = client.path
  BY <1>6, <1>7, StepStarts DEF OwnInv
<1>9. Begun' = BegunIn(records')
  BY DEF Begun, BegunIn
<1>10. QED
  BY <1>2, <1>4, <1>5, <1>8, <1>9 DEF OwnInv

(* What the command asks for fits what it expects. *)
LEMMA AskedFits ==
  ASSUME CommandInv, client # Absent, steady', client.direction = "upload",
         UploadStarts \/ UploadResumes \/ DownloadStarts
           \/ SendsChunk \/ SendsCommit \/ AsksChunk \/ SendsEnd
  PROVE  asked' # None => Fits(asked', mine')
<1>0. ShapeInv
  BY DEF CommandInv
<1>1. ASSUME NEW op \in {"upload-begin", "upload-status"}, NEW key, Starts(op, key)
      PROVE  Fits(asked', mine')
  <2>1. client'.digest = mine /\ mine' = mine
    BY <1>0, <1>1, StartsKeeps DEF Starts
  <2>2. asked'.request = Plain(op) /\ asked'.content = client'.digest
    BY <1>1 DEF Starts, Ask
  <2>3. asked'.request.op = op
    BY <2>2, PlainRequest
  <2>4. QED
    BY <2>1, <2>2, <2>3 DEF Fits, FitsRequest
<1>2. CASE UploadStarts \/ UploadResumes \/ DownloadStarts
  BY <1>1, <1>2 DEF UploadStarts, UploadResumes, DownloadStarts
<1>3. CASE SendsChunk
  <2>1. /\ client.offset < Len(mine')
        /\ asked'.request = Chunk(client.offset, mine'[client.offset + 1])
    BY <1>3 DEF SendsChunk, Ask
  <2>2. /\ asked'.request.offset = client.offset /\ asked'.request.op = "upload-chunk"
        /\ asked'.request.data = mine'[client.offset + 1]
    BY <2>1 DEF Chunk
  <2>3. QED
    BY <2>1, <2>2 DEF Fits, FitsRequest
<1>4. CASE SendsCommit
  <2>1. asked'.request = Plain("upload-commit")
    BY <1>4 DEF SendsCommit, Ask
  <2>2. asked'.request.op = "upload-commit"
    BY <2>1, PlainRequest
  <2>3. QED
    BY <2>2 DEF Fits, FitsRequest
<1>5. CASE AsksChunk \/ SendsEnd
  BY <1>5 DEF AsksChunk, SendsEnd, CommandInv, UploadInv
<1>6. QED
  BY <1>2, <1>3, <1>4, <1>5

(* The requests of a download store nothing. *)
LEMMA DownloadFits ==
  ASSUME NEW m, m.request.op \in DownloadOps, NEW c
  PROVE  Fits(m, c)
  BY DEF DownloadOps, Fits, FitsRequest

LEMMA ExpectedType ==
  ASSUME CommandInv, client # Absent
  PROVE  Expected \in Seq(Bytes)
<1>1. <<>> \in Seq(Bytes)
  OBVIOUS
<1>2. client.direction = "upload" => mine \in Contents
  BY DEF CommandInv, UploadInv
<1>3. QED
  BY <1>1, <1>2 DEF Expected

LEMMA FitStep ==
  ASSUME Inv, CommandInv, Inv', CommandInv', OthersFollow, client # Absent, [TransferNext]_allVars,
         OwnInv, FitInv
  PROVE  FitInv'
<1> SUFFICES ASSUME steady' PROVE FitInv'
  BY DEF FitInv
<1>1. steady /\ Expected' = Expected /\ Kept(client')
  BY StepKeeps
<1>2. PICK c : c = Expected
  OBVIOUS
<1>3. c \in Seq(Bytes) /\ Fitting(c)
  BY <1>1, <1>2, ExpectedType DEF FitInv, Fits, Fitting
<1>4. asked # None => Fits(asked, c)
  BY <1>1, <1>2 DEF FitInv
<1>5. late' # None => Fits(late', c)
  BY <1>1, <1>2, <1>4, StepRequests DEF FitInv
<1>6. client'.direction = client.direction /\ client'.path = client.path
  BY <1>1 DEF Kept
<1>7. asked' # None => Fits(asked', c)
  <2>1. CASE asked' \in {None, asked}
    BY <1>4, <2>1
  <2>2. CASE asked' \notin {None, asked} /\ client.direction = "upload"
    <3>1. Fits(asked', mine')
      BY <2>2, StepRequests, AskedFits
    <3>2. mine' = c
      BY <1>1, <1>2, <1>6, <2>2 DEF Expected
    <3>3. QED
      BY <3>1, <3>2
  <2>3. CASE asked' \notin {None, asked} /\ client.direction # "upload"
    <3>1. asked'.request.op \in DownloadOps
      BY <1>6, <2>3 DEF CommandInv, ShapeInv, AskedInv
    <3>2. QED
      BY <3>1, DownloadFits
  <2>4. QED
    BY <2>1, <2>2, <2>3
<1>8. /\ AllPass(records, records', c)
      /\ BegunIn(records') = Begun \/ \E m \in {asked, late} : m # None /\ Starting(m)
      /\ \A th \in Threads : thread'[th].at = "waiting" => FitsRequest(thread'[th].request, c)
  BY <1>3, StepMoves, StepStarts
<1>9. ASSUME NEW t \in Begun
      PROVE  /\ Beginning(records'[t].stored, c)
             /\ client.direction = "upload" => records'[t].content = c
  <2>1. Passes(records[t], records'[t], c)
    BY <1>8, TypedRecords DEF AllPass
  <2>2. records'[t].content = records[t].content
    BY DEF OthersFollow, Follows, Manifest
  <2>3. QED
    BY <1>1, <1>2, <2>1, <2>2 DEF FitInv, Passes
<1>10. ASSUME NEW m \in {asked, late}, m # None, Starting(m), NEW t \in BegunIn(records') \ Begun
       PROVE  /\ Beginning(records'[t].stored, c)
              /\ client.direction = "upload" => records'[t].content = c
  <2>1. records'[t].stored = <<>> /\ Begin(m.request.op)
    BY <1>10 DEF Starting
  <2>2. ASSUME client.direction = "upload"
        PROVE  records'[t].content = c
    <3>1. m.request.op \in UploadOps
      BY <1>10, <2>2 DEF OwnInv, OwnOps, CommandInv, AskedInv
    <3>2. m.request.op = "upload-begin" /\ Fits(m, c)
      BY <1>1, <1>2, <1>10, <2>1, <3>1 DEF Begin, UploadOps, FitInv
    <3>3. QED
      BY <1>10, <3>2 DEF Starting, Fits
  <2>3. QED
    BY <1>3, <2>1, <2>2, EmptyBeginning
<1>11. Begun' = BegunIn(records')
  BY DEF Begun, BegunIn
<1>12. QED
  BY <1>1, <1>2, <1>5, <1>6, <1>7, <1>8, <1>9, <1>10, <1>11 DEF FitInv

(* A chunk of a download is read in one step, and granted only while the   *)
(* file is open and untouched.                                             *)
LEMMA PerformedChunk ==
  ASSUME NEW th, NEW t \in Ids, NEW recs, NEW staged, NEW request,
         request.op = "download-chunk", Perform(th, request, t, recs, staged)
  PROVE  /\ Free(th)
         /\ Admits(t, records[t], request) /\ ~records[t].touched /\ records'[t].state = "downloading"
              => Intact(records[t])
<1>1. Free(th)
  BY DEF Perform, UploadChunk, DownloadChunk, End, CommitStarts, Inspect
<1>2. Admits(t, records[t], request) => records[t].held
  BY DEF Admits
<1>3. QED
  BY <1>1, <1>2 DEF Intact

LEMMA AcceptedChunk ==
  ASSUME Inv, NEW th \in Threads, NEW m, m.request.op = "download-chunk", Accepts(th, m)
  PROVE  /\ thread'[th] = Idle \/ (thread'[th].at = "waiting" /\ thread'[th].request = m.request)
         /\ thread'[th] = Idle /\ Granted(m, m.transfer) => Intact(records[m.transfer])
<1> DEFINE t == m.transfer
<1>1. thread \in [Threads -> ThreadStates]
  BY DEF Inv, ThreadInv
<1>2. Request(th, m.request, t)
  BY DEF Accepts
<1>3. t \in Ids /\ records[t] \in Records /\ t \notin Swept
  BY <1>2, TypedRecords DEF Request, Listed, BegunIn
<1>4. CASE records[t].hashing
  <2>1. PICK x : x = [at |-> "waiting", transfer |-> t, request |-> m.request]
    OBVIOUS
  <2>2. thread' = [thread EXCEPT ![th] = x] /\ x.at = "waiting" /\ x.request = m.request
    BY <1>2, <1>4, <2>1 DEF Request
  <2>3. QED
    BY <1>1, <2>2, IdleState
<1>5. CASE ~records[t].hashing
  <2>1. PICK recs : recs = Used(AfterSweep, t)
    OBVIOUS
  <2>2. Perform(th, m.request, t, recs, Unstaged(Swept))
    BY <1>2, <1>5, <2>1 DEF Request
  <2>3. /\ Free(th)
        /\ Admits(t, records[t], m.request) /\ ~records[t].touched /\ records'[t].state = "downloading" => Intact(records[t])
    BY <1>3, <2>2, PerformedChunk
  <2>4. QED
    BY <1>1, <2>3 DEF Free, Granted
<1>6. QED
  BY <1>4, <1>5

LEMMA ResumedChunk ==
  ASSUME Inv, NEW th \in Threads, Continues(th), thread[th].at = "waiting",
         NEW m, thread[th].request = m.request, m.request.op = "download-chunk"
  PROVE  /\ thread'[th] = Idle
         /\ closed = "open" /\ Granted(m, thread[th].transfer) => Intact(records[thread[th].transfer])
<1> DEFINE t == thread[th].transfer
<1>1. thread \in [Threads -> ThreadStates]
  BY DEF Inv, ThreadInv
<1>2. Resume(th)
  BY DEF Continues, RebeginEnds, DownloadHashed, CommitHashed
<1>3. t \in Ids /\ records[t] \in Records
  BY WaiterBegun, TypedRecords DEF BegunIn
<1>4. CASE closed # "open"
  BY <1>1, <1>2, <1>4 DEF Resume, Free
<1>5. CASE closed = "open"
  <2>1. PICK recs : recs = Used(records, t)
    OBVIOUS
  <2>2. Perform(th, m.request, t, recs, temps)
    BY <1>2, <1>5, <2>1 DEF Resume
  <2>3. /\ Free(th)
        /\ Admits(t, records[t], m.request) /\ ~records[t].touched /\ records'[t].state = "downloading" => Intact(records[t])
    BY <1>3, <2>2, PerformedChunk
  <2>4. QED
    BY <1>1, <2>3 DEF Free, Granted
<1>6. QED
  BY <1>4, <1>5

-----------------------------------------------------------------------------
(* What a step makes of the file a download reads. *)
LEMMA FileStep ==
  ASSUME Inv, CommandInv, Inv', OthersFollow, client # Absent, [TransferNext]_allVars,
         OwnInv, FitInv, DownloadInv, client.direction = "download"
  PROVE  /\ \A t \in Begun : /\ t \in Begun'
                             /\ Intact(records'[t]) => /\ Intact(records[t])
                                                       /\ files'[client.path] = files[client.path]
         /\ \A t \in Begun' : Intact(records'[t]) => /\ files'[client.path] # None
                                                     /\ files'[client.path] = files[client.path]
<1>1. steady /\ \A t \in Begun : Intact(records[t]) => files[client.path] # None
  BY DEF DownloadInv
<1>2. PICK c \in Seq(Bytes) : c = Expected
  BY ExpectedType
<1>3. Fitting(c)
  BY <1>1, <1>2 DEF FitInv, Fits, Fitting
<1>4. Begun' = BegunIn(records') /\ Begun = BegunIn(records) /\ Begun \subseteq Begun'
  BY TypedRecords DEF Begun, BegunIn, OthersFollow
<1>5. /\ AllPass(records, records', c)
      /\ BegunIn(records') = Begun \/ \E m \in {asked, late} : m # None /\ Starting(m)
      /\ \/ UNCHANGED files
         \/ /\ BegunIn(records') = Begun
            /\ \A t \in Begun : Intact(records'[t]) => files'[client.path] = files[client.path]
  BY <1>3, StepMoves, StepStarts DEF OwnInv
<1>6. ASSUME NEW t \in Begun, Intact(records'[t])
      PROVE  Intact(records[t]) /\ files'[client.path] = files[client.path]
  BY <1>4, <1>5, <1>6 DEF AllPass, Passes
<1>7. ASSUME NEW m \in {asked, late}, m # None, Starting(m), NEW t \in BegunIn(records') \ Begun
      PROVE  files[client.path] # None /\ files'[client.path] = files[client.path]
  <2>1. m.request.op \in DownloadOps
    BY <1>7 DEF OwnInv, OwnOps, CommandInv, AskedInv
  <2>2. m.request.op = "download-begin"
    BY <1>7, <2>1 DEF Starting, Begin, DownloadOps
  <2>3. QED
    BY <1>4, <1>5, <1>7, <2>2 DEF Starting
<1>8. QED
  BY <1>1, <1>4, <1>5, <1>6, <1>7

-----------------------------------------------------------------------------
(* The command's side of a download *)

LEMMA FinishedReceives ==
  ASSUME ShapeInv, client # Absent, Receives, NEW how \in {"succeeded", "failed"},
         client' = Finish(how)
  PROVE  Receives' /\ client'.at = how
<1>1. client = [f \in Fields |-> client[f]]
  BY DEF ShapeInv
<1>2. PICK empty \in Seq(Bytes) : empty = <<>>
  <2>1. <<>> \in Seq(Bytes)
    OBVIOUS
  <2>2. QED
    BY <2>1
<1>3. client' = [client EXCEPT !.at = how, !.offset = 0, !.got = empty]
  BY <1>2 DEF Finish
<1>4. /\ client'.at = how /\ client'.offset = 0 /\ client'.got = empty
      /\ client'.digest = client.digest
  BY <1>1, <1>3 DEF Fields
<1>5. Len(empty) = 0
  BY <1>2
<1>6. QED
  BY <1>2, <1>4, <1>5 DEF Receives

LEMMA StagedReceives ==
  ASSUME ShapeInv, client # Absent, Receives, NEW at \in {"published", "giving up"},
         client' = Stage(at)
  PROVE  Receives' /\ client'.at = at
<1>1. client = [f \in Fields |-> client[f]]
  BY DEF ShapeInv
<1>2. /\ client'.at = at /\ client'.offset = client.offset /\ client'.got = client.got
      /\ client'.digest = client.digest
  BY <1>1 DEF Stage, Fields
<1>3. QED
  BY <1>2 DEF Receives

LEMMA NoReceiptReceives ==
  ASSUME ShapeInv, client # Absent, Receives, NEW op \in DownloadOps, NoReceipt(op)
  PROVE  Receives' /\ client'.at # "ready"
<1>1. client' \in {Stage("giving up"), Finish("succeeded"), Finish("failed")}
  BY DEF NoReceipt
<1>2. QED
  BY <1>1, FinishedReceives, StagedReceives

LEMMA BegunReceives ==
  ASSUME Inv, ShapeInv, client # Absent, Receives, client.at = "begun", NEW t,
         DownloadReceipt("download-begin", t)
  PROVE  /\ Receives' /\ client'.at \in {"failed", "ready", "giving up"}
         /\ client'.transfer = t /\ client'.digest = Hashed(t)
<1>1. client = [f \in Fields |-> client[f]]
  BY DEF ShapeInv
<1>2. PICK digest : digest = Hashed(t)
  OBVIOUS
<1>3. PICK known : known = [client EXCEPT !.transfer = t, !.digest = digest]
  OBVIOUS
<1>4. PICK at \in {"failed", "ready", "giving up"} : client' = [known EXCEPT !.at = at]
  BY <1>2, <1>3 DEF DownloadReceipt
<1>5. /\ client'.at = at /\ client'.offset = client.offset /\ client'.got = client.got
      /\ client'.digest = digest /\ client'.transfer = t
  BY <1>1, <1>3, <1>4 DEF Fields
<1>6. digest \in Contents \cup {None}
  <2>1. files \in [Paths -> Contents \cup {None}] /\ client.path \in Paths
    BY DEF Inv, OtherInv, ShapeInv
  <2>2. QED
    BY <1>2, <2>1 DEF Hashed
<1>7. client.got = <<>>
  BY DEF Receives
<1>8. QED
  BY <1>2, <1>5, <1>6, <1>7 DEF Receives

LEMMA ChunkReceives ==
  ASSUME ShapeInv, client # Absent, Receives, client.at = "ready", NEW t,
         client.digest # None, files[client.path] = client.digest,
         client.offset < Len(client.digest), DownloadReceipt("download-chunk", t)
  PROVE  /\ Receives' /\ client'.at = "ready"
         /\ client'.transfer = client.transfer /\ client'.digest = client.digest
<1>1. client = [f \in Fields |-> client[f]]
  BY DEF ShapeInv
<1>2. PICK byte : byte = client.digest[client.offset + 1]
  OBVIOUS
<1>3. /\ client.digest \in Seq(Bytes) /\ client.got \in Seq(Bytes)
      /\ client.offset = Len(client.got)
  BY DEF Receives
<1>4. byte \in Bytes
  BY <1>2, <1>3
<1>5. PICK got \in Seq(Bytes) : got = Append(client.got, byte)
  <2>1. Append(client.got, byte) \in Seq(Bytes)
    BY <1>3, <1>4
  <2>2. QED
    BY <2>1
<1>6. PICK offset : offset = client.offset + 1
  OBVIOUS
<1>7. client' = [client EXCEPT !.offset = offset, !.got = got]
  <2>1. client' = [client EXCEPT !.offset = @ + 1,
                                 !.got = Append(@, files[client.path][client.offset + 1])]
    BY DEF DownloadReceipt
  <2>2. client' = [client EXCEPT !.offset = client.offset + 1, !.got = Append(client.got, byte)]
    BY <1>1, <1>2, <2>1 DEF Fields
  <2>3. QED
    BY <1>5, <1>6, <2>2
<1>8. /\ client'.at = client.at /\ client'.offset = offset /\ client'.got = got
      /\ client'.digest = client.digest /\ client'.transfer = client.transfer
  BY <1>1, <1>7 DEF Fields
<1>9. Len(got) = offset /\ Beginning(got, client.digest)
  <2>1. Len(client.got) \in Nat /\ Len(client.digest) \in Nat /\ Len(got) = Len(client.got) + 1
    BY <1>3, <1>4, <1>5
  <2>2. \A i \in 1..Len(got) : got[i] = IF i = Len(client.got) + 1 THEN byte ELSE client.got[i]
    BY <1>3, <1>4, <1>5, <2>1
  <2>3. client.got # <<>> => Beginning(client.got, client.digest)
    BY DEF Receives
  <2>4. Beginning(client.got, client.digest)
    BY <1>3, <2>3, EmptyBeginning
  <2>5. QED
    BY <1>2, <1>3, <1>6, <2>1, <2>2, <2>4 DEF Beginning
<1>10. QED
  BY <1>8, <1>9 DEF Receives

(* A reply to a download. *)
LEMMA ReplyReceives ==
  ASSUME Inv, CommandInv, client # Absent, asked # None, client.direction = "download",
         Receives, AsksInOrder, ReadsHashed,
         NEW t \in BegunIn(records'), NEW refused, Reply(t, refused),
         asked.request.op = "download-chunk" =>
           t = client.transfer /\ (~refused /\ Granted(asked, t) => Intact(records[t])),
         Begun' = BegunIn(records'),
         \A u \in Begun : /\ u \in Begun'
                          /\ Intact(records'[u]) => /\ Intact(records[u])
                                                    /\ files'[client.path] = files[client.path],
         \A u \in Begun' : Intact(records'[u]) => /\ files'[client.path] # None
                                                  /\ files'[client.path] = files[client.path],
         client'.path = client.path
  PROVE  Receives' /\ ReadsHashed'
<1>1. asked.request.op \in DownloadOps /\ ShapeInv
  BY DEF CommandInv, AskedInv
<1>2. CASE NoReceipt(asked.request.op)
  BY <1>1, <1>2, NoReceiptReceives DEF ReadsHashed
<1>3. CASE ~NoReceipt(asked.request.op)
  <2>1. ~refused /\ Granted(asked, t) /\ DownloadReceipt(asked.request.op, t)
    BY <1>3 DEF Reply
  <2>2. CASE asked.request.op = "download-begin"
    <3>1. client.at = "begun"
      BY <2>2 DEF AsksInOrder
    <3>2. /\ Receives' /\ client'.transfer = t /\ client'.digest = Hashed(t)
      BY <1>1, <2>1, <2>2, <3>1, BegunReceives
    <3>3. Intact(records'[t]) => /\ Hashed(t) = files'[client.path]
                                 /\ files'[client.path] # None
      BY DEF Hashed, Intact
    <3>4. QED
      BY <3>2, <3>3 DEF ReadsHashed
  <2>3. CASE asked.request.op = "download-chunk"
    <3>1. client.at = "ready" /\ t = client.transfer /\ Intact(records[t])
      BY <2>1, <2>3 DEF AsksInOrder
    <3>2. t \in Begun /\ client.digest # None /\ files[client.path] = client.digest
      BY <3>1 DEF ReadsHashed
    <3>3. client.offset < Len(client.digest)
      BY <2>3, <3>2 DEF AsksInOrder
    <3>4. /\ Receives' /\ client'.transfer = client.transfer /\ client'.digest = client.digest
      BY <1>1, <2>1, <2>3, <3>1, <3>2, <3>3, ChunkReceives
    <3>5. QED
      BY <3>1, <3>2, <3>4 DEF ReadsHashed
  <2>4. CASE asked.request.op = "download-end"
    <3>1. PICK how \in {"succeeded", "failed"} : client' = Finish(how)
      BY <2>1, <2>4 DEF DownloadReceipt
    <3>2. Receives' /\ client'.at = how
      BY <1>1, <3>1, FinishedReceives
    <3>3. QED
      BY <3>1, <3>2 DEF ReadsHashed
  <2>5. QED
    BY <1>1, <2>2, <2>3, <2>4 DEF DownloadOps
<1>4. QED
  BY <1>2, <1>3

(* The thread that serves a chunk waits with it. *)
ServesChunk ==
  serving # None /\ asked.request.op = "download-chunk" =>
    thread[serving].at = "waiting" /\ thread[serving].request = asked.request

LEMMA ServesStep ==
  ASSUME Inv, CommandInv, Inv', CommandInv', OthersFollow, client # Absent, [TransferNext]_allVars,
         ServesChunk
  PROVE  ServesChunk'
<1> SUFFICES ASSUME serving' # None, asked'.request.op = "download-chunk"
             PROVE  thread'[serving'].at = "waiting" /\ thread'[serving'].request = asked'.request
  BY DEF ServesChunk
<1>1. asked' # None
  BY DEF CommandInv, ServingInv
<1>2. ASSUME UNCHANGED <<asked, serving>>, thread'[serving] = thread[serving]
      PROVE  thread'[serving'].at = "waiting" /\ thread'[serving'].request = asked'.request
  BY <1>2 DEF ServesChunk
<1>3. CASE \/ UploadStarts \/ UploadResumes \/ DownloadStarts
           \/ SendsChunk \/ SendsCommit \/ AsksChunk \/ SendsEnd
  <2>1. serving' = serving /\ (asked = None \/ Resting)
    BY <1>3 DEF UploadStarts, UploadResumes, DownloadStarts, SendsChunk, SendsCommit, AsksChunk,
                SendsEnd, Starts, Ask, Goes
  <2>2. QED
    BY <2>1, NoneServed
<1>4. CASE FindsRewritten \/ Publishes \/ GivesUp \/ Rewrites \/ UNCHANGED allVars
  BY <1>2, <1>4 DEF FindsRewritten, Publishes, GivesUp, Rewrites, allVars, transferVars, vars
<1>5. CASE Lose \/ Refuse
  BY <1>1, <1>5 DEF Lose, Refuse
<1>6. CASE ReceiveLate
  <2>1. UNCHANGED <<asked, serving>>
    BY <1>6 DEF ReceiveLate
  <2>2. serving \in Threads /\ thread[serving].at # "free"
    BY <2>1 DEF CommandInv, ServingInv
  <2>3. CASE Rejects(late)
    BY <1>2, <2>1, <2>3 DEF Rejects, SweepFails, vars
  <2>4. ASSUME NEW th \in Threads, Accepts(th, late)
        PROVE  thread'[serving] = thread[serving]
    BY <2>2, <2>4, AcceptsThread, IdleState
  <2>5. QED
    BY <1>2, <1>6, <2>1, <2>3, <2>4 DEF ReceiveLate
<1>7. ASSUME NEW th \in Threads, Receive(th)
      PROVE  thread'[serving'].at = "waiting" /\ thread'[serving'].request = asked'.request
  <2>1. thread'[th] # Idle
    BY <1>1, <1>7 DEF Receive, Reply
  <2>2. serving' = th /\ asked' = asked /\ Accepts(th, asked)
    BY <1>7, <2>1 DEF Receive
  <2>3. QED
    BY <2>1, <2>2, AcceptedChunk
<1>8. ASSUME NEW th \in Threads, Serve(th)
      PROVE  thread'[serving'].at = "waiting" /\ thread'[serving'].request = asked'.request
  <2>1. Continues(th) /\ ~(th = serving /\ thread'[th] = Idle) /\ UNCHANGED <<asked, serving>>
    BY <1>1, <1>8 DEF Serve, Reply
  <2>2. /\ serving \in Threads /\ thread[serving].at = "waiting"
        /\ thread[serving].request = asked.request /\ asked.request.op = "download-chunk"
    BY <2>1 DEF ServesChunk, CommandInv, ServingInv
  <2>3. th # serving
    BY <2>1, <2>2, ResumedChunk
  <2>4. QED
    BY <1>2, <2>1, <2>2, <2>3, ContinuesThread
<1>9. CASE UNCHANGED <<thread, transferVars>>
  BY <1>2, <1>9 DEF transferVars
<1>10. Sweeps \/ TimePasses \/ CloseBegins \/ CloseEnds \/ OthersWrite(Sources) => UNCHANGED thread
  BY DEF Sweeps, Refused, SweepFails, TimePasses, GoesIdle, CloseBegins, CloseEnds,
         OthersWrite, OtherProgram
<1>11. QED
  BY <1>3, <1>4, <1>5, <1>6, <1>7, <1>8, <1>9, <1>10 DEF TransferNext, Others

(* What a download asks for next. *)
LEMMA OrderStep ==
  ASSUME Inv, CommandInv, Inv', CommandInv', OthersFollow, client # Absent, [TransferNext]_allVars,
         client.direction = "download", AsksInOrder
  PROVE  AsksInOrder'
<1> SUFFICES ASSUME asked' # None PROVE AsksInOrder'
  BY DEF AsksInOrder
<1>1. CASE asked' = asked /\ UNCHANGED client
  BY <1>1 DEF AsksInOrder
<1>2. CASE UploadStarts \/ UploadResumes \/ DownloadStarts
  <2>1. PICK key : Starts("download-begin", key)
    BY <1>2 DEF UploadStarts, UploadResumes, DownloadStarts
  <2>2. client'.at = "begun"
    BY <2>1, StartsKeeps DEF CommandInv
  <2>3. asked'.request.op = "download-begin"
    BY <2>1, PlainRequest DEF Starts, Ask
  <2>4. QED
    BY <2>2, <2>3 DEF AsksInOrder
<1>3. CASE AsksChunk
  <2>1. asked'.request = Plain("download-chunk")
    BY <1>3 DEF AsksChunk, Ask
  <2>2. asked'.request.op = "download-chunk"
    BY <2>1, PlainRequest
  <2>3. QED
    BY <1>3, <2>2 DEF AsksInOrder, AsksChunk, Goes
<1>4. CASE SendsEnd
  <2>1. asked'.request = Plain("download-end")
    BY <1>4 DEF SendsEnd, Ask
  <2>2. asked'.request.op = "download-end"
    BY <2>1, PlainRequest
  <2>3. QED
    BY <2>2 DEF AsksInOrder
<1>5. ~SendsChunk /\ ~SendsCommit /\ ~FindsRewritten /\ ~Lose /\ ~Refuse
  BY DEF SendsChunk, SendsCommit, FindsRewritten, Lose, Refuse
<1>6. ~Publishes /\ ~GivesUp
  BY DEF Publishes, GivesUp, Goes
<1>7. CASE ReceiveLate \/ Rewrites \/ UNCHANGED transferVars
  BY <1>1, <1>7 DEF ReceiveLate, Rewrites, transferVars
<1>8. ASSUME NEW th \in Threads, Receive(th) \/ Serve(th)
      PROVE  asked' = asked /\ UNCHANGED client
  BY <1>8 DEF Receive, Serve, Reply
<1>9. QED
  BY <1>1, <1>2, <1>3, <1>4, <1>5, <1>6, <1>7, <1>8 DEF TransferNext, Others, allVars

LEMMA DownloadStep ==
  ASSUME Inv, CommandInv, Inv', CommandInv', OthersFollow, client # Absent, [TransferNext]_allVars,
         OwnInv, FitInv, DownloadInv
  PROVE  DownloadInv'
<1>1. /\ Kept(client') /\ client'.direction = client.direction /\ client'.path = client.path
      /\ client.direction = "download" => steady' = steady
  BY StepKeeps DEF Kept
<1> SUFFICES ASSUME client.direction = "download" PROVE DownloadInv'
  BY <1>1 DEF DownloadInv
<1>2. steady /\ Receives /\ AsksInOrder /\ ReadsHashed /\ ServesChunk
  BY DEF DownloadInv, ServesChunk
<1>3. /\ \A t \in Begun : /\ t \in Begun'
                          /\ Intact(records'[t]) => /\ Intact(records[t])
                                                    /\ files'[client.path] = files[client.path]
      /\ \A t \in Begun' : Intact(records'[t]) => /\ files'[client.path] # None
                                                  /\ files'[client.path] = files[client.path]
  BY FileStep
<1>4. AsksInOrder' /\ ServesChunk'
  BY <1>2, OrderStep, ServesStep
<1>5. ShapeInv /\ Begun' = BegunIn(records')
  BY DEF CommandInv, Begun, BegunIn
<1>6. Receives' /\ ReadsHashed'
  <2>1. CASE UNCHANGED client
    BY <1>2, <1>3, <2>1 DEF Receives, ReadsHashed
  <2>2. CASE UploadStarts \/ UploadResumes \/ DownloadStarts
    <3>1. PICK op, key : Starts(op, key)
      BY <2>2 DEF UploadStarts, UploadResumes, DownloadStarts
    <3>2. /\ client'.at = "begun" /\ client'.got = client.got /\ client'.offset = client.offset
          /\ client'.digest = None
      BY <1>5, <3>1, StartsKeeps
    <3>3. client.got = <<>>
      BY <1>2, <3>1 DEF Starts, Resting, Receives
    <3>4. QED
      BY <1>2, <3>2, <3>3 DEF Receives, ReadsHashed
  <2>3. CASE Publishes \/ GivesUp
    BY <1>2, <1>5, <2>3, StagedReceives DEF Publishes, GivesUp, ReadsHashed
  <2>4. CASE Lose \/ Refuse
    <3>1. asked # None /\ NoReceipt(asked.request.op)
      BY <2>4 DEF Lose, Refuse
    <3>2. asked.request.op \in DownloadOps
      BY <3>1 DEF CommandInv, AskedInv
    <3>3. QED
      BY <1>2, <1>5, <3>1, <3>2, NoReceiptReceives DEF ReadsHashed
  <2>5. ASSUME NEW th \in Threads, Receive(th), ~UNCHANGED client
        PROVE  Receives' /\ ReadsHashed'
    <3>1. /\ asked # None /\ thread'[th] = Idle /\ Accepts(th, asked)
          /\ Reply(TransferOf(asked), FALSE) /\ TransferOf(asked) \in BegunIn(records')
      BY <2>5, ReceiveReplies DEF Receive
    <3>2. asked.request.op = "download-chunk" =>
            /\ TransferOf(asked) = client.transfer
            /\ Granted(asked, TransferOf(asked)) => Intact(records[TransferOf(asked)])
      <4>1. ASSUME asked.request.op = "download-chunk"
            PROVE  TransferOf(asked) = asked.transfer /\ asked.transfer = client.transfer
        BY <3>1, <4>1 DEF TransferOf, Begin, CommandInv, AskedInv
      <4>2. QED
        BY <3>1, <4>1, AcceptedChunk
    <3>3. QED
      BY <1>1, <1>2, <1>3, <1>5, <3>1, <3>2, ReplyReceives
  <2>6. ASSUME NEW th \in Threads, Serve(th), ~UNCHANGED client
        PROVE  Receives' /\ ReadsHashed'
    <3>1. PICK refused : refused = (thread[th].at = "waiting" /\ closed # "open")
      OBVIOUS
    <3>2. /\ asked # None /\ th = serving /\ Continues(th)
          /\ thread[th].transfer \in BegunIn(records')
          /\ Reply(thread[th].transfer, refused)
      BY <2>6, <3>1, ServeReplies DEF Serve
    <3>3. asked.request.op = "download-chunk" =>
            /\ thread[th].transfer = client.transfer
            /\ ~refused /\ Granted(asked, thread[th].transfer) => Intact(records[thread[th].transfer])
      <4>1. ASSUME asked.request.op = "download-chunk"
            PROVE  /\ thread[th].at = "waiting" /\ thread[th].request = asked.request
                   /\ thread[th].transfer = client.transfer
        <5>1. th # None
          OBVIOUS
        <5>2. QED
          BY <1>2, <3>2, <4>1, <5>1 DEF ServesChunk, CommandInv, ServingInv, AskedInv, Begin
      <4>2. QED
        BY <3>1, <3>2, <4>1, ResumedChunk
    <3>4. QED
      BY <1>1, <1>2, <1>3, <1>5, <3>2, <3>3, ReplyReceives
  <2>7. CASE ~UNCHANGED client /\ ~\E th \in Threads : Receive(th) \/ Serve(th)
    <3>1. UploadStarts \/ UploadResumes \/ DownloadStarts \/ Publishes \/ GivesUp \/ Lose \/ Refuse
      <4>1. ~SendsChunk /\ ~SendsCommit /\ ~AsksChunk /\ ~SendsEnd /\ ~ReceiveLate /\ ~Rewrites
            /\ ~UNCHANGED transferVars
        BY <2>7 DEF SendsChunk, SendsCommit, AsksChunk, SendsEnd, ReceiveLate, Rewrites, transferVars
      <4>2. ~FindsRewritten
        BY DEF FindsRewritten
      <4>3. QED
        BY <2>7, <4>1, <4>2 DEF TransferNext, Others, allVars
    <3>2. QED
      BY <2>2, <2>3, <2>4, <3>1
  <2>8. QED
    BY <2>1, <2>5, <2>6, <2>7
<1>7. QED
  BY <1>1, <1>2, <1>3, <1>4, <1>6 DEF DownloadInv, ServesChunk

-----------------------------------------------------------------------------
ContentInv == OwnInv /\ FitInv /\ DownloadInv

LEMMA ContentStep ==
  ASSUME Inv, CommandInv, Inv', CommandInv', OthersFollow, [TransferNext]_allVars, ContentInv
  PROVE  ContentInv'
<1>1. CASE client = Absent
  <2>1. UNCHANGED client
    <3>1. Absent.direction = None /\ Absent.at = "absent"
      BY DEF Absent
    <3>2. asked = None /\ late = None /\ serving = None
      BY <1>1 DEF CommandInv, ShapeInv
    <3>3. ~\E th \in Threads : Serve(th) /\ th = serving
      BY <3>2
    <3>4. QED
      BY <1>1, <3>1, <3>2, <3>3 DEF TransferNext, Others, allVars, transferVars, UploadStarts,
         UploadResumes, DownloadStarts, SendsChunk, SendsCommit, FindsRewritten, AsksChunk,
         Publishes, GivesUp, SendsEnd, Lose, Refuse, ReceiveLate, Rewrites, Receive, Serve, Goes,
         Starts
  <2>2. client'.direction # "download" /\ client' = Absent
    BY <1>1, <2>1 DEF Absent
  <2>3. Absent' = Absent
    BY DEF Absent
  <2>4. QED
    BY <2>2, <2>3 DEF ContentInv, OwnInv, FitInv, DownloadInv
<1>2. CASE client # Absent
  <2>1. DownloadInv' /\ FitInv'
    BY <1>2, DownloadStep, FitStep DEF ContentInv
  <2>2. OwnInv'
    BY <1>2, OwnStep DEF ContentInv
  <2>3. QED
    BY <2>1, <2>2 DEF ContentInv
<1>3. QED
  BY <1>1, <1>2

LEMMA InitContent == TransferInit => ContentInv
<1> SUFFICES ASSUME TransferInit PROVE ContentInv
  OBVIOUS
<1>1. asked = None /\ serving = None /\ late = None /\ steady = TRUE /\ Init
  BY DEF TransferInit
<1>2. Begun = {} /\ \A th \in Threads : thread[th].at # "waiting"
  BY <1>1, IdleState DEF Init, Begun
<1>3. OwnInv /\ FitInv
  BY <1>1, <1>2 DEF OwnInv, FitInv
<1>4. CASE client = Absent
  BY <1>3, <1>4 DEF ContentInv, DownloadInv, Absent
<1>5. CASE client # Absent
  <2>1. PICK path \in Paths, direction \in {"upload", "download"} :
          client = [Absent EXCEPT !.at = "new", !.direction = direction, !.path = path]
    BY <1>5 DEF TransferInit
  <2>2. /\ client.at = "new" /\ client.digest = None /\ client.got = <<>> /\ client.offset = 0
    BY <2>1 DEF Absent
  <2>3. <<>> \in Seq(Bytes) /\ Len(<<>>) = 0
    OBVIOUS
  <2>4. Receives /\ AsksInOrder /\ ReadsHashed
    BY <1>1, <2>2, <2>3 DEF Receives, AsksInOrder, ReadsHashed
  <2>5. QED
    BY <1>1, <1>2, <1>3, <2>4 DEF ContentInv, DownloadInv
<1>6. QED
  BY <1>4, <1>5

LEMMA ContentInvariance == TransferSpec => []ContentInv
<1>1. TransferInit => ContentInv
  BY InitContent
<1>2. Inv /\ CommandInv /\ (Inv /\ CommandInv)' /\ ContentInv /\ [TransferNext]_allVars =>
        ContentInv'
  BY StepIsNext, InvStep, ContentStep
<1>3. QED
  BY <1>1, <1>2, TransferInvariance, PTL DEF TransferSpec

LEMMA BeginningIsPrefix ==
  ASSUME NEW c \in Seq(Bytes), NEW s \in Seq(Bytes), Beginning(s, c)
  PROVE  IsPrefix(s, c)
<1>1. Len(s) \in Nat /\ Len(c) \in Nat /\ Len(s) <= Len(c)
  BY DEF Beginning
<1>2. SubSeq(c, 1, Len(s)) = s
  <2>1. /\ SubSeq(c, 1, Len(s)) \in Seq(Bytes) /\ Len(SubSeq(c, 1, Len(s))) = Len(s)
        /\ \A i \in 1..Len(s) : SubSeq(c, 1, Len(s))[i] = c[i]
    BY <1>1
  <2>2. QED
    BY <1>1, <2>1 DEF Beginning
<1>3. QED
  BY <1>1, <1>2 DEF IsPrefix

(* What has been transferred so far is a beginning of one file, whatever   *)
(* chunks are lost, repeated, executed late or resumed, however the files  *)
(* change, and however many transfers the command begins.                  *)
THEOREM TransfersABeginning == TransferSpec => []TransferredIsBeginning
<1>1. ASSUME Inv, CommandInv, ContentInv
      PROVE  TransferredIsBeginning
  <2>1. ASSUME client # Absent, steady, NEW t \in Begun, records[t].direction = "upload"
        PROVE  IsPrefix(records[t].stored, records[t].content)
    <3>1. client.direction = "upload" /\ Expected \in Seq(Bytes)
      BY <1>1, <2>1, ExpectedType DEF ContentInv, OwnInv
    <3>2. Beginning(records[t].stored, Expected) /\ records[t].content = Expected
      BY <1>1, <2>1, <3>1 DEF ContentInv, FitInv
    <3>3. records[t].stored \in Seq(Bytes)
      BY <1>1, TypedRecords DEF BegunIn, Records
    <3>4. QED
      BY <3>1, <3>2, <3>3, BeginningIsPrefix
  <2>2. ASSUME client.direction = "download", client.got # <<>>
        PROVE  client.digest # None /\ IsPrefix(client.got, client.digest)
    <3>1. /\ client.digest # None /\ Beginning(client.got, client.digest)
          /\ client.digest \in Contents \cup {None} /\ client.got \in Seq(Bytes)
      BY <1>1, <2>2 DEF ContentInv, DownloadInv, Receives
    <3>2. QED
      BY <3>1, BeginningIsPrefix
  <2>3. QED
    BY <2>1, <2>2 DEF TransferredIsBeginning
<1>2. QED
  BY <1>1, TransferInvariance, ContentInvariance, PTL

=============================================================================
