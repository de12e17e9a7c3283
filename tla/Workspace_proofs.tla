-------------------------- MODULE Workspace_proofs ---------------------------
(***************************************************************************)
(* Proofs about Workspace: type correctness, the limits of open transfers, *)
(* who owns a hash, who owns a staging file, and what a commit publishes,  *)
(* for any number of handler threads, clients, files and transfers.        *)
(***************************************************************************)
EXTENDS Workspace, FiniteSetTheorems, TLAPS

-----------------------------------------------------------------------------
(* The invariant, of the transfers recs, the staging files staged, those   *)
(* that are linked and those that leaked, and the handler threads.         *)

BegunIn(recs) == {t \in Ids : recs[t] # None}

(* A transfer that holds its file is listed; a staging file belongs to an  *)
(* upload that holds it, or nothing removes it any more; and a transfer    *)
(* that is hashed is in progress.                                          *)
TransferInv(r, t, staged, leaks) ==
  /\ r.held => r.listed
  /\ r.held /\ r.direction = "upload" => t \in staged
  /\ t \in staged => r.direction = "upload" /\ (r.held \/ t \in leaks)
  /\ r.hashing => r.held /\ r.state \in InProgress

StoreInv(recs, staged, links, leaks) ==
  /\ recs \in [Ids -> Records \cup {None}]
  /\ staged \subseteq BegunIn(recs) /\ leaks \subseteq BegunIn(recs)
  /\ links \subseteq staged /\ links \subseteq leaks
  /\ \A t \in BegunIn(recs) : TransferInv(recs[t], t, staged, leaks)

ThreadStates == [at : {"free", "begun", "waiting", "hashing"},
                 transfer : Ids \cup {0}, request : Requests \cup {None}]

ThreadInv(recs, threads) ==
  /\ threads \in [Threads -> ThreadStates]
  /\ \A th \in Threads :
       /\ threads[th].at # "free" => threads[th].transfer \in BegunIn(recs)
       /\ threads[th].at = "waiting" => threads[th].request \in Requests

(* Who hashes which transfer. *)
Hashes(threads, th, t) == threads[th].at = "hashing" /\ threads[th].transfer = t

HashInv(recs, threads) ==
  /\ \A th \in Threads, t \in Ids :
       Hashes(threads, th, t) => t \in BegunIn(recs) /\ recs[t].hashing
  /\ \A t \in BegunIn(recs) : recs[t].hashing => \E th \in Threads : Hashes(threads, th, t)
  /\ \A th, other \in Threads, t \in Ids :
       Hashes(threads, th, t) /\ Hashes(threads, other, t) => th = other

OtherInv ==
  /\ files \in [Paths -> Contents \cup {None}]
  /\ closed \in {"open", "closing", "closed"}
  /\ closed = "closed" => \A t \in Begun : ~records[t].listed

Inv ==
  /\ StoreInv(records, temps, linked, leaked)
  /\ ThreadInv(records, thread) /\ HashInv(records, thread)
  /\ OtherInv /\ LimitsHeld

(* What a client began a transfer with. *)
Manifest(r) == <<r.direction, r.key, r.path, r.content>>

(* What a step makes of the transfers begun before it. *)
Follows(r, s) ==
  /\ s.direction = r.direction /\ Manifest(s) = Manifest(r)
  /\ s.held => r.held
  /\ s.listed => r.listed
  /\ r.state = "committed" => s.state = "committed"

AllFollow(old, new) ==
  /\ BegunIn(new) = BegunIn(old)
  /\ \A t \in BegunIn(old) : Follows(old[t], new[t])

SameHashing(old, new) == \A t \in BegunIn(old) : new[t].hashing = old[t].hashing

USE WorkspaceAssumption, NoneAssumption DEF WorkspaceAssumption, NoneAssumption

-----------------------------------------------------------------------------
(* One record *)

LEMMA ClosedRecord ==
  ASSUME NEW r \in Records
  PROVE  /\ Closed(r) \in Records /\ Closed(r).held = FALSE
         /\ Closed(r).hashing = r.hashing /\ Closed(r).state = r.state
         /\ Closed(r).listed = r.listed /\ Closed(r).direction = r.direction
         /\ Manifest(Closed(r)) = Manifest(r)
<1>1. <<>> \in Seq(Bytes)
  OBVIOUS
<1>2. PICK empty \in Seq(Bytes) : empty = <<>>
  BY <1>1
<1>3. Closed(r) = [r EXCEPT !.held = FALSE, !.stored = empty, !.touched = FALSE]
  BY <1>2 DEF Closed
<1>4. QED
  BY <1>3 DEF Records, Manifest

LEMMA DelistedRecord ==
  ASSUME NEW r \in Records, NEW s, s = [r EXCEPT !.listed = FALSE, !.stale = FALSE]
  PROVE  /\ s \in Records /\ s.listed = FALSE
         /\ s.hashing = r.hashing /\ s.state = r.state
         /\ s.held = r.held /\ s.direction = r.direction /\ Manifest(s) = Manifest(r)
  BY DEF Records, Manifest

LEMMA StaleRecord ==
  ASSUME NEW r \in Records, NEW b \in BOOLEAN, NEW s, s = [r EXCEPT !.stale = b]
  PROVE  /\ s \in Records /\ s.listed = r.listed
         /\ s.hashing = r.hashing /\ s.state = r.state
         /\ s.held = r.held /\ s.direction = r.direction /\ Manifest(s) = Manifest(r)
  BY DEF Records, Manifest

LEMMA TouchedRecord ==
  ASSUME NEW r \in Records, NEW s, s = [r EXCEPT !.touched = TRUE]
  PROVE  /\ s \in Records /\ s.listed = r.listed
         /\ s.hashing = r.hashing /\ s.state = r.state
         /\ s.held = r.held /\ s.direction = r.direction /\ Manifest(s) = Manifest(r)
  BY DEF Records, Manifest

(* A step follows another. *)
LEMMA FollowsOn ==
  ASSUME NEW old, NEW mid, NEW new, AllFollow(old, mid), AllFollow(mid, new)
  PROVE  AllFollow(old, new)
  BY DEF AllFollow, Follows

LEMMA HashingOn ==
  ASSUME NEW old, NEW mid, NEW new, BegunIn(mid) = BegunIn(old),
         SameHashing(old, mid), SameHashing(mid, new)
  PROVE  SameHashing(old, new)
  BY DEF SameHashing

-----------------------------------------------------------------------------
(* What the pieces of a locked step leave of the transfers *)

(* One record is replaced. *)
LEMMA PutStore ==
  ASSUME NEW recs, NEW staged, NEW links, NEW leaks, StoreInv(recs, staged, links, leaks),
         NEW t \in BegunIn(recs), NEW r \in Records, TransferInv(r, t, staged, leaks)
  PROVE  /\ StoreInv(Put(recs, t, r), staged, links, leaks)
         /\ BegunIn(Put(recs, t, r)) = BegunIn(recs)
<1>1. Put(recs, t, r) \in [Ids -> Records \cup {None}] /\ t \in Ids
  BY DEF Put, StoreInv, BegunIn
<1>2. \A u \in Ids : Put(recs, t, r)[u] = IF u = t THEN r ELSE recs[u]
  BY DEF Put
<1>3. BegunIn(Put(recs, t, r)) = BegunIn(recs)
  BY <1>2 DEF BegunIn
<1>4. QED
  BY <1>1, <1>2, <1>3 DEF StoreInv, BegunIn

LEMMA PutFollows ==
  ASSUME NEW recs, NEW t \in BegunIn(recs), NEW r, r # None, Follows(recs[t], r)
  PROVE  AllFollow(recs, Put(recs, t, r))
  BY DEF AllFollow, Follows, Put, BegunIn

LEMMA PutHashing ==
  ASSUME NEW recs, NEW t \in BegunIn(recs), NEW r, r.hashing = recs[t].hashing
  PROVE  SameHashing(recs, Put(recs, t, r))
  BY DEF SameHashing, Put, BegunIn

(* Transfers nobody hashes are closed, their staging files removed. *)
LEMMA DisposedStore ==
  ASSUME NEW recs, NEW staged, NEW links, NEW leaks, StoreInv(recs, staged, links, leaks),
         NEW gone \in SUBSET BegunIn(recs), \A t \in gone : ~recs[t].hashing
  PROVE  /\ StoreInv(Disposed(recs, gone), staged \ (gone \ leaks), links, leaks)
         /\ AllFollow(recs, Disposed(recs, gone)) /\ SameHashing(recs, Disposed(recs, gone))
         /\ \A t \in gone : ~Disposed(recs, gone)[t].held
<1> DEFINE new == Disposed(recs, gone)
<1>1. \A t \in Ids : new[t] = IF t \in gone THEN Closed(recs[t]) ELSE recs[t]
  BY DEF Disposed
<1>2. \A t \in BegunIn(recs) : recs[t] \in Records
  BY DEF StoreInv, BegunIn
<1>3. new \in [Ids -> Records \cup {None}]
  BY <1>2, ClosedRecord DEF Disposed, StoreInv, BegunIn
<1>4. BegunIn(new) = BegunIn(recs)
  BY <1>1, <1>2, ClosedRecord DEF BegunIn
<1>5. \A t \in BegunIn(recs) : TransferInv(new[t], t, staged \ (gone \ leaks), leaks)
  <2> SUFFICES ASSUME NEW t \in BegunIn(recs)
               PROVE  TransferInv(new[t], t, staged \ (gone \ leaks), leaks)
    OBVIOUS
  <2>1. TransferInv(recs[t], t, staged, leaks) /\ recs[t] \in Records /\ t \in Ids
    BY <1>2 DEF StoreInv, BegunIn
  <2>2. CASE t \in gone
    BY <1>1, <2>1, <2>2, ClosedRecord DEF TransferInv
  <2>3. CASE t \notin gone
    BY <1>1, <2>1, <2>3 DEF TransferInv
  <2>4. QED
    BY <2>2, <2>3
<1>6. StoreInv(new, staged \ (gone \ leaks), links, leaks)
  BY <1>3, <1>4, <1>5 DEF StoreInv
<1>7. AllFollow(recs, new) /\ SameHashing(recs, new)
  BY <1>1, <1>2, <1>4, ClosedRecord DEF AllFollow, Follows, SameHashing, BegunIn
<1>8. \A t \in gone : ~new[t].held
  BY <1>1, <1>2, ClosedRecord DEF BegunIn
<1>9. QED
  BY <1>6, <1>7, <1>8

(* Transfers that hold nothing leave the list. *)
LEMMA DelistedStore ==
  ASSUME NEW recs, NEW staged, NEW links, NEW leaks, StoreInv(recs, staged, links, leaks),
         NEW gone \in SUBSET BegunIn(recs), \A t \in gone : ~recs[t].held
  PROVE  /\ StoreInv(Delisted(recs, gone), staged, links, leaks)
         /\ AllFollow(recs, Delisted(recs, gone)) /\ SameHashing(recs, Delisted(recs, gone))
         /\ \A t \in gone : ~Delisted(recs, gone)[t].listed
<1> DEFINE new == Delisted(recs, gone)
           delist(t) == [recs[t] EXCEPT !.listed = FALSE, !.stale = FALSE]
<1>1. \A t \in Ids : new[t] = IF t \in gone THEN delist(t) ELSE recs[t]
  BY DEF Delisted
<1>2. \A t \in BegunIn(recs) :
        /\ recs[t] \in Records /\ delist(t) \in Records /\ delist(t).listed = FALSE
        /\ delist(t).hashing = recs[t].hashing /\ delist(t).state = recs[t].state
        /\ delist(t).held = recs[t].held /\ delist(t).direction = recs[t].direction
        /\ Manifest(delist(t)) = Manifest(recs[t])
  <2>1. \A t \in BegunIn(recs) : recs[t] \in Records
    BY DEF StoreInv, BegunIn
  <2>2. QED
    BY <2>1, DelistedRecord
<1>3. new \in [Ids -> Records \cup {None}]
  <2> HIDE DEF delist
  <2>1. \A t \in Ids : new[t] \in Records \cup {None}
    BY <1>1, <1>2 DEF StoreInv, BegunIn
  <2>2. QED
    BY <2>1 DEF Delisted
<1>4. BegunIn(new) = BegunIn(recs)
  <2> HIDE DEF delist, new
  <2>1. QED
    BY <1>1, <1>2 DEF BegunIn
<1>5. \A t \in BegunIn(recs) : TransferInv(new[t], t, staged, leaks)
  <2> HIDE DEF delist, new
  <2>1. QED
    BY <1>1, <1>2 DEF StoreInv, TransferInv, BegunIn
<1>6. StoreInv(new, staged, links, leaks)
  BY <1>3, <1>4, <1>5 DEF StoreInv
<1>7. AllFollow(recs, new) /\ SameHashing(recs, new) /\ \A t \in gone : ~new[t].listed
  <2> HIDE DEF delist, new
  <2>1. QED
    BY <1>1, <1>2, <1>4 DEF AllFollow, Follows, SameHashing, BegunIn
<1>8. QED
  BY <1>6, <1>7

(* Staging files that could not be removed stay. *)
LEMMA LeakStore ==
  ASSUME NEW recs, NEW staged, NEW links, NEW leaks, StoreInv(recs, staged, links, leaks),
         NEW left \in SUBSET BegunIn(recs), \A t \in left : recs[t].direction = "upload"
  PROVE  StoreInv(recs, staged \cup left, links, leaks \cup left)
  BY DEF StoreInv, TransferInv

LEMMA SweptTransfers ==
  Swept \subseteq Begun /\ Swept \subseteq Listed
  BY DEF Swept, Expired, Pruned, Listed

LEMMA SweptUnhashed ==
  ASSUME StoreInv(records, temps, linked, leaked), NEW t \in Swept
  PROVE  ~records[t].hashing
<1>1. t \in Begun /\ (t \in Expired \/ records[t].state \notin InProgress)
  BY DEF Swept, Expired, Pruned, Listed
<1>2. TransferInv(records[t], t, temps, leaked)
  BY <1>1 DEF StoreInv, Begun, BegunIn
<1>3. QED
  BY <1>1, <1>2 DEF Expired, TransferInv

(* What is true of recs and staged in the middle of a step. *)
Reached(recs, staged) ==
  /\ StoreInv(recs, staged, linked, leaked)
  /\ AllFollow(records, recs) /\ SameHashing(records, recs)

LEMMA SweepReached ==
  ASSUME StoreInv(records, temps, linked, leaked)
  PROVE  Reached(AfterSweep, Unstaged(Swept))
<1> Begun = BegunIn(records)
  BY DEF Begun, BegunIn
<1>1. Swept \in SUBSET BegunIn(records) /\ \A t \in Swept : ~records[t].hashing
  BY SweptTransfers, SweptUnhashed
<1> DEFINE mid == Disposed(records, Swept)
<1>2. /\ StoreInv(mid, Unstaged(Swept), linked, leaked)
      /\ AllFollow(records, mid) /\ SameHashing(records, mid)
      /\ \A t \in Swept : ~mid[t].held
  BY <1>1, DisposedStore DEF Unstaged
<1> HIDE DEF mid
<1>3. BegunIn(mid) = BegunIn(records)
  BY <1>2 DEF AllFollow
<1>4. /\ StoreInv(Delisted(mid, Swept), Unstaged(Swept), linked, leaked)
      /\ AllFollow(mid, Delisted(mid, Swept)) /\ SameHashing(mid, Delisted(mid, Swept))
  BY <1>1, <1>2, <1>3, DelistedStore
<1>5. AllFollow(records, Delisted(mid, Swept)) /\ SameHashing(records, Delisted(mid, Swept))
  BY <1>2, <1>3, <1>4, FollowsOn, HashingOn
<1>6. QED
  BY <1>4, <1>5 DEF Reached, AfterSweep, mid

(* Marking a transfer used, or idle, changes nothing the invariant names. *)
LEMMA StaleStore ==
  ASSUME NEW recs, NEW staged, NEW links, NEW leaks, StoreInv(recs, staged, links, leaks),
         NEW t \in BegunIn(recs), NEW b \in BOOLEAN, NEW new,
         new = Put(recs, t, [recs[t] EXCEPT !.stale = b])
  PROVE  /\ StoreInv(new, staged, links, leaks)
         /\ AllFollow(recs, new) /\ SameHashing(recs, new)
<1>1. PICK r : r = [recs[t] EXCEPT !.stale = b]
  OBVIOUS
<1>2. recs[t] \in Records /\ TransferInv(recs[t], t, staged, leaks)
  BY DEF StoreInv, BegunIn
<1>3. /\ r \in Records /\ r.listed = recs[t].listed
      /\ r.hashing = recs[t].hashing /\ r.state = recs[t].state
      /\ r.held = recs[t].held /\ r.direction = recs[t].direction
      /\ Manifest(r) = Manifest(recs[t])
  BY <1>1, <1>2, StaleRecord
<1>4. TransferInv(r, t, staged, leaks) /\ Follows(recs[t], r)
  BY <1>2, <1>3 DEF TransferInv, Follows
<1>5. QED
  BY <1>1, <1>3, <1>4, PutStore, PutFollows, PutHashing

LEMMA UsedReached ==
  ASSUME NEW recs, NEW staged, Reached(recs, staged), NEW t \in Begun
  PROVE  Reached(Used(recs, t), staged)
<1>1. t \in BegunIn(recs) /\ BegunIn(recs) = BegunIn(records)
  BY DEF Reached, AllFollow, Begun, BegunIn
<1>2. /\ StoreInv(Used(recs, t), staged, linked, leaked)
      /\ AllFollow(recs, Used(recs, t)) /\ SameHashing(recs, Used(recs, t))
  BY <1>1, StaleStore DEF Reached, Used
<1>3. QED
  BY <1>1, <1>2, FollowsOn, HashingOn DEF Reached

-----------------------------------------------------------------------------
(* The threads, and who hashes *)

LEMMA ThreadGoes ==
  ASSUME NEW recs, NEW threads, ThreadInv(recs, threads), NEW new, BegunIn(recs) \subseteq BegunIn(new),
         NEW th \in Threads, NEW x \in ThreadStates,
         x.at # "free" => x.transfer \in BegunIn(new), x.at = "waiting" => x.request \in Requests
  PROVE  ThreadInv(new, [threads EXCEPT ![th] = x])
<1>1. /\ [threads EXCEPT ![th] = x] \in [Threads -> ThreadStates]
      /\ \A u \in Threads : [threads EXCEPT ![th] = x][u] = IF u = th THEN x ELSE threads[u]
  BY DEF ThreadInv
<1>2. QED
  BY <1>1 DEF ThreadInv

LEMMA ThreadStays ==
  ASSUME NEW recs, NEW threads, ThreadInv(recs, threads), NEW new, BegunIn(recs) \subseteq BegunIn(new)
  PROVE  ThreadInv(new, threads)
  BY DEF ThreadInv

LEMMA IdleState ==
  /\ Idle \in ThreadStates /\ Idle.at = "free"
  /\ \A at \in {"begun", "hashing"}, t \in Ids :
       /\ [Idle EXCEPT !.at = at, !.transfer = t] \in ThreadStates
       /\ [Idle EXCEPT !.at = at, !.transfer = t].at = at
       /\ [Idle EXCEPT !.at = at, !.transfer = t].transfer = t
  BY DEF Idle, ThreadStates

(* Nobody begins or ends to hash. *)
LEMMA SameHash ==
  ASSUME NEW recs, NEW threads, HashInv(recs, threads), NEW new, NEW after,
         BegunIn(new) = BegunIn(recs), SameHashing(recs, new),
         \A th \in Threads, t \in Ids : Hashes(after, th, t) <=> Hashes(threads, th, t)
  PROVE  HashInv(new, after)
<1>1. \A th \in Threads, t \in Ids : Hashes(after, th, t) => t \in BegunIn(new) /\ new[t].hashing
  BY DEF HashInv, SameHashing
<1>2. \A t \in BegunIn(new) : new[t].hashing => \E th \in Threads : Hashes(after, th, t)
  <2> SUFFICES ASSUME NEW t \in BegunIn(new), new[t].hashing
               PROVE  \E th \in Threads : Hashes(after, th, t)
    OBVIOUS
  <2>1. t \in BegunIn(recs) /\ recs[t].hashing /\ t \in Ids
    BY DEF SameHashing, BegunIn
  <2>2. PICK th \in Threads : Hashes(threads, th, t)
    BY <2>1 DEF HashInv
  <2>3. QED
    BY <2>1, <2>2
<1>3. \A th, other \in Threads, t \in Ids : Hashes(after, th, t) /\ Hashes(after, other, t) => th = other
  BY DEF HashInv
<1>4. QED
  BY <1>1, <1>2, <1>3 DEF HashInv

(* A thread begins to hash t, which nobody hashed. *)
LEMMA HashEnters ==
  ASSUME NEW recs, NEW threads, ThreadInv(recs, threads), HashInv(recs, threads), NEW new,
         NEW th \in Threads, threads[th].at # "hashing", NEW t \in Ids,
         BegunIn(new) = BegunIn(recs) \cup {t}, new[t].hashing,
         t \in BegunIn(recs) => ~recs[t].hashing,
         \A u \in BegunIn(recs) \ {t} : new[u].hashing = recs[u].hashing
  PROVE  HashInv(new, [threads EXCEPT ![th] = [Idle EXCEPT !.at = "hashing", !.transfer = t]])
<1>0. PICK x : x = [Idle EXCEPT !.at = "hashing", !.transfer = t]
  OBVIOUS
<1>1. x.at = "hashing" /\ x.transfer = t
  BY <1>0, IdleState
<1> DEFINE after == [threads EXCEPT ![th] = x]
<1>2. \A u \in Threads : after[u] = IF u = th THEN x ELSE threads[u]
  BY DEF ThreadInv
<1> HIDE DEF after
<1>3. \A u \in Threads : ~Hashes(threads, u, t)
  BY DEF HashInv
<1>4. \A u \in Threads, i \in Ids :
        Hashes(after, u, i) <=> (IF u = th THEN i = t ELSE Hashes(threads, u, i))
  BY <1>1, <1>2 DEF Hashes
<1>5. HashInv(new, after)
  <2>1. \A u \in Threads, i \in Ids : Hashes(after, u, i) => i \in BegunIn(new) /\ new[i].hashing
    BY <1>3, <1>4 DEF HashInv
  <2>2. \A i \in BegunIn(new) : new[i].hashing => \E u \in Threads : Hashes(after, u, i)
    <3> SUFFICES ASSUME NEW i \in BegunIn(new), new[i].hashing
                 PROVE  \E u \in Threads : Hashes(after, u, i)
      OBVIOUS
    <3>1. CASE i = t
      BY <1>4, <3>1
    <3>2. CASE i # t
      <4>1. i \in BegunIn(recs) /\ recs[i].hashing /\ i \in Ids
        BY <3>2 DEF BegunIn
      <4>2. PICK u \in Threads : Hashes(threads, u, i)
        BY <4>1 DEF HashInv
      <4>3. u # th
        BY <4>2 DEF Hashes
      <4>4. QED
        BY <1>4, <4>1, <4>2, <4>3
    <3>3. QED
      BY <3>1, <3>2
  <2>3. \A u, other \in Threads, i \in Ids :
          Hashes(after, u, i) /\ Hashes(after, other, i) => u = other
    BY <1>3, <1>4 DEF HashInv
  <2>4. QED
    BY <2>1, <2>2, <2>3 DEF HashInv
<1>6. QED
  BY <1>0, <1>5 DEF after

(* The thread that hashed t is done. *)
LEMMA HashLeaves ==
  ASSUME NEW recs, NEW threads, ThreadInv(recs, threads), HashInv(recs, threads), NEW new,
         NEW th \in Threads, NEW t \in Ids, Hashes(threads, th, t),
         BegunIn(new) = BegunIn(recs), ~new[t].hashing,
         \A u \in BegunIn(recs) \ {t} : new[u].hashing = recs[u].hashing
  PROVE  HashInv(new, [threads EXCEPT ![th] = Idle])
<1> DEFINE after == [threads EXCEPT ![th] = Idle]
<1>1. \A u \in Threads : after[u] = IF u = th THEN Idle ELSE threads[u]
  BY DEF ThreadInv
<1> HIDE DEF after
<1>2. \A u \in Threads \ {th} : ~Hashes(threads, u, t)
  BY DEF HashInv
<1>3. \A u \in Threads, i \in Ids : Hashes(after, u, i) <=> u # th /\ Hashes(threads, u, i)
  BY <1>1, IdleState DEF Hashes
<1>4. \A i \in Ids : Hashes(threads, th, i) => i = t
  BY DEF Hashes
<1>5. \A u \in Threads, i \in Ids : Hashes(after, u, i) => i # t /\ Hashes(threads, u, i)
  BY <1>2, <1>3
<1>6. HashInv(new, after)
  <2>1. \A u \in Threads, i \in Ids : Hashes(after, u, i) => i \in BegunIn(new) /\ new[i].hashing
    BY <1>5 DEF HashInv
  <2>2. \A i \in BegunIn(new) : new[i].hashing => \E u \in Threads : Hashes(after, u, i)
    <3> SUFFICES ASSUME NEW i \in BegunIn(new), new[i].hashing
                 PROVE  \E u \in Threads : Hashes(after, u, i)
      OBVIOUS
    <3>1. i \in BegunIn(recs) /\ i # t /\ recs[i].hashing /\ i \in Ids
      BY DEF BegunIn
    <3>2. PICK u \in Threads : Hashes(threads, u, i)
      BY <3>1 DEF HashInv
    <3>3. QED
      BY <1>3, <1>4, <3>1, <3>2
  <2>3. \A u, other \in Threads, i \in Ids :
          Hashes(after, u, i) /\ Hashes(after, other, i) => u = other
    BY <1>5 DEF HashInv
  <2>4. QED
    BY <2>1, <2>2, <2>3 DEF HashInv
<1>7. QED
  BY <1>6 DEF after

(* A thread that is not hashing goes on to something else. *)
LEMMA GoesUnhashed ==
  ASSUME NEW recs, NEW threads, ThreadInv(recs, threads), NEW th \in Threads,
         threads[th].at # "hashing", NEW x, x.at # "hashing"
  PROVE  \A u \in Threads, t \in Ids :
           Hashes([threads EXCEPT ![th] = x], u, t) <=> Hashes(threads, u, t)
<1>1. \A u \in Threads : [threads EXCEPT ![th] = x][u] = IF u = th THEN x ELSE threads[u]
  BY DEF ThreadInv
<1>2. QED
  BY <1>1 DEF Hashes

-----------------------------------------------------------------------------
(* The limits *)

Holding(recs, direction) ==
  {t \in BegunIn(recs) : recs[t].held /\ recs[t].direction = direction}

LEMMA FiniteIds == ASSUME NEW S \in SUBSET Ids PROVE IsFiniteSet(S)
<1>1. MaxTransfers \in Int /\ 1 \in Int
  OBVIOUS
<1>2. IsFiniteSet(Ids)
  BY <1>1, FS_Interval DEF Ids
<1>3. QED
  BY <1>2, FS_Subset

LEMMA FewerHeld ==
  ASSUME NEW old, NEW new, AllFollow(old, new), NEW d
  PROVE  Cardinality(Holding(new, d)) <= Cardinality(Holding(old, d))
<1>1. Holding(new, d) \in SUBSET Holding(old, d) /\ Holding(old, d) \in SUBSET Ids
  BY DEF Holding, AllFollow, Follows, BegunIn
<1>2. QED
  BY <1>1, FiniteIds, FS_Subset

LEMMA LimitsAre ==
  LimitsHeld <=> /\ Cardinality(Holding(records, "upload")) <= UploadLimit
                 /\ Cardinality(Holding(records, "download")) <= DownloadLimit
  BY DEF LimitsHeld, Holding, Begun, BegunIn

LEMMA LimitsFollow ==
  ASSUME LimitsHeld, AllFollow(records, records')
  PROVE  LimitsHeld'
<1>1. \A d : /\ Cardinality(Holding(records', d)) <= Cardinality(Holding(records, d))
             /\ Cardinality(Holding(records', d)) \in Nat /\ Cardinality(Holding(records, d)) \in Nat
  <2> TAKE d
  <2>1. Holding(records, d) \in SUBSET Ids /\ Holding(records', d) \in SUBSET Ids
    BY DEF Holding, BegunIn
  <2>2. QED
    BY <2>1, FewerHeld, FiniteIds, FS_CardinalityType
<1>2. LimitsHeld' <=> /\ Cardinality(Holding(records', "upload")) <= UploadLimit
                      /\ Cardinality(Holding(records', "download")) <= DownloadLimit
  BY DEF LimitsHeld, Holding, Begun, BegunIn
<1>3. QED
  BY <1>1, <1>2, LimitsAre

(* What remains to be shown of a step that begins nothing. *)
LEMMA Settled ==
  ASSUME Inv, StoreInv(records', temps', linked', leaked'), AllFollow(records, records'),
         ThreadInv(records', thread'), HashInv(records', thread'),
         files' \in [Paths -> Contents \cup {None}],
         closed' \in {"open", "closing", "closed"},
         closed' = "closed" => closed = "closed" \/ \A t \in BegunIn(records') : ~records'[t].listed
  PROVE  Inv'
<1>1. LimitsHeld'
  BY LimitsFollow DEF Inv
<1>2. OtherInv'
  BY DEF Inv, OtherInv, AllFollow, Follows, Begun, BegunIn
<1>3. QED
  BY <1>1, <1>2 DEF Inv

LEMMA FreedStep ==
  ASSUME Inv, NEW th \in Threads, thread[th].at # "hashing",
         StoreInv(records', temps', linked', leaked'), AllFollow(records, records'),
         SameHashing(records, records'), Free(th), UNCHANGED <<files, closed>>
  PROVE  Inv'
<1>1. BegunIn(records') = BegunIn(records)
  BY DEF AllFollow
<1>2. ThreadInv(records', thread')
  BY <1>1, IdleState, ThreadGoes DEF Inv, Free
<1>3. HashInv(records', thread')
  <2>1. \A u \in Threads, t \in Ids : Hashes(thread', u, t) <=> Hashes(thread, u, t)
    BY IdleState, GoesUnhashed DEF Inv, Free
  <2>2. QED
    BY <1>1, <2>1, SameHash DEF Inv
<1>4. QED
  BY <1>2, <1>3, Settled DEF Inv, OtherInv

(* The same for a step in which no thread moves. *)
LEMMA StillStep ==
  ASSUME Inv, StoreInv(records', temps', linked', leaked'), AllFollow(records, records'),
         SameHashing(records, records'), UNCHANGED thread,
         files' \in [Paths -> Contents \cup {None}],
         closed' \in {"open", "closing", "closed"},
         closed' = "closed" => closed = "closed" \/ \A t \in BegunIn(records') : ~records'[t].listed
  PROVE  Inv'
<1>1. BegunIn(records') = BegunIn(records)
  BY DEF AllFollow
<1>2. ThreadInv(records', thread')
  BY <1>1, ThreadStays DEF Inv
<1>3. HashInv(records', thread')
  BY <1>1, SameHash DEF Inv
<1>4. QED
  BY <1>2, <1>3, Settled

-----------------------------------------------------------------------------
(* The operations on a transfer *)

LEMMA RequestType ==
  ASSUME NEW request \in Requests, request.op = "upload-chunk"
  PROVE  request.data \in Bytes
<1>1. \A op : Plain(op).op = op
  BY DEF Plain
<1>2. request \in UNION {{Chunk(i - 1, content[i]) : i \in DOMAIN content} : content \in Contents}
  BY <1>1 DEF Requests
<1>3. PICK content \in Contents : \E i \in DOMAIN content : request = Chunk(i - 1, content[i])
  BY <1>2
<1>5. PICK i \in DOMAIN content : request = Chunk(i - 1, content[i])
  BY <1>3
<1>4. content \in Seq(Bytes) /\ content[i] \in Bytes
  OBVIOUS
<1>6. QED
  BY <1>5, <1>4 DEF Chunk

LEMMA ReachedRecord ==
  ASSUME NEW recs, NEW staged, Reached(recs, staged), NEW t \in Begun
  PROVE  /\ t \in BegunIn(recs) /\ BegunIn(recs) = BegunIn(records)
         /\ recs[t] \in Records /\ recs[t].hashing = records[t].hashing
         /\ TransferInv(recs[t], t, staged, leaked) /\ StoreInv(recs, staged, linked, leaked)
  BY DEF Reached, AllFollow, SameHashing, StoreInv, Begun, BegunIn

LEMMA PutReached ==
  ASSUME NEW recs, NEW staged, Reached(recs, staged), NEW t \in Begun, ~records[t].hashing,
         NEW r \in Records, r.listed = recs[t].listed, r.held = recs[t].held,
         r.direction = recs[t].direction,
         Manifest(r) = Manifest(recs[t]), r.hashing = recs[t].hashing,
         recs[t].state = "committed" => r.state = "committed"
  PROVE  Reached(Put(recs, t, r), staged)
<1>1. /\ t \in BegunIn(recs) /\ BegunIn(recs) = BegunIn(records) /\ ~recs[t].hashing
      /\ TransferInv(recs[t], t, staged, leaked) /\ StoreInv(recs, staged, linked, leaked)
  BY ReachedRecord
<1>2. TransferInv(r, t, staged, leaked) /\ Follows(recs[t], r)
  BY <1>1 DEF TransferInv, Follows
<1>3. /\ StoreInv(Put(recs, t, r), staged, linked, leaked)
      /\ AllFollow(recs, Put(recs, t, r)) /\ SameHashing(recs, Put(recs, t, r))
  BY <1>1, <1>2, PutStore, PutFollows, PutHashing
<1>4. QED
  BY <1>1, <1>3, FollowsOn, HashingOn DEF Reached

LEMMA ChunkReached ==
  ASSUME NEW recs, NEW staged, Reached(recs, staged), NEW t \in Begun, ~records[t].hashing,
         NEW th, NEW request \in Requests, Admits(t, recs[t], request),
         \/ request.op = "upload-chunk" /\ UploadChunk(th, t, request, recs, staged)
         \/ request.op = "download-chunk" /\ DownloadChunk(th, t, recs, staged)
  PROVE  Reached(records', temps')
<1>1. recs[t] \in Records
  BY ReachedRecord
<1>2. recs[t].state # "committed"
  BY DEF Admits, InProgress
<1>3. PICK failed : failed = [recs[t] EXCEPT !.state = "failed"]
  OBVIOUS
<1>4. /\ failed \in Records /\ failed.listed = recs[t].listed /\ failed.held = recs[t].held
      /\ failed.direction = recs[t].direction
      /\ Manifest(failed) = Manifest(recs[t]) /\ failed.hashing = recs[t].hashing
  BY <1>1, <1>3 DEF Records, Manifest
<1>5. Reached(Put(recs, t, failed), staged)
  BY <1>2, <1>4, PutReached
<1>6. CASE request.op = "upload-chunk" /\ UploadChunk(th, t, request, recs, staged)
  <2>1. PICK longer : longer = [recs[t] EXCEPT !.stored = Append(@, request.data)]
    OBVIOUS
  <2>2. Append(recs[t].stored, request.data) \in Seq(Bytes)
    <3>1. recs[t].stored \in Seq(Bytes)
      BY <1>1 DEF Records, Manifest
    <3>2. QED
      BY <1>6, <3>1, RequestType
  <2>3. PICK stored \in Seq(Bytes) : stored = Append(recs[t].stored, request.data)
    BY <2>2
  <2>4. longer = [recs[t] EXCEPT !.stored = stored]
    BY <1>1, <2>1, <2>3 DEF Records, Manifest
  <2>5. /\ longer \in Records /\ longer.listed = recs[t].listed /\ longer.held = recs[t].held
        /\ longer.direction = recs[t].direction
        /\ Manifest(longer) = Manifest(recs[t]) /\ longer.hashing = recs[t].hashing
    BY <1>1, <2>4 DEF Records, Manifest
  <2>6. Reached(Put(recs, t, longer), staged)
    BY <1>2, <2>5, PutReached
  <2>7. QED
    BY <1>3, <1>5, <1>6, <2>1, <2>6 DEF UploadChunk
<1>7. CASE request.op = "download-chunk" /\ DownloadChunk(th, t, recs, staged)
  BY <1>3, <1>5, <1>7 DEF DownloadChunk
<1>8. QED
  BY <1>6, <1>7

LEMMA EndReached ==
  ASSUME NEW recs, NEW staged, Reached(recs, staged), NEW t \in Begun, ~records[t].hashing,
         NEW th, End(th, t, recs, staged)
  PROVE  /\ StoreInv(records', temps', linked', leaked')
         /\ AllFollow(records, records') /\ SameHashing(records, records')
<1>1. /\ t \in BegunIn(recs) /\ BegunIn(recs) = BegunIn(records) /\ recs[t] \in Records
      /\ ~recs[t].hashing /\ TransferInv(recs[t], t, staged, leaked)
      /\ StoreInv(recs, staged, linked, leaked)
  BY ReachedRecord
<1>2. PICK disposed : disposed = Disposed(recs, {t})
  OBVIOUS
<1>3. /\ StoreInv(disposed, staged \ ({t} \ leaked), linked, leaked)
      /\ AllFollow(recs, disposed) /\ SameHashing(recs, disposed)
      /\ disposed[t] = Closed(recs[t]) /\ BegunIn(disposed) = BegunIn(records)
  <2>1. {t} \in SUBSET BegunIn(recs) /\ \A u \in {t} : ~recs[u].hashing
    BY <1>1
  <2>2. /\ StoreInv(disposed, staged \ ({t} \ leaked), linked, leaked)
        /\ AllFollow(recs, disposed) /\ SameHashing(recs, disposed)
    BY <1>1, <1>2, <2>1, DisposedStore
  <2>3. QED
    BY <1>1, <1>2, <2>2 DEF AllFollow, Disposed, BegunIn
<1>4. AllFollow(records, disposed) /\ SameHashing(records, disposed)
  BY <1>1, <1>3, FollowsOn, HashingOn DEF Reached
<1>5. CASE /\ records' = Put(recs, t, [Closed(recs[t]) EXCEPT !.state = Ended(recs[t])])
           /\ temps' = IF recs[t].held THEN staged \ ({t} \ leaked) ELSE staged
           /\ UNCHANGED <<linked, leaked>>
  <2>1. PICK r : r = [Closed(recs[t]) EXCEPT !.state = Ended(recs[t])]
    OBVIOUS
  <2>2. /\ r \in Records /\ ~r.held /\ r.hashing = disposed[t].hashing
        /\ r.listed = disposed[t].listed /\ r.direction = disposed[t].direction
        /\ Manifest(r) = Manifest(disposed[t])
        /\ disposed[t].state = "committed" => r.state = "committed"
        /\ ~disposed[t].hashing
    <3>1. Ended(recs[t]) \in {"committed", "aborted", "closed"}
          /\ (recs[t].state = "committed" => Ended(recs[t]) = "committed")
      BY DEF Ended
    <3>2. Closed(recs[t]) \in Records
      BY <1>1, ClosedRecord
    <3>3. QED
      BY <1>1, <1>3, <2>1, <3>1, <3>2, ClosedRecord DEF Records, Manifest
  <2>3. records' = Put(disposed, t, r)
    BY <1>2, <1>5, <2>1 DEF Put, Disposed
  <2>4. temps' = staged \ ({t} \ leaked)
    BY <1>1, <1>5 DEF TransferInv
  <2>5. TransferInv(r, t, temps', leaked) /\ Follows(disposed[t], r)
    <3>1. TransferInv(disposed[t], t, temps', leaked)
      BY <1>1, <1>3, <2>4 DEF StoreInv
    <3>2. ~disposed[t].held
      BY <1>1, <1>3, ClosedRecord
    <3>3. QED
      BY <2>2, <3>1, <3>2 DEF TransferInv, Follows
  <2>6. /\ StoreInv(records', temps', linked', leaked')
        /\ AllFollow(disposed, records') /\ SameHashing(disposed, records')
    <3>1. t \in BegunIn(disposed) /\ r # None
      BY <1>1, <1>3, <2>2
    <3>2. StoreInv(disposed, temps', linked, leaked)
      BY <1>3, <2>4
    <3>3. UNCHANGED <<linked, leaked>>
      BY <1>5
    <3>4. StoreInv(Put(disposed, t, r), temps', linked, leaked)
      BY <2>2, <2>5, <3>1, <3>2, PutStore
    <3>5. QED
      BY <2>2, <2>3, <2>5, <3>1, <3>3, <3>4, PutFollows, PutHashing
  <2>7. QED
    BY <1>3, <1>4, <2>6, FollowsOn, HashingOn
<1>6. CASE /\ records' = Disposed(recs, {t})
           /\ \E left \in SUBSET ({t} \cap staged) :
                /\ temps' = (staged \ ({t} \ leaked)) \cup left
                /\ leaked' = leaked \cup left
           /\ UNCHANGED linked
  <2>1. PICK left \in SUBSET ({t} \cap staged) :
               /\ temps' = (staged \ ({t} \ leaked)) \cup left
               /\ leaked' = leaked \cup left
    BY <1>6
  <2>2. left \in SUBSET BegunIn(disposed) /\ \A u \in left : disposed[u].direction = "upload"
    BY <1>1, <1>3 DEF TransferInv, AllFollow, Follows
  <2>3. StoreInv(disposed, temps', linked, leaked')
    BY <1>3, <2>1, <2>2, LeakStore
  <2>4. QED
    BY <1>2, <1>4, <1>6, <2>3
<1>7. QED
  BY <1>5, <1>6 DEF End

LEMMA CommitStartsStep ==
  ASSUME Inv, NEW th \in Threads, thread[th].at # "hashing", NEW t \in Begun, ~records[t].hashing,
         NEW recs, NEW staged, Reached(recs, staged), recs[t].state \in InProgress, recs[t].held,
         CommitStarts(th, t, recs, staged), UNCHANGED closed
  PROVE  Inv' /\ AllFollow(records, records')
<1>1. /\ t \in BegunIn(recs) /\ BegunIn(recs) = BegunIn(records) /\ recs[t] \in Records
      /\ TransferInv(recs[t], t, staged, leaked) /\ StoreInv(recs, staged, linked, leaked)
  BY ReachedRecord
<1>2. PICK r : r = [recs[t] EXCEPT !.hashing = TRUE]
  OBVIOUS
<1>3. /\ r \in Records /\ r.hashing /\ r.listed = recs[t].listed /\ r.held = recs[t].held
      /\ r.direction = recs[t].direction
      /\ Manifest(r) = Manifest(recs[t]) /\ r.state = recs[t].state
  BY <1>1, <1>2 DEF Records, Manifest
<1>4. TransferInv(r, t, staged, leaked) /\ Follows(recs[t], r)
  BY <1>1, <1>3 DEF TransferInv, Follows
<1>5. /\ records' = Put(recs, t, r) /\ temps' = staged /\ UNCHANGED <<files, linked, leaked>>
      /\ thread' = [thread EXCEPT ![th] = [Idle EXCEPT !.at = "hashing", !.transfer = t]]
  BY <1>2 DEF CommitStarts
<1>6. StoreInv(records', temps', linked', leaked') /\ AllFollow(recs, records')
  BY <1>1, <1>3, <1>4, <1>5, PutStore, PutFollows
<1>7. AllFollow(records, records')
  BY <1>6, FollowsOn DEF Reached
<1>8. t \in Ids /\ BegunIn(records') = BegunIn(records) /\ t \in BegunIn(records)
  BY <1>1, <1>7 DEF AllFollow, BegunIn
<1>9. ThreadInv(records', thread')
  <2>1. PICK x \in ThreadStates : /\ x = [Idle EXCEPT !.at = "hashing", !.transfer = t]
                                  /\ x.at = "hashing" /\ x.transfer = t
    BY <1>8, IdleState
  <2>2. QED
    BY <1>5, <1>8, <2>1, ThreadGoes DEF Inv
<1>10. HashInv(records', thread')
  <2>1. records'[t].hashing /\ \A u \in BegunIn(records) \ {t} : records'[u].hashing = records[u].hashing
    BY <1>1, <1>3, <1>5 DEF Put, Reached, SameHashing, BegunIn
  <2>2. BegunIn(records') = BegunIn(records) \cup {t}
    BY <1>8
  <2>3. QED
    BY <1>5, <1>8, <2>1, <2>2, HashEnters DEF Inv
<1>11. QED
  BY <1>5, <1>6, <1>7, <1>9, <1>10, Settled DEF Inv, OtherInv

LEMMA PerformStep ==
  ASSUME Inv, NEW th \in Threads, thread[th].at # "hashing", NEW request \in Requests,
         NEW t \in Begun, ~records[t].hashing, NEW recs, NEW staged, Reached(recs, staged),
         Perform(th, request, t, recs, staged)
  PROVE  Inv' /\ AllFollow(records, records')
<1>1. CASE Inspect(th, t, recs, staged)
  BY <1>1, FreedStep DEF Inspect, Reached, Perform
<1>2. CASE Admits(t, recs[t], request) /\
           (\/ request.op = "upload-chunk" /\ UploadChunk(th, t, request, recs, staged)
            \/ request.op = "download-chunk" /\ DownloadChunk(th, t, recs, staged))
  <2>1. Reached(records', temps')
    BY <1>2, ChunkReached
  <2>2. UNCHANGED <<files, linked, leaked, closed>> /\ Free(th)
    BY <1>2 DEF UploadChunk, DownloadChunk, Perform
  <2>3. QED
    BY <2>1, <2>2, FreedStep DEF Reached
<1>3. CASE End(th, t, recs, staged)
  <2>1. UNCHANGED <<files, closed>> /\ Free(th)
    BY <1>3 DEF End, Perform
  <2>2. QED
    BY <1>3, <2>1, EndReached, FreedStep
<1>4. CASE /\ request.op = "upload-commit" /\ Admits(t, recs[t], request)
           /\ CommitStarts(th, t, recs, staged)
  <2>1. recs[t].state \in InProgress /\ recs[t].held
    BY <1>4 DEF Admits
  <2>2. QED
    BY <1>4, <2>1, CommitStartsStep DEF Perform
<1>5. QED
  BY <1>1, <1>2, <1>3, <1>4 DEF Perform

-----------------------------------------------------------------------------
(* The actions *)

LEMMA SweptStep ==
  ASSUME Inv, records' = AfterSweep, temps' = Unstaged(Swept), UNCHANGED <<files, linked, leaked, closed>>
  PROVE  /\ StoreInv(records', temps', linked', leaked') /\ AllFollow(records, records')
         /\ SameHashing(records, records') /\ BegunIn(records') = BegunIn(records)
  BY SweepReached DEF Inv, Reached, AllFollow

(* A thread that was free waits for a hash. *)
LEMMA WaitsStep ==
  ASSUME Inv, NEW th \in Threads, thread[th] = Idle, NEW x \in ThreadStates,
         x.at \in {"begun", "waiting"}, x.transfer \in Begun, x.at = "waiting" => x.request \in Requests,
         thread' = [thread EXCEPT ![th] = x],
         records' = AfterSweep, temps' = Unstaged(Swept), UNCHANGED <<files, linked, leaked, closed>>
  PROVE  Inv' /\ AllFollow(records, records')
<1>1. /\ StoreInv(records', temps', linked', leaked') /\ AllFollow(records, records')
      /\ SameHashing(records, records') /\ BegunIn(records') = BegunIn(records)
  BY SweptStep
<1>2. ThreadInv(records', thread')
  BY <1>1, ThreadGoes DEF Inv, Begun, BegunIn
<1>3. HashInv(records', thread')
  <2>1. \A u \in Threads, t \in Ids : Hashes(thread', u, t) <=> Hashes(thread, u, t)
    BY IdleState, GoesUnhashed DEF Inv
  <2>2. QED
    BY <1>1, <2>1, SameHash DEF Inv
<1>4. QED
  BY <1>1, <1>2, <1>3, Settled DEF Inv, OtherInv

LEMMA RebeginStep ==
  ASSUME Inv, NEW th \in Threads, NEW key, NEW direction, NEW path, NEW content, NEW overwrite,
         Rebegin(th, key, direction, path, content, overwrite)
  PROVE  Inv' /\ AllFollow(records, records')
<1>1. PICK t \in Listed \ Swept :
        IF records[t].hashing
        THEN /\ records' = AfterSweep
             /\ thread' = [thread EXCEPT ![th] = [Idle EXCEPT !.at = "begun", !.transfer = t]]
        ELSE records' = Used(AfterSweep, t) /\ UNCHANGED thread
  BY DEF Rebegin
<1>2. t \in Begun /\ t \in Ids
  BY DEF Listed, Begun
<1>3. thread[th] = Idle /\ temps' = Unstaged(Swept) /\ UNCHANGED <<files, linked, leaked, closed>>
  BY DEF Rebegin
<1>4. CASE records[t].hashing
  <2>1. PICK x \in ThreadStates : /\ x = [Idle EXCEPT !.at = "begun", !.transfer = t]
                                  /\ x.at = "begun" /\ x.transfer = t
    BY <1>2, IdleState
  <2>2. QED
    BY <1>1, <1>2, <1>3, <1>4, <2>1, WaitsStep
<1>5. CASE ~records[t].hashing
  <2>1. Reached(records', temps')
    BY <1>1, <1>2, <1>3, <1>5, SweepReached, UsedReached DEF Inv
  <2>2. QED
    BY <1>1, <1>3, <1>5, <2>1, StillStep DEF Reached, Inv, OtherInv
<1>6. QED
  BY <1>4, <1>5

LEMMA HereReached ==
  ASSUME Inv
  PROVE  Reached(records, temps)
  BY DEF Inv, Reached, AllFollow, Follows, SameHashing

LEMMA WaiterBegun ==
  ASSUME Inv, NEW th \in Threads, thread[th].at # "free"
  PROVE  thread[th].transfer \in Begun
  BY DEF Inv, ThreadInv, Begun, BegunIn

LEMMA RebeginEndsStep ==
  ASSUME Inv, NEW th \in Threads, RebeginEnds(th)
  PROVE  Inv' /\ AllFollow(records, records')
<1>1. PICK t \in Begun : t = thread[th].transfer
  BY WaiterBegun DEF RebeginEnds
<1>2. /\ records' = Used(records, t) /\ Free(th) /\ thread[th].at # "hashing"
      /\ UNCHANGED <<temps, linked, leaked, files, closed>>
  BY <1>1 DEF RebeginEnds, disk
<1>3. Reached(records', temps')
  BY <1>2, HereReached, UsedReached
<1>4. QED
  BY <1>2, <1>3, FreedStep DEF Reached

LEMMA RequestStep ==
  ASSUME Inv, NEW th \in Threads, NEW request \in Requests, NEW t, Request(th, request, t)
  PROVE  Inv' /\ AllFollow(records, records')
<1>1. t \in Begun /\ t \in Ids /\ thread[th] = Idle
  BY DEF Request, Listed, Begun
<1>2. CASE records[t].hashing
  <2>1. PICK x : x = [at |-> "waiting", transfer |-> t, request |-> request]
    OBVIOUS
  <2>2. x \in ThreadStates /\ x.at = "waiting" /\ x.transfer = t /\ x.request = request
    BY <1>1, <2>1 DEF ThreadStates
  <2>3. QED
    BY <1>1, <1>2, <2>1, <2>2, WaitsStep DEF Request
<1>3. CASE ~records[t].hashing
  <2>1. Reached(Used(AfterSweep, t), Unstaged(Swept))
    BY <1>1, SweepReached, UsedReached DEF Inv
  <2>2. QED
    BY <1>1, <1>3, <2>1, IdleState, PerformStep DEF Request
<1>4. QED
  BY <1>2, <1>3

LEMMA ResumeStep ==
  ASSUME Inv, NEW th \in Threads, Resume(th)
  PROVE  Inv' /\ AllFollow(records, records')
<1>1. PICK t \in Begun : t = thread[th].transfer
  BY WaiterBegun DEF Resume
<1>2. /\ thread[th].at # "hashing" /\ ~records[t].hashing /\ thread[th].request \in Requests
  BY <1>1 DEF Resume, Inv, ThreadInv
<1>3. CASE closed # "open"
  <2>1. Free(th) /\ UNCHANGED <<records, temps, linked, leaked, files, closed>>
    BY <1>3 DEF Resume, disk
  <2>2. QED
    BY <1>2, <2>1, HereReached, FreedStep DEF Reached
<1>4. CASE closed = "open"
  <2>1. Perform(th, thread[th].request, t, Used(records, t), temps)
    BY <1>1, <1>4 DEF Resume
  <2>2. Reached(Used(records, t), temps)
    BY HereReached, UsedReached
  <2>3. QED
    BY <1>2, <2>1, <2>2, PerformStep
<1>5. QED
  BY <1>3, <1>4

LEMMA RefusedStep ==
  ASSUME Inv, Refused
  PROVE  Inv' /\ AllFollow(records, records')
  BY SweptStep, StillStep DEF Refused, Inv, OtherInv

LEMMA SweepFailsStep ==
  ASSUME Inv, SweepFails
  PROVE  Inv' /\ AllFollow(records, records')
<1>1. PICK t \in Swept : \E before \in SUBSET Swept :
        /\ records' = Disposed(Delisted(Disposed(records, before), before), {t})
        /\ \E left \in SUBSET ({t} \cap temps) :
             /\ temps' = Unstaged(before \cup {t}) \cup left
             /\ leaked' = leaked \cup left
        /\ UNCHANGED <<thread, files, linked, closed>>
  BY DEF SweepFails
<1>2. PICK before \in SUBSET Swept :
        /\ records' = Disposed(Delisted(Disposed(records, before), before), {t})
        /\ \E left \in SUBSET ({t} \cap temps) :
             /\ temps' = Unstaged(before \cup {t}) \cup left
             /\ leaked' = leaked \cup left
        /\ UNCHANGED <<thread, files, linked, closed>>
  BY <1>1
<1>3. PICK left \in SUBSET ({t} \cap temps) :
        temps' = Unstaged(before \cup {t}) \cup left /\ leaked' = leaked \cup left
  BY <1>2
<1>4. StoreInv(records, temps, linked, leaked)
  BY DEF Inv
<1>5. before \cup {t} \in SUBSET BegunIn(records) /\ \A u \in before \cup {t} : ~records[u].hashing
  BY <1>4, SweptTransfers, SweptUnhashed DEF Begun, BegunIn
<1>6. PICK first : first = Disposed(records, before)
  OBVIOUS
<1>7. /\ StoreInv(first, temps \ (before \ leaked), linked, leaked)
      /\ AllFollow(records, first) /\ SameHashing(records, first)
      /\ \A u \in before : ~first[u].held
  BY <1>4, <1>5, <1>6, DisposedStore
<1>8. PICK second : second = Delisted(first, before)
  OBVIOUS
<1>9. /\ StoreInv(second, temps \ (before \ leaked), linked, leaked)
      /\ AllFollow(first, second) /\ SameHashing(first, second)
  BY <1>5, <1>7, <1>8, DelistedStore DEF AllFollow
<1>10. AllFollow(records, second) /\ SameHashing(records, second)
  BY <1>7, <1>9, FollowsOn, HashingOn DEF AllFollow
<1>11. {t} \in SUBSET BegunIn(second) /\ \A u \in {t} : ~second[u].hashing
  BY <1>5, <1>10 DEF AllFollow, SameHashing
<1>12. /\ StoreInv(records', (temps \ (before \ leaked)) \ ({t} \ leaked), linked, leaked)
       /\ AllFollow(second, records') /\ SameHashing(second, records')
  BY <1>2, <1>6, <1>8, <1>9, <1>11, DisposedStore
<1>13. AllFollow(records, records') /\ SameHashing(records, records')
  BY <1>10, <1>12, FollowsOn, HashingOn DEF AllFollow
<1>14. (temps \ (before \ leaked)) \ ({t} \ leaked) = Unstaged(before \cup {t})
  BY DEF Unstaged
<1>15. left \in SUBSET BegunIn(records') /\ \A u \in left : records'[u].direction = "upload"
  BY <1>4, <1>5, <1>13 DEF AllFollow, Follows, StoreInv, TransferInv
<1>16. StoreInv(records', temps', linked', leaked')
  BY <1>2, <1>3, <1>12, <1>14, <1>15, LeakStore
<1>17. QED
  BY <1>2, <1>13, <1>16, StillStep DEF Inv, OtherInv

LEMMA CloseStep ==
  ASSUME Inv, CloseBegins \/ CloseEnds
  PROVE  Inv' /\ AllFollow(records, records')
<1>1. CASE CloseBegins
  BY <1>1, HereReached, StillStep DEF CloseBegins, disk, Reached, Inv, OtherInv
<1>2. CASE CloseEnds
  <2>1. PICK left \in SUBSET {t \in Listed \cap temps : records[t].held} :
          temps' = Unstaged(Listed) \cup left /\ leaked' = leaked \cup left
    BY <1>2 DEF CloseEnds
  <2>2. Listed \in SUBSET BegunIn(records) /\ \A t \in Listed : ~records[t].hashing
    BY <1>2 DEF CloseEnds, Listed, Begun, BegunIn
  <2>3. PICK mid : mid = Disposed(records, Listed)
    OBVIOUS
  <2>4. /\ StoreInv(mid, Unstaged(Listed), linked, leaked)
        /\ AllFollow(records, mid) /\ SameHashing(records, mid)
        /\ \A t \in Listed : ~mid[t].held
    BY <2>2, <2>3, DisposedStore DEF Inv, Unstaged
  <2>5. records' = Delisted(mid, Listed)
    BY <1>2, <2>3 DEF CloseEnds
  <2>6. /\ StoreInv(records', Unstaged(Listed), linked, leaked)
        /\ AllFollow(mid, records') /\ SameHashing(mid, records')
        /\ \A t \in Listed : ~records'[t].listed
    BY <2>2, <2>4, <2>5, DelistedStore DEF AllFollow
  <2>7. AllFollow(records, records') /\ SameHashing(records, records')
    BY <2>4, <2>6, FollowsOn, HashingOn DEF AllFollow
  <2>8. left \in SUBSET BegunIn(records') /\ \A u \in left : records'[u].direction = "upload"
    BY <2>2, <2>7 DEF AllFollow, Follows, Inv, StoreInv, TransferInv
  <2>9. StoreInv(records', temps', linked', leaked')
    BY <1>2, <2>1, <2>6, <2>8, LeakStore DEF CloseEnds
  <2>10. \A t \in BegunIn(records') : ~records'[t].listed
    BY <2>6, <2>7 DEF AllFollow, Follows, Listed, Begun, BegunIn
  <2>11. closed' = "closed" /\ UNCHANGED <<thread, files>>
    BY <1>2 DEF CloseEnds
  <2>12. QED
    BY <2>7, <2>9, <2>10, <2>11, StillStep DEF Inv, OtherInv
<1>3. QED
  BY <1>1, <1>2

LEMMA IdleStep ==
  ASSUME Inv, NEW t \in Ids, GoesIdle(t)
  PROVE  Inv' /\ AllFollow(records, records')
<1>1. t \in BegunIn(records) /\ UNCHANGED <<thread, temps, linked, leaked, files, closed>>
      /\ records' = Put(records, t, [records[t] EXCEPT !.stale = TRUE])
  BY DEF GoesIdle, Listed, Begun, BegunIn, disk
<1>2. /\ StoreInv(records', temps, linked, leaked)
      /\ AllFollow(records, records') /\ SameHashing(records, records')
  BY <1>1, StaleStore DEF Inv
<1>3. QED
  BY <1>1, <1>2, StillStep DEF Inv, OtherInv

(* A transfer begins. *)
LEMMA NewStore ==
  ASSUME NEW recs, NEW staged, NEW links, NEW leaks, StoreInv(recs, staged, links, leaks),
         NEW t \in Ids \ BegunIn(recs), NEW r \in Records, NEW new, new = Put(recs, t, r),
         NEW after, after \in {staged, staged \cup {t}},
         r.held, r.listed, r.direction = "upload" <=> t \in after,
         r.hashing => r.state \in InProgress
  PROVE  /\ StoreInv(new, after, links, leaks) /\ BegunIn(new) = BegunIn(recs) \cup {t}
         /\ new[t] = r /\ \A u \in BegunIn(recs) : new[u] = recs[u]
<1>1. \A u \in Ids : new[u] = IF u = t THEN r ELSE recs[u]
  BY DEF Put
<1>2. new \in [Ids -> Records \cup {None}]
  BY DEF Put, StoreInv
<1>3. BegunIn(new) = BegunIn(recs) \cup {t}
  BY <1>1 DEF BegunIn
<1>4. \A u \in BegunIn(new) : TransferInv(new[u], u, after, leaks)
  <2> SUFFICES ASSUME NEW u \in BegunIn(new) PROVE TransferInv(new[u], u, after, leaks)
    OBVIOUS
  <2>1. CASE u = t
    BY <1>1, <2>1 DEF TransferInv, BegunIn
  <2>2. CASE u # t
    <3>1. u \in BegunIn(recs) /\ new[u] = recs[u] /\ (u \in after <=> u \in staged)
      BY <1>1, <1>3, <2>2 DEF BegunIn
    <3>2. TransferInv(recs[u], u, staged, leaks)
      BY <3>1 DEF StoreInv
    <3>3. QED
      BY <3>1, <3>2 DEF TransferInv
  <2>3. QED
    BY <2>1, <2>2
<1>5. StoreInv(new, after, links, leaks)
  BY <1>2, <1>3, <1>4 DEF StoreInv
<1>6. QED
  BY <1>1, <1>3, <1>5 DEF BegunIn

(* One more of a direction that has room, and none of the other. *)
LEMMA LimitsBegin ==
  ASSUME LimitsHeld, NEW t \in Ids, NEW recs, AllFollow(records, recs), BegunIn(recs) = Begun,
         \A u \in Begun : recs[u].held => recs[u].listed,
         BegunIn(records') = Begun \cup {t},
         \A u \in Begun : records'[u] = recs[u],
         NEW d \in {"upload", "download"}, records'[t].direction = d, t \notin Begun,
         Cardinality(Active(recs, d)) < (IF d = "upload" THEN UploadLimit ELSE DownloadLimit)
  PROVE  LimitsHeld'
<1>1. Active(recs, d) = Holding(recs, d)
  BY DEF Active, Holding
<1>2. \A e : Holding(recs, e) \in SUBSET Ids /\ Holding(records, e) \in SUBSET Ids
             /\ Holding(records', e) \in SUBSET Ids
  BY DEF Holding, BegunIn
<1>3. \A e : /\ Cardinality(Holding(recs, e)) \in Nat /\ Cardinality(Holding(records, e)) \in Nat
             /\ Cardinality(Holding(records', e)) \in Nat
  BY <1>2, FiniteIds, FS_CardinalityType
<1>4. Cardinality(Holding(records', d)) <= Cardinality(Holding(recs, d)) + 1
  <2>1. Holding(records', d) \in SUBSET (Holding(recs, d) \cup {t})
    BY DEF Holding
  <2>2. IsFiniteSet(Holding(recs, d))
    BY <1>2, FiniteIds
  <2>3. t \notin Holding(recs, d)
    BY DEF Holding
  <2>4. /\ IsFiniteSet(Holding(recs, d) \cup {t})
        /\ Cardinality(Holding(recs, d) \cup {t}) = Cardinality(Holding(recs, d)) + 1
    BY <2>2, <2>3, FS_AddElement
  <2>5. QED
    BY <2>1, <2>4, FS_Subset
<1>5. \A e \in {"upload", "download"} :
        e # d => Cardinality(Holding(records', e)) <= Cardinality(Holding(records, e))
  <2> SUFFICES ASSUME NEW e \in {"upload", "download"}, e # d
               PROVE  Cardinality(Holding(records', e)) <= Cardinality(Holding(records, e))
    OBVIOUS
  <2>1. Holding(records', e) \in SUBSET Holding(recs, e)
    BY DEF Holding
  <2>2. Cardinality(Holding(records', e)) <= Cardinality(Holding(recs, e))
    BY <1>2, <2>1, FiniteIds, FS_Subset
  <2>3. Cardinality(Holding(recs, e)) <= Cardinality(Holding(records, e))
    BY FewerHeld
  <2>4. QED
    BY <1>3, <2>2, <2>3
<1>6. LimitsHeld' <=> /\ Cardinality(Holding(records', "upload")) <= UploadLimit
                      /\ Cardinality(Holding(records', "download")) <= DownloadLimit
  BY DEF LimitsHeld, Holding, Begun, BegunIn
<1>7. CASE d = "upload"
  BY <1>1, <1>3, <1>4, <1>5, <1>6, <1>7, LimitsAre
<1>8. CASE d = "download"
  BY <1>1, <1>3, <1>4, <1>5, <1>6, <1>8, LimitsAre
<1>9. QED
  BY <1>7, <1>8

LEMMA NewRecordType ==
  ASSUME NEW direction \in {"upload", "download"}, NEW key \in Keys, NEW path \in Paths,
         NEW content \in Contents \cup {None}, NEW overwrite \in BOOLEAN, NEW r,
         r = NewRecord(direction, key, path, content, overwrite)
  PROVE  /\ r \in Records /\ r.direction = direction /\ r.held /\ r.listed
         /\ (direction = "download" => r.hashing) /\ (direction = "upload" => ~r.hashing)
         /\ r.state \in InProgress
         /\ r.state # "committed"
<1>0. <<>> \in Seq(Bytes)
  OBVIOUS
<1>1. PICK empty \in Seq(Bytes) : empty = <<>>
  BY <1>0
<1>2. PICK hashing \in BOOLEAN : hashing = (direction = "download")
  OBVIOUS
<1>3. PICK hashed \in BOOLEAN : hashed = (direction = "upload")
  OBVIOUS
<1>4. PICK state \in InProgress : state = IF direction = "upload" THEN "uploading" ELSE "downloading"
  BY DEF InProgress
<1>5. r = [direction |-> direction, key |-> key, path |-> path, content |-> content,
           overwrite |-> overwrite, stored |-> empty, state |-> state,
           held |-> TRUE, hashing |-> hashing, listed |-> TRUE,
           hashed |-> hashed, stale |-> FALSE, touched |-> FALSE]
  BY <1>1, <1>2, <1>3, <1>4 DEF NewRecord
<1>6. state \in {"uploading", "downloading", "committed", "aborted", "failed", "closed"}
      /\ state # "committed"
  BY DEF InProgress
<1>7. r \in Records
  BY <1>5, <1>6 DEF Records, Manifest
<1>8. /\ r.direction = direction /\ r.held = TRUE /\ r.listed = TRUE
      /\ r.hashing = hashing /\ r.state = state
  BY <1>5
<1>9. QED
  BY <1>2, <1>6, <1>7, <1>8

(* What a step leaves of the transfers begun before it; a new download     *)
(* declares no content.                                                    *)
OthersFollow ==
  /\ \A t \in Begun : records'[t] # None /\ Follows(records[t], records'[t])
  /\ \A t \in BegunIn(records') \ Begun :
       records'[t].direction = "download" => records'[t].content = None

LEMMA UploadBeginStep ==
  ASSUME Inv, NEW th \in Threads, NEW key \in Keys, NEW path \in Paths,
         NEW content \in Contents, NEW overwrite \in BOOLEAN,
         UploadBegin(th, key, path, content, overwrite)
  PROVE  Inv' /\ OthersFollow
<1>1. PICK t \in Ids :
        /\ NewTransfer(key, t)
        /\ Cardinality(Active(AfterSweep, "upload")) < UploadLimit
        /\ records' = Put(AfterSweep, t, NewRecord("upload", key, path, content, overwrite))
        /\ temps' = Unstaged(Swept) \cup {t}
  BY DEF UploadBegin
<1>2. UNCHANGED <<thread, files, linked, leaked, closed>> /\ closed = "open" /\ t \notin Begun
  BY <1>1 DEF UploadBegin, NewTransfer
<1>3. PICK recs : recs = AfterSweep
  OBVIOUS
<1>4. Reached(recs, Unstaged(Swept)) /\ Begun = BegunIn(records) /\ BegunIn(recs) = Begun
  BY <1>3, SweepReached DEF Inv, Reached, AllFollow, Begun, BegunIn
<1>5. PICK r : r = NewRecord("upload", key, path, content, overwrite)
  OBVIOUS
<1>6. /\ r \in Records /\ r.direction = "upload" /\ r.held /\ r.listed
      /\ ~r.hashing /\ r.state \in InProgress
  <2>1. content \in Contents \cup {None} /\ "upload" \in {"upload", "download"}
    OBVIOUS
  <2>2. QED
    BY <1>5, <2>1, NewRecordType
<1>7. /\ StoreInv(records', temps', linked, leaked) /\ BegunIn(records') = Begun \cup {t}
      /\ records'[t] = r /\ \A u \in Begun : records'[u] = recs[u]
  <2>1. records' = Put(recs, t, r) /\ t \in Ids \ BegunIn(recs)
    BY <1>1, <1>2, <1>3, <1>4, <1>5
  <2>2. StoreInv(recs, Unstaged(Swept), linked, leaked)
    BY <1>4 DEF Reached
  <2>3. r.direction = "upload" <=> t \in temps'
    BY <1>1, <1>6
  <2>4. temps' \in {Unstaged(Swept), Unstaged(Swept) \cup {t}}
    BY <1>1
  <2>5. QED
    BY <1>4, <1>6, <2>1, <2>2, <2>3, <2>4, NewStore
<1>8. LimitsHeld'
  <2>1. \A u \in Begun : recs[u].held => recs[u].listed
    BY <1>4 DEF Reached, StoreInv, TransferInv
  <2>2. Cardinality(Active(recs, "upload")) < UploadLimit
    BY <1>1, <1>3
  <2>3. AllFollow(records, recs) /\ LimitsHeld
    BY <1>4 DEF Reached, Inv
  <2>4. QED
    BY <1>2, <1>4, <1>6, <1>7, <2>1, <2>2, <2>3, LimitsBegin
<1>9. ThreadInv(records', thread')
  BY <1>2, <1>4, <1>7, ThreadStays DEF Inv
<1>10. HashInv(records', thread')
  <2>1. \A u \in Begun : records'[u].hashing = records[u].hashing
    BY <1>4, <1>7 DEF Reached, SameHashing
  <2>2. QED
    BY <1>2, <1>4, <1>6, <1>7, <2>1 DEF Inv, HashInv
<1>11. OthersFollow
  BY <1>4, <1>6, <1>7 DEF OthersFollow, Reached, AllFollow, BegunIn
<1>12. OtherInv'
  BY <1>2 DEF Inv, OtherInv
<1>13. QED
  BY <1>2, <1>7, <1>8, <1>9, <1>10, <1>11, <1>12 DEF Inv

LEMMA DownloadBeginStep ==
  ASSUME Inv, NEW th \in Threads, NEW key \in Keys, NEW path \in Paths,
         DownloadBegin(th, key, path)
  PROVE  Inv' /\ OthersFollow
<1>1. PICK t \in Ids :
        /\ NewTransfer(key, t)
        /\ Cardinality(Active(AfterSweep, "download")) < DownloadLimit
        /\ records' = Put(AfterSweep, t, NewRecord("download", key, path, None, FALSE))
        /\ thread' = [thread EXCEPT ![th] = [Idle EXCEPT !.at = "hashing", !.transfer = t]]
  BY DEF DownloadBegin
<1>2. /\ UNCHANGED <<files, linked, leaked, closed>> /\ closed = "open" /\ t \notin Begun
      /\ temps' = Unstaged(Swept) /\ thread[th] = Idle
  BY <1>1 DEF DownloadBegin, NewTransfer
<1>3. PICK recs : recs = AfterSweep
  OBVIOUS
<1>4. Reached(recs, temps') /\ Begun = BegunIn(records) /\ BegunIn(recs) = Begun
  BY <1>2, <1>3, SweepReached DEF Inv, Reached, AllFollow, Begun, BegunIn
<1>5. PICK r : r = NewRecord("download", key, path, None, FALSE)
  OBVIOUS
<1>6. /\ r \in Records /\ r.direction = "download" /\ r.held /\ r.listed
      /\ r.hashing /\ r.state \in InProgress /\ r.content = None
  <2>1. None \in Contents \cup {None} /\ FALSE \in BOOLEAN /\ "download" \in {"upload", "download"}
    OBVIOUS
  <2>2. /\ r \in Records /\ r.direction = "download" /\ r.held /\ r.listed
        /\ r.hashing /\ r.state \in InProgress
    BY <1>5, <2>1, NewRecordType
  <2>3. r.content = None
    BY <1>5 DEF NewRecord
  <2>4. QED
    BY <2>2, <2>3
<1>7. /\ StoreInv(records', temps', linked, leaked) /\ BegunIn(records') = Begun \cup {t}
      /\ records'[t] = r /\ \A u \in Begun : records'[u] = recs[u]
  <2>1. records' = Put(recs, t, r) /\ t \in Ids \ BegunIn(recs)
    BY <1>1, <1>2, <1>3, <1>4, <1>5
  <2>2. StoreInv(recs, temps', linked, leaked)
    BY <1>4 DEF Reached
  <2>3. r.direction = "upload" <=> t \in temps'
    BY <1>4, <1>6, <2>1, <2>2 DEF StoreInv
  <2>4. QED
    BY <1>4, <1>6, <2>1, <2>2, <2>3, NewStore
<1>8. LimitsHeld'
  <2>1. \A u \in Begun : recs[u].held => recs[u].listed
    BY <1>4 DEF Reached, StoreInv, TransferInv
  <2>2. Cardinality(Active(recs, "download")) < DownloadLimit
    BY <1>1, <1>3
  <2>3. AllFollow(records, recs) /\ LimitsHeld
    BY <1>4 DEF Reached, Inv
  <2>4. QED
    BY <1>2, <1>4, <1>6, <1>7, <2>1, <2>2, <2>3, LimitsBegin
<1>9. ThreadInv(records', thread')
  <2>1. PICK x \in ThreadStates : /\ x = [Idle EXCEPT !.at = "hashing", !.transfer = t]
                                  /\ x.at = "hashing" /\ x.transfer = t
    BY IdleState
  <2>2. QED
    BY <1>1, <1>4, <1>7, <2>1, ThreadGoes DEF Inv
<1>10. HashInv(records', thread')
  <2>1. \A u \in BegunIn(records) \ {t} : records'[u].hashing = records[u].hashing
    BY <1>4, <1>7 DEF Reached, SameHashing
  <2>2. /\ thread[th].at # "hashing" /\ t \notin BegunIn(records) /\ records'[t].hashing
        /\ BegunIn(records') = BegunIn(records) \cup {t}
    BY <1>2, <1>4, <1>6, <1>7, IdleState
  <2>3. ThreadInv(records, thread) /\ HashInv(records, thread)
    BY DEF Inv
  <2>4. QED
    BY <1>1, <2>1, <2>2, <2>3, HashEnters
<1>11. OthersFollow
  BY <1>4, <1>6, <1>7 DEF OthersFollow, Reached, AllFollow, BegunIn
<1>12. OtherInv'
  BY <1>2 DEF Inv, OtherInv
<1>13. QED
  BY <1>2, <1>7, <1>8, <1>9, <1>10, <1>11, <1>12 DEF Inv

-----------------------------------------------------------------------------
(* The ends of a hash *)

(* The transfer a thread hashes. *)
LEMMA HasherBegun ==
  ASSUME Inv, NEW th \in Threads, thread[th].at = "hashing"
  PROVE  /\ thread[th].transfer \in Begun /\ Begun = BegunIn(records)
         /\ records[thread[th].transfer] \in Records /\ records[thread[th].transfer].hashing
         /\ Hashes(thread, th, thread[th].transfer)
<1>1. thread[th].transfer \in Begun /\ Begun = BegunIn(records)
  BY DEF Inv, ThreadInv, Begun, BegunIn
<1>2. Hashes(thread, th, thread[th].transfer)
  BY DEF Hashes
<1>3. QED
  BY <1>1, <1>2 DEF Inv, HashInv, StoreInv, BegunIn

LEMMA HashedStep ==
  ASSUME Inv, NEW th \in Threads, thread[th].at = "hashing",
         NEW t, t = thread[th].transfer,
         StoreInv(records', temps', linked', leaked'), AllFollow(records, records'),
         ~records'[t].hashing,
         \A u \in BegunIn(records) \ {t} : records'[u].hashing = records[u].hashing,
         Free(th), files' \in [Paths -> Contents \cup {None}], UNCHANGED closed
  PROVE  Inv'
<1>1. t \in Ids /\ Hashes(thread, th, t) /\ BegunIn(records') = BegunIn(records)
  BY HasherBegun DEF Begun, AllFollow
<1>2. ThreadInv(records', thread')
  BY <1>1, IdleState, ThreadGoes DEF Inv, Free
<1>3. HashInv(records', thread')
  BY <1>1, HashLeaves DEF Inv, Free
<1>4. QED
  BY <1>2, <1>3, Settled DEF Inv, OtherInv

LEMMA ReadyRecord ==
  ASSUME NEW r \in Records, NEW s, s = [r EXCEPT !.hashing = FALSE, !.stale = FALSE]
  PROVE  /\ s \in Records /\ s.hashing = FALSE /\ s.listed = r.listed /\ s.held = r.held
         /\ s.direction = r.direction
         /\ Manifest(s) = Manifest(r) /\ s.state = r.state /\ s.path = r.path
         /\ s.stored = r.stored /\ s.content = r.content /\ s.overwrite = r.overwrite
  BY DEF Records, Manifest

LEMMA KnownRecord ==
  ASSUME NEW r \in Records, NEW s, s = [r EXCEPT !.hashed = TRUE]
  PROVE  /\ s \in Records /\ s.hashing = r.hashing /\ s.listed = r.listed
         /\ s.held = r.held /\ s.direction = r.direction
         /\ Manifest(s) = Manifest(r) /\ s.state = r.state
  BY DEF Records, Manifest

(* A transfer that is no longer hashed, nothing else of it changed. *)
LEMMA ReadyStore ==
  ASSUME StoreInv(records, temps, linked, leaked), NEW t \in BegunIn(records),
         NEW r \in Records, ~r.hashing, r.listed = records[t].listed, r.held = records[t].held,
         r.direction = records[t].direction,
         Manifest(r) = Manifest(records[t]), records[t].state = "committed" => r.state = "committed"
  PROVE  /\ StoreInv(Put(records, t, r), temps, linked, leaked)
         /\ AllFollow(records, Put(records, t, r))
         /\ Put(records, t, r)[t] = r
         /\ \A u \in BegunIn(records) \ {t} : Put(records, t, r)[u] = records[u]
<1>1. TransferInv(records[t], t, temps, leaked)
  BY DEF StoreInv
<1>2. TransferInv(r, t, temps, leaked) /\ Follows(records[t], r) /\ r # None
  BY <1>1 DEF TransferInv, Follows
<1>3. StoreInv(Put(records, t, r), temps, linked, leaked)
  BY <1>2, PutStore
<1>4. AllFollow(records, Put(records, t, r))
  BY <1>2, PutFollows
<1>5. QED
  BY <1>3, <1>4 DEF Put, BegunIn

(* What a download's transfer is delisted and closed with has no staging   *)
(* file.                                                                   *)
LEMMA EndedDownload ==
  ASSUME NEW recs, StoreInv(recs, temps, linked, leaked), NEW t \in BegunIn(recs),
         recs[t].direction = "download", ~recs[t].hashing,
         NEW new, new = Delisted(Disposed(recs, {t}), {t})
  PROVE  /\ StoreInv(new, temps, linked, leaked)
         /\ AllFollow(recs, new) /\ SameHashing(recs, new)
<1>1. PICK mid : mid = Disposed(recs, {t})
  OBVIOUS
<1>2. {t} \in SUBSET BegunIn(recs) /\ \A u \in {t} : ~recs[u].hashing
  OBVIOUS
<1>3. temps \ ({t} \ leaked) = temps
  BY DEF StoreInv, TransferInv
<1>4. /\ StoreInv(mid, temps, linked, leaked)
      /\ AllFollow(recs, mid) /\ SameHashing(recs, mid) /\ \A u \in {t} : ~mid[u].held
  <2>1. /\ StoreInv(mid, temps \ ({t} \ leaked), linked, leaked)
        /\ AllFollow(recs, mid) /\ SameHashing(recs, mid) /\ \A u \in {t} : ~mid[u].held
    BY <1>1, <1>2, DisposedStore
  <2>2. QED
    BY <1>3, <2>1
<1>5. /\ StoreInv(new, temps, linked, leaked)
      /\ AllFollow(mid, new) /\ SameHashing(mid, new)
  BY <1>1, <1>2, <1>4, DelistedStore DEF AllFollow
<1>6. QED
  BY <1>4, <1>5, FollowsOn, HashingOn DEF AllFollow

LEMMA DownloadHashedStep ==
  ASSUME Inv, NEW th \in Threads, DownloadHashed(th)
  PROVE  Inv' /\ AllFollow(records, records')
<1>1. PICK t : t = thread[th].transfer
  OBVIOUS
<1>2. PICK r : r = [records[t] EXCEPT !.hashing = FALSE, !.stale = FALSE]
  OBVIOUS
<1>3. PICK s : s = [r EXCEPT !.hashed = TRUE]
  OBVIOUS
<1>4. PICK ready : ready = Put(records, t, r)
  OBVIOUS
<1>5. PICK known : known = Put(ready, t, s)
  OBVIOUS
<1>6. thread[th].at = "hashing" /\ records[t].direction = "download"
  BY <1>1 DEF DownloadHashed
<1>7. t \in BegunIn(records) /\ records[t] \in Records /\ StoreInv(records, temps, linked, leaked)
  BY <1>1, <1>6, HasherBegun DEF Inv
<1>8. /\ r \in Records /\ r.hashing = FALSE /\ r.listed = records[t].listed
      /\ r.held = records[t].held /\ r.direction = records[t].direction
      /\ Manifest(r) = Manifest(records[t])
      /\ r.state = records[t].state
  <2>1. records[t] \in Records
    BY <1>7
  <2>2. QED
    BY <1>2, <2>1, ReadyRecord
<1>9. /\ s \in Records /\ s.hashing = FALSE /\ s.listed = records[t].listed
      /\ s.held = records[t].held /\ s.direction = records[t].direction
      /\ Manifest(s) = Manifest(records[t])
      /\ s.state = records[t].state
  BY <1>3, <1>8, KnownRecord
<1>10. known = Put(records, t, s) /\ ready[t] = r
  <2>1. \A u \in Ids : ready[u] = IF u = t THEN r ELSE records[u]
    BY <1>4 DEF Put
  <2>2. QED
    BY <1>5, <1>7, <2>1 DEF Put, BegunIn
<1>11. \/ records' = known
       \/ records' = Delisted(Disposed(known, {t}), {t})
       \/ records' = Delisted(Disposed(ready, {t}), {t})
  BY <1>1, <1>2, <1>3, <1>4, <1>5, <1>10 DEF DownloadHashed
<1>12. \A x \in {r, s} :
         /\ StoreInv(Put(records, t, x), temps, linked, leaked)
         /\ AllFollow(records, Put(records, t, x))
         /\ Put(records, t, x)[t] = x
         /\ \A u \in BegunIn(records) \ {t} : Put(records, t, x)[u] = records[u]
  BY <1>7, <1>8, <1>9, ReadyStore
<1>13. ASSUME NEW recs \in {ready, known},
              records' = recs \/ records' = Delisted(Disposed(recs, {t}), {t})
       PROVE  /\ StoreInv(records', temps, linked, leaked) /\ AllFollow(records, records')
              /\ ~records'[t].hashing
              /\ \A u \in BegunIn(records) \ {t} : records'[u].hashing = records[u].hashing
  <2>1. PICK x \in {r, s} : recs = Put(records, t, x)
    BY <1>4, <1>10
  <2>2. /\ StoreInv(recs, temps, linked, leaked) /\ AllFollow(records, recs)
        /\ ~recs[t].hashing /\ recs[t].direction = "download"
        /\ \A u \in BegunIn(records) \ {t} : recs[u].hashing = records[u].hashing
    BY <1>6, <1>8, <1>9, <1>12, <2>1
  <2>3. BegunIn(recs) = BegunIn(records)
    BY <2>2 DEF AllFollow
  <2>4. CASE records' = recs
    BY <2>2, <2>4
  <2>5. CASE records' = Delisted(Disposed(recs, {t}), {t})
    <3>1. /\ StoreInv(records', temps, linked, leaked)
          /\ AllFollow(recs, records') /\ SameHashing(recs, records')
      BY <1>7, <2>2, <2>3, <2>5, EndedDownload
    <3>2. AllFollow(records, records')
      BY <2>2, <3>1, FollowsOn
    <3>3. QED
      BY <1>7, <2>2, <2>3, <3>1, <3>2 DEF SameHashing
  <2>6. QED
    BY <1>13, <2>4, <2>5
<1>14. Free(th) /\ UNCHANGED <<temps, linked, leaked, files, closed>>
  BY DEF DownloadHashed, disk
<1>15. /\ StoreInv(records', temps, linked, leaked) /\ AllFollow(records, records')
       /\ ~records'[t].hashing
       /\ \A u \in BegunIn(records) \ {t} : records'[u].hashing = records[u].hashing
  BY <1>11, <1>13
<1>16. files' \in [Paths -> Contents \cup {None}]
  BY <1>14 DEF Inv, OtherInv
<1>17. QED
  BY <1>1, <1>6, <1>14, <1>15, <1>16, HashedStep

LEMMA CommittedRecord ==
  ASSUME NEW r \in Records, NEW s, s = [Closed(r) EXCEPT !.state = "committed"]
  PROVE  /\ s \in Records /\ s.hashing = r.hashing /\ s.listed = r.listed
         /\ s.held = FALSE /\ s.direction = r.direction
         /\ Manifest(s) = Manifest(r) /\ s.state = "committed"
<1>1. PICK c : c = Closed(r)
  OBVIOUS
<1>2. /\ c \in Records /\ c.held = FALSE /\ c.hashing = r.hashing
      /\ c.listed = r.listed /\ c.direction = r.direction /\ Manifest(c) = Manifest(r)
  BY <1>1, ClosedRecord
<1>3. s = [c EXCEPT !.state = "committed"]
  BY <1>1
<1>4. QED
  BY <1>2, <1>3 DEF Records, Manifest

LEMMA FailedRecord ==
  ASSUME NEW r \in Records, NEW s, s = [r EXCEPT !.state = "failed"]
  PROVE  /\ s \in Records /\ s.hashing = r.hashing /\ s.listed = r.listed
         /\ s.held = r.held /\ s.direction = r.direction /\ Manifest(s) = Manifest(r)
  BY DEF Records, Manifest

(* The publication of an upload t that was hashed: ready is records with t *)
(* hashed no longer.                                                       *)
LEMMA PublishStore ==
  ASSUME StoreInv(records, temps, linked, leaked), NEW ready,
         StoreInv(ready, temps, linked, leaked), AllFollow(records, ready),
         NEW t \in BegunIn(records), ready[t].direction = "upload", ready[t].held,
         ~ready[t].hashing, ready[t].path = records[t].path,
         NEW removed \in BOOLEAN, Publish(t, ready, removed)
  PROVE  /\ StoreInv(records', temps', linked', leaked') /\ AllFollow(ready, records')
         /\ SameHashing(ready, records')
<1>1. PICK r : r = ready[t]
  OBVIOUS
<1>2. PICK s : s = [Closed(r) EXCEPT !.state = "committed"]
  OBVIOUS
<1> DEFINE touch(u) == [ready[u] EXCEPT !.touched = TRUE]
<1>3. records' = [u \in Ids |->
        IF ready[u] # None /\ Reads(ready[u], r.path) THEN touch(u)
        ELSE IF u = t /\ removed THEN s ELSE ready[u]]
  BY <1>1, <1>2 DEF Publish
<1>4. /\ temps' = IF removed THEN temps \ {t} ELSE temps
      /\ linked' = IF removed THEN {u \in linked : records[u].path # r.path} ELSE linked \cup {t}
      /\ leaked' = IF removed THEN leaked ELSE leaked \cup {t}
  BY <1>1 DEF Publish
<1>5. BegunIn(ready) = BegunIn(records) /\ \A u \in BegunIn(ready) : u \in Ids /\ ready[u] \in Records
  BY DEF AllFollow, StoreInv, BegunIn
<1>6. /\ s \in Records /\ s.hashing = r.hashing /\ s.listed = r.listed
      /\ s.held = FALSE /\ s.direction = r.direction
      /\ Manifest(s) = Manifest(r) /\ s.state = "committed"
  <2>1. r \in Records
    BY <1>1, <1>5
  <2>2. QED
    BY <1>2, <2>1, CommittedRecord
<1>7. \A u \in BegunIn(ready) :
        /\ touch(u) \in Records /\ touch(u).listed = ready[u].listed
        /\ touch(u).hashing = ready[u].hashing /\ touch(u).state = ready[u].state
        /\ touch(u).held = ready[u].held /\ touch(u).direction = ready[u].direction
        /\ Manifest(touch(u)) = Manifest(ready[u])
  BY <1>5, TouchedRecord
<1> HIDE DEF touch
<1>8. \A u \in Ids \ BegunIn(ready) : records'[u] = None
  BY <1>3, <1>5 DEF BegunIn
<1>9. \A u \in BegunIn(ready) :
        \/ u = t /\ removed /\ records'[u] = s
        \/ (u = t => ~removed) /\ records'[u] \in {touch(u), ready[u]}
  BY <1>1, <1>3, <1>5 DEF Reads
<1> DEFINE becomes(u, q) ==
      /\ q \in Records /\ q.listed = ready[u].listed
      /\ q.hashing = ready[u].hashing /\ q.direction = ready[u].direction
      /\ Manifest(q) = Manifest(ready[u])
      /\ q.held <=> ready[u].held /\ ~(u = t /\ removed)
      /\ q.state = ready[u].state \/ (u = t /\ removed /\ q.state = "committed")
<1>10. \A u \in BegunIn(ready) : becomes(u, records'[u])
  <2> SUFFICES ASSUME NEW u \in BegunIn(ready) PROVE becomes(u, records'[u])
    BY Zenon
  <2>1. CASE u = t /\ removed
    BY <1>1, <1>6, <1>9, <2>1
  <2>2. CASE records'[u] = ready[u] /\ (u = t => ~removed)
    BY <1>5, <2>2
  <2>3. CASE records'[u] = touch(u) /\ (u = t => ~removed)
    BY <1>7, <2>3
  <2>4. QED
    BY <1>9, <2>1, <2>2, <2>3
<1>11. BegunIn(records') = BegunIn(ready)
  BY <1>8, <1>10 DEF BegunIn
<1>12. AllFollow(ready, records') /\ SameHashing(ready, records')
  BY <1>10, <1>11 DEF AllFollow, Follows, SameHashing
<1>13. records' \in [Ids -> Records \cup {None}]
  <2>1. \A u \in Ids : records'[u] \in Records \cup {None}
    BY <1>8, <1>10
  <2>2. QED
    BY <1>3, <2>1
<1>14. TransferInv(r, t, temps, leaked) /\ t \in temps
  BY <1>1, <1>5 DEF StoreInv, TransferInv
<1>15. linked' \subseteq temps' /\ linked' \subseteq leaked'
       /\ temps' \subseteq BegunIn(records') /\ leaked' \subseteq BegunIn(records')
  BY <1>1, <1>4, <1>5, <1>11, <1>14 DEF StoreInv
<1>16. \A u \in BegunIn(records') : TransferInv(records'[u], u, temps', leaked')
  <2> SUFFICES ASSUME NEW u \in BegunIn(records')
               PROVE  TransferInv(records'[u], u, temps', leaked')
    OBVIOUS
  <2>1. TransferInv(ready[u], u, temps, leaked)
    BY <1>11 DEF StoreInv
  <2>2. u # t => (u \in temps' <=> u \in temps) /\ (u \in leaked => u \in leaked')
    BY <1>4
  <2>3. u = t => (u \in temps' <=> ~removed) /\ (u \in leaked => u \in leaked') /\ ~ready[u].hashing
    BY <1>4, <1>14
  <2>4. QED
    BY <1>1, <1>10, <1>11, <2>1, <2>2, <2>3 DEF TransferInv
<1>17. QED
  BY <1>11, <1>12, <1>13, <1>15, <1>16 DEF StoreInv

LEMMA CommitHashedStep ==
  ASSUME Inv, NEW th \in Threads, CommitHashed(th)
  PROVE  Inv' /\ AllFollow(records, records')
<1>1. PICK t : t = thread[th].transfer
  OBVIOUS
<1>2. PICK r : r = [records[t] EXCEPT !.hashing = FALSE, !.stale = FALSE]
  OBVIOUS
<1>3. PICK ready : ready = Put(records, t, r)
  OBVIOUS
<1>4. thread[th].at = "hashing" /\ records[t].direction = "upload" /\ Free(th) /\ UNCHANGED closed
  BY <1>1 DEF CommitHashed
<1>5. /\ t \in BegunIn(records) /\ records[t] \in Records /\ records[t].hashing
      /\ StoreInv(records, temps, linked, leaked)
  BY <1>1, <1>4, HasherBegun DEF Inv
<1>6. /\ r \in Records /\ r.hashing = FALSE /\ r.listed = records[t].listed
      /\ r.held = records[t].held /\ r.direction = records[t].direction
      /\ Manifest(r) = Manifest(records[t])
      /\ r.state = records[t].state /\ r.path = records[t].path /\ r.stored = records[t].stored
  <2>1. PICK q \in Records : q = records[t]
    BY <1>5
  <2>2. r = [q EXCEPT !.hashing = FALSE, !.stale = FALSE]
    BY <1>2, <2>1
  <2>3. QED
    BY <2>1, <2>2, ReadyRecord
<1>7. /\ StoreInv(ready, temps, linked, leaked) /\ AllFollow(records, ready)
      /\ ready[t] = r /\ \A u \in BegunIn(records) \ {t} : ready[u] = records[u]
  BY <1>3, <1>5, <1>6, ReadyStore
<1>8. records[t].held /\ records[t].state # "committed" /\ files \in [Paths -> Contents \cup {None}]
  BY <1>5 DEF StoreInv, TransferInv, InProgress, Inv, OtherInv
<1>9. ASSUME UNCHANGED disk,
             NEW s \in Records, ~s.hashing, s.listed = records[t].listed, s.held = records[t].held,
             s.direction = records[t].direction,
             Manifest(s) = Manifest(records[t]), records' = Put(records, t, s)
      PROVE  Inv' /\ AllFollow(records, records')
  <2>1. /\ StoreInv(records', temps, linked, leaked) /\ AllFollow(records, records')
        /\ ~records'[t].hashing
        /\ \A u \in BegunIn(records) \ {t} : records'[u].hashing = records[u].hashing
    BY <1>5, <1>8, <1>9, ReadyStore
  <2>2. UNCHANGED <<temps, linked, leaked, files>>
    BY <1>9 DEF disk
  <2>3. QED
    BY <1>1, <1>4, <1>8, <2>1, <2>2, HashedStep
<1>10. CASE records' = ready /\ UNCHANGED disk
  BY <1>3, <1>6, <1>9, <1>10
<1>11. CASE records' = Put(ready, t, [ready[t] EXCEPT !.state = "failed"]) /\ UNCHANGED disk
  <2>1. PICK s : s = [r EXCEPT !.state = "failed"]
    OBVIOUS
  <2>2. /\ s \in Records /\ s.hashing = r.hashing /\ s.listed = r.listed
        /\ s.held = r.held /\ s.direction = r.direction /\ Manifest(s) = Manifest(r)
    BY <1>6, <2>1, FailedRecord
  <2>3. records' = Put(records, t, s)
    <3>1. \A u \in Ids : ready[u] = IF u = t THEN r ELSE records[u]
      BY <1>3 DEF Put
    <3>2. records' = Put(ready, t, s)
      BY <1>7, <1>11, <2>1
    <3>3. QED
      BY <3>1, <3>2 DEF Put
  <2>4. QED
    BY <1>6, <1>9, <1>11, <2>2, <2>3
<1>12. ASSUME NEW removed \in BOOLEAN, Verified(records[t]), Publish(t, ready, removed)
       PROVE  Inv' /\ AllFollow(records, records')
  <2>1. /\ StoreInv(records', temps', linked', leaked') /\ AllFollow(ready, records')
        /\ SameHashing(ready, records')
    BY <1>4, <1>5, <1>6, <1>7, <1>8, <1>12, PublishStore
  <2>2. AllFollow(records, records') /\ BegunIn(ready) = BegunIn(records)
    BY <1>7, <2>1, FollowsOn DEF AllFollow
  <2>3. /\ ~records'[t].hashing
        /\ \A u \in BegunIn(records) \ {t} : records'[u].hashing = records[u].hashing
    BY <1>5, <1>6, <1>7, <2>1, <2>2 DEF SameHashing
  <2>4. files' \in [Paths -> Contents \cup {None}]
    <3>1. r.stored \in Contents \cup {None} /\ r.path \in Paths
      BY <1>5, <1>6, <1>12 DEF Verified, Records
    <3>2. files' = [files EXCEPT ![r.path] = r.stored]
      BY <1>7, <1>12 DEF Publish
    <3>3. QED
      BY <1>8, <3>1, <3>2
  <2>5. QED
    BY <1>1, <1>4, <2>1, <2>2, <2>3, <2>4, HashedStep
<1>13. \/ records' = ready /\ UNCHANGED disk
       \/ records' = Put(ready, t, [ready[t] EXCEPT !.state = "failed"]) /\ UNCHANGED disk
       \/ Verified(records[t]) /\ \E removed \in BOOLEAN : Publish(t, ready, removed)
  BY <1>1, <1>2, <1>3 DEF CommitHashed
<1>14. QED
  BY <1>10, <1>11, <1>12, <1>13

LEMMA OtherProgramStep ==
  ASSUME Inv, NEW path \in Paths, NEW content \in Contents \cup {None},
         OtherProgram(path, content)
  PROVE  Inv' /\ AllFollow(records, records')
<1> DEFINE touch(t) == [records[t] EXCEPT !.touched = TRUE]
<1>1. /\ records' = [t \in Ids |-> IF t \in Begun /\ Reads(records[t], path)
                                   THEN touch(t) ELSE records[t]]
      /\ files' = [files EXCEPT ![path] = content]
      /\ linked' = {t \in linked : records[t].path # path}
      /\ UNCHANGED <<thread, temps, leaked, closed>>
  BY DEF OtherProgram
<1>2. Begun = BegunIn(records) /\ \A t \in Begun : t \in Ids /\ records[t] \in Records
  BY DEF Inv, StoreInv, Begun, BegunIn
<1>3. \A t \in Begun :
        /\ touch(t) \in Records /\ touch(t).listed = records[t].listed
        /\ touch(t).hashing = records[t].hashing /\ touch(t).state = records[t].state
        /\ touch(t).held = records[t].held /\ touch(t).direction = records[t].direction
        /\ Manifest(touch(t)) = Manifest(records[t])
  BY <1>2, TouchedRecord
<1> HIDE DEF touch
<1>4. /\ \A t \in Ids \ Begun : records'[t] = None
      /\ \A t \in Begun : records'[t] \in {touch(t), records[t]}
  BY <1>1, <1>2 DEF BegunIn
<1>5. \A t \in Begun :
        /\ records'[t] \in Records /\ records'[t].listed = records[t].listed
        /\ records'[t].hashing = records[t].hashing /\ records'[t].state = records[t].state
        /\ records'[t].held = records[t].held /\ records'[t].direction = records[t].direction
        /\ Manifest(records'[t]) = Manifest(records[t])
  BY <1>2, <1>3, <1>4
<1>6. BegunIn(records') = BegunIn(records)
  BY <1>2, <1>4, <1>5 DEF BegunIn
<1>7. AllFollow(records, records') /\ SameHashing(records, records')
  BY <1>2, <1>5, <1>6 DEF AllFollow, Follows, SameHashing
<1>8. records' \in [Ids -> Records \cup {None}]
  <2>1. \A t \in Ids : records'[t] \in Records \cup {None}
    BY <1>2, <1>4, <1>5
  <2>2. QED
    BY <1>1, <2>1
<1>9. StoreInv(records', temps', linked', leaked')
  BY <1>1, <1>2, <1>5, <1>6, <1>8 DEF Inv, StoreInv, TransferInv
<1>10. files' \in [Paths -> Contents \cup {None}]
  BY <1>1 DEF Inv, OtherInv
<1>11. QED
  BY <1>1, <1>7, <1>9, <1>10, StillStep DEF Inv, OtherInv

-----------------------------------------------------------------------------
(* Every step *)

LEMMA InitInv == Init => Inv
<1> SUFFICES ASSUME Init PROVE Inv
  OBVIOUS
<1>1. BegunIn(records) = {} /\ Begun = {}
  BY DEF Init, BegunIn, Begun
<1>2. StoreInv(records, temps, linked, leaked)
  BY <1>1 DEF Init, StoreInv
<1>3. ThreadInv(records, thread)
  BY IdleState DEF Init, ThreadInv
<1>4. HashInv(records, thread)
  BY <1>1, IdleState DEF Init, HashInv, Hashes
<1>5. OtherInv
  BY <1>1 DEF Init, OtherInv
<1>6. LimitsHeld
  <2>1. \A d : Holding(records, d) = {}
    BY <1>1 DEF Holding
  <2>2. Cardinality({}) = 0
    BY FS_EmptySet
  <2>3. /\ Cardinality(Holding(records, "upload")) = 0
        /\ Cardinality(Holding(records, "download")) = 0
    BY <2>1, <2>2
  <2>4. 0 <= UploadLimit /\ 0 <= DownloadLimit
    OBVIOUS
  <2>5. QED
    BY <2>3, <2>4, LimitsAre
<1>7. QED
  BY <1>2, <1>3, <1>4, <1>5, <1>6 DEF Inv

LEMMA InvStep ==
  ASSUME Inv, [Next]_vars
  PROVE  Inv' /\ OthersFollow
<1>1. AllFollow(records, records') => OthersFollow
  BY DEF AllFollow, OthersFollow, Begun, BegunIn
<1>2. CASE Begins(Contents)
  <2>1. PICK th \in Threads, key \in Keys, path \in Paths :
          \/ DownloadBegin(th, key, path) \/ Rebegin(th, key, "download", path, None, FALSE)
          \/ \E content \in Contents, overwrite \in BOOLEAN :
               \/ UploadBegin(th, key, path, content, overwrite)
               \/ Rebegin(th, key, "upload", path, content, overwrite)
    BY <1>2 DEF Begins, Idling
  <2>2. CASE DownloadBegin(th, key, path)
    BY <2>2, DownloadBeginStep
  <2>3. CASE Rebegin(th, key, "download", path, None, FALSE)
    BY <1>1, <2>3, RebeginStep
  <2>4. ASSUME NEW content \in Contents, NEW overwrite \in BOOLEAN,
               \/ UploadBegin(th, key, path, content, overwrite)
               \/ Rebegin(th, key, "upload", path, content, overwrite)
        PROVE  Inv' /\ OthersFollow
    BY <1>1, <2>4, UploadBeginStep, RebeginStep
  <2>5. QED
    BY <2>1, <2>2, <2>3, <2>4
<1>3. CASE Asks(Requests)
  BY <1>1, <1>3, RequestStep DEF Asks, Idling
<1>4. ASSUME NEW th \in Threads, Continues(th)
      PROVE  Inv' /\ OthersFollow
  BY <1>1, <1>4, RebeginEndsStep, DownloadHashedStep, ResumeStep, CommitHashedStep DEF Continues
<1>5. CASE Sweeps
  BY <1>1, <1>5, RefusedStep, SweepFailsStep DEF Sweeps
<1>6. CASE TimePasses
  BY <1>1, <1>6, IdleStep DEF TimePasses
<1>7. CASE OthersWrite(Contents)
  BY <1>1, <1>7, OtherProgramStep DEF OthersWrite
<1>8. CASE CloseBegins \/ CloseEnds
  BY <1>1, <1>8, CloseStep
<1>9. CASE UNCHANGED vars
  <2>1. UNCHANGED <<records, thread, files, temps, linked, leaked, closed>>
    BY <1>9 DEF vars, disk
  <2>2. AllFollow(records, records') /\ SameHashing(records, records')
    BY <2>1 DEF AllFollow, Follows, SameHashing
  <2>3. QED
    BY <1>1, <2>1, <2>2, StillStep DEF Inv, OtherInv
<1>10. QED
  BY <1>2, <1>3, <1>4, <1>5, <1>6, <1>7, <1>8, <1>9 DEF Next

THEOREM Invariance == Spec => []Inv
<1>1. Inv /\ [Next]_vars => Inv'
  BY InvStep
<1>2. QED
  BY <1>1, InitInv, PTL DEF Spec

-----------------------------------------------------------------------------
(* What the invariant says *)

(* Every variable keeps its type, and a thread at work names a transfer    *)
(* that was begun, whatever the handler threads of WorkspaceStore do.      *)
THEOREM TypeCorrect == Spec => []TypeOK
<1>1. Inv => TypeOK
  BY DEF Inv, StoreInv, ThreadInv, ThreadStates, OtherInv, TypeOK, Begun, BegunIn
<1>2. QED
  BY <1>1, Invariance, PTL

(* Open files and staged uploads stay within UPLOAD_LIMIT and              *)
(* DOWNLOAD_LIMIT, though _begin counts them under a lock that _hash gives *)
(* up and failures keep some of them.                                      *)
THEOREM StaysWithinLimits == Spec => []LimitsHeld
<1>1. Inv => LimitsHeld
  BY DEF Inv
<1>2. QED
  BY <1>1, Invariance, PTL

(* A transfer _hash reads without the lock belongs to the one thread that  *)
(* hashes it: _get waits, _expire and close leave it alone.                *)
THEOREM HashOwnsItsTransfer == Spec => []HashOwnsTransfer
<1>1. Inv => HashOwnsTransfer
  <2> SUFFICES ASSUME Inv PROVE HashOwnsTransfer
    OBVIOUS
  <2>1. Begun = BegunIn(records) /\ HashInv(records, thread)
    BY DEF Inv, Begun, BegunIn
  <2>2. ASSUME NEW t \in Begun, records[t].hashing
        PROVE  /\ records[t].held /\ records[t].listed /\ records[t].state \in InProgress
               /\ Cardinality({th \in Threads : thread[th].at = "hashing"
                                                /\ thread[th].transfer = t}) = 1
    <3>1. records[t].held /\ records[t].listed /\ records[t].state \in InProgress
      BY <2>1, <2>2 DEF Inv, StoreInv, TransferInv
    <3>2. PICK th \in Threads : Hashes(thread, th, t)
      BY <2>1, <2>2 DEF HashInv
    <3>3. \A other \in Threads : Hashes(thread, other, t) => other = th
      BY <2>1, <3>2 DEF HashInv, Begun
    <3>4. {u \in Threads : thread[u].at = "hashing" /\ thread[u].transfer = t} = {th}
      BY <3>2, <3>3 DEF Hashes
    <3>5. Cardinality({th}) = 1
      BY FS_Singleton
    <3>6. QED
      BY <3>1, <3>4, <3>5
  <2>3. \A th \in Threads : thread[th].at = "hashing" => records[thread[th].transfer].hashing
    BY HasherBegun
  <2>4. QED
    BY <2>2, <2>3 DEF HashOwnsTransfer
<1>2. QED
  BY <1>1, Invariance, PTL

(* Every staging file belongs to a listed upload that holds it, or the     *)
(* file system refused to remove it when its upload ended.                 *)
THEOREM StagingHasItsOwner == Spec => []StagingOwned
<1>1. Inv => StagingOwned
  BY DEF Inv, StoreInv, TransferInv, StagingOwned
<1>2. QED
  BY <1>1, Invariance, PTL

(* When close has returned no file is open and no hash is under way.       *)
THEOREM ClosesQuietly == Spec => []ClosedIsQuiet
<1>1. Inv => ClosedIsQuiet
  <2> SUFFICES ASSUME Inv, closed = "closed" PROVE ClosedIsQuiet
    BY DEF ClosedIsQuiet
  <2>1. \A t \in Begun : ~records[t].held /\ ~records[t].listed
    BY DEF Inv, OtherInv, StoreInv, TransferInv, Begun, BegunIn
  <2>2. ASSUME NEW th \in Threads, thread[th].at = "hashing" PROVE FALSE
    <3>1. thread[th].transfer \in Begun /\ records[thread[th].transfer].hashing
      BY <2>2, HasherBegun
    <3>2. records[thread[th].transfer].held
      BY <3>1 DEF Inv, StoreInv, TransferInv, Begun, BegunIn
    <3>3. QED
      BY <2>1, <3>1, <3>2
  <2>3. QED
    BY <2>1, <2>2 DEF ClosedIsQuiet
<1>2. QED
  BY <1>1, Invariance, PTL

(* No operation, expiry or close turns a committed upload into another     *)
(* one: its receipt stays true.                                            *)
THEOREM CommittedStaysCommitted == Spec => CommittedStays
<1>1. Inv /\ [Next]_vars => (\A t \in Ids : records[t] # None /\ records[t].state = "committed" =>
                               records'[t].state = "committed")
  BY InvStep DEF OthersFollow, Follows, Begun
<1>2. QED
  BY <1>1, Invariance, PTL DEF CommittedStays, Spec

(* The step in which a hash ends is one of the thread that hashed.         *)
LEMMA HasherMoves ==
  ASSUME Inv, Inv', NEW t \in Ids, records[t] # None, records[t].hashing, ~records'[t].hashing,
         NEW th \in Threads, Free(th), records'[t] # None
  PROVE  thread[th].transfer = t
<1>1. PICK u \in Threads : Hashes(thread, u, t)
  BY DEF Inv, HashInv, BegunIn
<1>2. ASSUME u # th PROVE FALSE
  <2>1. thread' = [thread EXCEPT ![th] = Idle] /\ thread \in [Threads -> ThreadStates]
    BY DEF Free, Inv, ThreadInv
  <2>2. thread'[u] = thread[u]
    BY <1>2, <2>1
  <2>3. Hashes(thread', u, t)
    BY <1>1, <2>2 DEF Hashes
  <2>4. QED
    BY <2>3 DEF Inv, HashInv
<1>3. QED
  BY <1>1, <1>2 DEF Hashes

(* What a step that writes a file is. *)
LEMMA WritesAre ==
  ASSUME Next, files' # files
  PROVE  \/ \E th \in Threads : CommitHashed(th)
         \/ \E path \in Paths, content \in Contents \cup {None} : OtherProgram(path, content)
<1>1. ~Begins(Contents)
  BY DEF Begins, DownloadBegin, UploadBegin, Rebegin
<1>2. \A th, request, t, recs, staged : Perform(th, request, t, recs, staged) => UNCHANGED files
  BY DEF Perform, UploadChunk, DownloadChunk, End, CommitStarts, Inspect
<1>3. ~Asks(Requests)
  BY <1>2 DEF Asks, Request
<1>4. \A th \in Threads : ~RebeginEnds(th) /\ ~DownloadHashed(th) /\ ~Resume(th)
  BY <1>2 DEF RebeginEnds, DownloadHashed, Resume, disk
<1>5. ~Sweeps /\ ~TimePasses /\ ~CloseBegins /\ ~CloseEnds
  BY DEF Sweeps, Refused, SweepFails, TimePasses, GoesIdle, CloseBegins, CloseEnds, disk
<1>6. QED
  BY <1>1, <1>3, <1>4, <1>5 DEF Next, Continues, OthersWrite

(* upload-commit publishes the whole declared content, whose hash it       *)
(* compared, and does not replace a file unless the client asked for it.   *)
THEOREM PublishesTheDeclared == Spec => PublishesDeclared
<1>1. ASSUME Inv, Inv', [Next]_vars, OthersFollow, NEW t \in Ids, CommitPublishes(t), files' # files
      PROVE  /\ files'[records[t].path] = records[t].content
             /\ records[t].overwrite \/ files[records[t].path] = None
  <2>1. /\ records[t] # None /\ records[t].hashing /\ ~records'[t].hashing
        /\ records'[t] # None /\ records[t] \in Records
    BY <1>1 DEF CommitPublishes, OthersFollow, Begun, Inv, StoreInv
  <2>2. Next
    BY <1>1 DEF vars, disk
  <2>3. CASE \E path \in Paths, content \in Contents \cup {None} : OtherProgram(path, content)
    <3>1. PICK path \in Paths, content \in Contents \cup {None} : OtherProgram(path, content)
      BY <2>3
    <3>2. UNCHANGED thread
      BY <3>1 DEF OtherProgram
    <3>3. PICK u \in Threads : Hashes(thread, u, t)
      BY <1>1, <2>1 DEF Inv, HashInv, BegunIn
    <3>4. Hashes(thread', u, t)
      BY <3>2, <3>3
    <3>5. QED
      BY <1>1, <2>1, <3>4 DEF Inv, HashInv
  <2>4. ASSUME NEW th \in Threads, CommitHashed(th)
        PROVE  /\ files'[records[t].path] = records[t].content
               /\ records[t].overwrite \/ files[records[t].path] = None
    <3>1. thread[th].transfer = t
      BY <1>1, <2>1, <2>4, HasherMoves DEF CommitHashed
    <3>2. PICK r : r = [records[t] EXCEPT !.hashing = FALSE, !.stale = FALSE]
      OBVIOUS
    <3>3. r.path = records[t].path /\ r.stored = records[t].stored
      BY <2>1, <3>2, ReadyRecord
    <3>4. PICK ready : ready = Put(records, t, r)
      OBVIOUS
    <3>5. ready[t] = r
      BY <3>4 DEF Put
    <3>6. /\ Verified(records[t]) /\ MayPublish(records[t])
          /\ \E removed \in BOOLEAN : Publish(t, ready, removed)
      BY <1>1, <2>4, <3>1, <3>2, <3>4 DEF CommitHashed, disk
    <3>7. files' = [files EXCEPT ![r.path] = r.stored]
      BY <3>5, <3>6 DEF Publish
    <3>8. files \in [Paths -> Contents \cup {None}] /\ r.path \in Paths
      BY <1>1, <2>1, <3>3 DEF Inv, OtherInv, Records
    <3>9. files'[records[t].path] = records[t].content
      BY <3>3, <3>6, <3>7, <3>8 DEF Verified
    <3>10. QED
      BY <3>6, <3>9 DEF MayPublish
  <2>5. QED
    BY <1>1, <2>2, <2>3, <2>4, WritesAre
<1>2. Inv /\ Inv' /\ [Next]_vars =>
        (\A t \in Ids : CommitPublishes(t) /\ files' # files =>
           /\ files'[records[t].path] = records[t].content
           /\ records[t].overwrite \/ files[records[t].path] = None)
  BY <1>1, InvStep
<1>3. QED
  BY <1>2, Invariance, PTL DEF PublishesDeclared, Spec

=============================================================================
