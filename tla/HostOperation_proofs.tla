------------------------ MODULE HostOperation_proofs ------------------------
(***************************************************************************)
(* Proofs about HostOperation, for every table of disciplined programs     *)
(* (HostDiscipline) and any number of interferences by people: the answer  *)
(* of an operation is true of the document.                                *)
(***************************************************************************)
EXTENDS HostOperation, TLAPS

(* The tuples of variables. *)
USE DEF native, code, history, vars

-----------------------------------------------------------------------------
(* Blocks: what is left of one after its first step. *)

LEMMA Rest ==
  ASSUME NEW s \in Seq(Steps), s # <<>>
  PROVE  /\ Tail(s) \in Seq(Steps) /\ Len(Tail(s)) = Len(s) - 1 /\ Len(s) \in Nat \ {0}
         /\ \A i \in 1..Len(s) - 1 : Tail(s)[i] = s[i + 1]
         /\ Head(s) = s[1] /\ Head(s) \in Steps
OBVIOUS

LEMMA Left ==
  ASSUME NEW s \in Seq(Steps), NEW r, r = <<>> \/ (s # <<>> /\ r = Tail(s))
  PROVE  r \in Seq(Steps)
<1>1. <<>> \in Seq(Steps)
  OBVIOUS
<1>2. s # <<>> => Tail(s) \in Seq(Steps)
  BY Rest
<1> QED
  BY <1>1, <1>2

LEMMA NothingLeft ==
  ASSUME NEW kind
  PROVE  /\ ~Has(<<>>, kind)
         /\ \A other : /\ Before(<<>>, kind, other) /\ After(<<>>, kind, other)
                       /\ NoneAfter(<<>>, kind, other)
         /\ \A other, last : Between(<<>>, kind, other, last)
BY DEF Has, Before, After, NoneAfter, Between

LEMMA HasRest ==
  ASSUME NEW s \in Seq(Steps), s # <<>>, NEW kind
  PROVE  Has(s, kind) <=> Head(s) \in kind \/ Has(Tail(s), kind)
<1>1. ASSUME NEW i \in 1..Len(s), s[i] \in kind PROVE Head(s) \in kind \/ Has(Tail(s), kind)
  <2>1. CASE i = 1
    BY <1>1, <2>1, Rest
  <2>2. CASE i # 1
    <3>1. i - 1 \in 1..Len(Tail(s)) /\ Tail(s)[i - 1] = s[i]
      BY <2>2, Rest
    <3> QED
      BY <1>1, <3>1 DEF Has
  <2> QED
    BY <2>1, <2>2
<1>2. ASSUME NEW i \in 1..Len(Tail(s)), Tail(s)[i] \in kind PROVE Has(s, kind)
  <2>1. i + 1 \in 1..Len(s) /\ s[i + 1] = Tail(s)[i]
    BY Rest
  <2> QED
    BY <1>2, <2>1 DEF Has
<1>3. ASSUME Head(s) \in kind PROVE Has(s, kind)
  <2>1. 1 \in 1..Len(s) /\ s[1] = Head(s)
    BY Rest
  <2> QED
    BY <1>3, <2>1 DEF Has
<1> QED
  BY <1>1, <1>2, <1>3 DEF Has

LEMMA BeforeRest ==
  ASSUME NEW s \in Seq(Steps), s # <<>>, NEW kind, NEW first, Before(s, kind, first)
  PROVE  /\ Head(s) \notin kind
         /\ Head(s) \notin first => Before(Tail(s), kind, first)
<1>1. Head(s) \notin kind
  <2>1. 1 \in 1..Len(s) /\ s[1] = Head(s) /\ 1..1 - 1 = {}
    BY Rest
  <2> QED
    BY <2>1 DEF Before
<1>2. ASSUME Head(s) \notin first, NEW i \in 1..Len(Tail(s)), Tail(s)[i] \in kind
      PROVE  \E j \in 1..i - 1 : Tail(s)[j] \in first
  <2>1. i + 1 \in 1..Len(s) /\ s[i + 1] = Tail(s)[i]
    BY Rest
  <2>2. PICK j \in 1..i : s[j] \in first
    BY <1>2, <2>1 DEF Before
  <2>3. j # 1
    BY <1>2, <2>2, Rest
  <2>4. j - 1 \in 1..i - 1 /\ Tail(s)[j - 1] = s[j]
    BY <2>1, <2>3, Rest
  <2> QED
    BY <2>2, <2>4
<1> QED
  BY <1>1, <1>2 DEF Before

LEMMA AfterRest ==
  ASSUME NEW s \in Seq(Steps), s # <<>>, NEW kind, NEW then, After(s, kind, then)
  PROVE  /\ After(Tail(s), kind, then)
         /\ Head(s) \in kind => Has(Tail(s), then)
<1>1. ASSUME NEW i \in 1..Len(Tail(s)), Tail(s)[i] \in kind
      PROVE  \E j \in i + 1..Len(Tail(s)) : Tail(s)[j] \in then
  <2>1. i + 1 \in 1..Len(s) /\ s[i + 1] = Tail(s)[i]
    BY Rest
  <2>2. PICK j \in i + 2..Len(s) : s[j] \in then
    BY <1>1, <2>1 DEF After
  <2>3. j - 1 \in i + 1..Len(Tail(s)) /\ Tail(s)[j - 1] = s[j]
    BY <2>1, Rest
  <2> QED
    BY <2>2, <2>3
<1>2. ASSUME Head(s) \in kind PROVE Has(Tail(s), then)
  <2>1. 1 \in 1..Len(s) /\ s[1] = Head(s)
    BY Rest
  <2>2. PICK j \in 2..Len(s) : s[j] \in then
    BY <1>2, <2>1 DEF After
  <2>3. j - 1 \in 1..Len(Tail(s)) /\ Tail(s)[j - 1] = s[j]
    BY Rest
  <2> QED
    BY <2>2, <2>3 DEF Has
<1> QED
  BY <1>1, <1>2 DEF After

LEMMA NoneAfterRest ==
  ASSUME NEW s \in Seq(Steps), s # <<>>, NEW kind, NEW other, NoneAfter(s, kind, other)
  PROVE  /\ NoneAfter(Tail(s), kind, other)
         /\ Head(s) \in kind => ~Has(Tail(s), other)
<1>1. ASSUME NEW i \in 1..Len(Tail(s)), Tail(s)[i] \in kind,
             NEW j \in i + 1..Len(Tail(s))
      PROVE  Tail(s)[j] \notin other
  <2>1. i + 1 \in 1..Len(s) /\ s[i + 1] = Tail(s)[i]
    BY Rest
  <2>2. j + 1 \in (i + 1) + 1..Len(s) /\ s[j + 1] = Tail(s)[j]
    BY Rest
  <2> QED
    BY <1>1, <2>1, <2>2 DEF NoneAfter
<1>2. ASSUME Head(s) \in kind, NEW j \in 1..Len(Tail(s)) PROVE Tail(s)[j] \notin other
  <2>1. 1 \in 1..Len(s) /\ s[1] = Head(s)
    BY Rest
  <2>2. j + 1 \in 1 + 1..Len(s) /\ s[j + 1] = Tail(s)[j]
    BY Rest
  <2> QED
    BY <1>2, <2>1, <2>2 DEF NoneAfter
<1> QED
  BY <1>1, <1>2 DEF NoneAfter, Has

LEMMA BetweenRest ==
  ASSUME NEW s \in Seq(Steps), s # <<>>, NEW kind, NEW other, NEW last,
         Between(s, kind, other, last)
  PROVE  /\ Between(Tail(s), kind, other, last)
         /\ Head(s) \in kind => Before(Tail(s), last, other)
<1>1. ASSUME NEW i \in 1..Len(Tail(s)), Tail(s)[i] \in kind,
             NEW k \in i + 1..Len(Tail(s)), Tail(s)[k] \in last
      PROVE  \E j \in i + 1..k - 1 : Tail(s)[j] \in other
  <2>1. i + 1 \in 1..Len(s) /\ s[i + 1] = Tail(s)[i]
    BY Rest
  <2>2. k + 1 \in (i + 1) + 1..Len(s) /\ s[k + 1] = Tail(s)[k]
    BY Rest
  <2>3. PICK j \in (i + 1) + 1..(k + 1) - 1 : s[j] \in other
    BY <1>1, <2>1, <2>2 DEF Between
  <2>4. j - 1 \in i + 1..k - 1 /\ Tail(s)[j - 1] = s[j]
    BY <2>1, <2>2, Rest
  <2> QED
    BY <2>3, <2>4
<1>2. ASSUME Head(s) \in kind, NEW k \in 1..Len(Tail(s)), Tail(s)[k] \in last
      PROVE  \E j \in 1..k - 1 : Tail(s)[j] \in other
  <2>1. 1 \in 1..Len(s) /\ s[1] = Head(s)
    BY Rest
  <2>2. k + 1 \in 1 + 1..Len(s) /\ s[k + 1] = Tail(s)[k]
    BY Rest
  <2>3. PICK j \in 1 + 1..(k + 1) - 1 : s[j] \in other
    BY <1>2, <2>1, <2>2 DEF Between
  <2>4. j - 1 \in 1..k - 1 /\ Tail(s)[j - 1] = s[j]
    BY <2>2, Rest
  <2> QED
    BY <2>3, <2>4
<1> QED
  BY <1>1, <1>2 DEF Between, Before

(* What is left of a block is part of it. *)
Within(s, block) == \A i \in 1..Len(s) : \E j \in 1..Len(block) : block[j] = s[i]

LEMMA WithinRest ==
  ASSUME NEW block, NEW s \in Seq(Steps), Within(s, block)
  PROVE  /\ s # <<>> => Within(Tail(s), block)
         /\ \A kind : Has(s, kind) => Has(block, kind)
<1>1. ASSUME s # <<>>, NEW i \in 1..Len(Tail(s)) PROVE \E j \in 1..Len(block) : block[j] = Tail(s)[i]
  <2>1. i + 1 \in 1..Len(s) /\ s[i + 1] = Tail(s)[i]
    BY <1>1, Rest
  <2> QED
    BY <2>1 DEF Within
<1>2. ASSUME NEW kind, Has(s, kind) PROVE Has(block, kind)
  <2>1. PICK i \in 1..Len(s) : s[i] \in kind
    BY <1>2 DEF Has
  <2>2. PICK j \in 1..Len(block) : block[j] = s[i]
    BY DEF Within
  <2> QED
    BY <2>1, <2>2 DEF Has
<1> QED
  BY <1>1, <1>2 DEF Within

-----------------------------------------------------------------------------
(* Types, and what is left to do in which phase *)

Early  == {"idle", "enter", "resolve", "activate"}
Phases == Early \cup {"body", "always", "after", "restore", "describe", "leave", "validate",
                      "done"}

Shaped(r) ==
  /\ r = [attempted |-> r.attempted, unchanged |-> r.unchanged, error |-> r.error,
          reported |-> r.reported]
  /\ r.attempted \in BOOLEAN /\ r.unchanged \in BOOLEAN

(* A facet the adapter has snapped first. *)
Snapped(f) == "before" \in DOMAIN snaps /\ f \in DOMAIN snaps["before"]
First(f)   == snaps["before"][f]

TypeInv ==
  /\ phase \in Phases
  /\ phase # "idle" => program \in DOMAIN Programs
  /\ todo \in Seq(Steps)
  /\ Shaped(receipt)
  /\ changed \in BOOLEAN /\ lost \in BOOLEAN /\ unsaved \in BOOLEAN /\ published \in BOOLEAN
  /\ unsaved => changed
  /\ doc \in [Facets -> Nat] /\ doc["modified"] \in 0..1
  /\ \A f : Snapped(f) => f \in Facets
  /\ drift \subseteq Facets

BlockInv ==
  /\ phase \notin {"body", "always", "after"} => todo = <<>>
  /\ phase = "body" => ~Has(todo, Doing(Finishing \cup {"drop", "note"}))
  /\ phase = "always" => ~Has(todo, Steps \ Doing(Cleaning))
  /\ phase = "after" => ~Has(todo, Steps \ Doing(Finishing))

-----------------------------------------------------------------------------
(* What a step of an adapter does, told by its kind. *)

(* Where it is done. *)
Placed ==
  /\ Running
  /\ \/ phase = "body" /\ Here.do \notin Finishing \cup {"drop", "note"}
     \/ phase = "always" /\ Here.do \in Cleaning

BlockMoves ==
  /\ UNCHANGED <<program, phase>>
  /\ \/ todo' = Tail(todo)
     \/ phase = "body" /\ todo' = <<>> /\ (receipt'.error # "" \/ receipt'.unchanged)

ReceiptMoves ==
  /\ Shaped(receipt')
  /\ receipt'.error \in {receipt.error, "failed", "unrestored"}
  /\ receipt.error # "" => receipt'.error = receipt.error
  /\ receipt.attempted => receipt'.attempted
  /\ Here.do = "attempt" => receipt'.attempted
  /\ receipt.unchanged => receipt'.unchanged
  /\ receipt'.unchanged => \/ receipt.unchanged
                           \/ phase = "body" /\ Here.do = "unchanged" /\ todo' = <<>>
  /\ receipt.reported \subseteq receipt'.reported

WriteMoves ==
  /\ changed' \in BOOLEAN /\ (changed => changed')
  /\ changed' => changed \/ Here.do \in Changing
  /\ lost' \in BOOLEAN /\ (lost => lost')
  /\ lost' => lost \/ Here \in Lossy
  /\ unsaved' \in BOOLEAN
  /\ unsaved' => unsaved \/ (changed' /\ Here.do \in Changing)
  /\ unsaved' /\ doc'["modified"] = 0 => doc["modified"] = 0
  /\ doc'["modified"] \in 0..1
  /\ published' \in BOOLEAN /\ (published => published')
  /\ published' => published \/ Here.do = "publish"
  /\ Here \in Fatal(Changing) => receipt'.error # "" \/ changed' \/ lost'
  /\ Here \in Fatal({"verify"}) /\ lost => receipt'.error # ""
  /\ Here \in Fatal({"mark"}) => receipt'.error # "" \/ doc'["modified"] # 0
  /\ phase = "body" /\ lost /\ Here \in Ending({"verify"}) => todo' = <<>>

FacetMoves ==
  /\ doc' \in [Facets -> Nat]
  /\ \A f : Snapped(f) => Snapped(f)'
  /\ \A f : Snapped(f)' => \/ Here \in Snapping(f) /\ f \in Facets
                           \/ Snapped(f) /\ First(f)' = First(f)
  /\ \A f : phase = "body" /\ Here \in Observing(f) => Snapped(f)' \/ todo' = <<>>
  /\ \A f : Here \in Comparing(f) /\ Snapped(f) /\ doc[f] # First(f) => receipt'.error # ""
  /\ \A f : phase = "body" /\ Here \in Refusing(f) /\ Snapped(f) /\ doc[f] # First(f)
              => todo' = <<>>

(* Nothing drifts unless it was away when the document was touched, and what *)
(* has drifted is away as long as it is in the list.                         *)
Touches == IF Claim("observation") THEN Doing({"read"}) ELSE Lossy
DriftMoves ==
  \A f \in drift' :
    \/ f \in drift /\ doc' = doc
    \/ /\ UNCHANGED snaps /\ Away(doc', f)
       /\ f \in drift \/ (f \in Guards[program] /\ Here \in Touches)

HeldMoves ==
  /\ \A w \in held' : w \in held \/ (Here \in Of({"take"}, w) /\ w \in claimed')
  /\ \A w \in claimed' : w \in claimed \/ Here \in Of({"take"}, w)
  /\ \A w \in claimed : \/ w \in claimed' \/ w \notin held' \/ Here \in Of({"drop"}, w)
                        \/ w \in receipt'.reported /\ (w \in Unrestorable => poisoned')
  /\ \A w : Here \in Of({"free"}, w) =>
              \/ w \notin claimed'
              \/ w \in receipt'.reported /\ (w \in Unrestorable => poisoned')
  /\ \A w \in claimed : \/ w \in claimed' \/ Here \in Of({"free", "drop", "settle"}, w)
                        \/ Here.do = "publish" /\ w = "staging"
  /\ poisoned => poisoned'
  /\ UNCHANGED retired

Moves ==
  /\ BlockMoves /\ ReceiptMoves /\ WriteMoves /\ FacetMoves /\ DriftMoves /\ HeldMoves

LEMMA RaiseMoves ==
  ASSUME Shaped(receipt), Placed, Here.do # "attempt", Raise, UNCHANGED program
  PROVE  /\ BlockMoves /\ ReceiptMoves
         /\ Here.on # "warn" => receipt'.error # ""
         /\ phase = "body" /\ Here.on \in {"raise", "once"} => todo' = <<>>
         /\ Here.do \in {"free", "drop"} => Here.at \in receipt'.reported
<1>1. /\ receipt'.attempted = receipt.attempted /\ receipt'.unchanged = receipt.unchanged
      /\ receipt'.error = IF receipt.error # "" \/ Here.on = "warn" THEN receipt.error
                          ELSE IF Here.on = "collect" THEN "unrestored" ELSE "failed"
      /\ receipt'.reported = IF Here.do \in {"free", "drop"} THEN receipt.reported \cup {Here.at}
                             ELSE receipt.reported
  BY DEF Raise, Shaped
<1>2. Shaped(receipt')
  BY <1>1 DEF Raise, Shaped
<1>3. Here.on # "warn" => receipt'.error # ""
  BY <1>1
<1>4. BlockMoves /\ (phase = "body" /\ Here.on \in {"raise", "once"} => todo' = <<>>)
  BY <1>3 DEF Raise, Advance, Abandon, BlockMoves
<1>5. ReceiptMoves
  BY <1>1, <1>2 DEF ReceiptMoves
<1> QED
  BY <1>1, <1>3, <1>4, <1>5

LEMMA AdvanceMoves ==
  ASSUME Shaped(receipt), Placed, Here.do # "attempt", Advance, UNCHANGED <<receipt, program>>
  PROVE  BlockMoves /\ ReceiptMoves
BY DEF Advance, BlockMoves, ReceiptMoves

(* A step that does nothing to the host. *)
Harmless ==
  UNCHANGED <<doc, held, poisoned, retired, snaps, claimed, changed, unsaved, lost, drift,
              published>>

LEMMA HarmlessMoves ==
  ASSUME TypeInv, Harmless
  PROVE  /\ Here.do \notin Changing \cup {"verify", "mark"} => WriteMoves
         /\ Here.do \notin {"snap", "same"} => FacetMoves
         /\ DriftMoves
         /\ Here.do # "free" => HeldMoves
<1>1. Here.do \notin Changing \cup {"verify", "mark"} => WriteMoves
  BY DEF Harmless, TypeInv, WriteMoves, Fatal, Ending, Doing
<1>2. Here.do \notin {"snap", "same"} => FacetMoves
  <2>1. ASSUME Here.do \notin {"snap", "same"}, NEW f
        PROVE  Here \notin Observing(f) /\ Here \notin Comparing(f) /\ Here \notin Refusing(f)
    BY <2>1 DEF Observing, Snapping, Refusing, Comparing, Of, Doing
  <2>2. doc' = doc /\ \A f : (Snapped(f)' <=> Snapped(f)) /\ First(f)' = First(f)
    BY DEF Harmless, Snapped, First
  <2>3. doc' \in [Facets -> Nat]
    BY <2>2 DEF TypeInv
  <2> QED
    BY <2>1, <2>2, <2>3, Zenon DEF FacetMoves
<1>3. DriftMoves
  BY DEF Harmless, DriftMoves
<1>4. Here.do # "free" => HeldMoves
  BY DEF Harmless, HeldMoves, Of, Doing
<1> QED
  BY <1>1, <1>2, <1>3, <1>4

Onward == (Advance /\ UNCHANGED receipt) \/ Raise

LEMMA OnwardMoves ==
  ASSUME TypeInv, Placed, Here.do # "attempt", Onward, UNCHANGED program
  PROVE  /\ BlockMoves /\ ReceiptMoves
         /\ Raise /\ Here.on # "warn" => receipt'.error # ""
         /\ Raise /\ phase = "body" /\ Here.on \in {"raise", "once"} => todo' = <<>>
         /\ Raise /\ Here.do \in {"free", "drop"} => Here.at \in receipt'.reported
<1>1. Shaped(receipt)
  BY DEF TypeInv
<1>2. CASE Raise
  BY <1>1, <1>2, RaiseMoves
<1>3. CASE Advance /\ UNCHANGED receipt /\ ~Raise
  BY <1>1, <1>3, AdvanceMoves
<1> QED
  BY <1>2, <1>3 DEF Onward

LEMMA PlainMoves ==
  ASSUME TypeInv, Placed, Harmless, Onward, UNCHANGED program,
         Here.do \notin Changing \cup {"verify", "mark", "snap", "same", "free", "attempt"}
  PROVE  Moves
<1>1. BlockMoves /\ ReceiptMoves
  BY OnwardMoves
<1> QED
  BY <1>1, HarmlessMoves DEF Moves

LEMMA CheckMoves ==
  ASSUME TypeInv, Placed, DoCheck
  PROVE  Moves
BY PlainMoves DEF DoCheck, Onward, Harmless, Changing

(* A step that leaves the snapshots alone and compares nothing. *)
LEMMA UnsnappedMoves ==
  ASSUME TypeInv, UNCHANGED snaps, doc' \in [Facets -> Nat] \/ doc' = doc,
         Here.do \notin {"snap", "same"}
  PROVE  FacetMoves
<1>1. \A f : (Snapped(f)' <=> Snapped(f)) /\ First(f)' = First(f)
  BY DEF Snapped, First
<1>2. doc' \in [Facets -> Nat]
  BY DEF TypeInv
<1>3. \A f : Here \notin Observing(f) /\ Here \notin Comparing(f) /\ Here \notin Refusing(f)
  BY DEF Observing, Snapping, Refusing, Comparing, Of, Doing
<1> QED
  BY <1>1, <1>2, <1>3, Zenon DEF FacetMoves

(* A step that may move the document but not its snapshots. *)
LEMMA DriftingMoves ==
  ASSUME TypeInv, UNCHANGED snaps, NEW facets, Drifts(facets),
         facets \subseteq IF Here \in Touches THEN Guards[program] ELSE {}
  PROVE  DriftMoves
BY DEF Drifts, DriftMoves

LEMMA ReadMoves ==
  ASSUME TypeInv, Placed, DoRead
  PROVE  Moves
<1>1. /\ UNCHANGED <<program, doc, held, poisoned, retired, snaps, claimed, changed, unsaved, lost,
                    published>>
      /\ Onward /\ Here.do = "read"
  BY DEF DoRead, Onward
<1>2. Here \in Doing({"read"})
  BY <1>1, Rest DEF TypeInv, Placed, Running, Here, Doing
<1>3. BlockMoves /\ ReceiptMoves
  BY <1>1, OnwardMoves
<1>4. WriteMoves
  BY <1>1 DEF TypeInv, WriteMoves, Fatal, Ending, Doing, Changing
<1>5. FacetMoves
  BY <1>1, UnsnappedMoves
<1>6. DriftMoves
  BY <1>1, <1>2 DEF DoRead, Drifts, DriftMoves, Touches
<1>7. HeldMoves
  BY <1>1 DEF HeldMoves, Of, Doing
<1> QED
  BY <1>3, <1>4, <1>5, <1>6, <1>7 DEF Moves

LEMMA CleanMoves ==
  ASSUME TypeInv, Placed, DoClean
  PROVE  Moves
BY PlainMoves DEF DoClean, Onward, Harmless, Changing

LEMMA AttemptMoves ==
  ASSUME TypeInv, Placed, DoAttempt
  PROVE  Moves
<1>1. Harmless /\ UNCHANGED program /\ Here.do = "attempt"
  BY DEF DoAttempt, Harmless
<1>2. ReceiptMoves
  BY <1>1 DEF DoAttempt, TypeInv, Shaped, ReceiptMoves
<1>3. BlockMoves
  BY <1>1 DEF DoAttempt, Advance, BlockMoves
<1> QED
  BY <1>1, <1>2, <1>3, HarmlessMoves DEF Moves, Changing

LEMMA NoteMoves ==
  ASSUME TypeInv, Placed, DoNote
  PROVE  Moves
<1>1. Harmless /\ UNCHANGED program /\ Here.do = "note"
  BY DEF DoNote, Harmless
<1>2. ReceiptMoves
  BY <1>1 DEF DoNote, TypeInv, Shaped, ReceiptMoves
<1>3. BlockMoves
  BY <1>1 DEF DoNote, Advance, BlockMoves
<1> QED
  BY <1>1, <1>2, <1>3, HarmlessMoves DEF Moves, Changing

LEMMA UnchangedMoves ==
  ASSUME TypeInv, Placed, DoUnchanged
  PROVE  Moves
<1>1. Harmless /\ UNCHANGED program /\ Here.do = "unchanged" /\ phase = "body"
  BY DEF DoUnchanged, Harmless, Placed, Cleaning
<1>2. CASE Advance /\ UNCHANGED receipt
  BY <1>1, <1>2, PlainMoves DEF Onward, Changing
<1>3. CASE Abandon /\ receipt' = [receipt EXCEPT !.unchanged = TRUE]
  <2>1. receipt'.unchanged
    BY <1>3 DEF TypeInv, Shaped
  <2>2. ReceiptMoves
    BY <1>1, <1>3 DEF TypeInv, Shaped, ReceiptMoves, Abandon
  <2>3. BlockMoves
    BY <1>1, <1>3, <2>1 DEF Abandon, BlockMoves
  <2> QED
    BY <1>1, <2>2, <2>3, HarmlessMoves DEF Moves, Changing
<1> QED
  BY <1>2, <1>3 DEF DoUnchanged

LEMMA VerifyMoves ==
  ASSUME TypeInv, Placed, DoVerify
  PROVE  Moves
<1>1. Harmless /\ Onward /\ UNCHANGED program /\ Here.do = "verify"
  BY DEF DoVerify, Onward, Harmless
<1>2. lost => Raise
  BY DEF DoVerify
<1>3. /\ BlockMoves /\ ReceiptMoves
      /\ lost /\ Here.on # "warn" => receipt'.error # ""
      /\ lost /\ phase = "body" /\ Here.on \in {"raise", "once"} => todo' = <<>>
  BY <1>1, <1>2, OnwardMoves
<1>4. WriteMoves
  BY <1>1, <1>3 DEF Harmless, TypeInv, WriteMoves, Fatal, Ending, Doing, Changing
<1> QED
  BY <1>1, <1>3, <1>4, HarmlessMoves DEF Moves, Changing

LEMMA FacetsAre == {"stamp", "modified", "needs rebuild"} \subseteq Facets
BY DEF Facets, OwnFacets

LEMMA StillIs == Still \in [Facets -> Nat] /\ Still["modified"] \in 0..1
<1>1. Still["modified"] = 0
  BY FacetsAre DEF Still
<1> QED
  BY <1>1 DEF Still

LEMMA FacetSet ==
  ASSUME NEW d \in [Facets -> Nat], NEW f \in Facets, NEW n \in Nat, NEW e,
         e = [d EXCEPT ![f] = n]
  PROVE  e \in [Facets -> Nat] /\ e[f] = n /\ \A g \in Facets \ {f} : e[g] = d[g]
OBVIOUS

(* What a facet may become. *)
LEMMA Becoming ==
  ASSUME TypeInv, NEW f \in Facets
  PROVE  /\ MayBecome(f) \subseteq Nat /\ Raised(f) \subseteq MayBecome(f)
         /\ \A n \in Raised(f) : doc[f] <= n
         /\ f = "modified" => MayBecome(f) \subseteq 0..1
<1>1. doc[f] \in Nat /\ (f = "modified" => doc[f] \in 0..1) /\ Places \in Nat
  BY HostAssumption DEF TypeInv
<1>2. "modified" \notin Stamps /\ "modified" \in Flags
  BY DEF Stamps, Flags
<1>3. MayBecome(f) \in {{doc[f]}, {doc[f], doc[f] + 1}, 0..1, 0..Places}
  BY DEF MayBecome
<1>4. f = "modified" => MayBecome(f) \in {{doc[f]}, 0..1}
  BY <1>2 DEF MayBecome
<1>5. MayBecome(f) \subseteq Nat
  BY <1>1, <1>3
<1>6. f = "modified" => MayBecome(f) \subseteq 0..1
  BY <1>1, <1>4
<1>7. Raised(f) \subseteq MayBecome(f) /\ \A n \in Raised(f) : n = doc[f] \/ n = doc[f] + 1
  BY DEF Raised
<1> QED
  BY <1>1, <1>5, <1>6, <1>7

LEMMA MarkMoves ==
  ASSUME TypeInv, Placed, DoMark
  PROVE  Moves
<1>1. /\ UNCHANGED <<held, poisoned, retired, snaps, claimed, changed, unsaved, lost, published>>
      /\ Onward /\ UNCHANGED program /\ Here.do = "mark" /\ Drifts({})
  BY DEF DoMark, Onward
<1>2. PICK flag \in Raised("modified") :
        /\ doc' = [doc EXCEPT !["modified"] = flag]
        /\ (flag = 1 /\ Advance /\ UNCHANGED receipt) \/ Raise
  BY DEF DoMark
<1>3. /\ doc' \in [Facets -> Nat] /\ doc'["modified"] = flag
      /\ flag \in 0..1 /\ doc["modified"] \in Nat /\ doc["modified"] <= flag
  BY <1>2, Becoming DEF TypeInv, Facets, OwnFacets
<1>4. BlockMoves /\ ReceiptMoves /\ (Here \in Fatal({"mark"}) => receipt'.error # "" \/ flag = 1)
  BY <1>1, <1>2, OnwardMoves DEF Fatal
<1>5. WriteMoves
  <2>1. /\ doc'["modified"] = 0 => doc["modified"] = 0
        /\ flag = 1 => doc'["modified"] # 0
        /\ doc'["modified"] \in 0..1
    BY <1>3
  <2>2. /\ Here \notin Fatal({"verify"}) /\ Here \notin Ending({"verify"})
        /\ Here \notin Fatal(Changing)
    BY <1>1 DEF Fatal, Ending, Doing, Changing
  <2> QED
    BY <1>1, <1>4, <2>1, <2>2, Zenon DEF TypeInv, WriteMoves
<1>6. FacetMoves
  BY <1>1, <1>3, UnsnappedMoves
<1>7. DriftMoves
  BY <1>1, DriftingMoves
<1>8. HeldMoves
  BY <1>1 DEF HeldMoves, Of, Doing
<1> QED
  BY <1>4, <1>5, <1>6, <1>7, <1>8 DEF Moves

LEMMA SnapMoves ==
  ASSUME TypeInv, Placed, DoSnap
  PROVE  Moves
<1>1. /\ UNCHANGED <<doc, held, poisoned, retired, claimed, history>>
      /\ Onward /\ UNCHANGED program /\ Here.do = "snap"
  BY DEF DoSnap, Onward
<1>2. Here \in Steps
  BY Rest DEF TypeInv, Placed, Running, Here
<1>3. BlockMoves /\ ReceiptMoves
  BY <1>1, OnwardMoves
<1>4. doc' \in [Facets -> Nat]
  BY <1>1 DEF TypeInv
<1>5. \A f : Here \notin Comparing(f) /\ Here \notin Refusing(f)
  BY <1>1 DEF Refusing, Comparing, Of, Doing
<1>6. FacetMoves
  <2>1. CASE UNCHANGED snaps /\ Raise
    <3>1. \A f : (Snapped(f)' <=> Snapped(f)) /\ First(f)' = First(f)
      BY <2>1 DEF Snapped, First
    <3>2. \A f : phase = "body" /\ Here \in Observing(f) => todo' = <<>>
      BY <1>1, <2>1, OnwardMoves DEF Observing
    <3> QED
      BY <1>4, <1>5, <3>1, <3>2, Zenon DEF FacetMoves
  <2>2. CASE snaps' = [name \in DOMAIN snaps \cup {Here.at} |->
                         IF name = Here.at THEN Observed ELSE snaps[name]]
    <3>1. CASE Here.at # "before"
      <4>1. ("before" \in DOMAIN snaps' <=> "before" \in DOMAIN snaps)
            /\ ("before" \in DOMAIN snaps => snaps'["before"] = snaps["before"])
        BY <2>2, <3>1
      <4>2. \A f : (Snapped(f)' <=> Snapped(f)) /\ (Snapped(f) => First(f)' = First(f))
        BY <4>1 DEF Snapped, First
      <4>3. \A f : Here \notin Observing(f)
        BY <3>1 DEF Observing, Snapping, Of
      <4> QED
        BY <1>4, <1>5, <4>2, <4>3, Zenon DEF FacetMoves
    <3>2. CASE Here.at = "before"
      <4>1. "before" \in DOMAIN snaps' /\ snaps'["before"] = Observed
        BY <2>2, <3>2
      <4>2. PICK known : known = IF "before" \in DOMAIN snaps THEN DOMAIN snaps["before"] ELSE {}
        OBVIOUS
      <4>3. \A f : f \in known <=> Snapped(f)
        BY <4>2 DEF Snapped
      <4>4. Observed = [f \in known \cup Here.of |->
                          IF f \in Here.of THEN doc[f] ELSE snaps["before"][f]]
        BY <3>2, <4>2 DEF Observed
      <4>5. /\ DOMAIN Observed = known \cup Here.of
            /\ \A f \in Here.of : Observed[f] = doc[f]
            /\ \A f \in known \ Here.of : Observed[f] = First(f)
        BY <4>4 DEF First
      <4>6. ASSUME NEW f
            PROVE  /\ Snapped(f)' <=> Snapped(f) \/ f \in Here.of
                   /\ f \in Here.of => First(f)' = doc[f]
                   /\ Snapped(f) /\ f \notin Here.of => First(f)' = First(f)
        <5>1. Snapped(f)' <=> f \in DOMAIN Observed
          BY <4>1 DEF Snapped
        <5>2. First(f)' = Observed[f]
          BY <4>1 DEF First
        <5> QED
          BY <4>3, <4>5, <5>1, <5>2
      <4>7. ASSUME NEW f
            PROVE  /\ f \in Here.of <=> Here \in Snapping(f)
                   /\ f \in Here.of => f \in Facets
                   /\ Here \in Observing(f) => f \in Here.of
        BY <1>1, <1>2, <3>2 DEF Observing, Snapping, Of, Doing, Steps
      <4> QED
        BY <1>4, <1>5, <4>6, <4>7, Zenon DEF FacetMoves
    <3> QED
      BY <3>1, <3>2
  <2> QED
    BY <2>1, <2>2 DEF DoSnap
<1>7. WriteMoves
  BY <1>1 DEF TypeInv, WriteMoves, Fatal, Ending, Doing, Changing
<1>8. DriftMoves /\ HeldMoves
  BY <1>1 DEF DriftMoves, HeldMoves, Of, Doing
<1> QED
  BY <1>3, <1>6, <1>7, <1>8 DEF Moves

LEMMA SameMoves ==
  ASSUME TypeInv, Placed, DoSame
  PROVE  Moves
<1>1. Harmless /\ Onward /\ UNCHANGED program /\ Here.do = "same"
  BY DEF DoSame, Onward, Harmless
<1>2. BlockMoves /\ ReceiptMoves
  BY <1>1, OnwardMoves
<1>3. ASSUME NEW f, Here \in Comparing(f), Snapped(f), doc[f] # First(f) PROVE Raise
  <2>1. f \in Moved(Here.at, Here.of)
    BY <1>3 DEF Comparing, Of, Snapped, First, Moved
  <2> QED
    BY <2>1 DEF DoSame
<1>4. FacetMoves
  <2>1. \A f : (Snapped(f)' <=> Snapped(f)) /\ First(f)' = First(f)
    BY <1>1 DEF Harmless, Snapped, First
  <2>2. doc' \in [Facets -> Nat]
    BY <1>1 DEF Harmless, TypeInv
  <2>3. ASSUME NEW f, Here \in Comparing(f), Snapped(f), doc[f] # First(f)
        PROVE  receipt'.error # ""
    BY <1>1, <1>3, <2>3, OnwardMoves DEF Comparing
  <2>4. ASSUME NEW f, phase = "body", Here \in Refusing(f), Snapped(f), doc[f] # First(f)
        PROVE  todo' = <<>>
    BY <1>1, <1>3, <2>4, OnwardMoves DEF Refusing
  <2>5. \A f : Here \notin Observing(f)
    BY <1>1 DEF Observing, Snapping, Of, Doing
  <2> QED
    BY <2>1, <2>2, <2>3, <2>4, <2>5, Zenon DEF FacetMoves
<1> QED
  BY <1>1, <1>2, <1>4, HarmlessMoves DEF Moves, Changing

LEMMA ChangeMoves ==
  ASSUME TypeInv, Placed, DoWrite
  PROVE  Moves
<1>1. /\ UNCHANGED <<held, poisoned, retired, snaps, claimed, published, program>>
      /\ Onward /\ Here.do \in Changing /\ DriftsByTouching
  BY DEF DoWrite, Writes, Onward, Changing
<1>2. Here \in Lossy
  BY <1>1, Rest DEF TypeInv, Placed, Running, Here, Lossy, Doing
<1>3. BlockMoves /\ ReceiptMoves
  BY <1>1, OnwardMoves DEF Changing
<1>4. PICK effect \in BOOLEAN :
        /\ changed' = (changed \/ effect)
        /\ IF effect
           THEN \E stamp \in Raised("stamp"), flag \in Raised("modified") :
                  /\ Here.do = "write" => stamp # doc["stamp"]
                  /\ doc' = [doc EXCEPT !["stamp"] = stamp, !["modified"] = flag]
           ELSE UNCHANGED doc
        /\ unsaved' = (unsaved \/ effect)
        /\ \/ Advance /\ lost' = (lost \/ ~effect) /\ UNCHANGED receipt
           \/ Raise /\ UNCHANGED lost
  BY DEF DoWrite
<1>5. /\ doc' \in [Facets -> Nat]
      /\ doc'["modified"] \in 0..1 /\ (doc'["modified"] = 0 => doc["modified"] = 0)
  <2>1. CASE ~effect
    BY <1>4, <2>1 DEF TypeInv
  <2>2. CASE effect
    <3>1. PICK stamp \in Raised("stamp"), flag \in Raised("modified") :
            doc' = [doc EXCEPT !["stamp"] = stamp, !["modified"] = flag]
      BY <1>4, <2>2
    <3>2. stamp \in Nat /\ flag \in 0..1 /\ doc["modified"] <= flag /\ doc["modified"] \in Nat
      BY Becoming DEF TypeInv, Facets, OwnFacets
    <3>3. doc'["modified"] = flag /\ doc' \in [Facets -> Nat]
      <4>1. PICK stamped : stamped = [doc EXCEPT !["stamp"] = stamp]
        OBVIOUS
      <4>2. stamped \in [Facets -> Nat]
        BY <3>2, <4>1, FacetsAre, FacetSet DEF TypeInv
      <4>3. doc' = [stamped EXCEPT !["modified"] = flag]
        BY <3>1, <4>1
      <4>4. flag \in Nat
        BY <3>2
      <4>5. "modified" \in Facets
        BY FacetsAre
      <4> QED
        BY <4>2, <4>3, <4>4, <4>5, FacetSet
    <3> QED
      BY <3>2, <3>3
  <2> QED
    BY <2>1, <2>2
<1>6. WriteMoves
  <2>1. changed' \in BOOLEAN /\ (changed => changed') /\ (effect => changed')
    BY <1>4, Zenon DEF TypeInv
  <2>2. lost' \in BOOLEAN /\ (lost => lost')
    <3>1. lost' = (lost \/ ~effect) \/ lost' = lost
      BY <1>4
    <3> QED
      BY <3>1, Zenon DEF TypeInv
  <2>3. unsaved' \in BOOLEAN /\ (unsaved' => unsaved \/ changed')
    BY <1>4, <2>1, Zenon DEF TypeInv
  <2>4. ASSUME Here.on # "warn" PROVE receipt'.error # "" \/ changed' \/ lost'
    <3>1. CASE Raise
      BY <1>1, <2>4, <3>1, OnwardMoves DEF Changing
    <3>2. CASE lost' = (lost \/ ~effect)
      BY <2>1, <3>2, Zenon
    <3> QED
      BY <1>4, <3>1, <3>2
  <2>5. Here \notin Fatal({"verify"}) /\ Here \notin Ending({"verify"}) /\ Here \notin Fatal({"mark"})
    BY <1>1 DEF Fatal, Ending, Doing, Changing
  <2>6. published' \in BOOLEAN /\ (published' <=> published)
    BY <1>1 DEF TypeInv
  <2>7. Here \in Fatal(Changing) => Here.on # "warn"
    BY DEF Fatal
  <2> QED
    BY <1>1, <1>2, <1>5, <2>1, <2>2, <2>3, <2>4, <2>5, <2>6, <2>7, Zenon DEF WriteMoves
<1>7. FacetMoves
  BY <1>1, <1>5, UnsnappedMoves DEF Changing
<1>8. DriftMoves
  BY <1>1, <1>2, DriftingMoves DEF DriftsByTouching, Touches
<1>9. HeldMoves
  BY <1>1 DEF HeldMoves, Of, Doing, Changing
<1> QED
  BY <1>3, <1>6, <1>7, <1>8, <1>9 DEF Moves

LEMMA ProduceMoves ==
  ASSUME TypeInv, Placed, DoProduce
  PROVE  Moves
<1>1. /\ UNCHANGED <<held, poisoned, retired, snaps, claimed, changed, published, program>>
      /\ Onward /\ Here.do = "produce" /\ DriftsByTouching
      /\ unsaved' = (unsaved /\ ~Saved)
  BY DEF DoProduce, Onward
<1>2. Here \in Lossy
  BY <1>1, Rest DEF TypeInv, Placed, Running, Here, Lossy, Doing
<1>3. BlockMoves /\ ReceiptMoves
  BY <1>1, OnwardMoves
<1>4. doc' \in [Facets -> Nat] /\ doc'["modified"] \in 0..1
  <2>1. PICK stamp \in MayBecome("stamp"), flag \in MayBecome("modified"),
             rebuild \in MayBecome("needs rebuild") :
          doc' = [doc EXCEPT !["stamp"] = stamp, !["modified"] = flag,
                             !["needs rebuild"] = rebuild]
    BY DEF DoProduce
  <2>2. stamp \in Nat /\ flag \in Nat /\ flag \in 0..1 /\ rebuild \in Nat
    BY Becoming DEF Facets, OwnFacets
  <2>3. doc'["modified"] = flag /\ doc' \in [Facets -> Nat]
    <3>1. PICK stamped : stamped = [doc EXCEPT !["stamp"] = stamp]
      OBVIOUS
    <3>2. stamped \in [Facets -> Nat]
      BY <2>2, <3>1, FacetsAre, FacetSet DEF TypeInv
    <3>3. PICK flagged : flagged = [stamped EXCEPT !["modified"] = flag]
      OBVIOUS
    <3>4. flag \in Nat
      BY <2>2
    <3>5. rebuild \in Nat
      BY <2>2
    <3>6. "modified" \in Facets /\ "needs rebuild" \in Facets
      BY FacetsAre
    <3>7. flagged \in [Facets -> Nat] /\ flagged["modified"] = flag
      BY <3>2, <3>3, <3>4, <3>6, FacetSet
    <3>8. doc' = [flagged EXCEPT !["needs rebuild"] = rebuild]
      BY <2>1, <3>1, <3>3
    <3>9. "modified" \in Facets \ {"needs rebuild"}
      BY <3>6
    <3> QED
      BY <3>5, <3>6, <3>7, <3>8, <3>9, FacetSet
  <2> QED
    BY <2>2, <2>3
<1>5. lost' = lost \/ lost' = TRUE
  BY DEF DoProduce
<1>6. WriteMoves
  <2>1. lost' \in BOOLEAN /\ (lost => lost')
    BY <1>5, Zenon DEF TypeInv
  <2>2. Here \notin Fatal({"verify"}) /\ Here \notin Ending({"verify"}) /\ Here \notin Fatal({"mark"})
        /\ Here \notin Fatal(Changing)
    BY <1>1 DEF Fatal, Ending, Doing, Changing
  <2>3. unsaved' \in BOOLEAN /\ (unsaved' => unsaved)
    BY <1>1, Zenon DEF TypeInv
  <2>4. unsaved' /\ doc'["modified"] = 0 => doc["modified"] = 0
    <3>1. unsaved' /\ doc'["modified"] = 0 => doc["modified"] # 1
      BY <1>1, Zenon DEF Saved
    <3> QED
      BY <3>1 DEF TypeInv
  <2> QED
    BY <1>1, <1>2, <1>4, <2>1, <2>2, <2>3, <2>4, Zenon DEF TypeInv, WriteMoves
<1>7. FacetMoves
  BY <1>1, <1>4, UnsnappedMoves
<1>8. DriftMoves
  BY <1>1, <1>2, DriftingMoves DEF DriftsByTouching, Touches
<1>9. HeldMoves
  BY <1>1 DEF HeldMoves, Of, Doing
<1> QED
  BY <1>3, <1>6, <1>7, <1>8, <1>9 DEF Moves

LEMMA StirMoves ==
  ASSUME TypeInv, Placed, DoStir
  PROVE  Moves
<1>1. /\ UNCHANGED <<held, poisoned, retired, snaps, claimed, changed, unsaved, lost, published,
                    program>>
      /\ Onward /\ Here.do = "stir" /\ Drifts({})
  BY DEF DoStir, Onward
<1>2. doc' \in [Facets -> Nat] /\ doc'["modified"] = doc["modified"]
  <2>1. PICK stamp \in Raised("stamp") : doc' = [doc EXCEPT !["stamp"] = stamp]
    BY DEF DoStir
  <2>2. stamp \in Nat
    BY Becoming DEF Facets, OwnFacets
  <2> QED
    BY <2>1, <2>2 DEF TypeInv, Facets, OwnFacets
<1>3. BlockMoves /\ ReceiptMoves
  BY <1>1, OnwardMoves
<1>4. WriteMoves
  BY <1>1, <1>2 DEF TypeInv, WriteMoves, Fatal, Ending, Doing, Changing
<1>5. FacetMoves
  BY <1>1, <1>2, UnsnappedMoves
<1>6. DriftMoves
  BY <1>1, DriftingMoves
<1>7. HeldMoves
  BY <1>1 DEF HeldMoves, Of, Doing
<1> QED
  BY <1>3, <1>4, <1>5, <1>6, <1>7 DEF Moves

(* A step that lends something or gives it back. *)
LEMMA LendingMoves ==
  ASSUME TypeInv, Placed, HeldMoves, Onward, UNCHANGED <<program, doc, snaps, history>>,
         Here.do \in {"take", "free", "drop", "settle"}
  PROVE  Moves
<1>1. BlockMoves /\ ReceiptMoves
  BY OnwardMoves
<1>2. WriteMoves
  BY DEF TypeInv, WriteMoves, Fatal, Ending, Doing, Changing
<1>3. FacetMoves
  BY UnsnappedMoves
<1>4. DriftMoves
  BY DEF DriftMoves
<1> QED
  BY <1>1, <1>2, <1>3, <1>4 DEF Moves

LEMMA TakeMoves ==
  ASSUME TypeInv, Placed, DoTake
  PROVE  Moves
<1>1. Here.do = "take" /\ UNCHANGED <<program, doc, retired, snaps, history>> /\ Onward
  BY DEF DoTake, Onward
<1>2. Here \in Of({"take"}, Here.at)
  BY <1>1, Rest DEF TypeInv, Placed, Running, Here, Of, Doing
<1>3. \/ claimed' = claimed \cup {Here.at} /\ held' = held \cup {Here.at}
      \/ held' = held /\ (claimed' = claimed \/ claimed' = claimed \cup {Here.at})
  BY DEF DoTake
<1>4. poisoned => poisoned'
  <2>1. poisoned' = poisoned \/ poisoned' = TRUE
    BY DEF DoTake
  <2> QED
    BY <2>1, Zenon
<1>5. \A w : Here \notin Of({"free"}, w)
  BY <1>1 DEF Of, Doing
<1>6. HeldMoves
  BY <1>1, <1>2, <1>3, <1>4, <1>5 DEF HeldMoves
<1> QED
  BY <1>1, <1>6, LendingMoves

LEMMA FreeMoves ==
  ASSUME TypeInv, Placed, DoFree
  PROVE  Moves
<1>1. Here.do = "free" /\ UNCHANGED <<program, doc, retired, snaps, history>> /\ Onward
  BY DEF DoFree, Onward
<1>2. \A w : Here \in Of({"free"}, w) <=> w = Here.at
  BY <1>1, Rest DEF TypeInv, Placed, Running, Here, Of, Doing
<1>3. held' = held \/ held' = held \ {Here.at}
  BY DEF DoFree
<1>4. claimed' = claimed \/ claimed' = claimed \ {Here.at}
  BY DEF DoFree
<1>5. poisoned => poisoned'
  <2>1. poisoned' = poisoned \/ poisoned' = (poisoned \/ Here.at \in Unrestorable)
    BY DEF DoFree
  <2> QED
    BY <2>1, Zenon
<1>6. \/ Here.at \notin held' /\ Here.at \notin claimed'
      \/ Here.at \in receipt'.reported /\ (Here.at \in Unrestorable => poisoned')
  <2>1. CASE held' = held \ {Here.at} /\ claimed' = claimed \ {Here.at}
    BY <2>1
  <2>2. CASE Raise /\ poisoned' = (poisoned \/ Here.at \in Unrestorable)
    <3>1. Here.at \in receipt'.reported
      BY <1>1, <2>2, OnwardMoves
    <3>2. Here.at \in Unrestorable => poisoned'
      BY <2>2, Zenon
    <3> QED
      BY <3>1, <3>2
  <2> QED
    BY <2>1, <2>2 DEF DoFree
<1>7. HeldMoves
  <2>1. \A w \in held' : w \in held
    BY <1>3
  <2>2. \A w \in claimed' : w \in claimed
    BY <1>4
  <2>3. \A w \in claimed : w \in claimed' \/ w = Here.at
    BY <1>4
  <2>4. \A w \in claimed : \/ w \in claimed' \/ Here \in Of({"free", "drop", "settle"}, w)
    BY <1>1, <1>2, <2>3 DEF Of, Doing
  <2>5. UNCHANGED retired
    BY <1>1
  <2>6. \A w : Here \in Of({"free"}, w) =>
              \/ w \notin claimed'
              \/ w \in receipt'.reported /\ (w \in Unrestorable => poisoned')
    BY <1>2, <1>6
  <2>7. \A w \in claimed : \/ w \in claimed' \/ w \notin held'
                           \/ w \in receipt'.reported /\ (w \in Unrestorable => poisoned')
    BY <1>6, <2>3
  <2> QED
    BY <1>5, <2>1, <2>2, <2>4, <2>5, <2>6, <2>7, Zenon DEF HeldMoves
<1> QED
  BY <1>1, <1>7, LendingMoves

LEMMA DropMoves ==
  ASSUME TypeInv, Placed, DoDrop
  PROVE  Moves
<1>1. /\ Here.do = "drop" /\ UNCHANGED <<program, doc, poisoned, retired, snaps, history>>
      /\ Onward
  BY DEF DoDrop, Onward
<1>2. Here \in Of({"drop"}, Here.at) /\ Here \in Of({"free", "drop", "settle"}, Here.at)
  BY <1>1, Rest DEF TypeInv, Placed, Running, Here, Of, Doing
<1>3. claimed' = claimed \ {Here.at} /\ (held' = held \/ held' = held \ {Here.at})
  BY DEF DoDrop
<1>4. \A w : Here \notin Of({"free"}, w)
  BY <1>1 DEF Of, Doing
<1>5. HeldMoves
  BY <1>1, <1>2, <1>3, <1>4 DEF HeldMoves
<1> QED
  BY <1>1, <1>5, LendingMoves

LEMMA SettleMoves ==
  ASSUME TypeInv, Placed, DoSettle
  PROVE  Moves
<1>1. /\ Here.do = "settle"
      /\ UNCHANGED <<program, doc, poisoned, retired, snaps, history, receipt>> /\ Advance
  BY DEF DoSettle
<1>2. Here \in Of({"free", "drop", "settle"}, Here.at)
  BY <1>1, Rest DEF TypeInv, Placed, Running, Here, Of, Doing
<1>3. claimed' = claimed \ {Here.at} /\ held' = held \ {Here.at}
  BY DEF DoSettle
<1>4. \A w : Here \notin Of({"free"}, w)
  BY <1>1 DEF Of, Doing
<1>5. HeldMoves
  BY <1>1, <1>2, <1>3, <1>4 DEF HeldMoves
<1> QED
  BY <1>1, <1>5, LendingMoves DEF Onward

LEMMA PublishMoves ==
  ASSUME TypeInv, Placed, DoPublish
  PROVE  Moves
<1>1. /\ Here.do = "publish" /\ Onward
      /\ UNCHANGED <<program, doc, poisoned, retired, snaps, changed, unsaved, lost, drift>>
  BY DEF DoPublish, Onward
<1>2. \/ claimed' = claimed \ {"staging"} /\ held' = held \ {"staging"}
      \/ claimed' = claimed /\ held' = held
  BY DEF DoPublish
<1>3. BlockMoves /\ ReceiptMoves
  BY <1>1, OnwardMoves
<1>4. WriteMoves
  <2>1. published' = TRUE \/ published' = published
    BY DEF DoPublish
  <2>2. published' \in BOOLEAN /\ (published => published')
    BY <2>1, Zenon DEF TypeInv
  <2>3. Here \notin Fatal({"verify"}) /\ Here \notin Ending({"verify"}) /\ Here \notin Fatal({"mark"})
        /\ Here \notin Fatal(Changing)
    BY <1>1 DEF Fatal, Ending, Doing, Changing
  <2> QED
    BY <1>1, <2>2, <2>3, Zenon DEF TypeInv, WriteMoves
<1>5. FacetMoves
  BY <1>1, UnsnappedMoves
<1>6. DriftMoves
  BY <1>1 DEF DriftMoves
<1>7. HeldMoves
  <2>1. \A w : Here \notin Of({"free"}, w)
    BY <1>1 DEF Of, Doing
  <2> QED
    BY <1>1, <1>2, <2>1 DEF HeldMoves
<1> QED
  BY <1>3, <1>4, <1>5, <1>6, <1>7 DEF Moves

LEMMA IdleMoves ==
  ASSUME TypeInv, Placed, Idle
  PROVE  Moves
<1>1. Harmless /\ Advance /\ UNCHANGED <<program, receipt>> /\ phase = "always"
  BY DEF Idle, Harmless
<1>2. \/ Here.do \in {"free", "drop"} /\ Here.at \notin claimed
      \/ Here.do \in {"same", "note"} /\ Here.at \notin DOMAIN snaps
  BY DEF Idle
<1>3. BlockMoves /\ ReceiptMoves
  BY <1>1, <1>2, AdvanceMoves DEF TypeInv
<1>4. FacetMoves
  <2>1. \A f : (Snapped(f)' <=> Snapped(f)) /\ First(f)' = First(f)
    BY <1>1 DEF Harmless, Snapped, First
  <2>2. doc' \in [Facets -> Nat]
    BY <1>1 DEF Harmless, TypeInv
  <2>3. \A f : Here \in Comparing(f) => ~Snapped(f)
    BY <1>2 DEF Comparing, Of, Doing, Snapped
  <2>4. \A f : Here \in Refusing(f) => ~Snapped(f)
    BY <2>3 DEF Refusing
  <2> QED
    BY <1>1, <2>1, <2>2, <2>3, <2>4, Zenon DEF FacetMoves
<1>5. WriteMoves
  BY <1>1, <1>2, HarmlessMoves DEF Changing
<1>6. HeldMoves
  <2>1. \A w : Here \in Of({"free"}, w) => w \notin claimed
    BY <1>2 DEF Of, Doing
  <2> QED
    BY <1>1, <2>1 DEF Harmless, HeldMoves
<1> QED
  BY <1>1, <1>3, <1>4, <1>5, <1>6, HarmlessMoves DEF Moves

(* Every step of an adapter is such a move. *)
Adapting ==
  \/ DoCheck \/ DoRead \/ DoSnap \/ DoSame \/ DoClean \/ DoAttempt \/ DoNote \/ DoWrite \/ DoMark
  \/ DoVerify \/ DoUnchanged \/ DoProduce \/ DoStir \/ DoTake \/ DoFree \/ DoDrop \/ DoSettle
  \/ DoPublish \/ Idle

LEMMA PlacedHere ==
  ASSUME TypeInv, BlockInv, Running
  PROVE  Here \in Steps /\ (Placed \/ (phase = "after" /\ Here.do \in Finishing))
<1>1. Here \in Steps /\ todo \in Seq(Steps) /\ todo # <<>> /\ Here = Head(todo)
  BY Rest DEF TypeInv, Running, Here
<1>2. phase \in {"body", "always", "after"}
  BY <1>1 DEF BlockInv
<1>3. phase = "body" => Here \notin Doing(Finishing \cup {"drop", "note"})
  BY <1>1, HasRest DEF BlockInv
<1>4. phase = "always" => Here \notin Steps \ Doing(Cleaning)
  BY <1>1, HasRest DEF BlockInv
<1>5. phase = "after" => Here \notin Steps \ Doing(Finishing)
  BY <1>1, HasRest DEF BlockInv
<1> QED
  BY <1>1, <1>2, <1>3, <1>4, <1>5 DEF Placed, Doing, Running

LEMMA AdapterMoves ==
  ASSUME TypeInv, BlockInv, Adapting
  PROVE  Placed /\ Moves
<1>1. Running /\ Here.do \notin Finishing
  BY DEF Adapting, DoCheck, DoRead, DoSnap, DoSame, DoClean, DoAttempt, DoNote, DoWrite, Writes, DoMark,
    DoVerify, DoUnchanged, DoProduce, DoStir, DoTake, DoFree, DoDrop, DoSettle, DoPublish, Idle,
    Finishing
<1>2. Placed
  BY <1>1, PlacedHere
<1> QED
  BY <1>2, CheckMoves, ReadMoves, SnapMoves, SameMoves, CleanMoves, AttemptMoves, NoteMoves,
    ChangeMoves, MarkMoves, VerifyMoves, UnchangedMoves, ProduceMoves, StirMoves, TakeMoves, FreeMoves,
    DropMoves, SettleMoves, PublishMoves, IdleMoves DEF Adapting

-----------------------------------------------------------------------------
(* What the worker does around the adapter. *)

Late == {"after", "restore", "describe", "leave", "validate", "done"}

(* Up to the adapter: on, into its try block, or straight to the answer. *)
Opens ==
  /\ phase \in Early \ {"idle"}
  /\ UNCHANGED <<program, doc, poisoned, retired, snaps, history>>
  /\ \/ phase' \in {"resolve", "activate"} /\ UNCHANGED <<todo, receipt>>
     \/ phase' = "body" /\ todo' = Operations[program].body /\ UNCHANGED receipt
     \/ /\ phase' = "leave" /\ UNCHANGED todo
        /\ \E error \in {"failed", "invalid", "conflict", "unconfirmed"} :
             receipt' = [receipt EXCEPT !.error = error]
  /\ held' \subseteq held \cup {"command in progress", "foreground"}
  /\ claimed \subseteq claimed'
  /\ claimed' \subseteq claimed \cup {"command in progress", "foreground"}
  /\ phase' \in {"resolve", "activate"} => ("foreground" \in held' \cup claimed' =>
                                              "foreground" \in held \cup claimed)
  /\ "command in progress" \in held' => "command in progress" \in held \cup claimed'
  /\ "foreground" \in held' => \/ "foreground" \in held
                               \/ phase' = "body" /\ "foreground" \in claimed'
                               \/ phase' = "leave" /\ receipt'.error = "unconfirmed"

LEMMA OpeningSteps ==
  ASSUME TypeInv, EnterSequence \/ RefuseRequest \/ Resolve \/ AlreadyActive \/ Activate
  PROVE  Opens
<1>1. CASE EnterSequence
  BY <1>1 DEF EnterSequence, Answer, Opens, Early, TypeInv, Shaped
<1>2. CASE RefuseRequest
  BY <1>2 DEF RefuseRequest, Answer, Opens, Early, TypeInv, Shaped
<1>3. CASE Resolve
  BY <1>3 DEF Resolve, Answer, Opens, Early, TypeInv, Shaped
<1>4. CASE AlreadyActive
  BY <1>4 DEF AlreadyActive, Enter, Opens, Early
<1>5. CASE Activate
  BY <1>5 DEF Activate, Enter, Answer, Opens, Early, TypeInv, Shaped
<1> QED
  BY <1>1, <1>2, <1>3, <1>4, <1>5

(* From one block to the next. *)
Turns ==
  /\ todo = <<>> /\ UNCHANGED <<program, native, code, history>>
  /\ \/ phase = "body" /\ phase' = "always" /\ todo' = Operations[program].always
     \/ phase = "always" /\ phase' = "after" /\ todo' = Operations[program].after

LEMMA TurningSteps ==
  ASSUME LeaveBody \/ LeaveAlways
  PROVE  Turns
BY DEF LeaveBody, LeaveAlways, Ended, Enter, Turns

(* From the adapter's result to the answer: nothing touches the document any  *)
(* more, and the receipt of an operation that keeps it is not lost.           *)
KeepInv ==
  /\ phase = "after" /\ Claim("kept") => ~Has(todo, {step \in Steps : step.on # "keep"})
  /\ phase = "describe" => ~Claim("kept")

Completes ==
  \/ receipt' = receipt
  \/ receipt' = Erased /\ (receipt.error \in Exceptions \/ ~Claim("kept"))
  \/ /\ Shaped(receipt') /\ receipt'.error # ""
     /\ receipt'.error \in {receipt.error, "failed", "inactive", "unrestored"}
     /\ receipt.error # "" => receipt'.error = receipt.error
     /\ receipt'.attempted = receipt.attempted /\ receipt'.unchanged = receipt.unchanged
     /\ receipt.reported \subseteq receipt'.reported

Closes ==
  /\ phase \in Late \ {"done"} /\ phase' \in Late
  /\ UNCHANGED <<program, doc, poisoned, snaps, history>>
  /\ IF phase' = "after" THEN phase = "after" /\ Running /\ todo' \in {Tail(todo), <<>>}
     ELSE todo' = <<>>
  /\ phase = "after" => phase' \in {"after", "restore"}
  /\ phase' \in {"validate", "done"} => phase \in {"leave", "validate"}
  /\ phase' = "describe" => Claim("activation")
  /\ phase' = "done" => ~Contradicts'
  /\ Completes
  /\ held' \subseteq held /\ claimed' \subseteq claimed
  /\ \A w \in claimed \ claimed' :
       \/ w \notin held'
       \/ w = "foreground" /\ (\/ receipt'.error = "erased"
                               \/ "foreground" \in receipt'.reported /\ receipt'.error # "")
       \/ w = "command in progress" /\ retired' /\ phase' = "done"
  /\ "foreground" \in claimed' => "foreground" \in claimed /\ phase # "restore"
  /\ "command in progress" \in claimed' => "command in progress" \in claimed /\ phase # "leave"
  /\ phase' # "done" => retired' = retired
LEMMA FinishingSteps ==
  ASSUME TypeInv, BlockInv, KeepInv, Finish
  PROVE  Closes
<1>1. /\ Running /\ Here.do \in Finishing /\ UNCHANGED <<program, native, snaps, claimed, history>>
      /\ UNCHANGED phase
  BY DEF Finish, Finishing, Advance, Abandon
<1>2. phase = "after" /\ Here \in Steps
  BY <1>1, PlacedHere DEF Placed, Finishing, Cleaning
<1>3. Claim("kept") => Here.on = "keep"
  BY <1>1, <1>2, HasRest DEF KeepInv, Running, Here, TypeInv
<1>4. todo' \in {Tail(todo), <<>>}
  BY DEF Finish, Advance, Abandon
<1>5. Completes
  <2>1. CASE UNCHANGED receipt
    BY <2>1 DEF Completes
  <2>2. CASE receipt' = Erased /\ (Here.on = "raise" \/ Here.on \in {"bind", "success"})
    BY <1>3, <2>2 DEF Completes
  <2>3. CASE receipt' = [receipt EXCEPT !.error = IF @ = "" THEN "failed" ELSE @]
    BY <2>3 DEF TypeInv, Shaped, Completes
  <2> QED
    BY <2>1, <2>2, <2>3 DEF Finish
<1> QED
  BY <1>1, <1>2, <1>4, <1>5 DEF Closes, Late

LEMMA ForegroundSteps ==
  ASSUME TypeInv, BlockInv, RestoreForeground
  PROVE  Closes
<1>1. /\ phase = "restore" /\ phase' \in {"describe", "leave"}
      /\ phase' = "describe" => Claim("activation")
      /\ UNCHANGED <<program, todo, doc, poisoned, retired, snaps, history>>
  BY DEF RestoreForeground
<1>2. todo = <<>>
  BY <1>1 DEF BlockInv
<1>3. CASE "foreground" \notin claimed /\ UNCHANGED <<held, claimed, receipt>>
  BY <1>1, <1>2, <1>3 DEF Closes, Late, Completes
<1>4. CASE claimed' = claimed \ {"foreground"} /\ held' = held \ {"foreground"} /\ UNCHANGED receipt
  BY <1>1, <1>2, <1>4 DEF Closes, Late, Completes
<1>5. CASE /\ claimed' = claimed \ {"foreground"}
           /\ held' \in {held, held \ {"foreground"}}
           /\ receipt' = IF receipt.error = "erased" THEN receipt
                         ELSE [receipt EXCEPT !.error = IF @ = "" THEN "inactive" ELSE @,
                                              !.reported = @ \cup {"foreground"}]
  <2>1. CASE receipt.error = "erased"
    BY <1>1, <1>2, <1>5, <2>1 DEF Closes, Late, Completes
  <2>2. CASE receipt.error # "erased"
    <3>1. /\ receipt'.error = IF receipt.error = "" THEN "inactive" ELSE receipt.error
          /\ receipt'.reported = receipt.reported \cup {"foreground"}
          /\ receipt'.attempted = receipt.attempted /\ receipt'.unchanged = receipt.unchanged
          /\ Shaped(receipt')
      BY <1>5, <2>2 DEF TypeInv, Shaped
    <3>2. Completes
      BY <3>1 DEF Completes
    <3>3. receipt'.error # "" /\ "foreground" \in receipt'.reported
      BY <3>1
    <3>4. held' \subseteq held /\ claimed' = claimed \ {"foreground"}
      BY <1>5
    <3> QED
      BY <1>1, <1>2, <3>2, <3>3, <3>4 DEF Closes, Late
  <2> QED
    BY <2>1, <2>2
<1> QED
  BY <1>3, <1>4, <1>5 DEF RestoreForeground

(* What the worker makes of a result that cannot be completed. *)
LEMMA KeptIs ==
  ASSUME TypeInv, NEW error \in {"failed", "unrestored"}, receipt' = Kept(error)
  PROVE  Completes /\ receipt'.error # ""
<1>1. CASE Claim("kept") /\ receipt.error \notin Exceptions
  <2>1. /\ receipt'.error = IF receipt.error = "" THEN error ELSE receipt.error
        /\ receipt'.attempted = receipt.attempted /\ receipt'.unchanged = receipt.unchanged
        /\ receipt'.reported = receipt.reported
        /\ Shaped(receipt')
    BY <1>1 DEF Kept, TypeInv, Shaped
  <2> QED
    BY <2>1 DEF Completes
<1>2. CASE ~(Claim("kept") /\ receipt.error \notin Exceptions)
  BY <1>2 DEF Kept, Completes, Erased, NoReceipt
<1> QED
  BY <1>1, <1>2

LEMMA LeavingSteps ==
  ASSUME TypeInv, BlockInv, LeaveSequence
  PROVE  Closes
<1>1. /\ phase = "leave" /\ todo = <<>> /\ claimed' = claimed \ {"command in progress"}
      /\ UNCHANGED <<program, todo, doc, poisoned, snaps, history>>
  BY DEF LeaveSequence, BlockInv
<1>2. CASE /\ ResultOrException /\ held' = held \ {"command in progress"}
           /\ UNCHANGED <<receipt, retired>>
  <2>1. phase' = "done" => receipt'.error # ""
    BY <1>2 DEF ResultOrException, Exceptions
  <2>2. phase' = "done" => ~Contradicts'
    BY <2>1 DEF Contradicts
  <2> QED
    BY <1>1, <1>2, <2>2 DEF Closes, Late, Completes, ResultOrException
<1>3. CASE phase' = "done" /\ retired' = TRUE /\ receipt' = Kept("unrestored") /\ UNCHANGED held
  <2>1. Completes /\ receipt'.error # ""
    BY <1>3, KeptIs
  <2>2. ~Contradicts'
    BY <2>1 DEF Contradicts
  <2> QED
    BY <1>1, <1>3, <2>1, <2>2 DEF Closes, Late
<1> QED
  BY <1>2, <1>3 DEF LeaveSequence

LEMMA ValidatingSteps ==
  ASSUME TypeInv, BlockInv, ValidateAnswer
  PROVE  Closes
<1>1. /\ phase = "validate" /\ phase' = "done" /\ todo = <<>>
      /\ UNCHANGED <<program, todo, doc, held, poisoned, snaps, claimed, history>>
  BY DEF ValidateAnswer, BlockInv
<1>2. CASE ~Contradicts /\ UNCHANGED receipt
  <2>1. ~Contradicts'
    BY <1>1, <1>2 DEF Contradicts, Moved, Operations
  <2> QED
    BY <1>1, <1>2, <2>1 DEF Closes, Late, Completes
<1>3. CASE receipt' = Kept("failed")
  <2>1. Completes /\ receipt'.error # ""
    BY <1>3, KeptIs
  <2>2. ~Contradicts'
    BY <2>1 DEF Contradicts
  <2> QED
    BY <1>1, <2>1, <2>2 DEF Closes, Late
<1> QED
  BY <1>2, <1>3 DEF ValidateAnswer

LEMMA ClosingSteps ==
  ASSUME TypeInv, BlockInv, KeepInv,
         LeaveHandler \/ Finish \/ RestoreForeground \/ DescribeActivated \/ LeaveSequence
           \/ ValidateAnswer
  PROVE  Closes
<1>1. CASE LeaveHandler
  BY <1>1 DEF LeaveHandler, Ended, Enter, Closes, Late, Completes
<1>2. CASE DescribeActivated
  BY <1>2 DEF DescribeActivated, BlockInv, KeepInv, Closes, Late, Completes
<1> QED
  BY <1>1, <1>2, FinishingSteps, ForegroundSteps, LeavingSteps, ValidatingSteps
-----------------------------------------------------------------------------
(* Every step of the system is one of six. *)

(* Up to the adapter nothing has happened yet. *)
FreshInv ==
  phase \in Early =>
    /\ receipt = NoReceipt /\ snaps = <<>>
    /\ changed = FALSE /\ unsaved = FALSE /\ lost = FALSE /\ published = FALSE /\ drift = {}
    /\ held \subseteq {"command in progress", "earlier preferences"}
    /\ claimed \subseteq {"command in progress"}

Begins ==
  /\ phase \in Early \cup {"done"} /\ phase' \in Early /\ todo' = <<>>
  /\ phase' # "idle" => program' \in DOMAIN Programs
  /\ doc' \in [Facets -> Nat] /\ doc'["modified"] \in 0..1

(* People move the document, and may put back what has drifted. *)
Waits ==
  /\ UNCHANGED <<program, phase, todo, held, poisoned, retired, code, changed, lost, published>>
  /\ doc' \in [Facets -> Nat] /\ doc'["modified"] \in 0..1
  /\ unsaved' \in BOOLEAN /\ (unsaved' => unsaved)
  /\ unsaved' /\ doc'["modified"] = 0 => doc["modified"] = 0
  /\ \/ UNCHANGED <<doc, drift>>
     \/ drift' \subseteq drift /\ \A f \in drift' : Away(doc', f)
  /\ phase = "done" => UNCHANGED <<doc, unsaved>>

Proceeds == Begins \/ (Opens /\ phase' \notin Early) \/ (Placed /\ Moves) \/ Turns \/ Closes \/ Waits

LEMMA ExecuteIs ==
  ASSUME TypeInv, BlockInv, KeepInv, Execute
  PROVE  Opens \/ (Placed /\ Moves) \/ Turns \/ Closes
<1>1. \/ EnterSequence \/ RefuseRequest \/ Resolve \/ AlreadyActive \/ Activate
      \/ LeaveBody \/ LeaveAlways \/ Adapting
      \/ LeaveHandler \/ Finish \/ RestoreForeground \/ DescribeActivated \/ LeaveSequence
      \/ ValidateAnswer
  BY DEF Execute, Adapting
<1> QED
  BY <1>1, OpeningSteps, AdapterMoves, TurningSteps, ClosingSteps

(* The discipline of the operation under way. *)
LEMMA Obeys ==
  ASSUME TypeInv, phase # "idle"
  PROVE  /\ Disciplined(Operations[program])
         /\ Operations[program].body \in Seq(Steps)
         /\ Operations[program].always \in Seq(Steps)
         /\ Operations[program].after \in Seq(Steps)
BY DisciplineAssumption DEF TypeInv, Operations, Disciplined, HasBlocks

LEMMA WaitingSteps ==
  ASSUME TypeInv, Interfere \/ UNCHANGED vars
  PROVE  Waits
<1>1. CASE Interfere
  <2>1. phase # "idle"
    BY <1>1 DEF Interfere
  <2>2. PICK facet \in Watched[program] : \E value \in MayBecome(facet) \ {doc[facet]} :
          doc' = [doc EXCEPT ![facet] = value]
    BY <1>1 DEF Interfere
  <2>3. facet \in Facets
    <3>1. CASE facet = "stamp"
      BY <3>1 DEF Facets, OwnFacets
    <3>2. CASE facet # "stamp"
      <4>0. program \in DOMAIN Operations
        BY <2>1 DEF TypeInv, Operations
      <4>1. PICK i \in 1..Len(Operations[program].body) : facet \in Operations[program].body[i].of
        BY <2>2, <3>2, <4>0 DEF Watched
      <4>2. Operations[program].body[i] \in Steps
        BY <2>1, <4>1, Obeys
      <4> QED
        BY <4>1, <4>2 DEF Steps
    <3> QED
      BY <3>1, <3>2
  <2>4. PICK value \in MayBecome(facet) : doc' = [doc EXCEPT ![facet] = value]
    BY <2>2
  <2>5. value \in Nat /\ (facet = "modified" => value \in 0..1)
    BY <2>3, Becoming
  <2>6. doc' \in [Facets -> Nat] /\ doc'["modified"] \in 0..1
    <3>1. doc'["modified"] = IF facet = "modified" THEN value ELSE doc["modified"]
      BY <2>4 DEF TypeInv, Facets, OwnFacets
    <3> QED
      BY <2>3, <2>4, <2>5, <3>1 DEF TypeInv
  <2>7. unsaved' \in BOOLEAN /\ (unsaved' => unsaved /\ ~Saved)
    <3>1. unsaved' = (unsaved /\ ~Saved)
      BY <1>1 DEF Interfere
    <3> QED
      BY <3>1, Zenon DEF TypeInv
  <2>8. unsaved' /\ doc'["modified"] = 0 => doc["modified"] = 0
    BY <2>7 DEF Saved, TypeInv
  <2>9. drift' \subseteq drift /\ \A f \in drift' : Away(doc', f)
    BY <1>1 DEF Interfere, Drifts
  <2>10. /\ UNCHANGED <<program, phase, todo, held, poisoned, retired, code, changed, lost, published>>
         /\ phase # "done"
    BY <1>1 DEF Interfere
  <2> QED
    BY <2>6, <2>7, <2>8, <2>9, <2>10 DEF Waits
<1>2. CASE UNCHANGED vars
  BY <1>2 DEF Waits, TypeInv
<1> QED
  BY <1>1, <1>2

LEMMA StepsProceed ==
  ASSUME TypeInv, BlockInv, KeepInv, FreshInv, [Next]_vars
  PROVE  Proceeds /\ FreshInv'
<1>1. CASE Request
  <2>1. Begins
    BY <1>1 DEF Request, Begins, Early, TypeInv, BlockInv
  <2> QED
    BY <1>1, <2>1 DEF Proceeds, Request, FreshInv, Early
<1>2. CASE Opens
  <2>1. CASE phase' \in Early
    <3>1. Begins
      BY <1>2, <2>1 DEF Opens, Begins, Early, TypeInv, BlockInv
    <3>2. FreshInv'
      BY <1>2, <2>1 DEF Opens, FreshInv, Early
    <3> QED
      BY <3>1, <3>2 DEF Proceeds
  <2>2. CASE phase' \notin Early
    BY <1>2, <2>2 DEF Proceeds, FreshInv
  <2> QED
    BY <2>1, <2>2
<1>3. CASE Placed /\ Moves
  BY <1>3 DEF Proceeds, FreshInv, Placed, Moves, BlockMoves, Early
<1>4. CASE Turns
  BY <1>4 DEF Proceeds, FreshInv, Turns, Early
<1>5. CASE Closes
  BY <1>5 DEF Proceeds, FreshInv, Closes, Late, Early
<1>6. CASE NextOperation
  <2>1. Begins
    BY <1>6, StillIs DEF NextOperation, Begins, Early
  <2>2. held' \subseteq {"command in progress", "earlier preferences"}
    BY <1>6 DEF NextOperation, LeftBehind
  <2>3. FreshInv'
    BY <1>6, <2>2 DEF NextOperation, FreshInv
  <2> QED
    BY <2>1, <2>3 DEF Proceeds
<1>7. CASE Interfere \/ UNCHANGED vars
  <2>1. Waits
    BY <1>7, WaitingSteps
  <2> QED
    BY <2>1 DEF Waits, Proceeds, FreshInv
<1> QED
  BY <1>1, <1>2, <1>3, <1>4, <1>5, <1>6, <1>7, ExecuteIs DEF Next
-----------------------------------------------------------------------------
(* The types and blocks *)

LEMMA TypeStep ==
  ASSUME TypeInv, Proceeds, FreshInv'
  PROVE  TypeInv'
<1>1. CASE Begins
  <2>0. /\ receipt' = NoReceipt /\ snaps' = <<>> /\ drift' = {}
        /\ changed' = FALSE /\ unsaved' = FALSE /\ lost' = FALSE /\ published' = FALSE
    BY <1>1 DEF Begins, FreshInv
  <2>1. \A f : ~Snapped(f)'
    <3>1. "before" \notin DOMAIN snaps'
      BY <2>0
    <3> QED
      BY <3>1 DEF Snapped
  <2>2. Shaped(receipt')
    BY <2>0 DEF NoReceipt, Shaped
  <2>3. /\ phase' \in Phases /\ todo' \in Seq(Steps)
        /\ phase' # "idle" => program' \in DOMAIN Programs
        /\ doc' \in [Facets -> Nat] /\ doc'["modified"] \in 0..1
    BY <1>1 DEF Begins, Phases
  <2> QED
    BY <2>0, <2>1, <2>2, <2>3 DEF TypeInv
<1>3. CASE Opens
  <2>1. \A f : Snapped(f)' <=> Snapped(f)
    BY <1>3 DEF Opens, Snapped
  <2>2. todo' \in Seq(Steps)
    BY <1>3, Obeys DEF Opens, TypeInv
  <2>3. Shaped(receipt')
    BY <1>3 DEF Opens, TypeInv, Shaped
  <2> QED
    BY <1>3, <2>1, <2>2, <2>3 DEF Opens, TypeInv, Phases, Early
<1>4. CASE Placed /\ Moves
  <2>1. todo' \in Seq(Steps) /\ UNCHANGED <<program, phase>>
    <3>1. todo # <<>> /\ todo \in Seq(Steps) /\ (todo' = Tail(todo) \/ todo' = <<>>)
      BY <1>4 DEF Placed, Running, Moves, BlockMoves, TypeInv
    <3>2. todo' \in Seq(Steps)
      BY <3>1, Left
    <3> QED
      BY <1>4, <3>2 DEF Moves, BlockMoves
  <2>2. /\ changed' \in BOOLEAN /\ lost' \in BOOLEAN /\ unsaved' \in BOOLEAN /\ published' \in BOOLEAN
        /\ (unsaved' => changed') /\ Shaped(receipt')
    BY <1>4 DEF Moves, WriteMoves, ReceiptMoves, TypeInv
  <2>3. doc' \in [Facets -> Nat] /\ doc'["modified"] \in 0..1
    BY <1>4 DEF Moves, FacetMoves, WriteMoves
  <2>4. \A f : Snapped(f)' => f \in Facets
    BY <1>4 DEF Moves, FacetMoves, TypeInv
  <2>5. drift' \subseteq Facets
    <3>1. Guards[program] \subseteq Facets
      <4>1. program \in DOMAIN Operations
        BY <1>4 DEF Placed, TypeInv, Operations
      <4> QED
        BY <4>1 DEF Guards, Guarded
    <3> QED
      BY <1>4, <3>1 DEF Moves, DriftMoves, TypeInv
  <2> QED
    BY <2>1, <2>2, <2>3, <2>4, <2>5 DEF TypeInv
<1>5. CASE Turns
  <2>1. \A f : Snapped(f)' <=> Snapped(f)
    BY <1>5 DEF Turns, Snapped
  <2>2. phase # "idle" /\ phase' \in {"always", "after"}
    BY <1>5 DEF Turns
  <2>3. todo' \in Seq(Steps)
    BY <1>5, <2>2, Obeys DEF Turns
  <2> QED
    BY <1>5, <2>1, <2>2, <2>3 DEF Turns, TypeInv, Phases
<1>6. CASE Closes
  <2>1. \A f : Snapped(f)' <=> Snapped(f)
    BY <1>6 DEF Closes, Snapped
  <2>2. todo' \in Seq(Steps)
    <3>1. todo \in Seq(Steps) /\ (todo' = <<>> \/ (todo # <<>> /\ todo' = Tail(todo)))
      BY <1>6 DEF Closes, TypeInv, Running
    <3> QED
      BY <3>1, Left
  <2>3. Shaped(receipt')
    BY <1>6 DEF Closes, Completes, TypeInv, Shaped, Erased, NoReceipt
  <2> QED
    BY <1>6, <2>1, <2>2, <2>3 DEF Closes, TypeInv, Phases, Late
<1>7. CASE Waits
  <2>1. \A f : Snapped(f)' <=> Snapped(f)
    BY <1>7 DEF Waits, Snapped
  <2>2. drift' \subseteq drift /\ (unsaved' => changed')
    BY <1>7 DEF Waits, TypeInv
  <2> QED
    BY <1>7, <2>1, <2>2 DEF Waits, TypeInv
<1> QED
  BY <1>1, <1>3, <1>4, <1>5, <1>6, <1>7 DEF Proceeds

(* What is left to do is part of the program. *)
FromInv ==
  /\ phase = "body" => Within(todo, Operations[program].body)
  /\ phase = "always" => Within(todo, Operations[program].always)

LEMMA BlockStep ==
  ASSUME TypeInv, BlockInv, KeepInv, FromInv, Proceeds, FreshInv'
  PROVE  BlockInv' /\ KeepInv' /\ FromInv'
<1>1. CASE Begins
  BY <1>1 DEF Begins, Early, BlockInv, KeepInv, FromInv
<1>2. CASE Opens /\ phase' \notin Early
  <2>1. HasBlocks(Operations[program])
    BY <1>2, Obeys DEF Opens, Disciplined
  <2>2. \A s : Within(s, s)
    BY DEF Within
  <2> QED
    BY <1>2, <2>1, <2>2 DEF Opens, Early, BlockInv, KeepInv, FromInv, HasBlocks
<1>3. CASE Placed /\ Moves
  <2>1. phase \in {"body", "always"} /\ todo \in Seq(Steps) /\ todo # <<>> /\ UNCHANGED <<program, phase>>
    BY <1>3 DEF Placed, Running, Moves, BlockMoves, TypeInv
  <2>2. todo' = Tail(todo) \/ todo' = <<>>
    BY <1>3 DEF Moves, BlockMoves
  <2>3. \A kind : Has(todo', kind) => Has(todo, kind)
    BY <2>1, <2>2, HasRest, NothingLeft
  <2>4. \A block : Within(todo, block) => Within(todo', block)
    <3>1. \A block : Within(<<>>, block)
      BY DEF Within
    <3>2. \A block : Within(todo, block) => Within(Tail(todo), block)
      BY <2>1, WithinRest
    <3> QED
      BY <2>2, <3>1, <3>2
  <2> QED
    BY <2>1, <2>3, <2>4 DEF BlockInv, KeepInv, FromInv, Operations
<1>4. CASE Turns
  <2>1. HasBlocks(Operations[program]) /\ KeepsItsReceipt(Operations[program])
    BY <1>4, Obeys DEF Turns, Disciplined
  <2>2. \A s : Within(s, s)
    BY DEF Within
  <2> QED
    BY <1>4, <2>1, <2>2 DEF Turns, BlockInv, KeepInv, FromInv, HasBlocks, KeepsItsReceipt, Claim,
      Operations
<1>5. CASE Closes
  <2>1. KeepsItsReceipt(Operations[program])
    BY <1>5, Obeys DEF Closes, Late, Disciplined
  <2>2. phase' # "body" /\ phase' # "always" /\ UNCHANGED program
    BY <1>5 DEF Closes, Late
  <2>3. CASE phase' = "after"
    <3>1. phase = "after" /\ todo # <<>> /\ (todo' = Tail(todo) \/ todo' = <<>>)
      BY <1>5, <2>3 DEF Closes, Running
    <3>2. \A kind : Has(todo', kind) => Has(todo, kind)
      BY <3>1, HasRest, NothingLeft DEF TypeInv
    <3> QED
      BY <2>2, <2>3, <3>1, <3>2 DEF BlockInv, KeepInv, FromInv, Claim, Operations
  <2>4. CASE phase' # "after"
    BY <1>5, <2>1, <2>2, <2>4 DEF Closes, BlockInv, KeepInv, FromInv, KeepsItsReceipt, Claim,
      Operations
  <2> QED
    BY <2>3, <2>4
<1>6. CASE Waits
  BY <1>6 DEF Waits, BlockInv, KeepInv, FromInv, Claim, Operations
<1> QED
  BY <1>1, <1>2, <1>3, <1>4, <1>5, <1>6 DEF Proceeds
(* What any one step of an adapter may do to what is left of its block. *)
LEMMA AdapterStep ==
  ASSUME TypeInv, Placed, Moves
  PROVE  /\ todo \in Seq(Steps) /\ todo # <<>> /\ Here = Head(todo) /\ Here \in Steps
         /\ UNCHANGED <<program, phase>>
         /\ phase = "body" \/ (phase = "always" /\ Here.do \in Cleaning)
         /\ \/ todo' = Tail(todo)
            \/ phase = "body" /\ todo' = <<>> /\ (receipt'.error # "" \/ receipt'.unchanged)
         /\ \A verbs : Here.do \in verbs <=> Here \in Doing(verbs)
         /\ Here \in Lossy => phase = "body"
<1>1. /\ todo \in Seq(Steps) /\ todo # <<>> /\ Here = Head(todo)
      /\ phase = "body" \/ (phase = "always" /\ Here.do \in Cleaning)
  BY DEF TypeInv, Placed, Running, Here
<1>2. Here \in Steps
  BY <1>1, Rest
<1>3. Here \in Lossy => phase = "body"
  BY <1>1 DEF Lossy, Doing, Changing, Cleaning
<1> QED
  BY <1>1, <1>2, <1>3 DEF Moves, BlockMoves, Doing

-----------------------------------------------------------------------------
(* The receipt *)

ReceiptInv ==
  /\ phase \in {"body", "always"} => receipt.error \notin Exceptions
  /\ receipt.error = "erased" => ~receipt.attempted /\ ~receipt.unchanged
  /\ receipt.error \in {"invalid", "conflict", "unconfirmed"} => ~changed
  /\ phase = "done" => ~Contradicts

LEMMA ReceiptStep ==
  ASSUME TypeInv, ReceiptInv, FreshInv, FreshInv', Proceeds
  PROVE  ReceiptInv'
<1>1. CASE Begins
  <2>1. receipt' = NoReceipt /\ phase' \in Early
    BY <1>1 DEF Begins, FreshInv
  <2> QED
    BY <2>1 DEF ReceiptInv, Exceptions, Early, NoReceipt
<1>2. CASE Opens /\ phase' \notin Early
  <2>0. receipt = NoReceipt /\ changed = FALSE
    BY <1>2 DEF Opens, FreshInv
  <2>1. receipt.error = "" /\ ~changed' /\ phase' \in {"body", "leave"}
    BY <1>2, <2>0 DEF Opens, NoReceipt, Early
  <2>2. /\ phase' = "body" => receipt'.error = ""
        /\ receipt'.error \in {"", "failed", "invalid", "conflict", "unconfirmed"}
    BY <1>2, <2>1 DEF Opens, TypeInv, Shaped, Early
  <2> QED
    BY <2>1, <2>2 DEF ReceiptInv, Exceptions
<1>3. CASE Placed /\ Moves
  <2>1. receipt'.error \in {receipt.error, "failed", "unrestored"} /\ receipt.error \notin Exceptions
        /\ phase' = phase /\ phase \in {"body", "always"}
    BY <1>3, AdapterStep DEF Moves, ReceiptMoves, ReceiptInv
  <2> QED
    BY <2>1 DEF ReceiptInv, Exceptions
<1>4. CASE Turns
  BY <1>4 DEF Turns, ReceiptInv
<1>5. CASE Closes
  <2>1. phase' \notin {"body", "always"} /\ (phase' = "done" => ~Contradicts') /\ changed' = changed
    BY <1>5 DEF Closes, Late
  <2>2. Erased.error = "erased" /\ ~Erased.attempted /\ ~Erased.unchanged
    BY DEF Erased, NoReceipt
  <2>3. \/ receipt' = receipt \/ receipt' = Erased
        \/ /\ receipt'.error = receipt.error
           /\ receipt'.attempted = receipt.attempted /\ receipt'.unchanged = receipt.unchanged
        \/ receipt'.error \in {"failed", "inactive", "unrestored"}
    BY <1>5 DEF Closes, Completes
  <2> QED
    BY <2>1, <2>2, <2>3 DEF ReceiptInv
<1>6. CASE Waits
  BY <1>6 DEF Waits, ReceiptInv, Contradicts, Moved, Operations
<1> QED
  BY <1>1, <1>2, <1>3, <1>4, <1>5, <1>6 DEF Proceeds
(* Before, at the start of and after the adapter. *)
LEMMA BeginsFresh ==
  ASSUME Begins, FreshInv'
  PROVE  /\ phase' \in Early /\ phase' \notin {"body", "always"} \cup Late
         /\ receipt'.error = "" /\ ~receipt'.attempted /\ ~receipt'.unchanged
         /\ ~changed' /\ ~unsaved' /\ ~lost' /\ ~published' /\ drift' = {}
         /\ \A f : ~Snapped(f)'
<1>1. /\ phase' \in Early /\ receipt' = NoReceipt /\ snaps' = <<>> /\ drift' = {}
      /\ ~changed' /\ ~unsaved' /\ ~lost' /\ ~published'
  BY DEF Begins, FreshInv
<1>2. "before" \notin DOMAIN snaps'
  BY <1>1
<1> QED
  BY <1>1, <1>2 DEF Early, Late, NoReceipt, Snapped

LEMMA OpensFresh ==
  ASSUME TypeInv, Opens, phase' \notin Early, FreshInv
  PROVE  /\ phase # "idle" /\ program' = program /\ UNCHANGED history /\ snaps' = snaps
         /\ ~receipt'.attempted /\ ~receipt'.unchanged
         /\ ~changed' /\ ~unsaved' /\ ~lost' /\ ~published' /\ drift' = {}
         /\ \A f : ~Snapped(f)'
         /\ \/ phase' = "body" /\ todo' = Operations[program].body /\ receipt'.error = ""
            \/ phase' = "leave" /\ receipt'.error # ""
<1>1. /\ receipt = NoReceipt /\ snaps = <<>> /\ drift = {}
      /\ ~changed /\ ~unsaved /\ ~lost /\ ~published
  BY DEF Opens, FreshInv
<1>2. "before" \notin DOMAIN snaps' /\ snaps' = snaps
  <2>1. snaps' = <<>> /\ snaps' = snaps
    BY <1>1 DEF Opens
  <2> QED
    BY <2>1
<1>3. receipt.error = "" /\ ~receipt.attempted /\ ~receipt.unchanged
  BY <1>1 DEF NoReceipt
<1>4. /\ ~receipt'.attempted /\ ~receipt'.unchanged
      /\ \/ phase' = "body" /\ todo' = Operations[program].body /\ receipt'.error = ""
         \/ phase' = "leave" /\ receipt'.error # ""
  <2>1. CASE receipt' = receipt /\ phase' = "body" /\ todo' = Operations[program].body
    BY <1>3, <2>1
  <2>2. CASE phase' = "leave" /\ \E error \in {"failed", "invalid", "conflict", "unconfirmed"} :
                                   receipt' = [receipt EXCEPT !.error = error]
    BY <1>3, <2>2 DEF TypeInv, Shaped
  <2> QED
    BY <2>1, <2>2 DEF Opens, Early
<1> QED
  BY <1>1, <1>2, <1>4 DEF Opens, Snapped

LEMMA ClosesFacts ==
  ASSUME Closes
  PROVE  /\ phase \in Late /\ phase' \in Late /\ phase' \notin Early \cup {"body", "always"}
         /\ phase \notin Early \cup {"body", "always"}
         /\ UNCHANGED <<program, doc, poisoned, snaps, history>>
         /\ receipt'.error = "" => receipt' = receipt
         /\ receipt'.unchanged => receipt.unchanged
         /\ \/ receipt'.attempted = receipt.attempted
            \/ receipt'.error = "erased" /\ (receipt.error \in Exceptions \/ ~Claim("kept"))
<1>1. Erased.error = "erased" /\ ~Erased.attempted /\ ~Erased.unchanged
  BY DEF Erased, NoReceipt
<1> QED
  BY <1>1 DEF Closes, Completes, Late, Early

-----------------------------------------------------------------------------
(* A document that was found as asked for has not been written. *)

Touched == changed \/ lost \/ drift # {}

UnchangedInv ==
  /\ receipt.unchanged => ~Touched
  /\ phase \notin Early /\ Claim("observation") =>
       ~receipt.unchanged /\ (phase = "body" => ~Has(todo, Doing({"unchanged"})))
  /\ phase = "body" =>
       /\ receipt.unchanged => todo = <<>>
       /\ NoneAfter(todo, Lossy, Doing({"unchanged"}))
       /\ Touched => ~Has(todo, Doing({"unchanged"}))

LEMMA TouchedBy ==
  ASSUME TypeInv, Placed, Moves
  PROVE  Touched' => Touched \/ Here \in Lossy \/ Claim("observation")
<1>1. Here.do \in Changing => Here \in Lossy
  BY AdapterStep DEF Lossy, Doing
<1>2. drift' # {} => drift # {} \/ Here \in Touches
  BY DEF Moves, DriftMoves
<1> QED
  BY <1>1, <1>2 DEF Moves, WriteMoves, Touches, Touched

LEMMA UnchangedStep ==
  ASSUME TypeInv, UnchangedInv, FreshInv, FreshInv', Proceeds
  PROVE  UnchangedInv'
<1>1. CASE Begins
  BY <1>1, BeginsFresh DEF UnchangedInv
<1>2. CASE Opens /\ phase' \notin Early
  <2>1. NoticesBeforeWriting(Operations[program]) /\ OnlyObserves(Operations[program])
        /\ UNCHANGED program
    BY <1>2, OpensFresh, Obeys DEF Disciplined
  <2>2. \A s : Has(s, Doing({"unchanged"})) => Has(s, Lossy \cup Doing({"unchanged"}))
    BY DEF Has
  <2>3. Claim("observation")' => ~Has(Operations[program].body, Doing({"unchanged"}))
    BY <2>1, <2>2 DEF OnlyObserves, Claim, Operations
  <2> QED
    BY <1>2, <2>1, <2>3, OpensFresh DEF UnchangedInv, Touched, NoticesBeforeWriting
<1>3. CASE Placed /\ Moves
  <2>0. UNCHANGED <<program, phase>> /\ phase \notin Early /\ phase \in {"body", "always"}
        /\ (Claim("observation")' <=> Claim("observation"))
    BY <1>3, AdapterStep DEF Claim, Operations, Early
  <2>1. receipt'.unchanged => receipt.unchanged \/ (phase = "body" /\ Here.do = "unchanged" /\ todo' = <<>>)
    BY <1>3 DEF Moves, ReceiptMoves
  <2>2. /\ todo \in Seq(Steps) /\ todo # <<>> /\ Here = Head(todo)
        /\ todo' = Tail(todo) \/ todo' = <<>>
        /\ Here.do = "unchanged" => Here \in Doing({"unchanged"}) /\ Here \notin Lossy
        /\ Here \in Lossy => phase = "body"
    BY <1>3, AdapterStep DEF Lossy, Doing, Changing
  <2>3. \A kind : Has(todo', kind) => Has(todo, kind)
    BY <2>2, HasRest, NothingLeft
  <2>4. Touched' => Touched \/ Here \in Lossy \/ Claim("observation")
    BY <1>3, TouchedBy
  <2>5. phase = "body" => ~receipt.unchanged
    BY <2>2 DEF UnchangedInv
  <2>6. CASE Claim("observation")
    <3>1. ~receipt.unchanged /\ (phase = "body" => ~Has(todo, Doing({"unchanged"})))
      BY <2>0, <2>6 DEF UnchangedInv
    <3>2. phase = "body" => ~Has(todo', Doing({"unchanged"})) /\ Here.do # "unchanged"
      BY <2>2, <2>3, <3>1, HasRest
    <3>3. ~receipt'.unchanged
      BY <2>1, <3>1, <3>2
    <3>4. phase = "body" => NoneAfter(todo', Lossy, Doing({"unchanged"}))
      BY <2>2, NoneAfterRest, NothingLeft DEF UnchangedInv
    <3> QED
      BY <2>0, <3>2, <3>3, <3>4 DEF UnchangedInv
  <2>7. CASE ~Claim("observation") /\ phase = "always"
    BY <2>0, <2>1, <2>2, <2>4, <2>7 DEF UnchangedInv
  <2>8. CASE ~Claim("observation") /\ phase = "body"
    <3>1. NoneAfter(todo, Lossy, Doing({"unchanged"})) /\ (Touched => ~Has(todo, Doing({"unchanged"})))
      BY <2>8 DEF UnchangedInv
    <3>2. /\ NoneAfter(Tail(todo), Lossy, Doing({"unchanged"}))
          /\ Here \in Lossy => ~Has(Tail(todo), Doing({"unchanged"}))
      BY <2>2, <3>1, NoneAfterRest
    <3>3. Touched => ~Has(Tail(todo), Doing({"unchanged"})) /\ Here \notin Doing({"unchanged"})
      BY <2>2, <3>1, HasRest
    <3>4. Touched' => ~Has(todo', Doing({"unchanged"}))
      BY <2>2, <2>4, <2>8, <3>2, <3>3, NothingLeft
    <3>5. NoneAfter(todo', Lossy, Doing({"unchanged"}))
      BY <2>2, <3>2, NothingLeft
    <3>6. receipt'.unchanged => ~Touched' /\ todo' = <<>>
      BY <2>1, <2>2, <2>4, <2>5, <2>8, <3>3
    <3> QED
      BY <2>0, <2>8, <3>4, <3>5, <3>6 DEF UnchangedInv
  <2> QED
    BY <2>0, <2>6, <2>7, <2>8
<1>4. CASE Turns
  BY <1>4 DEF Turns, UnchangedInv, Touched, Claim, Operations, Early
<1>5. CASE Closes
  <2>1. Touched' <=> Touched
    <3>1. changed' = changed /\ lost' = lost /\ drift' = drift
      BY <1>5, ClosesFacts
    <3> QED
      BY <3>1, Zenon DEF Touched
  <2>2. receipt.unchanged => ~Touched
    BY DEF UnchangedInv
  <2>3. phase' # "body" /\ (receipt'.unchanged => receipt.unchanged) /\ phase \notin Early
        /\ (Claim("observation")' <=> Claim("observation"))
    BY <1>5, ClosesFacts DEF Claim, Operations
  <2> QED
    BY <2>1, <2>2, <2>3 DEF UnchangedInv
<1>6. CASE Waits
  <2>1. UNCHANGED <<program, phase, todo, receipt>> /\ (Touched' => Touched)
        /\ (Claim("observation")' <=> Claim("observation"))
    BY <1>6 DEF Waits, Touched, Claim, Operations
  <2> QED
    BY <2>1 DEF UnchangedInv
<1> QED
  BY <1>1, <1>2, <1>3, <1>4, <1>5, <1>6 DEF Proceeds
-----------------------------------------------------------------------------
(* A mutation is flagged in the receipt before it happens. *)

Flagging == Claim("receipt") \/ Claim("kept")

AttemptInv ==
  /\ phase \notin Early /\ Flagging /\ changed =>
       receipt.attempted \/ (receipt.error = "erased" /\ ~Claim("kept"))
  /\ phase = "body" /\ Flagging /\ ~receipt.attempted =>
       Before(todo, Doing(Changing), Doing({"attempt"}))
  /\ phase \notin Early /\ Claim("observation") => ~changed

LEMMA AttemptStep ==
  ASSUME TypeInv, FromInv, ReceiptInv, AttemptInv, FreshInv, FreshInv', Proceeds
  PROVE  AttemptInv'
<1>1. CASE Begins
  BY <1>1, BeginsFresh DEF AttemptInv, Late
<1>2. CASE Opens /\ phase' \notin Early
  <2>1. FlagsBeforeWriting(Operations[program]) /\ UNCHANGED <<program, Flagging>>
    BY <1>2, OpensFresh, Obeys DEF Disciplined, Flagging, Claim, Operations
  <2>2. Flagging => Before(Operations[program].body, Doing(Changing), Doing({"attempt"}))
    BY <2>1 DEF FlagsBeforeWriting, Flagging, Claim
  <2> QED
    BY <1>2, <2>1, <2>2, OpensFresh DEF AttemptInv
<1>3. CASE Placed /\ Moves
  <2>1. /\ UNCHANGED <<program, phase>> /\ (Flagging' <=> Flagging) /\ (Claim("kept")' <=> Claim("kept"))
        /\ (Claim("observation")' <=> Claim("observation"))
    BY <1>3, AdapterStep DEF Flagging, Claim, Operations
  <2>2. /\ changed' => changed \/ Here \in Doing(Changing)
        /\ receipt.attempted => receipt'.attempted
        /\ Here.do = "attempt" => receipt'.attempted
        /\ receipt.error # "erased" /\ phase \notin Early
    BY <1>3, AdapterStep DEF Moves, WriteMoves, ReceiptMoves, ReceiptInv, Exceptions, Early
  <2>3. phase = "always" => Here \notin Doing(Changing)
    BY <1>3, AdapterStep DEF Doing, Changing, Cleaning
  <2>4. ASSUME phase = "body", Flagging, ~receipt.attempted
        PROVE  /\ Here \notin Doing(Changing)
               /\ ~receipt'.attempted => Before(todo', Doing(Changing), Doing({"attempt"}))
    <3>1. Before(todo, Doing(Changing), Doing({"attempt"}))
      BY <2>4 DEF AttemptInv
    <3>2. /\ Here \notin Doing(Changing)
          /\ Here \notin Doing({"attempt"}) => Before(Tail(todo), Doing(Changing), Doing({"attempt"}))
      <4>1. todo \in Seq(Steps) /\ todo # <<>> /\ Here = Head(todo)
        BY <1>3, AdapterStep
      <4> QED
        BY <3>1, <4>1, BeforeRest
    <3>3. ~receipt'.attempted => Here \notin Doing({"attempt"})
      BY <2>2 DEF Doing
    <3>4. todo' = Tail(todo) \/ todo' = <<>>
      BY <1>3, AdapterStep
    <3> QED
      BY <3>2, <3>3, <3>4, NothingLeft
  <2>5. Claim("observation") /\ phase = "body" => Here \notin Doing(Changing)
    <3>1. OnlyObserves(Operations[program])
      BY <2>2, Obeys DEF Disciplined, Early
    <3>2. todo \in Seq(Steps) /\ todo # <<>> /\ Here = Head(todo)
      BY <1>3, AdapterStep
    <3>3. Here \in Doing(Changing) => Has(todo, Lossy \cup Doing({"unchanged"}))
      <4>1. Here \in Doing(Changing) => Here \in Lossy \cup Doing({"unchanged"})
        BY DEF Doing, Lossy
      <4> QED
        BY <3>2, <4>1, HasRest
    <3> QED
      BY <3>1, <3>2, <3>3, WithinRest DEF OnlyObserves, FromInv, Claim
  <2>6. phase \in {"body", "always"}
    BY <1>3, AdapterStep
  <2>7. Flagging /\ changed' => receipt'.attempted
    BY <2>2, <2>3, <2>4, <2>6 DEF AttemptInv
  <2>8. Claim("observation") => ~changed'
    BY <2>2, <2>3, <2>5, <2>6 DEF AttemptInv
  <2> QED
    BY <2>1, <2>2, <2>4, <2>7, <2>8 DEF AttemptInv
<1>4. CASE Turns
  BY <1>4 DEF Turns, AttemptInv, Flagging, Claim, Operations, Early
<1>5. CASE Closes
  <2>1. /\ UNCHANGED <<program, changed>> /\ (Flagging' <=> Flagging) /\ (Claim("kept")' <=> Claim("kept"))
        /\ (Claim("observation")' <=> Claim("observation"))
    BY <1>5, ClosesFacts DEF Flagging, Claim, Operations
  <2>2. phase \notin Early /\ phase' # "body"
    BY <1>5, ClosesFacts
  <2>3. ASSUME Flagging, changed PROVE receipt'.attempted \/ (receipt'.error = "erased" /\ ~Claim("kept"))
    <3>1. receipt.attempted \/ (receipt.error = "erased" /\ ~Claim("kept"))
      BY <2>2, <2>3 DEF AttemptInv
    <3>2. receipt.error \in Exceptions => receipt.error = "erased"
      BY <2>3 DEF ReceiptInv, Exceptions
    <3>3. receipt.error = "erased" => ~receipt.attempted
      BY DEF ReceiptInv
    <3>4. receipt.error = "erased" => receipt'.error = "erased"
      BY <1>5 DEF Closes, Completes, Erased, NoReceipt
    <3> QED
      BY <1>5, <3>1, <3>2, <3>3, <3>4, ClosesFacts
  <2> QED
    BY <2>1, <2>2, <2>3 DEF AttemptInv
<1>6. CASE Waits
  BY <1>6 DEF Waits, AttemptInv, Flagging, Claim, Operations
<1> QED
  BY <1>1, <1>2, <1>3, <1>4, <1>5, <1>6 DEF Proceeds
-----------------------------------------------------------------------------
(* A verified success has written, what it wrote took effect, and is saved. *)

Writing == Claim("receipt") /\ Claim("verified") /\ ~Claim("observation")

EffectInv ==
  phase \notin Early /\ Writing /\ receipt.error = "" /\ ~receipt.unchanged =>
    changed \/ lost \/ (phase = "body" /\ Has(todo, Fatal(Changing)))

ReadsBack == Claim("verified") /\ "readback" \notin Operations[program].rules
VerifyInv ==
  ReadsBack =>
    /\ phase = "body" => After(todo, Lossy, Fatal({"verify"}))
    /\ phase \notin Early /\ lost /\ receipt.error = "" =>
         phase = "body" /\ Has(todo, Fatal({"verify"}))

Marks == Claim("saved") /\ "modified" \notin Operations[program].rules
MarkInv ==
  Marks =>
    /\ phase = "body" => After(todo, Doing(Changing), Fatal({"mark"}))
    /\ phase \notin Early /\ unsaved /\ doc["modified"] = 0 /\ receipt.error = "" =>
         phase = "body" /\ Has(todo, Fatal({"mark"}))

(* A try block whose outcome is still a success goes on. *)
LEMMA GoesOn ==
  ASSUME TypeInv, Placed, Moves, UnchangedInv', receipt'.error = ""
  PROVE  /\ receipt.error = ""
         /\ todo' = Tail(todo) \/ (receipt'.unchanged /\ ~Touched')
         /\ ~receipt'.unchanged => ~receipt.unchanged /\ todo' = Tail(todo)
<1>1. receipt.error = "" /\ (receipt.unchanged => receipt'.unchanged)
  BY DEF Moves, ReceiptMoves
<1> QED
  BY <1>1, AdapterStep DEF UnchangedInv

LEMMA EffectStep ==
  ASSUME TypeInv, EffectInv, FreshInv, FreshInv', UnchangedInv', Proceeds
  PROVE  EffectInv'
<1>1. CASE Begins
  BY <1>1, BeginsFresh DEF EffectInv
<1>2. CASE Opens /\ phase' \notin Early
  <2>1. WritesToSucceed(Operations[program]) /\ UNCHANGED program
    BY <1>2, OpensFresh, Obeys DEF Disciplined
  <2>2. Writing' => Has(Operations[program].body, Fatal(Changing))
    BY <2>1 DEF WritesToSucceed, Writing, Claim, Operations
  <2> QED
    BY <1>2, <2>2, OpensFresh DEF EffectInv
<1>3. CASE Placed /\ Moves
  <2>1. UNCHANGED <<program, phase>> /\ (Writing' <=> Writing) /\ phase \notin Early
    BY <1>3, AdapterStep DEF Writing, Claim, Operations, Early
  <2>2. /\ changed => changed'
        /\ lost => lost'
        /\ Here \in Fatal(Changing) => receipt'.error # "" \/ changed' \/ lost'
    BY <1>3 DEF Moves, WriteMoves
  <2>3. ASSUME Writing, receipt'.error = "", ~receipt'.unchanged
        PROVE  changed' \/ lost' \/ (phase = "body" /\ Has(todo', Fatal(Changing)))
    <3>1. receipt.error = "" /\ ~receipt.unchanged /\ todo' = Tail(todo)
      BY <1>3, <2>3, GoesOn
    <3>2. changed \/ lost \/ (phase = "body" /\ Has(todo, Fatal(Changing)))
      BY <2>1, <2>3, <3>1 DEF EffectInv
    <3>3. todo \in Seq(Steps) /\ todo # <<>> /\ Here = Head(todo)
      BY <1>3, AdapterStep
    <3>4. Has(todo, Fatal(Changing)) => Here \in Fatal(Changing) \/ Has(Tail(todo), Fatal(Changing))
      BY <3>3, HasRest
    <3> QED
      BY <2>2, <2>3, <3>1, <3>2, <3>4
  <2> QED
    BY <2>1, <2>3 DEF EffectInv
<1>4. CASE Turns
  BY <1>4, NothingLeft DEF Turns, EffectInv, Writing, Claim, Operations, Early
<1>5. CASE Closes
  <2>1. UNCHANGED <<program, changed, lost>> /\ (Writing' <=> Writing)
    BY <1>5, ClosesFacts DEF Writing, Claim, Operations
  <2>2. phase \notin Early /\ phase # "body" /\ (receipt'.error = "" => receipt' = receipt)
    BY <1>5, ClosesFacts
  <2> QED
    BY <2>1, <2>2 DEF EffectInv
<1>6. CASE Waits
  BY <1>6 DEF Waits, EffectInv, Writing, Claim, Operations
<1> QED
  BY <1>1, <1>2, <1>3, <1>4, <1>5, <1>6 DEF Proceeds

LEMMA VerifyStep ==
  ASSUME TypeInv, VerifyInv, FreshInv, FreshInv', UnchangedInv', Proceeds
  PROVE  VerifyInv'
<1>1. CASE Begins
  BY <1>1, BeginsFresh DEF VerifyInv
<1>2. CASE Opens /\ phase' \notin Early
  <2>1. VerifiesAfterWriting(Operations[program]) /\ UNCHANGED program
    BY <1>2, OpensFresh, Obeys DEF Disciplined
  <2>2. ReadsBack' => After(Operations[program].body, Lossy, Fatal({"verify"}))
    BY <2>1 DEF VerifiesAfterWriting, ReadsBack, Claim, Operations
  <2> QED
    BY <1>2, <2>2, OpensFresh DEF VerifyInv
<1>3. CASE Placed /\ Moves
  <2>1. UNCHANGED <<program, phase>> /\ (ReadsBack' <=> ReadsBack) /\ phase \notin Early
    BY <1>3, AdapterStep DEF ReadsBack, Claim, Operations, Early
  <2>2. /\ lost' => lost \/ Here \in Lossy
        /\ Here \in Fatal({"verify"}) /\ lost => receipt'.error # ""
    BY <1>3 DEF Moves, WriteMoves
  <2>3. todo \in Seq(Steps) /\ todo # <<>> /\ Here = Head(todo)
        /\ (todo' = Tail(todo) \/ todo' = <<>>) /\ (Here \in Lossy => phase = "body")
    BY <1>3, AdapterStep
  <2>4. ASSUME ReadsBack, phase = "body"
        PROVE  /\ After(todo', Lossy, Fatal({"verify"}))
               /\ Here \in Lossy => Has(Tail(todo), Fatal({"verify"}))
    <3>1. After(todo, Lossy, Fatal({"verify"}))
      BY <2>4 DEF VerifyInv
    <3>2. /\ After(Tail(todo), Lossy, Fatal({"verify"}))
          /\ Here \in Lossy => Has(Tail(todo), Fatal({"verify"}))
      BY <2>3, <3>1, AfterRest
    <3> QED
      BY <2>3, <3>2, NothingLeft
  <2>5. ASSUME ReadsBack, lost', receipt'.error = ""
        PROVE  phase = "body" /\ Has(todo', Fatal({"verify"}))
    <3>1. receipt.error = "" /\ todo' = Tail(todo)
      BY <1>3, <2>5, GoesOn DEF Touched
    <3>2. CASE Here \in Lossy
      BY <2>3, <2>4, <2>5, <3>1, <3>2
    <3>3. CASE lost
      <4>1. phase = "body" /\ Has(todo, Fatal({"verify"}))
        BY <2>1, <2>5, <3>1, <3>3 DEF VerifyInv
      <4>2. Here \notin Fatal({"verify"})
        BY <2>2, <2>5, <3>3
      <4> QED
        BY <2>3, <3>1, <4>1, <4>2, HasRest
    <3> QED
      BY <2>2, <2>5, <3>2, <3>3
  <2> QED
    BY <2>1, <2>4, <2>5 DEF VerifyInv
<1>4. CASE Turns
  BY <1>4, NothingLeft DEF Turns, VerifyInv, ReadsBack, Claim, Operations, Early
<1>5. CASE Closes
  <2>1. UNCHANGED <<program, lost>> /\ (ReadsBack' <=> ReadsBack)
    BY <1>5, ClosesFacts DEF ReadsBack, Claim, Operations
  <2>2. phase \notin Early \cup {"body"} /\ phase' # "body" /\ (receipt'.error = "" => receipt' = receipt)
    BY <1>5, ClosesFacts
  <2> QED
    BY <2>1, <2>2 DEF VerifyInv
<1>6. CASE Waits
  BY <1>6 DEF Waits, VerifyInv, ReadsBack, Claim, Operations
<1> QED
  BY <1>1, <1>2, <1>3, <1>4, <1>5, <1>6 DEF Proceeds

LEMMA MarkStep ==
  ASSUME TypeInv, MarkInv, FreshInv, FreshInv', UnchangedInv', Proceeds
  PROVE  MarkInv'
<1>1. CASE Begins
  BY <1>1, BeginsFresh DEF MarkInv
<1>2. CASE Opens /\ phase' \notin Early
  <2>1. MarksAfterWriting(Operations[program]) /\ UNCHANGED program
    BY <1>2, OpensFresh, Obeys DEF Disciplined
  <2>2. Marks' => After(Operations[program].body, Doing(Changing), Fatal({"mark"}))
    BY <2>1 DEF MarksAfterWriting, Marks, Claim, Operations
  <2> QED
    BY <1>2, <2>2, OpensFresh DEF MarkInv
<1>3. CASE Placed /\ Moves
  <2>1. UNCHANGED <<program, phase>> /\ (Marks' <=> Marks) /\ phase \notin Early
    BY <1>3, AdapterStep DEF Marks, Claim, Operations, Early
  <2>2. /\ unsaved' => changed' /\ (unsaved \/ Here.do \in Changing)
        /\ unsaved' /\ doc'["modified"] = 0 => doc["modified"] = 0
        /\ Here \in Fatal({"mark"}) => receipt'.error # "" \/ doc'["modified"] # 0
    BY <1>3 DEF Moves, WriteMoves, TypeInv
  <2>3. todo \in Seq(Steps) /\ todo # <<>> /\ Here = Head(todo)
        /\ (todo' = Tail(todo) \/ todo' = <<>>) /\ (Here \in Lossy => phase = "body")
        /\ (Here.do \in Changing => Here \in Doing(Changing) /\ Here \in Lossy)
    BY <1>3, AdapterStep DEF Lossy, Doing
  <2>4. ASSUME Marks, phase = "body"
        PROVE  /\ After(todo', Doing(Changing), Fatal({"mark"}))
               /\ Here \in Doing(Changing) => Has(Tail(todo), Fatal({"mark"}))
    <3>1. After(todo, Doing(Changing), Fatal({"mark"}))
      BY <2>4 DEF MarkInv
    <3>2. /\ After(Tail(todo), Doing(Changing), Fatal({"mark"}))
          /\ Here \in Doing(Changing) => Has(Tail(todo), Fatal({"mark"}))
      BY <2>3, <3>1, AfterRest
    <3> QED
      BY <2>3, <3>2, NothingLeft
  <2>5. ASSUME Marks, unsaved', doc'["modified"] = 0, receipt'.error = ""
        PROVE  phase = "body" /\ Has(todo', Fatal({"mark"}))
    <3>1. receipt.error = "" /\ todo' = Tail(todo)
      BY <1>3, <2>2, <2>5, GoesOn DEF Touched
    <3>2. CASE Here.do \in Changing
      BY <2>3, <2>4, <2>5, <3>1, <3>2
    <3>3. CASE unsaved
      <4>1. phase = "body" /\ Has(todo, Fatal({"mark"}))
        BY <2>1, <2>2, <2>5, <3>1, <3>3 DEF MarkInv
      <4>2. Here \notin Fatal({"mark"})
        BY <2>2, <2>5
      <4> QED
        BY <2>3, <3>1, <4>1, <4>2, HasRest
    <3> QED
      BY <2>2, <2>5, <3>2, <3>3
  <2> QED
    BY <2>1, <2>4, <2>5 DEF MarkInv
<1>4. CASE Turns
  BY <1>4, NothingLeft DEF Turns, MarkInv, Marks, Claim, Operations, Early
<1>5. CASE Closes
  <2>1. UNCHANGED <<program, unsaved, doc>> /\ (Marks' <=> Marks)
    BY <1>5, ClosesFacts DEF Marks, Claim, Operations
  <2>2. phase \notin Early \cup {"body"} /\ phase' # "body" /\ (receipt'.error = "" => receipt' = receipt)
    BY <1>5, ClosesFacts
  <2> QED
    BY <2>1, <2>2 DEF MarkInv
<1>6. CASE Waits
  <2>1. /\ UNCHANGED <<program, phase, todo, receipt>> /\ (Marks' <=> Marks)
        /\ unsaved' /\ doc'["modified"] = 0 => unsaved /\ doc["modified"] = 0
    BY <1>6 DEF Waits, Marks, Claim, Operations
  <2> QED
    BY <2>1 DEF MarkInv
<1> QED
  BY <1>1, <1>2, <1>3, <1>4, <1>5, <1>6 DEF Proceeds
-----------------------------------------------------------------------------
(* What is published was verified. *)

PublishInv ==
  /\ published => ~lost
  /\ phase = "body" =>
       /\ Between(todo, Lossy, Ending({"verify"}), Doing({"publish"}))
       /\ NoneAfter(todo, Doing({"publish"}), Lossy)
       /\ lost => Before(todo, Doing({"publish"}), Ending({"verify"}))
       /\ published => ~Has(todo, Lossy)

LEMMA PublishStep ==
  ASSUME TypeInv, PublishInv, FreshInv, FreshInv', Proceeds
  PROVE  PublishInv'
<1>1. CASE Begins
  BY <1>1, BeginsFresh DEF PublishInv
<1>2. CASE Opens /\ phase' \notin Early
  <2>1. PublishesVerified(Operations[program])
    BY <1>2, OpensFresh, Obeys DEF Disciplined
  <2> QED
    BY <1>2, <2>1, OpensFresh DEF PublishInv, PublishesVerified
<1>3. CASE Placed /\ Moves
  <2>1. /\ lost' => lost \/ Here \in Lossy
        /\ published' => published \/ Here.do = "publish"
        /\ phase = "body" /\ lost /\ Here \in Ending({"verify"}) => todo' = <<>>
    BY <1>3 DEF Moves, WriteMoves
  <2>2. /\ todo \in Seq(Steps) /\ todo # <<>> /\ Here = Head(todo) /\ Here \in Steps
        /\ (todo' = Tail(todo) \/ todo' = <<>>) /\ UNCHANGED phase
        /\ phase = "body" \/ (phase = "always" /\ Here.do \in Cleaning)
        /\ (Here \in Lossy => phase = "body")
    BY <1>3, AdapterStep
  <2>3. CASE phase = "always"
    <3>1. Here.do # "publish" /\ Here \notin Lossy
      BY <2>2, <2>3 DEF Cleaning
    <3> QED
      BY <2>1, <2>2, <2>3, <3>1 DEF PublishInv
  <2>4. CASE phase = "body"
    <3>1. /\ Between(todo, Lossy, Ending({"verify"}), Doing({"publish"}))
          /\ NoneAfter(todo, Doing({"publish"}), Lossy)
          /\ lost => Before(todo, Doing({"publish"}), Ending({"verify"}))
          /\ published => ~lost /\ ~Has(todo, Lossy)
      BY <2>4 DEF PublishInv
    <3>2. Here.do = "publish" => Here \in Doing({"publish"}) /\ Here \notin Lossy
      BY <2>2 DEF Doing, Lossy, Changing
    <3>3. /\ Between(Tail(todo), Lossy, Ending({"verify"}), Doing({"publish"}))
          /\ Here \in Lossy => Before(Tail(todo), Doing({"publish"}), Ending({"verify"}))
      BY <2>2, <3>1, BetweenRest
    <3>4. /\ NoneAfter(Tail(todo), Doing({"publish"}), Lossy)
          /\ Here \in Doing({"publish"}) => ~Has(Tail(todo), Lossy)
      BY <2>2, <3>1, NoneAfterRest
    <3>5. lost => /\ Here \notin Doing({"publish"})
                  /\ Here \notin Ending({"verify"}) =>
                       Before(Tail(todo), Doing({"publish"}), Ending({"verify"}))
      BY <2>2, <3>1, BeforeRest
    <3>6. published => Here \notin Lossy /\ ~Has(Tail(todo), Lossy)
      BY <2>2, <3>1, HasRest
    <3>7. /\ Between(todo', Lossy, Ending({"verify"}), Doing({"publish"}))
          /\ NoneAfter(todo', Doing({"publish"}), Lossy)
      BY <2>2, <3>3, <3>4, NothingLeft
    <3>8. lost' => Before(todo', Doing({"publish"}), Ending({"verify"}))
      <4>1. CASE todo' = <<>>
        BY <4>1, NothingLeft
      <4>2. CASE todo' = Tail(todo) /\ todo' # <<>>
        BY <2>1, <2>4, <3>3, <3>5, <4>2
      <4> QED
        BY <2>2, <4>1, <4>2
    <3>9. published' => ~Has(todo', Lossy)
      BY <2>1, <2>2, <3>2, <3>4, <3>6, NothingLeft
    <3>10. published' => ~lost'
      BY <2>1, <3>1, <3>2, <3>5, <3>6
    <3> QED
      BY <3>7, <3>8, <3>9, <3>10 DEF PublishInv
  <2> QED
    BY <2>2, <2>3, <2>4
<1>4. CASE Turns
  BY <1>4 DEF Turns, PublishInv
<1>5. CASE Closes
  <2>1. published' = published /\ lost' = lost /\ phase' # "body"
    BY <1>5, ClosesFacts
  <2> QED
    BY <2>1, Zenon DEF PublishInv
<1>6. CASE Waits
  BY <1>6 DEF Waits, PublishInv
<1> QED
  BY <1>1, <1>2, <1>3, <1>4, <1>5, <1>6 DEF Proceeds

-----------------------------------------------------------------------------
(* What the guarded facets were when they were first observed, and what of    *)
(* them has drifted since the document was touched.                           *)

Guard == Guarded(Operations[program])

LEMMA GuardIs ==
  ASSUME TypeInv, phase # "idle"
  PROVE  /\ Guards[program] = Guard /\ Guard \subseteq Facets
         /\ Touching(Operations[program]) = Touches
BY DEF TypeInv, Operations, Guards, Guard, Guarded, Touching, Touches, Claim

SnapInv ==
  phase \notin Early =>
    /\ \A f \in drift : f \in Guard /\ Snapped(f) /\ doc[f] # First(f)
    /\ phase = "body" => \A f \in Guard :
         /\ NoneAfter(todo, Touches, Snapping(f))
         /\ f \in drift => ~Has(todo, Snapping(f))
         /\ Snapped(f) \/ Before(todo, Touches, Observing(f))

(* The finally clauses touch nothing. *)
LEMMA TouchesInBody ==
  ASSUME TypeInv, FromInv, Placed, Moves, Here \in Touches
  PROVE  phase = "body"
<1>1. /\ todo \in Seq(Steps) /\ todo # <<>> /\ Here = Head(todo)
      /\ phase = "body" \/ phase = "always"
      /\ Here \in Lossy => phase = "body"
  BY AdapterStep
<1>2. CASE Claim("observation") /\ phase = "always"
  <2>1. ~Has(Operations[program].always, Doing({"read"}))
    BY <1>2, Obeys DEF Disciplined, OnlyObserves, Claim
  <2>2. Has(todo, Doing({"read"}))
    BY <1>1, <1>2, HasRest DEF Touches
  <2> QED
    BY <1>1, <1>2, <2>1, <2>2, WithinRest DEF FromInv
<1> QED
  BY <1>1, <1>2 DEF Touches

LEMMA SnapStep ==
  ASSUME TypeInv, TypeInv', FromInv, SnapInv, FreshInv, FreshInv', Proceeds
  PROVE  SnapInv'
<1>1. CASE Begins
  BY <1>1, BeginsFresh DEF SnapInv
<1>2. CASE Opens /\ phase' \notin Early
  <2>1. SnapsBeforeTouching(Operations[program]) /\ UNCHANGED program
    BY <1>2, OpensFresh, Obeys DEF Disciplined
  <2>2. Touching(Operations[program]) = Touches
    BY <1>2, OpensFresh, GuardIs
  <2>3. Guard' = Guard /\ Touches' = Touches
    BY <2>1 DEF Guard, Touches, Claim, Operations
  <2>4. \A f \in Guard : /\ NoneAfter(Operations[program].body, Touches, Snapping(f))
                         /\ Before(Operations[program].body, Touches, Observing(f))
    BY <2>1, <2>2 DEF SnapsBeforeTouching, Guard
  <2> QED
    BY <1>2, <2>3, <2>4, OpensFresh DEF SnapInv
<1>3. CASE Placed /\ Moves
  <2>1. UNCHANGED <<program, phase>> /\ phase \notin Early /\ Guard' = Guard /\ Touches' = Touches
        /\ Guards[program] = Guard
    BY <1>3, AdapterStep, GuardIs DEF Guard, Touches, Claim, Operations, Early
  <2>2. /\ todo \in Seq(Steps) /\ todo # <<>> /\ Here = Head(todo)
        /\ (todo' = Tail(todo) \/ todo' = <<>>)
        /\ phase = "body" \/ (phase = "always" /\ Here.do \in Cleaning)
    BY <1>3, AdapterStep
  <2>3. \A f : /\ Snapped(f) => Snapped(f)'
               /\ Snapped(f)' => Here \in Snapping(f) \/ (Snapped(f) /\ First(f)' = First(f))
               /\ phase = "body" /\ Here \in Observing(f) => Snapped(f)' \/ todo' = <<>>
    BY <1>3 DEF Moves, FacetMoves
  <2>4. \A f \in drift' :
          \/ f \in drift /\ doc' = doc
          \/ /\ UNCHANGED snaps /\ Away(doc', f)
             /\ f \in drift \/ (f \in Guard /\ Here \in Touches)
    BY <1>3, <2>1 DEF Moves, DriftMoves
  <2>5. Here \in Touches => phase = "body"
    BY <1>3, TouchesInBody
  <2>6. phase = "always" => \A f : Here \notin Snapping(f)
    BY <2>2 DEF Snapping, Of, Doing, Cleaning
  <2>7. ASSUME phase = "body", NEW f \in Guard
        PROVE  /\ NoneAfter(todo', Touches, Snapping(f))
               /\ f \in drift' => ~Has(todo', Snapping(f))
               /\ Snapped(f)' \/ Before(todo', Touches, Observing(f))
               /\ Here \in Touches => Snapped(f)
    <3>1. /\ NoneAfter(todo, Touches, Snapping(f)) /\ (f \in drift => ~Has(todo, Snapping(f)))
          /\ Snapped(f) \/ Before(todo, Touches, Observing(f))
      BY <2>1, <2>7 DEF SnapInv
    <3>2. /\ NoneAfter(Tail(todo), Touches, Snapping(f))
          /\ Here \in Touches => ~Has(Tail(todo), Snapping(f))
      BY <2>2, <3>1, NoneAfterRest
    <3>3. f \in drift => ~Has(Tail(todo), Snapping(f))
      BY <2>2, <3>1, HasRest
    <3>4. f \in drift' => ~Has(todo', Snapping(f))
      BY <2>2, <2>4, <3>2, <3>3, NothingLeft
    <3>5. NoneAfter(todo', Touches, Snapping(f))
      BY <2>2, <3>2, NothingLeft
    <3>6. CASE Snapped(f)
      BY <2>3, <3>4, <3>5, <3>6
    <3>7. CASE Before(todo, Touches, Observing(f))
      <4>1. /\ Here \notin Touches
            /\ Here \notin Observing(f) => Before(Tail(todo), Touches, Observing(f))
        BY <2>2, <3>7, BeforeRest
      <4> QED
        BY <2>2, <2>3, <2>7, <3>4, <3>5, <4>1, NothingLeft
    <3> QED
      BY <3>1, <3>6, <3>7
  <2>8. ASSUME NEW f \in drift' PROVE f \in Guard /\ Snapped(f)' /\ doc'[f] # First(f)'
    <3>1. CASE f \in drift /\ doc' = doc
      <4>1. f \in Guard /\ Snapped(f) /\ doc[f] # First(f)
        BY <2>1, <3>1 DEF SnapInv
      <4>2. Here \notin Snapping(f)
        <5>1. phase = "body" => ~Has(todo, Snapping(f))
          BY <2>1, <3>1, <4>1 DEF SnapInv
        <5> QED
          BY <2>2, <2>6, <5>1, HasRest
      <4> QED
        BY <2>3, <3>1, <4>1, <4>2
    <3>2. CASE UNCHANGED snaps /\ Away(doc', f) /\ f \in Guard /\ Snapped(f)
      <4>1. (Snapped(f)' <=> Snapped(f)) /\ First(f)' = First(f)
        BY <3>2 DEF Snapped, First
      <4>2. doc'[f] # First(f)
        BY <3>2 DEF Away, Snapped, First
      <4> QED
        BY <3>2, <4>1, <4>2
    <3>3. f \in drift \/ (f \in Guard /\ Here \in Touches) => f \in Guard /\ Snapped(f)
      BY <2>1, <2>5, <2>7 DEF SnapInv
    <3> QED
      BY <2>4, <2>8, <3>1, <3>2, <3>3
  <2> QED
    BY <2>1, <2>7, <2>8 DEF SnapInv
<1>4. CASE Turns
  <2>1. \A f : (Snapped(f)' <=> Snapped(f)) /\ First(f)' = First(f)
    BY <1>4 DEF Turns, Snapped, First
  <2>2. UNCHANGED <<program, drift, doc>> /\ Guard' = Guard /\ phase' # "body" /\ phase \notin Early
    BY <1>4 DEF Turns, Guard, Operations, Early
  <2> QED
    BY <2>1, <2>2 DEF SnapInv
<1>5. CASE Closes
  <2>1. \A f : (Snapped(f)' <=> Snapped(f)) /\ First(f)' = First(f)
    BY <1>5 DEF Closes, Snapped, First
  <2>2. UNCHANGED <<program, drift, doc>> /\ Guard' = Guard /\ phase' # "body" /\ phase \notin Early
    BY <1>5, ClosesFacts DEF Guard, Operations
  <2> QED
    BY <2>1, <2>2 DEF SnapInv
<1>6. CASE Waits
  <2>1. \A f : (Snapped(f)' <=> Snapped(f)) /\ First(f)' = First(f)
    BY <1>6 DEF Waits, Snapped, First
  <2>2. UNCHANGED <<program, phase, todo>> /\ Guard' = Guard /\ Touches' = Touches
        /\ \A f \in drift' : f \in drift /\ (doc' = doc \/ Away(doc', f))
    BY <1>6 DEF Waits, Guard, Touches, Claim, Operations
  <2>3. ASSUME phase \notin Early, NEW f \in drift'
        PROVE  f \in Guard /\ Snapped(f) /\ doc'[f] # First(f)
    <3>1. f \in Guard /\ Snapped(f) /\ doc[f] # First(f)
      BY <2>2, <2>3 DEF SnapInv
    <3>2. Away(doc', f) => doc'[f] # First(f)
      BY <3>1 DEF Away, Snapped, First
    <3> QED
      BY <2>2, <2>3, <3>1, <3>2
  <2> QED
    BY <2>1, <2>2, <2>3 DEF SnapInv
<1> QED
  BY <1>1, <1>2, <1>3, <1>4, <1>5, <1>6 DEF Proceeds

(* A strict export publishes nothing whose source has drifted. *)
SourceInv ==
  Claim("source") =>
    /\ phase \notin Early /\ published => drift = {}
    /\ phase = "body" => \A f \in Guard :
         /\ Between(todo, Lossy, Refusing(f), Doing({"publish"}))
         /\ f \in drift => Before(todo, Doing({"publish"}), Refusing(f))

LEMMA SourceStep ==
  ASSUME TypeInv, TypeInv', PublishInv, SnapInv, SnapInv', SourceInv, FreshInv, FreshInv', Proceeds
  PROVE  SourceInv'
<1>1. CASE Begins
  BY <1>1, BeginsFresh DEF SourceInv
<1>2. CASE Opens /\ phase' \notin Early
  <2>1. ComparesSource(Operations[program]) /\ UNCHANGED program
    BY <1>2, OpensFresh, Obeys DEF Disciplined
  <2>2. Claim("source")' => \A f \in Guard' :
          Between(Operations[program].body, Lossy, Refusing(f), Doing({"publish"}))
    BY <2>1 DEF ComparesSource, Claim, Operations, Guard
  <2> QED
    BY <1>2, <2>1, <2>2, OpensFresh DEF SourceInv
<1>3. CASE Placed /\ Moves
  <2>1. UNCHANGED <<program, phase>> /\ phase \notin Early /\ (Claim("source")' <=> Claim("source"))
        /\ Guard' = Guard
    BY <1>3, AdapterStep DEF Claim, Guard, Operations, Early
  <2>2. /\ todo \in Seq(Steps) /\ todo # <<>> /\ Here = Head(todo) /\ Here \in Steps
        /\ (todo' = Tail(todo) \/ todo' = <<>>)
        /\ phase = "body" \/ (phase = "always" /\ Here.do \in Cleaning)
        /\ (Here \in Lossy => phase = "body")
    BY <1>3, AdapterStep
  <2>3. Claim("source") => \A f \in drift' : f \in drift \/ Here \in Lossy
    <3>1. Claim("source") => ~Claim("observation")
      BY <2>1, Obeys DEF Disciplined, ComparesSource, Claim, Early
    <3> QED
      BY <1>3, <3>1 DEF Moves, DriftMoves, Touches
  <2>4. published' => published \/ Here \in Doing({"publish"})
    BY <1>3, <2>2 DEF Moves, WriteMoves, Doing
  <2>5. phase = "always" => Here \notin Doing({"publish"})
    BY <2>2 DEF Doing, Cleaning
  <2>6. Here \in Doing({"publish"}) => Here \notin Lossy
    BY DEF Doing, Lossy, Changing
  <2>7. ASSUME Claim("source"), published', NEW f \in drift' PROVE FALSE
    <3>1. f \in Guard
      BY <2>1, <2>7 DEF SnapInv
    <3>2. CASE published
      <4>1. drift = {}
        BY <2>1, <2>7, <3>2 DEF SourceInv
      <4>2. phase = "body" => Here \notin Lossy
        BY <2>2, <3>2, HasRest DEF PublishInv
      <4> QED
        BY <2>2, <2>3, <2>7, <4>1, <4>2
    <3>3. CASE Here \in Doing({"publish"})
      <4>1. phase = "body" /\ f \in drift
        BY <2>2, <2>3, <2>5, <2>6, <2>7, <3>3
      <4>2. Before(todo, Doing({"publish"}), Refusing(f))
        BY <2>7, <3>1, <4>1 DEF SourceInv
      <4> QED
        BY <2>2, <3>3, <4>2, BeforeRest
    <3> QED
      BY <2>4, <2>7, <3>2, <3>3
  <2>8. ASSUME Claim("source"), phase = "body", NEW f \in Guard
        PROVE  /\ Between(todo', Lossy, Refusing(f), Doing({"publish"}))
               /\ Here \in Lossy => Before(todo', Doing({"publish"}), Refusing(f))
    <3>1. Between(todo, Lossy, Refusing(f), Doing({"publish"}))
      BY <2>8 DEF SourceInv
    <3>2. /\ Between(Tail(todo), Lossy, Refusing(f), Doing({"publish"}))
          /\ Here \in Lossy => Before(Tail(todo), Doing({"publish"}), Refusing(f))
      BY <2>2, <3>1, BetweenRest
    <3> QED
      BY <2>2, <3>2, NothingLeft
  <2>9. ASSUME Claim("source"), phase = "body", NEW f \in drift'
        PROVE  Before(todo', Doing({"publish"}), Refusing(f))
    <3>1. f \in Guard
      BY <2>1, <2>9 DEF SnapInv
    <3>2. CASE Here \in Lossy
      BY <2>8, <2>9, <3>1, <3>2
    <3>3. CASE f \in drift
      <4>1. Before(todo, Doing({"publish"}), Refusing(f))
        BY <2>9, <3>1, <3>3 DEF SourceInv
      <4>2. Here \notin Refusing(f) => Before(Tail(todo), Doing({"publish"}), Refusing(f))
        BY <2>2, <4>1, BeforeRest
      <4>3. Here \in Refusing(f) => todo' = <<>>
        <5>1. Snapped(f) /\ doc[f] # First(f)
          BY <2>1, <3>3 DEF SnapInv
        <5> QED
          BY <1>3, <2>9, <5>1 DEF Moves, FacetMoves
      <4> QED
        BY <2>2, <4>2, <4>3, NothingLeft
    <3> QED
      BY <2>3, <2>9, <3>2, <3>3
  <2> QED
    BY <2>1, <2>7, <2>8, <2>9 DEF SourceInv
<1>4. CASE Turns
  BY <1>4 DEF Turns, SourceInv, Claim, Operations, Early
<1>5. CASE Closes
  BY <1>5, ClosesFacts DEF SourceInv, Claim, Operations
<1>6. CASE Waits
  <2>1. UNCHANGED <<program, phase, todo, published>> /\ drift' \subseteq drift /\ Guard' = Guard
        /\ (Claim("source")' <=> Claim("source"))
    BY <1>6 DEF Waits, Guard, Claim, Operations
  <2> QED
    BY <2>1 DEF SourceInv
<1> QED
  BY <1>1, <1>2, <1>3, <1>4, <1>5, <1>6 DEF Proceeds

(* Where the comparison of a facet that drifted is still to come. *)
Ahead(facet) ==
  \/ phase = "body" /\ (Has(Operations[program].always, Comparing(facet)) \/ Has(todo, Comparing(facet)))
  \/ phase = "always" /\ Has(todo, Comparing(facet))

LEMMA AheadStep ==
  ASSUME TypeInv, Placed, Moves, NEW f, Ahead(f), Snapped(f), doc[f] # First(f),
         receipt'.error = "", todo' = Tail(todo)
  PROVE  Ahead(f)'
<1>1. /\ todo \in Seq(Steps) /\ todo # <<>> /\ Here = Head(todo) /\ UNCHANGED <<program, phase>>
      /\ Operations[program]' = Operations[program]
  BY AdapterStep DEF Operations
<1>2. Here \notin Comparing(f)
  BY DEF Moves, FacetMoves
<1>3. Has(todo, Comparing(f)) => Has(todo', Comparing(f))
  BY <1>1, <1>2, HasRest
<1> QED
  BY <1>1, <1>3 DEF Ahead

LEMMA AheadTurns ==
  ASSUME Turns, NEW f, Ahead(f)
  PROVE  Ahead(f)'
BY NothingLeft DEF Ahead, Turns, Operations

(* A guarded facet that drifted is compared before a success is answered. *)
Compares == Claim("context") \/ Claim("observation")

AgainInv ==
  Compares =>
    /\ phase = "body" => \A f \in Guard :
         Has(Operations[program].always, Comparing(f)) \/ After(todo, Touches, Comparing(f))
    /\ phase \notin Early /\ receipt.error = "" => \A f \in drift : Ahead(f)

LEMMA AgainStep ==
  ASSUME TypeInv, FromInv, SnapInv, SnapInv', UnchangedInv', AgainInv, FreshInv, FreshInv', Proceeds
  PROVE  AgainInv'
<1>1. CASE Begins
  BY <1>1, BeginsFresh DEF AgainInv
<1>2. CASE Opens /\ phase' \notin Early
  <2>1. ComparesAgain(Operations[program]) /\ UNCHANGED program
        /\ Touching(Operations[program]) = Touches
    BY <1>2, OpensFresh, Obeys, GuardIs DEF Disciplined
  <2>2. Guard' = Guard /\ Touches' = Touches /\ (Compares' <=> Compares)
        /\ Operations[program]' = Operations[program]
    BY <2>1 DEF Guard, Touches, Compares, Claim, Operations
  <2>3. Compares => \A f \in Guard :
          \/ Has(Operations[program].always, Comparing(f))
          \/ After(Operations[program].body, Touches, Comparing(f))
    BY <2>1 DEF ComparesAgain, Compares, Claim, Guard
  <2> QED
    BY <1>2, <2>2, <2>3, OpensFresh DEF AgainInv
<1>3. CASE Placed /\ Moves
  <2>1. UNCHANGED <<program, phase>> /\ phase \notin Early /\ (Compares' <=> Compares)
        /\ Guard' = Guard /\ Touches' = Touches /\ Operations[program]' = Operations[program]
    BY <1>3, AdapterStep DEF Compares, Claim, Guard, Touches, Operations, Early
  <2>2. /\ todo \in Seq(Steps) /\ todo # <<>> /\ Here = Head(todo)
        /\ (todo' = Tail(todo) \/ todo' = <<>>)
        /\ (Here \in Touches => phase = "body")
    BY <1>3, AdapterStep, TouchesInBody
  <2>3. ASSUME Compares, phase = "body", NEW f \in Guard,
               ~Has(Operations[program].always, Comparing(f))
        PROVE  /\ After(todo', Touches, Comparing(f))
               /\ Here \in Touches => Has(Tail(todo), Comparing(f))
    <3>1. After(todo, Touches, Comparing(f))
      BY <2>3 DEF AgainInv
    <3>2. /\ After(Tail(todo), Touches, Comparing(f))
          /\ Here \in Touches => Has(Tail(todo), Comparing(f))
      BY <2>2, <3>1, AfterRest
    <3> QED
      BY <2>2, <3>2, NothingLeft
  <2>4. ASSUME Compares, receipt'.error = "", NEW f \in drift'
        PROVE  Ahead(f)'
    <3>0. ~receipt'.unchanged
      BY <2>1, <2>4 DEF UnchangedInv, Touched
    <3>1. receipt.error = "" /\ todo' = Tail(todo)
      BY <1>3, <2>4, <3>0, GoesOn
    <3>2. CASE f \in drift
      <4>1. Ahead(f)
        BY <2>1, <2>4, <3>1, <3>2 DEF AgainInv
      <4>2. Snapped(f) /\ doc[f] # First(f)
        BY <2>1, <3>2 DEF SnapInv
      <4> QED
        BY <1>3, <2>4, <3>1, <4>1, <4>2, AheadStep
    <3>3. CASE f \notin drift
      <4>1. Here \in Touches
        BY <1>3, <2>4, <3>3 DEF Moves, DriftMoves
      <4>2. f \in Guard
        BY <2>1, <2>4 DEF SnapInv
      <4>3. phase = "body"
            /\ (Has(Operations[program].always, Comparing(f)) \/ Has(todo', Comparing(f)))
        BY <2>2, <2>3, <2>4, <3>1, <4>1, <4>2
      <4> QED
        BY <2>1, <4>3 DEF Ahead
    <3> QED
      BY <3>2, <3>3
  <2> QED
    BY <2>1, <2>3, <2>4 DEF AgainInv
<1>4. CASE Turns
  <2>1. UNCHANGED <<program, receipt, drift>> /\ phase \notin Early /\ phase' # "body"
        /\ (Compares' <=> Compares)
    BY <1>4 DEF Turns, Compares, Claim, Operations, Early
  <2> QED
    BY <1>4, <2>1, AheadTurns DEF AgainInv
<1>5. CASE Closes
  <2>1. UNCHANGED <<program, drift>> /\ phase \notin Early \cup {"body", "always"} /\ phase' # "body"
        /\ (receipt'.error = "" => receipt' = receipt) /\ (Compares' <=> Compares)
    BY <1>5, ClosesFacts DEF Compares, Claim, Operations
  <2>2. \A f : ~Ahead(f)
    BY <2>1 DEF Ahead
  <2> QED
    BY <2>1, <2>2 DEF AgainInv
<1>6. CASE Waits
  <2>1. UNCHANGED <<program, phase, todo, receipt>> /\ drift' \subseteq drift
        /\ (Compares' <=> Compares) /\ Guard' = Guard /\ Touches' = Touches
        /\ Operations[program]' = Operations[program]
    BY <1>6 DEF Waits, Compares, Claim, Guard, Touches, Operations
  <2>2. \A f : Ahead(f) => Ahead(f)'
    BY <2>1 DEF Ahead
  <2> QED
    BY <2>1, <2>2 DEF AgainInv
<1> QED
  BY <1>1, <1>2, <1>3, <1>4, <1>5, <1>6 DEF Proceeds

-----------------------------------------------------------------------------
(* What is borrowed is given back, reported or, if the next operation could   *)
(* be misled by it, fenced off.                                               *)

Freed(w) == Has(Operations[program].always, Of({"free"}, w))
Taken(w) == Has(Operations[program].body, Of({"take"}, w))
Given(w) == /\ receipt.error = "erased" \/ w \in receipt.reported
            /\ w \in Unrestorable => poisoned

LentInv ==
  /\ phase \notin Early => \A w \in (held \cup claimed) \ Outer : Taken(w)
  /\ phase = "body" => \A w \in held \ Outer : w \in claimed \/ Given(w)
  /\ phase = "always" => \A w \in held \ Outer : Freed(w) =>
       (w \in claimed /\ Has(todo, Of({"free"}, w))) \/ Given(w)
  /\ phase \in Late => \A w \in held \ Outer : Freed(w) => Given(w)

LEMMA LentStep ==
  ASSUME TypeInv, BlockInv, FromInv, LentInv, FreshInv, FreshInv', Proceeds
  PROVE  LentInv'
<1>1. CASE Begins
  BY <1>1, BeginsFresh DEF LentInv
<1>2. CASE Opens /\ phase' \notin Early
  <2>1. held \subseteq Outer /\ claimed \subseteq Outer
    BY <1>2 DEF Opens, FreshInv, Outer
  <2>2. held' \subseteq Outer /\ claimed' \subseteq Outer
    BY <1>2, <2>1 DEF Opens, Outer
  <2> QED
    BY <2>2 DEF LentInv
<1>3. CASE Placed /\ Moves
  <2>1. UNCHANGED <<program, phase>> /\ phase \notin Early \cup Late
        /\ Operations[program]' = Operations[program]
    BY <1>3, AdapterStep DEF Operations, Early, Late
  <2>2. /\ todo \in Seq(Steps) /\ todo # <<>> /\ Here = Head(todo) /\ Here \in Steps
        /\ (todo' = Tail(todo) \/ todo' = <<>>)
        /\ phase = "body" \/ (phase = "always" /\ Here.do \in Cleaning /\ todo' = Tail(todo))
    BY <1>3, AdapterStep
  <2>0. HeldMoves
    BY <1>3 DEF Moves
  <2>3. /\ \A w \in held' : w \in held \/ (Here \in Of({"take"}, w) /\ w \in claimed')
        /\ \A w \in claimed' : w \in claimed \/ Here \in Of({"take"}, w)
        /\ \A w \in claimed : \/ w \in claimed' \/ w \notin held' \/ Here \in Of({"drop"}, w)
                              \/ w \in receipt'.reported /\ (w \in Unrestorable => poisoned')
        /\ \A w : Here \in Of({"free"}, w) =>
                    \/ w \notin claimed'
                    \/ w \in receipt'.reported /\ (w \in Unrestorable => poisoned')
    BY <2>0, Zenon DEF HeldMoves
  <2>4. /\ poisoned => poisoned'
        /\ receipt.reported \subseteq receipt'.reported
        /\ receipt.error = "erased" => receipt'.error = "erased"
    BY <1>3 DEF Moves, HeldMoves, ReceiptMoves
  <2>5. \A w : /\ Given(w) => Given(w)'
               /\ w \in receipt'.reported /\ (w \in Unrestorable => poisoned') => Given(w)'
    BY <2>4, Zenon DEF Given
  <2>6. ASSUME NEW w PROVE phase = "always" => Here \notin Of({"take"}, w)
    BY <2>2 DEF Of, Doing, Cleaning
  <2>7. ASSUME NEW w PROVE phase = "body" => Here \notin Of({"drop"}, w)
    BY <1>3, <2>2 DEF Placed, Of, Doing
  <2>8. ASSUME NEW w \in (held' \cup claimed') \ Outer PROVE Taken(w)
    <3>1. CASE w \in held \cup claimed
      BY <2>1, <2>8, <3>1 DEF LentInv
    <3>2. CASE Here \in Of({"take"}, w)
      <4>1. phase = "body" /\ Has(todo, Of({"take"}, w))
        BY <2>2, <2>6, <3>2, HasRest
      <4> QED
        BY <2>2, <4>1, WithinRest DEF FromInv, Taken
    <3> QED
      BY <2>3, <2>8, <3>1, <3>2
  <2>9. ASSUME phase = "body", NEW w \in held' \ Outer PROVE w \in claimed' \/ Given(w)'
    <3>1. CASE w \in held
      <4>1. w \in claimed \/ Given(w)
        BY <2>9, <3>1 DEF LentInv
      <4> QED
        BY <2>3, <2>5, <2>7, <2>9, <4>1
    <3> QED
      BY <2>3, <2>9, <3>1
  <2>10. ASSUME phase = "always", NEW w \in held' \ Outer, Freed(w)
         PROVE  (w \in claimed' /\ Has(todo', Of({"free"}, w))) \/ Given(w)'
    <3>1. w \in held
      BY <2>3, <2>6, <2>10
    <3>2. (w \in claimed /\ Has(todo, Of({"free"}, w))) \/ Given(w)
      BY <2>10, <3>1 DEF LentInv
    <3>3. Here \notin Of({"drop"}, w)
      <4>1. FreesWhatItBorrows(Operations[program])
        BY <2>10, Obeys DEF Disciplined
      <4>2. PICK i \in 1..Len(Operations[program].always) :
              Operations[program].always[i] \in Of({"free"}, w)
        BY <2>10 DEF Freed, Has
      <4>3. Operations[program].always[i].do = "free" /\ Operations[program].always[i].at = w
        BY <4>2 DEF Of, Doing
      <4>4. ~Has(Operations[program].always, Of({"drop"}, w))
        BY <4>1, <4>3 DEF FreesWhatItBorrows
      <4>5. ~Has(todo, Of({"drop"}, w))
        BY <2>2, <2>10, <4>4, WithinRest DEF FromInv
      <4> QED
        BY <2>2, <4>5, HasRest
    <3>4. CASE w \in claimed /\ Has(todo, Of({"free"}, w))
      <4>1. w \in claimed' \/ Given(w)'
        BY <2>3, <2>5, <2>10, <3>3, <3>4
      <4>2. Here \in Of({"free"}, w) => Given(w)'
        BY <2>3, <2>5, <4>1
      <4>3. Here \notin Of({"free"}, w) => Has(Tail(todo), Of({"free"}, w))
        BY <2>2, <3>4, HasRest
      <4> QED
        BY <2>2, <2>10, <4>1, <4>2, <4>3
    <3> QED
      BY <2>5, <3>2, <3>4
  <2>11. \A w : (Taken(w)' <=> Taken(w)) /\ (Freed(w)' <=> Freed(w))
    BY <2>1 DEF Taken, Freed
  <2> QED
    BY <2>1, <2>8, <2>9, <2>10, <2>11 DEF LentInv
<1>4. CASE Turns
  <2>1. UNCHANGED <<program, held, claimed, receipt, poisoned>> /\ phase \notin Early
        /\ Operations[program]' = Operations[program]
    BY <1>4 DEF Turns, Operations, Early
  <2>2. \A w : (Taken(w)' <=> Taken(w)) /\ (Freed(w)' <=> Freed(w)) /\ (Given(w)' <=> Given(w))
    BY <2>1 DEF Taken, Freed, Given
  <2>3. CASE phase = "body" /\ phase' = "always" /\ todo' = Operations[program].always
    BY <2>1, <2>2, <2>3 DEF LentInv, Freed, Late
  <2>4. CASE phase = "always" /\ phase' = "after"
    BY <1>4, <2>1, <2>2, <2>4, NothingLeft DEF Turns, LentInv
  <2> QED
    BY <1>4, <2>3, <2>4 DEF Turns
<1>5. CASE Closes
  <2>1. UNCHANGED <<program, poisoned>> /\ phase \notin Early /\ phase \in Late
        /\ phase' \notin {"body", "always"} /\ Operations[program]' = Operations[program]
    BY <1>5, ClosesFacts DEF Operations
  <2>2. held' \subseteq held /\ claimed' \subseteq claimed
    BY <1>5 DEF Closes
  <2>3. /\ receipt.error = "erased" => receipt'.error = "erased"
        /\ receipt.reported \subseteq receipt'.reported \/ receipt'.error = "erased"
    BY <1>5 DEF Closes, Completes, Erased, NoReceipt
  <2>4. \A w : (Taken(w)' <=> Taken(w)) /\ (Freed(w)' <=> Freed(w)) /\ (Given(w) => Given(w)')
    BY <2>1, <2>3 DEF Taken, Freed, Given
  <2> QED
    BY <2>1, <2>2, <2>4 DEF LentInv
<1>6. CASE Waits
  BY <1>6 DEF Waits, LentInv, Taken, Freed, Given, Operations
<1> QED
  BY <1>1, <1>2, <1>3, <1>4, <1>5, <1>6 DEF Proceeds

(* No adapter lends or gives back what is the worker's own. *)
LEMMA OuterKept ==
  ASSUME TypeInv, FromInv, Placed, Moves, NEW w \in Outer
  PROVE  (w \in held' => w \in held) /\ (w \in claimed => w \in claimed')
<1>1. /\ todo \in Seq(Steps) /\ todo # <<>> /\ Here = Head(todo) /\ Here \in Steps
      /\ phase = "body" \/ phase = "always"
  BY AdapterStep
<1>2. FreesWhatItBorrows(Operations[program])
  BY <1>1, Obeys DEF Disciplined
<1>3. Here \notin Of({"take", "free", "drop", "settle"}, w)
  <2>1. PICK kind : kind = Of({"take", "free", "drop", "settle"}, w)
    OBVIOUS
  <2>2. ~Has(Operations[program].body, kind) /\ ~Has(Operations[program].always, kind)
    BY <1>2, <2>1 DEF FreesWhatItBorrows
  <2>3. Within(todo, Operations[program].body) \/ Within(todo, Operations[program].always)
    BY <1>1 DEF FromInv
  <2>4. ~Has(todo, kind)
    BY <1>1, <2>2, <2>3, WithinRest
  <2> QED
    BY <1>1, <2>1, <2>4, HasRest
<1>4. Here \notin Of({"take"}, w) /\ Here \notin Of({"free", "drop", "settle"}, w)
  BY <1>3 DEF Of, Doing
<1>5. w # "staging"
  BY DEF Outer
<1> QED
  BY <1>4, <1>5 DEF Moves, HeldMoves

(* The document that was in front. *)
FrontInv ==
  phase \notin Early /\ "foreground" \in held =>
    \/ phase \in {"body", "always", "after", "restore"} /\ "foreground" \in claimed
    \/ receipt.error \in {"unconfirmed", "erased"}
    \/ "foreground" \in receipt.reported /\ receipt.error # ""

LEMMA FrontStep ==
  ASSUME TypeInv, FromInv, FrontInv, FreshInv, FreshInv', Proceeds
  PROVE  FrontInv'
<1>1. CASE Begins
  BY <1>1, BeginsFresh DEF FrontInv
<1>2. CASE Opens /\ phase' \notin Early
  <2>1. "foreground" \notin held
    BY <1>2 DEF Opens, FreshInv
  <2> QED
    BY <1>2, <2>1 DEF Opens, FrontInv
<1>3. CASE Placed /\ Moves
  <2>1. "foreground" \in Outer
    BY DEF Outer
  <2>2. ("foreground" \in held' => "foreground" \in held)
        /\ ("foreground" \in claimed => "foreground" \in claimed')
    BY <1>3, <2>1, OuterKept
  <2>3. phase' = phase /\ phase \in {"body", "always"}
    BY <1>3, AdapterStep
  <2>4. /\ receipt.reported \subseteq receipt'.reported
        /\ receipt.error # "" => receipt'.error = receipt.error
    BY <1>3 DEF Moves, ReceiptMoves
  <2> QED
    BY <2>2, <2>3, <2>4 DEF FrontInv, Early
<1>4. CASE Turns
  BY <1>4 DEF Turns, FrontInv, Early
<1>5. CASE Closes
  <2>1. phase \notin Early /\ ("foreground" \in held' => "foreground" \in held)
    BY <1>5, ClosesFacts DEF Closes
  <2>2. \/ receipt' = receipt
        \/ receipt'.error = "erased"
        \/ /\ receipt'.error # "" /\ (receipt.error # "" => receipt'.error = receipt.error)
           /\ receipt.reported \subseteq receipt'.reported
    BY <1>5 DEF Closes, Completes, Erased, NoReceipt
  <2>3. CASE phase \in {"body", "always", "after", "restore"} /\ "foreground" \in claimed
    <3>1. CASE "foreground" \in claimed'
      BY <1>5, <2>3, <3>1 DEF Closes, FrontInv, Late
    <3>2. CASE "foreground" \notin claimed'
      BY <1>5, <2>3, <3>2 DEF Closes, FrontInv
    <3> QED
      BY <3>1, <3>2
  <2>4. CASE receipt.error \in {"unconfirmed", "erased"}
    BY <2>2, <2>4 DEF FrontInv
  <2>5. CASE "foreground" \in receipt.reported /\ receipt.error # ""
    BY <2>2, <2>5 DEF FrontInv
  <2> QED
    BY <2>1, <2>3, <2>4, <2>5 DEF FrontInv
<1>6. CASE Waits
  BY <1>6 DEF Waits, FrontInv
<1> QED
  BY <1>1, <1>2, <1>3, <1>4, <1>5, <1>6 DEF Proceeds

(* What the next operation must not trust. *)
FenceInv ==
  /\ retired => phase = "done"
  /\ "command in progress" \in held =>
       \/ phase \notin {"idle", "enter", "validate", "done"} /\ "command in progress" \in claimed
       \/ phase = "done" /\ retired
  /\ "earlier preferences" \in held => poisoned

LEMMA FenceStep ==
  ASSUME TypeInv, BlockInv, KeepInv, FromInv, FreshInv, LentInv, FenceInv, [Next]_vars
  PROVE  FenceInv'
<1>1. CASE Request
  BY <1>1 DEF Request, FenceInv
<1>2. CASE Opens
  BY <1>2 DEF Opens, FenceInv, Early
<1>3. CASE Placed /\ Moves
  <2>1. /\ "command in progress" \in held' => "command in progress" \in held
        /\ "command in progress" \in claimed => "command in progress" \in claimed'
        /\ "earlier preferences" \in held' => "earlier preferences" \in held
    BY <1>3, OuterKept DEF Outer
  <2>2. phase' = phase /\ phase \in {"body", "always"}
    BY <1>3, AdapterStep
  <2>3. retired' = retired /\ (poisoned => poisoned')
    BY <1>3 DEF Moves, HeldMoves
  <2> QED
    BY <2>1, <2>2, <2>3 DEF FenceInv
<1>4. CASE Turns
  BY <1>4 DEF Turns, FenceInv
<1>5. CASE Closes
  <2>1. ~retired /\ phase \in {"after", "restore", "describe", "leave", "validate"}
    BY <1>5 DEF Closes, FenceInv, Late
  <2>2. retired' => phase' = "done"
    BY <1>5, <2>1 DEF Closes
  <2>3. ASSUME "command in progress" \in held'
        PROVE  \/ phase' \notin {"idle", "enter", "validate", "done"}
                  /\ "command in progress" \in claimed'
               \/ phase' = "done" /\ retired'
    <3>1. phase # "validate" /\ "command in progress" \in claimed
      BY <1>5, <2>1, <2>3 DEF Closes, FenceInv
    <3> QED
      BY <1>5, <2>3, <3>1 DEF Closes, Late
  <2>4. "earlier preferences" \in held' => poisoned'
    BY <1>5 DEF Closes, FenceInv
  <2> QED
    BY <2>2, <2>3, <2>4 DEF FenceInv
<1>6. CASE NextOperation
  <2>1. ASSUME ~retired, held' = LeftBehind(held), UNCHANGED <<poisoned, retired>>, phase = "done",
               phase' = "idle"
        PROVE  FenceInv'
    <3>1. "command in progress" \notin held'
      BY <2>1 DEF FenceInv, LeftBehind
    <3>2. CASE "preferences" \in held
      <4>1. Taken("preferences")
        BY <2>1, <3>2 DEF LentInv, Early, Outer
      <4>2. Freed("preferences")
        <5>1. RestoresPreferences(Operations[program])
          BY <2>1, Obeys DEF Disciplined
        <5> QED
          BY <4>1, <5>1 DEF RestoresPreferences, Taken, Freed
      <4>3. poisoned
        BY <2>1, <3>2, <4>2 DEF LentInv, Late, Outer, Given, Unrestorable
      <4> QED
        BY <2>1, <3>1, <4>3 DEF FenceInv
    <3>3. CASE "preferences" \notin held
      BY <2>1, <3>1, <3>3 DEF FenceInv, LeftBehind
    <3> QED
      BY <3>2, <3>3
  <2>2. ASSUME held' = {}, retired' = FALSE PROVE FenceInv'
    BY <2>2 DEF FenceInv
  <2> QED
    BY <1>6, <2>1, <2>2 DEF NextOperation
<1>7. CASE Interfere \/ UNCHANGED vars
  <2>1. Waits
    BY <1>7, WaitingSteps
  <2> QED
    BY <2>1 DEF Waits, FenceInv
<1> QED
  BY <1>1, <1>2, <1>3, <1>4, <1>5, <1>6, <1>7, ExecuteIs DEF Next
-----------------------------------------------------------------------------
(* The invariant *)

Inv ==
  /\ TypeInv /\ BlockInv /\ KeepInv /\ FromInv /\ FreshInv
  /\ ReceiptInv /\ UnchangedInv /\ AttemptInv /\ EffectInv /\ VerifyInv /\ MarkInv
  /\ PublishInv /\ SnapInv /\ SourceInv /\ AgainInv
  /\ LentInv /\ FrontInv /\ FenceInv

LEMMA InvInit == ASSUME Init PROVE Inv
<1>1. /\ phase = "idle" /\ phase \in Early /\ phase \notin {"body", "always", "after", "describe", "done"} \cup Late
      /\ todo = <<>> /\ held = {} /\ claimed = {} /\ retired = FALSE
      /\ snaps = <<>> /\ receipt = NoReceipt /\ changed = FALSE /\ lost = FALSE /\ published = FALSE
      /\ unsaved = FALSE /\ drift = {} /\ doc = Still
  BY DEF Init, Early, Late
<1>2. receipt.error = "" /\ ~receipt.attempted /\ ~receipt.unchanged /\ Shaped(receipt)
  BY <1>1 DEF NoReceipt, Shaped
<1>3. \A f : ~Snapped(f)
  <2>1. "before" \notin DOMAIN snaps
    BY <1>1
  <2> QED
    BY <2>1 DEF Snapped
<1>4. doc \in [Facets -> Nat] /\ doc["modified"] \in 0..1 /\ todo \in Seq(Steps)
  BY <1>1, StillIs
<1>5. TypeInv
  BY <1>1, <1>2, <1>3, <1>4 DEF TypeInv, Phases
<1>6. BlockInv /\ KeepInv /\ FromInv /\ FreshInv
  BY <1>1 DEF BlockInv, KeepInv, FromInv, FreshInv
<1>7. ReceiptInv /\ UnchangedInv /\ AttemptInv /\ EffectInv /\ VerifyInv /\ MarkInv
  BY <1>1, <1>2 DEF ReceiptInv, UnchangedInv, AttemptInv, EffectInv, VerifyInv, MarkInv, Exceptions
<1>8. PublishInv /\ SnapInv /\ SourceInv /\ AgainInv
  BY <1>1 DEF PublishInv, SnapInv, SourceInv, AgainInv
<1>9. LentInv /\ FrontInv /\ FenceInv
  BY <1>1 DEF LentInv, FrontInv, FenceInv
<1> QED
  BY <1>5, <1>6, <1>7, <1>8, <1>9 DEF Inv

LEMMA InvStep == ASSUME Inv, [Next]_vars PROVE Inv' /\ Proceeds
<1>1. Proceeds /\ FreshInv'
  BY StepsProceed DEF Inv
<1>2. TypeInv' /\ BlockInv' /\ KeepInv' /\ FromInv'
  BY <1>1, TypeStep, BlockStep DEF Inv
<1>3. ReceiptInv' /\ UnchangedInv' /\ AttemptInv'
  BY <1>1, ReceiptStep, UnchangedStep, AttemptStep DEF Inv
<1>4. EffectInv' /\ VerifyInv' /\ MarkInv' /\ PublishInv'
  BY <1>1, <1>3, EffectStep, VerifyStep, MarkStep, PublishStep DEF Inv
<1>5. SnapInv'
  BY <1>1, <1>2, SnapStep DEF Inv
<1>6. SourceInv' /\ AgainInv'
  BY <1>1, <1>2, <1>3, <1>5, SourceStep, AgainStep DEF Inv
<1>7. LentInv' /\ FrontInv' /\ FenceInv'
  BY <1>1, LentStep, FrontStep, FenceStep DEF Inv
<1> QED
  BY <1>1, <1>2, <1>3, <1>4, <1>5, <1>6, <1>7 DEF Inv

LEMMA Invariance == Spec => []Inv
<1>1. Init => Inv
  BY InvInit
<1>2. Inv /\ [Next]_vars => Inv'
  BY InvStep
<1> QED
  BY <1>1, <1>2, PTL DEF Spec

-----------------------------------------------------------------------------
(* The promises *)

(* While people edit the document, switch its configuration or sketch edit    *)
(* and save it between any two COM calls, and may put everything but the      *)
(* stamp back, the reads of an answer were made in the state first observed,  *)
(* facet by facet, or in one that people had put right again when the adapter *)
(* repeated its observation; a trace left behind makes the answer an error.   *)
THEOREM ReadsAreOfOneState == Spec => []ConsistentObservation
<1>1. ASSUME Inv, Succeeded, Claim("observation") PROVE drift = {}
  BY <1>1 DEF Inv, AgainInv, Compares, Ahead, Succeeded, Answered, Early
<1>2. Inv => ConsistentObservation
  BY <1>1 DEF ConsistentObservation
<1> QED
  BY <1>2, Invariance, PTL

(* A mutation that claims its context reports success only if configuration,  *)
(* sketch edit, foreground and source model were, at every native setter,     *)
(* what the adapter had first observed, or have become it again before the    *)
(* comparison behind the setter, which cannot tell and need not.              *)
THEOREM WritesAreInTheirContext == Spec => []WroteInItsContext
<1>1. ASSUME Inv, Succeeded, Claim("context") PROVE drift = {}
  BY <1>1 DEF Inv, AgainInv, Compares, Ahead, Succeeded, Answered, Early
<1>2. Inv => WroteInItsContext
  BY <1>1 DEF WroteInItsContext
<1> QED
  BY <1>2, Invariance, PTL

(* Whichever COM call fails, a selection, sketch edit, preference or          *)
(* foreground document the operation still holds when it answers is named in  *)
(* the answer, and no success leaves another document in front.               *)
THEOREM WhatIsBorrowedIsGivenBack == Spec => []BorrowedIsGivenBack
<1>1. ASSUME Inv, Answered, receipt.error # "erased", NEW w \in held, GivenBack(w)
      PROVE  w \in receipt.reported
  <2>1. phase \in Late /\ phase \notin Early /\ phase \notin {"idle", "body", "always", "after", "restore"}
    BY <1>1 DEF Answered, Late, Early
  <2>2. CASE w = "foreground" /\ receipt.error # "unconfirmed"
    BY <1>1, <2>1, <2>2 DEF Inv, FrontInv
  <2>3. CASE Uses(Operations[program].always, "free", w)
    <3>1. PICK i \in 1..Len(Operations[program].always) :
            Operations[program].always[i].do = "free" /\ Operations[program].always[i].at = w
      BY <2>3 DEF Uses
    <3>2. FreesWhatItBorrows(Operations[program]) /\ Operations[program].always[i] \in Steps
      BY <1>1, <2>1, Obeys DEF Inv, Disciplined
    <3>3. Operations[program].always[i] \in Of({"free"}, w)
      BY <3>1, <3>2 DEF Of, Doing
    <3>4. Freed(w)
      BY <3>3 DEF Freed, Has
    <3>5. w \notin Outer
      <4>1. Operations[program].always[i] \in Of({"take", "free", "drop", "settle"}, w)
        BY <3>3 DEF Of, Doing
      <4>2. Has(Operations[program].always, Of({"take", "free", "drop", "settle"}, w))
        BY <4>1 DEF Has
      <4> QED
        BY <3>2, <4>2 DEF FreesWhatItBorrows
    <3> QED
      BY <1>1, <2>1, <3>4, <3>5 DEF Inv, LentInv, Given
  <2> QED
    BY <1>1, <2>2, <2>3 DEF GivenBack
<1>2. ASSUME Inv, Succeeded PROVE "foreground" \notin held
  BY <1>2 DEF Inv, FrontInv, Succeeded, Answered, Early
<1>3. Inv => BorrowedIsGivenBack
  BY <1>1, <1>2 DEF BorrowedIsGivenBack
<1> QED
  BY <1>3, Invariance, PTL

(* No success rests on a native setter that only said it had done its work,   *)
(* and none leaves a changed setting, unless somebody saved it meanwhile,     *)
(* behind that saving would skip.                                             *)
THEOREM SuccessesAreDurable == Spec => []SuccessIsDurable
<1>1. ASSUME Inv, Succeeded, Claim("verified") PROVE ~lost
  <2>1. CASE "readback" \in Operations[program].rules
    BY <1>1, <2>1 DEF Inv, ReceiptInv, Contradicts, Succeeded, Answered
  <2>2. CASE "readback" \notin Operations[program].rules
    BY <1>1, <2>2 DEF Inv, VerifyInv, ReadsBack, Succeeded, Answered, Early
  <2> QED
    BY <2>1, <2>2
<1>2. ASSUME Inv, Succeeded, Claim("saved"), unsaved PROVE doc["modified"] = 1
  <2>0. changed /\ (doc["modified"] = 1 \/ doc["modified"] = 0)
    BY <1>2 DEF Inv, TypeInv
  <2>1. CASE "modified" \in Operations[program].rules
    <3>1. MarksAfterWriting(Operations[program])
      BY <1>2, Obeys DEF Inv, Disciplined, Succeeded, Answered
    <3>2. Claim("receipt")
      BY <1>2, <2>1, <3>1 DEF MarksAfterWriting, Claim
    <3>3. receipt.attempted
      BY <1>2, <2>0, <3>2 DEF Inv, AttemptInv, Flagging, Succeeded, Answered, Early
    <3> QED
      BY <1>2, <2>0, <2>1, <3>3 DEF Inv, ReceiptInv, Contradicts, Succeeded, Answered
  <2>2. CASE "modified" \notin Operations[program].rules
    BY <1>2, <2>0, <2>2 DEF Inv, MarkInv, Marks, Succeeded, Answered, Early
  <2> QED
    BY <2>1, <2>2
<1>3. Inv => SuccessIsDurable
  BY <1>1, <1>2 DEF SuccessIsDurable
<1> QED
  BY <1>3, Invariance, PTL

(* The requested path is only ever replaced by a file that was verified, and  *)
(* by a strict export only while what it compares of its source, the save     *)
(* flag above all, is what it was when the file was made (whatever the        *)
(* operation answers in the end).                                             *)
THEOREM OnlyVerifiedFilesAreIssued == Spec => []PublishedIsVerified
<1>1. ASSUME Inv, published PROVE ~lost /\ (Claim("source") => drift = {})
  <2>1. phase \notin Early
    BY <1>1 DEF Inv, FreshInv
  <2> QED
    BY <1>1, <2>1 DEF Inv, PublishInv, SourceInv
<1>2. Inv => PublishedIsVerified
  BY <1>1 DEF PublishedIsVerified
<1> QED
  BY <1>2, Invariance, PTL

(* An operation starts with no command of an earlier one in progress, and in  *)
(* a process whose STL preferences are unknown the adapter refuses to borrow  *)
(* them.                                                                      *)
THEOREM UnknownStateStaysFenced == Spec => UnknownStateIsFenced
<1>1. ASSUME Inv', phase' = "idle"
      PROVE  "command in progress" \notin held' /\ ("earlier preferences" \in held' => poisoned')
  BY <1>1 DEF Inv, FenceInv
<1>2. Inv' => (phase' = "idle" => /\ "command in progress" \notin held'
                                  /\ "earlier preferences" \in held' => poisoned')
  BY <1>1
<1> QED
  BY <1>2, Invariance, PTL DEF UnknownStateIsFenced
(* What an answer says of the document. *)
Honest ==
  phase = "done" => /\ Conclusion \in {"unchanged", "changed", "refused", "uncertain"}
                    /\ Conclusion = "unchanged" => ~changed
                    /\ Conclusion = "changed" => changed
                    /\ Conclusion = "refused" => ~changed

LEMMA AnswersAreHonest == ASSUME Inv PROVE Honest
<1>1. ASSUME Inv, phase = "done"
      PROVE  /\ Conclusion \in {"unchanged", "changed", "refused", "uncertain"}
             /\ Conclusion = "unchanged" => ~changed
             /\ Conclusion = "changed" => changed
             /\ Conclusion = "refused" => ~changed
  <2>1. Conclusion \in {"unchanged", "changed", "refused", "uncertain"}
    BY <1>1 DEF Conclusion, Answered
  <2>2. phase \notin Early
    BY <1>1 DEF Early
  <2>3. ASSUME Conclusion = "unchanged" PROVE ~changed
    <3>1. receipt.unchanged \/ Claim("observation")
      BY <1>1, <2>3 DEF Conclusion, Answered
    <3> QED
      BY <1>1, <2>2, <3>1 DEF Inv, UnchangedInv, Touched, AttemptInv
  <2>4. ASSUME Conclusion = "changed" PROVE changed
    <3>1. receipt.error = "" /\ ~receipt.unchanged /\ ~Claim("observation")
          /\ Claim("receipt") /\ Claim("verified")
      BY <1>1, <2>4 DEF Conclusion, Answered, Succeeded
    <3>2. changed \/ lost
      BY <1>1, <2>2, <3>1 DEF Inv, EffectInv, Writing
    <3>3. ~lost
      <4>1. CASE "readback" \in Operations[program].rules
        BY <1>1, <3>1, <4>1 DEF Inv, ReceiptInv, Contradicts
      <4>2. CASE "readback" \notin Operations[program].rules
        BY <1>1, <2>2, <3>1, <4>2 DEF Inv, VerifyInv, ReadsBack
      <4> QED
        BY <4>1, <4>2
    <3> QED
      BY <3>2, <3>3
  <2>5. ASSUME Conclusion = "refused" PROVE ~changed
    <3>1. ~receipt.attempted
          /\ (Claim("kept") \/ (receipt.error # "erased" /\ (Claim("receipt") \/ Claim("observation"))))
      BY <1>1, <2>5 DEF Conclusion, Answered
    <3> QED
      BY <1>1, <2>2, <3>1 DEF Inv, AttemptInv, Flagging
  <2> QED
    BY <2>1, <2>3, <2>4, <2>5
<1> QED
  BY <1>1 DEF Honest

(* The answer of an operation is true: an error that admits no mutation and a *)
(* success that found nothing to do left the document alone, and a verified   *)
(* success changed it; whatever fails, at whatever call, and whether or not   *)
(* the adapter's own receipt survives to be sent.                             *)
THEOREM AnswersAreTrue == Spec => KeepsPromise
<1>1. ASSUME Init PROVE Promise!Init
  BY <1>1 DEF Init, Promise!Init, Conclusion, Answered
<1>2. Inv => Honest
  BY AnswersAreHonest
<1>3. phase # "done" => Conclusion = "none"
  BY DEF Conclusion, Answered
<1>4. ASSUME Inv, Inv', Honest, Honest', [Next]_vars
      PROVE  [Promise!Next]_<<Conclusion, changed>>
  <2>1. Proceeds /\ changed \in BOOLEAN /\ changed' \in BOOLEAN
    BY <1>4, InvStep DEF Inv, TypeInv
  <2>2. phase' # "done" => Conclusion' = "none"
    BY DEF Conclusion, Answered
  <2>3. CASE Begins
    <3>1. changed' = FALSE /\ phase' # "done"
      BY <1>4, <2>3 DEF Inv, Begins, FreshInv, Early
    <3>2. CASE phase = "done"
      BY <1>4, <2>2, <3>1, <3>2 DEF Honest, Promise!Next, Promise!NextOperation
    <3>3. CASE phase \in Early
      <4>1. changed = FALSE /\ phase # "done"
        BY <1>4, <3>3 DEF Inv, FreshInv, Early
      <4> QED
        BY <1>3, <2>2, <3>1, <4>1
    <3> QED
      BY <2>3, <3>2, <3>3 DEF Begins
  <2>4. CASE Closes
    <3>1. phase # "done" /\ changed' = changed
      BY <2>4 DEF Closes
    <3>2. CASE phase' = "done"
      <4>1. /\ Conclusion' \in {"unchanged", "changed", "refused", "uncertain"}
            /\ Conclusion' = "unchanged" => ~changed'
            /\ Conclusion' = "changed" => changed'
            /\ Conclusion' = "refused" => ~changed'
        BY <1>4, <3>2 DEF Honest
      <4> QED
        BY <1>3, <3>1, <4>1 DEF Promise!Next, Promise!Refuse, Promise!ReportUnchanged,
          Promise!ReportChanged, Promise!ReportUncertain, Promise!Reply
    <3>3. CASE phase' # "done"
      BY <1>3, <2>2, <3>1, <3>3
    <3> QED
      BY <3>2, <3>3
  <2>5. CASE Waits
    <3>1. Conclusion' = Conclusion /\ changed' = changed
      BY <2>5 DEF Waits, Conclusion, Answered, Succeeded, Claim, Operations
    <3> QED
      BY <3>1
  <2>6. CASE (Opens /\ phase' \notin Early) \/ (Placed /\ Moves) \/ Turns
    <3>1. phase # "done" /\ phase' # "done" /\ (changed => changed')
      <4>1. CASE Opens
        BY <4>1 DEF Opens, Early
      <4>2. CASE Placed /\ Moves
        BY <4>2 DEF Placed, Moves, BlockMoves, WriteMoves
      <4>3. CASE Turns
        BY <4>3 DEF Turns
      <4> QED
        BY <2>6, <4>1, <4>2, <4>3
    <3>2. changed' = changed \/ changed' = TRUE
      BY <2>1, <3>1
    <3> QED
      BY <1>3, <2>2, <3>1, <3>2 DEF Promise!Next, Promise!Touch
  <2> QED
    BY <2>1, <2>3, <2>4, <2>5, <2>6 DEF Proceeds
<1> QED
  BY <1>1, <1>2, <1>4, Invariance, PTL DEF Spec, KeepsPromise, Promise!Spec

-----------------------------------------------------------------------------
(* Every operation ends *)

Advances ==
  \/ phase = "idle" \/ people' = people - 1
  \/ Point[phase'] > Point[phase]
  \/ phase' = phase /\ Len(todo') < Len(todo)

LEMMA ShorterAdvances ==
  ASSUME TypeInv, Running, phase' = phase, todo' \in {Tail(todo), <<>>}
  PROVE  Advances
<1>1. Len(Tail(todo)) = Len(todo) - 1 /\ Len(todo) \in Nat \ {0}
  BY Rest DEF TypeInv, Running
<1>2. Len(<<>>) = 0
  OBVIOUS
<1> QED
  BY <1>1, <1>2 DEF Advances

LEMMA EnteringAdvances ==
  ASSUME \/ phase = "enter" /\ phase' \in {"resolve", "leave"}
         \/ phase = "resolve" /\ phase' \in {"activate", "leave"}
         \/ phase = "activate" /\ phase' \in {"body", "leave"}
         \/ phase = "body" /\ phase' = "always"
         \/ phase = "always" /\ phase' = "after"
         \/ phase = "after" /\ phase' = "restore"
         \/ phase = "restore" /\ phase' \in {"describe", "leave"}
         \/ phase = "describe" /\ phase' = "leave"
         \/ phase = "leave" /\ phase' \in {"validate", "done"}
         \/ phase = "validate" /\ phase' = "done"
         \/ phase = "done" /\ phase' = "idle"
  PROVE  Advances
  BY DEF Advances, Point

LEMMA StepAdvances ==
  ASSUME TypeInv, Next
  PROVE  Advances
<1>1. CASE Request
  BY <1>1 DEF Request, Advances
<1>2. CASE Interfere
  BY <1>2 DEF Interfere, Advances
<1>3. CASE EnterSequence \/ RefuseRequest \/ Resolve \/ AlreadyActive \/ Activate
  BY <1>3, EnteringAdvances
  DEF EnterSequence, RefuseRequest, Resolve, AlreadyActive, Activate, Answer, Enter
<1>4. CASE LeaveBody \/ LeaveAlways \/ LeaveHandler
  BY <1>4, EnteringAdvances DEF LeaveBody, LeaveAlways, LeaveHandler, Ended, Enter
<1>5. CASE RestoreForeground \/ DescribeActivated \/ LeaveSequence \/ ValidateAnswer
  BY <1>5, EnteringAdvances
  DEF RestoreForeground, DescribeActivated, LeaveSequence, ResultOrException, ValidateAnswer
<1>6. CASE NextOperation
  BY <1>6, EnteringAdvances DEF NextOperation
<1>7. CASE Idle
  BY <1>7, ShorterAdvances DEF Idle, Advance
<1>8. CASE DoCheck \/ DoRead \/ DoSnap \/ DoSame \/ DoClean \/ DoAttempt \/ DoNote
  BY <1>8, ShorterAdvances
  DEF DoCheck, DoRead, DoSnap, DoSame, DoClean, DoAttempt, DoNote, Advance, Raise, Abandon
<1>9. CASE DoWrite \/ DoMark \/ DoVerify \/ DoUnchanged \/ DoProduce \/ DoStir
  BY <1>9, ShorterAdvances
  DEF DoWrite, DoMark, DoVerify, DoUnchanged, DoProduce, DoStir, Advance, Raise, Abandon
<1>10. CASE DoTake \/ DoFree \/ DoDrop \/ DoSettle \/ DoPublish
  BY <1>10, ShorterAdvances
  DEF DoTake, DoFree, DoDrop, DoSettle, DoPublish, Advance, Raise, Abandon
<1>11. CASE Finish
  BY <1>11, ShorterAdvances DEF Finish, Advance, Abandon
<1> QED
  BY <1>1, <1>2, <1>3, <1>4, <1>5, <1>6, <1>7, <1>8, <1>9, <1>10, <1>11 DEF Next, Execute

(* However many programs there are and whatever fails in them, every step of  *)
(* an operation brings its answer nearer: later in execute_operation, or with *)
(* fewer steps of the block before it.  No finally clause is run twice.       *)
THEOREM OperationsAdvance == Spec => OperationAdvances
<1>1. Inv /\ [Next]_vars => [Advances]_vars
  BY StepAdvances DEF Inv
<1> QED
  BY <1>1, Invariance, PTL DEF Spec, OperationAdvances, Advances
=============================================================================
