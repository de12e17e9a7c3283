------------------------- MODULE ReplayCache_proofs -------------------------
(***************************************************************************)
(* Proofs about ReplayCache, for any requests, sizes and limits: the byte  *)
(* count is that of the items and both limits hold, the outcome a client   *)
(* may rely on is still there, and the cache implements ReplayPromise.     *)
(***************************************************************************)
EXTENDS ReplayCache, WellFoundedInduction, FiniteSetTheorems, SequenceTheorems, TLAPS

USE CacheAssumption DEF CacheAssumption

-----------------------------------------------------------------------------
(* Induction over the natural numbers, stated of a set.                    *)

Below == {p \in Nat \X Nat : p[1] < p[2]}

(* A set of natural numbers has a least element. *)
LEMMA Least ==
  ASSUME NEW T, T \subseteq Nat, T # {}
  PROVE  \E n \in T : \A m \in T : n <= m
<1>1. OpToRel(<, Nat) = Below
  BY DEF OpToRel, Below
<1>2. IsWellFoundedOn(Below, Nat)
  BY <1>1, NatLessThanWellFounded, Zenon
<1>3. PICK n \in T : \A m \in T : <<m, n>> \notin Below
  BY <1>2, WFMin, Zenon
<1>4. ASSUME NEW m \in T PROVE n <= m
  <2>1. m \in Nat /\ n \in Nat /\ <<m, n>> \in Nat \X Nat
    OBVIOUS
  <2>2. ~(m < n)
    BY <2>1, <1>3, SMT DEF Below
  <2> QED
    BY <2>1, <2>2
<1> QED
  BY <1>4

LEMMA Induction ==
  ASSUME NEW S, 0 \in S, \A n \in Nat : n \in S => n + 1 \in S
  PROVE  Nat \subseteq S
<1> SUFFICES ASSUME Nat \ S # {} PROVE FALSE
  OBVIOUS
<1>1. PICK n \in Nat \ S : \A m \in Nat \ S : n <= m
  BY Least
<1>2. n - 1 \in Nat /\ n - 1 \in S
  BY <1>1
<1> QED
  BY <1>1, <1>2

-----------------------------------------------------------------------------
(* The bytes of a sequence of items. *)

Weight(item) == Size[item.response]

(* The function FoldLeft adds the items up with. *)
Adds(iter, items, indices) ==
  iter = [s \in SUBSET indices |->
            IF s = {} THEN 0 ELSE iter[s \ {Max(s)}] + Weight(items[Max(s)])]

LEMMA TotalIs ==
  ASSUME NEW items
  PROVE  Total(items) = (CHOOSE iter : Adds(iter, items, DOMAIN items))[DOMAIN items]
BY Zenon DEF Total, FoldLeft, MapThenFoldSet, Adds, Weight

LEMMA WeightType == \A item \in Items : Weight(item) \in Nat \ {0}
BY DEF Items, Weight

LEMMA MaxOfInterval == ASSUME NEW n \in Nat, NEW s \in SUBSET (1..n), n \in s
                       PROVE  Max(s) = n
<1>1. \A y \in s : n >= y
  OBVIOUS
<1>2. \A x \in s : (\A y \in s : x >= y) => x = n
  OBVIOUS
<1> QED
  BY <1>1, <1>2, Zenon DEF Max

(* It exists, for the beginnings of the sequence one after the other. *)
LEMMA AddsExtends ==
  ASSUME NEW items, NEW n \in Nat, NEW h, Adds(h, items, 1..n)
  PROVE  \E g : Adds(g, items, 1..n + 1)
<1> DEFINE g == [s \in SUBSET (1..n + 1) |->
                   IF n + 1 \in s THEN h[s \ {n + 1}] + Weight(items[n + 1]) ELSE h[s]]
           sum == [s \in SUBSET (1..n + 1) |->
                     IF s = {} THEN 0 ELSE g[s \ {Max(s)}] + Weight(items[Max(s)])]
<1>1. ASSUME NEW s \in SUBSET (1..n + 1), n + 1 \in s
      PROVE  g[s] = sum[s]
  <2>1. Max(s) = n + 1
    BY <1>1, MaxOfInterval
  <2>2. s \ {n + 1} \in SUBSET (1..n + 1) /\ n + 1 \notin s \ {n + 1} /\ s # {}
    BY <1>1
  <2>3. g[s \ {n + 1}] = h[s \ {n + 1}]
    BY <2>2
  <2>4. sum[s] = g[s \ {n + 1}] + Weight(items[n + 1])
    BY <2>1, <2>2
  <2> QED
    BY <2>3, <2>4, <1>1
<1>2. ASSUME NEW s \in SUBSET (1..n + 1), n + 1 \notin s
      PROVE  g[s] = sum[s]
  <2>1. s \in SUBSET (1..n)
    BY <1>2
  <2>2. h[s] = IF s = {} THEN 0 ELSE h[s \ {Max(s)}] + Weight(items[Max(s)])
    BY <2>1 DEF Adds
  <2>3. s \ {Max(s)} \in SUBSET (1..n + 1) /\ n + 1 \notin s \ {Max(s)}
    BY <1>2
  <2>4. g[s \ {Max(s)}] = h[s \ {Max(s)}]
    BY <2>3
  <2>5. g[s] = h[s]
    BY <1>2
  <2>6. sum[s] = IF s = {} THEN 0 ELSE g[s \ {Max(s)}] + Weight(items[Max(s)])
    OBVIOUS
  <2> HIDE DEF g, sum
  <2> QED
    BY <2>2, <2>4, <2>5, <2>6
<1>3. \A s \in SUBSET (1..n + 1) : g[s] = sum[s]
  BY <1>1, <1>2
<1>4. g = sum
  <2>1. g = [s \in SUBSET (1..n + 1) |-> g[s]]
    OBVIOUS
  <2>2. sum = [s \in SUBSET (1..n + 1) |-> sum[s]]
    OBVIOUS
  <2> HIDE DEF g, sum
  <2> QED
    BY <1>3, <2>1, <2>2
<1>5. Adds(g, items, 1..n + 1)
  BY <1>4, Zenon DEF Adds
<1> QED
  BY <1>5

LEMMA AddsExists ==
  ASSUME NEW items, NEW n \in Nat
  PROVE  \E h : Adds(h, items, 1..n)
<1> DEFINE S == {k \in Nat : \E h : Adds(h, items, 1..k)}
<1>1. 0 \in S
  <2> DEFINE h == [s \in SUBSET (1..0) |-> 0]
  <2>1. 1..0 = {}
    OBVIOUS
  <2>2. \A s \in SUBSET (1..0) : s = {}
    BY <2>1
  <2>3. h = [s \in SUBSET (1..0) |->
               IF s = {} THEN 0 ELSE h[s \ {Max(s)}] + Weight(items[Max(s)])]
    BY <2>2
  <2>4. Adds(h, items, 1..0)
    BY <2>3, Zenon DEF Adds
  <2> QED
    BY <2>4
<1>2. \A k \in Nat : k \in S => k + 1 \in S
  BY AddsExtends
<1>3. Nat \subseteq S
  <2> HIDE DEF S
  <2> QED
    BY <1>1, <1>2, Induction
<1> QED
  BY <1>3

(* So what FoldLeft adds up can be followed from beginning to beginning.   *)
Sums(items) == CHOOSE iter : Adds(iter, items, DOMAIN items)

LEMMA SumsStep ==
  ASSUME NEW items \in Seq(Items)
  PROVE  /\ Total(items) = Sums(items)[1..Len(items)]
         /\ Sums(items)[1..0] = 0
         /\ \A k \in 1..Len(items) :
              Sums(items)[1..k] = Sums(items)[1..k - 1] + Weight(items[k])
<1>1. PICK h : h = Sums(items)
  OBVIOUS
<1>2. DOMAIN items = 1..Len(items) /\ Len(items) \in Nat
  OBVIOUS
<1>3. Adds(h, items, 1..Len(items))
  BY <1>1, <1>2, AddsExists, Zenon DEF Sums
<1>4. ASSUME NEW s \in SUBSET (1..Len(items))
      PROVE  h[s] = IF s = {} THEN 0 ELSE h[s \ {Max(s)}] + Weight(items[Max(s)])
  BY <1>3, Zenon DEF Adds
<1>5. h[1..0] = 0
  <2>1. 1..0 = {} /\ {} \in SUBSET (1..Len(items))
    OBVIOUS
  <2> QED
    BY <2>1, <1>4
<1>6. ASSUME NEW k \in 1..Len(items)
      PROVE  h[1..k] = h[1..k - 1] + Weight(items[k])
  <2>1. k \in Nat /\ 1..k \in SUBSET (1..k) /\ k \in 1..k
    OBVIOUS
  <2>2. Max(1..k) = k
    BY <2>1, MaxOfInterval
  <2>3. 1..k \in SUBSET (1..Len(items)) /\ 1..k # {}
    <3>1. \A j \in 1..k : j \in 1..Len(items)
      BY <1>2, <2>1
    <3> QED
      BY <3>1, <2>1
  <2>4. (1..k) \ {k} = 1..k - 1
    OBVIOUS
  <2> QED
    BY <2>2, <2>3, <2>4, <1>4
<1> QED
  BY <1>1, <1>2, <1>5, <1>6, TotalIs, Zenon DEF Sums

LEMMA SumsType ==
  ASSUME NEW items \in Seq(Items), NEW k \in 0..Len(items)
  PROVE  Sums(items)[1..k] \in Nat
<1>1. PICK h : h = Sums(items)
  OBVIOUS
<1> DEFINE S == {n \in Nat : n <= Len(items) => h[1..n] \in Nat}
<1>2. 0 \in S
  BY <1>1, SumsStep
<1>3. ASSUME NEW n \in Nat, n \in S PROVE n + 1 \in S
  <2> SUFFICES ASSUME n + 1 <= Len(items) PROVE h[1..n + 1] \in Nat
    OBVIOUS
  <2>1. n + 1 \in 1..Len(items) /\ (n + 1) - 1 = n
    OBVIOUS
  <2>2. h[1..n + 1] = h[1..n] + Weight(items[n + 1])
    BY <2>1, <1>1, SumsStep
  <2>3. h[1..n] \in Nat
    BY <1>3, <2>1
  <2>4. Weight(items[n + 1]) \in Nat
    BY <2>1, WeightType, ElementOfSeq
  <2> QED
    BY <2>2, <2>3, <2>4
<1>4. Nat \subseteq S
  <2> HIDE DEF S
  <2> QED
    BY <1>2, <1>3, Induction
<1>5. k \in Nat /\ k <= Len(items)
  OBVIOUS
<1> QED
  BY <1>1, <1>4, <1>5

LEMMA TotalType == \A items \in Seq(Items) : Total(items) \in Nat
BY SumsStep, SumsType, LenProperties

LEMMA TotalEmpty == Total(<<>>) = 0
<1>1. <<>> \in Seq(Items) /\ Len(<<>>) = 0
  BY EmptySeq
<1> QED
  BY <1>1, SumsStep

LEMMA TotalAppend ==
  ASSUME NEW items \in Seq(Items), NEW x \in Items
  PROVE  Total(Append(items, x)) = Total(items) + Weight(x)
<1>1. PICK grown : grown = Append(items, x)
  OBVIOUS
<1>2. /\ grown \in Seq(Items) /\ Len(grown) = Len(items) + 1 /\ Len(items) \in Nat
      /\ \A i \in 1..Len(items) : grown[i] = items[i]
      /\ grown[Len(items) + 1] = x
  BY <1>1
<1>3. PICK h, g : h = Sums(items) /\ g = Sums(grown)
  OBVIOUS
<1> DEFINE S == {n \in Nat : n <= Len(items) => h[1..n] = g[1..n]}
<1>4. 0 \in S
  BY <1>2, <1>3, SumsStep
<1>5. ASSUME NEW n \in Nat, n \in S PROVE n + 1 \in S
  <2> SUFFICES ASSUME n + 1 <= Len(items) PROVE h[1..n + 1] = g[1..n + 1]
    OBVIOUS
  <2>1. n + 1 \in 1..Len(items) /\ n + 1 \in 1..Len(grown) /\ (n + 1) - 1 = n
    BY <1>2
  <2>2. h[1..n + 1] = h[1..n] + Weight(items[n + 1])
    BY <2>1, <1>3, SumsStep
  <2>3. g[1..n + 1] = g[1..n] + Weight(grown[n + 1])
    BY <2>1, <1>2, <1>3, SumsStep
  <2> QED
    BY <2>1, <2>2, <2>3, <1>2, <1>5
<1>6. Nat \subseteq S
  <2> HIDE DEF S
  <2> QED
    BY <1>4, <1>5, Induction
<1>7. h[1..Len(items)] = g[1..Len(items)]
  BY <1>2, <1>6
<1>8. Len(grown) \in 1..Len(grown) /\ Len(grown) - 1 = Len(items)
  BY <1>2
<1>9. g[1..Len(grown)] = g[1..Len(items)] + Weight(grown[Len(grown)])
  BY <1>8, <1>2, <1>3, SumsStep
<1> QED
  BY <1>1, <1>2, <1>3, <1>7, <1>9, SumsStep

LEMMA TotalConcat ==
  ASSUME NEW s \in Seq(Items), NEW t \in Seq(Items)
  PROVE  Total(s \o t) = Total(s) + Total(t)
<1> DEFINE S == {n \in Nat : \A u \in Seq(Items) :
                               Len(u) = n => Total(s \o u) = Total(s) + Total(u)}
<1>1. 0 \in S
  <2> SUFFICES ASSUME NEW u \in Seq(Items), Len(u) = 0
               PROVE  Total(s \o u) = Total(s) + Total(u)
    OBVIOUS
  <2>1. u = <<>> /\ s \o u = s
    BY EmptySeq, ConcatEmptySeq
  <2> QED
    BY <2>1, TotalEmpty, TotalType
<1>2. ASSUME NEW n \in Nat, n \in S PROVE n + 1 \in S
  <2> SUFFICES ASSUME NEW u \in Seq(Items), Len(u) = n + 1
               PROVE  Total(s \o u) = Total(s) + Total(u)
    OBVIOUS
  <2>1. PICK v \in Seq(Items), x \in Items : u = Append(v, x)
    <3>1. u # <<>>
      OBVIOUS
    <3> QED
      BY <3>1, SequenceEmptyOrAppend
  <2>2. Len(v) = n /\ s \o v \in Seq(Items)
    BY <2>1
  <2>3. s \o u = Append(s \o v, x)
    BY <2>1
  <2>4. Total(s \o u) = Total(s \o v) + Weight(x)
    BY <2>2, <2>3, TotalAppend
  <2>5. Total(u) = Total(v) + Weight(x)
    BY <2>1, TotalAppend
  <2>6. Total(s \o v) = Total(s) + Total(v)
    BY <1>2, <2>2
  <2>7. Total(s) \in Nat /\ Total(v) \in Nat /\ Weight(x) \in Nat
    BY TotalType, WeightType
  <2> QED
    BY <2>4, <2>5, <2>6, <2>7
<1>3. Nat \subseteq S
  <2> HIDE DEF S
  <2> QED
    BY <1>1, <1>2, Induction
<1>4. Len(t) \in Nat
  OBVIOUS
<1> QED
  BY <1>3, <1>4

-----------------------------------------------------------------------------
(* The sum of a function over a finite set.                                *)

Sum(f, S) == SumFunctionOnSet(f, S)

Some(s) == CHOOSE x \in s : TRUE

(* The function FoldFunctionOnSet adds the values up with, on some sets. *)
Gathers(h, f, sets) ==
  h = [s \in sets |-> IF s = {} THEN 0 ELSE f[Some(s)] + h[s \ {Some(s)}]]

Gathered(h, f, S) == Gathers(h, f, SUBSET S)

LEMMA SumIs ==
  ASSUME NEW f, NEW S
  PROVE  Sum(f, S) = (CHOOSE h : Gathered(h, f, S))[S]
BY Zenon DEF Gathered, Sum, SumFunctionOnSet, FoldFunctionOnSet, MapThenFoldSet, Gathers, Some

LEMMA SomeOf == ASSUME NEW s, s # {} PROVE Some(s) \in s
BY DEF Some

(* The sets of at most n elements. *)
Small(S, n) == {s \in SUBSET S : Cardinality(s) <= n}

LEMMA GathersExtends ==
  ASSUME NEW f, NEW S, IsFiniteSet(S), NEW n \in Nat, NEW h, Gathers(h, f, Small(S, n))
  PROVE  \E g : Gathers(g, f, Small(S, n + 1))
<1> DEFINE g == [s \in Small(S, n + 1) |->
                   IF s = {} THEN 0 ELSE f[Some(s)] + h[s \ {Some(s)}]]
           sum == [s \in Small(S, n + 1) |->
                     IF s = {} THEN 0 ELSE f[Some(s)] + g[s \ {Some(s)}]]
<1>1. ASSUME NEW s \in Small(S, n + 1), s # {}
      PROVE  s \ {Some(s)} \in Small(S, n) /\ s \ {Some(s)} \in Small(S, n + 1)
  <2>1. IsFiniteSet(s) /\ s \in SUBSET S /\ Cardinality(s) <= n + 1
    BY FS_Subset DEF Small
  <2>2. Cardinality(s \ {Some(s)}) = Cardinality(s) - 1 /\ Cardinality(s) \in Nat
    BY <2>1, <1>1, SomeOf, FS_RemoveElement, FS_CardinalityType
  <2> QED
    BY <2>1, <2>2 DEF Small
<1>2. ASSUME NEW s \in Small(S, n) PROVE g[s] = h[s]
  <2>1. s \in Small(S, n + 1)
    <3>1. Cardinality(s) \in Nat
      BY FS_Subset, FS_CardinalityType DEF Small
    <3> QED
      BY <3>1 DEF Small
  <2>2. h[s] = IF s = {} THEN 0 ELSE f[Some(s)] + h[s \ {Some(s)}]
    BY Zenon DEF Gathers
  <2> QED
    BY <2>1, <2>2
<1>3. ASSUME NEW s \in Small(S, n + 1) PROVE g[s] = sum[s]
  BY <1>1, <1>2
<1>4. g = sum
  <2>1. g = [s \in Small(S, n + 1) |-> g[s]]
    OBVIOUS
  <2>2. sum = [s \in Small(S, n + 1) |-> sum[s]]
    OBVIOUS
  <2> HIDE DEF g, sum
  <2> QED
    BY <1>3, <2>1, <2>2
<1>5. Gathers(g, f, Small(S, n + 1))
  BY <1>4, Zenon DEF Gathers
<1> QED
  BY <1>5

LEMMA GathersExists ==
  ASSUME NEW f, NEW S, IsFiniteSet(S)
  PROVE  \E h : Gathered(h, f, S)
<1> DEFINE K == {n \in Nat : \E h : Gathers(h, f, Small(S, n))}
<1>1. 0 \in K
  <2> DEFINE h == [s \in Small(S, 0) |-> 0]
  <2>1. ASSUME NEW s \in Small(S, 0) PROVE s = {}
    <3>1. IsFiniteSet(s) /\ Cardinality(s) <= 0
      BY FS_Subset DEF Small
    <3>2. Cardinality(s) = 0
      BY <3>1, FS_CardinalityType
    <3> QED
      BY <3>1, <3>2, FS_EmptySet
  <2>2. h = [s \in Small(S, 0) |-> IF s = {} THEN 0 ELSE f[Some(s)] + h[s \ {Some(s)}]]
    BY <2>1
  <2>3. Gathers(h, f, Small(S, 0))
    BY <2>2, Zenon DEF Gathers
  <2> QED
    BY <2>3
<1>2. \A n \in Nat : n \in K => n + 1 \in K
  BY GathersExtends
<1>3. Nat \subseteq K
  <2> HIDE DEF K
  <2> QED
    BY <1>1, <1>2, Induction
<1>4. Cardinality(S) \in Nat
  BY FS_CardinalityType
<1>5. Small(S, Cardinality(S)) = SUBSET S
  BY FS_Subset DEF Small
<1>6. PICK h : Gathers(h, f, Small(S, Cardinality(S)))
  BY <1>3, <1>4
<1> QED
  BY <1>5, <1>6, Zenon DEF Gathered

LEMMA GathersUnique ==
  ASSUME NEW f, NEW S, IsFiniteSet(S), NEW T, T \subseteq S,
         NEW h, Gathered(h, f, S), NEW g, Gathered(g, f, T)
  PROVE  h[T] = g[T]
<1> DEFINE K == {n \in Nat : \A s \in SUBSET T : Cardinality(s) = n => h[s] = g[s]}
<1>1. ASSUME NEW s \in SUBSET T
      PROVE  /\ h[s] = IF s = {} THEN 0 ELSE f[Some(s)] + h[s \ {Some(s)}]
             /\ g[s] = IF s = {} THEN 0 ELSE f[Some(s)] + g[s \ {Some(s)}]
  <2>1. s \in SUBSET S
    OBVIOUS
  <2> QED
    BY <2>1, Zenon DEF Gathered, Gathers
<1>2. \A s \in SUBSET T : IsFiniteSet(s) /\ Cardinality(s) \in Nat
  BY FS_Subset, FS_CardinalityType
<1>3. 0 \in K
  BY <1>1, <1>2, FS_EmptySet
<1>4. ASSUME NEW n \in Nat, n \in K PROVE n + 1 \in K
  <2> SUFFICES ASSUME NEW s \in SUBSET T, Cardinality(s) = n + 1 PROVE h[s] = g[s]
    OBVIOUS
  <2>1. s # {}
    <3>1. n + 1 # 0
      OBVIOUS
    <3> QED
      BY <3>1, FS_EmptySet
  <2>2. Cardinality(s \ {Some(s)}) = n
    BY <2>1, <1>2, SomeOf, FS_RemoveElement
  <2>3. h[s \ {Some(s)}] = g[s \ {Some(s)}]
    BY <1>4, <2>2
  <2> QED
    BY <2>1, <2>3, <1>1
<1>5. Nat \subseteq K
  <2> HIDE DEF K
  <2> QED
    BY <1>3, <1>4, Induction
<1> QED
  BY <1>2, <1>5

LEMMA SumEmpty == ASSUME NEW f PROVE Sum(f, {}) = 0
<1>1. PICK h : h = CHOOSE g : Gathered(g, f, {})
  OBVIOUS
<1>2. Gathered(h, f, {})
  BY <1>1, GathersExists, FS_EmptySet, Zenon
<1>3. h[{}] = 0
  BY <1>2 DEF Gathered, Gathers
<1> QED
  BY <1>1, <1>3, SumIs

LEMMA SumChosen ==
  ASSUME NEW f, NEW S, IsFiniteSet(S), S # {}
  PROVE  Sum(f, S) = f[Some(S)] + Sum(f, S \ {Some(S)})
<1>1. PICK rest : rest = S \ {Some(S)}
  OBVIOUS
<1>2. PICK h, g : /\ h = CHOOSE i : Gathered(i, f, S)
                  /\ g = CHOOSE i : Gathered(i, f, rest)
  OBVIOUS
<1>3. rest \in SUBSET S /\ IsFiniteSet(rest)
  BY <1>1, FS_Subset
<1>4. Gathered(h, f, S) /\ Gathered(g, f, rest)
  BY <1>2, <1>3, GathersExists, Zenon
<1>5. h[rest] = g[rest]
  <2>1. rest \subseteq S
    BY <1>1
  <2> QED
    BY <2>1, <1>4, GathersUnique
<1>6. h[S] = f[Some(S)] + h[S \ {Some(S)}]
  <2>1. S \in SUBSET S
    OBVIOUS
  <2> QED
    BY <2>1, <1>4, Zenon DEF Gathered, Gathers
<1> QED
  BY <1>1, <1>2, <1>5, <1>6, SumIs

LEMMA SumType ==
  ASSUME NEW D, NEW f \in [D -> Nat], NEW S \in SUBSET D, IsFiniteSet(S)
  PROVE  Sum(f, S) \in Nat
<1> DEFINE K == {n \in Nat : \A s \in SUBSET S : Cardinality(s) = n => Sum(f, s) \in Nat}
<1>1. \A s \in SUBSET S : IsFiniteSet(s) /\ Cardinality(s) \in Nat
  BY FS_Subset, FS_CardinalityType
<1>2. 0 \in K
  BY <1>1, FS_EmptySet, SumEmpty
<1>3. ASSUME NEW n \in Nat, n \in K PROVE n + 1 \in K
  <2> SUFFICES ASSUME NEW s \in SUBSET S, Cardinality(s) = n + 1 PROVE Sum(f, s) \in Nat
    OBVIOUS
  <2>1. s # {}
    <3>1. n + 1 # 0
      OBVIOUS
    <3> QED
      BY <3>1, FS_EmptySet
  <2>2. Cardinality(s \ {Some(s)}) = n /\ Some(s) \in D
    BY <2>1, <1>1, SomeOf, FS_RemoveElement
  <2>3. Sum(f, s \ {Some(s)}) \in Nat /\ f[Some(s)] \in Nat
    BY <1>3, <2>2
  <2> QED
    BY <2>1, <2>3, <1>1, SumChosen
<1>4. Nat \subseteq K
  <2> HIDE DEF K
  <2> QED
    BY <1>2, <1>3, Induction
<1> QED
  BY <1>1, <1>4

(* Whichever element is taken out first. *)
LEMMA SumRemove ==
  ASSUME NEW D, NEW f \in [D -> Nat], NEW S \in SUBSET D, IsFiniteSet(S), NEW x \in S
  PROVE  Sum(f, S) = f[x] + Sum(f, S \ {x})
<1> DEFINE K == {n \in Nat : \A s \in SUBSET S : Cardinality(s) = n =>
                   \A y \in s : Sum(f, s) = f[y] + Sum(f, s \ {y})}
<1>1. \A s \in SUBSET S : IsFiniteSet(s) /\ Cardinality(s) \in Nat
  BY FS_Subset, FS_CardinalityType
<1>2. 0 \in K
  BY <1>1, FS_EmptySet
<1>3. ASSUME NEW n \in Nat, n \in K PROVE n + 1 \in K
  <2> SUFFICES ASSUME NEW s \in SUBSET S, Cardinality(s) = n + 1, NEW y \in s
               PROVE  Sum(f, s) = f[y] + Sum(f, s \ {y})
    OBVIOUS
  <2>1. PICK c : c = Some(s)
    OBVIOUS
  <2>2. c \in s /\ s # {}
    BY <2>1, SomeOf
  <2>3. Sum(f, s) = f[c] + Sum(f, s \ {c})
    BY <2>1, <2>2, <1>1, SumChosen
  <2>4. CASE y = c
    BY <2>3, <2>4
  <2>5. CASE y # c
    <3>1. Cardinality(s \ {c}) = n /\ Cardinality(s \ {y}) = n
      BY <2>2, <1>1, FS_RemoveElement
    <3>2. Sum(f, s \ {c}) = f[y] + Sum(f, (s \ {c}) \ {y})
      <4>1. s \ {c} \in SUBSET S /\ y \in s \ {c}
        BY <2>5
      <4> QED
        BY <4>1, <3>1, <1>3
    <3>3. Sum(f, s \ {y}) = f[c] + Sum(f, (s \ {y}) \ {c})
      <4>1. s \ {y} \in SUBSET S /\ c \in s \ {y}
        BY <2>2, <2>5
      <4> QED
        BY <4>1, <3>1, <1>3
    <3>4. PICK rest : rest = (s \ {c}) \ {y}
      OBVIOUS
    <3>5. (s \ {y}) \ {c} = rest /\ rest \in SUBSET S
      BY <3>4
    <3>6. Sum(f, rest) \in Nat /\ f[c] \in Nat /\ f[y] \in Nat
      <4>1. rest \in SUBSET D /\ c \in D /\ y \in D
        BY <3>5, <2>2
      <4> QED
        BY <4>1, <3>5, <1>1, SumType
    <3>7. Sum(f, s) = f[c] + (f[y] + Sum(f, rest)) /\ Sum(f, s \ {y}) = f[c] + Sum(f, rest)
      BY <2>3, <3>2, <3>3, <3>4, <3>5
    <3> QED
      BY <3>6, <3>7
  <2> QED
    BY <2>4, <2>5
<1>4. Nat \subseteq K
  <2> HIDE DEF K
  <2> QED
    BY <1>2, <1>3, Induction
<1>5. S \in SUBSET S
  OBVIOUS
<1> QED
  BY <1>1, <1>4, <1>5

-----------------------------------------------------------------------------
(* What a hit and an eviction do to the items.                             *)

Distinct(items) == \A i, j \in DOMAIN items : items[i].id = items[j].id => i = j

LEMMA PartType ==
  ASSUME NEW items \in Seq(Items), NEW l \in 1..Len(items) + 1
  PROVE  /\ SubSeq(items, l, Len(items)) \in Seq(Items)
         /\ Len(SubSeq(items, l, Len(items))) = Len(items) - l + 1
         /\ \A j \in 1..Len(items) - l + 1 :
              SubSeq(items, l, Len(items))[j] = items[l + j - 1]
BY DOMAIN items = 1..Len(items), Len(items) \in Nat

LEMMA FrontType ==
  ASSUME NEW items \in Seq(Items), NEW l \in 1..Len(items) + 1
  PROVE  /\ SubSeq(items, 1, l - 1) \in Seq(Items)
         /\ Len(SubSeq(items, 1, l - 1)) = l - 1
         /\ \A j \in 1..l - 1 : SubSeq(items, 1, l - 1)[j] = items[j]
BY DOMAIN items = 1..Len(items), Len(items) \in Nat

LEMMA TotalSplit ==
  ASSUME NEW items \in Seq(Items), NEW l \in 1..Len(items) + 1
  PROVE  Total(items) = Total(SubSeq(items, 1, l - 1)) + Total(SubSeq(items, l, Len(items)))
<1>1. PICK s, t : s = SubSeq(items, 1, l - 1) /\ t = SubSeq(items, l, Len(items))
  OBVIOUS
<1>2. s \in Seq(Items) /\ t \in Seq(Items)
  BY <1>1, FrontType, PartType
<1>3. s \o t = items
  <2>1. Len(s) = l - 1 /\ Len(t) = Len(items) - l + 1 /\ Len(items) \in Nat
    BY <1>1, FrontType, PartType, LenProperties
  <2>2. s \o t \in Seq(Items) /\ Len(s \o t) = Len(items)
    BY <1>2, <2>1
  <2>3. ASSUME NEW j \in 1..Len(items) PROVE (s \o t)[j] = items[j]
    <3>1. CASE j <= l - 1
      <4>1. s[j] = items[j]
        BY <1>1, <3>1, FrontType
      <4> QED
        BY <1>2, <2>1, <3>1, <4>1
    <3>2. CASE j > l - 1
      <4>1. j - (l - 1) \in 1..Len(items) - l + 1 /\ l + (j - (l - 1)) - 1 = j
        BY <2>1, <3>2
      <4>2. t[j - (l - 1)] = items[j]
        BY <1>1, <4>1, PartType
      <4> QED
        BY <1>2, <2>1, <3>2, <4>1, <4>2
    <3> QED
      BY <3>1, <3>2, <2>1
  <2> QED
    BY <2>2, <2>3, SeqEqual
<1> QED
  BY <1>1, <1>2, <1>3, TotalConcat

LEMMA TotalFirst ==
  ASSUME NEW items \in Seq(Items), NEW l \in 1..Len(items)
  PROVE  Total(SubSeq(items, l, Len(items)))
           = Weight(items[l]) + Total(SubSeq(items, l + 1, Len(items)))
<1>1. PICK n : n = Len(items)
  OBVIOUS
<1>2. PICK s, t, u, v : /\ s = SubSeq(items, 1, l - 1) /\ t = SubSeq(items, l, n)
                        /\ u = SubSeq(items, 1, l) /\ v = SubSeq(items, l + 1, n)
  OBVIOUS
<1>3. l \in 1..n + 1 /\ l + 1 \in 1..n + 1 /\ (l + 1) - 1 = l /\ n \in Nat /\ items[l] \in Items
  BY <1>1
<1>4. Total(items) = Total(s) + Total(t) /\ Total(items) = Total(u) + Total(v)
  BY <1>1, <1>2, <1>3, TotalSplit
<1>5. /\ s \in Seq(Items) /\ Len(s) = l - 1 /\ \A j \in 1..l - 1 : s[j] = items[j]
      /\ u \in Seq(Items) /\ Len(u) = l /\ \A j \in 1..l : u[j] = items[j]
      /\ t \in Seq(Items) /\ v \in Seq(Items)
  BY <1>1, <1>2, <1>3, FrontType, PartType
<1>6. u = Append(s, items[l])
  <2>1. Append(s, items[l]) \in Seq(Items) /\ Len(Append(s, items[l])) = l
    BY <1>3, <1>5
  <2>2. \A j \in 1..l : Append(s, items[l])[j] = u[j]
    BY <1>3, <1>5
  <2> QED
    BY <2>1, <2>2, <1>5, SeqEqual
<1>7. Total(u) = Total(s) + Weight(items[l])
  BY <1>3, <1>5, <1>6, TotalAppend
<1>8. /\ Total(s) \in Nat /\ Total(t) \in Nat /\ Total(u) \in Nat /\ Total(v) \in Nat
      /\ Weight(items[l]) \in Nat
  BY <1>3, <1>5, TotalType, WeightType
<1>9. Total(t) = Weight(items[l]) + Total(v)
  <2>1. PICK a, b, c, d, w : /\ a = Total(s) /\ b = Total(t) /\ c = Total(u) /\ d = Total(v)
                             /\ w = Weight(items[l])
    OBVIOUS
  <2>2. a + b = c + d /\ c = a + w
    BY <2>1, <1>4, <1>7
  <2>3. a \in Nat /\ b \in Nat /\ c \in Nat /\ d \in Nat /\ w \in Nat
    BY <2>1, <1>8
  <2>4. b = w + d
    BY <2>2, <2>3
  <2> QED
    BY <2>1, <2>4
<1> QED
  BY <1>1, <1>2, <1>9

(* move_to_end keeps the items and their bytes. *)
LEMMA Touched ==
  ASSUME NEW items \in Seq(Items), NEW i \in DOMAIN items, NEW moved, moved = Touch(items, i)
  PROVE  /\ moved \in Seq(Items) /\ Len(moved) = Len(items)
         /\ \A j \in 1..Len(items) :
              moved[j] = IF j < i THEN items[j]
                         ELSE IF j < Len(items) THEN items[j + 1] ELSE items[i]
         /\ Total(moved) = Total(items)
<1>1. PICK s, t : s = SubSeq(items, 1, i - 1) /\ t = SubSeq(items, i + 1, Len(items))
  OBVIOUS
<1>2. i \in 1..Len(items) /\ Len(items) \in Nat /\ items[i] \in Items
  OBVIOUS
<1>3. /\ s \in Seq(Items) /\ Len(s) = i - 1 /\ \A j \in 1..i - 1 : s[j] = items[j]
  BY <1>1, <1>2, FrontType
<1>4. /\ t \in Seq(Items) /\ Len(t) = Len(items) - i
      /\ \A j \in 1..Len(items) - i : t[j] = items[i + j]
  <2>1. i + 1 \in 1..Len(items) + 1
    BY <1>2
  <2>2. /\ t \in Seq(Items) /\ Len(t) = Len(items) - (i + 1) + 1
        /\ \A j \in 1..Len(items) - (i + 1) + 1 : t[j] = items[(i + 1) + j - 1]
    BY <1>1, <2>1, PartType
  <2> QED
    BY <1>2, <2>2
<1>5. moved = Append(s \o t, items[i])
  BY <1>1, Zenon DEF Touch, RemoveAt
<1>6. s \o t \in Seq(Items) /\ Len(s \o t) = Len(items) - 1
  BY <1>2, <1>3, <1>4
<1>7. moved \in Seq(Items) /\ Len(moved) = Len(items)
  BY <1>2, <1>5, <1>6
<1>8. ASSUME NEW j \in 1..Len(items)
      PROVE  moved[j] = IF j < i THEN items[j]
                        ELSE IF j < Len(items) THEN items[j + 1] ELSE items[i]
  <2>1. CASE j < i
    <3>1. s[j] = items[j] /\ (s \o t)[j] = s[j]
      BY <2>1, <1>2, <1>3, <1>4
    <3> QED
      BY <3>1, <2>1, <1>2, <1>5, <1>6
  <2>2. CASE ~(j < i) /\ j < Len(items)
    <3>1. j - (i - 1) \in 1..Len(items) - i /\ i + (j - (i - 1)) = j + 1
      BY <2>2, <1>2
    <3>2. t[j - (i - 1)] = items[j + 1]
      BY <3>1, <1>4
    <3>3. (s \o t)[j] = t[j - (i - 1)]
      <4>1. j \in 1..Len(s) + Len(t) /\ j > Len(s) /\ j - Len(s) = j - (i - 1)
        BY <2>2, <1>2, <1>3, <1>4
      <4> QED
        BY <4>1, <1>3, <1>4, ConcatProperties
    <3>4. moved[j] = (s \o t)[j]
      BY <2>2, <1>2, <1>5, <1>6
    <3> QED
      BY <3>2, <3>3, <3>4, <2>2
  <2>3. CASE j = Len(items)
    BY <2>3, <1>2, <1>5, <1>6
  <2> QED
    BY <2>1, <2>2, <2>3, <1>2
<1>9. Total(moved) = Total(items)
  <2>1. PICK u : u = SubSeq(items, i, Len(items))
    OBVIOUS
  <2>2. u \in Seq(Items) /\ Len(u) = Len(items) - i + 1
    BY <2>1, <1>2, PartType
  <2>3. Total(items) = Total(s) + Total(u)
    BY <1>1, <2>1, <1>2, TotalSplit
  <2>4. Total(u) = Weight(items[i]) + Total(t)
    BY <1>1, <2>1, <1>2, TotalFirst
  <2>5. Total(moved) = Total(s) + Total(t) + Weight(items[i])
    BY <1>2, <1>3, <1>4, <1>5, <1>6, TotalAppend, TotalConcat
  <2>6. Total(s) \in Nat /\ Total(t) \in Nat /\ Weight(items[i]) \in Nat
    BY <1>2, <1>3, <1>4, TotalType, WeightType
  <2> QED
    BY <2>3, <2>4, <2>5, <2>6
<1> QED
  BY <1>7, <1>8, <1>9

(* popitem stops at the first suffix that fits. *)
LEMMA Evicted ==
  ASSUME NEW items \in Seq(Items), NEW kept, kept = Evict(items)
  PROVE  /\ Fits(kept)
         /\ \E l \in 1..Len(items) + 1 :
              /\ kept = SubSeq(items, l, Len(items))
              /\ \A k \in 1..Len(items) + 1 : Fits(SubSeq(items, k, Len(items))) => l <= k
<1>1. PICK n : n = Len(items)
  OBVIOUS
<1>2. n \in Nat /\ SubSeq(items, n + 1, n) = <<>>
  <2>1. Len(SubSeq(items, n + 1, n)) = 0 /\ SubSeq(items, n + 1, n) \in Seq(Items)
    BY <1>1, PartType
  <2> QED
    BY <2>1, <1>1, EmptySeq
<1>3. Fits(<<>>)
  BY TotalEmpty, EmptySeq DEF Fits
<1> DEFINE F == {k \in 1..n + 1 : Fits(SubSeq(items, k, n))}
<1>4. F \subseteq Nat /\ n + 1 \in F
  <2>1. Fits(SubSeq(items, n + 1, n))
    BY <1>2, <1>3, Zenon
  <2> QED
    BY <2>1, <1>2
<1>5. PICK l \in F : \A k \in F : l <= k
  <2>1. F # {}
    BY <1>4
  <2> HIDE DEF F
  <2> QED
    BY <1>4, <2>1, Least
<1>6. \A k \in 1..n + 1 : Len(SubSeq(items, k, n)) = n - k + 1
  BY <1>1, PartType
<1>7. Suffixes(items) = {SubSeq(items, k, n) : k \in 1..n + 1}
  <2>1. 1..n + 1 = (1..n) \cup {n + 1}
    BY <1>2
  <2>2. Suffixes(items) = {SubSeq(items, k, n) : k \in 1..n} \cup {SubSeq(items, n + 1, n)}
    BY <1>1, <1>2, Zenon DEF Suffixes
  <2> QED
    BY <2>1, <2>2
<1>8. PICK best : best = SubSeq(items, l, n)
  OBVIOUS
<1>9. /\ best \in Suffixes(items) /\ Fits(best)
      /\ \A t \in Suffixes(items) : Fits(t) => Len(t) <= Len(best)
  <2>1. ASSUME NEW k \in 1..n + 1, Fits(SubSeq(items, k, n))
        PROVE  Len(SubSeq(items, k, n)) <= Len(best)
    <3>1. l <= k
      BY <2>1, <1>5
    <3> QED
      BY <3>1, <1>2, <1>6, <1>8
  <2> QED
    BY <2>1, <1>7, <1>8
<1>10. /\ kept \in Suffixes(items) /\ Fits(kept)
       /\ \A t \in Suffixes(items) : Fits(t) => Len(t) <= Len(kept)
  BY <1>9, Zenon DEF Evict
<1>11. PICK k \in 1..n + 1 : kept = SubSeq(items, k, n)
  BY <1>7, <1>10
<1>12. k = l
  <2>1. Len(best) <= Len(kept) /\ Len(kept) <= Len(best)
    BY <1>9, <1>10
  <2> QED
    BY <2>1, <1>2, <1>6, <1>8, <1>11
<1> QED
  BY <1>1, <1>5, <1>10, <1>11, <1>12

-----------------------------------------------------------------------------
(* Items of distinct requests are no more, and weigh no more, than what    *)
(* is noted of these requests.                                             *)

LEMMA SumMonotone ==
  ASSUME NEW D, NEW f \in [D -> Nat], NEW g \in [D -> Nat],
         NEW T \in SUBSET D, IsFiniteSet(T), NEW S \in SUBSET T, \A x \in S : f[x] <= g[x]
  PROVE  Sum(f, S) <= Sum(g, T)
<1> DEFINE K == {n \in Nat : \A t \in SUBSET T : Cardinality(t) = n =>
                   \A s \in SUBSET S : s \subseteq t => Sum(f, s) <= Sum(g, t)}
<1>1. \A t \in SUBSET T : /\ IsFiniteSet(t) /\ Cardinality(t) \in Nat
                          /\ Sum(f, t) \in Nat /\ Sum(g, t) \in Nat
  <2> SUFFICES ASSUME NEW t \in SUBSET T
               PROVE  /\ IsFiniteSet(t) /\ Cardinality(t) \in Nat
                      /\ Sum(f, t) \in Nat /\ Sum(g, t) \in Nat
    OBVIOUS
  <2>1. IsFiniteSet(t) /\ Cardinality(t) \in Nat /\ t \in SUBSET D
    BY FS_Subset, FS_CardinalityType
  <2> QED
    BY <2>1, SumType
<1>2. 0 \in K
  <2> SUFFICES ASSUME NEW t \in SUBSET T, Cardinality(t) = 0, NEW s \in SUBSET S, s \subseteq t
               PROVE  Sum(f, s) <= Sum(g, t)
    OBVIOUS
  <2>1. t = {} /\ s = {}
    BY <1>1, FS_EmptySet
  <2> QED
    BY <2>1, SumEmpty
<1>3. ASSUME NEW n \in Nat, n \in K PROVE n + 1 \in K
  <2> SUFFICES ASSUME NEW t \in SUBSET T, Cardinality(t) = n + 1,
                      NEW s \in SUBSET S, s \subseteq t
               PROVE  Sum(f, s) <= Sum(g, t)
    OBVIOUS
  <2>1. t # {}
    <3>1. n + 1 # 0
      OBVIOUS
    <3> QED
      BY <3>1, FS_EmptySet
  <2>2. PICK c \in t : TRUE
    BY <2>1
  <2>3. PICK rest, left : rest = t \ {c} /\ left = s \ {c}
    OBVIOUS
  <2>4. Cardinality(rest) = n /\ rest \in SUBSET T /\ left \in SUBSET S /\ left \subseteq rest
    BY <2>3, <1>1, FS_RemoveElement
  <2>5. Sum(f, left) <= Sum(g, rest)
    BY <2>4, <1>3
  <2>6. Sum(g, t) = g[c] + Sum(g, rest)
    BY <2>3, <1>1, SumRemove
  <2>7. c \in s => Sum(f, s) = f[c] + Sum(f, left) /\ f[c] <= g[c]
    <3> SUFFICES ASSUME c \in s PROVE Sum(f, s) = f[c] + Sum(f, left) /\ f[c] <= g[c]
      OBVIOUS
    <3>1. s \in SUBSET D /\ IsFiniteSet(s)
      BY <1>1
    <3> QED
      BY <3>1, <2>3, SumRemove
  <2>8. c \notin s => left = s
    BY <2>3
  <2>9. /\ f[c] \in Nat /\ g[c] \in Nat /\ Sum(f, left) \in Nat /\ Sum(g, rest) \in Nat
    BY <2>4, <1>1
  <2> QED
    BY <2>5, <2>6, <2>7, <2>8, <2>9
<1>4. Nat \subseteq K
  <2> HIDE DEF K
  <2> QED
    BY <1>2, <1>3, Induction
<1> QED
  BY <1>1, <1>4

Covered(items, f, ids) ==
  /\ Distinct(items) /\ ids \in SUBSET RequestIds /\ IsFiniteSet(ids)
  /\ \A j \in DOMAIN items : items[j].id \in ids /\ Weight(items[j]) <= f[items[j].id]

LEMMA CoveredBounds ==
  ASSUME NEW f \in [RequestIds -> Nat],
         NEW items \in Seq(Items), NEW ids, Covered(items, f, ids)
  PROVE  Len(items) <= Cardinality(ids) /\ Total(items) <= Sum(f, ids)
<1> DEFINE Bound(s, o) == Len(s) <= Cardinality(o) /\ Total(s) <= Sum(f, o)
           K == {n \in Nat : \A s \in Seq(Items) : Len(s) = n =>
                   \A o \in SUBSET RequestIds : Covered(s, f, o) => Bound(s, o)}
<1>1. ASSUME NEW o \in SUBSET RequestIds, IsFiniteSet(o)
      PROVE  Cardinality(o) \in Nat /\ Sum(f, o) \in Nat
  BY <1>1, FS_CardinalityType, SumType
<1>2. 0 \in K
  <2> SUFFICES ASSUME NEW s \in Seq(Items), Len(s) = 0,
                      NEW o \in SUBSET RequestIds, Covered(s, f, o)
               PROVE  Bound(s, o)
    OBVIOUS
  <2>1. Cardinality(o) \in Nat /\ Sum(f, o) \in Nat
    BY <1>1 DEF Covered
  <2>2. Total(s) = 0
    BY EmptySeq, TotalEmpty
  <2> QED
    BY <2>1, <2>2
<1>3. ASSUME NEW n \in Nat, n \in K PROVE n + 1 \in K
  <2> SUFFICES ASSUME NEW s \in Seq(Items), Len(s) = n + 1,
                      NEW o \in SUBSET RequestIds, Covered(s, f, o)
               PROVE  Bound(s, o)
    OBVIOUS
  <2>1. s # <<>>
    OBVIOUS
  <2>2. PICK v \in Seq(Items), x \in Items : s = Append(v, x)
    BY <2>1, SequenceEmptyOrAppend
  <2>3. /\ Len(v) = n /\ DOMAIN v = 1..n /\ DOMAIN s = 1..n + 1 /\ s[n + 1] = x
        /\ \A j \in 1..n : s[j] = v[j]
    BY <2>2
  <2>4. x.id \in o /\ Weight(x) <= f[x.id]
    BY <2>3 DEF Covered
  <2>5. PICK rest : rest = o \ {x.id}
    OBVIOUS
  <2>6. rest \in SUBSET RequestIds /\ IsFiniteSet(rest)
    BY <2>5, FS_Subset DEF Covered
  <2>7. Covered(v, f, rest)
    <3>1. Distinct(v)
      BY <2>3 DEF Covered, Distinct
    <3>2. ASSUME NEW j \in 1..n PROVE v[j].id # x.id
      <4>1. j \in DOMAIN s /\ n + 1 \in DOMAIN s /\ j # n + 1
        BY <2>3
      <4>2. s[j].id # s[n + 1].id
        BY <4>1 DEF Covered, Distinct
      <4> QED
        BY <4>2, <2>3
    <3>3. \A j \in 1..n : v[j].id \in o /\ Weight(v[j]) <= f[v[j].id]
      <4>1. ASSUME NEW j \in 1..n
            PROVE  s[j].id \in o /\ Weight(s[j]) <= f[s[j].id]
        <5>1. j \in DOMAIN s
          BY <2>3
        <5> QED
          BY <5>1 DEF Covered
      <4> QED
        BY <4>1, <2>3
    <3> QED
      BY <2>3, <2>5, <2>6, <3>1, <3>2, <3>3 DEF Covered
  <2>8. Len(v) <= Cardinality(rest) /\ Total(v) <= Sum(f, rest)
    BY <2>3, <2>6, <2>7, <1>3
  <2>9. Cardinality(rest) = Cardinality(o) - 1 /\ Sum(f, o) = f[x.id] + Sum(f, rest)
    <3>1. IsFiniteSet(o)
      BY DEF Covered
    <3>2. Sum(f, o) = f[x.id] + Sum(f, o \ {x.id})
      <4>1. ASSUME NEW D, D = RequestIds, NEW y \in o
            PROVE  Sum(f, o) = f[y] + Sum(f, o \ {y})
        <5>1. f \in [D -> Nat] /\ o \in SUBSET D
          BY <4>1
        <5> QED
          BY <3>1, <5>1, SumRemove
      <4> QED
        BY <4>1, <2>4
    <3> QED
      BY <3>1, <3>2, <2>4, <2>5, FS_RemoveElement
  <2>10. Total(s) = Total(v) + Weight(x)
    BY <2>2, TotalAppend
  <2>11. /\ Total(v) \in Nat /\ Weight(x) \in Nat /\ f[x.id] \in Nat
         /\ Cardinality(rest) \in Nat /\ Sum(f, rest) \in Nat /\ Cardinality(o) \in Nat
    BY <2>4, <2>6, <1>1, TotalType, WeightType DEF Covered
  <2> QED
    BY <2>3, <2>4, <2>8, <2>9, <2>10, <2>11
<1>4. Nat \subseteq K
  <2> HIDE DEF K
  <2> QED
    BY <1>2, <1>3, Induction
<1>5. ids \in SUBSET RequestIds /\ Len(items) \in Nat
  BY DEF Covered
<1> QED
  BY <1>4, <1>5

-----------------------------------------------------------------------------
(* The invariant *)

Others == {id \in RequestIds : since[id] # 0}

(* What is noted of the requests used after the watched one covers the     *)
(* items behind its item.                                                  *)
UsesInv ==
  /\ watched \in RequestIds /\ held \in Nat /\ since \in [RequestIds -> Nat]
  /\ since[watched] = 0 /\ IsFiniteSet(Others)
  /\ \A i \in DOMAIN cache : cache[i].id = watched =>
       /\ held = Weight(cache[i])
       /\ \A j \in i + 1..Len(cache) : Weight(cache[j]) <= since[cache[j].id]

Inv == TypeOK /\ LimitsKept /\ UsesInv /\ RecentOutcomeKept

(* There is room for the watched outcome besides what was used after it. *)
Room(size, f, ids) ==
  size # 0 /\ Cardinality(ids) < MaxEntries /\ size + Sum(f, ids) <= MaxBytes

LEMMA RecentIs == RecentOutcomeKept <=> (Room(held, since, Others) => Cached(watched))
BY Zenon DEF RecentOutcomeKept, Room, Others, Sum

LEMMA RecentIsNext ==
  RecentOutcomeKept' <=> (Room(held', since', Others') => Cached(watched)')
BY Zenon DEF RecentOutcomeKept, Room, Others, Sum

LEMMA InitInv == Init => Inv
<1> SUFFICES ASSUME Init PROVE Inv
  OBVIOUS
<1>1. cache \in Seq(Items) /\ Len(cache) = 0 /\ DOMAIN cache = {} /\ Total(cache) = 0
  BY TotalEmpty, EmptySeq DEF Init
<1>2. TypeOK
  BY <1>1 DEF Init, TypeOK
<1>3. LimitsKept
  BY <1>1 DEF Init, LimitsKept, Fits
<1>4. UsesInv
  <2>1. Others = {}
    BY DEF Init, Others
  <2> QED
    BY <1>1, <2>1, FS_EmptySet DEF Init, UsesInv
<1>5. RecentOutcomeKept
  BY RecentIs DEF Init, Room
<1> QED
  BY <1>2, <1>3, <1>4, <1>5 DEF Inv

(* A use of a request is noted, or the notes are wiped when it is the      *)
(* watched one.                                                            *)
LEMMA Noted ==
  ASSUME UsesInv, watched' = watched,
         NEW id \in RequestIds, NEW size \in Nat \ {0}, Used(id, size)
  PROVE  /\ since' \in [RequestIds -> Nat] /\ since'[watched] = 0
         /\ IsFiniteSet(Others') /\ Others' \in SUBSET RequestIds
         /\ id = watched => Others' = {}
         /\ id # watched =>
              /\ Others \in SUBSET Others' /\ id \in Others' /\ size <= since'[id]
              /\ \A x \in RequestIds : since[x] <= since'[x]
<1>1. CASE id = watched
  <2>1. since' = [x \in RequestIds |-> 0]
    BY <1>1 DEF Used
  <2>2. Others' = {}
    BY <2>1 DEF Others
  <2> QED
    BY <1>1, <2>1, <2>2, FS_EmptySet DEF UsesInv
<1>2. CASE id # watched
  <2>1. since' = [since EXCEPT ![id] = IF size > @ THEN size ELSE @]
    BY <1>2 DEF Used
  <2>2. since' \in [RequestIds -> Nat] /\ size <= since'[id] /\ since'[id] # 0
    BY <2>1 DEF UsesInv
  <2>3. \A x \in RequestIds : since[x] <= since'[x] /\ (x # id => since'[x] = since[x])
    BY <2>1 DEF UsesInv
  <2>4. Others' = Others \cup {id}
    <3>1. Others' = {x \in RequestIds : since'[x] # 0}
      BY DEF Others
    <3>2. \A x \in RequestIds : since[x] \in Nat /\ since'[x] \in Nat
      BY <2>2 DEF UsesInv
    <3>3. \A x \in RequestIds : since[x] # 0 => since'[x] # 0
      BY <2>3, <3>2
    <3> QED
      BY <3>1, <3>3, <2>2, <2>3 DEF Others
  <2>5. IsFiniteSet(Others')
    BY <2>4, FS_AddElement DEF UsesInv
  <2> QED
    BY <1>2, <2>2, <2>3, <2>4, <2>5 DEF UsesInv, Others
<1> QED
  BY <1>1, <1>2

(* So room that is there now was there before. *)
LEMMA RoomShrinks ==
  ASSUME UsesInv, since' \in [RequestIds -> Nat], IsFiniteSet(Others'),
         Others' \in SUBSET RequestIds, Others \in SUBSET Others',
         \A x \in RequestIds : since[x] <= since'[x], Room(held, since', Others')
  PROVE  Room(held, since, Others)
<1>1. Sum(since, Others) <= Sum(since', Others')
  <2>1. \A x \in Others : since[x] <= since'[x]
    BY DEF Others
  <2>2. since \in [RequestIds -> Nat]
    BY DEF UsesInv
  <2>3. ASSUME NEW D, D = RequestIds
        PROVE  Sum(since, Others) <= Sum(since', Others')
    <3>1. since \in [D -> Nat] /\ since' \in [D -> Nat] /\ Others' \in SUBSET D
      BY <2>2, <2>3
    <3> QED
      BY <2>1, <3>1, SumMonotone
  <2> QED
    BY <2>3
<1>2. Cardinality(Others) <= Cardinality(Others')
  BY FS_Subset
<1>3. /\ Cardinality(Others) \in Nat /\ Cardinality(Others') \in Nat
      /\ Sum(since, Others) \in Nat /\ Sum(since', Others') \in Nat
  <2>1. IsFiniteSet(Others) /\ Others \in SUBSET RequestIds /\ since \in [RequestIds -> Nat]
    BY DEF UsesInv, Others
  <2>2. ASSUME NEW D, D = RequestIds
        PROVE  Sum(since, Others) \in Nat /\ Sum(since', Others') \in Nat
    <3>1. /\ since \in [D -> Nat] /\ since' \in [D -> Nat]
          /\ Others' \in SUBSET D /\ Others \in SUBSET D
      BY <2>1, <2>2
    <3> QED
      BY <2>1, <3>1, SumType
  <2> QED
    BY <2>1, <2>2, FS_CardinalityType
<1> QED
  BY <1>1, <1>2, <1>3 DEF Room, UsesInv

-----------------------------------------------------------------------------
(* A question *)

LEMMA PlaceOf == ASSUME NEW id, Cached(id)
                 PROVE  Place(id) \in DOMAIN cache /\ cache[Place(id)].id = id
BY Zenon DEF Cached, Place

(* Where the item at position j was before the one at i moved to the end.  *)
From(j, i, n) == IF j < i THEN j ELSE IF j < n THEN j + 1 ELSE i

Moved(items, moved, i, n) ==
  /\ moved \in Seq(Items) /\ Len(moved) = n
  /\ \A j \in 1..n : From(j, i, n) \in 1..n /\ moved[j] = items[From(j, i, n)]
  /\ \A k \in 1..n : \E j \in 1..n : From(j, i, n) = k
  /\ Distinct(moved) /\ Total(moved) = Total(items)

(* A hit moves one item. *)
LEMMA Moves ==
  ASSUME TypeOK, NEW id \in RequestIds, Cached(id), cache' = Touch(cache, Place(id))
  PROVE  Moved(cache, cache', Place(id), Len(cache))
<1>1. PICK i : i = Place(id)
  OBVIOUS
<1>2. PICK n : n = Len(cache)
  OBVIOUS
<1>3. /\ cache \in Seq(Items) /\ n \in Nat /\ DOMAIN cache = 1..n
      /\ i \in 1..n /\ cache[i].id = id
  BY <1>1, <1>2, PlaceOf DEF TypeOK
<1>4. \A j \in 1..n : From(j, i, n) \in 1..n
  BY <1>3 DEF From
<1>5. \A k \in 1..n : \E j \in 1..n : From(j, i, n) = k
  <2> SUFFICES ASSUME NEW k \in 1..n PROVE \E j \in 1..n : From(j, i, n) = k
    OBVIOUS
  <2>1. CASE k < i
    BY <2>1, <1>3 DEF From
  <2>2. CASE k = i
    BY <2>2, <1>3 DEF From
  <2>3. CASE k > i
    <3>1. k - 1 \in 1..n /\ From(k - 1, i, n) = k
      BY <2>3, <1>3 DEF From
    <3> QED
      BY <3>1
  <2> QED
    BY <2>1, <2>2, <2>3, <1>3
<1>6. /\ cache' \in Seq(Items) /\ Len(cache') = n /\ Total(cache') = Total(cache)
      /\ \A j \in 1..n : cache'[j] = IF j < i THEN cache[j]
                                    ELSE IF j < n THEN cache[j + 1] ELSE cache[i]
  <2>1. cache' = Touch(cache, i) /\ i \in DOMAIN cache
    BY <1>1, <1>3
  <2>2. PICK moved : moved = cache'
    OBVIOUS
  <2> QED
    BY <2>1, <2>2, <1>2, <1>3, Touched
<1>7. \A j \in 1..n : cache'[j] = cache[From(j, i, n)]
  BY <1>3, <1>6 DEF From
<1>8. Distinct(cache')
  <2> SUFFICES ASSUME NEW j \in 1..n, NEW k \in 1..n, cache'[j].id = cache'[k].id PROVE j = k
    BY <1>6 DEF Distinct
  <2>1. cache[From(j, i, n)].id = cache[From(k, i, n)].id
    BY <1>7
  <2>2. From(j, i, n) = From(k, i, n)
    BY <2>1, <1>3, <1>4 DEF TypeOK
  <2> QED
    BY <2>2, <1>3 DEF From
<1> QED
  BY <1>1, <1>2, <1>4, <1>5, <1>6, <1>7, <1>8 DEF Moved

LEMMA HitInv ==
  ASSUME Inv, NEW id \in RequestIds, NEW f \in Fingerprints,
         Cached(id), cache' = Touch(cache, Place(id)),
         NEW outcome \in Responses \cup {None, "RequestIdConflict"}, Answer(id, f, outcome),
         Used(id, Weight(ItemOf(id))), UNCHANGED <<bytes, watched, held>>
  PROVE  Inv'
<1> USE DEF Inv
<1>1. PICK n : n = Len(cache)
  OBVIOUS
<1>2. PICK i : i = Place(id)
  OBVIOUS
<1>3. /\ cache \in Seq(Items) /\ n \in Nat /\ DOMAIN cache = 1..n
      /\ Distinct(cache) /\ i \in 1..n /\ cache[i].id = id
  <2>1. cache \in Seq(Items) /\ Distinct(cache)
    BY DEF TypeOK, Distinct
  <2>2. n \in Nat /\ DOMAIN cache = 1..n
    BY <1>1, <2>1
  <2> QED
    BY <1>2, <2>1, <2>2, PlaceOf
<1>4. Moved(cache, cache', i, n)
  BY <1>1, <1>2, Moves
<1>5. /\ cache' \in Seq(Items) /\ Len(cache') = n /\ DOMAIN cache' = 1..n
      /\ Distinct(cache') /\ Total(cache') = Total(cache)
  <2>1. /\ cache' \in Seq(Items) /\ Len(cache') = n
        /\ Distinct(cache') /\ Total(cache') = Total(cache)
    BY <1>4 DEF Moved
  <2> QED
    BY <2>1
<1>6. \A j \in 1..n : From(j, i, n) \in 1..n /\ cache'[j] = cache[From(j, i, n)]
  BY <1>4 DEF Moved
<1>7. Weight(cache[i]) \in Nat \ {0} /\ ItemOf(id) = cache[i]
  <2>1. cache[i] \in Items
    BY <1>3
  <2> QED
    BY <2>1, <1>2, WeightType DEF ItemOf
<1>8. TypeOK'
  BY <1>5 DEF TypeOK, Distinct, Answer
<1>9. LimitsKept'
  BY <1>1, <1>5 DEF LimitsKept, Fits
<1>10. /\ since' \in [RequestIds -> Nat] /\ since'[watched] = 0
       /\ IsFiniteSet(Others') /\ Others' \in SUBSET RequestIds
       /\ id = watched => Others' = {}
       /\ id # watched =>
            /\ Others \in SUBSET Others' /\ id \in Others' /\ Weight(cache[i]) <= since'[id]
            /\ \A x \in RequestIds : since[x] <= since'[x]
  BY <1>7, Noted
<1>11. UsesInv'
  <2> SUFFICES ASSUME NEW w \in 1..n, cache'[w].id = watched
               PROVE  /\ held = Weight(cache'[w])
                      /\ \A j \in w + 1..n : Weight(cache'[j]) <= since'[cache'[j].id]
    BY <1>10, <1>5 DEF UsesInv
  <2>1. PICK v \in 1..n : v = From(w, i, n) /\ cache'[w] = cache[v]
    BY <1>6
  <2>2. held = Weight(cache[v]) /\ \A j \in v + 1..n : Weight(cache[j]) <= since[cache[j].id]
    BY <2>1, <1>1, <1>3 DEF UsesInv
  <2>3. ASSUME NEW j \in w + 1..n PROVE Weight(cache'[j]) <= since'[cache'[j].id]
    <3>1. PICK u \in 1..n : u = From(j, i, n) /\ cache'[j] = cache[u]
      <4>1. j \in 1..n
        BY <1>3
      <4> QED
        BY <4>1, <1>6
    <3>2. id # watched
      <4> SUFFICES ASSUME id = watched PROVE FALSE
        OBVIOUS
      <4>1. v = i
        <5>1. cache[v].id = cache[i].id
          BY <2>1, <1>3
        <5> QED
          BY <5>1, <1>3 DEF Distinct
      <4>2. w = n
        BY <4>1, <2>1, <1>3 DEF From
      <4> QED
        BY <4>2, <1>3
    <3>3. CASE u = i
      BY <3>1, <3>2, <3>3, <1>3, <1>10
    <3>4. CASE u # i
      <4>1. v # i
        BY <3>2, <2>1, <1>3
      <4>2. u \in v + 1..n
        BY <3>1, <3>4, <4>1, <2>1, <1>3 DEF From
      <4>3. Weight(cache[u]) <= since[cache[u].id]
        BY <4>2, <2>2
      <4>4. cache[u] \in Items /\ cache[u].id \in RequestIds
        <5>1. cache[u] \in Items
          BY <1>3, ElementOfSeq
        <5> QED
          BY <5>1 DEF Items
      <4>5. since[cache[u].id] <= since'[cache[u].id]
        BY <3>2, <4>4, <1>10
      <4>6. /\ Weight(cache[u]) \in Nat /\ since[cache[u].id] \in Nat
            /\ since'[cache[u].id] \in Nat
        BY <4>4, <1>10, WeightType DEF UsesInv
      <4> QED
        BY <3>1, <4>3, <4>5, <4>6
    <3> QED
      BY <3>3, <3>4
  <2> QED
    BY <2>1, <2>2, <2>3
<1>12. RecentOutcomeKept'
  <2> SUFFICES ASSUME Room(held, since', Others') PROVE Cached(watched)'
    BY RecentIsNext
  <2>1. Cached(watched)
    <3>1. CASE id = watched
      BY <3>1
    <3>2. CASE id # watched
      <4>1. Room(held, since, Others)
        BY <3>2, <1>10, RoomShrinks
      <4> QED
        BY <4>1, RecentIs
    <3> QED
      BY <3>1, <3>2
  <2>2. PICK k \in 1..n : cache[k].id = watched
    BY <2>1, <1>3 DEF Cached
  <2>3. PICK j \in 1..n : From(j, i, n) = k
    BY <1>4 DEF Moved
  <2>4. cache'[j].id = watched
    BY <2>2, <2>3, <1>6
  <2> QED
    BY <2>4, <1>5 DEF Cached
<1> QED
  BY <1>8, <1>9, <1>11, <1>12

LEMMA ReplayInv ==
  ASSUME Inv, NEW id \in RequestIds, NEW f \in Fingerprints, Replay(id, f)
  PROVE  Inv'
<1>1. CASE Cached(id)
  <2>1. PICK item : item = ItemOf(id)
    OBVIOUS
  <2>2. item \in Items
    <3>1. Place(id) \in DOMAIN cache /\ cache \in Seq(Items)
      BY <1>1, PlaceOf DEF Inv, TypeOK
    <3> QED
      BY <2>1, <3>1 DEF ItemOf
  <2>3. PICK outcome \in Responses \cup {None, "RequestIdConflict"} :
          outcome = IF item.fingerprint = f THEN item.response ELSE "RequestIdConflict"
    BY <2>2 DEF Items
  <2>4. /\ cache' = Touch(cache, Place(id)) /\ Answer(id, f, outcome)
        /\ Used(id, Weight(ItemOf(id))) /\ UNCHANGED <<bytes, watched, held>>
    BY <1>1, <2>1, <2>3 DEF Replay, Weight
  <2> QED
    BY <1>1, <2>4, HitInv
<1>2. CASE ~Cached(id)
  <2>1. Answer(id, f, None) /\ UNCHANGED <<cache, bytes, watched, held, since>>
    BY <1>2 DEF Replay, history
  <2>2. TypeOK' /\ LimitsKept'
    BY <2>1 DEF Inv, TypeOK, LimitsKept, Answer
  <2>3. UsesInv'
    BY <2>1 DEF Inv, UsesInv, Others
  <2>4. RecentOutcomeKept'
    BY <2>1 DEF Inv, RecentOutcomeKept, Cached
  <2> QED
    BY <2>2, <2>3, <2>4 DEF Inv
<1> QED
  BY <1>1, <1>2

-----------------------------------------------------------------------------
(* An outcome is recorded *)

(* The new item comes last, and the oldest go. *)
Stored(item, n, l) ==
  LET grown == Append(cache, item) IN
  /\ l \in 1..n + 1
  /\ cache' \in Seq(Items) /\ Len(cache') = n + 2 - l
  /\ \A j \in 1..n + 2 - l : cache'[j] = grown[l + j - 1]
  /\ Distinct(cache') /\ Fits(cache')
  /\ bytes' = Total(cache')
  /\ \A k \in 1..n + 2 : Fits(SubSeq(grown, k, n + 1)) => l <= k

LEMMA Stores ==
  ASSUME TypeOK, LimitsKept, NEW item \in Items, ~Cached(item.id), Weight(item) <= MaxBytes,
         cache' = Evict(Append(cache, item)),
         bytes' = bytes + Weight(item)
                   - Total(SubSeq(Append(cache, item), 1,
                                  Len(Append(cache, item)) - Len(Evict(Append(cache, item)))))
  PROVE  \E l : Stored(item, Len(cache), l)
<1>1. PICK n, grown, kept : n = Len(cache) /\ grown = Append(cache, item) /\ kept = Evict(grown)
  OBVIOUS
<1>2. /\ cache \in Seq(Items) /\ n \in Nat /\ DOMAIN cache = 1..n
      /\ grown \in Seq(Items) /\ Len(grown) = n + 1 /\ DOMAIN grown = 1..n + 1
      /\ grown[n + 1] = item /\ \A j \in 1..n : grown[j] = cache[j]
  BY <1>1 DEF TypeOK
<1>3. Distinct(grown)
  <2> SUFFICES ASSUME NEW j \in 1..n + 1, NEW k \in 1..n + 1, grown[j].id = grown[k].id
               PROVE  j = k
    BY <1>2 DEF Distinct
  <2>1. \A m \in 1..n : cache[m].id # item.id
    BY <1>2 DEF Cached
  <2>2. CASE j = n + 1 \/ k = n + 1
    BY <2>1, <2>2, <1>2
  <2>3. CASE j \in 1..n /\ k \in 1..n
    BY <2>3, <1>2 DEF TypeOK
  <2> QED
    BY <2>2, <2>3, <1>2
<1>4. Total(grown) = bytes + Weight(item) /\ bytes \in Nat /\ Weight(item) \in Nat
  BY <1>1, <1>2, TotalAppend, WeightType DEF LimitsKept, TypeOK
<1>5. Fits(kept) /\ \E l \in 1..Len(grown) + 1 :
        /\ kept = SubSeq(grown, l, Len(grown))
        /\ \A k \in 1..Len(grown) + 1 : Fits(SubSeq(grown, k, Len(grown))) => l <= k
  BY <1>1, <1>2, Evicted
<1>6. PICK l \in 1..n + 2 :
        /\ kept = SubSeq(grown, l, n + 1)
        /\ \A k \in 1..n + 2 : Fits(SubSeq(grown, k, n + 1)) => l <= k
  <2>1. n + 1 + 1 = n + 2
    BY <1>2
  <2> QED
    BY <2>1, <1>2, <1>5
<1>7. /\ kept \in Seq(Items) /\ Len(kept) = n + 2 - l
      /\ \A j \in 1..n + 2 - l : kept[j] = grown[l + j - 1]
  <2>1. l \in 1..Len(grown) + 1 /\ Len(grown) - l + 1 = n + 2 - l
    BY <1>2
  <2> QED
    BY <2>1, <1>2, <1>6, PartType
<1>8. l <= n + 1
  <2>1. PICK last : last = SubSeq(grown, n + 1, n + 1)
    OBVIOUS
  <2>2. /\ last \in Seq(Items) /\ Len(last) = 1
    BY <2>1, <1>2, PartType
  <2>3. Total(last) = Weight(item)
    <3>1. n + 1 \in 1..Len(grown)
      BY <1>2
    <3>2. Total(last) = Weight(grown[n + 1]) + Total(SubSeq(grown, n + 2, n + 1))
      <4>1. n + 1 + 1 = n + 2
        BY <1>2
      <4> QED
        BY <2>1, <3>1, <4>1, <1>2, TotalFirst
    <3>3. SubSeq(grown, n + 2, n + 1) = <<>>
      <4>1. SubSeq(grown, n + 2, n + 1) \in Seq(Items) /\ Len(SubSeq(grown, n + 2, n + 1)) = 0
        BY <1>2, PartType
      <4> QED
        BY <4>1, EmptySeq
    <3>4. Total(last) = Weight(item) + 0
      BY <3>2, <3>3, <1>2, TotalEmpty
    <3> QED
      BY <3>4, <1>4
  <2>4. Fits(last)
    BY <2>2, <2>3 DEF Fits
  <2> QED
    BY <2>1, <2>4, <1>2, <1>6
<1>9. Distinct(kept)
  <2>1. DOMAIN kept = 1..n + 2 - l
    BY <1>7
  <2> SUFFICES ASSUME NEW j \in 1..n + 2 - l, NEW k \in 1..n + 2 - l, kept[j].id = kept[k].id
               PROVE  j = k
    BY <2>1 DEF Distinct
  <2>2. l + j - 1 \in 1..n + 1 /\ l + k - 1 \in 1..n + 1
    BY <1>2
  <2>3. grown[l + j - 1].id = grown[l + k - 1].id
    BY <1>7
  <2>4. l + j - 1 = l + k - 1
    BY <2>2, <2>3, <1>2, <1>3 DEF Distinct
  <2> QED
    BY <2>4, <1>2
<1>10. bytes' = Total(kept)
  <2>1. PICK front : front = SubSeq(grown, 1, l - 1)
    OBVIOUS
  <2>2. l \in 1..Len(grown) + 1 /\ Len(grown) - Len(kept) = l - 1
    BY <1>2, <1>7
  <2>3. Total(grown) = Total(front) + Total(kept)
    BY <2>1, <2>2, <1>2, <1>6, TotalSplit
  <2>4. front \in Seq(Items)
    BY <2>1, <2>2, <1>2, FrontType
  <2>5. bytes' = bytes + Weight(item) - Total(front)
    BY <2>1, <2>2, <1>1
  <2>6. Total(front) \in Nat /\ Total(kept) \in Nat
    BY <2>4, <1>7, TotalType
  <2> QED
    BY <2>3, <2>5, <2>6, <1>4
<1>11. l \in 1..n + 1
  BY <1>2, <1>8
<1> QED
  BY <1>1, <1>5, <1>6, <1>7, <1>9, <1>10, <1>11 DEF Stored

LEMMA OversizedInv ==
  ASSUME Inv, NEW id \in RequestIds, NEW f \in Fingerprints, NEW r \in Responses,
         Remember(id, f, r), Size[r] > MaxBytes
  PROVE  Inv'
<1>1. /\ ~Cached(id) /\ UNCHANGED <<cache, bytes, since, answer, watched>>
      /\ held' = IF id # watched THEN held ELSE 0
  BY DEF Remember
<1>2. TypeOK' /\ LimitsKept'
  BY <1>1 DEF Inv, TypeOK, LimitsKept
<1>3. Others' = Others /\ (Cached(watched)' <=> Cached(watched))
  BY <1>1 DEF Others, Cached
<1>4. UsesInv'
  <2>1. \A i \in DOMAIN cache : cache[i].id = watched => id # watched
    BY <1>1 DEF Cached
  <2> QED
    BY <2>1, <1>1, <1>3 DEF Inv, UsesInv
<1>5. RecentOutcomeKept'
  <2> SUFFICES ASSUME Room(held', since', Others') PROVE Cached(watched)'
    BY RecentIsNext
  <2>1. held' = held
    BY <1>1 DEF Room
  <2>2. Room(held, since, Others)
    BY <2>1, <1>1, <1>3
  <2> QED
    BY <2>2, <1>3, RecentIs DEF Inv
<1> QED
  BY <1>2, <1>4, <1>5 DEF Inv

LEMMA StoredInv ==
  ASSUME Inv, NEW item \in Items, ~Cached(item.id), Weight(item) <= MaxBytes,
         NEW l, Stored(item, Len(cache), l),
         Used(item.id, Weight(item)), UNCHANGED <<answer, watched>>,
         held' = IF item.id # watched THEN held ELSE Weight(item)
  PROVE  Inv'
<1> USE DEF Inv
<1>1. PICK n, grown, id, weight : /\ n = Len(cache) /\ grown = Append(cache, item)
                                  /\ id = item.id /\ weight = Weight(item)
  OBVIOUS
<1>2. /\ cache \in Seq(Items) /\ n \in Nat /\ DOMAIN cache = 1..n
      /\ grown \in Seq(Items) /\ Len(grown) = n + 1
      /\ grown[n + 1] = item /\ \A j \in 1..n : grown[j] = cache[j]
  BY <1>1 DEF TypeOK
<1>3. id \in RequestIds /\ weight \in Nat \ {0}
  BY <1>1, WeightType DEF Items
<1>4. /\ l \in 1..n + 1
      /\ cache' \in Seq(Items) /\ Len(cache') = n + 2 - l
      /\ \A j \in 1..n + 2 - l : cache'[j] = grown[l + j - 1]
      /\ Distinct(cache') /\ Fits(cache')
      /\ bytes' = Total(cache')
      /\ \A k \in 1..n + 2 : Fits(SubSeq(grown, k, n + 1)) => l <= k
  BY <1>1, Zenon DEF Stored
<1>5. DOMAIN cache' = 1..n + 2 - l /\ \A j \in 1..n + 2 - l : l + j - 1 \in 1..n + 1
  BY <1>2, <1>4
<1>6. TypeOK'
  <2>1. bytes' \in Nat
    BY <1>4, TotalType
  <2> QED
    BY <2>1, <1>4 DEF TypeOK, Distinct
<1>7. LimitsKept'
  BY <1>4 DEF LimitsKept, Fits
<1>8. /\ since' \in [RequestIds -> Nat] /\ since'[watched] = 0
      /\ IsFiniteSet(Others') /\ Others' \in SUBSET RequestIds
      /\ id = watched => Others' = {}
      /\ id # watched =>
           /\ Others \in SUBSET Others' /\ id \in Others' /\ weight <= since'[id]
           /\ \A x \in RequestIds : since[x] <= since'[x]
  BY <1>1, <1>3, Noted
<1>9. held' \in Nat /\ watched' = watched /\ held' = IF id # watched THEN held ELSE weight
  BY <1>1, <1>3 DEF UsesInv
<1>10. \A j \in 1..n : cache[j].id # id
  BY <1>1, <1>2 DEF Cached
(* What follows the watched item, in the longer sequence. *)
<1>11. ASSUME NEW w \in 1..n + 1, grown[w].id = watched
       PROVE  /\ held' = Weight(grown[w])
              /\ \A j \in w + 1..n + 1 : Weight(grown[j]) <= since'[grown[j].id]
  <2>1. CASE w = n + 1
    BY <2>1, <1>1, <1>2, <1>9, <1>11
  <2>2. CASE w \in 1..n
    <3>1. grown[w] = cache[w] /\ id # watched
      BY <2>2, <1>2, <1>10, <1>11
    <3>2. held = Weight(cache[w]) /\ \A j \in w + 1..n : Weight(cache[j]) <= since[cache[j].id]
      BY <2>2, <3>1, <1>1, <1>2, <1>11 DEF UsesInv
    <3>3. ASSUME NEW j \in w + 1..n + 1 PROVE Weight(grown[j]) <= since'[grown[j].id]
      <4>1. CASE j = n + 1
        BY <4>1, <3>1, <1>1, <1>2, <1>8
      <4>2. CASE j # n + 1
        <5>1. j \in w + 1..n /\ j \in 1..n
          BY <4>2, <1>2
        <5>2. cache[j] \in Items /\ cache[j].id \in RequestIds
          <6>1. cache[j] \in Items
            BY <5>1, <1>2, ElementOfSeq
          <6> QED
            BY <6>1 DEF Items
        <5>3. Weight(cache[j]) <= since[cache[j].id] /\ since[cache[j].id] <= since'[cache[j].id]
          BY <5>1, <5>2, <3>1, <3>2, <1>8
        <5>4. /\ Weight(cache[j]) \in Nat /\ since[cache[j].id] \in Nat
              /\ since'[cache[j].id] \in Nat
          BY <5>2, <1>8, WeightType DEF UsesInv
        <5> QED
          BY <5>1, <5>3, <5>4, <1>2
      <4> QED
        BY <4>1, <4>2
    <3> QED
      BY <3>1, <3>2, <3>3, <1>9
  <2> QED
    BY <2>1, <2>2, <1>2
<1>12. UsesInv'
  <2> SUFFICES ASSUME NEW w \in 1..n + 2 - l, cache'[w].id = watched
               PROVE  /\ held' = Weight(cache'[w])
                      /\ \A j \in w + 1..n + 2 - l : Weight(cache'[j]) <= since'[cache'[j].id]
    BY <1>4, <1>5, <1>8, <1>9 DEF UsesInv
  <2>1. PICK v \in 1..n + 1 : v = l + w - 1 /\ cache'[w] = grown[v]
    BY <1>4, <1>5
  <2>2. /\ held' = Weight(grown[v])
        /\ \A j \in v + 1..n + 1 : Weight(grown[j]) <= since'[grown[j].id]
    BY <2>1, <1>11
  <2>3. ASSUME NEW j \in w + 1..n + 2 - l PROVE Weight(cache'[j]) <= since'[cache'[j].id]
    <3>1. l + j - 1 \in v + 1..n + 1 /\ j \in 1..n + 2 - l
      BY <2>1, <1>2, <1>4
    <3> QED
      BY <3>1, <2>2, <1>4
  <2> QED
    BY <2>1, <2>2, <2>3
(* The watched item stays if there is room for it. *)
<1>13. ASSUME NEW w \in 1..n + 1, grown[w].id = watched, Room(held', since', Others')
       PROVE  l <= w
  <2>1. PICK rest, part : rest = SubSeq(grown, w + 1, n + 1) /\ part = SubSeq(grown, w, n + 1)
    OBVIOUS
  <2>2. /\ rest \in Seq(Items) /\ Len(rest) = n + 1 - w
        /\ \A j \in 1..n + 1 - w : rest[j] = grown[w + j]
    <3>1. w + 1 \in 1..Len(grown) + 1 /\ Len(grown) - (w + 1) + 1 = n + 1 - w
      BY <1>2
    <3>2. /\ rest \in Seq(Items) /\ Len(rest) = n + 1 - w
          /\ \A j \in 1..n + 1 - w : rest[j] = grown[(w + 1) + j - 1]
      BY <3>1, <2>1, <1>2, PartType
    <3>3. \A j \in 1..n + 1 - w : (w + 1) + j - 1 = w + j
      BY <1>2
    <3> QED
      BY <3>2, <3>3
  <2>3. part \in Seq(Items) /\ Len(part) = Len(rest) + 1 /\ Total(part) = held' + Total(rest)
    <3>1. w \in 1..Len(grown) + 1 /\ w \in 1..Len(grown) /\ Len(grown) - w + 1 = n + 2 - w
      BY <1>2
    <3>2. part \in Seq(Items) /\ Len(part) = n + 2 - w
      BY <3>1, <2>1, <1>2, PartType
    <3>3. Total(part) = Weight(grown[w]) + Total(rest)
      BY <3>1, <2>1, <1>2, TotalFirst
    <3>4. held' = Weight(grown[w])
      BY <1>13, <1>11
    <3> QED
      BY <3>2, <3>3, <3>4, <2>2, <1>2
  <2>4. Covered(rest, since', Others')
    <3>1. ASSUME NEW j \in 1..n + 1, NEW k \in 1..n + 1, grown[j].id = grown[k].id PROVE j = k
      <4>1. CASE j \in 1..n /\ k \in 1..n
        BY <4>1, <3>1, <1>2 DEF TypeOK
      <4>2. CASE j = n + 1 \/ k = n + 1
        BY <4>2, <3>1, <1>1, <1>2, <1>10
      <4> QED
        BY <4>1, <4>2, <1>2
    <3>2. DOMAIN rest = 1..n + 1 - w
      BY <2>2
    <3>3. \A j \in 1..n + 1 - w : w + j \in w + 1..n + 1 /\ w + j \in 1..n + 1
      BY <1>2
    <3>4. Distinct(rest)
      <4> SUFFICES ASSUME NEW j \in 1..n + 1 - w, NEW k \in 1..n + 1 - w, rest[j].id = rest[k].id
                   PROVE  j = k
        BY <3>2 DEF Distinct
      <4>1. w + j = w + k
        BY <3>1, <3>3, <2>2
      <4> QED
        BY <4>1, <1>2
    <3>5. ASSUME NEW j \in 1..n + 1 - w
          PROVE  rest[j].id \in Others' /\ Weight(rest[j]) <= since'[rest[j].id]
      <4>1. rest[j] = grown[w + j] /\ rest[j] \in Items
        BY <2>2, <3>2, ElementOfSeq
      <4>2. Weight(rest[j]) <= since'[rest[j].id]
        BY <4>1, <3>3, <1>11, <1>13
      <4>3. rest[j].id \in RequestIds /\ Weight(rest[j]) \in Nat \ {0}
        BY <4>1, WeightType DEF Items
      <4>4. since'[rest[j].id] # 0
        BY <4>2, <4>3, <1>8
      <4>5. rest[j].id \in Others'
        BY <4>3, <4>4 DEF Others
      <4> QED
        BY <4>2, <4>5
    <3> QED
      BY <3>2, <3>4, <3>5, <1>8 DEF Covered
  <2>5. Len(rest) <= Cardinality(Others') /\ Total(rest) <= Sum(since', Others')
    <3>1. PICK f, ids : f = since' /\ ids = Others'
      OBVIOUS
    <3> QED
      BY <3>1, <2>2, <2>4, <1>8, CoveredBounds
  <2>6. /\ Cardinality(Others') \in Nat /\ Sum(since', Others') \in Nat /\ Total(rest) \in Nat
    <3>1. ASSUME NEW D, D = RequestIds PROVE Sum(since', Others') \in Nat
      <4>1. PICK f, ids : f = since' /\ ids = Others'
        OBVIOUS
      <4> QED
        BY <4>1, <3>1, <1>8, SumType
    <3> QED
      BY <3>1, <2>2, <1>8, TotalType, FS_CardinalityType
  <2>7. Fits(part)
    <3>1. Len(part) <= MaxEntries
      BY <2>2, <2>3, <2>5, <2>6, <1>2, <1>13 DEF Room
    <3>2. Total(part) <= MaxBytes
      BY <2>3, <2>5, <2>6, <1>9, <1>13 DEF Room
    <3> QED
      BY <3>1, <3>2 DEF Fits
  <2>8. w \in 1..n + 2
    BY <1>2
  <2> QED
    BY <2>1, <2>7, <2>8, <1>4
<1>14. RecentOutcomeKept'
  <2> SUFFICES ASSUME Room(held', since', Others') PROVE Cached(watched)'
    BY RecentIsNext
  <2>1. PICK w \in 1..n + 1 : grown[w].id = watched
    <3>1. CASE id = watched
      BY <3>1, <1>1, <1>2
    <3>2. CASE id # watched
      <4>1. held' = held
        BY <3>2, <1>9
      <4>2. Room(held, since, Others)
        BY <3>2, <4>1, <1>8, RoomShrinks
      <4>3. PICK w \in 1..n : cache[w].id = watched
        BY <4>2, <1>2, RecentIs DEF Cached
      <4> QED
        BY <4>3, <1>2
    <3> QED
      BY <3>1, <3>2
  <2>2. l <= w
    BY <2>1, <1>13
  <2>3. w - l + 1 \in 1..n + 2 - l /\ l + (w - l + 1) - 1 = w
    BY <2>2, <1>2, <1>4
  <2>4. cache'[w - l + 1].id = watched
    BY <2>1, <2>3, <1>4
  <2> QED
    BY <2>3, <2>4, <1>5, <1>9 DEF Cached
<1> QED
  BY <1>6, <1>7, <1>12, <1>14

LEMMA RememberInv ==
  ASSUME Inv, NEW id \in RequestIds, NEW f \in Fingerprints, NEW r \in Responses,
         Remember(id, f, r)
  PROVE  Inv'
<1>1. CASE Size[r] > MaxBytes
  BY <1>1, OversizedInv
<1>2. CASE ~(Size[r] > MaxBytes)
  <2>1. PICK item : item = [id |-> id, fingerprint |-> f, response |-> r]
    OBVIOUS
  <2>2. item \in Items /\ item.id = id /\ Weight(item) = Size[r]
    BY <2>1 DEF Items, Weight
  <2>3. /\ ~Cached(item.id)
        /\ cache' = Evict(Append(cache, item))
        /\ bytes' = bytes + Weight(item)
                      - Total(SubSeq(Append(cache, item), 1,
                                     Len(Append(cache, item)) - Len(Evict(Append(cache, item)))))
        /\ Used(item.id, Weight(item)) /\ UNCHANGED <<answer, watched>>
        /\ held' = IF item.id # watched THEN held ELSE Weight(item)
    BY <2>1, <2>2, <1>2, Zenon DEF Remember
  <2>4. Weight(item) <= MaxBytes
    BY <2>2, <1>2
  <2>5. PICK l : Stored(item, Len(cache), l)
    BY <2>2, <2>3, <2>4, Stores DEF Inv
  <2> QED
    BY <2>2, <2>3, <2>4, <2>5, StoredInv
<1> QED
  BY <1>1, <1>2

(* Nothing the cache is asked for disturbs the invariant. *)
THEOREM Invariance == Spec => []Inv
<1>1. ASSUME Inv, UNCHANGED vars PROVE Inv'
  <2>1. UNCHANGED <<cache, bytes, answer, watched, held, since>>
    BY <1>1 DEF vars, history
  <2>2. TypeOK' /\ LimitsKept'
    BY <1>1, <2>1 DEF Inv, TypeOK, LimitsKept
  <2>3. UsesInv'
    BY <1>1, <2>1 DEF Inv, UsesInv, Others
  <2>4. RecentOutcomeKept'
    BY <1>1, <2>1 DEF Inv, RecentOutcomeKept, Cached
  <2> QED
    BY <2>2, <2>3, <2>4 DEF Inv
<1>2. Inv /\ [Next]_vars => Inv'
  BY <1>1, ReplayInv, RememberInv DEF Next
<1> QED
  BY <1>2, InitInv, PTL DEF Spec

(* The cache keeps its types, and an id has one item. *)
THEOREM TypeCorrect == Spec => []TypeOK
<1>1. Inv => TypeOK
  BY DEF Inv
<1> QED
  BY <1>1, Invariance, PTL

(* The byte count kept by hand over hits, insertions and evictions is that *)
(* of the items, and neither limit is ever exceeded.                       *)
THEOREM KeepsLimits == Spec => []LimitsKept
<1>1. Inv => LimitsKept
  BY DEF Inv
<1> QED
  BY <1>1, Invariance, PTL

(* A recent outcome is still there: the requests used after it, together   *)
(* with it, have to exceed a limit before it is dropped.                   *)
THEOREM KeepsRecentOutcomes == Spec => []RecentOutcomeKept
<1>1. Inv => RecentOutcomeKept
  BY DEF Inv
<1> QED
  BY <1>1, Invariance, PTL

-----------------------------------------------------------------------------
(* What the supervisor relies on *)

(* What is remembered of a request, as ReplayPromise sees it. *)
Recalled ==
  [id \in RequestIds |->
     IF Cached(id) THEN [fingerprint |-> ItemOf(id).fingerprint, response |-> ItemOf(id).response]
     ELSE None]

Known(item) == [fingerprint |-> item.fingerprint, response |-> item.response]

LEMMA RecalledItem ==
  ASSUME TypeOK, NEW i \in DOMAIN cache, NEW id \in RequestIds, cache[i].id = id
  PROVE  Cached(id) /\ ItemOf(id) = cache[i] /\ Recalled[id] = Known(cache[i])
<1>1. Cached(id)
  BY DEF Cached
<1>2. Place(id) = i
  BY <1>1, PlaceOf DEF TypeOK
<1>3. ItemOf(id) = cache[i]
  BY <1>2 DEF ItemOf
<1> QED
  BY <1>1, <1>3 DEF Recalled, Known

LEMMA RecalledItemNext ==
  ASSUME TypeOK', NEW i \in DOMAIN cache', NEW id \in RequestIds, cache'[i].id = id
  PROVE  Cached(id)' /\ Recalled'[id] = Known(cache'[i])
<1>1. Cached(id)'
  BY DEF Cached
<1>2. PICK j : j = CHOOSE k \in DOMAIN cache' : cache'[k].id = id
  OBVIOUS
<1>3. j \in DOMAIN cache' /\ cache'[j].id = id
  BY <1>2
<1>4. j = i
  BY <1>3 DEF TypeOK
<1>5. ItemOf(id)' = cache'[i]
  BY <1>2, <1>4, Zenon DEF ItemOf, Place
<1> QED
  BY <1>1, <1>5 DEF Recalled, Known

LEMMA KnownIsSome == \A item \in Items : Known(item) # None
BY NoneAssumption DEF Items, Known

LEMMA ReplayAsks ==
  ASSUME Inv, Inv', NEW id \in RequestIds, NEW f \in Fingerprints, Replay(id, f)
  PROVE  /\ Recalled' = Recalled
         /\ answer' = [id |-> id, fingerprint |-> f,
                       outcome |-> IF Recalled[id] = None THEN None
                                   ELSE IF Recalled[id].fingerprint = f THEN Recalled[id].response
                                   ELSE "RequestIdConflict"]
<1>1. TypeOK /\ TypeOK'
  BY DEF Inv
<1>2. CASE Cached(id)
  <2>1. cache' = Touch(cache, Place(id))
    BY <1>2 DEF Replay
  <2>2. PICK n, i : n = Len(cache) /\ i = Place(id)
    OBVIOUS
  <2>3. Moved(cache, cache', i, n)
    BY <2>1, <2>2, <1>1, <1>2, Moves
  <2>4. /\ DOMAIN cache = 1..n /\ DOMAIN cache' = 1..n /\ i \in 1..n /\ cache[i].id = id
        /\ cache[i] \in Items
    <3>1. /\ cache \in Seq(Items) /\ cache' \in Seq(Items) /\ Len(cache') = n
          /\ i \in DOMAIN cache /\ cache[i].id = id
      BY <2>2, <2>3, <1>1, <1>2, PlaceOf DEF TypeOK, Moved
    <3> QED
      BY <3>1, <2>2
  <2>5. ASSUME NEW x \in RequestIds PROVE Recalled'[x] = Recalled[x]
    <3>1. CASE \E k \in 1..n : cache[k].id = x
      <4>1. PICK k \in 1..n : cache[k].id = x
        BY <3>1
      <4>2. PICK j \in 1..n : cache'[j] = cache[k]
        <5>1. PICK j \in 1..n : From(j, i, n) = k
          BY <2>3 DEF Moved
        <5>2. cache'[j] = cache[From(j, i, n)]
          BY <2>3 DEF Moved
        <5> QED
          BY <5>1, <5>2
      <4>3. Recalled[x] = Known(cache[k])
        BY <4>1, <2>4, <1>1, RecalledItem
      <4>4. Recalled'[x] = Known(cache'[j])
        BY <4>1, <4>2, <2>4, <1>1, RecalledItemNext
      <4> QED
        BY <4>2, <4>3, <4>4
    <3>2. CASE ~\E k \in 1..n : cache[k].id = x
      <4>1. ASSUME NEW j \in 1..n PROVE cache'[j].id # x
        <5>1. From(j, i, n) \in 1..n /\ cache'[j] = cache[From(j, i, n)]
          BY <2>3 DEF Moved
        <5> QED
          BY <5>1, <3>2
      <4>2. ~Cached(x) /\ ~Cached(x)'
        BY <3>2, <4>1, <2>4 DEF Cached
      <4> QED
        BY <4>2 DEF Recalled
    <3> QED
      BY <3>1, <3>2
  <2>6. Recalled' = Recalled
    BY <2>5 DEF Recalled
  <2>7. /\ Recalled[id] = Known(cache[i]) /\ ItemOf(id) = cache[i] /\ Recalled[id] # None
        /\ Recalled[id].fingerprint = cache[i].fingerprint
        /\ Recalled[id].response = cache[i].response
    <3>1. Recalled[id] = Known(cache[i]) /\ ItemOf(id) = cache[i]
      BY <2>4, <1>1, RecalledItem
    <3> QED
      BY <3>1, <2>4, KnownIsSome DEF Known
  <2>8. answer' = [id |-> id, fingerprint |-> f,
                   outcome |-> IF cache[i].fingerprint = f THEN cache[i].response
                               ELSE "RequestIdConflict"]
    BY <2>7, <1>2 DEF Replay, Answer
  <2> QED
    BY <2>6, <2>7, <2>8
<1>3. CASE ~Cached(id)
  <2>1. cache' = cache /\ answer' = [id |-> id, fingerprint |-> f, outcome |-> None]
    BY <1>3 DEF Replay, Answer
  <2>2. Recalled' = Recalled
    BY <2>1 DEF Recalled, Cached, ItemOf, Place
  <2>3. Recalled[id] = None
    BY <1>3 DEF Recalled
  <2> QED
    BY <2>1, <2>2, <2>3
<1> QED
  BY <1>2, <1>3

LEMMA RememberRecords ==
  ASSUME Inv, Inv', NEW id \in RequestIds, NEW f \in Fingerprints, NEW r \in Responses,
         Remember(id, f, r)
  PROVE  /\ answer' = answer
         /\ \/ Recalled' = Recalled
            \/ \E dropped \in SUBSET RequestIds :
                 Recalled' = [x \in RequestIds |->
                                IF x \in dropped THEN None
                                ELSE IF x = id THEN [fingerprint |-> f, response |-> r]
                                ELSE Recalled[x]]
<1>1. TypeOK /\ TypeOK' /\ answer' = answer
  BY DEF Inv, Remember
<1>2. CASE Size[r] > MaxBytes
  <2>1. cache' = cache
    BY <1>2 DEF Remember
  <2> QED
    BY <2>1, <1>1 DEF Recalled, Cached, ItemOf, Place
<1>3. CASE ~(Size[r] > MaxBytes)
  <2>1. PICK item, grown : /\ item = [id |-> id, fingerprint |-> f, response |-> r]
                           /\ grown = Append(cache, item)
    OBVIOUS
  <2>2. item \in Items /\ item.id = id /\ Known(item) = [fingerprint |-> f, response |-> r]
    BY <2>1 DEF Items, Known
  <2>3. cache' = Evict(grown)
    BY <2>1, <1>3 DEF Remember
  <2>4. PICK n : n = Len(cache)
    OBVIOUS
  <2>5. /\ cache \in Seq(Items) /\ n \in Nat /\ DOMAIN cache = 1..n
        /\ grown \in Seq(Items) /\ Len(grown) = n + 1
        /\ grown[n + 1] = item /\ \A j \in 1..n : grown[j] = cache[j]
    BY <2>1, <2>2, <2>4, <1>1 DEF TypeOK
  <2>6. \A j \in DOMAIN cache' : \E k \in 1..n + 1 : cache'[j] = grown[k]
    <3>1. PICK l \in 1..Len(grown) + 1 : cache' = SubSeq(grown, l, Len(grown))
      BY <2>3, <2>5, Evicted
    <3>2. /\ Len(cache') = Len(grown) - l + 1 /\ cache' \in Seq(Items)
          /\ \A j \in 1..Len(grown) - l + 1 : cache'[j] = grown[l + j - 1]
      BY <3>1, <2>5, PartType
    <3>3. DOMAIN cache' = 1..Len(grown) - l + 1
      BY <3>2
    <3>4. \A j \in 1..Len(grown) - l + 1 : l + j - 1 \in 1..n + 1
      BY <2>5
    <3> QED
      BY <3>2, <3>3, <3>4
  <2>7. PICK dropped : dropped = {x \in RequestIds : ~Cached(x)'}
    OBVIOUS
  <2>8. ASSUME NEW x \in RequestIds, x \notin dropped
        PROVE  Recalled'[x] = IF x = id THEN [fingerprint |-> f, response |-> r] ELSE Recalled[x]
    <3>1. PICK j \in DOMAIN cache' : cache'[j].id = x
      BY <2>7, <2>8 DEF Cached
    <3>2. PICK k \in 1..n + 1 : cache'[j] = grown[k]
      BY <2>6
    <3>3. Recalled'[x] = Known(grown[k]) /\ grown[k].id = x
      BY <3>1, <3>2, <1>1, RecalledItemNext
    <3>4. \A m \in 1..n : cache[m].id # id
      BY <2>5 DEF Remember, Cached
    <3>5. CASE k = n + 1
      BY <3>3, <3>5, <2>2, <2>5
    <3>6. CASE k # n + 1
      <4>1. k \in DOMAIN cache /\ grown[k] = cache[k] /\ x # id
        BY <3>3, <3>4, <3>6, <2>5
      <4>2. Recalled[x] = Known(cache[k])
        BY <4>1, <3>3, <1>1, RecalledItem
      <4> QED
        BY <4>1, <4>2, <3>3
    <3> QED
      BY <3>5, <3>6
  <2>9. ASSUME NEW x \in RequestIds, x \in dropped PROVE Recalled'[x] = None
    BY <2>7, <2>9 DEF Recalled
  <2>10. Recalled' = [x \in RequestIds |->
                        IF x \in dropped THEN None
                        ELSE IF x = id THEN [fingerprint |-> f, response |-> r]
                        ELSE Recalled[x]]
    <3>1. Recalled' = [x \in RequestIds |-> Recalled'[x]]
      BY DEF Recalled
    <3> QED
      BY <3>1, <2>8, <2>9
  <2>11. dropped \in SUBSET RequestIds
    BY <2>7
  <2> QED
    BY <2>10, <2>11, <1>1
<1> QED
  BY <1>2, <1>3

(* The cache does what the supervisor assumes of it: an outcome is found   *)
(* as it was recorded until it is dropped, only recording drops anything,  *)
(* and another body under a remembered request_id is a conflict.           *)
THEOREM ImplementsPromise == Spec => KeepsPromise
<1>1. Init => Promise!Init
  BY DEF Init, Promise!Init, Cached
<1>2. ASSUME Inv, Inv', [Next]_vars
      PROVE  [Promise!Next]_<<Recalled, answer>>
  <2>1. CASE UNCHANGED vars
    BY <2>1 DEF vars, Recalled, Cached, ItemOf, Place
  <2>2. ASSUME NEW id \in RequestIds, NEW f \in Fingerprints, Replay(id, f)
        PROVE  Promise!Ask(id, f)
    BY <1>2, <2>2, ReplayAsks DEF Promise!Ask, Promise!Outcome, Recalled
  <2>3. ASSUME NEW id \in RequestIds, NEW f \in Fingerprints, NEW r \in Responses,
               Remember(id, f, r)
        PROVE  Promise!Record(id, f, r) \/ UNCHANGED <<Recalled, answer>>
    <3> DEFINE After(dropped) ==
                 [x \in RequestIds |-> IF x \in dropped THEN None
                                      ELSE IF x = id THEN [fingerprint |-> f, response |-> r]
                                      ELSE Recalled[x]]
    <3>1. /\ answer' = answer
          /\ Recalled' = Recalled \/ \E dropped \in SUBSET RequestIds : Recalled' = After(dropped)
      BY <1>2, <2>3, RememberRecords
    <3>2. ASSUME NEW dropped \in SUBSET RequestIds, Recalled' = After(dropped)
          PROVE  Promise!Record(id, f, r)
      BY <3>1, <3>2, Zenon DEF Promise!Record, Recalled
    <3> HIDE DEF After
    <3> QED
      BY <3>1, <3>2
  <2> QED
    BY <1>2, <2>1, <2>2, <2>3 DEF Next, Promise!Next
<1> QED
  BY <1>1, <1>2, Invariance, PTL DEF Spec, KeepsPromise, Promise!Spec, Recalled
=============================================================================
