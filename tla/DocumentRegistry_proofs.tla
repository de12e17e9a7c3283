----------------------- MODULE DocumentRegistry_proofs -----------------------
(***************************************************************************)
(* Proofs about DocumentRegistry, for any numbers of documents, handles,   *)
(* leases and sessions: the registry's tables stay consistent whatever     *)
(* people and clients do, and a handle never changes its document; while   *)
(* every rename was noticed, keys are current and a lease guards the       *)
(* document it was granted for.                                            *)
(***************************************************************************)
EXTENDS DocumentRegistry, TLAPS

USE RegistryAssumption DEF RegistryAssumption, Keys

(* The tuples of variables. *)
USE DEF native, registry, history, vars

(* The index as a relation between two tables. *)
Indexed(map, index) ==
  /\ \A k \in Keys : index[k] # None => map[index[k]] # None
  /\ \A j, k \in Keys : index[j] # None /\ index[j] = index[k] => j = k

(* Sessions point at registered handles. *)
Pointing(map, pointers) ==
  /\ pointers \in [Sessions -> Handles \cup {None}]
  /\ \A s \in Sessions : pointers[s] # None => map[pointers[s]] # None

(* The handle of a checked operation stays registered until it ran. *)
WorkInv == work # None => entries[work.handle] # None

Inv == TypeOK /\ RegistryInv /\ WorkInv

USE DEF WorkInv

-----------------------------------------------------------------------------
(* Adoption: what registering some open documents does to the tables. *)

(* The handle of an adopted document is its own, and is not forgotten. *)
LEMMA HandleOfDoc ==
  ASSUME TypeOK, IndexInv, NEW docs, docs \subseteq open, NEW mint \in Mints(docs),
         NEW d \in docs
  PROVE  /\ HandleOf(d, mint) \in Handles
         /\ Known(d) => entries[HandleOf(d, mint)] = d
         /\ ~Known(d) => entries[HandleOf(d, mint)] = None
         /\ \A e \in docs : HandleOf(e, mint) = HandleOf(d, mint) => e = d
<1> USE DEF TypeOK, NativeTypeOK, RegistryTypeOK
<1>1. d \in open /\ d \in Docs /\ name[d] \in Keys /\ d # None
  OBVIOUS
<1>2. CASE Known(d)
  <2>1. HandleOf(d, mint) \in Handles /\ entries[HandleOf(d, mint)] = d
    BY <1>1, <1>2 DEF HandleOf, Known
  <2>2. ASSUME NEW e \in docs, HandleOf(e, mint) = HandleOf(d, mint) PROVE e = d
    <3>1. CASE Known(e)
      BY <2>1, <2>2, <3>1, <1>2 DEF HandleOf, Known
    <3>2. CASE ~Known(e)
      BY <2>1, <2>2, <3>2, <1>1 DEF HandleOf, Mints, Unknown
    <3>3. QED
      BY <3>1, <3>2
  <2>3. QED
    BY <2>1, <2>2, <1>2
<1>3. CASE ~Known(d)
  <2>1. HandleOf(d, mint) = mint[d] /\ d \in Unknown(docs)
    BY <1>3 DEF HandleOf, Unknown
  <2>2. HandleOf(d, mint) \in Handles /\ entries[HandleOf(d, mint)] = None
    BY <2>1 DEF Mints
  <2>3. ASSUME NEW e \in docs, HandleOf(e, mint) = HandleOf(d, mint) PROVE e = d
    <3>1. CASE Known(e)
      <4>1. entries[HandleOf(e, mint)] = e /\ e # None
        BY <3>1 DEF HandleOf, Known
      <4>2. QED
        BY <4>1, <2>2, <2>3
    <3>2. CASE ~Known(e)
      <4>1. HandleOf(e, mint) = mint[e] /\ e \in Unknown(docs)
        BY <3>2 DEF HandleOf, Unknown
      <4>2. QED
        BY <4>1, <2>1, <2>3 DEF Mints
    <3>3. QED
      BY <3>1, <3>2
  <2>4. QED
    BY <2>2, <2>3, <1>3
<1>4. QED
  BY <1>2, <1>3

(* What a handle names after adoption. *)
LEMMA AdoptedEntry ==
  ASSUME TypeOK, IndexInv, NEW docs, docs \subseteq open, NEW mint \in Mints(docs),
         NEW gone, NEW h \in Handles
  PROVE  LET map == NewEntries(docs, mint, gone) IN
         /\ map[h] \in Docs \cup {None}
         /\ \A d \in docs : HandleOf(d, mint) = h => map[h] = d
         /\ (\A d \in docs : HandleOf(d, mint) # h) =>
              map[h] = IF h \in gone THEN None ELSE entries[h]
         /\ entries[h] # None => map[h] \in {entries[h], None}
         /\ entries[h] # None /\ h \notin gone => map[h] = entries[h]
<1> DEFINE map == NewEntries(docs, mint, gone)
<1> USE DEF TypeOK, NativeTypeOK, RegistryTypeOK
<1>1. CASE \E d \in docs : HandleOf(d, mint) = h
  <2>1. PICK d \in docs : HandleOf(d, mint) = h
    BY <1>1
  <2>2. \A e \in docs : HandleOf(e, mint) = h => e = d
    BY <2>1, HandleOfDoc
  <2>3. map[h] = CHOOSE e \in docs : HandleOf(e, mint) = h
    BY <1>1 DEF NewEntries
  <2>4. map[h] = d
    BY <2>1, <2>2, <2>3
  <2>5. entries[h] \in {d, None}
    BY <2>1, HandleOfDoc
  <2>6. d \in Docs /\ d # None
    OBVIOUS
  <2>7. QED
    BY <2>1, <2>2, <2>4, <2>5, <2>6
<1>2. CASE \A d \in docs : HandleOf(d, mint) # h
  <2>1. map[h] = IF h \in gone THEN None ELSE entries[h]
    BY <1>2 DEF NewEntries
  <2>2. entries[h] \in Docs \cup {None}
    OBVIOUS
  <2>3. QED
    BY <1>2, <2>1, <2>2
<1>3. QED
  BY <1>1, <1>2

LEMMA AdoptedIndex ==
  ASSUME TypeOK, IndexInv, NEW docs, docs \subseteq open, NEW mint \in Mints(docs),
         NEW gone, NEW k \in Keys
  PROVE  LET index == NewIndex(docs, mint, gone) IN
         /\ index[k] \in Handles \cup {None}
         /\ \A d \in docs : name[d] = k => index[k] = HandleOf(d, mint)
         /\ (\A d \in docs : name[d] # k) =>
              index[k] = IF idsByKey[k] \in gone THEN None ELSE idsByKey[k]
<1> DEFINE index == NewIndex(docs, mint, gone)
<1> USE DEF TypeOK, NativeTypeOK, RegistryTypeOK
<1>1. CASE \E d \in docs : name[d] = k
  <2>1. PICK d \in docs : name[d] = k
    BY <1>1
  <2>2. \A e \in docs : name[e] = k => e = d
    BY <2>1
  <2>3. index[k] = HandleOf(CHOOSE e \in docs : name[e] = k, mint)
    BY <1>1 DEF NewIndex
  <2>4. (CHOOSE e \in docs : name[e] = k) = d
    BY <2>1, <2>2
  <2>5. index[k] = HandleOf(d, mint) /\ HandleOf(d, mint) \in Handles
    BY <2>3, <2>4, HandleOfDoc
  <2>6. QED
    BY <2>1, <2>2, <2>5
<1>2. CASE \A d \in docs : name[d] # k
  <2>1. index[k] = IF idsByKey[k] \in gone THEN None ELSE idsByKey[k]
    BY <1>2 DEF NewIndex
  <2>2. QED
    BY <1>2, <2>1
<1>3. QED
  BY <1>1, <1>2

(* Nothing adopted is forgotten at the same time. *)
LEMMA AdoptedStays ==
  ASSUME TypeOK, IndexInv, NEW docs, docs \subseteq open, NEW mint \in Mints(docs),
         NEW sweep \in BOOLEAN, NEW d \in docs
  PROVE  HandleOf(d, mint) \notin Swept(docs, sweep)
<1> USE DEF TypeOK, NativeTypeOK, RegistryTypeOK
<1>1. d \in open /\ name[d] \in Keys
  OBVIOUS
<1>2. ASSUME NEW k \in Keys, idsByKey[k] = HandleOf(d, mint)
      PROVE  Known(d) /\ k = name[d]
  <2>1. idsByKey[k] # None
    BY <1>2, HandleOfDoc
  <2>2. entries[HandleOf(d, mint)] # None
    BY <2>1, <1>2 DEF IndexInv
  <2>3. Known(d)
    BY <2>2, HandleOfDoc
  <2>4. idsByKey[name[d]] = idsByKey[k]
    BY <2>3, <1>2 DEF HandleOf
  <2>5. QED
    BY <2>1, <2>3, <2>4, <1>1 DEF IndexInv
<1>3. HandleOf(d, mint) \notin Displaced(docs)
  <2>1. SUFFICES ASSUME NEW e \in Unknown(docs), idsByKey[name[e]] = HandleOf(d, mint)
                 PROVE  FALSE
    BY DEF Displaced
  <2>2. e \in docs /\ e \in open /\ name[e] \in Keys /\ ~Known(e)
    BY DEF Unknown
  <2>3. Known(d) /\ name[e] = name[d]
    BY <1>2, <2>1, <2>2
  <2>4. QED
    BY <2>2, <2>3, <1>1
<1>4. HandleOf(d, mint) \notin Closed
  <2>1. name[d] \in Names
    BY <1>1 DEF Names
  <2>2. QED
    BY <1>2, <2>1 DEF Closed
<1>5. QED
  BY <1>3, <1>4 DEF Swept

(* The index after adoption is an index of the entries after adoption. *)
LEMMA AdoptedIndexed ==
  ASSUME TypeOK, IndexInv, NEW docs, docs \subseteq open, NEW mint \in Mints(docs),
         NEW sweep \in BOOLEAN
  PROVE  LET gone == Swept(docs, sweep) IN
         /\ NewEntries(docs, mint, gone) \in [Handles -> Docs \cup {None}]
         /\ NewIndex(docs, mint, gone) \in [Keys -> Handles \cup {None}]
         /\ Indexed(NewEntries(docs, mint, gone), NewIndex(docs, mint, gone))
<1> DEFINE gone  == Swept(docs, sweep)
           map   == NewEntries(docs, mint, gone)
           index == NewIndex(docs, mint, gone)
<1>1. map \in [Handles -> Docs \cup {None}]
  BY AdoptedEntry DEF NewEntries
<1>2. index \in [Keys -> Handles \cup {None}]
  <2>1. \A k \in Keys : NewIndex(docs, mint, gone)[k] \in Handles \cup {None}
    BY AdoptedIndex
  <2>2. QED
    BY <2>1 DEF NewIndex
<1> HIDE DEF map, index
<1>3. ASSUME NEW k \in Keys, index[k] # None
      PROVE  \/ \E d \in docs : name[d] = k /\ index[k] = HandleOf(d, mint)
             \/ /\ \A d \in docs : name[d] # k
                /\ index[k] = idsByKey[k] /\ idsByKey[k] \notin gone
                /\ entries[idsByKey[k]] # None /\ idsByKey[k] \in Handles
  <2>1. CASE \E d \in docs : name[d] = k
    BY <2>1, AdoptedIndex DEF index
  <2>2. CASE \A d \in docs : name[d] # k
    <3>1. index[k] = IF idsByKey[k] \in gone THEN None ELSE idsByKey[k]
      BY <2>2, AdoptedIndex DEF index
    <3>2. index[k] = idsByKey[k] /\ idsByKey[k] \notin gone /\ idsByKey[k] # None
      BY <3>1, <1>3
    <3>3. QED
      BY <2>2, <3>2 DEF IndexInv, TypeOK, RegistryTypeOK
  <2>3. QED
    BY <2>1, <2>2
<1>4. ASSUME NEW k \in Keys, index[k] # None PROVE map[index[k]] # None
  <2>1. CASE \E d \in docs : name[d] = k /\ index[k] = HandleOf(d, mint)
    <3>1. PICK d \in docs : index[k] = HandleOf(d, mint)
      BY <2>1
    <3>2. HandleOf(d, mint) \in Handles
      BY HandleOfDoc
    <3>3. map[HandleOf(d, mint)] = d
      BY <3>2, AdoptedEntry DEF map
    <3>4. d # None
      BY DEF TypeOK, NativeTypeOK
    <3>5. QED
      BY <3>1, <3>3, <3>4
  <2>2. CASE /\ index[k] = idsByKey[k] /\ idsByKey[k] \notin gone
             /\ entries[idsByKey[k]] # None /\ idsByKey[k] \in Handles
    <3>1. map[idsByKey[k]] = entries[idsByKey[k]]
      BY <2>2, AdoptedEntry DEF map
    <3>2. QED
      BY <2>2, <3>1
  <2>3. QED
    BY <1>3, <1>4, <2>1, <2>2
<1>5. ASSUME NEW d \in docs, NEW k \in Keys, index[k] # None,
             index[k] = HandleOf(d, mint)
      PROVE  k = name[d]
  <2>1. CASE \E e \in docs : name[e] = k /\ index[k] = HandleOf(e, mint)
    <3>1. PICK e \in docs : name[e] = k /\ index[k] = HandleOf(e, mint)
      BY <2>1
    <3>2. \A x \in docs : HandleOf(x, mint) = HandleOf(d, mint) => x = d
      BY HandleOfDoc
    <3>3. HandleOf(e, mint) = HandleOf(d, mint)
      BY <3>1, <1>5
    <3>4. QED
      BY <3>1, <3>2, <3>3
  <2>2. CASE index[k] = idsByKey[k] /\ entries[idsByKey[k]] # None
    <3>1. Known(d)
      BY <2>2, <1>5, HandleOfDoc
    <3>2. idsByKey[name[d]] = idsByKey[k] /\ name[d] \in Keys
      BY <3>1, <2>2, <1>5 DEF HandleOf, TypeOK, NativeTypeOK
    <3>3. QED
      BY <3>2, <2>2, <1>5 DEF IndexInv
  <2>3. QED
    BY <1>3, <1>5, <2>1, <2>2
<1>6. ASSUME NEW j \in Keys, NEW k \in Keys, index[j] # None, index[j] = index[k]
      PROVE  j = k
  <2>1. CASE \E d \in docs : name[d] = j /\ index[j] = HandleOf(d, mint)
    BY <2>1, <1>5, <1>6
  <2>2. CASE \E d \in docs : name[d] = k /\ index[k] = HandleOf(d, mint)
    BY <2>2, <1>5, <1>6
  <2>3. CASE index[j] = idsByKey[j] /\ index[k] = idsByKey[k]
    BY <2>3, <1>6 DEF IndexInv
  <2>4. QED
    BY <1>3, <1>6, <2>1, <2>2, <2>3
<1>7. Indexed(map, index)
  BY <1>4, <1>6 DEF Indexed
<1>8. QED
  BY <1>1, <1>2, <1>7 DEF map, index

-----------------------------------------------------------------------------
(* Leases and adoption together *)

LEMMA DroppedLeases ==
  ASSUME TypeOK, LeaseInv, NEW dropped, dropped \subseteq LeaseIds, DropLeases(dropped),
         \A h \in Handles : entries[h] # None /\ leaseOf[h] \notin dropped \cup {None}
                            => entries'[h] # None
  PROVE  LeaseInv' /\ leases' \in [LeaseIds -> Leases \cup {None}]
                   /\ leaseOf' \in [Handles -> LeaseIds \cup {None}]
<1> USE DEF TypeOK, RegistryTypeOK
<1>1. leases' \in [LeaseIds -> Leases \cup {None}]
  BY DEF DropLeases
<1>2. leaseOf' \in [Handles -> LeaseIds \cup {None}]
  BY DEF DropLeases
<1>3. ASSUME NEW h \in Handles, leaseOf'[h] # None
      PROVE  /\ entries'[h] # None
             /\ leases'[leaseOf'[h]] # None /\ leases'[leaseOf'[h]].document = h
  <2>1. leaseOf'[h] = leaseOf[h] /\ leaseOf[h] # None /\ leaseOf[h] \in LeaseIds
    BY <1>3 DEF DropLeases
  <2>2. entries[h] # None /\ leases[leaseOf[h]] # None /\ leases[leaseOf[h]].document = h
    BY <2>1 DEF LeaseInv
  <2>3. leaseOf[h] \notin dropped
    BY <1>3, <2>2 DEF DropLeases
  <2>4. leases'[leaseOf[h]] = leases[leaseOf[h]]
    BY <2>1, <2>3 DEF DropLeases
  <2>5. QED
    BY <2>1, <2>2, <2>3, <2>4
<1>4. ASSUME NEW l \in LeaseIds, leases'[l] # None
      PROVE  leaseOf'[leases'[l].document] = l
  <2>1. leases'[l] = leases[l] /\ l \notin dropped /\ leases[l] # None
    BY <1>4 DEF DropLeases
  <2>2. leaseOf[leases[l].document] = l /\ leases[l].document \in Handles
    BY <2>1 DEF LeaseInv, Leases
  <2>3. QED
    BY <2>1, <2>2 DEF DropLeases
<1>5. QED
  BY <1>1, <1>2, <1>3, <1>4 DEF LeaseInv

LEMMA LeasesOfType ==
  ASSUME TypeOK, NEW gone, gone \subseteq Handles
  PROVE  LeasesOf(gone) \subseteq LeaseIds /\ ExpiredLeases \subseteq LeaseIds
  BY DEF TypeOK, RegistryTypeOK, LeasesOf, ExpiredLeases

LEMMA SweptType ==
  ASSUME TypeOK, NEW docs, docs \subseteq open, NEW sweep \in BOOLEAN
  PROVE  Swept(docs, sweep) \subseteq Handles
<1> USE DEF TypeOK, NativeTypeOK, RegistryTypeOK
<1>1. Displaced(docs) \subseteq Handles
  BY DEF Displaced, Unknown
<1>2. Closed \subseteq Handles
  BY DEF Closed
<1>3. QED
  BY <1>1, <1>2 DEF Swept

(* Registering open documents, with or without the rest of a sync, keeps   *)
(* the tables consistent and every surviving handle where it is.           *)
LEMMA AdoptionKeeps ==
  ASSUME Inv, NEW docs, docs \subseteq open, NEW mint \in Mints(docs), NEW sweep \in BOOLEAN,
         NEW purged, purged \subseteq LeaseIds,
         entries' = NewEntries(docs, mint, Swept(docs, sweep)),
         DropLeases(LeasesOf(Swept(docs, sweep)) \cup purged)
  PROVE  /\ entries' \in [Handles -> Docs \cup {None}]
         /\ \A h \in Handles : entries[h] # None => entries'[h] \in {entries[h], None}
         /\ NewIndex(docs, mint, Swept(docs, sweep)) \in [Keys -> Handles \cup {None}]
         /\ Indexed(entries', NewIndex(docs, mint, Swept(docs, sweep)))
         /\ Pointing(entries', NewCurrent(Swept(docs, sweep)))
         /\ leases' \in [LeaseIds -> Leases \cup {None}]
         /\ leaseOf' \in [Handles -> LeaseIds \cup {None}]
         /\ LeaseInv'
<1> DEFINE gone == Swept(docs, sweep)
<1> USE DEF Inv, RegistryInv
<1>1. gone \subseteq Handles
  BY SweptType
<1> HIDE DEF gone
<1>2. \A h \in Handles : /\ entries[h] # None => entries'[h] \in {entries[h], None}
                         /\ entries[h] # None /\ h \notin gone => entries'[h] = entries[h]
  BY AdoptedEntry DEF gone
<1>3. /\ entries' \in [Handles -> Docs \cup {None}]
      /\ NewIndex(docs, mint, gone) \in [Keys -> Handles \cup {None}]
      /\ Indexed(entries', NewIndex(docs, mint, gone))
  BY AdoptedIndexed DEF gone
<1>4. NewCurrent(gone) \in [Sessions -> Handles \cup {None}]
  BY DEF NewCurrent, TypeOK, RegistryTypeOK
<1>5. \A s \in Sessions : NewCurrent(gone)[s] # None => entries'[NewCurrent(gone)[s]] # None
  <2>1. SUFFICES ASSUME NEW s \in Sessions, NewCurrent(gone)[s] # None
                 PROVE  entries'[NewCurrent(gone)[s]] # None
    OBVIOUS
  <2>2. NewCurrent(gone)[s] = current[s] /\ current[s] \notin gone
    BY <2>1 DEF NewCurrent
  <2>3. entries[current[s]] # None /\ current[s] \in Handles
    BY <2>1, <2>2 DEF CurrentInv, TypeOK, RegistryTypeOK
  <2>4. QED
    BY <1>2, <2>2, <2>3
<1>6. \A h \in Handles :
        entries[h] # None /\ leaseOf[h] \notin (LeasesOf(gone) \cup purged) \cup {None}
          => entries'[h] # None
  <2>1. SUFFICES ASSUME NEW h \in Handles, entries[h] # None,
                        leaseOf[h] \notin (LeasesOf(gone) \cup purged) \cup {None}
                 PROVE  entries'[h] # None
    OBVIOUS
  <2>2. QED
    BY <1>2, <2>1 DEF LeasesOf
<1>7. Pointing(entries', NewCurrent(gone))
  BY <1>4, <1>5 DEF Pointing
<1>8. QED
  BY <1>1, <1>2, <1>3, <1>6, <1>7, LeasesOfType, DroppedLeases DEF gone

(* refresh_key keeps an index: the handle moves to the new key, whoever    *)
(* had it.                                                                 *)
LEMMA RefreshIndexed ==
  ASSUME NEW map \in [Handles -> Docs \cup {None}], NEW index \in [Keys -> Handles \cup {None}],
         Indexed(map, index), NEW h \in Handles, map[h] # None, NEW k \in Keys
  PROVE  /\ RefreshKey(index, h, k) \in [Keys -> Handles \cup {None}]
         /\ Indexed(map, RefreshKey(index, h, k))
<1>1. RefreshKey(index, h, k) \in [Keys -> Handles \cup {None}]
  BY DEF RefreshKey
<1>2. CASE k \in PathKeys /\ index[k] \notin {None, h}
  BY <1>2 DEF RefreshKey
<1>3. CASE ~(k \in PathKeys /\ index[k] \notin {None, h})
  <2>1. \A x \in Keys : RefreshKey(index, h, k)[x] =
          IF x = k THEN h ELSE IF index[x] = h THEN None ELSE index[x]
    BY <1>3 DEF RefreshKey
  <2> DEFINE new == RefreshKey(index, h, k)
  <2>2. \A x \in Keys : new[x] # None => map[new[x]] # None
    BY <2>1 DEF Indexed
  <2>3. ASSUME NEW i \in Keys, NEW j \in Keys, new[i] # None, new[i] = new[j]
        PROVE  i = j
    <3>1. new[i] = IF i = k THEN h ELSE IF index[i] = h THEN None ELSE index[i]
      BY <2>1
    <3>2. new[j] = IF j = k THEN h ELSE IF index[j] = h THEN None ELSE index[j]
      BY <2>1
    <3> HIDE DEF new
    <3>3. QED
      BY <2>3, <3>1, <3>2 DEF Indexed
  <2>4. QED
    BY <1>1, <2>2, <2>3 DEF Indexed
<1>4. QED
  BY <1>1, <1>2, <1>3

-----------------------------------------------------------------------------
(* Every step keeps the invariant and every handle's document. *)

Stable == \A h \in Handles : entries[h] # None => entries'[h] \in {entries[h], None}

LEMMA InitInv == Init => Inv
<1> SUFFICES ASSUME Init PROVE Inv
  OBVIOUS
<1>1. TypeOK
  BY DEF Init, TypeOK, NativeTypeOK, RegistryTypeOK
<1>2. RegistryInv
  BY DEF Init, RegistryInv, IndexInv, CurrentInv, LeaseInv
<1>3. WorkInv
  BY DEF Init
<1>4. QED
  BY <1>1, <1>2, <1>3 DEF Inv

(* Steps of people leave the registry alone. *)
LEMMA SameRegistry ==
  ASSUME Inv, UNCHANGED registry
  PROVE  RegistryTypeOK' /\ RegistryInv' /\ Stable
  BY DEF Inv, TypeOK, RegistryTypeOK, RegistryInv, IndexInv, CurrentInv, LeaseInv, Stable

LEMMA RegistryStep ==
  ASSUME RegistryTypeOK', Indexed(entries', idsByKey'), CurrentInv', LeaseInv'
  PROVE  RegistryInv'
  BY DEF RegistryInv, IndexInv, Indexed

LEMMA UserStep ==
  ASSUME Inv, NEW d \in Docs, NEW k \in Keys, UserOpens(d, k) \/ UserRenames(d, k)
  PROVE  Inv' /\ Stable
<1> USE DEF Inv, TypeOK, NativeTypeOK
<1>1. CASE UserOpens(d, k)
  <2>1. NativeTypeOK'
    BY <1>1 DEF UserOpens, Names
  <2>2. QED
    BY <1>1, <2>1, SameRegistry DEF UserOpens
<1>2. CASE UserRenames(d, k)
  <2>1. NativeTypeOK' /\ unnoticed' \in Nat
    BY <1>2 DEF UserRenames, Names
  <2>2. QED
    BY <1>2, <2>1, SameRegistry DEF UserRenames
<1>3. QED
  BY <1>1, <1>2

LEMMA CloseByUser ==
  ASSUME Inv, NEW d \in Docs, UserCloses(d)
  PROVE  Inv' /\ Stable
<1> USE DEF Inv, TypeOK, NativeTypeOK
<1>1. NativeTypeOK' /\ granted' \in [Docs -> [lease : LeaseIds, session : Sessions] \cup {None}]
  BY DEF UserCloses, CloseNative
<1>2. QED
  BY <1>1, SameRegistry DEF UserCloses

LEMMA ActivateByUser ==
  ASSUME Inv, NEW d \in Docs, UserActivates(d)
  PROVE  Inv' /\ Stable
<1> USE DEF Inv, TypeOK, NativeTypeOK
<1>1. NativeTypeOK'
  BY DEF UserActivates
<1>2. QED
  BY <1>1, SameRegistry DEF UserActivates

LEMMA ExpireStep ==
  ASSUME Inv, NEW l \in LeaseIds, Expire(l)
  PROVE  Inv' /\ Stable
<1> USE DEF Inv, TypeOK, Expire
<1>1. NativeTypeOK'
  BY DEF NativeTypeOK
<1>2. /\ leases' \in [LeaseIds -> Leases \cup {None}]
      /\ \A m \in LeaseIds : /\ leases'[m] # None <=> leases[m] # None
                             /\ leases[m] # None => leases'[m].document = leases[m].document
  <2>1. CASE leases[l] = None
    BY <2>1 DEF RegistryTypeOK
  <2>2. CASE leases[l] # None
    <3> DEFINE mark == [leases[l] EXCEPT !.expired = TRUE]
    <3>1. leases[l] \in Leases
      BY <2>2 DEF RegistryTypeOK
    <3>2. mark \in Leases /\ mark.document = leases[l].document
      BY <3>1 DEF Leases
    <3>3. mark # None
      BY <3>2
    <3>4. leases' = [leases EXCEPT ![l] = mark]
      BY <2>2
    <3> HIDE DEF mark
    <3>5. \A m \in LeaseIds : leases'[m] = IF m = l THEN mark ELSE leases[m]
      BY <3>4 DEF RegistryTypeOK
    <3>6. leases' \in [LeaseIds -> Leases \cup {None}]
      BY <3>2, <3>4 DEF RegistryTypeOK
    <3>7. QED
      BY <2>2, <3>2, <3>3, <3>5, <3>6
  <2>3. QED
    BY <2>1, <2>2
<1>3. RegistryTypeOK' /\ Stable
  BY <1>2 DEF RegistryTypeOK, Stable
<1>4. granted' \in [Docs -> [lease : LeaseIds, session : Sessions] \cup {None}]
  OBVIOUS
<1>5. IndexInv' /\ CurrentInv'
  BY DEF RegistryInv, IndexInv, CurrentInv
<1>6. LeaseInv'
  BY <1>2 DEF RegistryInv, LeaseInv, RegistryTypeOK
<1>7. QED
  BY <1>1, <1>3, <1>4, <1>5, <1>6 DEF RegistryInv

(* Leases alone are dropped. *)
LEMMA PurgeStep ==
  ASSUME Inv, NEW dropped, dropped \subseteq LeaseIds, DropLeases(dropped),
         UNCHANGED <<entries, idsByKey, current>>
  PROVE  RegistryTypeOK' /\ RegistryInv' /\ Stable
<1> USE DEF Inv, RegistryInv, TypeOK
<1>1. LeaseInv' /\ leases' \in [LeaseIds -> Leases \cup {None}]
                /\ leaseOf' \in [Handles -> LeaseIds \cup {None}]
  BY DroppedLeases
<1>2. IndexInv' /\ CurrentInv' /\ Stable
  BY DEF IndexInv, CurrentInv, Stable
<1>3. QED
  BY <1>1, <1>2 DEF RegistryTypeOK

(* Documents are adopted and leases dropped; the caller may become the     *)
(* session whose current document changes.                                 *)
LEMMA AdoptStep ==
  ASSUME Inv, NEW docs, docs \subseteq open, NEW mint \in Mints(docs), NEW sweep \in BOOLEAN,
         NEW purged, purged \subseteq LeaseIds,
         Adopt(docs, mint, Swept(docs, sweep)),
         DropLeases(LeasesOf(Swept(docs, sweep)) \cup purged),
         \/ current' = NewCurrent(Swept(docs, sweep))
         \/ \E s \in Sessions, h \in Handles :
              /\ entries'[h] # None
              /\ current' = [NewCurrent(Swept(docs, sweep)) EXCEPT ![s] = h]
  PROVE  RegistryTypeOK' /\ RegistryInv' /\ Stable
<1> DEFINE gone == Swept(docs, sweep)
           now  == NewCurrent(gone)
<1>0. entries' = NewEntries(docs, mint, gone) /\ idsByKey' = NewIndex(docs, mint, gone)
  BY DEF Adopt
<1>1. /\ entries' \in [Handles -> Docs \cup {None}]
      /\ \A h \in Handles : entries[h] # None => entries'[h] \in {entries[h], None}
  BY <1>0, AdoptionKeeps, Zenon
<1>2. /\ idsByKey' \in [Keys -> Handles \cup {None}]
      /\ Indexed(entries', idsByKey')
  BY <1>0, AdoptionKeeps
<1>3. Pointing(entries', now)
  BY <1>0, AdoptionKeeps
<1>4. /\ leases' \in [LeaseIds -> Leases \cup {None}]
      /\ leaseOf' \in [Handles -> LeaseIds \cup {None}]
      /\ LeaseInv'
  BY <1>0, AdoptionKeeps
<1> HIDE DEF now, gone
<1>5. /\ current' \in [Sessions -> Handles \cup {None}]
      /\ \A s \in Sessions : current'[s] # None => entries'[current'[s]] # None
  <2>1. CASE current' = now
    BY <1>3, <2>1 DEF Pointing
  <2>2. CASE \E s \in Sessions, h \in Handles :
               entries'[h] # None /\ current' = [now EXCEPT ![s] = h]
    BY <1>3, <2>2 DEF Pointing
  <2>3. QED
    BY <2>1, <2>2 DEF now, gone
<1>6. RegistryTypeOK'
  BY <1>1, <1>2, <1>4, <1>5 DEF RegistryTypeOK
<1>7. QED
  BY <1>1, <1>2, <1>4, <1>5, <1>6, RegistryStep DEF CurrentInv, Stable

(* Operations that adopt documents. *)
LEMMA SyncStep ==
  ASSUME Inv,
         \/ List
         \/ \E docs \in SUBSET open : SyncFails(docs)
         \/ \E s \in Sessions, h \in Handles : Use(s, h)
         \/ \E s \in Sessions, d \in Docs : OpenDocument(s, d)
  PROVE  Inv' /\ Stable
<1>1. {} \subseteq LeaseIds
  OBVIOUS
<1>2. CASE List
  <2>1. PICK mint \in Mints(open) :
          /\ Adopt(open, mint, Swept(open, TRUE))
          /\ current' = NewCurrent(Swept(open, TRUE))
          /\ DropLeases(LeasesOf(Swept(open, TRUE)) \cup {})
    BY <1>2 DEF List
  <2>2. RegistryTypeOK' /\ RegistryInv' /\ Stable
    BY <1>1, <2>1, AdoptStep
  <2>3. QED
    BY <1>2, <2>2 DEF List, Inv, TypeOK, NativeTypeOK
<1>3. CASE \E docs \in SUBSET open : SyncFails(docs)
  <2>1. PICK docs \in SUBSET open : SyncFails(docs)
    BY <1>3
  <2>2. PICK mint \in Mints(docs) :
          /\ Adopt(docs, mint, Swept(docs, FALSE))
          /\ current' = NewCurrent(Swept(docs, FALSE))
          /\ DropLeases(LeasesOf(Swept(docs, FALSE)) \cup {})
    BY <2>1 DEF SyncFails
  <2>3. RegistryTypeOK' /\ RegistryInv' /\ Stable
    BY <1>1, <2>2, AdoptStep
  <2>4. QED
    BY <2>1, <2>3 DEF SyncFails, Inv, TypeOK, NativeTypeOK
<1>4. CASE \E s \in Sessions, h \in Handles : Use(s, h)
  <2>1. PICK s \in Sessions, h \in Handles : Use(s, h)
    BY <1>4
  <2>2. PICK mint \in Mints(open) :
          /\ Adopt(open, mint, Swept(open, TRUE))
          /\ entries'[h] # None
          /\ current' = [NewCurrent(Swept(open, TRUE)) EXCEPT ![s] = h]
          /\ DropLeases(LeasesOf(Swept(open, TRUE)) \cup {})
    BY <2>1 DEF Use
  <2>3. RegistryTypeOK' /\ RegistryInv' /\ Stable
    BY <1>1, <2>2, AdoptStep
  <2>4. QED
    BY <2>1, <2>3 DEF Use, Inv, TypeOK, NativeTypeOK
<1>5. CASE \E s \in Sessions, d \in Docs : OpenDocument(s, d)
  <2>1. PICK s \in Sessions, d \in Docs : OpenDocument(s, d)
    BY <1>5
  <2>2. PICK mint \in Mints({d}) :
          /\ Adopt({d}, mint, Swept({d}, FALSE))
          /\ current' = [NewCurrent(Swept({d}, FALSE)) EXCEPT ![s] = HandleOf(d, mint)]
          /\ DropLeases(LeasesOf(Swept({d}, FALSE)) \cup {})
    BY <2>1 DEF OpenDocument
  <2>3. d \in open /\ {d} \subseteq open /\ d # None
    BY <2>1 DEF OpenDocument
  <2>4. HandleOf(d, mint) \in Handles
    BY <2>3, HandleOfDoc DEF Inv, RegistryInv
  <2>5. entries'[HandleOf(d, mint)] = d
    <3> DEFINE docs == {d}
               gone == Swept(docs, FALSE)
    <3>1. docs \subseteq open /\ mint \in Mints(docs) /\ d \in docs
      BY <2>3
    <3>2. entries' = NewEntries(docs, mint, gone)
      BY <2>2 DEF Adopt
    <3> HIDE DEF docs, gone
    <3>3. QED
      BY <2>4, <3>1, <3>2, AdoptedEntry DEF Inv, RegistryInv
  <2>6. RegistryTypeOK' /\ RegistryInv' /\ Stable
    BY <1>1, <2>2, <2>3, <2>4, <2>5, AdoptStep
  <2>7. QED
    BY <2>1, <2>6 DEF OpenDocument, Inv, TypeOK, NativeTypeOK
<1>6. QED
  BY <1>2, <1>3, <1>4, <1>5

LEMMA SelectStep ==
  ASSUME Inv, NEW s \in Sessions, NEW kind \in Kinds,
         NEW selector \in Handles \cup {"active", "current"},
         NEW token \in LeaseIds \cup {None}, NEW source \in Handles \cup {None},
         Select(s, kind, selector, token, source)
  PROVE  Inv' /\ Stable
<1> DEFINE syncs == selector # "active" \/ kind = "views"
           docs  == IF syncs THEN open ELSE {active}
           gone  == Swept(docs, syncs)
           purged == IF kind \in Guarded THEN ExpiredLeases ELSE {}
<1>1. docs \subseteq open /\ syncs \in BOOLEAN /\ purged \subseteq LeaseIds
  BY DEF Select, Inv, TypeOK, NativeTypeOK, ExpiredLeases
<1>2. PICK mint \in Mints(docs) :
        /\ Adopt(docs, mint, gone)
        /\ current' = NewCurrent(gone)
        /\ DropLeases(LeasesOf(gone) \cup purged)
        /\ LET h == Target(s, selector) IN
           /\ Resolves(h)
           /\ work' = [kind |-> kind, session |-> s, handle |-> h,
                       token |-> token, source |-> source]
  BY DEF Select
<1> HIDE DEF syncs, docs, purged
<1>3. RegistryTypeOK' /\ RegistryInv' /\ Stable
  BY <1>1, <1>2, AdoptStep
<1>4. Target(s, selector) \in Handles
  <2>1. Target(s, selector) # None
    BY <1>2 DEF Resolves
  <2>2. CASE selector = "active"
    <3>1. active \in open /\ name[active] \in Keys
      BY <2>2 DEF Select, Inv, TypeOK, NativeTypeOK
    <3>2. QED
      BY <1>3, <2>1, <2>2, <3>1 DEF Target, RegistryTypeOK
  <2>3. CASE selector = "current"
    BY <1>3, <2>1, <2>3 DEF Target, RegistryTypeOK
  <2>4. CASE selector \in Handles
    BY <2>4 DEF Target
  <2>5. QED
    BY <2>2, <2>3, <2>4
<1>5. work' \in Works
  BY <1>2, <1>4 DEF Works
<1>6. WorkInv'
  BY <1>2 DEF Resolves
<1>7. QED
  BY <1>3, <1>5, <1>6 DEF Select, Inv, TypeOK, NativeTypeOK

(* Operations that only drop leases. *)
LEMMA LeaseStep ==
  ASSUME Inv,
         \/ RenewLease
         \/ \E s \in Sessions, l \in LeaseIds : ReleaseLease(s, l)
         \/ RunStatus
         \/ RunPlain
  PROVE  Inv' /\ Stable
<1>1. ExpiredLeases \subseteq LeaseIds
  BY DEF ExpiredLeases
<1>2. CASE RenewLease
  <2>1. RegistryTypeOK' /\ RegistryInv' /\ Stable
    BY <1>1, <1>2, PurgeStep DEF RenewLease
  <2>2. QED
    BY <1>2, <2>1 DEF RenewLease, Inv, TypeOK, NativeTypeOK
<1>3. CASE \E s \in Sessions, l \in LeaseIds : ReleaseLease(s, l)
  <2>1. PICK s \in Sessions, l \in LeaseIds : ReleaseLease(s, l)
    BY <1>3
  <2>2. DropLeases(ExpiredLeases \cup {l}) /\ ExpiredLeases \cup {l} \subseteq LeaseIds
    BY <1>1, <2>1 DEF ReleaseLease
  <2>3. RegistryTypeOK' /\ RegistryInv' /\ Stable
    BY <2>1, <2>2, PurgeStep DEF ReleaseLease
  <2>4. granted' \in [Docs -> [lease : LeaseIds, session : Sessions] \cup {None}]
    BY <2>1 DEF ReleaseLease, Inv, TypeOK
  <2>5. QED
    BY <2>1, <2>3, <2>4 DEF ReleaseLease, Inv, TypeOK, NativeTypeOK
<1>4. CASE RunStatus
  <2>1. RegistryTypeOK' /\ RegistryInv' /\ Stable
    BY <1>1, <1>4, PurgeStep DEF RunStatus
  <2>2. QED
    BY <1>4, <2>1 DEF RunStatus, Inv, TypeOK, NativeTypeOK
<1>5. CASE RunPlain
  BY <1>5, SameRegistry DEF RunPlain, Inv, TypeOK, NativeTypeOK
<1>6. QED
  BY <1>2, <1>3, <1>4, <1>5

(* document.close takes everything the handle had. *)
LEMMA CloseStep ==
  ASSUME Inv, RunClose
  PROVE  Inv' /\ Stable
<1> DEFINE h == work.handle
           d == entries[h]
<1>1. work \in Works /\ h \in Handles /\ work' = None
  BY DEF RunClose, Inv, TypeOK, Works
<1>2. CASE UNCHANGED <<open, name, active, registry, granted>>
  BY <1>1, <1>2, SameRegistry DEF RunClose, Inv, TypeOK, NativeTypeOK
<1>3. CASE /\ d \in open
           /\ \/ CloseNative(d)
              \/ /\ granted' = [granted EXCEPT ![d] = None]
                 /\ UNCHANGED <<open, name, active>>
           /\ entries' = [entries EXCEPT ![h] = None]
           /\ idsByKey' = [k \in Keys |-> IF idsByKey[k] = h THEN None ELSE idsByKey[k]]
           /\ current' = NewCurrent({h})
           /\ DropLeases(LeasesOf({h}))
  <2>1. d \in Docs
    BY <1>3 DEF Inv, TypeOK, NativeTypeOK
  <2>2. NativeTypeOK' /\ granted' \in [Docs -> [lease : LeaseIds, session : Sessions] \cup {None}]
    BY <1>3, <2>1 DEF RunClose, CloseNative, Inv, TypeOK, NativeTypeOK
  <2>3. entries' \in [Handles -> Docs \cup {None}] /\ Stable
    BY <1>3 DEF Inv, TypeOK, RegistryTypeOK, Stable
  <2>4. idsByKey' \in [Keys -> Handles \cup {None}] /\ IndexInv'
    BY <1>1, <1>3 DEF Inv, TypeOK, RegistryTypeOK, RegistryInv, IndexInv
  <2>5. current' \in [Sessions -> Handles \cup {None}] /\ CurrentInv'
    BY <1>1, <1>3 DEF Inv, TypeOK, RegistryTypeOK, RegistryInv, CurrentInv, NewCurrent
  <2>6. LeasesOf({h}) \subseteq LeaseIds
    BY <1>1, LeasesOfType DEF Inv
  <2>7. \A g \in Handles :
          entries[g] # None /\ leaseOf[g] \notin LeasesOf({h}) \cup {None} => entries'[g] # None
    BY <1>1, <1>3 DEF LeasesOf, Inv, TypeOK, RegistryTypeOK
  <2>8. /\ LeaseInv' /\ leases' \in [LeaseIds -> Leases \cup {None}]
        /\ leaseOf' \in [Handles -> LeaseIds \cup {None}]
    BY <1>3, <2>6, <2>7, DroppedLeases DEF Inv, RegistryInv
  <2>9. QED
    BY <1>1, <2>2, <2>3, <2>4, <2>5, <2>8
       DEF RunClose, Inv, TypeOK, RegistryTypeOK, RegistryInv
<1>4. QED
  BY <1>2, <1>3 DEF RunClose

(* acquire_lease: a lease taken anew is on one document, under one id. *)
LEMMA AcquireStep ==
  ASSUME Inv, RunAcquire
  PROVE  Inv' /\ Stable
<1> DEFINE h == work.handle
           existing == IF leaseOf[h] \in ExpiredLeases THEN None ELSE leaseOf[h]
<1>1. /\ work \in Works /\ h \in Handles /\ work' = None /\ work.session \in Sessions
      /\ entries[h] # None
  BY DEF RunAcquire, Inv, TypeOK, Works
<1>2. CASE existing # None /\ DropLeases(ExpiredLeases) /\ UNCHANGED granted
  <2>1. RegistryTypeOK' /\ RegistryInv' /\ Stable
    BY <1>2, LeasesOfType, PurgeStep DEF RunAcquire, ExpiredLeases
  <2>2. QED
    BY <1>1, <1>2, <2>1 DEF RunAcquire, Inv, TypeOK, NativeTypeOK
<1>3. ASSUME existing = None, NEW l \in LeaseIds, leases[l] = None \/ l \in ExpiredLeases,
             leases' = [x \in LeaseIds |->
               IF x = l THEN [document |-> h, session |-> work.session, expired |-> FALSE]
               ELSE IF x \in ExpiredLeases THEN None ELSE leases[x]],
             leaseOf' = [x \in Handles |->
               IF x = h THEN l
               ELSE IF leaseOf[x] \in ExpiredLeases THEN None ELSE leaseOf[x]],
             granted' = IF entries[h] \in open
                        THEN [granted EXCEPT ![entries[h]] =
                                [lease |-> l, session |-> work.session]]
                        ELSE granted
      PROVE  Inv' /\ Stable
  <2> DEFINE new == [document |-> h, session |-> work.session, expired |-> FALSE]
  <2>1. new \in Leases /\ new # None /\ new.document = h
    <3>1. new \in Leases /\ new.document = h
      BY <1>1 DEF Leases
    <3>2. QED
      BY <3>1
  <2> HIDE DEF new, h
  <2>2. \A x \in LeaseIds :
          leases'[x] = IF x = l THEN new ELSE IF x \in ExpiredLeases THEN None ELSE leases[x]
    BY <1>3 DEF new, h
  <2>3. \A x \in Handles :
          leaseOf'[x] = IF x = h THEN l
                        ELSE IF leaseOf[x] \in ExpiredLeases THEN None ELSE leaseOf[x]
    BY <1>3 DEF h
  <2>4. leases' \in [LeaseIds -> Leases \cup {None}]
    <3>1. \A x \in LeaseIds : leases'[x] \in Leases \cup {None}
      BY <2>1, <2>2 DEF Inv, TypeOK, RegistryTypeOK
    <3>2. QED
      BY <3>1, <1>3
  <2>5. leaseOf' \in [Handles -> LeaseIds \cup {None}]
    BY <1>3 DEF Inv, TypeOK, RegistryTypeOK
  <2>6. ASSUME NEW g \in Handles, leaseOf'[g] # None
        PROVE  /\ entries[g] # None
               /\ leases'[leaseOf'[g]] # None /\ leases'[leaseOf'[g]].document = g
    <3>1. CASE g = h
      BY <1>1, <2>1, <2>2, <2>3, <3>1
    <3>2. CASE g # h
      <4>1. /\ leaseOf'[g] = leaseOf[g] /\ leaseOf[g] \in LeaseIds
            /\ leaseOf[g] \notin ExpiredLeases
        BY <2>3, <2>6, <3>2 DEF Inv, TypeOK, RegistryTypeOK
      <4>2. /\ entries[g] # None
            /\ leases[leaseOf[g]] # None /\ leases[leaseOf[g]].document = g
        BY <4>1, <2>6 DEF Inv, RegistryInv, LeaseInv
      <4>3. leases'[leaseOf[g]] = leases[leaseOf[g]]
        BY <1>3, <2>2, <4>1, <4>2
      <4>4. QED
        BY <4>1, <4>2, <4>3
    <3>3. QED
      BY <3>1, <3>2
  <2>7. ASSUME NEW m \in LeaseIds, leases'[m] # None
        PROVE  leaseOf'[leases'[m].document] = m
    <3>1. CASE m = l
      BY <1>1, <2>1, <2>2, <2>3, <3>1
    <3>2. CASE m # l
      <4>1. m \notin ExpiredLeases /\ leases[m] # None /\ leases'[m] = leases[m]
        BY <2>2, <2>7, <3>2
      <4>2. leases[m].document \in Handles /\ leaseOf[leases[m].document] = m
        BY <4>1 DEF Inv, TypeOK, RegistryTypeOK, RegistryInv, LeaseInv, Leases
      <4>3. leases[m].document # h
        BY <1>3, <4>1, <4>2 DEF h
      <4>4. QED
        BY <2>3, <4>1, <4>2, <4>3
    <3>3. QED
      BY <3>1, <3>2
  <2>8. UNCHANGED <<entries, idsByKey, current>> /\ NativeTypeOK'
    BY DEF RunAcquire, Inv, TypeOK, NativeTypeOK
  <2>9. LeaseInv' /\ IndexInv' /\ CurrentInv' /\ Stable
    BY <2>6, <2>7, <2>8 DEF LeaseInv, Inv, RegistryInv, IndexInv, CurrentInv, Stable
  <2>10. granted' \in [Docs -> [lease : LeaseIds, session : Sessions] \cup {None}]
    BY <1>1, <1>3 DEF Inv, TypeOK
  <2>11. QED
    BY <1>1, <2>4, <2>5, <2>8, <2>9, <2>10
       DEF RunAcquire, Inv, TypeOK, RegistryTypeOK, RegistryInv
<1>4. QED
  BY <1>2, <1>3 DEF RunAcquire

(* Native renames by an operation, and the key that follows them. *)
LEMMA RefreshStep ==
  ASSUME NEW index \in [Keys -> Handles \cup {None}], NEW h \in Handles, NEW d,
         entries' \in [Handles -> Docs \cup {None}], Indexed(entries', index),
         entries'[h] # None, name'[d] \in Keys, unnoticed \in Nat,
         Refreshes(index, h, d)
  PROVE  /\ idsByKey' \in [Keys -> Handles \cup {None}]
         /\ Indexed(entries', idsByKey')
         /\ unnoticed' \in Nat
<1>1. CASE idsByKey' = RefreshKey(index, h, name'[d]) /\ UNCHANGED unnoticed
  BY <1>1, RefreshIndexed
<1>2. CASE /\ idsByKey' = index
           /\ unnoticed' = IF name'[d] = name[d] THEN unnoticed ELSE unnoticed + 1
  BY <1>2
<1>3. QED
  BY <1>1, <1>2 DEF Refreshes

LEMMA SaveAsStep ==
  ASSUME Inv, NEW k \in PathKeys, RunSaveAs(k)
  PROVE  Inv' /\ Stable
<1> DEFINE h == work.handle
           d == entries[h]
<1>1. /\ work \in Works /\ h \in Handles /\ work' = None /\ d # None
      /\ UNCHANGED <<seen, open, active, entries, current, leases, leaseOf, granted>>
  BY DEF RunSaveAs, Inv, TypeOK, Works
<1>2. entries' \in [Handles -> Docs \cup {None}] /\ Indexed(entries', idsByKey)
  BY <1>1 DEF Inv, TypeOK, RegistryTypeOK, RegistryInv, IndexInv, Indexed
<1>3. /\ NativeTypeOK' /\ unnoticed' \in Nat
      /\ idsByKey' \in [Keys -> Handles \cup {None}] /\ Indexed(entries', idsByKey')
  <2>1. CASE UNCHANGED <<name, idsByKey, unnoticed>>
    BY <1>1, <1>2, <2>1 DEF Inv, TypeOK, NativeTypeOK, RegistryTypeOK
  <2>2. CASE /\ d \in open
             /\ \/ k \notin Names /\ name' = [name EXCEPT ![d] = k]
                \/ UNCHANGED name
             /\ Refreshes(idsByKey, h, d)
    <3>1. NativeTypeOK'
      BY <1>1, <2>2 DEF Inv, TypeOK, NativeTypeOK, Names
    <3>2. name'[d] \in Keys
      BY <1>1, <2>2, <3>1 DEF NativeTypeOK
    <3>3. QED
      BY <1>1, <1>2, <2>2, <3>1, <3>2, RefreshStep DEF Inv, TypeOK, RegistryTypeOK
  <2>3. QED
    BY <2>1, <2>2 DEF RunSaveAs
<1>4. LeaseInv' /\ CurrentInv' /\ Stable
  BY <1>1 DEF Inv, RegistryInv, LeaseInv, CurrentInv, Stable
<1>5. QED
  BY <1>1, <1>2, <1>3, <1>4, RegistryStep DEF Inv, TypeOK, RegistryTypeOK

LEMMA ViewsStep ==
  ASSUME Inv, RunViews
  PROVE  Inv' /\ Stable
<1> DEFINE h    == work.handle
           d    == entries[h]
           gone == Swept(open, TRUE)
<1>1. /\ work \in Works /\ h \in Handles /\ work' = None /\ d # None
      /\ UNCHANGED <<seen, open, active, granted>>
  BY DEF RunViews, Inv, TypeOK, Works
<1>2. PICK mint \in Mints(open) :
        /\ entries' = NewEntries(open, mint, gone)
        /\ current' = NewCurrent(gone)
        /\ DropLeases(LeasesOf(gone))
        /\ \/ /\ d \in open
              /\ \/ \E k \in TitleKeys \ Names : name' = [name EXCEPT ![d] = k]
                 \/ UNCHANGED name
              /\ \/ /\ entries'[h] = d
                    /\ Refreshes(NewIndex(open, mint, gone), h, d)
                 \/ idsByKey' = NewIndex(open, mint, gone) /\ UNCHANGED unnoticed
           \/ idsByKey' = NewIndex(open, mint, gone) /\ UNCHANGED <<name, unnoticed>>
  BY DEF RunViews
<1> DEFINE index == NewIndex(open, mint, gone)
<1>3. {} \subseteq LeaseIds /\ DropLeases(LeasesOf(gone) \cup {})
  BY <1>2
<1>4. /\ entries' \in [Handles -> Docs \cup {None}] /\ Stable
      /\ index \in [Keys -> Handles \cup {None}] /\ Indexed(entries', index)
      /\ Pointing(entries', current')
      /\ leases' \in [LeaseIds -> Leases \cup {None}]
      /\ leaseOf' \in [Handles -> LeaseIds \cup {None}] /\ LeaseInv'
  BY <1>2, <1>3, AdoptionKeeps DEF Stable
<1> HIDE DEF index
<1>5. NativeTypeOK'
  <2>1. CASE UNCHANGED name
    BY <1>1, <2>1 DEF Inv, TypeOK, NativeTypeOK
  <2>2. CASE d \in open /\ \E k \in TitleKeys \ Names : name' = [name EXCEPT ![d] = k]
    <3>1. PICK k \in TitleKeys \ Names : name' = [name EXCEPT ![d] = k]
      BY <2>2
    <3>2. k \in Keys /\ k # None /\ \A e \in open : name[e] # k
      BY DEF Names
    <3>3. QED
      BY <1>1, <2>2, <3>1, <3>2 DEF Inv, TypeOK, NativeTypeOK
  <2>3. QED
    BY <1>2, <2>1, <2>2
<1>6. /\ unnoticed' \in Nat
      /\ idsByKey' \in [Keys -> Handles \cup {None}] /\ Indexed(entries', idsByKey')
  <2>1. CASE idsByKey' = index /\ UNCHANGED unnoticed
    BY <1>4, <2>1 DEF Inv, TypeOK
  <2>2. CASE d \in open /\ entries'[h] = d /\ Refreshes(index, h, d)
    <3>1. name'[d] \in Keys /\ unnoticed \in Nat
      BY <1>1, <1>5, <2>2 DEF Inv, TypeOK, NativeTypeOK
    <3>2. QED
      BY <1>1, <1>4, <2>2, <3>1, RefreshStep
  <2>3. QED
    BY <1>2, <2>1, <2>2 DEF index
<1>7. QED
  BY <1>1, <1>4, <1>5, <1>6, RegistryStep
     DEF Inv, TypeOK, RegistryTypeOK, Pointing, CurrentInv

-----------------------------------------------------------------------------
LEMMA StepInv ==
  ASSUME Inv, [Next]_vars
  PROVE  Inv' /\ Stable
<1>1. CASE UNCHANGED vars
  BY <1>1, SameRegistry DEF Inv, TypeOK, NativeTypeOK
<1>2. CASE Next
  <2>1. CASE \E d \in Docs, k \in Keys : UserOpens(d, k) \/ UserRenames(d, k)
    BY <2>1, UserStep
  <2>2. CASE \E d \in Docs : UserCloses(d)
    BY <2>2, CloseByUser
  <2>3. CASE \E d \in Docs : UserActivates(d)
    BY <2>3, ActivateByUser
  <2>4. CASE \E l \in LeaseIds : Expire(l)
    BY <2>4, ExpireStep
  <2>5. CASE \E s \in Sessions, kind \in Kinds, selector \in Handles \cup {"active", "current"},
                token \in LeaseIds \cup {None}, source \in Handles \cup {None} :
               Select(s, kind, selector, token, source)
    BY <2>5, SelectStep
  <2>6. CASE \E k \in PathKeys : RunSaveAs(k)
    BY <2>6, SaveAsStep
  <2>7. QED
    BY <1>2, <2>1, <2>2, <2>3, <2>4, <2>5, <2>6, SyncStep, LeaseStep, AcquireStep, CloseStep,
       ViewsStep DEF Next
<1>3. QED
  BY <1>1, <1>2

LEMMA Invariance == Spec => []Inv
<1>1. Inv /\ [Next]_vars => Inv'
  BY StepInv
<1>2. QED
  BY InitInv, <1>1, PTL DEF Spec

(* Every variable keeps its type, whatever documents people open, close    *)
(* and rename while operations run.                                        *)
THEOREM RegistryTypeCorrect == Spec => []TypeOK
<1>1. Inv => TypeOK
  BY DEF Inv
<1>2. QED
  BY Invariance, <1>1, PTL

(* Forgetting a handle forgets its keys, its sessions and its lease, and   *)
(* the two lease tables of documents.py describe the same leases, however  *)
(* many sessions, leases and documents there are.                          *)
THEOREM RegistryConsistent == Spec => []RegistryInv
<1>1. Inv => RegistryInv
  BY DEF Inv
<1>2. QED
  BY Invariance, <1>1, PTL

(* A document_id never comes to name another native document: register     *)
(* compares the documents themselves and only reuses a forgotten handle.   *)
THEOREM HandlesAreStable == Spec => HandleStable
<1>1. Inv /\ [Next]_vars =>
        [\A h \in Handles : entries[h] # None => entries'[h] \in {entries[h], None}]_vars
  BY StepInv DEF Stable
<1>2. QED
  BY Invariance, <1>1, PTL DEF Spec, HandleStable

-----------------------------------------------------------------------------
(* Keys and leases while every new name was noticed. *)

(* Every handle is found by some key, and by the name its document has. *)
Findable(map, index) == \A h \in Handles : map[h] # None => \E k \in Keys : index[k] = h
NamedIn(map, index, names) ==
  \A k \in Keys : index[k] # None /\ map[index[k]] \in open => names[map[index[k]]] = k

(* The lease granted on a document is the live lease of its handle. *)
HoldsGrant(h, d) ==
  /\ entries[h] = d /\ leaseOf[h] = granted[d].lease
  /\ leases[leaseOf[h]].session = granted[d].session
  /\ ~leases[leaseOf[h]].expired

GrantInv == \A d \in open : granted[d] # None => \E h \in Handles : HoldsGrant(h, d)

(* Registered documents have been open, and leases are granted on open     *)
(* documents only.                                                         *)
SeenInv ==
  /\ \A h \in Handles : entries[h] # None => entries[h] \in seen
  /\ \A d \in Docs : granted[d] # None => d \in open

KeyInv == Findable(entries, idsByKey) /\ NamedIn(entries, idsByKey, name)

NoticedInv == SeenInv /\ (unnoticed = 0 => KeyInv /\ GrantInv /\ HoldsLease)

(* The handle of an open document is the one its name leads to. *)
LEMMA NameLeads ==
  ASSUME Inv, KeyInv, NEW h \in Handles, entries[h] \in open
  PROVE  idsByKey[name[entries[h]]] = h /\ name[entries[h]] \in Keys
<1>1. entries[h] # None
  BY DEF Inv, TypeOK, NativeTypeOK
<1>2. PICK k \in Keys : idsByKey[k] = h
  BY <1>1 DEF KeyInv, Findable
<1>3. name[entries[h]] = k
  BY <1>2 DEF KeyInv, NamedIn
<1>4. QED
  BY <1>2, <1>3

(* No sweep forgets the handle of an open document. *)
LEMMA Unswept ==
  ASSUME Inv, KeyInv, NEW docs, docs \subseteq open, NEW sweep \in BOOLEAN,
         NEW h \in Handles, entries[h] \in open
  PROVE  h \notin Swept(docs, sweep)
<1> USE DEF Inv, TypeOK, NativeTypeOK, RegistryTypeOK
<1>1. ASSUME NEW k \in Keys, idsByKey[k] = h PROVE name[entries[h]] = k
  BY <1>1 DEF KeyInv, NamedIn
<1>2. h \notin Displaced(docs)
  <2>1. ASSUME NEW d \in docs, idsByKey[name[d]] = h PROVE Known(d)
    <3>1. d \in open /\ name[d] \in Keys
      OBVIOUS
    <3>2. name[entries[h]] = name[d]
      BY <1>1, <2>1, <3>1
    <3>3. entries[h] = d
      BY <3>1, <3>2
    <3>4. QED
      BY <2>1, <3>3 DEF Known
  <2>2. QED
    BY <2>1 DEF Displaced, Unknown
<1>3. h \notin Closed
  BY <1>1 DEF Closed, Names
<1>4. QED
  BY <1>2, <1>3 DEF Swept

(* Registering open documents leaves every handle with the key its         *)
(* document has.                                                           *)
LEMMA AdoptedKeys ==
  ASSUME Inv, KeyInv, NEW docs, docs \subseteq open, NEW mint \in Mints(docs),
         NEW sweep \in BOOLEAN,
         NEW map, map = NewEntries(docs, mint, Swept(docs, sweep)),
         NEW index, index = NewIndex(docs, mint, Swept(docs, sweep))
  PROVE  /\ Findable(map, index) /\ NamedIn(map, index, name)
         /\ \A h \in Handles : entries[h] \in open => map[h] = entries[h]
<1> DEFINE gone == Swept(docs, sweep)
<1>1. TypeOK /\ IndexInv
  BY DEF Inv, RegistryInv
<1>2. \A h \in Handles :
        /\ \A d \in docs : HandleOf(d, mint) = h => map[h] = d
        /\ (\A d \in docs : HandleOf(d, mint) # h) =>
             map[h] = IF h \in gone THEN None ELSE entries[h]
        /\ entries[h] # None /\ h \notin gone => map[h] = entries[h]
  BY <1>1, AdoptedEntry
<1>3. \A k \in Keys :
        /\ index[k] \in Handles \cup {None}
        /\ \A d \in docs : name[d] = k => index[k] = HandleOf(d, mint)
        /\ (\A d \in docs : name[d] # k) =>
             index[k] = IF idsByKey[k] \in gone THEN None ELSE idsByKey[k]
  BY <1>1, AdoptedIndex
<1>4. /\ \A k \in Keys : index[k] # None => map[index[k]] # None
      /\ \A j, k \in Keys : index[j] # None /\ index[j] = index[k] => j = k
  BY <1>1, AdoptedIndexed DEF Indexed
<1>5. \A d \in docs : d \in open /\ d # None /\ name[d] \in Keys
                      /\ HandleOf(d, mint) \in Handles /\ HandleOf(d, mint) \notin gone
  <2>1. ASSUME NEW d \in docs
        PROVE  /\ d \in open /\ d # None /\ name[d] \in Keys
               /\ HandleOf(d, mint) \in Handles /\ HandleOf(d, mint) \notin gone
    BY <1>1, HandleOfDoc, AdoptedStays DEF TypeOK, NativeTypeOK
  <2>2. QED
    BY <2>1
<1>6. ASSUME NEW d \in docs, ~Known(d), idsByKey[name[d]] # None
      PROVE  idsByKey[name[d]] \in gone
  BY <1>6 DEF Swept, Displaced, Unknown
<1> HIDE DEF gone
<1>7. ASSUME NEW h \in Handles, map[h] # None PROVE \E k \in Keys : index[k] = h
  <2>1. CASE \E d \in docs : HandleOf(d, mint) = h
    BY <2>1, <1>3, <1>5
  <2>2. CASE \A d \in docs : HandleOf(d, mint) # h
    <3>1. h \notin gone /\ entries[h] # None
      BY <2>2, <1>2, <1>7
    <3>2. PICK k \in Keys : idsByKey[k] = h
      BY <3>1 DEF KeyInv, Findable
    <3>3. ASSUME NEW d \in docs, name[d] = k PROVE FALSE
      <4>1. h # None
        OBVIOUS
      <4>2. CASE Known(d)
        BY <2>2, <3>2, <3>3, <4>2 DEF HandleOf
      <4>3. CASE ~Known(d)
        BY <3>1, <3>2, <3>3, <4>1, <4>3, <1>6
      <4>4. QED
        BY <4>2, <4>3
    <3>4. index[k] = h
      BY <3>1, <3>2, <3>3, <1>3
    <3>5. QED
      BY <3>4
  <2>3. QED
    BY <2>1, <2>2
<1>8. ASSUME NEW k \in Keys, index[k] # None, map[index[k]] \in open
      PROVE  name[map[index[k]]] = k
  <2>1. CASE \E d \in docs : name[d] = k
    <3>1. PICK d \in docs : name[d] = k
      BY <2>1
    <3>2. map[index[k]] = d
      BY <3>1, <1>2, <1>3, <1>5
    <3>3. QED
      BY <3>1, <3>2
  <2>2. CASE \A d \in docs : name[d] # k
    <3>1. index[k] = idsByKey[k] /\ idsByKey[k] \notin gone /\ index[k] \in Handles
      BY <2>2, <1>3, <1>8
    <3>2. \A d \in docs : HandleOf(d, mint) # index[k]
      BY <2>2, <1>3, <1>4, <1>5, <1>8
    <3>3. map[index[k]] = entries[index[k]]
      BY <3>1, <3>2, <1>2
    <3>4. QED
      BY <3>1, <3>3, <1>8 DEF KeyInv, NamedIn
  <2>3. QED
    BY <2>1, <2>2
<1>9. ASSUME NEW h \in Handles, entries[h] \in open PROVE map[h] = entries[h]
  <2>1. h \notin gone /\ entries[h] # None
    BY <1>9, Unswept DEF gone, Inv, TypeOK, NativeTypeOK
  <2>2. QED
    BY <2>1, <1>2
<1>10. QED
  BY <1>7, <1>8, <1>9 DEF Findable, NamedIn

(* A grant stays where its handle does and its lease is not dropped. *)
LEMMA GrantsStay ==
  ASSUME Inv, GrantInv, open' \subseteq open,
         \A d \in open' : granted'[d] # None => granted'[d] = granted[d],
         NEW dropped, DropLeases(dropped),
         \A h \in Handles, d \in open' :
           granted'[d] # None /\ HoldsGrant(h, d) =>
             entries'[h] = entries[h] /\ leaseOf[h] \notin dropped
  PROVE  GrantInv'
<1> SUFFICES ASSUME NEW d \in open', granted'[d] # None
             PROVE  \E h \in Handles : HoldsGrant(h, d)'
  BY DEF GrantInv
<1>1. d \in open /\ granted'[d] = granted[d] /\ d \in Docs
  BY DEF Inv, TypeOK, NativeTypeOK
<1>2. PICK h \in Handles : HoldsGrant(h, d)
  BY <1>1 DEF GrantInv
<1>3. entries'[h] = entries[h] /\ leaseOf[h] \notin dropped
  BY <1>2
<1>4. leaseOf[h] \in LeaseIds
  BY <1>1, <1>2 DEF HoldsGrant, Inv, TypeOK
<1>5. leaseOf'[h] = leaseOf[h] /\ leases'[leaseOf[h]] = leases[leaseOf[h]]
  BY <1>3, <1>4 DEF DropLeases
<1>6. HoldsGrant(h, d)'
  BY <1>1, <1>2, <1>3, <1>5 DEF HoldsGrant
<1>7. QED
  BY <1>6

(* What a grant says of its lease, and what else has that lease. *)
LEMMA GrantedLease ==
  ASSUME Inv, NEW h \in Handles, NEW d \in Docs, granted[d] # None, HoldsGrant(h, d)
  PROVE  /\ leaseOf[h] \in LeaseIds /\ leaseOf[h] \notin ExpiredLeases
         /\ \A g \in Handles : leaseOf[g] = leaseOf[h] => g = h
<1>1. granted[d].lease \in LeaseIds /\ leaseOf[h] # None /\ leaseOf[h] \in LeaseIds
  BY DEF Inv, TypeOK, HoldsGrant
<1>2. \A g \in Handles : leaseOf[g] = leaseOf[h] => g = h
  BY <1>1 DEF Inv, RegistryInv, LeaseInv
<1>3. QED
  BY <1>1, <1>2 DEF HoldsGrant, ExpiredLeases

(* Registering open documents and purging expired leases takes no lease    *)
(* away.                                                                   *)
LEMMA AdoptedGrants ==
  ASSUME Inv, KeyInv, GrantInv, NEW docs, docs \subseteq open, NEW mint \in Mints(docs),
         NEW sweep \in BOOLEAN,
         entries' = NewEntries(docs, mint, Swept(docs, sweep)),
         NEW purged, purged \subseteq ExpiredLeases,
         DropLeases(LeasesOf(Swept(docs, sweep)) \cup purged),
         UNCHANGED <<open, granted>>
  PROVE  GrantInv'
<1> DEFINE gone == Swept(docs, sweep)
<1>1. gone \subseteq Handles
  BY SweptType DEF Inv
<1>2. \A h \in Handles : entries[h] \in open => entries'[h] = entries[h] /\ h \notin gone
  BY AdoptedKeys, Unswept
<1> HIDE DEF gone
<1>3. ASSUME NEW h \in Handles, NEW d \in open', granted'[d] # None, HoldsGrant(h, d)
      PROVE  entries'[h] = entries[h] /\ leaseOf[h] \notin LeasesOf(gone) \cup purged
  <2>1. d \in Docs /\ granted[d] # None /\ entries[h] \in open
    BY <1>3 DEF Inv, TypeOK, NativeTypeOK, HoldsGrant
  <2>2. leaseOf[h] \notin ExpiredLeases /\ \A g \in Handles : leaseOf[g] = leaseOf[h] => g = h
    BY <1>3, <2>1, GrantedLease
  <2>3. QED
    BY <1>1, <1>2, <2>1, <2>2 DEF LeasesOf
<1>4. QED
  BY <1>3, GrantsStay DEF gone

(* A permitted request presents the lease of its document. *)
LEMMA PermittedHolds ==
  ASSUME Inv', KeyInv', GrantInv', UNCHANGED <<open, granted>>,
         NEW s, NEW token, NEW h \in Handles, Permits(h, s, token),
         entries'[h] \in open, granted[entries'[h]] # None
  PROVE  granted[entries'[h]] = [lease |-> token, session |-> s]
<1>1. PICK d : d = entries'[h]
  OBVIOUS
<1>2. d \in open' /\ granted'[d] # None /\ d \in Docs
  BY <1>1 DEF Inv, TypeOK, NativeTypeOK
<1>3. PICK g \in Handles : HoldsGrant(g, d)'
  BY <1>2 DEF GrantInv
<1>4. entries'[g] = d
  BY <1>3 DEF HoldsGrant
<1>5. g = h
  <2>1. g # None /\ h # None /\ d # None
    BY <1>2
  <2>2. PICK j, k \in Keys : idsByKey'[j] = g /\ idsByKey'[k] = h
    BY <1>1, <1>4, <2>1 DEF KeyInv, Findable
  <2>3. name'[d] = j /\ name'[d] = k
    BY <1>1, <1>2, <1>4, <2>1, <2>2 DEF KeyInv, NamedIn
  <2>4. QED
    BY <2>2, <2>3
<1>6. granted'[d] \in [lease : LeaseIds, session : Sessions]
  BY <1>2 DEF Inv, TypeOK
<1>7. granted'[d].lease = token /\ granted'[d].session = s
  BY <1>2, <1>3, <1>5, <1>6 DEF HoldsGrant, Permits
<1>8. QED
  BY <1>1, <1>2, <1>6, <1>7

(* Documents that are registered were open. *)
LEMMA AdoptedSeen ==
  ASSUME Inv, SeenInv, NEW docs, docs \subseteq open, NEW mint \in Mints(docs), NEW gone,
         entries' = NewEntries(docs, mint, gone), UNCHANGED <<seen, open, granted>>
  PROVE  SeenInv'
<1>1. ASSUME NEW h \in Handles, entries'[h] # None PROVE entries'[h] \in seen
  <2>1. /\ \A d \in docs : HandleOf(d, mint) = h => entries'[h] = d
        /\ (\A d \in docs : HandleOf(d, mint) # h) =>
             entries'[h] = IF h \in gone THEN None ELSE entries[h]
    BY AdoptedEntry DEF Inv, RegistryInv
  <2>2. docs \subseteq seen
    BY DEF Inv, TypeOK, NativeTypeOK
  <2>3. QED
    BY <1>1, <2>1, <2>2 DEF SeenInv
<1>2. QED
  BY <1>1 DEF SeenInv

(* Steps of people and the clock. *)
LEMMA OpensNoticed ==
  ASSUME Inv, NoticedInv, NEW d \in Docs, NEW k \in Keys, UserOpens(d, k)
  PROVE  NoticedInv'
<1> USE DEF Inv, TypeOK, NativeTypeOK, UserOpens
<1>1. SeenInv'
  BY DEF NoticedInv, SeenInv
<1>2. ASSUME unnoticed' = 0 PROVE KeyInv' /\ GrantInv' /\ HoldsLease'
  <2>1. SeenInv /\ KeyInv /\ GrantInv /\ HoldsLease
    BY <1>2 DEF NoticedInv
  <2>2. \A h \in Handles : entries[h] # None => entries[h] # d
    BY <2>1 DEF SeenInv
  <2>3. \A e \in open : name'[e] = name[e]
    OBVIOUS
  <2>4. NamedIn(entries, idsByKey, name)'
    BY <2>1, <2>2, <2>3 DEF KeyInv, NamedIn, RegistryTypeOK, RegistryInv, IndexInv
  <2>5. KeyInv'
    BY <2>1, <2>4 DEF KeyInv, Findable
  <2>6. GrantInv'
    BY <2>1 DEF SeenInv, GrantInv, HoldsGrant
  <2>7. HoldsLease'
    BY <2>1, <2>2 DEF SeenInv, HoldsLease, Works
  <2>8. QED
    BY <2>5, <2>6, <2>7
<1>3. QED
  BY <1>1, <1>2 DEF NoticedInv

LEMMA PeopleNoticed ==
  ASSUME Inv, NoticedInv, NEW d \in Docs, NEW k \in Keys,
         UserRenames(d, k) \/ UserCloses(d) \/ UserActivates(d)
  PROVE  NoticedInv'
<1> USE DEF Inv, TypeOK, NativeTypeOK
<1>1. CASE UserRenames(d, k)
  <2>1. unnoticed' # 0
    BY <1>1 DEF UserRenames
  <2>2. SeenInv'
    BY <1>1 DEF UserRenames, NoticedInv, SeenInv
  <2>3. QED
    BY <2>1, <2>2 DEF NoticedInv
<1>2. CASE UserActivates(d)
  BY <1>2 DEF UserActivates, NoticedInv, SeenInv, KeyInv, Findable, NamedIn, GrantInv,
    HoldsGrant, HoldsLease
<1>3. CASE UserCloses(d)
  <2> USE DEF UserCloses, CloseNative
  <2>1. /\ open' = open \ {d} /\ granted'[d] = None /\ unnoticed' = unnoticed
        /\ \A e \in Docs : e # d => name'[e] = name[e] /\ granted'[e] = granted[e]
    BY <1>3
  <2>2. UNCHANGED <<seen, registry, work>>
    BY <1>3
  <2>3. SeenInv'
    BY <2>1, <2>2 DEF NoticedInv, SeenInv
  <2>4. ASSUME unnoticed' = 0 PROVE KeyInv' /\ GrantInv' /\ HoldsLease'
    <3>1. KeyInv /\ GrantInv /\ HoldsLease
      BY <2>1, <2>4 DEF NoticedInv
    <3>2. KeyInv'
      BY <2>1, <2>2, <3>1 DEF KeyInv, Findable, NamedIn
    <3>3. GrantInv'
      BY <2>1, <2>2, <3>1 DEF GrantInv, HoldsGrant
    <3>4. HoldsLease'
      BY <2>1, <2>2, <3>1 DEF HoldsLease
    <3>5. QED
      BY <3>2, <3>3, <3>4
  <2>5. QED
    BY <2>3, <2>4 DEF NoticedInv
<1>4. QED
  BY <1>1, <1>2, <1>3

LEMMA ExpireNoticed ==
  ASSUME Inv, NoticedInv, NEW l \in LeaseIds, Expire(l)
  PROVE  NoticedInv'
<1> USE DEF Inv, TypeOK, NativeTypeOK
<1>1. /\ UNCHANGED <<native, entries, idsByKey, current, leaseOf, work, unnoticed>>
      /\ \A m \in LeaseIds : m # l => leases'[m] = leases[m]
  BY DEF Expire, RegistryTypeOK
<1>2. \A e \in Docs : granted'[e] # None => granted'[e] = granted[e] /\ granted[e].lease # l
  BY DEF Expire
<1>3. SeenInv'
  BY <1>1, <1>2 DEF NoticedInv, SeenInv
<1>4. ASSUME unnoticed' = 0 PROVE KeyInv' /\ GrantInv' /\ HoldsLease'
  <2>1. KeyInv /\ GrantInv /\ HoldsLease
    BY <1>1, <1>4 DEF NoticedInv
  <2>2. KeyInv'
    BY <1>1, <2>1 DEF KeyInv, Findable, NamedIn
  <2>3. HoldsLease'
    BY <1>1, <1>2, <2>1 DEF HoldsLease
  <2>4. ASSUME NEW e \in open', granted'[e] # None PROVE \E h \in Handles : HoldsGrant(h, e)'
    <3>1. e \in open /\ e \in Docs /\ granted'[e] = granted[e] /\ granted[e].lease # l
          /\ granted[e] # None
      BY <1>1, <1>2, <2>4
    <3>2. PICK h \in Handles : HoldsGrant(h, e)
      BY <2>1, <3>1 DEF GrantInv
    <3>3. leaseOf[h] # l /\ leaseOf[h] \in LeaseIds
      BY <3>1, <3>2 DEF HoldsGrant
    <3>4. HoldsGrant(h, e)'
      BY <1>1, <3>1, <3>2, <3>3 DEF HoldsGrant
    <3>5. QED
      BY <3>4
  <2>5. QED
    BY <2>2, <2>3, <2>4 DEF GrantInv
<1>5. QED
  BY <1>3, <1>4 DEF NoticedInv

(* Operations that register documents. *)
LEMMA AdoptNoticed ==
  ASSUME Inv, NoticedInv, NEW docs, docs \subseteq open, NEW mint \in Mints(docs),
         NEW sweep \in BOOLEAN, NEW purged, purged \subseteq ExpiredLeases,
         Adopt(docs, mint, Swept(docs, sweep)),
         DropLeases(LeasesOf(Swept(docs, sweep)) \cup purged),
         UNCHANGED <<seen, open, name, history>>
  PROVE  SeenInv' /\ (unnoticed' = 0 => KeyInv' /\ GrantInv')
<1>1. /\ entries' = NewEntries(docs, mint, Swept(docs, sweep))
      /\ idsByKey' = NewIndex(docs, mint, Swept(docs, sweep))
  BY DEF Adopt
<1>2. SeenInv'
  BY <1>1, AdoptedSeen DEF NoticedInv
<1>3. ASSUME unnoticed = 0 PROVE KeyInv' /\ GrantInv'
  <2>1. KeyInv /\ GrantInv
    BY <1>3 DEF NoticedInv
  <2>2. Findable(entries', idsByKey') /\ NamedIn(entries', idsByKey', name)
    BY <1>1, <2>1, AdoptedKeys
  <2>3. GrantInv'
    BY <1>1, <2>1, AdoptedGrants
  <2>4. KeyInv'
    BY <2>2 DEF KeyInv, Findable, NamedIn
  <2>5. QED
    BY <2>3, <2>4
<1>4. QED
  BY <1>2, <1>3

LEMMA SyncNoticed ==
  ASSUME Inv, NoticedInv,
         \/ List
         \/ \E docs \in SUBSET open : SyncFails(docs)
         \/ \E s \in Sessions, h \in Handles : Use(s, h)
         \/ \E s \in Sessions, d \in Docs : OpenDocument(s, d)
  PROVE  NoticedInv'
<1>1. HoldsLease'
  BY DEF List, SyncFails, Use, OpenDocument, HoldsLease
<1>2. SeenInv' /\ (unnoticed' = 0 => KeyInv' /\ GrantInv')
  <2>1. CASE List
    <3>1. PICK mint \in Mints(open) :
            /\ Adopt(open, mint, Swept(open, TRUE))
            /\ DropLeases(LeasesOf(Swept(open, TRUE)) \cup {})
      BY <2>1 DEF List
    <3>2. UNCHANGED <<native, history>>
      BY <2>1 DEF List
    <3>3. QED
      BY <3>1, <3>2, AdoptNoticed
  <2>2. CASE \E docs \in SUBSET open : SyncFails(docs)
    <3>1. PICK docs \in SUBSET open : SyncFails(docs)
      BY <2>2
    <3>2. PICK mint \in Mints(docs) :
            /\ Adopt(docs, mint, Swept(docs, FALSE))
            /\ DropLeases(LeasesOf(Swept(docs, FALSE)) \cup {})
      BY <3>1 DEF SyncFails
    <3>3. UNCHANGED <<native, history>>
      BY <3>1 DEF SyncFails
    <3>4. QED
      BY <3>2, <3>3, AdoptNoticed
  <2>3. CASE \E s \in Sessions, h \in Handles : Use(s, h)
    <3>1. PICK mint \in Mints(open) :
            /\ Adopt(open, mint, Swept(open, TRUE))
            /\ DropLeases(LeasesOf(Swept(open, TRUE)) \cup {})
      BY <2>3 DEF Use
    <3>2. UNCHANGED <<native, history>>
      BY <2>3 DEF Use
    <3>3. QED
      BY <3>1, <3>2, AdoptNoticed
  <2>4. CASE \E s \in Sessions, d \in Docs : OpenDocument(s, d)
    <3>1. PICK s \in Sessions, d \in Docs : OpenDocument(s, d)
      BY <2>4
    <3>2. PICK mint \in Mints({d}) :
            /\ Adopt({d}, mint, Swept({d}, FALSE))
            /\ DropLeases(LeasesOf(Swept({d}, FALSE)) \cup {})
      BY <3>1 DEF OpenDocument
    <3>3. {d} \subseteq open /\ UNCHANGED <<seen, open, name, history>>
      BY <3>1 DEF OpenDocument
    <3>4. QED
      BY <3>2, <3>3, AdoptNoticed
  <2>5. QED
    BY <2>1, <2>2, <2>3, <2>4
<1>3. QED
  BY <1>1, <1>2 DEF NoticedInv

(* A request that passes its checks. *)
LEMMA SelectNoticed ==
  ASSUME Inv, Inv', NoticedInv, NEW s \in Sessions, NEW kind \in Kinds,
         NEW selector \in Handles \cup {"active", "current"},
         NEW token \in LeaseIds \cup {None}, NEW source \in Handles \cup {None},
         Select(s, kind, selector, token, source)
  PROVE  NoticedInv'
<1> DEFINE syncs == selector # "active" \/ kind = "views"
           docs  == IF syncs THEN open ELSE {active}
           gone  == Swept(docs, syncs)
           purged == IF kind \in Guarded THEN ExpiredLeases ELSE {}
<1>1. docs \subseteq open /\ syncs \in BOOLEAN /\ purged \subseteq ExpiredLeases
  BY DEF Select, Inv, TypeOK, NativeTypeOK
<1>2. PICK mint, h :
        /\ mint \in Mints(docs)
        /\ Adopt(docs, mint, gone)
        /\ DropLeases(LeasesOf(gone) \cup purged)
        /\ h = Target(s, selector) /\ Resolves(h)
        /\ kind \in Guarded => Permits(h, s, token)
        /\ work' = [kind |-> kind, session |-> s, handle |-> h,
                    token |-> token, source |-> source]
  BY DEF Select
<1>3. UNCHANGED <<native, history>>
  BY DEF Select
<1> HIDE DEF syncs, docs, purged
<1>4. SeenInv' /\ (unnoticed' = 0 => KeyInv' /\ GrantInv')
  BY <1>1, <1>2, <1>3, AdoptNoticed
<1>5. h \in Handles
  <2>1. h # None
    BY <1>2 DEF Resolves
  <2>2. CASE selector = "active"
    <3>1. active \in open /\ name[active] \in Keys
      BY <2>2 DEF Select, Inv, TypeOK, NativeTypeOK
    <3>2. QED
      BY <1>2, <2>1, <2>2, <3>1 DEF Target, Inv, TypeOK, RegistryTypeOK
  <2>3. CASE selector = "current"
    BY <1>2, <2>1, <2>3 DEF Target, Inv, TypeOK, RegistryTypeOK
  <2>4. CASE selector \in Handles
    BY <1>2, <2>4 DEF Target
  <2>5. QED
    BY <2>2, <2>3, <2>4
<1>6. work'.kind = kind /\ work'.session = s /\ work'.handle = h /\ work'.token = token
  BY <1>2
<1>7. ASSUME unnoticed' = 0 PROVE HoldsLease'
  <2>1. ASSUME kind \in Guarded, entries'[h] \in open', granted'[entries'[h]] # None
        PROVE  granted'[entries'[h]] = [lease |-> token, session |-> s]
    BY <1>2, <1>3, <1>4, <1>5, <1>7, <2>1, PermittedHolds
  <2>2. QED
    BY <1>6, <2>1 DEF HoldsLease
<1>8. QED
  BY <1>4, <1>7 DEF NoticedInv

(* Expired leases go, and the one that its session releases. *)
LEMMA PurgeNoticed ==
  ASSUME Inv, NoticedInv, NEW dropped, DropLeases(dropped),
         \A d \in Docs : granted'[d] # None =>
           granted'[d] = granted[d] /\ granted[d].lease \notin dropped \ ExpiredLeases,
         UNCHANGED <<native, entries, idsByKey, unnoticed>>
  PROVE  SeenInv' /\ (unnoticed' = 0 => KeyInv' /\ GrantInv')
<1>1. SeenInv'
  BY DEF NoticedInv, SeenInv
<1>2. ASSUME unnoticed = 0 PROVE KeyInv' /\ GrantInv'
  <2>1. KeyInv /\ GrantInv
    BY <1>2 DEF NoticedInv
  <2>2. KeyInv'
    BY <2>1 DEF KeyInv, Findable, NamedIn
  <2>3. ASSUME NEW h \in Handles, NEW d \in open', granted'[d] # None, HoldsGrant(h, d)
        PROVE  entries'[h] = entries[h] /\ leaseOf[h] \notin dropped
    <3>1. d \in Docs /\ granted[d] # None
      BY <2>3 DEF Inv, TypeOK, NativeTypeOK
    <3>2. leaseOf[h] \notin ExpiredLeases
      BY <2>3, <3>1, GrantedLease
    <3>3. leaseOf[h] = granted[d].lease
      BY <2>3 DEF HoldsGrant
    <3>4. QED
      BY <2>3, <3>1, <3>2, <3>3
  <2>4. \A d \in open' : granted'[d] # None => granted'[d] = granted[d]
    BY DEF Inv, TypeOK, NativeTypeOK
  <2>5. GrantInv'
    BY <2>1, <2>3, <2>4, GrantsStay
  <2>6. QED
    BY <2>2, <2>5
<1>3. QED
  BY <1>1, <1>2

LEMMA LeaseNoticed ==
  ASSUME Inv, NoticedInv,
         \/ RenewLease
         \/ \E s \in Sessions, l \in LeaseIds : ReleaseLease(s, l)
         \/ RunStatus
         \/ RunPlain
  PROVE  NoticedInv'
<1>1. HoldsLease'
  BY DEF RenewLease, ReleaseLease, RunStatus, RunPlain, HoldsLease
<1>2. CASE RenewLease \/ RunStatus
  <2>1. /\ DropLeases(ExpiredLeases)
        /\ UNCHANGED <<native, entries, idsByKey, history>>
    BY <1>2 DEF RenewLease, RunStatus
  <2>2. SeenInv' /\ (unnoticed' = 0 => KeyInv' /\ GrantInv')
    BY <2>1, PurgeNoticed
  <2>3. QED
    BY <1>1, <2>2 DEF NoticedInv
<1>3. CASE \E s \in Sessions, l \in LeaseIds : ReleaseLease(s, l)
  <2>1. PICK s \in Sessions, l \in LeaseIds : ReleaseLease(s, l)
    BY <1>3
  <2>2. /\ DropLeases(ExpiredLeases \cup {l})
        /\ UNCHANGED <<native, entries, idsByKey, unnoticed>>
        /\ \A d \in Docs : granted'[d] # None =>
             granted'[d] = granted[d]
               /\ granted[d].lease \notin (ExpiredLeases \cup {l}) \ ExpiredLeases
    BY <2>1 DEF ReleaseLease
  <2>3. SeenInv' /\ (unnoticed' = 0 => KeyInv' /\ GrantInv')
    BY <2>2, PurgeNoticed
  <2>4. QED
    BY <1>1, <2>3 DEF NoticedInv
<1>4. CASE RunPlain
  <2>1. UNCHANGED <<native, registry, history>>
    BY <1>4 DEF RunPlain
  <2>2. QED
    BY <1>1, <2>1 DEF NoticedInv, SeenInv, KeyInv, Findable, NamedIn, GrantInv, HoldsGrant
<1>5. QED
  BY <1>2, <1>3, <1>4

(* acquire_lease. *)
LEMMA AcquireNoticed ==
  ASSUME Inv, NoticedInv, RunAcquire
  PROVE  NoticedInv'
<1>1. PICK h, d : h = work.handle /\ d = entries[h]
  OBVIOUS
<1> DEFINE existing == IF leaseOf[h] \in ExpiredLeases THEN None ELSE leaseOf[h]
<1>2. /\ HoldsLease' /\ h \in Handles /\ work.session \in Sessions
      /\ UNCHANGED <<native, entries, idsByKey, unnoticed>>
  BY <1>1 DEF RunAcquire, HoldsLease, Inv, TypeOK, Works
<1>3. CASE DropLeases(ExpiredLeases) /\ UNCHANGED granted
  <2>1. SeenInv' /\ (unnoticed' = 0 => KeyInv' /\ GrantInv')
    BY <1>2, <1>3, PurgeNoticed
  <2>2. QED
    BY <1>2, <2>1 DEF NoticedInv
<1>4. ASSUME existing = None, NEW l \in LeaseIds, leases[l] = None \/ l \in ExpiredLeases,
             leases' = [x \in LeaseIds |->
               IF x = l THEN [document |-> h, session |-> work.session, expired |-> FALSE]
               ELSE IF x \in ExpiredLeases THEN None ELSE leases[x]],
             leaseOf' = [x \in Handles |->
               IF x = h THEN l
               ELSE IF leaseOf[x] \in ExpiredLeases THEN None ELSE leaseOf[x]],
             granted' = IF d \in open
                        THEN [granted EXCEPT ![d] = [lease |-> l, session |-> work.session]]
                        ELSE granted
      PROVE  NoticedInv'
  <2>1. d \in Docs \cup {None}
    BY <1>1, <1>2 DEF Inv, TypeOK, RegistryTypeOK
  <2>2. SeenInv'
    BY <1>2, <1>4, <2>1 DEF NoticedInv, SeenInv, Inv, TypeOK, NativeTypeOK
  <2>3. ASSUME unnoticed' = 0 PROVE KeyInv' /\ GrantInv'
    <3>1. KeyInv /\ GrantInv
      BY <1>2, <2>3 DEF NoticedInv
    <3>2. KeyInv'
      BY <1>2, <3>1 DEF KeyInv, Findable, NamedIn
    <3>3. ASSUME NEW e \in open', granted'[e] # None PROVE \E g \in Handles : HoldsGrant(g, e)'
      <4>1. e \in open /\ e \in Docs
        BY <1>2 DEF Inv, TypeOK, NativeTypeOK
      <4>2. CASE e = d
        <5>1. granted'[e] = [lease |-> l, session |-> work.session]
          BY <1>4, <4>1, <4>2 DEF Inv, TypeOK
        <5>2. /\ leaseOf'[h] = l
              /\ leases'[l] = [document |-> h, session |-> work.session, expired |-> FALSE]
          BY <1>2, <1>4
        <5>3. HoldsGrant(h, e)'
          BY <1>1, <1>2, <4>2, <5>1, <5>2 DEF HoldsGrant
        <5>4. QED
          BY <1>2, <5>3
      <4>3. CASE e # d
        <5>1. granted'[e] = granted[e]
          BY <1>4, <4>1, <4>3 DEF Inv, TypeOK
        <5>2. PICK g \in Handles : HoldsGrant(g, e)
          BY <3>1, <3>3, <4>1, <5>1 DEF GrantInv
        <5>3. leaseOf[g] \in LeaseIds /\ leaseOf[g] \notin ExpiredLeases
          BY <3>3, <4>1, <5>1, <5>2, GrantedLease
        <5>4. g # h
          BY <1>1, <4>3, <5>2 DEF HoldsGrant
        <5>5. leases[leaseOf[g]] # None
          BY <5>3 DEF Inv, RegistryInv, LeaseInv
        <5>6. leaseOf'[g] = leaseOf[g] /\ leases'[leaseOf[g]] = leases[leaseOf[g]]
          BY <1>4, <5>3, <5>4, <5>5
        <5>7. HoldsGrant(g, e)'
          BY <1>2, <5>1, <5>2, <5>6 DEF HoldsGrant
        <5>8. QED
          BY <5>7
      <4>4. QED
        BY <4>2, <4>3
    <3>4. QED
      BY <3>2, <3>3 DEF GrantInv
  <2>4. QED
    BY <1>2, <2>2, <2>3 DEF NoticedInv
<1>5. \/ DropLeases(ExpiredLeases) /\ UNCHANGED granted
      \/ /\ existing = None
         /\ \E l \in LeaseIds :
              /\ leases[l] = None \/ l \in ExpiredLeases
              /\ leases' = [x \in LeaseIds |->
                   IF x = l THEN [document |-> h, session |-> work.session, expired |-> FALSE]
                   ELSE IF x \in ExpiredLeases THEN None ELSE leases[x]]
              /\ leaseOf' = [x \in Handles |->
                   IF x = h THEN l
                   ELSE IF leaseOf[x] \in ExpiredLeases THEN None ELSE leaseOf[x]]
              /\ granted' = IF d \in open
                            THEN [granted EXCEPT ![d] = [lease |-> l, session |-> work.session]]
                            ELSE granted
  BY <1>1, Zenon DEF RunAcquire
<1>6. QED
  BY <1>3, <1>4, <1>5

(* document.close. *)
LEMMA CloseNoticed ==
  ASSUME Inv, NoticedInv, RunClose
  PROVE  NoticedInv'
<1>1. PICK h, d : h = work.handle /\ d = entries[h]
  OBVIOUS
<1>2. /\ HoldsLease' /\ h \in Handles /\ unnoticed' = unnoticed /\ UNCHANGED seen
  BY <1>1 DEF RunClose, HoldsLease, Inv, TypeOK, Works
<1>3. CASE UNCHANGED <<open, name, active, registry, granted>>
  BY <1>2, <1>3 DEF NoticedInv, SeenInv, KeyInv, Findable, NamedIn, GrantInv, HoldsGrant
<1>4. CASE /\ d \in open
           /\ \/ CloseNative(d)
              \/ /\ granted' = [granted EXCEPT ![d] = None]
                 /\ UNCHANGED <<open, name, active>>
           /\ entries' = [entries EXCEPT ![h] = None]
           /\ idsByKey' = [k \in Keys |-> IF idsByKey[k] = h THEN None ELSE idsByKey[k]]
           /\ DropLeases(LeasesOf({h}))
  <2>1. /\ d \in Docs /\ open' \subseteq open /\ granted'[d] = None
        /\ \A e \in Docs : e # d => name'[e] = name[e] /\ granted'[e] = granted[e]
        /\ \A e \in open : e # d => e \in open'
    BY <1>4 DEF CloseNative, Inv, TypeOK, NativeTypeOK
  <2>2. /\ entries'[h] = None
        /\ \A g \in Handles : g # h => entries'[g] = entries[g]
    BY <1>2, <1>4 DEF Inv, TypeOK, RegistryTypeOK
  <2>3. SeenInv'
    BY <1>2, <2>1, <2>2 DEF NoticedInv, SeenInv
  <2>4. ASSUME unnoticed' = 0 PROVE KeyInv' /\ GrantInv'
    <3>1. KeyInv /\ GrantInv
      BY <1>2, <2>4 DEF NoticedInv
    <3>2. Findable(entries, idsByKey)'
      BY <1>4, <2>2, <3>1 DEF KeyInv, Findable
    <3>3. NamedIn(entries, idsByKey, name)'
      <4>1. SUFFICES ASSUME NEW k \in Keys, idsByKey'[k] # None,
                            entries'[idsByKey'[k]] \in open'
                     PROVE  name'[entries'[idsByKey'[k]]] = k
        BY DEF NamedIn
      <4>2. idsByKey'[k] = idsByKey[k] /\ idsByKey[k] # h /\ idsByKey[k] \in Handles
        BY <1>4, <4>1 DEF Inv, TypeOK, RegistryTypeOK
      <4>3. entries[idsByKey[k]] \in open /\ name[entries[idsByKey[k]]] = k
        BY <2>1, <2>2, <3>1, <4>1, <4>2 DEF KeyInv, NamedIn
      <4>4. entries[idsByKey[k]] # d
        BY <1>1, <1>2, <1>4, <3>1, <4>2, <4>3, NameLeads
      <4>5. QED
        BY <2>1, <2>2, <4>2, <4>3, <4>4 DEF Inv, TypeOK, NativeTypeOK
    <3>4. KeyInv'
      BY <3>2, <3>3 DEF KeyInv
    <3>5. ASSUME NEW g \in Handles, NEW e \in open', granted'[e] # None, HoldsGrant(g, e)
          PROVE  entries'[g] = entries[g] /\ leaseOf[g] \notin LeasesOf({h})
      <4>1. e \in Docs /\ e # d /\ granted[e] # None
        BY <2>1, <3>5 DEF Inv, TypeOK, NativeTypeOK
      <4>2. g # h
        BY <1>1, <3>5, <4>1 DEF HoldsGrant
      <4>3. leaseOf[h] # leaseOf[g]
        BY <1>2, <3>5, <4>1, <4>2, GrantedLease
      <4>4. QED
        BY <2>2, <4>2, <4>3 DEF LeasesOf
    <3>6. \A e \in open' : granted'[e] # None => granted'[e] = granted[e]
      BY <2>1 DEF Inv, TypeOK, NativeTypeOK
    <3>7. GrantInv'
      BY <1>4, <2>1, <3>1, <3>5, <3>6, GrantsStay
    <3>8. QED
      BY <3>4, <3>7
  <2>5. QED
    BY <1>2, <2>3, <2>4 DEF NoticedInv
<1>5. QED
  BY <1>1, <1>3, <1>4 DEF RunClose

(* A native rename whose key is noticed, when the new key is free or the   *)
(* handle's own.                                                           *)
LEMMA RefreshedKeys ==
  ASSUME Inv, Inv', KeyInv, NEW map, NEW index, NEW h \in Handles, NEW d \in open,
         map = entries', UNCHANGED open, map[h] = d,
         Findable(map, index), NamedIn(map, index, name),
         \A j, k \in Keys : index[j] # None /\ index[j] = index[k] => j = k,
         index \in [Keys -> Handles \cup {None}],
         index[name'[d]] \in {None, h},
         \A e \in open : e # d => name'[e] = name[e],
         Refreshes(index, h, d), unnoticed = 0, unnoticed' = 0
  PROVE  KeyInv'
<1>1. d \in Docs /\ name'[d] \in Keys /\ name[d] \in Keys /\ d # None
  BY DEF Inv, TypeOK, NativeTypeOK
<1>2. PICK old \in Keys : index[old] = h
  BY <1>1 DEF Findable
<1>3. old = name[d]
  BY <1>2 DEF NamedIn
<1>4. CASE idsByKey' = RefreshKey(index, h, name'[d])
  <2>1. \A x \in Keys :
          idsByKey'[x] = IF x = name'[d] THEN h ELSE IF index[x] = h THEN None ELSE index[x]
    BY <1>4 DEF RefreshKey
  <2>2. ASSUME NEW g \in Handles, entries'[g] # None PROVE \E k \in Keys : idsByKey'[k] = g
    <3>1. CASE g = h
      BY <1>1, <2>1, <3>1
    <3>2. CASE g # h
      <4>1. PICK k \in Keys : index[k] = g
        BY <2>2 DEF Findable
      <4>2. k # name'[d]
        BY <3>2, <4>1
      <4>3. QED
        BY <2>1, <3>2, <4>1, <4>2
    <3>3. QED
      BY <3>1, <3>2
  <2>3. ASSUME NEW k \in Keys, idsByKey'[k] # None, entries'[idsByKey'[k]] \in open'
        PROVE  name'[entries'[idsByKey'[k]]] = k
    <3>1. CASE k = name'[d]
      BY <2>1, <3>1
    <3>2. CASE k # name'[d]
      <4>1. idsByKey'[k] = index[k] /\ index[k] # h /\ index[k] # None
        BY <2>1, <2>3, <3>2
      <4>2. name[map[index[k]]] = k
        BY <2>3, <4>1 DEF NamedIn
      <4>3. map[index[k]] # d
        BY <1>2, <1>3, <4>1, <4>2
      <4>4. QED
        BY <2>3, <4>1, <4>2, <4>3
    <3>3. QED
      BY <3>1, <3>2
  <2>4. QED
    BY <2>2, <2>3 DEF KeyInv, Findable, NamedIn
<1>5. CASE idsByKey' = index /\ name'[d] = name[d]
  <2>1. \A e \in open : name'[e] = name[e]
    BY <1>5
  <2>2. QED
    BY <1>5, <2>1 DEF KeyInv, Findable, NamedIn
<1>6. QED
  BY <1>4, <1>5 DEF Refreshes

(* document.save-as. *)
LEMMA SaveAsNoticed ==
  ASSUME Inv, Inv', NoticedInv, NEW k \in PathKeys, RunSaveAs(k)
  PROVE  NoticedInv'
<1>1. PICK h, d : h = work.handle /\ d = entries[h]
  OBVIOUS
<1>2. /\ HoldsLease' /\ h \in Handles
      /\ UNCHANGED <<seen, open, active, entries, current, leases, leaseOf, granted>>
  BY <1>1 DEF RunSaveAs, HoldsLease, Inv, TypeOK, Works
<1>3. SeenInv'
  BY <1>2 DEF NoticedInv, SeenInv
<1>4. CASE UNCHANGED <<name, idsByKey, unnoticed>>
  BY <1>2, <1>3, <1>4 DEF NoticedInv, KeyInv, Findable, NamedIn, GrantInv, HoldsGrant
<1>5. CASE /\ idsByKey[k] \in {None, h} /\ d \in open
           /\ name' = [name EXCEPT ![d] = k] \/ UNCHANGED name
           /\ Refreshes(idsByKey, h, d)
  <2>1. ASSUME unnoticed' = 0 PROVE KeyInv' /\ GrantInv'
    <3>1. unnoticed = 0
      BY <1>5, <2>1 DEF Refreshes, Inv, TypeOK
    <3>2. KeyInv /\ GrantInv
      BY <3>1 DEF NoticedInv
    <3>3. d \in Docs /\ (name'[d] = k \/ name'[d] = name[d])
          /\ \A e \in open : e # d => name'[e] = name[e]
      BY <1>5 DEF Inv, TypeOK, NativeTypeOK
    <3>4. idsByKey[name'[d]] \in {None, h}
      BY <1>1, <1>2, <1>5, <3>2, <3>3, NameLeads
    <3>5. /\ Findable(entries, idsByKey) /\ NamedIn(entries, idsByKey, name)
          /\ idsByKey \in [Keys -> Handles \cup {None}]
          /\ \A i, j \in Keys : idsByKey[i] # None /\ idsByKey[i] = idsByKey[j] => i = j
      BY <3>2 DEF KeyInv, Inv, TypeOK, RegistryTypeOK, RegistryInv, IndexInv
    <3>6. KeyInv'
      BY <1>1, <1>2, <1>5, <2>1, <3>1, <3>2, <3>3, <3>4, <3>5, RefreshedKeys
    <3>7. GrantInv'
      BY <1>2, <3>2 DEF GrantInv, HoldsGrant
    <3>8. QED
      BY <3>6, <3>7
  <2>2. QED
    BY <1>2, <1>3, <2>1 DEF NoticedInv
<1>6. QED
  BY <1>1, <1>4, <1>5 DEF RunSaveAs

(* drawing.standard-views. *)
LEMMA ViewsNoticed ==
  ASSUME Inv, Inv', NoticedInv, RunViews
  PROVE  NoticedInv'
<1>1. PICK h, d : h = work.handle /\ d = entries[h]
  OBVIOUS
<1>2. HoldsLease' /\ h \in Handles /\ UNCHANGED <<seen, open, active, granted>>
  BY <1>1 DEF RunViews, HoldsLease, Inv, TypeOK, Works
<1>3. PICK mint, index :
        /\ mint \in Mints(open)
        /\ index = NewIndex(open, mint, Swept(open, TRUE))
        /\ entries' = NewEntries(open, mint, Swept(open, TRUE))
        /\ DropLeases(LeasesOf(Swept(open, TRUE)) \cup {})
        /\ \/ /\ d \in open
              /\ \/ \E k \in TitleKeys \ Names : name' = [name EXCEPT ![d] = k]
                 \/ UNCHANGED name
              /\ IF entries'[h] = d THEN Refreshes(index, h, d)
                 ELSE idsByKey' = index /\ UNCHANGED unnoticed
           \/ idsByKey' = index /\ UNCHANGED <<name, unnoticed>>
  BY <1>1 DEF RunViews
<1>4. SeenInv'
  BY <1>2, <1>3, AdoptedSeen DEF NoticedInv
<1>5. ASSUME unnoticed' = 0 PROVE KeyInv' /\ GrantInv'
  <2>1. unnoticed = 0
    <3>1. unnoticed' = unnoticed \/ unnoticed' = unnoticed + 1
      BY <1>3 DEF Refreshes
    <3>2. QED
      BY <1>5, <3>1 DEF Inv, TypeOK
  <2>2. KeyInv /\ GrantInv
    BY <2>1 DEF NoticedInv
  <2>3. PICK map : map = entries'
    OBVIOUS
  <2>4. /\ Findable(map, index) /\ NamedIn(map, index, name)
        /\ \A g \in Handles : entries[g] \in open => map[g] = entries[g]
    BY <1>3, <2>2, <2>3, AdoptedKeys
  <2>5. GrantInv'
    BY <1>2, <1>3, <2>2, AdoptedGrants
  <2>6. CASE idsByKey' = index /\ UNCHANGED name
    BY <1>2, <2>3, <2>4, <2>5, <2>6 DEF KeyInv, Findable, NamedIn
  <2>7. CASE /\ d \in open
             /\ \/ \E k \in TitleKeys \ Names : name' = [name EXCEPT ![d] = k]
                \/ UNCHANGED name
             /\ Refreshes(index, h, d)
    <3>1. map[h] = d /\ d \in Docs /\ d # None /\ name[d] \in Keys
      BY <1>1, <1>2, <2>4, <2>7 DEF Inv, TypeOK, NativeTypeOK
    <3>2. /\ index \in [Keys -> Handles \cup {None}]
          /\ \A j, k \in Keys : index[j] # None /\ index[j] = index[k] => j = k
      <4>1. TypeOK /\ IndexInv /\ open \subseteq open /\ TRUE \in BOOLEAN
        BY DEF Inv, RegistryInv
      <4>2. /\ index \in [Keys -> Handles \cup {None}]
            /\ Indexed(NewEntries(open, mint, Swept(open, TRUE)), index)
        BY <1>3, <4>1, AdoptedIndexed
      <4>3. QED
        BY <4>2 DEF Indexed
    <3>3. \A e \in open : e # d => name'[e] = name[e]
      BY <2>7 DEF Inv, TypeOK, NativeTypeOK
    <3>4. index[name'[d]] \in {None, h}
      <4>1. CASE UNCHANGED name
        BY <1>2, <3>1, <2>4, <2>7, <4>1 DEF Findable, NamedIn
      <4>2. ASSUME NEW k \in TitleKeys \ Names, name' = [name EXCEPT ![d] = k]
            PROVE  index[name'[d]] = None
        <5>1. name'[d] = k /\ k \in Keys /\ \A e \in open : name[e] # k
          BY <3>1, <4>2 DEF Inv, TypeOK, NativeTypeOK, Names
        <5>2. index[k] = IF idsByKey[k] \in Swept(open, TRUE) THEN None ELSE idsByKey[k]
          <6>1. PICK gone : gone = Swept(open, TRUE)
            OBVIOUS
          <6>2. /\ TypeOK /\ IndexInv /\ open \subseteq open /\ mint \in Mints(open)
                /\ index = NewIndex(open, mint, gone)
            BY <1>3, <6>1 DEF Inv, RegistryInv
          <6>3. index[k] = IF idsByKey[k] \in gone THEN None ELSE idsByKey[k]
            BY <5>1, <6>2, AdoptedIndex
          <6>4. QED
            BY <6>1, <6>3
        <5>3. idsByKey[k] # None => idsByKey[k] \in Swept(open, TRUE)
          BY <4>2, <5>1 DEF Swept, Closed
        <5>4. QED
          BY <5>1, <5>2, <5>3
      <4>3. QED
        BY <2>7, <4>1, <4>2
    <3>5. KeyInv'
      BY <1>2, <1>5, <2>1, <2>2, <2>3, <2>4, <2>7, <3>1, <3>2, <3>3, <3>4, RefreshedKeys
    <3>6. QED
      BY <2>5, <3>5
  <2>8. QED
    BY <1>1, <1>2, <1>3, <2>3, <2>4, <2>6, <2>7
<1>6. QED
  BY <1>2, <1>4, <1>5 DEF NoticedInv

LEMMA StepNoticed ==
  ASSUME Inv, Inv', NoticedInv, [Next]_vars
  PROVE  NoticedInv'
<1>1. CASE UNCHANGED vars
  BY <1>1 DEF NoticedInv, SeenInv, KeyInv, Findable, NamedIn, GrantInv, HoldsGrant, HoldsLease
<1>2. CASE Next
  <2>1. CASE \E d \in Docs, k \in Keys : UserOpens(d, k) \/ UserRenames(d, k)
    BY <2>1, OpensNoticed, PeopleNoticed
  <2>2. CASE \E d \in Docs : UserCloses(d) \/ UserActivates(d)
    <3>1. CASE Keys = {}
      BY <2>2, <3>1 DEF UserCloses, UserActivates, Inv, TypeOK, NativeTypeOK
    <3>2. CASE Keys # {}
      BY <2>2, <3>2, PeopleNoticed
    <3>3. QED
      BY <3>1, <3>2
  <2>3. CASE \E l \in LeaseIds : Expire(l)
    BY <2>3, ExpireNoticed
  <2>4. CASE \E s \in Sessions, kind \in Kinds, selector \in Handles \cup {"active", "current"},
                token \in LeaseIds \cup {None}, source \in Handles \cup {None} :
               Select(s, kind, selector, token, source)
    BY <2>4, SelectNoticed
  <2>5. CASE \E k \in PathKeys : RunSaveAs(k)
    BY <2>5, SaveAsNoticed
  <2>6. QED
    BY <1>2, <2>1, <2>2, <2>3, <2>4, <2>5, SyncNoticed, LeaseNoticed, AcquireNoticed,
       CloseNoticed, ViewsNoticed DEF Next
<1>3. QED
  BY <1>1, <1>2

LEMMA Noticed == Spec => [](Inv /\ NoticedInv)
<1>1. Init => NoticedInv
  BY DEF Init, NoticedInv, SeenInv, KeyInv, Findable, NamedIn, GrantInv, HoldsLease
<1>2. Inv /\ NoticedInv /\ [Next]_vars => (Inv /\ NoticedInv)'
  BY StepInv, StepNoticed
<1>3. QED
  BY InitInv, <1>1, <1>2, PTL DEF Spec

(* As long as every new name goes through refresh_key, a document has one  *)
(* handle, found by the name it has now.                                   *)
THEOREM KeysAreCurrent == Spec => []KeysCurrent
<1>1. Inv /\ NoticedInv => KeysCurrent
  BY DEF NoticedInv, KeyInv, Findable, NamedIn, KeysCurrent
<1>2. QED
  BY <1>1, Noticed, PTL

(* A lease lasts until it expires, its session releases it or the document *)
(* closes, whatever other sessions and people do meanwhile.                *)
THEOREM GrantsAreKept == Spec => []GrantKept
<1>1. Inv /\ NoticedInv => GrantKept
  BY DEF NoticedInv, GrantInv, HoldsGrant, GrantKept
<1>2. QED
  BY <1>1, Noticed, PTL

(* A guarded operation that passed its checks holds the lease of the       *)
(* native document it is about to change, people acting in between or not. *)
THEOREM WritersHoldTheirLease == Spec => []WriterHoldsLease
<1>1. Inv /\ NoticedInv => WriterHoldsLease
  BY DEF NoticedInv, WriterHoldsLease
<1>2. QED
  BY <1>1, Noticed, PTL
=============================================================================
