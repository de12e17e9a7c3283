--------------------------- MODULE DocumentRegistry ---------------------------
(***************************************************************************)
(* The document handles and leases of the COM worker (daemon/documents.py, *)
(* DocumentRegistry) under the operations that use them                    *)
(* (daemon/operations.py, execute_operation and the document.* handlers).  *)
(*                                                                         *)
(* The registry finds a native document by its key, a path or an unsaved   *)
(* title, while people open, close, rename and activate documents in the   *)
(* same SOLIDWORKS.  The worker runs one operation at a time: it selects   *)
(* and checks the document, then runs the handler; people and the clock    *)
(* may act between the two.                                                *)
(*                                                                         *)
(* Sketch, feature, dimension and entity handles, update stamps and        *)
(* temporary activation are not modelled here.                             *)
(***************************************************************************)
EXTENDS Naturals

CONSTANTS
  Docs,          \* native documents; one that closed never opens again
  PathKeys,      \* keys of saved documents
  TitleKeys,     \* keys of unsaved documents
  Handles,       \* document_id values
  LeaseIds,      \* lease_id values
  Sessions,      \* session_id values
  MaxUnnoticed,  \* bound on the new names the registry is not told of
  None

Keys == PathKeys \cup TitleKeys

(* DocumentLease; "expired" is what its expires_at has come to. *)
Leases == [document : Handles, session : Sessions, expired : BOOLEAN]

ASSUME RegistryAssumption ==
  /\ PathKeys \cap TitleKeys = {}
  /\ None \notin Docs \cup Keys \cup Handles \cup LeaseIds \cup Sessions \cup Leases
  /\ {"active", "current"} \cap Handles = {}
  /\ MaxUnnoticed \in Nat

VARIABLES
  seen,        \* documents that have been open
  open,        \* documents open in SOLIDWORKS (GetDocuments)
  name,        \* the key of each open document (_document_key)
  active,      \* ActiveDoc
  entries,     \* _entries: entries[h] is the document of handle h
  idsByKey,    \* _ids_by_key
  current,     \* _current_by_session
  leases,      \* _leases_by_id
  leaseOf,     \* _lease_id_by_document
  work,        \* the operation that passed its checks, or None
  granted,     \* history: the unexpired lease last granted on a document
  unnoticed    \* history: how many new keys refresh_key was not told of

native   == <<seen, open, name, active>>
registry == <<entries, idsByKey, current, leases, leaseOf>>
history  == <<granted, unnoticed>>
vars     == <<native, registry, work, history>>

(* How the catalogue treats a selected document: "edit" stands for every   *)
(* lease-guarded operation that neither renames nor closes it, "read" for  *)
(* the unguarded ones.                                                     *)
Guarded == {"edit", "close", "save-as", "views"}
Kinds   == Guarded \cup {"read", "acquire", "status"}

(* A worker that has checked a request: the session, the entry selected,   *)
(* the token presented and, for drawing.standard-views, the source model.  *)
Works == [kind : Kinds, session : Sessions, handle : Handles,
          token : LeaseIds \cup {None}, source : Handles \cup {None}]

Names == {name[d] : d \in open}

-----------------------------------------------------------------------------
(* Pieces of the registry *)

(* forget and _forget_lease: a handle takes its lease, its keys and its    *)
(* place as a session's current document with it.                          *)
LeasesOf(gone) == {leaseOf[h] : h \in gone} \ {None}
ExpiredLeases  == {l \in LeaseIds : leases[l] # None /\ leases[l].expired}

(* Mutant: the token survives, only the document's link to it goes. *)
MutantDropLeases(dropped) ==
  /\ leases' = leases
  /\ leaseOf' = [h \in Handles |-> IF leaseOf[h] \in dropped THEN None ELSE leaseOf[h]]

DropLeases(dropped) ==
  /\ leases' = [l \in LeaseIds |-> IF l \in dropped THEN None ELSE leases[l]]
  /\ leaseOf' = [h \in Handles |->
       IF leaseOf[h] \in dropped /\ leases[leaseOf[h]].document = h
       THEN None ELSE leaseOf[h]]

(* register: the key finds a candidate, IsSame decides.  A handle found by *)
(* key that is another (closed) document is forgotten and a new one minted. *)
(* Mutant: the key alone decides.                                           *)
MutantKnown(d) == idsByKey[name[d]] # None

Known(d) == idsByKey[name[d]] # None /\ entries[idsByKey[name[d]]] = d

Unknown(docs)   == {d \in docs : ~Known(d)}
Displaced(docs) == {idsByKey[name[d]] : d \in Unknown(docs)} \ {None}

(* _new_id: any handle not in use. *)
Mints(docs) ==
  {m \in [Unknown(docs) -> {h \in Handles : entries[h] = None}] :
     \A d, e \in Unknown(docs) : m[d] = m[e] => d = e}

HandleOf(d, mint) == IF Known(d) THEN idsByKey[name[d]] ELSE mint[d]

NewEntries(docs, mint, gone) ==
  [h \in Handles |->
     IF \E d \in docs : HandleOf(d, mint) = h
     THEN CHOOSE d \in docs : HandleOf(d, mint) = h
     ELSE IF h \in gone THEN None ELSE entries[h]]

NewIndex(docs, mint, gone) ==
  [k \in Keys |->
     IF \E d \in docs : name[d] = k
     THEN HandleOf(CHOOSE d \in docs : name[d] = k, mint)
     ELSE IF idsByKey[k] \in gone THEN None ELSE idsByKey[k]]

NewCurrent(gone) == [s \in Sessions |-> IF current[s] \in gone THEN None ELSE current[s]]

(* sync forgets every handle whose key no open document has. *)
Closed == {idsByKey[k] : k \in Keys \ Names} \ {None}

(* What registering some of the open documents does.  A complete sync also *)
(* forgets the closed ones.                                                *)
Swept(docs, sweep) == Displaced(docs) \cup (IF sweep THEN Closed ELSE {})

Adopt(docs, mint, gone) ==
  /\ entries' = NewEntries(docs, mint, gone)
  /\ idsByKey' = NewIndex(docs, mint, gone)

(* refresh_key after a native rename to key k: the handle keeps its entry. *)
(* Mutants: the index is left alone, or gets the key for the id.            *)
MutantKeepsOldKey(index, h, k) == index
MutantIndexesKey(index, h, k)  == [index EXCEPT ![k] = k]

RefreshKey(index, h, k) ==
  IF k \in PathKeys /\ index[k] \notin {None, h}
  THEN index                       \* DocumentPathConflict
  ELSE [x \in Keys |-> IF x = k THEN h ELSE IF index[x] = h THEN None ELSE index[x]]

(* require_lease.  Mutant: any token will do for a leased document. *)
MutantPermits(h, session, token) ==
  leaseOf'[h] = None => token = None

Permits(h, session, token) ==
  /\ token = leaseOf'[h]
  /\ token # None => leases'[token].session = session

-----------------------------------------------------------------------------
(* People at the same SOLIDWORKS, and the clock *)

UserOpens(d, k) ==
  /\ d \notin seen /\ k \notin Names
  /\ seen' = seen \cup {d}
  /\ open' = open \cup {d}
  /\ name' = [name EXCEPT ![d] = k]
  /\ active' = d
  /\ UNCHANGED <<registry, work, history>>

CloseNative(d) ==
  /\ open' = open \ {d}
  /\ name' = [name EXCEPT ![d] = None]
  /\ active' \in IF active = d THEN open' \cup {None} ELSE {active}
  /\ granted' = [granted EXCEPT ![d] = None]

UserCloses(d) ==
  /\ d \in open
  /\ CloseNative(d)
  /\ UNCHANGED <<seen, registry, work, unnoticed>>

(* Save As by hand, or another active sheet of an unsaved drawing. *)
UserRenames(d, k) ==
  /\ d \in open /\ k \notin Names
  /\ name[d] \in PathKeys => k \in PathKeys
  /\ unnoticed < MaxUnnoticed
  /\ name' = [name EXCEPT ![d] = k]
  /\ unnoticed' = unnoticed + 1
  /\ UNCHANGED <<seen, open, active, registry, work, granted>>

UserActivates(d) ==
  /\ d \in open
  /\ active' = d
  /\ UNCHANGED <<seen, open, name, registry, work, history>>

(* expires_at passes; the registry notices at its next purge. *)
Expire(l) ==
  /\ leases' = IF leases[l] = None THEN leases
               ELSE [leases EXCEPT ![l].expired = TRUE]
  /\ granted' = [d \in Docs |-> IF granted[d] # None /\ granted[d].lease = l
                                THEN None ELSE granted[d]]
  /\ UNCHANGED <<native, entries, idsByKey, current, leaseOf, work, unnoticed>>

-----------------------------------------------------------------------------
(* Operations without a selected document *)

(* document.create and document.open: OpenDoc6 of an open file returns the *)
(* document that is open.                                                  *)
OpenDocument(s, d) ==
  /\ work = None
  /\ d \in open
  /\ \E mint \in Mints({d}) :
       LET gone == Swept({d}, FALSE) IN
       /\ Adopt({d}, mint, gone)
       /\ current' = [NewCurrent(gone) EXCEPT ![s] = HandleOf(d, mint)]
       /\ DropLeases(LeasesOf(gone))
  /\ active' = d
  /\ UNCHANGED <<seen, open, name, work, history>>

(* document.list, and every sync an operation makes before it fails.       *)
List ==
  /\ work = None
  /\ \E mint \in Mints(open) :
       LET gone == Swept(open, TRUE) IN
       /\ Adopt(open, mint, gone)
       /\ current' = NewCurrent(gone)
       /\ DropLeases(LeasesOf(gone))
  /\ UNCHANGED <<native, work, history>>

(* A COM error that is not a disconnect ends sync after some documents.    *)
SyncFails(docs) ==
  /\ work = None
  /\ \E mint \in Mints(docs) :
       LET gone == Swept(docs, FALSE) IN
       /\ Adopt(docs, mint, gone)
       /\ current' = NewCurrent(gone)
       /\ DropLeases(LeasesOf(gone))
  /\ UNCHANGED <<native, work, history>>

(* document.use *)
Use(s, h) ==
  /\ work = None
  /\ \E mint \in Mints(open) :
       LET gone == Swept(open, TRUE) IN
       /\ Adopt(open, mint, gone)
       /\ entries'[h] # None
       /\ current' = [NewCurrent(gone) EXCEPT ![s] = h]
       /\ DropLeases(LeasesOf(gone))
  /\ UNCHANGED <<native, work, history>>

(* document.lease.renew: an expired lease is gone before it is looked up,  *)
(* so renewing changes only when the lease expires next.                   *)
RenewLease ==
  /\ work = None
  /\ DropLeases(ExpiredLeases)
  /\ UNCHANGED <<native, entries, idsByKey, current, work, history>>

ReleaseLease(s, l) ==
  /\ work = None
  /\ leases[l] # None /\ ~leases[l].expired /\ leases[l].session = s
  /\ DropLeases(ExpiredLeases \cup {l})
  /\ granted' = [d \in Docs |-> IF granted[d] # None /\ granted[d].lease = l
                                THEN None ELSE granted[d]]
  /\ UNCHANGED <<native, entries, idsByKey, current, work, unnoticed>>

-----------------------------------------------------------------------------
(* execute_operation on a selected document: resolve, then require_lease,  *)
(* then the source checks of drawing.standard-views.  A request that is    *)
(* refused, for want of a document, of permission or of a usable source,   *)
(* leaves what List, SyncFails and RenewLease do: documents registered,    *)
(* closed ones forgotten, expired leases purged.                           *)

Target(s, selector) ==
  IF selector = "active" THEN idsByKey'[name[active]]
  ELSE IF selector = "current" THEN current'[s] ELSE selector

Resolves(h) == h # None /\ entries'[h] # None

SourceUsable(s, h, source) ==
  /\ source # h /\ Resolves(source)
  /\ LET lease == leaseOf'[source] IN lease # None => leases'[lease].session = s

Select(s, kind, selector, token, source) ==
  /\ work = None
  /\ selector = "active" => active # None
  /\ kind \notin Guarded => token = None
  /\ (source = None) = (kind # "views")
  /\ LET syncs == selector # "active" \/ kind = "views"
         docs  == IF syncs THEN open ELSE {active}
         gone  == Swept(docs, syncs)
     IN \E mint \in Mints(docs) :
          /\ Adopt(docs, mint, gone)
          /\ current' = NewCurrent(gone)
          /\ DropLeases(LeasesOf(gone) \cup (IF kind \in Guarded THEN ExpiredLeases ELSE {}))
          /\ LET h == Target(s, selector) IN
             /\ Resolves(h)
             /\ kind \in Guarded => Permits(h, s, token)
             /\ kind = "views" => SourceUsable(s, h, source)
             /\ work' = [kind |-> kind, session |-> s, handle |-> h,
                         token |-> token, source |-> source]
  /\ UNCHANGED <<native, history>>

-----------------------------------------------------------------------------
(* Handlers *)

(* Reads and edits change no name and no handle. *)
RunPlain ==
  /\ work # None /\ work.kind \in {"read", "edit"}
  /\ work' = None
  /\ UNCHANGED <<native, registry, history>>

RunStatus ==
  /\ work # None /\ work.kind = "status"
  /\ DropLeases(ExpiredLeases)
  /\ work' = None
  /\ UNCHANGED <<native, entries, idsByKey, current, history>>

(* acquire_lease *)
RunAcquire ==
  /\ work # None /\ work.kind = "acquire"
  /\ LET h        == work.handle
         d        == entries[h]
         existing == IF leaseOf[h] \in ExpiredLeases THEN None ELSE leaseOf[h]
     IN \/ /\ existing # None       \* a conflict, or the same lease again
           /\ DropLeases(ExpiredLeases)
           /\ UNCHANGED granted
        \/ /\ existing = None
           /\ \E l \in LeaseIds :
                /\ leases[l] = None \/ l \in ExpiredLeases
                /\ leases' = [x \in LeaseIds |->
                     IF x = l THEN [document |-> h, session |-> work.session, expired |-> FALSE]
                     ELSE IF x \in ExpiredLeases THEN None ELSE leases[x]]
                /\ leaseOf' = [x \in Handles |->
                     IF x = h THEN l
                     ELSE IF leaseOf[x] \in ExpiredLeases THEN None ELSE leaseOf[x]]
                /\ granted' = IF d \in open
                              THEN [granted EXCEPT ![d] = [lease |-> l, session |-> work.session]]
                              ELSE granted
  /\ work' = None
  /\ UNCHANGED <<native, entries, idsByKey, current, unnoticed>>

(* document.close: CloseDoc reports nothing, so a document that another    *)
(* one keeps loaded is forgotten although it stays open.                   *)
RunClose ==
  /\ work # None /\ work.kind = "close"
  /\ LET h == work.handle
         d == entries[h]
     IN \/ /\ d \in open
           /\ \/ CloseNative(d)
              \/ /\ granted' = [granted EXCEPT ![d] = None]
                 /\ UNCHANGED <<open, name, active>>
           /\ entries' = [entries EXCEPT ![h] = None]
           /\ idsByKey' = [k \in Keys |-> IF idsByKey[k] = h THEN None ELSE idsByKey[k]]
           /\ current' = NewCurrent({h})
           /\ DropLeases(LeasesOf({h}))
        \/ UNCHANGED <<open, name, active, registry, granted>>
  /\ work' = None
  /\ UNCHANGED <<seen, unnoticed>>

(* document.save-as and drawing.standard-views refresh the key in any case; *)
(* a COM error can keep them from reading it.                               *)
Refreshes(index, h, d) ==
  \/ /\ idsByKey' = RefreshKey(index, h, name'[d])
     /\ UNCHANGED unnoticed
  \/ /\ idsByKey' = index
     /\ unnoticed' = IF name'[d] = name[d] THEN unnoticed ELSE unnoticed + 1
     /\ unnoticed' <= MaxUnnoticed

(* document.save-as: the destination may not belong to another handle, nor *)
(* exist.                                                                  *)
RunSaveAs(k) ==
  /\ work # None /\ work.kind = "save-as"
  /\ LET h == work.handle
         d == entries[h]
     IN IF idsByKey[k] \in {None, h} /\ d \in open
        THEN /\ \/ k \notin Names /\ name' = [name EXCEPT ![d] = k]
                \/ UNCHANGED name
             /\ Refreshes(idsByKey, h, d)
        ELSE UNCHANGED <<name, idsByKey, unnoticed>>
  /\ work' = None
  /\ UNCHANGED <<seen, open, active, entries, current, leases, leaseOf, granted>>

(* drawing.standard-views resolves its source again, which syncs, then     *)
(* inserts the views, which may retitle an unsaved drawing.                *)
RunViews ==
  /\ work # None /\ work.kind = "views"
  /\ \E mint \in Mints(open) :
       LET h     == work.handle
           d     == entries[h]
           gone  == Swept(open, TRUE)
           index == NewIndex(open, mint, gone)
       IN /\ entries' = NewEntries(open, mint, gone)
          /\ current' = NewCurrent(gone)
          /\ DropLeases(LeasesOf(gone))
          /\ IF entries'[work.source] # None /\ d \in open
             THEN /\ \/ /\ name[d] \in TitleKeys
                        /\ \E k \in TitleKeys \ Names : name' = [name EXCEPT ![d] = k]
                     \/ UNCHANGED name
                  /\ IF entries'[h] = d THEN Refreshes(index, h, d)
                     ELSE idsByKey' = index /\ UNCHANGED unnoticed
             ELSE idsByKey' = index /\ UNCHANGED <<name, unnoticed>>
  /\ work' = None
  /\ UNCHANGED <<seen, open, active, granted>>

-----------------------------------------------------------------------------
Init ==
  /\ seen = {} /\ open = {} /\ active = None
  /\ name = [d \in Docs |-> None]
  /\ entries = [h \in Handles |-> None]
  /\ idsByKey = [k \in Keys |-> None]
  /\ current = [s \in Sessions |-> None]
  /\ leases = [l \in LeaseIds |-> None]
  /\ leaseOf = [h \in Handles |-> None]
  /\ work = None
  /\ granted = [d \in Docs |-> None] /\ unnoticed = 0

Next ==
  \/ \E d \in Docs, k \in Keys : UserOpens(d, k) \/ UserRenames(d, k)
  \/ \E d \in Docs : UserCloses(d) \/ UserActivates(d)
  \/ \E l \in LeaseIds : Expire(l)
  \/ \E s \in Sessions, d \in Docs : OpenDocument(s, d)
  \/ List
  \/ \E docs \in SUBSET open : SyncFails(docs)
  \/ \E s \in Sessions, h \in Handles : Use(s, h)
  \/ RenewLease
  \/ \E s \in Sessions, l \in LeaseIds : ReleaseLease(s, l)
  \/ \E s \in Sessions, kind \in Kinds, selector \in Handles \cup {"active", "current"},
        token \in LeaseIds \cup {None}, source \in Handles \cup {None} :
       Select(s, kind, selector, token, source)
  \/ RunPlain \/ RunStatus \/ RunAcquire \/ RunClose \/ RunViews
  \/ \E k \in PathKeys : RunSaveAs(k)

Spec == Init /\ [][Next]_vars

-----------------------------------------------------------------------------
(* Properties *)

(* Every variable keeps its type; open documents have keys of their own,   *)
(* and a checked operation names a handle, a session and a lease or none.  *)
NativeTypeOK ==
  /\ seen \subseteq Docs /\ open \subseteq seen
  /\ name \in [Docs -> Keys \cup {None}] /\ \A d \in open : name[d] # None
  /\ \A d, e \in open : name[d] = name[e] => d = e
  /\ active \in open \cup {None}

RegistryTypeOK ==
  /\ entries \in [Handles -> Docs \cup {None}]
  /\ idsByKey \in [Keys -> Handles \cup {None}]
  /\ current \in [Sessions -> Handles \cup {None}]
  /\ leases \in [LeaseIds -> Leases \cup {None}]
  /\ leaseOf \in [Handles -> LeaseIds \cup {None}]

TypeOK ==
  /\ NativeTypeOK /\ RegistryTypeOK
  /\ work \in Works \cup {None}
  /\ granted \in [Docs -> [lease : LeaseIds, session : Sessions] \cup {None}]
  /\ unnoticed \in Nat

(* Forgetting a handle forgets everything about it: keys, sessions and     *)
(* leases refer to registered handles only, a handle has at most one key,  *)
(* and the two lease tables describe the same leases.                      *)
IndexInv ==
  /\ \A k \in Keys : idsByKey[k] # None => entries[idsByKey[k]] # None
  /\ \A j, k \in Keys : idsByKey[j] # None /\ idsByKey[j] = idsByKey[k] => j = k

CurrentInv == \A s \in Sessions : current[s] # None => entries[current[s]] # None

LeaseInv ==
  /\ \A h \in Handles : leaseOf[h] # None =>
       /\ entries[h] # None
       /\ leases[leaseOf[h]] # None /\ leases[leaseOf[h]].document = h
  /\ \A l \in LeaseIds : leases[l] # None => leaseOf[leases[l].document] = l

RegistryInv == IndexInv /\ CurrentInv /\ LeaseInv

(* A handle never comes to name another native document, not even when a   *)
(* file is closed and opened again under the same path: it is forgotten.   *)
HandleStable ==
  [][\A h \in Handles : entries[h] # None => entries'[h] \in {entries[h], None}]_vars

(* As long as every new name went through refresh_key, a document has one  *)
(* handle at most and its handle is found by the name it has now, so that  *)
(* a later sync neither duplicates nor forgets it.                         *)
KeysCurrent ==
  unnoticed = 0 =>
    /\ \A h \in Handles : entries[h] # None => \E k \in Keys : idsByKey[k] = h
    /\ \A k \in Keys : idsByKey[k] # None /\ entries[idsByKey[k]] \in open =>
         name[entries[idsByKey[k]]] = k

(* A lease lasts until it expires, its session releases it or the document *)
(* closes: saving under a new name, retitling, or what other sessions do   *)
(* cannot take it away.                                                    *)
GrantKept ==
  unnoticed = 0 =>
    \A d \in open : granted[d] # None =>
      \E h \in Handles :
        /\ entries[h] = d /\ leaseOf[h] = granted[d].lease
        /\ leases[leaseOf[h]].session = granted[d].session

(* A guarded operation that passed its checks holds the lease of the       *)
(* native document it is about to change, whichever way it selected it.    *)
HoldsLease ==
  work # None /\ work.kind \in Guarded =>
    LET d == entries[work.handle] IN
      d \in open /\ granted[d] # None =>
        granted[d] = [lease |-> work.token, session |-> work.session]

WriterHoldsLease == unnoticed = 0 => HoldsLease

(* "Once active, close, modeling, save, save-as, rebuild, render, and      *)
(* export require the owning session and token": also after somebody saved *)
(* the leased document under a new name.                                   *)
LeaseGuardsDocument == HoldsLease

=============================================================================
