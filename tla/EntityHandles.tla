--------------------------- MODULE EntityHandles ----------------------------
(***************************************************************************)
(* The face and edge handles of one document: EntityRegistry               *)
(* (daemon/entities.py) and the handlers that use it, entity.list,         *)
(* entity.inspect and feature.fillet (daemon/operations.py).               *)
(*                                                                         *)
(* A token stands for a native face or edge in one observed scope, the     *)
(* active configuration and the update stamp.  The part is not the         *)
(* daemon's: a person at the same SOLIDWORKS, or SOLIDWORKS itself, may    *)
(* switch the configuration, edit the geometry with or without a new       *)
(* stamp, or return to what was, between any two native reads of a handler.*)
(***************************************************************************)
EXTENDS FiniteSets, Functions

CONSTANTS Faces, Edges, Geometries, Configurations, Tokens, MaxStamp,
          NoScope, NoToken, NoShape

Kinds == {"face", "edge"}
OfKind(kind) == IF kind = "face" THEN Faces ELSE Edges
Shapes == Faces \cup Edges
Stamps == 0 .. MaxStamp
Scopes == [configuration : Configurations, stamp : Stamps]

ASSUME EntityAssumption ==
  /\ Faces \cap Edges = {} /\ Geometries \subseteq SUBSET Shapes
  /\ NoShape \notin Shapes /\ NoToken \notin Tokens /\ NoScope \notin Scopes
  /\ MaxStamp \in Nat

VARIABLES
  part,      \* the native part: [scope, single, shapes]; single: one configuration
  registry,  \* [scope, entries, complete, stale]
  issued,    \* entity tokens the worker gave out, for every document
  meaning,   \* history: what each token was first given out for, and where
  op         \* the running handler

entityVars == <<part, registry, issued, meaning, op>>

Idle == [at |-> "idle", verb |-> "none", kind |-> "edge", token |-> NoToken,
         before |-> NoScope, seen |-> {}, target |-> NoShape]

NoEntries == [t \in {} |-> NoShape]
NewRegistry == [scope |-> NoScope, entries |-> NoEntries, complete |-> {}, stale |-> {}]

EntityInit ==
  /\ part \in [scope : {[configuration |-> c, stamp |-> 0] : c \in Configurations},
               single : {TRUE}, shapes : Geometries]
  /\ registry = NewRegistry
  /\ issued = {}
  /\ meaning = [t \in Tokens |-> [shape |-> NoShape, scope |-> NoScope]]
  /\ op = Idle
-----------------------------------------------------------------------------
(***************************************************************************)
(* The registry.  A scope other than the last one retires every token, and *)
(* a retired token does not come back with the scope it belonged to.       *)
(***************************************************************************)
retire_scope(r) ==
  [scope |-> NoScope, entries |-> NoEntries, complete |-> {},
   stale |-> r.stale \cup DOMAIN r.entries]

(***************************************************************************)
(* A plausible slip: the update stamp alone is taken for the scope.        *)
(***************************************************************************)
Mutant_refresh(r, scope) ==
  [(IF r.scope = NoScope \/ r.scope.stamp = scope.stamp THEN r ELSE retire_scope(r))
     EXCEPT !.scope = scope]

_refresh(r, scope) ==
  [(IF r.scope \in {NoScope, scope} THEN r ELSE retire_scope(r)) EXCEPT !.scope = scope]

OfKindIn(r, kind) == {t \in DOMAIN r.entries : r.entries[t] \in OfKind(kind)}

Resolves(r, token, kind) == token \notin r.stale /\ token \in OfKindIn(r, kind)

(***************************************************************************)
(* The tokens a complete list may be given: that of the live entry IsSame  *)
(* recognises, or one never given out.                                     *)
(***************************************************************************)
Namings(r, kind, shapes) ==
  {names \in [shapes -> Tokens] :
     /\ IsInjective(names)
     /\ \A s \in shapes :
          IF \E t \in OfKindIn(r, kind) : r.entries[t] = s
          THEN names[s] \in OfKindIn(r, kind) /\ r.entries[names[s]] = s
          ELSE names[s] \notin issued}

(***************************************************************************)
(* _register: the outcomes of registering a complete list.  An identity    *)
(* that cannot be verified refuses the list and leaves the refreshed       *)
(* registry; so does another set of entities under the scope that was      *)
(* complete already.                                                       *)
(***************************************************************************)
Same_scope(r, kind, scope) == r.scope = scope /\ kind \in r.complete

_register(r, kind, shapes, scope) ==
  LET now == _refresh(r, scope)
      others == Restrict(now.entries, DOMAIN now.entries \ OfKindIn(now, kind))
      Staged(names) == [t \in Range(names) |-> CHOOSE s \in shapes : names[s] = t]
      accepted == {names \in Namings(now, kind, shapes) :
                     Same_scope(r, kind, scope) => Range(names) = OfKindIn(now, kind)}
  IN {[ok |-> FALSE, registry |-> now, names |-> NoEntries]} \cup
     {[ok |-> TRUE, names |-> Staged(names),
       registry |->
         [now EXCEPT !.complete = @ \cup {kind},
                     !.entries = [t \in DOMAIN others \cup Range(names) |->
                       IF t \in DOMAIN others THEN others[t] ELSE Staged(names)[t]]]]
      : names \in accepted}

Adopt(outcome) ==
  /\ registry' = outcome.registry
  /\ issued' = issued \cup DOMAIN outcome.names
  /\ meaning' = [t \in Tokens |->
       IF t \in DOMAIN outcome.names
       THEN [shape |-> outcome.names[t], scope |-> outcome.registry.scope]
       ELSE meaning[t]]
-----------------------------------------------------------------------------
(***************************************************************************)
(* What happens at the same SOLIDWORKS meanwhile.                          *)
(***************************************************************************)
Interfere ==
  /\ \E configuration \in Configurations, single \in BOOLEAN, shapes \in Geometries,
        stamp \in {part.scope.stamp, part.scope.stamp + 1} \cap Stamps :
       /\ configuration # part.scope.configuration => ~part.single \/ ~single
       /\ part' = [scope |-> [configuration |-> configuration, stamp |-> stamp],
                   single |-> single, shapes |-> shapes]
  /\ part' # part
  /\ UNCHANGED <<registry, issued, meaning, op>>

(***************************************************************************)
(* A request.  feature.fillet is resolved before the document is activated *)
(* and once more in its handler, entity.inspect in its handler.            *)
(***************************************************************************)
Request(verb, kind, token) ==
  /\ op = Idle
  /\ verb = "fillet" => kind = "edge"
  /\ verb = "list" <=> token = NoToken
  /\ op' = [Idle EXCEPT !.verb = verb, !.kind = kind, !.token = token,
              !.at = CASE verb = "list" -> "observe"
                       [] verb = "inspect" -> "resolve"
                       [] verb = "fillet" -> "admit"]
  /\ UNCHANGED <<part, registry, issued, meaning>>

(***************************************************************************)
(* A fresh read of the scope and the resolution of the token in it.  The   *)
(* read may fail; then the registry is told nothing.                       *)
(***************************************************************************)
ResolveAt(place, next) ==
  /\ op.at = place
  /\ \/ op' = Idle /\ UNCHANGED registry
     \/ /\ registry' = _refresh(registry, part.scope)
        /\ op' = IF Resolves(registry', op.token, op.kind)
                 THEN [op EXCEPT !.at = next] ELSE Idle
  /\ UNCHANGED <<part, issued, meaning>>

AdmitFillet == ResolveAt("admit", "resolve")
ResolveTarget == ResolveAt("resolve", "observe")

(***************************************************************************)
(* The observer: the scope before, the complete set of a kind, the scope   *)
(* after.                                                                  *)
(***************************************************************************)
ObserveBefore ==
  /\ op.at = "observe"
  /\ op' \in {Idle, [op EXCEPT !.at = "traverse", !.before = part.scope]}
  /\ UNCHANGED <<part, registry, issued, meaning>>

Traverse ==
  /\ op.at = "traverse"
  /\ \E seen \in {{}, part.shapes \cap OfKind(op.kind)} :  \* {}: unavailable
       op' = [op EXCEPT !.at = "conclude", !.seen = seen]
  /\ UNCHANGED <<part, registry, issued, meaning>>

(***************************************************************************)
(* _observe_entities hands both scopes to the registry in the order they   *)
(* were read, also when the observation failed in between; only a complete *)
(* one, with nothing changed, is registered.                               *)
(***************************************************************************)
Told(after) ==
  LET first == _refresh(registry, op.before)
  IN IF after = NoScope THEN first ELSE _refresh(first, after)

EndWith(r) ==
  op' = Idle /\ registry' = r /\ UNCHANGED <<issued, meaning>>

(***************************************************************************)
(* The observation leads nowhere: its report could not be completed before *)
(* the registry was told, or it did not succeed.                           *)
(***************************************************************************)
ObservationFails ==
  /\ op.at = "conclude"
  /\ \/ EndWith(registry)
     \/ \E after \in {NoScope, part.scope} : EndWith(Told(after))
  /\ UNCHANGED part

Succeeds(after) == after = op.before /\ op.seen # {}

(***************************************************************************)
(* entity.list names what it saw.  entity.inspect resolves its token again *)
(* and answers with the entity that token names.                           *)
(***************************************************************************)
AnswerEntities ==
  /\ op.at = "conclude"
  /\ op.verb \in {"list", "inspect"}
  /\ Succeeds(part.scope)
  /\ LET told == Told(part.scope)
     IN IF op.verb = "inspect" /\ ~Resolves(told, op.token, op.kind)
        THEN EndWith(told)
        ELSE \E outcome \in _register(told, op.kind, op.seen, part.scope) :
               Adopt(outcome) /\ op' = Idle
  /\ UNCHANGED part

(***************************************************************************)
(* A plausible slip: the target is taken without registering what was seen.*)
(***************************************************************************)
MutantTakeTarget ==
  /\ op.at = "conclude"
  /\ op.verb = "fillet"
  /\ Succeeds(part.scope)
  /\ LET told == Told(part.scope)
     IN /\ registry' = told
        /\ op' = IF Resolves(told, op.token, "edge")
                 THEN [op EXCEPT !.at = "fillet", !.target = told.entries[op.token]]
                 ELSE Idle
  /\ UNCHANGED <<part, issued, meaning>>

(***************************************************************************)
(* feature.fillet registers the complete edges and only then takes its     *)
(* target from the registry.                                               *)
(***************************************************************************)
TakeTarget ==
  /\ op.at = "conclude"
  /\ op.verb = "fillet"
  /\ Succeeds(part.scope)
  /\ \E outcome \in _register(Told(part.scope), "edge", op.seen, part.scope) :
       /\ Adopt(outcome)
       /\ op' = IF outcome.ok /\ Resolves(registry', op.token, "edge")
                THEN [op EXCEPT !.at = "fillet", !.target = registry'.entries[op.token]]
                ELSE Idle
  /\ UNCHANGED part

(***************************************************************************)
(* The fillet adapter refuses a part with more than one configuration,     *)
(* observes the live edges once more and looks for its target in them.  A  *)
(* refusal changed nothing, unless its cleanup failed or the stamp moved.  *)
(***************************************************************************)
FilletRefused ==
  /\ op.at \in {"fillet", "write"}
  /\ EndWith(registry) \/ EndWith(retire_scope(registry))
  /\ UNCHANGED part

FilletSelects ==
  /\ op.at = "fillet"
  /\ part.single
  /\ op.target \in part.shapes
  /\ op' = [op EXCEPT !.at = "write"]
  /\ UNCHANGED <<part, registry, issued, meaning>>

(***************************************************************************)
(* From CreateFeature on the part may have changed: every token is given   *)
(* up, whatever the creation came to and whether its stamp can be read.    *)
(***************************************************************************)
WrittenPart ==
  \/ UNCHANGED part
  \/ \E shapes \in Geometries, stamp \in {part.scope.stamp, part.scope.stamp + 1} \cap Stamps :
       part' = [part EXCEPT !.scope.stamp = stamp, !.shapes = shapes]

FilletWrites ==
  /\ op.at = "write"
  /\ WrittenPart
  /\ EndWith(retire_scope(registry))

(***************************************************************************)
(* feature.revolve retires the tokens in the same way.                     *)
(***************************************************************************)
RevolveWrites ==
  /\ op = Idle
  /\ WrittenPart
  /\ EndWith(retire_scope(registry))

(***************************************************************************)
(* close, and the new registry of the document when it is opened again.    *)
(* The stamp of a document that was closed starts anew.                    *)
(***************************************************************************)
CloseEntities ==
  /\ op = Idle
  /\ registry' = NewRegistry
  /\ part' = [part EXCEPT !.scope.stamp = 0]
  /\ UNCHANGED <<issued, meaning, op>>
-----------------------------------------------------------------------------
(***************************************************************************)
(* The tokens that resolve were all given out for the scope the registry   *)
(* is in and for the entity they name, no entity has two, and a kind is    *)
(* complete exactly when some token of it is live.                         *)
(***************************************************************************)
EntityTablesAgree ==
  /\ DOMAIN registry.entries \subseteq issued \ registry.stale
  /\ IsInjective(registry.entries)
  /\ \A t \in DOMAIN registry.entries :
       meaning[t] = [shape |-> registry.entries[t], scope |-> registry.scope]
  /\ registry.complete = {k \in Kinds : OfKindIn(registry, k) # {}}

(***************************************************************************)
(* One step of the registry: a token given out keeps its meaning, and one  *)
(* that no longer resolves never does again.                               *)
(***************************************************************************)
EntityTokensSteady ==
  /\ \A t \in issued : meaning'[t] = meaning[t]
  /\ DOMAIN registry'.entries \cap issued \subseteq DOMAIN registry.entries

(***************************************************************************)
(* The edge a fillet is about to change is the one its token was given out *)
(* for, and one of the complete edges this very operation observed.        *)
(***************************************************************************)
FilletsTheNamedEdge ==
  op.at \in {"fillet", "write"} =>
    /\ op.target = meaning[op.token].shape
    /\ op.target \in op.seen
    /\ op.before = meaning[op.token].scope
=============================================================================
