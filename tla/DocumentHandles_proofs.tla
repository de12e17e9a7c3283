----------------------- MODULE DocumentHandles_proofs -----------------------
(***************************************************************************)
(* Proofs about DocumentHandles, for any sets of native objects, native    *)
(* ids, tokens, configurations and stamps: the handle tables of a document *)
(* agree with each other, a token keeps its meaning, and a fillet changes  *)
(* the edge its token was given out for.                                   *)
(***************************************************************************)
EXTENDS DocumentHandles, TLAPS

(* The tuples of variables. *)
USE DEF vars, entityVars, modelVars

-----------------------------------------------------------------------------
(* The feature, sketch and dimension tables. *)

(* A dimension walk has the sketch that its operation resolved. *)
WalkInv ==
  /\ walk = [of |-> walk.of, sketch |-> walk.sketch, left |-> walk.left]
  /\ walk.of = "dimensions" => walk.sketch \in DOMAIN sketches

ModelInv == ModelTablesAgree /\ WalkInv

(* What a registration may do: a new native id with a new token, the token *)
(* of the same object once more, or a new token for a disconnected one.    *)
Registers(table, ids, object, token, expired) ==
  \/ /\ NativeId[object] \notin DOMAIN ids
     /\ token \notin DOMAIN table /\ expired = {}
  \/ /\ NativeId[object] \in DOMAIN ids
     /\ token = ids[NativeId[object]] /\ expired = {} /\ table[token] = object
  \/ /\ NativeId[object] \in DOMAIN ids
     /\ token \notin DOMAIN table /\ expired = {ids[NativeId[object]]}

(* A registration leaves index and table in agreement, and every token     *)
(* that stays with its object.                                             *)
LEMMA Reindexed ==
  ASSUME NEW table, NEW ids, NEW object, NEW token, NEW expired,
         IndexAgrees(table, ids), Registers(table, ids, object, token, expired)
  PROVE  /\ IndexAgrees(With(Without(table, expired), token, object),
                        With(ids, NativeId[object], token))
         /\ Steady(table, With(Without(table, expired), token, object))
<1> DEFINE id == NativeId[object]
           after == With(Without(table, expired), token, object)
           index == With(ids, id, token)
<1>1. /\ DOMAIN after = (DOMAIN table \ expired) \cup {token}
      /\ after[token] = object
      /\ \A t \in DOMAIN table \ expired : t # token => after[t] = table[t]
  BY DEF With, Without, Restrict
<1>2. /\ DOMAIN index = DOMAIN ids \cup {id}
      /\ index[id] = token
      /\ \A i \in DOMAIN ids : i # id => index[i] = ids[i]
  BY DEF With
<1>3. /\ \A t \in DOMAIN table : \E i \in DOMAIN ids : ids[i] = t
      /\ \A i \in DOMAIN ids : ids[i] \in DOMAIN table /\ NativeId[table[ids[i]]] = i
  BY DEF IndexAgrees, Range
<1> HIDE DEF after, index
<1>4. Steady(table, after)
  BY <1>1, <1>3 DEF Steady, Registers
<1>5. ASSUME NEW i \in DOMAIN index
      PROVE  index[i] \in DOMAIN after /\ NativeId[after[index[i]]] = i
  <2>1. CASE i = id
    BY <2>1, <1>1, <1>2
  <2>2. CASE i # id
    <3>1. i \in DOMAIN ids /\ index[i] = ids[i] /\ ids[i] \in DOMAIN table
      BY <2>2, <1>2, <1>3, <1>5
    <3>2. ids[i] # token /\ ids[i] \notin expired
      BY <3>1, <2>2, <1>3 DEF Registers
    <3>3. QED
      BY <3>1, <3>2, <1>1, <1>3
  <2>3. QED
    BY <2>1, <2>2
<1>6. ASSUME NEW t \in DOMAIN after PROVE \E i \in DOMAIN index : index[i] = t
  <2>1. CASE t = token
    BY <2>1, <1>2
  <2>2. CASE t # token
    <3>1. PICK i \in DOMAIN ids : ids[i] = t
      BY <2>2, <1>1, <1>3, <1>6
    <3>2. i # id
      BY <3>1, <2>2, <1>1, <1>3, <1>6 DEF Registers
    <3>3. QED
      BY <3>1, <3>2, <1>2
  <2>3. QED
    BY <2>1, <2>2
<1>7. IndexAgrees(after, index)
  BY <1>5, <1>6 DEF IndexAgrees, Range
<1>8. QED
  BY <1>4, <1>7 DEF after, index

(* register_feature. *)
LEMMA FeatureRegistered ==
  ASSUME ModelTablesAgree, NEW feature, RegisterFeature(feature)
  PROVE  /\ IndexAgrees(features, featureIds)'
         /\ Steady(features, features')
         /\ (DOMAIN features \subseteq issuedFeatures)'
         /\ DOMAIN features' \cap issuedFeatures \subseteq DOMAIN features
<1>1. PICK token, expired :
        /\ KeepFeature(feature, token, expired)
        /\ Registers(features, featureIds, feature, token, expired)
        /\ token \in DOMAIN features \/ token \notin issuedFeatures
  <2>1. PICK token \in FeatureTokens :
          \/ /\ NativeId[feature] \notin DOMAIN featureIds
             /\ FreshFeatureToken(token) /\ KeepFeature(feature, token, {})
          \/ /\ NativeId[feature] \in DOMAIN featureIds
             /\ features[featureIds[NativeId[feature]]] = feature
             /\ token = featureIds[NativeId[feature]]
             /\ KeepFeature(feature, token, {})
          \/ /\ NativeId[feature] \in DOMAIN featureIds
             /\ FreshFeatureToken(token)
             /\ KeepFeature(feature, token, {featureIds[NativeId[feature]]})
    BY DEF RegisterFeature, Verdicts
  <2>2. /\ FreshFeatureToken(token) => token \notin DOMAIN features /\ token \notin issuedFeatures
        /\ \A i \in DOMAIN featureIds : featureIds[i] \in DOMAIN features
    BY DEF FreshFeatureToken, ModelTablesAgree, IndexAgrees, Range
  <2>3. QED
    BY <2>1, <2>2 DEF Registers
<1>2. /\ features' = With(Without(features, expired), token, feature)
      /\ featureIds' = With(featureIds, NativeId[feature], token)
      /\ issuedFeatures' = issuedFeatures \cup {token}
  BY <1>1 DEF KeepFeature
<1>3. IndexAgrees(features', featureIds') /\ Steady(features, features')
  BY <1>1, <1>2, Reindexed DEF ModelTablesAgree
<1>4. DOMAIN features' = (DOMAIN features \ expired) \cup {token}
  BY <1>2 DEF With, Without, Restrict
<1>5. QED
  BY <1>1, <1>2, <1>3, <1>4 DEF ModelTablesAgree, IndexAgrees

(* register_sketch. *)
LEMMA SketchRegistered ==
  ASSUME ModelTablesAgree, NEW sketch, RegisterSketch(sketch)
  PROVE  /\ IndexAgrees(sketches, sketchIds)' /\ DimensionsAgree'
         /\ Steady(sketches, sketches') /\ Steady(dimensions, dimensions')
<1>1. PICK token, expired :
        /\ KeepSketch(sketch, token, expired)
        /\ Registers(sketches, sketchIds, sketch, token, expired)
  BY DEF RegisterSketch, Verdicts, Registers
<1>2. /\ sketches' = With(Without(sketches, expired), token, sketch)
      /\ sketchIds' = With(sketchIds, NativeId[sketch], token)
      /\ dimensions' = Without(dimensions, UNION {OwnedBy(t) : t \in expired})
  BY <1>1 DEF KeepSketch
<1>3. IndexAgrees(sketches', sketchIds') /\ Steady(sketches, sketches')
  BY <1>1, <1>2, Reindexed DEF ModelTablesAgree
<1>4. DOMAIN sketches' = (DOMAIN sketches \ expired) \cup {token}
  BY <1>2 DEF With, Without, Restrict
<1>5. \A d \in DOMAIN dimensions' :
        /\ d \in DOMAIN dimensions /\ dimensions'[d] = dimensions[d]
        /\ dimensions[d].sketch \notin expired
  BY <1>2 DEF Without, Restrict, OwnedBy
<1>6. DimensionsAgree'
  <2>1. DimensionsAgree
    BY DEF ModelTablesAgree
  <2>2. \A d \in DOMAIN dimensions' : dimensions'[d].sketch \in DOMAIN sketches'
    BY <2>1, <1>4, <1>5 DEF DimensionsAgree, ResolvesDimension
  <2>3. QED
    BY <2>1, <2>2, <1>5 DEF DimensionsAgree, ResolvesDimension
<1>7. QED
  BY <1>3, <1>5, <1>6 DEF IndexAgrees, Steady

(* register_dimension. *)
LEMMA DimensionRegistered ==
  ASSUME ModelTablesAgree, NEW sketch \in DOMAIN sketches, NEW dimension, NEW role,
         RegisterDimension(sketch, dimension, role), UNCHANGED sketches
  PROVE  DimensionsAgree' /\ Steady(dimensions, dimensions')
<1>1. PICK expired \in SUBSET OwnedBy(sketch) :
        \/ dimensions' = Without(dimensions, expired)
        \/ /\ Matches(dimension, OwnedBy(sketch) \ expired) = {}
           /\ \E token \in DimensionTokens \ DOMAIN dimensions :
                dimensions' = With(Without(dimensions, expired), token,
                  [sketch |-> sketch, dimension |-> dimension, role |-> role])
  BY DEF RegisterDimension
<1>2. DimensionsAgree
  BY DEF ModelTablesAgree
<1>3. CASE dimensions' = Without(dimensions, expired)
  <2>1. \A d \in DOMAIN dimensions' :
          d \in DOMAIN dimensions /\ dimensions'[d] = dimensions[d]
    BY <1>3 DEF Without, Restrict
  <2>2. QED
    BY <2>1, <1>2 DEF DimensionsAgree, ResolvesDimension, Steady
<1>4. CASE /\ Matches(dimension, OwnedBy(sketch) \ expired) = {}
           /\ \E token \in DimensionTokens \ DOMAIN dimensions :
                dimensions' = With(Without(dimensions, expired), token,
                  [sketch |-> sketch, dimension |-> dimension, role |-> role])
  <2>1. PICK token \in DimensionTokens \ DOMAIN dimensions :
          dimensions' = With(Without(dimensions, expired), token,
            [sketch |-> sketch, dimension |-> dimension, role |-> role])
    BY <1>4
  <2>2. /\ DOMAIN dimensions' = (DOMAIN dimensions \ expired) \cup {token}
        /\ dimensions'[token] = [sketch |-> sketch, dimension |-> dimension, role |-> role]
        /\ \A d \in DOMAIN dimensions \ expired : dimensions'[d] = dimensions[d]
    BY <2>1 DEF With, Without, Restrict
  <2>3. \A d \in DOMAIN dimensions \ expired :
          dimensions[d].sketch = sketch => dimensions[d].dimension # dimension
    BY <1>4 DEF Matches, OwnedBy, Verdicts
  <2>4. QED
    BY <2>2, <2>3, <1>2 DEF DimensionsAgree, ResolvesDimension, Steady
<1>5. QED
  BY <1>1, <1>3, <1>4

(* Nothing of a document but its walk moves when a handler starts. *)
LEMMA ModelUnmoved ==
  ASSUME ModelTablesAgree,
         UNCHANGED <<features, featureIds, issuedFeatures, sketches, sketchIds, dimensions>>
  PROVE  ModelTablesAgree' /\ ModelTokensSteady
BY DEF ModelTablesAgree, IndexAgrees, DimensionsAgree, ResolvesDimension, ModelTokensSteady,
       Steady, Range

(* A creation that registers its feature, or does not get that far. *)
LEMMA CreatedKeeps ==
  ASSUME ModelInv, CreatedFeature
  PROVE  ModelInv' /\ ModelTokensSteady
<1>1. UNCHANGED <<sketches, sketchIds, dimensions, walk>>
  BY DEF CreatedFeature
<1>2. WalkInv'
  BY <1>1 DEF ModelInv, WalkInv
<1>3. CASE UNCHANGED <<features, featureIds, issuedFeatures>>
  BY <1>1, <1>2, <1>3, ModelUnmoved DEF ModelInv
<1>4. CASE \E feature \in Features : RegisterFeature(feature)
  <2>1. /\ IndexAgrees(features, featureIds)' /\ Steady(features, features')
        /\ (DOMAIN features \subseteq issuedFeatures)'
        /\ DOMAIN features' \cap issuedFeatures \subseteq DOMAIN features
    BY <1>4, FeatureRegistered DEF ModelInv
  <2>2. IndexAgrees(sketches, sketchIds)' /\ DimensionsAgree'
    BY <1>1 DEF ModelInv, ModelTablesAgree, IndexAgrees, DimensionsAgree, ResolvesDimension
  <2>3. Steady(sketches, sketches') /\ Steady(dimensions, dimensions')
    BY <1>1 DEF Steady
  <2>4. QED
    BY <1>2, <2>1, <2>2, <2>3 DEF ModelInv, ModelTablesAgree, ModelTokensSteady
<1>5. QED
  BY <1>3, <1>4 DEF CreatedFeature

(* One object of a walk. *)
LEMMA ModelStepKeeps ==
  ASSUME ModelInv, RegisterNextFeature \/ RegisterNextSketch \/ RegisterNextDimension
  PROVE  ModelInv' /\ ModelTokensSteady
<1>1. walk' = AtRest \/ \E item \in walk.left : walk' = [walk EXCEPT !.left = @ \ {item}]
  BY DEF RegisterNextFeature, RegisterNextSketch, RegisterNextDimension, Walked
<1>2. /\ walk' = [of |-> walk'.of, sketch |-> walk'.sketch, left |-> walk'.left]
      /\ walk'.of = "dimensions" => walk.of = "dimensions" /\ walk'.sketch = walk.sketch
  <2>1. CASE walk' = AtRest
    BY <2>1 DEF AtRest
  <2>2. ASSUME NEW item \in walk.left, walk' = [walk EXCEPT !.left = @ \ {item}]
        PROVE  <1>2!1 /\ <1>2!2
    <3>1. walk' = [of |-> walk.of, sketch |-> walk.sketch, left |-> walk.left \ {item}]
      BY <2>2 DEF ModelInv, WalkInv
    <3>2. QED
      BY <3>1
  <2>3. QED
    BY <1>1, <2>1, <2>2
<1>3. CASE RegisterNextFeature
  <2>1. /\ UNCHANGED <<sketches, sketchIds, dimensions>>
        /\ walk.of = "features"
        /\ \/ \E feature \in walk.left : RegisterFeature(feature)
           \/ UNCHANGED <<features, featureIds, issuedFeatures>>
    BY <1>3 DEF RegisterNextFeature, FeatureRefused
  <2>2. WalkInv'
    BY <1>2, <2>1 DEF WalkInv
  <2>3. CASE \E feature \in walk.left : RegisterFeature(feature)
    <3>1. /\ IndexAgrees(features, featureIds)' /\ Steady(features, features')
          /\ (DOMAIN features \subseteq issuedFeatures)'
          /\ DOMAIN features' \cap issuedFeatures \subseteq DOMAIN features
      BY <2>3, FeatureRegistered DEF ModelInv
    <3>2. IndexAgrees(sketches, sketchIds)' /\ DimensionsAgree'
      BY <2>1 DEF ModelInv, ModelTablesAgree, IndexAgrees, DimensionsAgree, ResolvesDimension
    <3>3. Steady(sketches, sketches') /\ Steady(dimensions, dimensions')
      BY <2>1 DEF Steady
    <3>4. QED
      BY <2>2, <3>1, <3>2, <3>3 DEF ModelInv, ModelTablesAgree, ModelTokensSteady
  <2>4. CASE UNCHANGED <<features, featureIds, issuedFeatures>>
    BY <2>1, <2>2, <2>4, ModelUnmoved DEF ModelInv
  <2>5. QED
    BY <2>1, <2>3, <2>4
<1>4. CASE RegisterNextSketch
  <2>1. /\ UNCHANGED <<features, featureIds, issuedFeatures>>
        /\ walk.of = "sketches"
        /\ \/ \E sketch \in walk.left : RegisterSketch(sketch)
           \/ UNCHANGED <<sketches, sketchIds, dimensions>>
    BY <1>4 DEF RegisterNextSketch, SketchRefused
  <2>2. WalkInv'
    BY <1>2, <2>1 DEF WalkInv
  <2>3. CASE \E sketch \in walk.left : RegisterSketch(sketch)
    <3>1. /\ IndexAgrees(sketches, sketchIds)' /\ DimensionsAgree'
          /\ Steady(sketches, sketches') /\ Steady(dimensions, dimensions')
      BY <2>3, SketchRegistered DEF ModelInv
    <3>2. /\ IndexAgrees(features, featureIds)' /\ Steady(features, features')
          /\ (DOMAIN features \subseteq issuedFeatures)'
          /\ DOMAIN features' \cap issuedFeatures \subseteq DOMAIN features
      BY <2>1 DEF ModelInv, ModelTablesAgree, IndexAgrees, Steady
    <3>3. QED
      BY <2>2, <3>1, <3>2 DEF ModelInv, ModelTablesAgree, ModelTokensSteady
  <2>4. CASE UNCHANGED <<sketches, sketchIds, dimensions>>
    BY <2>1, <2>2, <2>4, ModelUnmoved DEF ModelInv
  <2>5. QED
    BY <2>1, <2>3, <2>4
<1>5. CASE RegisterNextDimension
  <2>1. /\ UNCHANGED <<features, featureIds, issuedFeatures, sketches, sketchIds>>
        /\ walk.of = "dimensions" /\ walk.sketch \in DOMAIN sketches
        /\ \/ \E item \in walk.left :
                RegisterDimension(walk.sketch, item.dimension, item.role)
           \/ UNCHANGED dimensions
    BY <1>5 DEF RegisterNextDimension, DimensionRefused, ModelInv, WalkInv
  <2>2. WalkInv'
    BY <1>2, <2>1 DEF WalkInv
  <2>3. CASE \E item \in walk.left :
               RegisterDimension(walk.sketch, item.dimension, item.role)
    <3>1. DimensionsAgree' /\ Steady(dimensions, dimensions')
      <4>1. PICK item \in walk.left :
              RegisterDimension(walk.sketch, item.dimension, item.role)
        BY <2>3
      <4>2. QED
        BY <2>1, <4>1, DimensionRegistered DEF ModelInv
    <3>2. /\ IndexAgrees(features, featureIds)' /\ Steady(features, features')
          /\ IndexAgrees(sketches, sketchIds)' /\ Steady(sketches, sketches')
          /\ (DOMAIN features \subseteq issuedFeatures)'
          /\ DOMAIN features' \cap issuedFeatures \subseteq DOMAIN features
      BY <2>1 DEF ModelInv, ModelTablesAgree, IndexAgrees, Steady
    <3>3. QED
      BY <2>2, <3>1, <3>2 DEF ModelInv, ModelTablesAgree, ModelTokensSteady
  <2>4. CASE UNCHANGED dimensions
    BY <2>1, <2>2, <2>4, ModelUnmoved DEF ModelInv
  <2>5. QED
    BY <2>1, <2>3, <2>4
<1>6. QED
  BY <1>3, <1>4, <1>5

(* Every step of a session, as the model tables see it. *)
LEMMA ModelNext ==
  ASSUME ModelInv, [Next]_vars
  PROVE  ModelInv' /\ ModelTokensSteady
<1>1. CASE UNCHANGED modelVars
  BY <1>1, ModelUnmoved DEF ModelInv, WalkInv
<1>2. CASE /\ UNCHANGED <<features, featureIds, issuedFeatures, sketches, sketchIds, dimensions>>
           /\ \/ \E found : walk' = [AtRest EXCEPT !.of = "features", !.left = found]
              \/ \E found : walk' = [AtRest EXCEPT !.of = "sketches", !.left = found]
              \/ \E found : \E token \in DOMAIN sketches :
                   walk' = [of |-> "dimensions", sketch |-> token, left |-> found]
  <2>1. PICK found :
          \/ walk' = [of |-> "features", sketch |-> "none", left |-> found]
          \/ walk' = [of |-> "sketches", sketch |-> "none", left |-> found]
          \/ \E token \in DOMAIN sketches :
               walk' = [of |-> "dimensions", sketch |-> token, left |-> found]
    BY <1>2 DEF AtRest
  <2>2. WalkInv'
    <3>1. PICK of, sketch :
            /\ walk' = [of |-> of, sketch |-> sketch, left |-> found]
            /\ of = "dimensions" => sketch \in DOMAIN sketches
      BY <2>1
    <3>2. sketches' = sketches
      BY <1>2
    <3>3. walk'.of = of /\ walk'.sketch = sketch /\ walk'.left = found
      BY <3>1
    <3>4. QED
      BY <3>1, <3>2, <3>3 DEF WalkInv
  <2>3. QED
    BY <1>2, <2>2, ModelUnmoved DEF ModelInv
<1>3. CASE feature_fillet \/ feature_revolve
  BY <1>3, CreatedKeeps DEF feature_fillet, feature_revolve
<1>4. CASE forget
  <2>1. walk = AtRest /\ UNCHANGED <<walk, issuedFeatures>>
        /\ features' = Empty /\ featureIds' = Empty /\ sketches' = Empty
        /\ sketchIds' = Empty /\ dimensions' = Empty
    BY <1>4 DEF forget, Call, Quiet, ForgetModel
  <2>2. DOMAIN Empty = {}
    BY DEF Empty
  <2>3. WalkInv'
    BY <2>1 DEF WalkInv, AtRest
  <2>4. QED
    BY <2>1, <2>2, <2>3 DEF ModelInv, ModelTablesAgree, ModelTokensSteady, IndexAgrees,
      DimensionsAgree, Steady, Range
<1>5. CASE ModelStep
  BY <1>5, ModelStepKeeps DEF ModelStep
<1>6. CASE FeatureRequest \/ SketchRequest \/ DimensionRequest
  BY <1>6, <1>2 DEF FeatureRequest, SketchRequest, DimensionRequest, feature_list,
    sketch_list, dimension_discover
<1>7. CASE EntityRequest \/ EntityStep \/ People \/ SessionEnds \/ UNCHANGED vars
  BY <1>7, <1>1 DEF EntityRequest, EntityStep, People, SessionEnds
<1>8. QED
  BY <1>3, <1>4, <1>5, <1>6, <1>7 DEF Next

-----------------------------------------------------------------------------
(* The face and edge tokens. *)

(* A registry whose tokens are given out, mean what they name in its       *)
(* scope, and are none while it has no scope.                              *)
Sound(r) ==
  /\ r = [scope |-> r.scope, entries |-> r.entries, complete |-> r.complete,
          stale |-> r.stale]
  /\ DOMAIN r.entries \subseteq issued \ r.stale
  /\ r.stale \subseteq issued
  /\ IsInjective(r.entries)
  /\ \A t \in DOMAIN r.entries : meaning[t] = [shape |-> r.entries[t], scope |-> r.scope]
  /\ r.complete = {k \in Kinds : OfKindIn(r, k) # {}}
  /\ r.scope = NoScope => DOMAIN r.entries = {}

(* The history and the part: what their types promise. *)
HistoryInv ==
  /\ part = [scope |-> part.scope, single |-> part.single, shapes |-> part.shapes]
  /\ part.scope \in Scopes
  /\ issued \subseteq Tokens
  /\ meaning = [t \in Tokens |-> meaning[t]]

OpFields == {"at", "verb", "kind", "token", "before", "seen", "target"}

(* The handler that runs: what it observed is of the kind it asked for. *)
OpInv ==
  /\ op = [f \in OpFields |-> op[f]]
  /\ op.kind \in Kinds
  /\ op.verb = "fillet" => op.kind = "edge"
  /\ op.at = "conclude" => op.seen \subseteq OfKind(op.kind)

EntityInv == Sound(registry) /\ HistoryInv /\ OpInv /\ FilletsTheNamedEdge

(* Retiring a scope gives every token up. *)
LEMMA Retired ==
  ASSUME NEW r, Sound(r)
  PROVE  Sound(retire_scope(r)) /\ DOMAIN retire_scope(r).entries = {}
BY DEF Sound, retire_scope, NoEntries, OfKindIn, IsInjective

(* A refresh keeps the tokens of the scope it is in, and no others. *)
LEMMA Refreshed ==
  ASSUME NEW r, Sound(r), NEW scope
  PROVE  /\ Sound(_refresh(r, scope)) /\ _refresh(r, scope).scope = scope
         /\ DOMAIN _refresh(r, scope).entries \subseteq DOMAIN r.entries
<1>1. CASE r.scope \in {NoScope, scope}
  <2>1. _refresh(r, scope) = [scope |-> scope, entries |-> r.entries,
                              complete |-> r.complete, stale |-> r.stale]
    <3>1. _refresh(r, scope) = [r EXCEPT !.scope = scope]
      BY <1>1 DEF _refresh
    <3>2. PICK s, e, c, x : r = [scope |-> s, entries |-> e, complete |-> c, stale |-> x]
      BY DEF Sound
    <3>3. QED
      BY <3>1, <3>2
  <2>2. QED
    BY <1>1, <2>1 DEF Sound, OfKindIn
<1>2. CASE r.scope \notin {NoScope, scope}
  <2>1. _refresh(r, scope) = [retire_scope(r) EXCEPT !.scope = scope]
    BY <1>2 DEF _refresh
  <2>2. _refresh(r, scope) = [scope |-> scope, entries |-> NoEntries, complete |-> {},
                              stale |-> r.stale \cup DOMAIN r.entries]
    BY <2>1 DEF retire_scope
  <2>3. DOMAIN NoEntries = {}
    BY DEF NoEntries
  <2>4. QED
    BY <2>2, <2>3 DEF Sound, OfKindIn, IsInjective
<1>3. QED
  BY <1>1, <1>2

(* A list that is not named leaves the refreshed registry. *)
LEMMA Unnamed ==
  ASSUME NEW r, Sound(r), HistoryInv, NEW outcome, outcome.registry = r,
         outcome.names = NoEntries, Adopt(outcome)
  PROVE  /\ Sound(registry)' /\ UNCHANGED <<issued, meaning>>
         /\ registry' = r
<1>1. DOMAIN outcome.names = {}
  BY DEF NoEntries
<1>2. registry' = r /\ issued' = issued
  BY <1>1 DEF Adopt
<1>3. meaning' = meaning
  BY <1>1 DEF Adopt, HistoryInv
<1>4. QED
  BY <1>2, <1>3 DEF Sound, OfKindIn

(* Tokens for a list of entities: one each, that of the live entry or one  *)
(* never given out.                                                        *)
NamesFor(now, kind, shapes, staged) ==
  /\ DOMAIN staged # {} /\ IsInjective(staged)
  /\ \A t \in DOMAIN staged :
       /\ t \in Tokens /\ t \notin now.stale /\ staged[t] \in shapes
       /\ t \in issued => t \in OfKindIn(now, kind) /\ now.entries[t] = staged[t]

(* The choice of names gives such tokens. *)
LEMMA StagedNames ==
  ASSUME NEW now, Sound(now), NEW kind, NEW shapes, shapes # {},
         NEW names \in Namings(now, kind, shapes),
         NEW staged, staged = [t \in Range(names) |-> CHOOSE s \in shapes : names[s] = t]
  PROVE  NamesFor(now, kind, shapes, staged)
<1>1. /\ names \in [shapes -> Tokens] /\ IsInjective(names)
      /\ \A s \in shapes :
           \/ names[s] \in OfKindIn(now, kind) /\ now.entries[names[s]] = s
           \/ names[s] \notin issued
  BY DEF Namings
<1>2. \A s \in shapes : names[s] \in DOMAIN staged /\ staged[names[s]] = s
  <2>1. ASSUME NEW s \in shapes PROVE names[s] \in DOMAIN staged /\ staged[names[s]] = s
    <3>1. names[s] \in Range(names) /\ DOMAIN names = shapes
      BY <1>1 DEF Range
    <3>2. \A u \in shapes : names[u] = names[s] => u = s
      BY <1>1, <3>1 DEF IsInjective
    <3>3. QED
      BY <3>1, <3>2
  <2>2. QED
    BY <2>1
<1>3. \A t \in DOMAIN staged : \E s \in shapes : t = names[s]
  BY <1>1 DEF Range
<1>4. ASSUME NEW t \in DOMAIN staged
      PROVE  /\ t \in Tokens /\ t \notin now.stale /\ staged[t] \in shapes
             /\ t \in issued => t \in OfKindIn(now, kind) /\ now.entries[t] = staged[t]
  <2>1. PICK s \in shapes : t = names[s]
    BY <1>3
  <2>2. QED
    BY <2>1, <1>1, <1>2 DEF Sound, OfKindIn
<1>5. IsInjective(staged)
  BY <1>2, <1>3 DEF IsInjective
<1>6. QED
  BY <1>2, <1>4, <1>5 DEF NamesFor

(* The step that adopts a named list. *)
Listed(now, kind, staged, entries) ==
  /\ DOMAIN entries = (DOMAIN now.entries \ OfKindIn(now, kind)) \cup DOMAIN staged
  /\ \A t \in DOMAIN now.entries \ OfKindIn(now, kind) : entries[t] = now.entries[t]
  /\ \A t \in DOMAIN staged : entries[t] = staged[t]
  /\ registry' = [scope |-> now.scope, entries |-> entries,
                  complete |-> now.complete \cup {kind}, stale |-> now.stale]
  /\ issued' = issued \cup DOMAIN staged
  /\ meaning' = [t \in Tokens |->
       IF t \in DOMAIN staged
       THEN [shape |-> staged[t], scope |-> now.scope] ELSE meaning[t]]

(* A list that is named: its kind has these tokens and no others, and the  *)
(* other kind keeps its own.                                               *)
LEMMA Named ==
  ASSUME NEW now, Sound(now), HistoryInv, NEW kind \in Kinds,
         now.scope # NoScope,
         NEW shapes, shapes \subseteq OfKind(kind),
         NEW staged, NamesFor(now, kind, shapes, staged),
         NEW entries, Listed(now, kind, staged, entries)
  PROVE  /\ Sound(registry)'
         /\ issued' \subseteq Tokens
         /\ registry'.scope = now.scope
         /\ \A t \in issued : meaning'[t] = meaning[t]
         /\ DOMAIN registry'.entries \cap issued \subseteq DOMAIN now.entries
         /\ \A t \in OfKindIn(registry', kind) : registry'.entries[t] \in shapes
<1> USE DEF Listed
<1> DEFINE others == DOMAIN now.entries \ OfKindIn(now, kind)
<1>1. ASSUME NEW t \in DOMAIN staged
      PROVE  /\ t \in Tokens /\ t \notin now.stale /\ staged[t] \in shapes
             /\ t \in issued => t \in OfKindIn(now, kind) /\ now.entries[t] = staged[t]
  BY DEF NamesFor
<1>2. /\ registry'.scope = now.scope /\ registry'.entries = entries
      /\ registry'.complete = now.complete \cup {kind} /\ registry'.stale = now.stale
  OBVIOUS
<1>3. /\ DOMAIN entries = others \cup DOMAIN staged
      /\ others \cap DOMAIN staged = {}
      /\ \A t \in others : entries[t] = now.entries[t] /\ entries[t] \notin OfKind(kind)
  BY <1>1 DEF OfKindIn, Sound
<1>4. \A t \in OfKindIn(registry', kind) : registry'.entries[t] \in shapes
  BY <1>1, <1>2, <1>3 DEF OfKindIn
<1>5. \A t \in issued : meaning'[t] = meaning[t]
  <2>1. ASSUME NEW t \in issued PROVE meaning'[t] = meaning[t]
    <3>1. t \in Tokens
      BY DEF HistoryInv
    <3>2. CASE t \in DOMAIN staged
      <4>1. meaning[t] = [shape |-> now.entries[t], scope |-> now.scope]
        BY <3>2, <1>1, <2>1 DEF Sound, OfKindIn
      <4>2. QED
        BY <3>1, <3>2, <4>1, <1>1, <2>1
    <3>3. CASE t \notin DOMAIN staged
      BY <3>1, <3>3
    <3>4. QED
      BY <3>2, <3>3
  <2>2. QED
    BY <2>1
<1>6. \A t \in DOMAIN entries : meaning'[t] = [shape |-> entries[t], scope |-> now.scope]
  <2>1. ASSUME NEW t \in DOMAIN staged
        PROVE  meaning'[t] = [shape |-> entries[t], scope |-> now.scope]
    BY <2>1, <1>1
  <2>2. ASSUME NEW t \in others
        PROVE  meaning'[t] = [shape |-> entries[t], scope |-> now.scope]
    BY <2>2, <1>3, <1>5 DEF Sound
  <2>3. QED
    BY <2>1, <2>2, <1>3
<1>7. IsInjective(entries)
  <2>1. \A t, u \in DOMAIN staged : entries[t] = entries[u] => t = u
    BY DEF NamesFor, IsInjective
  <2>2. \A t, u \in others : entries[t] = entries[u] => t = u
    BY <1>3 DEF Sound, IsInjective
  <2>3. \A t \in others, u \in DOMAIN staged : entries[t] # entries[u]
    BY <1>1, <1>3
  <2>4. QED
    BY <2>1, <2>2, <2>3, <1>3 DEF IsInjective
<1>8. registry'.complete = {k \in Kinds : OfKindIn(registry', k) # {}}
  <2>1. OfKindIn(registry', kind) # {}
    BY <1>1, <1>2, <1>3 DEF OfKindIn, NamesFor
  <2>2. ASSUME NEW k \in Kinds, k # kind PROVE OfKindIn(registry', k) = OfKindIn(now, k)
    <3>1. OfKind(k) \cap OfKind(kind) = {}
      BY <2>2, EntityAssumption DEF Kinds, OfKind
    <3>2. \A t \in OfKindIn(now, k) : t \in others
      BY <3>1 DEF OfKindIn
    <3>3. \A t \in OfKindIn(registry', k) : t \in others
      BY <3>1, <1>1, <1>2, <1>3 DEF OfKindIn
    <3>4. QED
      BY <3>2, <3>3, <1>2, <1>3 DEF OfKindIn
  <2>3. QED
    BY <2>1, <2>2, <1>2 DEF Sound
<1>9. DOMAIN entries \subseteq issued' \ now.stale /\ now.stale \subseteq issued'
  BY <1>1, <1>3 DEF Sound
<1>10. Sound(registry)'
  BY <1>2, <1>6, <1>7, <1>8, <1>9 DEF Sound, OfKindIn
<1>11. issued' \subseteq Tokens /\ DOMAIN registry'.entries \cap issued \subseteq DOMAIN now.entries
  BY <1>1, <1>2, <1>3 DEF HistoryInv, OfKindIn
<1>12. QED
  BY <1>2, <1>4, <1>5, <1>10, <1>11

(* _register, whatever comes of it. *)
LEMMA Registered ==
  ASSUME NEW r, Sound(r), HistoryInv, NEW kind \in Kinds, NEW scope, scope # NoScope,
         NEW shapes, shapes \subseteq OfKind(kind), shapes # {},
         NEW outcome \in _register(r, kind, shapes, scope), Adopt(outcome)
  PROVE  /\ Sound(registry)'
         /\ issued' \subseteq Tokens
         /\ meaning' = [t \in Tokens |-> meaning'[t]]
         /\ registry'.scope = scope
         /\ \A t \in issued : meaning'[t] = meaning[t]
         /\ DOMAIN registry'.entries \cap issued \subseteq DOMAIN r.entries
         /\ outcome.ok => \A t \in OfKindIn(registry', kind) : registry'.entries[t] \in shapes
<1> DEFINE now == _refresh(r, scope)
           others == Restrict(now.entries, DOMAIN now.entries \ OfKindIn(now, kind))
           Staged(names) == [t \in Range(names) |-> CHOOSE s \in shapes : names[s] = t]
           Entries(names) == [t \in DOMAIN others \cup Range(names) |->
                                IF t \in DOMAIN others THEN others[t] ELSE Staged(names)[t]]
           made(names) == [now EXCEPT !.complete = @ \cup {kind}, !.entries = Entries(names)]
<1>1. Sound(now) /\ now.scope = scope /\ DOMAIN now.entries \subseteq DOMAIN r.entries
  BY Refreshed
<1>2. meaning' = [t \in Tokens |-> meaning'[t]]
  BY DEF Adopt
<1>3. CASE outcome = [ok |-> FALSE, registry |-> now, names |-> NoEntries]
  <2>1. outcome.registry = now /\ outcome.names = NoEntries /\ ~outcome.ok
    BY <1>3
  <2>2. Sound(registry)' /\ UNCHANGED <<issued, meaning>> /\ registry' = now
    BY <1>1, <2>1, Unnamed
  <2>3. QED
    BY <1>1, <1>2, <2>1, <2>2 DEF HistoryInv
<1>4. ASSUME NEW names \in Namings(now, kind, shapes),
             outcome = [ok |-> TRUE, names |-> Staged(names), registry |-> made(names)]
      PROVE  /\ Sound(registry)'
             /\ issued' \subseteq Tokens
             /\ registry'.scope = scope
             /\ \A t \in issued : meaning'[t] = meaning[t]
             /\ DOMAIN registry'.entries \cap issued \subseteq DOMAIN now.entries
             /\ \A t \in OfKindIn(registry', kind) : registry'.entries[t] \in shapes
  <2>1. PICK staged : staged = Staged(names)
    OBVIOUS
  <2>2. NamesFor(now, kind, shapes, staged)
    BY <1>1, <2>1, StagedNames
  <2>3. PICK entries : entries = Entries(names)
    OBVIOUS
  <2>4. DOMAIN staged = Range(names)
    BY <2>1
  <2>5. /\ DOMAIN others = DOMAIN now.entries \ OfKindIn(now, kind)
        /\ \A t \in DOMAIN others : others[t] = now.entries[t]
    BY DEF Restrict
  <2>6. \A t \in DOMAIN staged : t \notin DOMAIN others
    BY <1>1, <2>2, <2>5 DEF NamesFor, Sound
  <2>7. /\ DOMAIN entries = (DOMAIN now.entries \ OfKindIn(now, kind)) \cup DOMAIN staged
        /\ \A t \in DOMAIN now.entries \ OfKindIn(now, kind) : entries[t] = now.entries[t]
        /\ \A t \in DOMAIN staged : entries[t] = staged[t]
    BY <2>1, <2>3, <2>4, <2>5, <2>6
  <2>8. registry' = [scope |-> now.scope, entries |-> entries,
                     complete |-> now.complete \cup {kind}, stale |-> now.stale]
    <3>1. registry' = [now EXCEPT !.complete = @ \cup {kind}, !.entries = entries]
      BY <1>4, <2>3 DEF Adopt
    <3> HIDE DEF now
    <3>2. PICK s, e, c, x : now = [scope |-> s, entries |-> e, complete |-> c, stale |-> x]
      BY <1>1 DEF Sound
    <3>3. QED
      BY <3>1, <3>2
  <2>9. outcome.names = staged /\ outcome.registry = registry'
    BY <1>4, <2>1 DEF Adopt
  <2>10. /\ issued' = issued \cup DOMAIN staged
         /\ meaning' = [t \in Tokens |->
              IF t \in DOMAIN staged
              THEN [shape |-> staged[t], scope |-> now.scope] ELSE meaning[t]]
    <3> HIDE DEF now
    <3>1. registry'.scope = now.scope
      BY <2>8
    <3>2. QED
      BY <2>9, <3>1 DEF Adopt
  <2>11. now.scope # NoScope
    BY <1>1
  <2> HIDE DEF now
  <2>12. /\ Sound(registry)'
         /\ issued' \subseteq Tokens
         /\ registry'.scope = now.scope
         /\ \A t \in issued : meaning'[t] = meaning[t]
         /\ DOMAIN registry'.entries \cap issued \subseteq DOMAIN now.entries
         /\ \A t \in OfKindIn(registry', kind) : registry'.entries[t] \in shapes
    <3>1. Listed(now, kind, staged, entries)
      BY <2>7, <2>8, <2>10 DEF Listed
    <3>2. QED
      BY <1>1, <2>2, <2>11, <3>1, Named
  <2>13. QED
    BY <1>1, <2>12
<1>5. \/ outcome = [ok |-> FALSE, registry |-> now, names |-> NoEntries]
      \/ \E names \in Namings(now, kind, shapes) :
           outcome = [ok |-> TRUE, names |-> Staged(names), registry |-> made(names)]
  BY DEF _register
<1> HIDE DEF now, others, Staged, Entries, made
<1>6. QED
  BY <1>1, <1>2, <1>3, <1>4, <1>5

(* An idle worker has nothing to say of its operation. *)
LEMMA IdleOp ==
  ASSUME op' = Idle
  PROVE  OpInv' /\ FilletsTheNamedEdge'
<1>1. op' = [at |-> "idle", verb |-> "none", kind |-> "edge", token |-> NoToken,
             before |-> NoScope, seen |-> {}, target |-> NoShape]
  BY DEF Idle
<1>2. OpInv'
  BY <1>1 DEF OpInv, OpFields, Kinds
<1>3. QED
  BY <1>1, <1>2 DEF FilletsTheNamedEdge

(* A step that only reads or moves the operation on. *)
LEMMA Reads ==
  ASSUME EntityInv, UNCHANGED <<registry, issued, meaning>>, HistoryInv', OpInv',
         FilletsTheNamedEdge'
  PROVE  EntityInv' /\ EntityTokensSteady
<1>1. Sound(registry)'
  BY DEF EntityInv, Sound, OfKindIn
<1>2. QED
  BY <1>1 DEF EntityInv, EntityTokensSteady

(* An operation that ends and leaves no more tokens than there were. *)
LEMMA Ends ==
  ASSUME EntityInv, NEW r, Sound(r), DOMAIN r.entries \subseteq DOMAIN registry.entries,
         EndWith(r), part' = [scope |-> part'.scope, single |-> part'.single,
                              shapes |-> part'.shapes],
         part'.scope \in Scopes
  PROVE  EntityInv' /\ EntityTokensSteady
<1>1. op' = Idle /\ registry' = r /\ UNCHANGED <<issued, meaning>>
  BY DEF EndWith
<1>2. OpInv' /\ FilletsTheNamedEdge'
  BY <1>1, IdleOp
<1>3. Sound(registry)'
  BY <1>1 DEF Sound, OfKindIn
<1>4. HistoryInv'
  BY <1>1 DEF EntityInv, HistoryInv
<1>5. QED
  BY <1>1, <1>2, <1>3, <1>4 DEF EntityInv, EntityTokensSteady

(* A request. *)
LEMMA Requested ==
  ASSUME EntityInv, NEW verb \in {"list", "inspect", "fillet"}, NEW kind \in Kinds,
         NEW token, Request(verb, kind, token)
  PROVE  EntityInv' /\ EntityTokensSteady
<1>1. PICK at : at \in {"observe", "resolve", "admit"} /\
        op' = [Idle EXCEPT !.verb = verb, !.kind = kind, !.token = token, !.at = at]
  <2>1. PICK at : at = CASE verb = "list" -> "observe"
                         [] verb = "inspect" -> "resolve"
                         [] verb = "fillet" -> "admit"
    OBVIOUS
  <2>2. at \in {"observe", "resolve", "admit"}
    BY <2>1
  <2>3. op' = [Idle EXCEPT !.verb = verb, !.kind = kind, !.token = token, !.at = at]
    BY <2>1 DEF Request
  <2>4. QED
    BY <2>2, <2>3
<1>2. op' = [at |-> at, verb |-> verb, kind |-> kind, token |-> token,
             before |-> NoScope, seen |-> {}, target |-> NoShape]
  BY <1>1 DEF Idle
<1>3. OpInv' /\ FilletsTheNamedEdge'
  <2>1. verb = "fillet" => kind = "edge"
    BY DEF Request
  <2>2. QED
    BY <1>1, <1>2, <2>1 DEF OpInv, OpFields, FilletsTheNamedEdge
<1>4. HistoryInv' /\ UNCHANGED <<registry, issued, meaning>>
  BY DEF EntityInv, HistoryInv, Request
<1>5. QED
  BY <1>3, <1>4, Reads

(* The resolution of a token in a fresh scope. *)
LEMMA Resolved ==
  ASSUME EntityInv, NEW place, NEW next, next \in {"resolve", "observe"},
         ResolveAt(place, next)
  PROVE  EntityInv' /\ EntityTokensSteady
<1>1. /\ UNCHANGED <<part, issued, meaning>>
      /\ registry' = registry \/ registry' = _refresh(registry, part.scope)
      /\ op' = Idle \/ op' = [op EXCEPT !.at = next]
  BY DEF ResolveAt
<1>2. Sound(registry') /\ DOMAIN registry'.entries \subseteq DOMAIN registry.entries
  BY <1>1, Refreshed DEF EntityInv
<1>3. Sound(registry)' /\ HistoryInv'
  BY <1>1, <1>2 DEF Sound, OfKindIn, EntityInv, HistoryInv
<1>4. OpInv' /\ FilletsTheNamedEdge'
  <2>1. CASE op' = Idle
    BY <2>1, IdleOp
  <2>2. CASE op' = [op EXCEPT !.at = next]
    <3>1. /\ op' = [f \in OpFields |-> op'[f]] /\ op'.at = next
          /\ op'.kind = op.kind /\ op'.verb = op.verb
      BY <2>2 DEF EntityInv, OpInv, OpFields
    <3>2. QED
      BY <3>1 DEF EntityInv, OpInv, FilletsTheNamedEdge
  <2>3. QED
    BY <1>1, <2>1, <2>2
<1>5. QED
  BY <1>1, <1>2, <1>3, <1>4 DEF EntityInv, EntityTokensSteady

(* The observer and the selection of the edge to fillet. *)
LEMMA Observed ==
  ASSUME EntityInv, ObserveBefore \/ Traverse \/ FilletSelects
  PROVE  EntityInv' /\ EntityTokensSteady
<1>1. UNCHANGED <<part, registry, issued, meaning>>
  BY DEF ObserveBefore, Traverse, FilletSelects
<1>2. OpInv' /\ FilletsTheNamedEdge'
  <2>1. CASE op' = Idle
    BY <2>1, IdleOp
  <2>2. CASE op' = [op EXCEPT !.at = "traverse", !.before = part.scope]
    <3>1. /\ op' = [f \in OpFields |-> op'[f]] /\ op'.at = "traverse"
          /\ op'.kind = op.kind /\ op'.verb = op.verb
      BY <2>2 DEF EntityInv, OpInv, OpFields
    <3>2. QED
      BY <3>1 DEF EntityInv, OpInv, FilletsTheNamedEdge
  <2>3. ASSUME NEW seen \in {{}, part.shapes \cap OfKind(op.kind)},
               op' = [op EXCEPT !.at = "conclude", !.seen = seen]
        PROVE  OpInv' /\ FilletsTheNamedEdge'
    <3>1. /\ op' = [f \in OpFields |-> op'[f]] /\ op'.at = "conclude"
          /\ op'.kind = op.kind /\ op'.verb = op.verb /\ op'.seen = seen
      BY <2>3 DEF EntityInv, OpInv, OpFields
    <3>2. QED
      BY <3>1 DEF EntityInv, OpInv, FilletsTheNamedEdge
  <2>4. CASE op.at = "fillet" /\ op' = [op EXCEPT !.at = "write"]
    <3>1. /\ op' = [f \in OpFields |-> op'[f]] /\ op'.at = "write"
          /\ op'.kind = op.kind /\ op'.verb = op.verb /\ op'.token = op.token
          /\ op'.target = op.target /\ op'.seen = op.seen /\ op'.before = op.before
      BY <2>4 DEF EntityInv, OpInv, OpFields
    <3>2. QED
      BY <1>1, <2>4, <3>1 DEF EntityInv, OpInv, FilletsTheNamedEdge
  <2>5. QED
    BY <2>1, <2>2, <2>3, <2>4 DEF ObserveBefore, Traverse, FilletSelects
<1>3. HistoryInv'
  BY <1>1 DEF EntityInv, HistoryInv
<1>4. QED
  BY <1>1, <1>2, <1>3, Reads

(* The registry that was told both scopes. *)
LEMMA ToldBoth ==
  ASSUME EntityInv, NEW after
  PROVE  /\ Sound(Told(after))
         /\ DOMAIN Told(after).entries \subseteq DOMAIN registry.entries
<1>1. /\ Sound(_refresh(registry, op.before))
      /\ DOMAIN _refresh(registry, op.before).entries \subseteq DOMAIN registry.entries
  BY Refreshed DEF EntityInv
<1>2. /\ Sound(_refresh(_refresh(registry, op.before), after))
      /\ DOMAIN _refresh(_refresh(registry, op.before), after).entries
           \subseteq DOMAIN _refresh(registry, op.before).entries
  BY <1>1, Refreshed
<1>3. QED
  BY <1>1, <1>2 DEF Told

(* The operations that end without a new token. *)
LEMMA Concluded ==
  ASSUME EntityInv, ObservationFails \/ FilletRefused \/ FilletWrites \/ RevolveWrites
  PROVE  EntityInv' /\ EntityTokensSteady
<1>1. PICK r : EndWith(r) /\ Sound(r) /\ DOMAIN r.entries \subseteq DOMAIN registry.entries
  <2>1. Sound(registry)
    BY DEF EntityInv
  <2>2. Sound(retire_scope(registry)) /\ DOMAIN retire_scope(registry).entries = {}
    BY <2>1, Retired
  <2>3. CASE ObservationFails
    BY <2>1, <2>3, ToldBoth DEF ObservationFails
  <2>4. CASE FilletRefused \/ FilletWrites \/ RevolveWrites
    BY <2>1, <2>2, <2>4 DEF FilletRefused, FilletWrites, RevolveWrites
  <2>5. QED
    BY <2>3, <2>4
<1>2. /\ part' = [scope |-> part'.scope, single |-> part'.single, shapes |-> part'.shapes]
      /\ part'.scope \in Scopes
  <2>1. CASE UNCHANGED part
    BY <2>1 DEF EntityInv, HistoryInv
  <2>2. ASSUME NEW shapes \in Geometries,
               NEW stamp \in {part.scope.stamp, part.scope.stamp + 1} \cap Stamps,
               part' = [part EXCEPT !.scope.stamp = stamp, !.shapes = shapes]
        PROVE  <1>2!1 /\ <1>2!2
    <3>1. PICK scope, single, old :
            part = [scope |-> scope, single |-> single, shapes |-> old]
      BY DEF EntityInv, HistoryInv
    <3>2. scope \in Scopes
      BY <3>1 DEF EntityInv, HistoryInv
    <3>3. part' = [scope |-> [scope EXCEPT !.stamp = stamp], single |-> single,
                   shapes |-> shapes]
      BY <2>2, <3>1
    <3>4. [scope EXCEPT !.stamp = stamp] \in Scopes
      BY <3>2 DEF Scopes
    <3>5. QED
      BY <3>3, <3>4
  <2>3. QED
    BY <2>1, <2>2 DEF ObservationFails, FilletRefused, FilletWrites, RevolveWrites,
      WrittenPart
<1>3. QED
  BY <1>1, <1>2, Ends

(* entity.list and entity.inspect answer. *)
LEMMA Answered ==
  ASSUME EntityInv, AnswerEntities
  PROVE  EntityInv' /\ EntityTokensSteady
<1>1. /\ op.at = "conclude" /\ Succeeds(part.scope) /\ UNCHANGED part
      /\ \/ EndWith(Told(part.scope))
         \/ \E outcome \in _register(Told(part.scope), op.kind, op.seen, part.scope) :
              Adopt(outcome) /\ op' = Idle
  BY DEF AnswerEntities
<1>2. CASE EndWith(Told(part.scope))
  BY <1>1, <1>2, ToldBoth, Ends DEF EntityInv, HistoryInv
<1>3. CASE \E outcome \in _register(Told(part.scope), op.kind, op.seen, part.scope) :
             Adopt(outcome) /\ op' = Idle
  <2>1. PICK outcome \in _register(Told(part.scope), op.kind, op.seen, part.scope) :
          Adopt(outcome) /\ op' = Idle
    BY <1>3
  <2>2. /\ HistoryInv /\ op.kind \in Kinds /\ part.scope # NoScope
        /\ op.seen \subseteq OfKind(op.kind) /\ op.seen # {}
    BY <1>1, EntityAssumption DEF EntityInv, HistoryInv, OpInv, Succeeds
  <2>3. /\ Sound(registry)' /\ issued' \subseteq Tokens
        /\ meaning' = [t \in Tokens |-> meaning'[t]]
        /\ \A t \in issued : meaning'[t] = meaning[t]
        /\ DOMAIN registry'.entries \cap issued \subseteq DOMAIN Told(part.scope).entries
    BY <2>1, <2>2, ToldBoth, Registered
  <2>4. OpInv' /\ FilletsTheNamedEdge'
    BY <2>1, IdleOp
  <2>5. HistoryInv'
    BY <1>1, <2>3 DEF EntityInv, HistoryInv
  <2>6. QED
    BY <2>3, <2>4, <2>5, ToldBoth DEF EntityInv, EntityTokensSteady
<1>4. QED
  BY <1>1, <1>2, <1>3

(* feature.fillet takes its target. *)
LEMMA Taken ==
  ASSUME EntityInv, TakeTarget
  PROVE  EntityInv' /\ EntityTokensSteady
<1>1. op.kind = "edge"
  BY DEF TakeTarget, EntityInv, OpInv
<1>2. PICK outcome \in _register(Told(part.scope), op.kind, op.seen, part.scope) :
        /\ Adopt(outcome)
        /\ \/ op' = Idle
           \/ /\ outcome.ok /\ Resolves(registry', op.token, "edge")
              /\ op' = [op EXCEPT !.at = "fillet", !.target = registry'.entries[op.token]]
  BY <1>1 DEF TakeTarget
<1>3. /\ op.at = "conclude" /\ op.verb = "fillet" /\ Succeeds(part.scope) /\ UNCHANGED part
  BY DEF TakeTarget
<1>4. /\ HistoryInv /\ op.kind \in Kinds /\ part.scope # NoScope
      /\ op.seen \subseteq OfKind(op.kind) /\ op.seen # {} /\ op.before = part.scope
  BY <1>3, EntityAssumption DEF EntityInv, HistoryInv, OpInv, Succeeds
<1>5. /\ Sound(registry)' /\ issued' \subseteq Tokens
      /\ meaning' = [t \in Tokens |-> meaning'[t]]
      /\ registry'.scope = part.scope
      /\ \A t \in issued : meaning'[t] = meaning[t]
      /\ DOMAIN registry'.entries \cap issued \subseteq DOMAIN Told(part.scope).entries
      /\ outcome.ok => \A t \in OfKindIn(registry', op.kind) : registry'.entries[t] \in op.seen
  BY <1>2, <1>4, ToldBoth, Registered
<1>6. OpInv' /\ FilletsTheNamedEdge'
  <2>1. CASE op' = Idle
    BY <2>1, IdleOp
  <2>2. CASE /\ outcome.ok /\ Resolves(registry', op.token, "edge")
             /\ op' = [op EXCEPT !.at = "fillet", !.target = registry'.entries[op.token]]
    <3>1. /\ op' = [f \in OpFields |-> op'[f]] /\ op'.at = "fillet"
          /\ op'.kind = op.kind /\ op'.verb = op.verb /\ op'.token = op.token
          /\ op'.seen = op.seen /\ op'.before = op.before
          /\ op'.target = registry'.entries[op.token]
      BY <2>2 DEF EntityInv, OpInv, OpFields
    <3>2. op.token \in OfKindIn(registry', "edge") /\ op.token \in DOMAIN registry'.entries
      BY <2>2 DEF Resolves, OfKindIn
    <3>3. meaning'[op.token] = [shape |-> registry'.entries[op.token], scope |-> part.scope]
      BY <1>5, <3>2 DEF Sound
    <3>4. OpInv'
      BY <3>1 DEF EntityInv, OpInv
    <3>5. FilletsTheNamedEdge'
      BY <1>1, <1>4, <1>5, <2>2, <3>1, <3>2, <3>3 DEF FilletsTheNamedEdge
    <3>6. QED
      BY <3>4, <3>5
  <2>3. QED
    BY <1>2, <2>1, <2>2
<1>7. HistoryInv'
  BY <1>3, <1>5 DEF EntityInv, HistoryInv
<1>8. QED
  BY <1>5, <1>6, <1>7, ToldBoth DEF EntityInv, EntityTokensSteady

(* A document that closes, and a person at the same SOLIDWORKS. *)
LEMMA Closed ==
  ASSUME EntityInv, CloseEntities
  PROVE  EntityInv' /\ EntityTokensSteady
<1>1. /\ registry' = NewRegistry /\ part' = [part EXCEPT !.scope.stamp = 0]
      /\ op' = Idle /\ UNCHANGED <<issued, meaning>>
  BY DEF CloseEntities
<1>2. Sound(NewRegistry) /\ DOMAIN NewRegistry.entries = {}
  BY DEF Sound, NewRegistry, NoEntries, OfKindIn, IsInjective
<1>3. /\ part' = [scope |-> part'.scope, single |-> part'.single, shapes |-> part'.shapes]
      /\ part'.scope \in Scopes
  <2>1. PICK scope, single, old :
          part = [scope |-> scope, single |-> single, shapes |-> old]
    BY DEF EntityInv, HistoryInv
  <2>2. scope \in Scopes
    BY <2>1 DEF EntityInv, HistoryInv
  <2>3. part' = [scope |-> [scope EXCEPT !.stamp = 0], single |-> single, shapes |-> old]
    BY <1>1, <2>1
  <2>4. [scope EXCEPT !.stamp = 0] \in Scopes
    BY <2>2, EntityAssumption DEF Scopes, Stamps
  <2>5. QED
    BY <2>3, <2>4
<1>4. EndWith(NewRegistry)
  BY <1>1 DEF EndWith
<1>5. QED
  BY <1>2, <1>3, <1>4, Ends

LEMMA Interfered ==
  ASSUME EntityInv, Interfere
  PROVE  EntityInv' /\ EntityTokensSteady
<1>1. /\ UNCHANGED <<registry, issued, meaning, op>>
      /\ part' = [scope |-> part'.scope, single |-> part'.single, shapes |-> part'.shapes]
      /\ part'.scope \in Scopes
  <2>1. PICK configuration \in Configurations, single \in BOOLEAN, shapes \in Geometries,
             stamp \in {part.scope.stamp, part.scope.stamp + 1} \cap Stamps :
          part' = [scope |-> [configuration |-> configuration, stamp |-> stamp],
                   single |-> single, shapes |-> shapes]
    BY DEF Interfere
  <2>2. QED
    BY <2>1 DEF Interfere, Scopes
<1>2. HistoryInv' /\ OpInv' /\ FilletsTheNamedEdge'
  BY <1>1 DEF EntityInv, HistoryInv, OpInv, FilletsTheNamedEdge
<1>3. QED
  BY <1>1, <1>2, Reads

(* Every step of a session, as the entity tables see it. *)
LEMMA EntityNext ==
  ASSUME EntityInv, [Next]_vars
  PROVE  EntityInv' /\ EntityTokensSteady
<1>1. CASE UNCHANGED entityVars
  <2>1. HistoryInv' /\ OpInv' /\ FilletsTheNamedEdge'
    BY <1>1 DEF EntityInv, HistoryInv, OpInv, FilletsTheNamedEdge
  <2>2. QED
    BY <1>1, <2>1, Reads
<1>2. CASE EntityRequest
  BY <1>2, Requested DEF EntityRequest
<1>3. CASE feature_fillet \/ feature_revolve
  BY <1>3, Concluded DEF feature_fillet, feature_revolve
<1>4. CASE forget
  BY <1>4, Closed DEF forget
<1>5. CASE EntityStep
  <2>1. CASE AdmitFillet \/ ResolveTarget
    BY <2>1, Resolved DEF AdmitFillet, ResolveTarget
  <2>2. QED
    BY <1>5, <2>1, Observed, Concluded, Answered, Taken DEF EntityStep
<1>6. CASE People
  BY <1>6, Interfered DEF People
<1>7. CASE FeatureRequest \/ SketchRequest \/ DimensionRequest \/ ModelStep \/ SessionEnds
           \/ UNCHANGED vars
  BY <1>7, <1>1 DEF FeatureRequest, SketchRequest, DimensionRequest, ModelStep, SessionEnds
<1>8. QED
  BY <1>2, <1>3, <1>4, <1>5, <1>6, <1>7 DEF Next

-----------------------------------------------------------------------------
(* What is proved of the handles of a document. *)

Inv == ModelInv /\ EntityInv

LEMMA InitInv ==
  ASSUME Init
  PROVE  Inv
<1>1. ModelInv
  BY DEF Init, ModelInit, ModelInv, ModelTablesAgree, IndexAgrees, DimensionsAgree, Empty,
         WalkInv, AtRest, Range
<1>2. Sound(registry)
  BY DEF Init, EntityInit, Sound, NewRegistry, NoEntries, OfKindIn, IsInjective
<1>3. HistoryInv
  <2>1. PICK c \in Configurations, shapes \in Geometries :
          part = [scope |-> [configuration |-> c, stamp |-> 0], single |-> TRUE,
                  shapes |-> shapes]
    BY DEF Init, EntityInit
  <2>2. part.scope \in Scopes
    BY <2>1, EntityAssumption DEF Scopes, Stamps
  <2>3. QED
    BY <2>1, <2>2 DEF HistoryInv, Init, EntityInit
<1>4. OpInv /\ FilletsTheNamedEdge
  BY DEF Init, EntityInit, Idle, OpInv, OpFields, Kinds, FilletsTheNamedEdge
<1>5. QED
  BY <1>1, <1>2, <1>3, <1>4 DEF Inv, EntityInv

(* The tables of the tokens stay as the handlers rely on: the inductive    *)
(* invariant (documents.py 343-538, entities.py 148-241).                  *)
THEOREM Invariance == Spec => []Inv
<1>1. Inv /\ [Next]_vars => Inv'
  BY ModelNext, EntityNext DEF Inv
<1>2. QED
  BY <1>1, InitInv, PTL DEF Spec

(* Between the steps of a registration no table of the document disagrees  *)
(* with another, whatever native ids collide and whatever proxies expire   *)
(* (documents.py 343-538, entities.py 148-241).                            *)
THEOREM HandleTablesAgree == Spec => []TablesAgree
<1>1. Inv => TablesAgree
  BY DEF Inv, ModelInv, EntityInv, Sound, TablesAgree, EntityTablesAgree
<1>2. QED
  BY <1>1, Invariance, PTL

(* The edge a fillet changes is the one its token was given out for, in    *)
(* the scope it was given out in, and is one the same operation observed   *)
(* (operations.py, feature.fillet).                                        *)
THEOREM FilletsItsEdge == Spec => []FilletsTheNamedEdge
<1>1. Inv => FilletsTheNamedEdge
  BY DEF Inv, EntityInv
<1>2. QED
  BY <1>1, Invariance, PTL

(* A token keeps its meaning as long as it resolves, and a feature, face   *)
(* or edge token that was given up never resolves again.                   *)
THEOREM TokensAreSteady == Spec => TokensKeepTheirMeaning
<1>1. Inv /\ [Next]_vars => [ModelTokensSteady /\ EntityTokensSteady]_vars
  BY ModelNext, EntityNext DEF Inv
<1>2. QED
  BY <1>1, Invariance, PTL DEF Spec, TokensKeepTheirMeaning
=============================================================================
