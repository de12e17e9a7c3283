---------------------------- MODULE ModelHandles ----------------------------
(***************************************************************************)
(* The feature, sketch and dimension handles of one document: the tables   *)
(* DocumentRegistry keeps from short tokens to live native objects         *)
(* (daemon/documents.py).  A native id indexes a feature or a sketch, and  *)
(* only ISldWorks.IsSame says whether the object behind the token is the   *)
(* one at hand.  The comparison may answer, may find the kept proxy        *)
(* disconnected, or may fail otherwise; what it answers is true.           *)
(*                                                                         *)
(* The handlers call the tables one native object at a time, so a failure  *)
(* half way through a list leaves what was registered before it: `walk' is *)
(* what the running operation has still to register.                       *)
(***************************************************************************)
EXTENDS FiniteSets, Functions

CONSTANTS
  Features, Sketches, Dimensions,   \* native objects
  NativeId,                         \* their GetID, not always unique
  FeatureTokens, SketchTokens, DimensionTokens

VARIABLES
  features,        \* token -> feature
  featureIds,      \* native id -> token
  issuedFeatures,  \* tokens the worker gave out, for every document
  sketches,        \* token -> sketch
  sketchIds,       \* native id -> token
  dimensions,      \* token -> [sketch, dimension, role]
  walk             \* [of, sketch, left]

modelVars == <<features, featureIds, issuedFeatures, sketches, sketchIds,
               dimensions, walk>>

(***************************************************************************)
(* (kind, profile_kind), the two role fields of a dimension.               *)
(***************************************************************************)
Roles == {"diameter", "width", "height"}

AtRest == [of |-> "nothing", sketch |-> "none", left |-> {}]

Without(table, tokens) == Restrict(table, DOMAIN table \ tokens)

With(table, key, value) ==
  [k \in DOMAIN table \cup {key} |-> IF k = key THEN value ELSE table[k]]

Empty == [k \in {} |-> {}]

ModelInit ==
  /\ features = Empty /\ featureIds = Empty /\ issuedFeatures = {}
  /\ sketches = Empty /\ sketchIds = Empty
  /\ dimensions = Empty
  /\ walk = AtRest

(***************************************************************************)
(* What IsSame can say of a kept object and the one at hand.               *)
(***************************************************************************)
Verdicts(kept, found) ==
  {IF kept = found THEN "same" ELSE "different", "disconnected", "unknown"}

(***************************************************************************)
(* register_feature.  The token of a disconnected proxy leaves only when   *)
(* its successor is known.                                                 *)
(***************************************************************************)
KeepFeature(feature, token, expired) ==
  /\ features' = With(Without(features, expired), token, feature)
  /\ featureIds' = With(featureIds, NativeId[feature], token)
  /\ issuedFeatures' = issuedFeatures \cup {token}

FreshFeatureToken(token) == token \notin issuedFeatures

RegisterFeature(feature) ==
  LET id == NativeId[feature]
      indexed == id \in DOMAIN featureIds
  IN \E token \in FeatureTokens :
       \/ ~indexed /\ FreshFeatureToken(token) /\ KeepFeature(feature, token, {})
       \/ /\ indexed
          /\ \E verdict \in Verdicts(features[featureIds[id]], feature) :
               \/ /\ verdict = "same" /\ token = featureIds[id]
                  /\ KeepFeature(feature, token, {})
               \/ /\ verdict = "disconnected" /\ FreshFeatureToken(token)
                  /\ KeepFeature(feature, token, {featureIds[id]})

FeatureRefused(feature) ==
  /\ \/ /\ NativeId[feature] \in DOMAIN featureIds
        /\ \E verdict \in Verdicts(features[featureIds[NativeId[feature]]], feature) :
             verdict \in {"different", "unknown"}
     \/ FeatureTokens \subseteq issuedFeatures          \* the model's tokens are spent
  /\ UNCHANGED <<features, featureIds, issuedFeatures>>

(***************************************************************************)
(* register_sketch.  Its tokens are told apart from the live ones only,    *)
(* and an expired sketch takes its dimensions with it.                     *)
(***************************************************************************)
OwnedBy(token) == {d \in DOMAIN dimensions : dimensions[d].sketch = token}

(***************************************************************************)
(* A plausible slip: the dimensions of the expired sketch stay behind.     *)
(***************************************************************************)
MutantKeepSketch(sketch, token, expired) ==
  /\ sketches' = With(Without(sketches, expired), token, sketch)
  /\ sketchIds' = With(sketchIds, NativeId[sketch], token)
  /\ UNCHANGED dimensions

KeepSketch(sketch, token, expired) ==
  /\ sketches' = With(Without(sketches, expired), token, sketch)
  /\ sketchIds' = With(sketchIds, NativeId[sketch], token)
  /\ dimensions' = Without(dimensions, UNION {OwnedBy(t) : t \in expired})

RegisterSketch(sketch) ==
  LET id == NativeId[sketch]
      indexed == id \in DOMAIN sketchIds
      fresh == SketchTokens \ DOMAIN sketches
  IN \E token \in SketchTokens :
       \/ ~indexed /\ token \in fresh /\ KeepSketch(sketch, token, {})
       \/ /\ indexed
          /\ \E verdict \in Verdicts(sketches[sketchIds[id]], sketch) :
               \/ /\ verdict = "same" /\ token = sketchIds[id]
                  /\ KeepSketch(sketch, token, {})
               \/ /\ verdict = "disconnected" /\ token \in fresh
                  /\ KeepSketch(sketch, token, {sketchIds[id]})

SketchRefused(sketch) ==
  /\ \/ /\ NativeId[sketch] \in DOMAIN sketchIds
        /\ \E verdict \in Verdicts(sketches[sketchIds[NativeId[sketch]]], sketch) :
             verdict \in {"different", "unknown"}
     \/ SketchTokens \subseteq DOMAIN sketches          \* the model's tokens are spent
  /\ UNCHANGED <<sketches, sketchIds, dimensions>>

(***************************************************************************)
(* register_dimension.  A dimension has no native id: it is compared with  *)
(* those its sketch owns, up to the first that is the same.  The ones      *)
(* found disconnected on the way leave when nothing else can fail.         *)
(***************************************************************************)
Matches(dimension, owned) ==
  {d \in owned : "same" \in Verdicts(dimensions[d].dimension, dimension)}

RegisterDimension(sketch, dimension, role) ==
  \E expired \in SUBSET OwnedBy(sketch) :
    LET matched == Matches(dimension, OwnedBy(sketch) \ expired)
        kept == Without(dimensions, expired)
    IN \/ /\ \E d \in matched : dimensions[d].role = role
          /\ dimensions' = kept
       \/ /\ matched = {}
          /\ \E token \in DimensionTokens \ DOMAIN dimensions :
               dimensions' = With(kept, token,
                 [sketch |-> sketch, dimension |-> dimension, role |-> role])

DimensionRefused(sketch, dimension, role) ==
  /\ \/ OwnedBy(sketch) # {}          \* a comparison stays without an answer
     \/ DimensionTokens \subseteq DOMAIN dimensions     \* the model's tokens are spent
  /\ UNCHANGED dimensions

(***************************************************************************)
(* The handlers.  feature.list and sketch.list register all they found,    *)
(* the creations register one object, the dimension handlers first resolve *)
(* the sketch and register a diameter, or a width and a height.            *)
(***************************************************************************)
feature_list(found) ==
  /\ walk' = [AtRest EXCEPT !.of = "features", !.left = found]
  /\ UNCHANGED <<features, featureIds, issuedFeatures, sketches, sketchIds, dimensions>>

sketch_list(found) ==
  /\ walk' = [AtRest EXCEPT !.of = "sketches", !.left = found]
  /\ UNCHANGED <<features, featureIds, issuedFeatures, sketches, sketchIds, dimensions>>

dimension_discover(token, found) ==
  /\ token \in DOMAIN sketches                                \* resolve_sketch
  /\ walk' = [of |-> "dimensions", sketch |-> token, left |-> found]
  /\ UNCHANGED <<features, featureIds, issuedFeatures, sketches, sketchIds, dimensions>>

Walked(item) ==
  walk' = IF walk.left = {item} THEN AtRest
          ELSE [walk EXCEPT !.left = @ \ {item}]

RegisterNextFeature ==
  /\ walk.of = "features"
  /\ \E feature \in walk.left :
       \/ RegisterFeature(feature) /\ Walked(feature)
       \/ FeatureRefused(feature) /\ walk' = AtRest
  /\ UNCHANGED <<sketches, sketchIds, dimensions>>

RegisterNextSketch ==
  /\ walk.of = "sketches"
  /\ \E sketch \in walk.left :
       \/ RegisterSketch(sketch) /\ Walked(sketch)
       \/ SketchRefused(sketch) /\ walk' = AtRest
  /\ UNCHANGED <<features, featureIds, issuedFeatures>>

RegisterNextDimension ==
  /\ walk.of = "dimensions"
  /\ \E item \in walk.left :
       \/ RegisterDimension(walk.sketch, item.dimension, item.role) /\ Walked(item)
       \/ DimensionRefused(walk.sketch, item.dimension, item.role) /\ walk' = AtRest
  /\ UNCHANGED <<features, featureIds, issuedFeatures, sketches, sketchIds>>

(***************************************************************************)
(* resolve_dimension finds the dimension and then its sketch.              *)
(***************************************************************************)
ResolvesDimension(token) ==
  token \in DOMAIN dimensions /\ dimensions[token].sketch \in DOMAIN sketches

(***************************************************************************)
(* forget, when the document closed: the tables go, the feature tokens     *)
(* given out stay spent.                                                   *)
(***************************************************************************)
ForgetModel ==
  /\ features' = Empty /\ featureIds' = Empty
  /\ sketches' = Empty /\ sketchIds' = Empty
  /\ dimensions' = Empty
  /\ UNCHANGED <<issuedFeatures, walk>>
-----------------------------------------------------------------------------
(***************************************************************************)
(* Each native id leads to the token that stands for it and no token is    *)
(* left that no id leads to; within a sketch no native dimension has two   *)
(* tokens; and a dimension that is registered resolves, its sketch with it.*)
(***************************************************************************)
IndexAgrees(table, ids) ==
  /\ Range(ids) = DOMAIN table
  /\ \A id \in DOMAIN ids : NativeId[table[ids[id]]] = id

DimensionsAgree ==
  /\ \A d \in DOMAIN dimensions : ResolvesDimension(d)
  /\ \A d, e \in DOMAIN dimensions :
       dimensions[d].sketch = dimensions[e].sketch
         /\ dimensions[d].dimension = dimensions[e].dimension => d = e

ModelTablesAgree ==
  /\ IndexAgrees(features, featureIds)
  /\ IndexAgrees(sketches, sketchIds)
  /\ DimensionsAgree
  /\ DOMAIN features \subseteq issuedFeatures

(***************************************************************************)
(* One step of a document: a token that is live before and after it stands *)
(* for the same native object, and a feature token given up never returns. *)
(***************************************************************************)
Steady(table, after) == \A t \in DOMAIN table \cap DOMAIN after : after[t] = table[t]

ModelTokensSteady ==
  /\ Steady(features, features') /\ Steady(sketches, sketches')
  /\ Steady(dimensions, dimensions')
  /\ DOMAIN features' \cap issuedFeatures \subseteq DOMAIN features
=============================================================================
