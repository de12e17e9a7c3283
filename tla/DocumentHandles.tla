-------------------------- MODULE DocumentHandles ---------------------------
(***************************************************************************)
(* All the handles of one document together.  The worker runs one          *)
(* operation at a time, so the entity handlers and the walks of the model  *)
(* tables never overlap; what they share is the document: a fillet and a   *)
(* revolve retire the entities and register the feature they created, and  *)
(* a document that closes takes every handle with it.                      *)
(***************************************************************************)
EXTENDS EntityHandles, ModelHandles, Naturals

CONSTANT MaxCalls, MaxChanges   \* bounds of a session, for the checker only

VARIABLES calls, changes

vars == <<entityVars, modelVars, calls, changes>>

Init == EntityInit /\ ModelInit /\ calls = 0 /\ changes = 0

Quiet == op = Idle /\ walk = AtRest
Ended == Quiet /\ calls = MaxCalls

Call ==
  /\ Quiet /\ calls < MaxCalls
  /\ calls' = calls + 1
  /\ UNCHANGED changes

EntityRequest ==
  /\ Call
  /\ \E verb \in {"list", "inspect", "fillet"}, kind \in Kinds,
        token \in Tokens \cup {NoToken} : Request(verb, kind, token)
  /\ UNCHANGED modelVars

FeatureRequest ==
  /\ Call
  /\ \E found \in SUBSET Features \ {{}} : feature_list(found)
  /\ UNCHANGED entityVars

SketchRequest ==
  /\ Call
  /\ \E found \in SUBSET Sketches \ {{}} : sketch_list(found)
  /\ UNCHANGED entityVars

(***************************************************************************)
(* A circle has a diameter; a rectangle a width and a height, two native   *)
(* dimensions.                                                             *)
(***************************************************************************)
DimensionRequest ==
  /\ Call
  /\ \E token \in SketchTokens, d, e \in Dimensions :
       dimension_discover(token,
         IF d = e THEN {[dimension |-> d, role |-> "diameter"]}
         ELSE {[dimension |-> d, role |-> "width"], [dimension |-> e, role |-> "height"]})
  /\ UNCHANGED entityVars

(***************************************************************************)
(* The feature a creation returned is registered, also when a later check  *)
(* failed; a registration that fails does not undo the creation.           *)
(***************************************************************************)
CreatedFeature ==
  /\ \/ UNCHANGED <<features, featureIds, issuedFeatures>>
     \/ \E feature \in Features : RegisterFeature(feature)
  /\ UNCHANGED <<sketches, sketchIds, dimensions, walk>>

feature_fillet == FilletWrites /\ CreatedFeature /\ UNCHANGED <<calls, changes>>

feature_revolve ==
  /\ Call
  /\ DOMAIN sketches # {}                                     \* resolve_sketch
  /\ RevolveWrites
  /\ CreatedFeature

forget == Call /\ CloseEntities /\ ForgetModel

(***************************************************************************)
(* No further request comes; a handler that cannot go on is a deadlock.    *)
(***************************************************************************)
SessionEnds == Ended /\ UNCHANGED vars

EntityStep ==
  /\ \/ AdmitFillet
     \/ ResolveTarget
     \/ ObserveBefore
     \/ Traverse
     \/ ObservationFails
     \/ AnswerEntities
     \/ TakeTarget
     \/ FilletRefused
     \/ FilletSelects
  /\ UNCHANGED <<modelVars, calls, changes>>

ModelStep ==
  /\ RegisterNextFeature \/ RegisterNextSketch \/ RegisterNextDimension
  /\ UNCHANGED <<entityVars, calls, changes>>

People ==
  /\ changes < MaxChanges /\ ~Ended /\ walk = AtRest   \* no walk reads the part
  /\ changes' = changes + 1
  /\ Interfere
  /\ UNCHANGED <<modelVars, calls>>

Next ==
  \/ EntityRequest
  \/ FeatureRequest
  \/ SketchRequest
  \/ DimensionRequest
  \/ feature_fillet
  \/ feature_revolve
  \/ forget
  \/ EntityStep
  \/ ModelStep
  \/ People
  \/ SessionEnds

Spec == Init /\ [][Next]_vars
-----------------------------------------------------------------------------
(***************************************************************************)
(* Between the steps of a registration no table of the document disagrees  *)
(* with another: index and handles, dimensions and their sketches, entity  *)
(* tokens and the scope they were given out for (documents.py 343-538,     *)
(* entities.py 148-241).                                                   *)
(***************************************************************************)
TablesAgree == ModelTablesAgree /\ EntityTablesAgree

(***************************************************************************)
(* A client that kept a token never reaches another native object with it: *)
(* a token keeps its meaning as long as it resolves, and a feature, face   *)
(* or edge token that was given up, by an edit, a switched configuration,  *)
(* an expired proxy or a closed document, never resolves again.            *)
(***************************************************************************)
TokensKeepTheirMeaning == [][ModelTokensSteady /\ EntityTokensSteady]_vars
=============================================================================
