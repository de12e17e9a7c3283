-------------------------- MODULE AdaptersFeatures --------------------------
(***************************************************************************)
(* The adapters of part features: their observation, extrusions, cuts,     *)
(* revolves, fillets, depth edits, new parts, and the measurements these   *)
(* verify with (hosts/windows_feature*.py, windows_fillets.py,             *)
(* windows_cuts.py, windows_revolves.py, windows_parts.py,                 *)
(* windows_measurements.py).                                               *)
(***************************************************************************)
EXTENDS HostSteps

-----------------------------------------------------------------------------
(* windows_feature_inspection.py *)

feature_state(name) == Snap(name, OwnFacets)
\* The state observed again: stamp, save flag, configuration, edit, foreground.
feature_same(name) == Same(name, OwnFacets)

\* The state after a read must be the state before it.  With an error on the
\* way already a difference is only a warning.
observe(read) ==
  Adapter({"observation"},
    <<Check("a part"), feature_state("before")>> \o read,
    <<Collect(feature_same("before"))>>)

list_extrusion_features == observe(<<Check("max_features")>> \o ReadAll("GetNextFeature, GetTypeName2"))

read_exact_extrusion ==
  ReadAll("the live feature list")
  \o <<Check("the exact feature is live, an extrusion, and has a definition"),
       Read("depth, end condition, directions, thin, draft, merge or scope")>>

inspect_extrusion_feature == observe(read_exact_extrusion)

-----------------------------------------------------------------------------
(* windows_measurements.py *)

measure_part ==
  Adapter({}, <<Check("max_bodies, a part")>> \o ReadAll("GetBodies2, Body.GetMassProperties")
              \o <<Check("finite totals")>>, <<>>)

-----------------------------------------------------------------------------
(* windows_features.py, windows_cuts.py *)

unabsorbed_profile == Check("the exact unabsorbed 2D profile is live")
diagnose_features == Check("EditRebuild3, feature diagnostics")

\* The selection is cleared in a finally clause, with a warning when it fails
\* and without looking at the count; nothing says that it may have changed.
extrude_sketch ==
  Adapter({"verified"},
    <<Check("depth, a part, no sketch edit"), unabsorbed_profile, Check("ClearSelection2"),
      Take("selection"), Write("FeatureExtrusion3"), diagnose_features,
      Verify("bodies and native extrusion definition")>>,
    <<Warn(Drop("selection"))>>)

single_solid == Check("exactly one solid and no other bodies")
through_all_preflight ==
  <<Check("empty selection"), single_solid, Check("a planar circle or rectangle")>>

cut_verification == Verify("cut definition and removed volume")
end_cut_command == Warn(Drop("command"))
clear_cut_selection == Warn(Drop("selection"))

\* FeatureCut4 that fails can leave its command running: SetPickMode ends it.
cut_extrude(preflight, cleared) ==
  Adapter({"verified"},
    <<Check("depth and end condition, a part, no sketch edit"), unabsorbed_profile>> \o preflight
    \o <<Check("measured before, ClearSelection2"), Take("selection"), Take("command"),
         Write("FeatureCut4"), Settle("command"), diagnose_features,
         Check("measured after"), cut_verification>>,
    <<end_cut_command, cleared>>)

cut_extrude_sketch == cut_extrude(<<>>, clear_cut_selection)
\* A through-all cut also fails when its selection does not come back empty.
cut_extrude_through_all == cut_extrude(through_all_preflight, Collect(Free("selection")))

-----------------------------------------------------------------------------
(* windows_revolves.py *)

native_constants == Check("native Windows and the calibrated revision")

observe_revolve_definition ==
  <<Check("GetDefinition"), Take("selection access"),
    Verify("angle, direction, type, thin, merge, contours, exact axis"),
    Once(Free("selection access"))>>

\* Configuration, edit and foreground must be back, the selection empty, and
\* another stamp means that the document may have changed.
restored == <<NoteChange("before"), Collect(Same("before", Context))>>

create_revolve ==
  Adapter({"receipt", "verified", "context"},
    <<Check("revolve intent"), native_constants, Check("a part"), feature_state("before"),
      Check("the active part outside a sketch edit, writable, one configuration, no command"),
      Check("empty selection, no bodies"), unabsorbed_profile,
      Check("the rectangle expected, its axis edge, an origin plane"), feature_same("before"),
      Take("selection"), Check("exact profile and axis selected"),
      Attempt, Write("FeatureRevolve2"), Check("a named revolution, ClearSelection2")>>
    \o observe_revolve_definition
    \o <<diagnose_features, Verify("one body of the expected cylinder")>>,
    <<Collect(Free("selection access")), Collect(Free("selection"))>> \o restored)

-----------------------------------------------------------------------------
(* windows_fillets.py *)

volume == Read("Body.GetMassProperties")

create_edge_fillet ==
  Adapter({"receipt", "verified", "context"},
    <<Check("radius, edge binding, a part"), feature_state("before"),
      Check("the active part outside a sketch edit, writable, one configuration, no command"),
      Check("empty selection"), Check("the exact edge is live"),
      Check("its persistent reference"), volume,
      Take("selection"), Check("exactly the edge is selected"),
      Check("CreateDefinition, Initialize, settings read back"),
      Attempt, Write("CreateFeature"), Check("a fillet, ClearSelection2, GetDefinition"),
      Take("selection access"), Check("the created fillet's edge, radius, profile"),
      Once(Free("selection access")), diagnose_features,
      Verify("the volume differs")>>,
    <<Collect(Free("selection access")), Collect(Free("selection"))>> \o restored)

-----------------------------------------------------------------------------
(* windows_feature_depth.py, windows_feature_depth_profiles.py *)

running_command == Check("GetRunningCommandInfo")
controls ==
  <<Read("configurations, equations, suppression, design table, access, freeze, rollback"),
    running_command>>
require_depth_scope == Check("a writable, unprotected, blind one-direction extrusion")

\* Definition and controls are read twice within one unchanged state.
prepare_extrusion_depth_edit ==
  <<feature_state("definition"), Check("no sketch edit")>> \o read_exact_extrusion \o controls
  \o <<require_depth_scope>> \o read_exact_extrusion \o controls
  \o <<feature_same("definition")>>

owned_profile == Read("the one profile the feature has absorbed")
profile_transform == Read("ModelToSketchTransform")
profile == <<owned_profile, Read("circle, polygon or rectangle"), profile_transform>>
body == Read("one final solid body")

\* The state, and within it the preparation, profile and body, each twice.
prepare_profiled_extrusion_depth_edit ==
  <<feature_state("profile")>> \o prepare_extrusion_depth_edit \o profile \o <<body>>
  \o profile \o <<body>> \o <<Check("repeated preparation is the same"), feature_same("profile")>>

-----------------------------------------------------------------------------
(* windows_feature_selections.py *)

direction == Read("GetDirectionReference")
selection_scope ==
  <<Read("contours"), direction, Read("scope bodies and rollback bodies")>>
measurement == Read("measured geometry")
healthy == Check("NeedsRebuild2, complete and healthy diagnostics")

\* Selection access rolls the model back: the stamp may rise, and nothing else,
\* the save flag included, may be different once it is released.
observe_extrusion_selection_scope ==
  prepare_profiled_extrusion_depth_edit
  \o <<feature_state("access"), Check("the active part"), measurement, healthy,
       feature_same("access"),
       Take("selection access"), Stir("AccessSelections")>> \o selection_scope
  \o <<Once(Free("selection access")), Same("access", {"modified"} \cup Context), feature_state("released"),
       Check("definition, controls, profile and body as before"), healthy, direction,
       measurement, feature_same("released")>>

-----------------------------------------------------------------------------
(* windows_feature_depth_edits.py *)

depth_argument == Check("a positive, finite, resolvable depth")
staged_depth == Check("the staged depth reads back")
stable(name) == feature_same(name)

\* A success must leave the state its last observation ended in.
verify_final_state == <<Collect(Free("selection access")), Collect(feature_same("released"))>>

\* The feature data is staged, the live part verified untouched, and only then
\* committed; the answer to a failure says that staging was attempted.
set_extrusion_depth ==
  Adapter({"receipt", "verified", "context"},
    <<depth_argument>> \o observe_extrusion_selection_scope
    \o <<feature_state("before"), feature_same("released"), Unchanged("the depth it has"),
         Attempt, Check("ExtrudeFeatureData.SetDepth"), staged_depth,
         Check("SetChangeToConfigurations")>>
    \o prepare_profiled_extrusion_depth_edit
    \o <<Check("definition, profile, controls and geometry untouched"), stable("before"),
         Write("Feature.ModifyDefinition"), Check("EditRebuild3")>>
    \o observe_extrusion_selection_scope
    \o <<Verify("the depth, and nothing else"), Same("before", Context), stable("released")>>,
    verify_final_state)

-----------------------------------------------------------------------------
(* windows_parts.py *)

resolve_document_template == Check("an existing template of the kind")

\* A document that was created is returned with the error, too.
create_part ==
  Adapter({}, <<Check("Windows"), resolve_document_template, Write("NewDocument"),
                Check("described, and a part")>>, <<>>)

validate_box_arguments == Check("output path and positive sizes")
verify_box_geometry == Verify("the body's box has the sizes")

build_box ==
  <<Write("CreateCenterRectangle"), Write("FeatureExtrusion3"), diagnose_features,
    verify_box_geometry>>
save_box == <<Check("SaveAs3 and the file"), Check("described")>>

\* A document that was created is not returned with an error: it stays open
\* without a handle.
create_box_part ==
  Adapter({"verified"},
    <<validate_box_arguments, Check("Windows, parent directory, no file or overwrite"),
      resolve_document_template, Write("NewDocument")>> \o build_box \o save_box,
    <<>>)
=============================================================================
