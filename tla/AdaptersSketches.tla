-------------------------- MODULE AdaptersSketches --------------------------
(***************************************************************************)
(* The adapters of sketches: new rectangle, circle and polygon profiles,   *)
(* listing and inspecting sketches, and the fixed center of a rectangle    *)
(* (hosts/windows_sketches.py, windows_polygons.py,                        *)
(* windows_rectangle_*.py, windows_sketch_inspection.py).                  *)
(*                                                                         *)
(* A new profile owns its sketch edit from InsertSketch to InsertSketch.   *)
(* Within it the host snaps and infers unless its creation mode and its    *)
(* inference preference are switched, and both belong to the session.      *)
(***************************************************************************)
EXTENDS HostSteps

-----------------------------------------------------------------------------
(* windows_sketches.py *)

standard_plane == Check("the origin plane aligned with the request")
clear_and_select == Check("ClearSelection2, Select2 of the plane")
sketch_feature == Check("the active sketch's feature by native identity")

\* AddToDB is on while the segments are made.  A mode that does not come back
\* is collected, and a creation that succeeded fails for it.
create_without_inference(create) ==
  <<Take("creation mode"), Check("AddToDB reads True")>> \o create
  \o <<Collect(Free("creation mode"))>>
restore_creation_mode == Collect(Free("creation mode"))

\* Rectangles also need sketch inference off, around the creation mode.
create_rectangle_without_inference(create) ==
  <<Take("inference"), Check("swSketchInference reads False")>>
  \o create_without_inference(create) \o <<Collect(Free("inference"))>>

\* The sketch edit is left in the body and read back; the finally clause tries
\* again when that failed, and only warns.
create_profile_sketch(arguments, create, geometry, restore) ==
  Adapter({"verified"},
    <<arguments, Check("a part, no sketch edit"), standard_plane, clear_and_select,
      Take("sketch"), sketch_feature, Check("ModelToSketchTransform")>>
    \o create \o <<Free("sketch"), Check("ClearSelection2")>> \o geometry,
    restore \o <<Warn(Free("sketch"))>>)

circle_verification == Verify("one full circle of the center and radius")
create_circle_without_inference == create_without_inference(<<Write("CreateCircleByRadius")>>)
create_circle_sketch ==
  create_profile_sketch(Check("plane, representable circle"), create_circle_without_inference,
    <<circle_verification>>, <<restore_creation_mode>>)

-----------------------------------------------------------------------------
(* windows_rectangle_profiles.py, windows_rectangle_center.py *)

observe_rectangle_profile == Verify("four axis-aligned edges, two construction diagonals")
rectangle_topology == Check("edges, corners and diagonals by native key")
observe_rectangle_center == Verify("five points, one center on two diagonal relations")

\* A hidden host may omit the center point: it is created with its two
\* relations, each while the same sketch is still being edited.
complete_created_rectangle_center ==
  <<rectangle_topology, Write("CreatePoint"), Check("a new point at the center"),
    Check("ActiveSketch is the sketch"), Write("AddRelation(COINCIDENT)"),
    Verify("the relation is exact"),
    Check("ActiveSketch is the sketch"), Write("AddRelation(COINCIDENT)"),
    Verify("the relation is exact"), observe_rectangle_center>>

rectangle_verification == Verify("the rectangle's bounds and lines")
create_rectangle_sketch ==
  create_profile_sketch(Check("plane, representable rectangle"),
    create_rectangle_without_inference(
      <<Write("CreateCenterRectangle")>> \o complete_created_rectangle_center),
    <<rectangle_verification, observe_rectangle_center>>,
    <<restore_creation_mode, Collect(Free("inference"))>>)

\* What a dimension or constraint must leave alone: stamp, configuration, edit.
profile_facets == {"stamp", "configuration", "edit"}
profile_state(name) == Snap(name, profile_facets)

inspect_rectangle_center ==
  Adapter({"observation"},
    <<Check("a part"), profile_state("before"), Read("the live profile"),
      Read("center, corners and relations")>>,
    <<Collect(Same("before", profile_facets))>>)

-----------------------------------------------------------------------------
(* windows_polygons.py *)

observe_native_polygon_profile == Check("a closed loop of lines by native point")
observe_polygon_sketch == Verify("the loop has the requested vertices in order")
\* One native line after the other.
create_polygon_sketch ==
  create_profile_sketch(Check("plane, simple polygon"),
    create_without_inference(<<Write("CreateLine"), Write("CreateLine"), Write("CreateLine")>>),
    <<observe_native_polygon_profile, observe_polygon_sketch>>, <<restore_creation_mode>>)

-----------------------------------------------------------------------------
(* windows_sketch_inspection.py *)

list_features == ReadAll("FirstFeature, GetNextFeature, GetFirstSubFeature, GetNextSubFeature")
sketch_descriptor == Read("name, status, owner")

\* Complete traversals, or an error; nothing is observed again at the end.
list_sketches ==
  Adapter({}, <<Check("max_sketches, a part")>> \o list_features \o <<sketch_descriptor>>, <<>>)

segment == Read("a segment's type, construction flag and geometry")
inspect_sketch ==
  Adapter({}, <<Check("max_segments, a part")>> \o list_features
              \o <<Check("the exact profile is live"), segment, segment, sketch_descriptor>>, <<>>)

-----------------------------------------------------------------------------
(* windows_rectangle_constraints.py *)

solver == Check("under or fully constrained, autosolving")
owned_edit == Same("before", {"edit"})
same_configuration == Same("before", {"configuration"})
verify_center == Verify("point, diagonals, size and center as before")

center_preflight ==
  <<Check("a part"), profile_state("before"), Check("no sketch edit, an unabsorbed profile"),
    Read("the center"), solver, Same("before", profile_facets)>>

\* An existing fix is verified and returned, with nothing written.
fix_rectangle_center_existing ==
  Adapter({"observation"},
    center_preflight \o <<verify_center, solver, Same("before", profile_facets)>>, <<>>)

\* The exact sketch edit is entered and left, and nobody else's is closed.
leave_center_edit == <<Collect(Free("sketch")), Collect(Drop("selection"))>>

fix_rectangle_center ==
  Adapter({"receipt", "verified", "context"},
    center_preflight
    \o <<Take("selection"), Check("Select2"), Take("sketch"), Check("the exact sketch is active"),
         verify_center, same_configuration, solver, owned_edit,
         Attempt, Write("AddRelation(FIXED)"), owned_edit, Check("an exact fixed relation"),
         verify_center, solver, same_configuration, owned_edit, Free("sketch"),
         verify_center, same_configuration, solver>>,
    leave_center_edit)
=============================================================================
