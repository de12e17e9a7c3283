-------------------------- MODULE AdaptersEntities --------------------------
(***************************************************************************)
(* The adapters of native entities, assemblies and drawings: the complete  *)
(* face or edge set of a part with its persistent references, a component  *)
(* added to an assembly, a new drawing and its standard views              *)
(* (hosts/windows_entity_*.py, windows_edge_*.py, windows_assemblies.py,   *)
(* windows_drawings.py, drawing_geometry.py).                              *)
(***************************************************************************)
EXTENDS HostSteps, AdaptersFeatures, AdaptersDocuments

-----------------------------------------------------------------------------
(* windows_entity_references.py, windows_entity_geometry.py,               *)
(* windows_edge_geometry.py                                                *)

reference_bytes == Check("a one-dimensional byte buffer of bounded size")
resolve_verified_reference == Read("GetObjectByPersistReference3, status 0")
\* A reference counts only when it resolves to the same native object at once.
capture_verified_reference ==
  <<Read("GetPersistReference3"), reference_bytes, resolve_verified_reference, Check("IsSame")>>

observe_surface_geometry == Read("plane, cylinder, cone, sphere or torus parameters")
observe_edge_geometry == Read("curve type, parameters and end points")

-----------------------------------------------------------------------------
(* windows_entity_observation.py, windows_edge_observation.py              *)

single_body == Check("exactly one solid body")
identical == Check("IsSame is 0 or 1, against every earlier entity")
face_geometry == Read("area, normal, box and surface kind")

\* Two entities stand for the complete set: people may come between them.
observe_set(geometry, complete) ==
  Adapter({"observation"},
    <<Check("limit, a part"), feature_state("before"), single_body, Read("count and array")>>
    \o geometry \o capture_verified_reference \o <<identical>>
    \o geometry \o capture_verified_reference \o <<identical>> \o complete,
    <<Collect(feature_same("before"))>>)

observe_part_faces ==
  observe_set(<<face_geometry, observe_surface_geometry>>, <<Check("count and body as before")>>)

\* Edges are traversed again and matched one to one.
observe_part_edges ==
  observe_set(<<observe_edge_geometry>>,
              <<Check("count and body as before"), Read("the final edge array"), identical>>)

-----------------------------------------------------------------------------
(* windows_assemblies.py *)

\* The new document is returned with the error, too.
create_assembly ==
  Adapter({}, <<Check("Windows"), resolve_document_template, Write("NewDocument"),
                describe_document, Check("an assembly")>>, <<>>)

add_part_component ==
  Adapter({"verified"},
    <<Check("finite center, an existing .SLDPRT"), Check("a writable assembly"),
      Check("the edit target is the assembly itself"),
      Check("the source is open, saved, unmodified, has the configuration"),
      Read("GetComponents"), Write("AddComponent5"), Read("name, path, configuration"),
      Read("GetComponents"), describe_document,
      Verify("one more component, and it is this one")>>,
    <<>>)

-----------------------------------------------------------------------------
(* windows_drawings.py, drawing_geometry.py *)

sheet == Read("GetCurrentSheet, GetProperties2")
drawing_observe == <<sheet, Read("GetViews: references, positions, outlines, transforms")>>
empty_target == <<Check("a writable drawing in sheet mode")>> \o drawing_observe
                \o <<Check("no model views yet")>>
drawing_active == Check("the drawing is the active document")
drawing_healthy == Check("clean and complete diagnostics")
source_state == {"source stamp", "source"}
standard_layout == Verify("three aligned standard views, in the sheet, without overlap")

create_drawing ==
  Adapter({"verified"},
    <<Check("projection, an existing template"), Write("NewDocument"), describe_document,
      drawing_active>> \o empty_target
    \o <<Write("SetProperties2"), Check("ForceRebuild3")>> \o drawing_observe
    \o <<Verify("the projection and nothing else"), drawing_healthy>>,
    <<>>)

\* The facets watched are the source model's: it must come out as it went in,
\* and a drawing that failed half-way is observed once more.
insert_standard_views ==
  Adapter({"receipt", "verified", "context"},
    <<drawing_active>> \o empty_target
    \o <<Snap("before", source_state),
         Check("a saved, clean, rebuilt source in the configuration, no sketch edit"),
         drawing_healthy, Attempt, Write("Create1stAngleViews2 or Create3rdAngleViews2"),
         Check("EditRebuild3")>> \o drawing_observe
    \o <<Verify("three views of the source in the configuration"), standard_layout,
         drawing_healthy>>,
    <<Collect(Same("before", source_state)), Warn(sheet)>>)
=============================================================================
