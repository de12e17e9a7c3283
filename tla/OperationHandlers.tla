------------------------- MODULE OperationHandlers -------------------------
(***************************************************************************)
(* The operation handlers of daemon/operations.py: what they resolve       *)
(* before and register, describe or retire after their host adapter.       *)
(*                                                                         *)
(* An exception after the adapter takes the place of its result.  Handlers *)
(* whose adapter returns a receipt mostly keep it when the document cannot *)
(* be described; the others, and every operation that activates its        *)
(* document and describes it last, lose it.                                *)
(***************************************************************************)
EXTENDS AdaptersSettings, AdaptersDocuments, AdaptersFeatures, AdaptersSketches,
        AdaptersDimensions, AdaptersEntities

registry_available == Check("the document registry and the selected document")

\* The adapter between the registry check and the description of the document.
With_document(adapter) == Handled(<<registry_available>>, adapter, <<Describe>>)
Keeping_receipt(adapter) == Handled(<<registry_available>>, adapter, <<Keep(Describe)>>)

-----------------------------------------------------------------------------
(* What validate_operation_result looks at beyond the schema of an answer *)

validate_setting(operation) == Judged({"lifecycle", "modified", "readback"}, operation)
validate_geometry(operation) == Judged({"readback"}, operation)
validate_depth(operation) == Judged({"lifecycle", "readback"}, operation)
validate_linear_inspection(operation) == Judged({"one state"}, operation)
validate_linear_set(operation) == Judged({"readback"}, operation)

-----------------------------------------------------------------------------
(* Documents *)

document_create(adapter) == Handled(<<>>, adapter, <<Register("document"), Describe>>)
document_open ==
  Handled(<<>>, open_windows_document_with_handle, <<Register("document"), Describe>>)
document_inspect == Handled(<<>>, inspect_active_windows_document, <<Describe>>)
document_diagnose == Handled(<<>>, diagnose_active_windows_document, <<Describe>>)
document_rebuild == Handled(<<>>, rebuild_active_windows_document, <<Describe>>)
document_save == Handled(<<>>, save_active_windows_document, <<Describe>>)
document_measure == With_document(measure_part)
\* Described before: afterwards there is nothing left to describe.
document_close ==
  Handled(<<Check("the document is described")>>, close_active_windows_document, <<>>)

document_render == Activated(render_active_windows_document)
document_export(adapter) == Activated(adapter)
\* The key is refreshed whether or not the document took the name.
document_save_as ==
  Activated(Handled(<<registry_available, Check("the path belongs to no other document")>>,
                    save_as_native_windows, <<RefreshKey>>))

drawing_standard_views ==
  validate_geometry(
    Activated(Handled(<<registry_available, Check("the source document resolves")>>,
                      insert_standard_views, <<Keep(RefreshKey)>>)))
assembly_add_component == Activated(Handled(<<registry_available>>, add_part_component, <<>>))
part_create_box == Handled(<<>>, create_box_part, <<Register("document"), Describe>>)

-----------------------------------------------------------------------------
(* Document settings *)

document_properties == With_document(read_document_properties)
document_property_summary == With_document(read_property_summary)
Edit_document_property == With_document(edit_document_property)
document_units == With_document(read_document_units)
document_units_set == With_document(set_document_units)
document_summary == With_document(read_document_summary)
document_summary_set == With_document(set_document_summary)
document_annotation_options == With_document(read_document_annotation_options)
document_annotation_option_set ==
  validate_setting(With_document(set_document_annotation_option))

document_detailing_options == With_document(read_document_detailing_options)
document_detailing_option_set ==
  validate_setting(Keeping_receipt(set_document_detailing_option))
document_font_scopes == With_document(read_document_font_scopes)
document_font_scope_set ==
  validate_setting(KeptByWorker(Keeping_receipt(set_document_font_scope)))
document_line_font == With_document(read_document_line_font)
document_line_font_set ==
  validate_setting(KeptByWorker(Keeping_receipt(set_document_line_font)))
document_tolerances == With_document(read_document_tolerances)
document_tolerance_set ==
  validate_setting(KeptByWorker(Keeping_receipt(set_document_tolerance)))
document_dimension_format == With_document(read_dimension_format)
document_dimension_format_set ==
  validate_setting(KeptByWorker(Keeping_receipt(set_dimension_format)))
\* Also a read keeps its result, as a failure, when validation rejects it.
With_image_quality_document(adapter) == Keeping_receipt(adapter)
document_image_quality == KeptByWorker(With_image_quality_document(read_document_image_quality))
document_image_quality_set ==
  validate_setting(KeptByWorker(With_image_quality_document(set_document_image_quality)))

-----------------------------------------------------------------------------
(* Sketches and dimensions: handles are registered for what exists, also when *)
(* the adapter failed, except where an observation must be complete.          *)

resolved_sketch == Check("resolve_sketch of the selected document")
resolved_dimension == <<Check("resolve_dimension of the selected document"), resolved_sketch>>
new_sketch(adapter) == Activated(Handled(<<registry_available>>, adapter, <<Register("sketch")>>))

sketch_rectangle == new_sketch(create_rectangle_sketch)
sketch_circle == new_sketch(create_circle_sketch)
sketch_polygon == validate_geometry(new_sketch(create_polygon_sketch))
sketch_list == Handled(<<registry_available>>, list_sketches,
                       <<OnSuccess(Register("sketch")), Describe>>)
sketch_inspect == Handled(<<resolved_sketch>>, inspect_sketch, <<Describe>>)
sketch_fix_center(adapter) ==
  validate_geometry(Activated(Handled(<<resolved_sketch>>, adapter, <<>>)))
sketch_dimension_diameter ==
  Activated(Handled(<<resolved_sketch>>, create_circle_diameter, <<Register("dimension")>>))

\* Width and height are registered when the pair is verified; a report that
\* fails its validation confers no handle.
Register_pair(validate) ==
  <<Describe, validate, OnSuccess(Register("dimension")), OnSuccess(Register("dimension"))>>

validate_rectangle_creation_observation == OnSuccess(Validate("creation of width and height"))
sketch_dimension_rectangle ==
  Activated(Handled(<<resolved_sketch>>, create_rectangle_dimensions,
                    Register_pair(validate_rectangle_creation_observation)))
validate_dimension_discovery_observation == OnSuccess(Validate("discovery of a diameter"))
dimension_discover_diameter ==
  Handled(<<resolved_sketch>>, discover_circle_diameter,
          <<Describe, validate_dimension_discovery_observation,
            OnSuccess(Register("dimension"))>>)
validate_rectangle_discovery_observation == OnSuccess(Validate("discovery of width and height"))
dimension_discover_rectangle ==
  Handled(<<resolved_sketch>>, discover_rectangle_dimensions,
          Register_pair(validate_rectangle_discovery_observation))
dimension_inspect(adapter) == Handled(resolved_dimension, adapter, <<Describe>>)
dimension_set(adapter) == Activated(Handled(resolved_dimension, adapter, <<>>))

-----------------------------------------------------------------------------
(* Features and entities *)

\* A failed observation must not name a feature either.
validate_feature_observation == Validate("features and the state they were read in")
feature_list ==
  Handled(<<registry_available>>, list_extrusion_features,
          <<Describe, validate_feature_observation, OnSuccess(Register("feature"))>>)
resolved_feature == Check("resolve_feature of the selected document")
feature_inspect == Handled(<<resolved_feature>>, inspect_extrusion_feature,
          <<Describe, validate_feature_observation>>)
feature_set_depth ==
  validate_depth(Activated(Handled(<<resolved_feature>>, set_extrusion_depth, <<>>)))

\* A handle that cannot be registered fails a success, and not a failure.
Bind_created_feature == Bind(Register("feature"))
feature_extrude ==
  Activated(Handled(<<resolved_sketch>>, extrude_sketch, <<Bind_created_feature>>))
feature_cut_extrude(adapter) ==
  Activated(Handled(<<resolved_sketch>>, adapter, <<Bind_created_feature>>))
feature_revolve ==
  validate_geometry(
    Activated(Handled(<<resolved_sketch>>, create_revolve, <<Keep(Register("feature"))>>)))

resolved_entity == Check("resolve in the scope of the document's state")
validate_entity_semantics == Validate("the complete entities, their geometry and states")
validate_entity_observation == validate_entity_semantics
Observe_entities(adapter) ==
  Handled(<<registry_available>>, adapter, <<Describe, validate_entity_observation>>)
Register_entities == OnSuccess(Register("entity"))
entity_list(adapter) ==
  [Observe_entities(adapter) EXCEPT !.after = @ \o <<Register_entities>>]
resolved_again == OnSuccess(Validate("resolve in the observed state"))
entity_inspect(adapter) ==
  Handled(<<resolved_entity>>, adapter,
          <<Describe, validate_entity_observation, resolved_again, Register_entities>>)

\* The complete edge set is observed before anything is written.
feature_fillet ==
  validate_geometry(
    Activated(Handled(<<resolved_entity>> \o observe_part_edges.body
                      \o <<feature_same("before"), Check("described, registered, resolved again")>>,
                      create_edge_fillet, <<Keep(Register("feature"))>>)))
=============================================================================
