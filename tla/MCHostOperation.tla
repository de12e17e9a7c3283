-------------------------- MODULE MCHostOperation --------------------------
(***************************************************************************)
(* Every operation of the daemon that reaches a document, by the name its  *)
(* request carries; a suffix tells the adapters of one operation apart.    *)
(***************************************************************************)
EXTENDS HostOperation, OperationHandlers, TLC

DocumentOperations ==
  [ document_create_part |-> document_create(create_part),
    document_create_assembly |-> document_create(create_assembly),
    document_create_drawing |-> document_create(create_drawing),
    document_open |-> document_open,
    document_inspect |-> document_inspect,
    document_diagnose |-> document_diagnose,
    document_rebuild |-> document_rebuild,
    document_save |-> document_save,
    document_measure |-> document_measure,
    document_close |-> document_close,
    document_render |-> document_render,
    document_export |-> document_export(export_active_windows_document),
    document_export_strict |-> document_export(export_strict),
    document_export_assembly_stl |-> document_export(export_assembly_stl),
    document_export_stl_options |-> document_export(export_stl_options),
    document_save_as |-> document_save_as,
    drawing_standard_views |-> drawing_standard_views,
    assembly_add_component |-> assembly_add_component,
    part_create_box |-> part_create_box ]

SettingOperations ==
  [ document_properties |-> document_properties,
    document_property_summary |-> document_property_summary,
    document_property_edit |-> Edit_document_property,
    document_units |-> document_units,
    document_units_set |-> document_units_set,
    document_summary |-> document_summary,
    document_summary_set |-> document_summary_set,
    document_annotation_options |-> document_annotation_options,
    document_annotation_option_set |-> document_annotation_option_set,
    document_detailing_options |-> document_detailing_options,
    document_detailing_option_set |-> document_detailing_option_set,
    document_font_scopes |-> document_font_scopes,
    document_font_scope_set |-> document_font_scope_set,
    document_line_font |-> document_line_font,
    document_line_font_set |-> document_line_font_set,
    document_tolerances |-> document_tolerances,
    document_tolerance_set |-> document_tolerance_set,
    document_dimension_format |-> document_dimension_format,
    document_dimension_format_set |-> document_dimension_format_set,
    document_image_quality |-> document_image_quality,
    document_image_quality_set |-> document_image_quality_set ]

SketchOperations ==
  [ sketch_rectangle |-> sketch_rectangle,
    sketch_circle |-> sketch_circle,
    sketch_polygon |-> sketch_polygon,
    sketch_list |-> sketch_list,
    sketch_inspect |-> sketch_inspect,
    sketch_fix_center |-> sketch_fix_center(fix_rectangle_center),
    sketch_fix_center_existing |-> sketch_fix_center(fix_rectangle_center_existing),
    sketch_dimension_diameter |-> sketch_dimension_diameter,
    sketch_dimension_rectangle |-> sketch_dimension_rectangle,
    dimension_discover_diameter |-> dimension_discover_diameter,
    dimension_discover_rectangle |-> dimension_discover_rectangle,
    dimension_inspect |-> dimension_inspect(inspect_dimension),
    dimension_inspect_rectangle |-> validate_linear_inspection(dimension_inspect(inspect_rectangle_dimension)),
    dimension_set |-> dimension_set(set_dimension),
    dimension_set_rectangle |-> validate_linear_set(dimension_set(set_rectangle_dimension)) ]

FeatureOperations ==
  [ feature_list |-> feature_list,
    feature_inspect |-> feature_inspect,
    feature_set_depth |-> feature_set_depth,
    feature_extrude |-> feature_extrude,
    feature_cut_extrude |-> feature_cut_extrude(cut_extrude_sketch),
    feature_cut_extrude_through |-> feature_cut_extrude(cut_extrude_through_all),
    feature_revolve |-> feature_revolve,
    feature_fillet |-> feature_fillet,
    entity_list_faces |-> entity_list(observe_part_faces),
    entity_list_edges |-> entity_list(observe_part_edges),
    entity_inspect_face |-> entity_inspect(observe_part_faces),
    entity_inspect_edge |-> entity_inspect(observe_part_edges) ]

MCPrograms ==
  DocumentOperations @@ SettingOperations @@ SketchOperations @@ FeatureOperations

\* One of each way to observe, compare, mark and publish, for more interference:
\* people who leave a configuration, a sketch edit or a document and come back,
\* who edit and save, or who edit twice.
Compared ==
  {"document_property_summary", "feature_list", "dimension_inspect_rectangle",
   "document_property_edit", "document_detailing_option_set", "dimension_set",
   "feature_revolve", "drawing_standard_views",
   "document_export_strict", "document_export_stl_options", "document_save"}

MCInterference == [name \in DOMAIN MCPrograms |-> IF name \in Compared THEN 2 ELSE 1]
=============================================================================
