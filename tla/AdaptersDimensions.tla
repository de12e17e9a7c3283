------------------------- MODULE AdaptersDimensions -------------------------
(***************************************************************************)
(* The adapters of driving dimensions: finding, reading, creating and      *)
(* setting a circle's diameter or a rectangle's width and height, and the  *)
(* document's dimension display format (hosts/windows_dimension*.py,       *)
(* windows_linear_dimensions.py, windows_rectangle_dimension*.py).         *)
(*                                                                         *)
(* A dimension is created in the profile's own sketch edit, with the       *)
(* host's value prompt switched off, so three things are borrowed at once. *)
(***************************************************************************)
EXTENDS HostSteps, AdaptersSettings, AdaptersSketches

-----------------------------------------------------------------------------
(* windows_dimensions.py *)

same_dimension == Check("two native dimensions are one object")
live_profile == Check("the exact profile is live in the part")
owned_dimension == <<live_profile, Check("the dimension belongs to the profile"), same_dimension>>
circle_geometry == Read("the profile's only full circle")
diameter_circle_verification == Verify("circle, center and diameter agree")
dimension_descriptor == Read("native name, value, configuration, driven state")
equation_control == Read("equations that name the dimension")
require_dimension_writable == Check("driving, and no equation or design table controls it")
downstream_measurement == Check("measured mass properties, or no solid body")
display_chain == ReadAll("GetFirstDisplayDimension, GetNextDisplayDimension")

inspect_dimension ==
  Adapter({}, owned_dimension \o <<circle_geometry, dimension_descriptor,
                                   Read("geometry, status, edit"), equation_control>>, <<>>)

rebuilt_and_healthy == Check("EditRebuild3, NeedsRebuild2, complete diagnostics")
\* The configuration and, as no sketch was edited, the edit of before.
dimension_context == {"configuration", "edit"}

\* The answer admits a modification only after the setter returned zero.
set_dimension ==
  Adapter({"verified", "context"},
    <<Check("a positive length"), Snap("before", {"edit"}), Check("no sketch edit")>> \o owned_dimension
    \o <<circle_geometry, Snap("before", {"configuration"}), dimension_descriptor,
         equation_control, require_dimension_writable, diameter_circle_verification,
         downstream_measurement, Write("SetSystemValue3")>>
    \o owned_dimension
    \o <<dimension_descriptor, equation_control, require_dimension_writable,
         downstream_measurement, rebuilt_and_healthy, diameter_circle_verification,
         Same("before", dimension_context)>>,
    <<>>)

\* The exact profile is selected, edited, and one of its segments selected,
\* before the prompt is suppressed and the dimension added.
annotation_location == Check("ModelToSketchTransform inverted")
enter_exact_sketch ==
  <<Take("selection"), Check("Select2"), Take("sketch"), Check("the exact sketch is active")>>
suppress_prompt == <<Take("prompt"), Check("swInputDimValOnCreate reads False")>>
select_segment == Check("ClearSelection2, Select4")

\* Every cleanup failure is a warning, also after a success.
leave_circle_edit == <<Warn(Free("sketch")), Warn(Free("prompt")), Warn(Drop("selection"))>>

create_circle_diameter ==
  Adapter({"verified", "context"},
    <<Check("a positive diameter, a part, no sketch edit"), live_profile, circle_geometry,
      Check("no dimension yet"), Snap("before", {"configuration"}), annotation_location>>
    \o enter_exact_sketch \o <<select_segment>> \o suppress_prompt
    \o <<Write("AddDiameterDimension2"), dimension_descriptor, same_configuration,
         require_dimension_writable, Write("SetSystemValue3"), Free("sketch"),
         dimension_descriptor, diameter_circle_verification, require_dimension_writable,
         same_configuration>>,
    leave_circle_edit)

-----------------------------------------------------------------------------
(* windows_dimension_discovery.py, windows_rectangle_dimension_discovery.py, *)
(* windows_linear_dimensions.py                                              *)

\* The state must be the same after the reads; a difference after an error is
\* a warning only.
discover(reads) ==
  Adapter({"observation"},
    <<Check("a part"), profile_state("before"), Read("the live profile")>> \o reads,
    <<Collect(Same("before", profile_facets))>>)

discover_circle_diameter ==
  discover(<<circle_geometry>> \o display_chain
           \o <<same_dimension, dimension_descriptor, same_configuration, equation_control,
                diameter_circle_verification>>)

inspect_linear ==
  display_chain \o <<same_dimension, dimension_descriptor, same_configuration,
                     observe_rectangle_profile, equation_control>>
inspect_rectangle_dimension == discover(<<Check("width or height")>> \o inspect_linear)

\* Each inspection of the pair has a state of its own, equal to the outer one.
dimension_pair == display_chain \o <<Check("one width and one height"), same_dimension>>
discover_rectangle_dimensions ==
  discover(<<observe_rectangle_profile>> \o dimension_pair
           \o inspect_linear \o <<Same("before", profile_facets)>>
           \o inspect_linear \o <<Same("before", profile_facets), observe_rectangle_profile>>)

linear_verification == Verify("value, other size and center")
set_rectangle_dimension ==
  Adapter({"receipt", "verified", "context"},
    <<Check("kind, a resolvable length, no sketch edit"), profile_state("before")>> \o inspect_linear
    \o <<Same("before", profile_facets), require_dimension_writable, downstream_measurement,
         Same("before", profile_facets),
         Attempt, Write("SetSystemValue3"), profile_state("after")>>
    \o inspect_linear
    \o <<Same("after", profile_facets), require_dimension_writable, observe_rectangle_profile,
         downstream_measurement, Same("after", profile_facets), rebuilt_and_healthy,
         linear_verification, Same("before", dimension_context)>>,
    <<>>)

-----------------------------------------------------------------------------
(* windows_rectangle_dimensions.py *)

linear_descriptor == <<dimension_descriptor, same_configuration, require_dimension_writable>>
verify_size_and_center == Verify("width, height and center")
add_and_set(method) ==
  <<observe_rectangle_profile, select_segment, annotation_location, Attempt, Write(method)>>
  \o linear_descriptor \o <<Write("SetSystemValue3")>> \o linear_descriptor
  \o <<verify_size_and_center>>

verify_created_dimensions == owned_dimension \o linear_descriptor \o <<verify_size_and_center>>
leave_rectangle_edit ==
  <<Collect(Free("sketch")), Collect(Free("prompt")), Collect(Drop("selection"))>>

create_rectangle_dimensions ==
  Adapter({"receipt", "verified", "context"},
    <<Check("resolvable sizes, a part, no sketch edit, an unabsorbed profile"),
      observe_rectangle_profile, Check("no dimension yet"), Snap("before", {"configuration"})>>
    \o enter_exact_sketch \o suppress_prompt
    \o add_and_set("AddHorizontalDimension2") \o add_and_set("AddVerticalDimension2")
    \o <<Free("sketch")>> \o verify_created_dimensions,
    leave_rectangle_edit)

-----------------------------------------------------------------------------
(* windows_dimension_format.py *)

format_native_windows == Check("ntdll exports no wine_get_version")
read_format == ReadAll("IModelDocExtension.GetUserPreference*")
\* Identity, another foreground document, editing context and state.
format_verify(name) ==
  <<Check("identity, foreground document unchanged"), verify_context("before"),
    verify_metadata_state(name)>>
format_baseline ==
  <<metadata_state("before"), foreground("before"), edit_context("before"),
    Check("identity, state of another foreground document")>> \o read_format

read_dimension_format ==
  Adapter({"observation"}, format_baseline \o format_verify("before"), <<>>)

set_dimension_format ==
  Adapter({"receipt", "verified", "saved", "context"},
    <<Check("field, value, expected format"), require_writable>> \o format_baseline
    \o <<Check("complete expected snapshot")>> \o format_verify("before")
    \o <<Unchanged("the field has the value"), writable_context, format_native_windows,
         read_units>> \o read_annotation_options \o format_verify("before") \o read_format
    \o <<require_writable>> \o format_verify("before")
    \o <<Attempt, WriteMetadata("IModelDocExtension.SetUserPreference*"),
         metadata_state("written"), foreground("written"), require_writable>>
    \o read_format
    \o <<Verify("the requested field and no other"), Verify("units and annotations as before")>>
    \o format_verify("written")
    \o <<Check("identity, foreground document unchanged"), verify_context("before")>>
    \o verify_metadata_written("before")
    \o FinalRead(read_format) \o format_verify("marked"),
    <<>>)
=============================================================================
