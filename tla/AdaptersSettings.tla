-------------------------- MODULE AdaptersSettings --------------------------
(***************************************************************************)
(* The adapters of document settings: length units, custom properties,     *)
(* summary information, annotation, detailing, font, line font, tolerance  *)
(* and image quality defaults (hosts/windows_document_*.py and             *)
(* hosts/windows_custom_properties.py).                                    *)
(*                                                                         *)
(* They share one discipline.  The state, the document in front and the    *)
(* editing context are observed one after the other; the value is read,    *)
(* compared with what the client expects, and the context verified; the    *)
(* receipt says that a mutation is attempted before the setter runs; the   *)
(* value is read back, the context verified, and the document marked for   *)
(* saving, because a setter need not raise the save flag.                  *)
(***************************************************************************)
EXTENDS HostSteps

-----------------------------------------------------------------------------
(* windows_custom_properties.py *)

metadata_state(name) == Snap(name, {"stamp", "modified", "configuration"})
foreground(name) == Snap(name, {"foreground"})
\* changed=False: stamp, save flag, configuration and foreground are the same.
verify_metadata_state(name) ==
  Same(name, {"stamp", "modified", "configuration", "foreground"})
\* changed=True: only kind, configuration and foreground must be the same; the
\* document is marked for saving, and that must not have disturbed them.
verify_metadata_written(name) ==
  <<Same(name, {"configuration", "foreground"}), MarkModified,
    Same(name, {"configuration", "foreground"})>>
require_writable == Check("IsOpenedReadOnly and IsOpenedViewOnly are False")
property_manager == Check("CustomPropertyManager of the document or the exact configuration")
read_property == Read("Get6, GetType2")
read_properties == ReadAll("GetNames, Get6, GetType2")

\* The state is verified in a finally clause: a failure there replaces the
\* first one.
read_document_properties ==
  Adapter({"observation"},
    <<metadata_state("before"), foreground("before"), property_manager>> \o read_properties,
    <<verify_metadata_state("before")>>)

read_property_summary ==
  Adapter({"observation"},
    <<metadata_state("before"), Check("not a drawing"), foreground("before"),
      Check("GetConfigurationNames")>>
    \o <<property_manager>> \o read_properties \o <<verify_metadata_state("before")>>
    \o <<property_manager>> \o read_properties \o <<verify_metadata_state("before")>>,
    <<>>)

edit_document_property ==
  Adapter({"receipt", "verified", "saved", "context"},
    <<require_writable, metadata_state("before"), foreground("before"), property_manager,
      read_property, Check("absent for an addition; present, unlinked and as expected otherwise"),
      verify_metadata_state("before"), Unchanged("Set2 of the value it has"),
      Attempt, WriteMetadata("Add3, Set2 or Delete2"), Verify("Get6, GetType2")>>
    \o verify_metadata_written("before"),
    <<>>)

-----------------------------------------------------------------------------
(* windows_document_units.py *)

read_units == Read("IModelDoc2.GetUnits")
active_sketch(name) == Snap(name, {"edit"})
verify_edit_state(name) == Same(name, {"edit"})

read_document_units ==
  Adapter({"observation"},
    <<metadata_state("before"), foreground("before"), active_sketch("before"), read_units,
      verify_edit_state("before"), verify_metadata_state("before")>>,
    <<>>)

set_document_units ==
  Adapter({"receipt", "verified", "saved", "context"},
    <<require_writable, Check("length unit and decimal places"), metadata_state("before"),
      foreground("before"), active_sketch("before"), read_units,
      Check("expected length unit and decimal places"), verify_edit_state("before"),
      verify_metadata_state("before"), Unchanged("native == desired"),
      Check("no sketch edit, supported decimal profile"),
      Attempt, WriteMetadata("IModelDoc2.SetUnits"),
      metadata_state("written"), foreground("written"), Verify("IModelDoc2.GetUnits"),
      verify_edit_state("before"), verify_metadata_state("written")>>
    \o verify_metadata_written("before") \o <<verify_edit_state("before")>>,
    <<>>)

-----------------------------------------------------------------------------
(* windows_document_summary.py *)

read_summary_field == Read("IModelDoc2.SummaryInfo.get")

read_document_summary ==
  Adapter({"observation"},
    <<metadata_state("before"), foreground("before"), read_summary_field, read_summary_field,
      Read("ISldWorks.VersionHistory"), verify_metadata_state("before")>>,
    <<>>)

set_document_summary ==
  Adapter({"receipt", "verified", "saved", "context"},
    <<require_writable, metadata_state("before"), foreground("before"), read_summary_field,
      Check("expected value"), verify_metadata_state("before"), Unchanged("before == value"),
      Attempt, WriteMetadata("IModelDoc2.SummaryInfo.put"), Verify("IModelDoc2.SummaryInfo.get")>>
    \o verify_metadata_written("before"),
    <<>>)

-----------------------------------------------------------------------------
(* windows_document_annotations.py *)

edit_context(name) == Snap(name, {"edit"})
verify_context(name) == Same(name, {"edit"})
writable_context == Check("a normal drawing sheet, or no model sketch")
read_annotation_options == ReadAll("IModelDocExtension.GetUserPreference*")

\* What every option setter verifies after the document is marked for saving:
\* the options are those read back, and nothing moved while they were read.
FinalRead(read) ==
  <<metadata_state("marked"), foreground("marked")>> \o read
  \o <<Verify("the options read back before")>>

read_document_annotation_options ==
  Adapter({"observation"},
    <<metadata_state("before"), foreground("before"), edit_context("before")>>
    \o read_annotation_options \o <<verify_context("before"), verify_metadata_state("before")>>,
    <<>>)

set_document_annotation_option ==
  Adapter({"receipt", "verified", "saved", "context"},
    <<Check("field, value, expected value"), require_writable, metadata_state("before"),
      foreground("before"), edit_context("before")>> \o read_annotation_options
    \o <<Check("expected value"), verify_context("before"), verify_metadata_state("before"),
         Unchanged("matches the value"), writable_context,
         Attempt, WriteMetadata("IModelDocExtension.SetUserPreference*"),
         metadata_state("written"), foreground("written")>> \o read_annotation_options
    \o <<verify_context("before"), verify_metadata_state("written"),
         Verify("the requested field and no other"), verify_context("before")>>
    \o verify_metadata_written("before") \o <<verify_context("before")>>
    \o FinalRead(read_annotation_options)
    \o <<verify_context("before"), verify_metadata_state("marked")>>,
    <<>>)

-----------------------------------------------------------------------------
(* windows_document_detailing.py *)

load_constants == Check("the detailing enums of the official type library")
detailing_constants == Check("swconst.tlb beside the executable")
native_windows == Check("no wine_get_version in ntdll")
read_detailing_options == ReadAll("IModelDocExtension.GetUserPreferenceToggle")
detailing_snapshot(name) ==
  <<metadata_state(name), foreground(name), edit_context(name), Check("title and path")>>
detailing_verify(name) ==
  <<verify_context(name), Check("title and path, foreground document"), verify_metadata_state(name)>>

read_document_detailing_options ==
  Adapter({"observation"},
    detailing_snapshot("before") \o <<detailing_constants, load_constants>>
    \o read_detailing_options \o detailing_verify("before"),
    <<>>)

set_document_detailing_option ==
  Adapter({"receipt", "verified", "saved", "context"},
    <<Check("field, value, expected options"), require_writable>> \o detailing_snapshot("before")
    \o <<detailing_constants, load_constants>> \o read_detailing_options
    \o <<Check("expected options")>> \o detailing_verify("before")
    \o <<Unchanged("the option has the value"), writable_context, native_windows,
         Attempt, WriteMetadata("IModelDocExtension.SetUserPreferenceToggle")>>
    \o detailing_snapshot("written") \o read_detailing_options \o detailing_verify("written")
    \o <<Verify("before with the field replaced"), verify_context("before")>>
    \o verify_metadata_written("before")
    \o detailing_snapshot("marked") \o read_detailing_options
    \o <<Verify("before with the field replaced")>> \o detailing_verify("marked")
    \o <<verify_context("before"), Same("before", {"foreground"})>>,
    <<>>)

-----------------------------------------------------------------------------
(* windows_document_font_scopes.py *)

read_font_constants == Check("the font enums of the official type library")
installed_constants == Check("swconst.tlb of the registered installation")
read_fonts == ReadAll("GetUserPreferenceTextFormat, ITextFormat members")
other_foreground_snapshot == Check("state, identity, access and context of another foreground document")
\* Identity, editing context, state and the other foreground document.
font_verify_identity(name) == <<verify_context("before"), verify_metadata_state(name)>>
profile_supported == Check("runtime, revision, document type, scope and field are calibrated")

read_document_font_scopes ==
  Adapter({"observation"},
    <<foreground("before"), edit_context("before"), metadata_state("before"),
      other_foreground_snapshot, installed_constants, read_font_constants>>
    \o read_fonts \o font_verify_identity("before"),
    <<>>)

apply_document_font_scope ==
  <<foreground("before"), edit_context("before"), require_writable, metadata_state("before"),
    other_foreground_snapshot, installed_constants, read_font_constants>>
  \o font_verify_identity("before") \o read_fonts
  \o <<Check("complete expected snapshot")>> \o font_verify_identity("before")
  \o <<Unchanged("the scope has the value"), writable_context, require_writable>>
  \o font_verify_identity("before")
  \o <<Attempt, WriteMetadata("ITextFormat member"), require_writable,
       metadata_state("assigned"), foreground("assigned"), Same("before", {"configuration"})>>
  \o font_verify_identity("assigned")
  \o <<WriteMetadata("IModelDocExtension.SetUserPreferenceTextFormat"),
       metadata_state("written"), foreground("written")>> \o read_fonts
  \o font_verify_identity("written")
  \o <<Verify("the requested scope and no other"), require_writable, verify_context("before")>>
  \o verify_metadata_written("before")
  \o FinalRead(read_fonts) \o font_verify_identity("marked")

set_document_font_scope ==
  Adapter({"receipt", "verified", "saved", "context"},
    <<Check("scope, field, value, expected fonts"), require_writable, profile_supported>>
    \o apply_document_font_scope,
    <<>>)

-----------------------------------------------------------------------------
(* windows_document_line_font.py *)

line_font_native_windows == Check("ntdll exports no wine_get_version")
line_font_constants == Check("the line font enums of the installed type library")
read_line_font == ReadAll("IModelDocExtension.GetUserPreferenceInteger")
capture_guard == Check("identity and access, state of another foreground document")
\* The target is still open, in its identity and access, and the foreground
\* document is the same and unchanged.
verify_guard == Same("before", {"foreground"})

read_document_line_font ==
  Adapter({"observation"},
    <<Check("a drawing"), metadata_state("before"), foreground("before"), edit_context("before"),
      capture_guard, line_font_constants>> \o read_line_font
    \o <<verify_context("before"), verify_metadata_state("before"), verify_guard>>,
    <<>>)

set_document_line_font ==
  Adapter({"receipt", "verified", "saved", "context"},
    <<Check("field, value, expected options"), line_font_native_windows, Check("a drawing"),
      require_writable, metadata_state("before"), foreground("before"), edit_context("before"),
      capture_guard, line_font_constants>> \o read_line_font
    \o <<Check("complete expected snapshot"), verify_context("before"),
         verify_metadata_state("before"), verify_guard, Check("calibrated revision and transition"),
         verify_context("before"), verify_metadata_state("before"), verify_guard,
         writable_context, Unchanged("the field has the value"),
         Attempt, WriteMetadata("IModelDocExtension.SetUserPreferenceInteger"),
         metadata_state("written"), foreground("written")>> \o read_line_font
    \o <<verify_context("before"), verify_metadata_state("written"), verify_guard,
         Verify("before with the field replaced"), verify_guard>>
    \o verify_metadata_written("before") \o FinalRead(read_line_font)
    \o <<verify_context("before"), verify_metadata_state("marked"), verify_guard>>,
    <<>>)

-----------------------------------------------------------------------------
(* windows_document_tolerances.py *)

write_enabled == Check("native Windows and a calibrated revision")
tolerance_context == <<edit_context("before"), Check("identity, state of another foreground document")>>
verify_tolerance_context == <<verify_context("before"), Check("identity, foreground document")>>
read_tolerances == ReadAll("IModelDocExtension.GetUserPreferenceInteger")

read_document_tolerances ==
  Adapter({"observation"},
    <<metadata_state("before"), foreground("before")>> \o tolerance_context \o read_tolerances
    \o verify_tolerance_context \o <<verify_metadata_state("before"), write_enabled>>,
    <<>>)

set_document_tolerance ==
  Adapter({"receipt", "verified", "saved", "context"},
    <<Check("field and value"), write_enabled, require_writable, metadata_state("before"),
      foreground("before")>> \o tolerance_context \o read_tolerances
    \o <<Check("complete expected snapshot")>> \o verify_tolerance_context
    \o <<verify_metadata_state("before"), Check("calibrated values"),
         Unchanged("the field has the value"), writable_context,
         Attempt, WriteMetadata("IModelDocExtension.SetUserPreferenceInteger"),
         metadata_state("written"), foreground("written")>> \o read_tolerances
    \o verify_tolerance_context
    \o <<verify_metadata_state("written"), Verify("the requested field and no other")>>
    \o verify_metadata_written("before") \o verify_tolerance_context
    \o FinalRead(read_tolerances) \o verify_tolerance_context
    \o <<verify_metadata_state("marked")>>,
    <<>>)

-----------------------------------------------------------------------------
(* windows_document_image_quality.py *)

public_runtime == Check("SOLIDWORKS 33.5.0 on native Windows with CPython 3.12.10")
public_custom_target == Check("a verified custom deviation for the native range")
read_quality == ReadAll("IModelDocExtension.GetUserPreference*, the deviation range")
quality_verify(name) ==
  <<Same("before", {"foreground"}), verify_context("before"), Check("identity and access"),
    verify_metadata_state(name)>>
baseline ==
  <<foreground("before"), edit_context("before"), metadata_state("before")>>
  \o quality_verify("before") \o <<Check("a part")>>

read_document_image_quality ==
  Adapter({"observation"}, baseline \o read_quality \o quality_verify("before"), <<>>)

set_document_image_quality ==
  Adapter({"receipt", "verified", "saved", "context"},
    <<Check("field, value, expected quality"), public_runtime>> \o baseline
    \o <<require_writable>> \o read_quality \o quality_verify("before")
    \o <<Check("complete expected snapshot"), Unchanged("matches the value"), writable_context,
         Check("a known, non-propagating profile and a value in range"), public_custom_target>>
    \o quality_verify("before")
    \o <<require_writable, Attempt, WriteMetadata("IModelDocExtension.SetUserPreference*"),
         metadata_state("written"), foreground("written"), Same("before", {"configuration"}),
         require_writable>>
    \o quality_verify("written") \o read_quality \o quality_verify("written")
    \o <<Verify("the requested field and its linked changes")>> \o quality_verify("written")
    \o <<require_writable>> \o verify_metadata_written("before")
    \o <<metadata_state("marked"), foreground("marked")>> \o quality_verify("marked")
    \o read_quality \o quality_verify("marked") \o <<Verify("the quality read back before")>>,
    <<>>)
=============================================================================
