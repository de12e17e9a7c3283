------------------------- MODULE AdaptersDocuments -------------------------
(***************************************************************************)
(* The adapters of whole documents: open, inspect, diagnose, render,       *)
(* export, save, save-as, rebuild and close (hosts/windows_documents.py,   *)
(* hosts/windows_native_files.py), the STL export preferences              *)
(* (hosts/windows_stl_options.py) and what they read of the host           *)
(* (hosts/windows.py).                                                     *)
(*                                                                         *)
(* A file is produced under a staging name beside the requested one and    *)
(* replaces it only after it was verified.  STL preferences belong to the  *)
(* whole SOLIDWORKS session: they are changed around one native save under *)
(* a machine-wide mutex, and a process that cannot put them back refuses   *)
(* to touch them again.                                                    *)
(***************************************************************************)
EXTENDS HostSteps

-----------------------------------------------------------------------------
(* windows.py *)

describe_document == Check("GetTitle, GetPathName, GetType, GetSaveFlag, GetUpdateStamp")

discover_com_registration == Read("CLSID, LocalServer32, CurVer of both registry views")
discover_installations == Read("SOLIDWORKS 20xx setup keys of both hives and views")
probe_active_com == Read("GetActiveObject, RevisionNumber, ActiveDoc")

doctor_windows_host ==
  Adapter({}, <<Check("Windows"), discover_com_registration, discover_installations,
                Warn(probe_active_com)>>, <<>>)

-----------------------------------------------------------------------------
(* windows_documents.py: open and observe *)

\* OpenDoc6 may open the document and its description fail: the answer is an
\* error without a handle, and the document stays open.
open_windows_document_with_handle ==
  Adapter({}, <<Check("an existing file of a native type"), Take("document"),
                Check("OpenDoc6 returned a document"), describe_document,
                Settle("document")>>, <<>>)

inspect_configurations == Read("GetConfigurationNames, GetActiveConfiguration")
inspect_units == Read("GetUnits")
inspect_features == ReadAll("FirstFeature, GetNextFeature")
document_diagnose_features == ReadAll("FirstFeature, GetErrorCode2, GetNextFeature")
inspect_bodies == ReadAll("GetBodies2, GetBodyBox")

\* These reads promise no consistency: nothing is observed again at the end.
inspect_active_windows_document ==
  Adapter({}, <<describe_document, Read("NeedsRebuild2"), inspect_configurations, inspect_units>>
              \o inspect_features \o inspect_bodies, <<>>)

diagnose_active_windows_document ==
  Adapter({}, <<describe_document, Read("NeedsRebuild2")>> \o document_diagnose_features, <<>>)

\* A rebuild that reports errors has changed the document all the same.
rebuild_active_windows_document ==
  Adapter({}, <<Check("NeedsRebuild2"), Write("ForceRebuild3 or EditRebuild3"),
                Check("NeedsRebuild2"), describe_document>> \o document_diagnose_features
              \o <<Check("rebuilt")>>, <<>>)

-----------------------------------------------------------------------------
(* windows_documents.py: render and export *)

validate_render_arguments == Check("a .bmp, positive size, a known view")
output_free == Check("the parent directory exists, no file or overwrite")
parse_bmp_dimensions == Verify("the bitmap has the requested size")
RemoveStaging == Warn(Drop("staging"))

\* The view it shows is not put back.
render_active_windows_document ==
  Adapter({"verified"},
    <<validate_render_arguments, output_free, describe_document,
      Check("ShowNamedView2, ViewZoomtofit2"), Take("staging"), Produce("SaveBMP"),
      Check("the staged file exists"), parse_bmp_dimensions, Publish>>,
    <<RemoveStaging>>)

export_format == Check("the extension suits the document type")
export_source_state == Check("description and NeedsRebuild2")
export_source_warnings == Clean("before")
\* The structural check goes by the format; the adapters below each take one.
_stl == Verify("STL: as many facets as the header says, or the ASCII grammar to its end")
_archive == Verify("3MF, AMF: one model of meshes, every object it refers to there")
_glb == Verify("GLB: chunks that fill the file, buffers with bytes, a mesh with positions")
export_file_valid(structure) ==
  <<Check("the staged file exists, neither empty nor too large"), structure>>
save_as3 == <<Check("ClearSelection2"), Produce("SaveAs3")>>
export_checks == <<output_free, export_source_state, export_format>>

\* Without options a source that moved is only a warning in the answer.
export_active_windows_document ==
  Adapter({"verified"},
    export_checks \o <<Take("staging")>> \o save_as3
    \o export_file_valid(_archive) \o <<export_source_state, Publish>>,
    <<RemoveStaging>>)

\* strict: the source is clean before, and the same afterwards by title, path,
\* type, save flag and need of a rebuild; its stamp and configuration are not
\* asked for.
strict_source_state == {"identity", "modified", "needs rebuild"}
export_strict ==
  Adapter({"verified", "source"},
    export_checks \o <<Snap("before", strict_source_state), export_source_warnings,
                       Take("staging")>>
    \o save_as3
    \o export_file_valid(_glb) \o <<Same("before", strict_source_state), Publish>>,
    <<RemoveStaging>>)

\* An assembly's STL goes into one file: the toggle is turned on around the
\* native save and back off, and an export that could not is no success.
stl_single_file(save) ==
  <<Check("GetUserPreferenceToggle is a boolean"), Take("single file"),
    Check("the toggle reads back")>> \o save \o <<Once(Free("single file"))>>
export_assembly_stl ==
  Adapter({"verified"},
    export_checks \o <<Take("staging")>> \o stl_single_file(save_as3)
    \o export_file_valid(_stl) \o <<export_source_state, Publish>>,
    <<Collect(Free("single file")), RemoveStaging>>)

-----------------------------------------------------------------------------
(* windows_stl_options.py *)

require_isolation == Check("the calibrated worker, unpoisoned, one hidden owned SOLIDWORKS")
stl_constants == Check("the STL enums of the explicit swconst.tlb")
qualify_public_profile == Check("an audited option tuple on the audited revision")
read_preferences == Check("every coupled preference reads")

\* Compare and set of the whole vector.  Once the first preference is written
\* all are put back and read back; mutex and poison outlive the operation.
stl_preferences(save) ==
  <<require_isolation, Take("mutex"), require_isolation, stl_constants, qualify_public_profile,
    read_preferences, Check("the vector is still the one read"), Take("preferences"),
    Check("the vector reads back")>>
  \o save \o <<Once(Free("preferences")), Once(Free("mutex"))>>
restore_preferences == <<Collect(Free("preferences")), Collect(Free("mutex"))>>

\* With options the stamp and the configuration are compared as well.
stl_source_state == strict_source_state \cup {"stamp", "configuration"}

export_stl_options ==
  Adapter({"verified", "source"},
    export_checks \o <<Check("options, writable source"), Snap("before", stl_source_state),
                       Take("staging")>>
    \o stl_preferences(save_as3)
    \o export_file_valid(_stl) \o <<Verify("the requested encoding"), Same("before", stl_source_state), Publish>>,
    restore_preferences \o <<RemoveStaging>>)

-----------------------------------------------------------------------------
(* windows_documents.py and windows_native_files.py: save, save-as, close *)

save_active_windows_document ==
  Adapter({"verified"},
    <<describe_document, Produce("Save3"), Check("described again, no error code"),
      Verify("no longer modified")>>, <<>>)

\* The new name is created exclusively and removed unless a file of native
\* size is there; a document that did not take the name is an error after it.
save_as_native_windows ==
  Adapter({"verified"},
    <<Check("an existing directory, a free native name of the document's type, no sketch edit"),
      Take("staging")>> \o save_as3
    \o <<describe_document, Check("no error code, minimum size"), Settle("staging"),
         Verify("the document has the name and is not modified")>>,
    <<Warn(Drop("staging"))>>)

\* CloseDoc goes by the title described before.
close_active_windows_document ==
  Adapter({}, <<describe_document, Check("unmodified or discard"), Write("CloseDoc")>>, <<>>)
=============================================================================
