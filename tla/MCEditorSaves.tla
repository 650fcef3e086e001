--------------------------- MODULE MCEditorSaves ---------------------------
(***************************************************************************)
(* Small instances of EditorSaves for TLC.                                 *)
(***************************************************************************)
EXTENDS EditorSaves, TLC
=============================================================================
