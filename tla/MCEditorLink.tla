---------------------------- MODULE MCEditorLink ----------------------------
(* Instance of EditorLink for TLC. *)
EXTENDS EditorLink
=============================================================================
