---------------------------- MODULE MCEditorClient ----------------------------
EXTENDS EditorClient, TLC
=============================================================================
