--------------------------- MODULE MCAttachRecovery ---------------------------
(* One request against a backend that may be replaced under it: a tools/call *)
(* or one that may be repeated, whichever starts.                            *)
EXTENDS AttachRecovery, TLC, FiniteSets

OneCall == Cardinality({c \in Calls : stage[c] # "idle"}) <= 1
=============================================================================
