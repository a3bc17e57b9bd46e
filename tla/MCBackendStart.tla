---------------------------- MODULE MCBackendStart ----------------------------
EXTENDS BackendStart

CONSTANTS b1, b2
==============================================================================
