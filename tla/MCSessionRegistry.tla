-------------------------- MODULE MCSessionRegistry --------------------------
(* Instance of SessionRegistry for TLC.  Connections are interchangeable, and *)
(* so are requests and session ids.                                          *)
EXTENDS SessionRegistry, TLC

Symmetry ==
  Permutations(SessionIds) \cup Permutations(Peers) \cup Permutations(Requests)
=============================================================================
