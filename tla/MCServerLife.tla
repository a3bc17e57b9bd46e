---------------------------- MODULE MCServerLife ----------------------------
(* Instance of ServerLife for TLC. *)
EXTENDS ServerLife
=============================================================================
