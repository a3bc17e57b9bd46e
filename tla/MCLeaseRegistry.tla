--------------------------- MODULE MCLeaseRegistry ---------------------------
(* Instance of LeaseRegistry for TLC.  Lease ids are interchangeable. *)
EXTENDS LeaseRegistry, TLC

Symmetry == Permutations(LeaseIds)
=============================================================================
