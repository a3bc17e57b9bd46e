------------------------------ MODULE MCWriteGate ------------------------------
EXTENDS WriteGate, TLC

Sym == Permutations(Calls)
=============================================================================
