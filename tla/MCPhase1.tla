------------------------------ MODULE MCPhase1 ------------------------------
EXTENDS Phase1, TLC

CONSTANTS r1, c1, c2, call, other

MCSymmetry == Permutations(Replicas) \cup Permutations(Requests) \cup Permutations(Symbols)
=============================================================================
