---------------------------- MODULE MCOrderIntents ----------------------------
\* Two PAPER intents, two workers, two cycles, two broker orders, any calls.
EXTENDS OrderIntents, TLC

Symmetry == Permutations(Owners) \cup Permutations(Cycles) \cup Permutations(Paper)
=============================================================================
