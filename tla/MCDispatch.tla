------------------------------ MODULE MCDispatch ------------------------------
\* Workers racing on PAPER intents under one session; the broker's order of an intent
\* goes by the name of the intent.
EXTENDS Dispatch, TLC

MCLimits == [s \in Sessions |->
    [opening |-> 1, closing |-> 2, total |-> 2, risk |-> 1, cycles |-> 1, failures |-> 2]]
MCRisk == [i \in Intents |-> 0]
MCInScope == Sessions \X Intents
MCBrokerId == [i \in Intents |-> i]

Symmetry == Permutations(Owners) \cup Permutations(Intents)
=============================================================================
