---------------------------- MODULE MCCoordinator ----------------------------
\* Two runs of one session of two cycles; and two runs on two sessions of one cycle.
EXTENDS Coordinator

CONSTANTS Length, Orders    \* cycles and orders of each session

MCLimits == [s \in Sessions |->
    [opening |-> 1, closing |-> 2, total |-> Orders, risk |-> 1, cycles |-> Length, failures |-> 2]]
MCCycles == Sessions \X (1..Length)
MCIntents == Sessions \X {1}
MCOwners == (1..Starts) \X (1..3)
MCRisk == [i \in Intents |-> 0]
MCInScope == Sessions \X Intents
=============================================================================
