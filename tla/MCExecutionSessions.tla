-------------------------- MODULE MCExecutionSessions --------------------------
\* Two configurations: two PAPER sessions, each with a budget for one order, competing for two
\* PAPER intents and for the lease; and one SYNTHETIC session with budget for both of its
\* intents and two failures, as backend/app/phase2/session_budget_dry_run.py has it.
EXTENDS ExecutionSessions, TLC

CONSTANT opener    \* the intent that opens a position and carries risk

Bounds(orders, failures) == [s \in Sessions |->
    [opening |-> 1, closing |-> 2, total |-> orders, risk |-> 1, cycles |-> 1, failures |-> failures]]
MCTightLimits == Bounds(1, 1)
MCAmpleLimits == Bounds(2, 2)
MCRisk == [i \in Intents |-> IF i = opener THEN 1 ELSE 0]
MCInScope == Sessions \X Intents

SessionSymmetry == Permutations(Sessions)
CycleSymmetry == Permutations(Cycles)
=============================================================================
