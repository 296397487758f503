---------------------------- MODULE MCBatchRunner ----------------------------
\* Two deployments of one batch of two cycles.
EXTENDS BatchRunner

MCOwners == Runners \X (1..MaxRuns) \X Cycles
=============================================================================
