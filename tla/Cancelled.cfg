CONSTANTS
    Procs = {p1, p2}
    Batches <- MCBatches
    MaxDeploys = 2
    NoDeploy = NoDeploy
SPECIFICATION ActivationSpec
INVARIANT ShutdownTried
CHECK_DEADLOCK FALSE
