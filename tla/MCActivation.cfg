CONSTANTS
    Procs = {p1, p2}
    Batches <- MCBatches
    MaxDeploys = 2
    NoDeploy = NoDeploy
SPECIFICATION ActivationSpec
INVARIANTS ActivationTypeOK LocalFirst ShutdownReport
PROPERTIES AuthorityEnds
CHECK_DEADLOCK FALSE
