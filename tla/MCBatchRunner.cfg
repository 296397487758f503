CONSTANTS
    Runners = {r1, r2}
    Count = 2
    Cycles = {1, 2}
    Interval = 1
    MaxRuns = 2
    Owners <- MCOwners
    NoOwner = NoOwner
    NoCycle = NoCycle
    LeaseTTL = 3
    Cooldown = 1
    MaxAttempts = 2
SPECIFICATION BatchSpec
INVARIANTS BatchTypeOK FencedSave AttemptCap
PROPERTIES Cadence
