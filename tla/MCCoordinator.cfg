CONSTANTS
    Starts = 2
    Length = 2
    Orders = 1
    Owners <- MCOwners
    Cycles <- MCCycles
    NoOwner = NoOwner
    NoCycle = NoCycle
    LeaseTTL = 1
    Cooldown = 0
    MaxAttempts = 2
    Intents <- MCIntents
    Paper <- MCIntents
    OrderIds <- MCIntents
    NoOrder = NoOrder
    ClaimTTL = 1
    IntentTTL = 1
    SendMargin = 1
    Sessions = {a}
    PaperSessions = {a}
    Limits <- MCLimits
    Opening = {}
    Risk <- MCRisk
    InScope <- MCInScope
    SessionTTL = 3
    SessionDelay = 0
    Cadence = 2
    WorkTTL = 1
    Slice = 1
    Off = Off
SPECIFICATION CoordinatorSpec
INVARIANTS CoordinatorTypeOK CleanEnd
PROPERTIES RestartSkipsUsed NotEndedEarly RunsEnd
CHECK_DEADLOCK FALSE
