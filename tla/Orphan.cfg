CONSTANTS
    Starts = 2
    Length = 1
    Orders = 1
    Owners <- MCOwners
    Cycles <- MCCycles
    NoOwner = NoOwner
    NoCycle = NoCycle
    LeaseTTL = 1
    Cooldown = 0
    MaxAttempts = 1
    Intents <- MCIntents
    Paper <- MCIntents
    OrderIds <- MCIntents
    NoOrder = NoOrder
    ClaimTTL = 1
    IntentTTL = 1
    SendMargin = 1
    Sessions = {a, b}
    PaperSessions = {a, b}
    Limits <- MCLimits
    Opening = {}
    Risk <- MCRisk
    InScope <- MCInScope
    SessionTTL = 1
    SessionDelay = 0
    Cadence = 0
    WorkTTL = 1
    Slice = 1
    Off = Off
SPECIFICATION CoordinatorSpec
PROPERTY OrphanLetsGo
CHECK_DEADLOCK FALSE
