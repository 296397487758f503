CONSTANTS
    Owners = {w1}
    Cycles = {c1, c2}
    NoOwner = NoOwner
    NoCycle = NoCycle
    LeaseTTL = 1
    Cooldown = 0
    MaxAttempts = 0
    opener = p1
    Intents = {p1, p2}
    Paper = {}
    OrderIds = {o1}
    NoOrder = NoOrder
    ClaimTTL = 2
    IntentTTL = 1
    SendMargin = 2
    Sessions = {a}
    PaperSessions = {}
    Limits <- MCAmpleLimits
    Opening = {p1}
    Risk <- MCRisk
    InScope <- MCInScope
    SessionTTL = 3
    SessionDelay = 1
    Cadence = 0
SYMMETRY CycleSymmetry
SPECIFICATION SessionSpec
INVARIANTS BudgetLedger FailuresKill
PROPERTIES FencedOnlyWhenSafe
