CONSTANTS
    Owners = {w1}
    Cycles = {c1}
    NoOwner = NoOwner
    NoCycle = NoCycle
    LeaseTTL = 1
    Cooldown = 0
    MaxAttempts = 1
    opener = p1
    Intents = {p1, p2}
    Paper = {p1, p2}
    OrderIds = {o1}
    NoOrder = NoOrder
    ClaimTTL = 1
    IntentTTL = 1
    SendMargin = 1
    Sessions = {a, b}
    PaperSessions = {a, b}
    Limits <- MCTightLimits
    Opening = {p1}
    Risk <- MCRisk
    InScope <- MCInScope
    SessionTTL = 2
    SessionDelay = 1
    Cadence = 0
SYMMETRY SessionSymmetry
SPECIFICATION SessionSpec
INVARIANTS SessionTypeOK BudgetLedger FencedIsBudgeted OneActiveSession
PROPERTIES EndedIsFinal
