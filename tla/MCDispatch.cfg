CONSTANTS
    Owners = {w1, w2}
    Cycles = {c1}
    NoOwner = NoOwner
    NoCycle = NoCycle
    LeaseTTL = 1
    Cooldown = 0
    MaxAttempts = 2
    Intents = {p1, p2}
    Paper = {p1, p2}
    OrderIds = {p1, p2}
    NoOrder = NoOrder
    ClaimTTL = 1
    IntentTTL = 1
    SendMargin = 1
    Sessions = {a}
    PaperSessions = {a}
    Limits <- MCLimits
    Opening = {}
    Risk <- MCRisk
    InScope <- MCInScope
    SessionTTL = 1
    SessionDelay = 0
    Cadence = 0
    BrokerId <- MCBrokerId
    Endings = {"FILLED", "EXPIRED"}
    PreflightTTL = 1
    None = None
SYMMETRY Symmetry
SPECIFICATION DispatchSpec
INVARIANTS DispatchTypeOK AtMostOnePost SingleWorkingOrder TruthfulTerminal
PROPERTIES AccountKeepsPromise
