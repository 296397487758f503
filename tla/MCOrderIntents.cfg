CONSTANTS
    Owners = {w1, w2}
    Cycles = {c1, c2}
    NoOwner = NoOwner
    NoCycle = NoCycle
    LeaseTTL = 2
    Cooldown = 1
    MaxAttempts = 2
    Intents = {p1, p2}
    Paper = {p1, p2}
    OrderIds = {o1, o2}
    NoOrder = NoOrder
    ClaimTTL = 1
    IntentTTL = 1
    SendMargin = 2
SYMMETRY Symmetry
SPECIFICATION IntentSpec
INVARIANTS IntentTypeOK UnsentClosure OrderBinding
PROPERTIES LedgerKeepsPromise Irreversible TerminalFinal
