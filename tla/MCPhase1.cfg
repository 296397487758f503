CONSTANTS
    r1 = r1
    c1 = c1
    c2 = c2
    call = call
    other = other
    Replicas = {r1}
    Requests = {c1, c2}
    Symbols = {call, other}
    NoSymbol = NoSymbol
    MaxPrice = 2
    MaxReceipts = 3
    Nowhere = Nowhere
    Retired = FALSE
SPECIFICATION Spec1
INVARIANTS Phase1TypeOK OneOrder SentAsApproved GateStaysOff
SYMMETRY MCSymmetry
CHECK_DEADLOCK FALSE
