CONSTANTS
    Universe <- MCUniverse
    Views <- MCViews
    Missing = Missing
    Freshness = 1
    Horizon = 2
    MarkAge = 1
    ShadowWindow = 6
    MarkWindow = 6
    Session <- MCSession
    MaxCycles = 3
    MaxClock = 4
SPECIFICATION Spec2
INVARIANTS ResearchTypeOK OrderIsJustified ShadowsApart
CHECK_DEADLOCK FALSE
