SPECIFICATION LockSpec
CONSTANTS
    Process = {p1, p2}
    Interrupts = TRUE
    Crashes = FALSE
    IOFaults = FALSE
    ManualDelete = FALSE
INVARIANT MutualExclusion
