SPECIFICATION FairLockSpec
CONSTANTS
    Process = {p1, p2, p3}
    Interrupts = TRUE
    Crashes = TRUE
    IOFaults = TRUE
    ManualDelete = TRUE
INVARIANTS LockTypeOK LockedExclusion OnlyKilledLeaveLock
PROPERTIES NeverRobbed EveryCommandEnds
