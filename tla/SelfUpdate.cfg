CONSTANTS
    Updater = {u1, u2}
    Shim = {s1}
    Release = {v1, v2}
    Crashes = TRUE
    Faults = TRUE
    Others = TRUE
    MaxAccidents = 1
SPECIFICATION BoundedSpec
SYMMETRY Symmetry
INVARIANTS UpdateTypeOK RecoveryKept StagingHeld StagingOwned
PROPERTIES ReportsAreTrue OnlyKnownBytesReplaced
