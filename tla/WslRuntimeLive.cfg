CONSTANTS
    Runner = {r1, r2}
    Cleaner = {}
    Checker = {h}
    Crashes = TRUE
    Faults = FALSE
SPECIFICATION FairRuntimeSpec
PROPERTIES
    NobodyWaitsForAnother
    RunsAreToolRuns
