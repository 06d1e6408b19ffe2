SPECIFICATION StoreSpec
CONSTANTS
    Process = {p1, p2}
    Interrupts = FALSE
    Crashes = FALSE
    IOFaults = FALSE
    ManualDelete = FALSE
    Command = {"add", "view"}
    SoloLoads = FALSE
    Initial <- InitialPresent
INVARIANT NoLostUpdate
