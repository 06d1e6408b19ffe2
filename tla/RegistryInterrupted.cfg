SPECIFICATION StoreSpec
CONSTANTS
    Process = {p1, p2}
    Interrupts = TRUE
    Crashes = FALSE
    IOFaults = FALSE
    ManualDelete = FALSE
    Command = {"add", "install"}
    SoloLoads = TRUE
    Initial <- InitialPresent
PROPERTY RegistryNeverVanishes
