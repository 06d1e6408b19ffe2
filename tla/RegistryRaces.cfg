SPECIFICATION StoreSpec
CONSTANTS
    Process = {p1, p2}
    Interrupts = FALSE
    Crashes = TRUE
    IOFaults = TRUE
    ManualDelete = TRUE
    Command = {"add", "uninstall", "install", "restore", "view", "inspect"}
    SoloLoads = FALSE
    Initial <- InitialBoth
PROPERTY RegistryKept
