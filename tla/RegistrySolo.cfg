SPECIFICATION BoundedSpec
CONSTANTS
    Process = {p1, p2, p3}
    Interrupts = FALSE
    Crashes = TRUE
    IOFaults = TRUE
    ManualDelete = TRUE
    Command = {"add", "install", "restore", "view"}
    SoloLoads = TRUE
    Initial <- InitialBoth
INVARIANTS NoLostUpdate
PROPERTIES ImplementsAtomicRegistry LoadsSeeCurrent
CONSTRAINT SomeSucceed
SYMMETRY Symmetry
