CONSTANTS
    Runner = {r1, r2}
    Cleaner = {k}
    Checker = {}
    Crashes = TRUE
    Faults = TRUE
SPECIFICATION RuntimeSpec
CONSTRAINT FewLate
SYMMETRY Symmetry
INVARIANTS
    PassLeavesNoOrphan
PROPERTIES
    LiveRunsLeftAlone
    LeaseOutlivesContainer
