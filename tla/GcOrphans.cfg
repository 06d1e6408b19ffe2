SPECIFICATION VolumesSpec
CONSTANTS
    Job = {j1, j2}
    WinProject = {w}
    WslProject = {x}
    MaxMoves = 2
SYMMETRY MCSymmetry
CHECK_DEADLOCK FALSE
PROPERTY OrphansHaveNoProject
