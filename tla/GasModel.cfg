CONSTANTS
    Reg <- MCReg
    Codes <- MCCodes
    Window <- MCWindow
    RobSize = 3
    MaxCycles = 320
SPECIFICATION Spec
CHECK_DEADLOCK FALSE
INVARIANTS
    RenamingIsExact
    UnitsAreConserved
    CostCoversCriticalPath
PROPERTY
    EveryBlockIsPriced
