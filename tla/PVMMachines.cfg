SPECIFICATION Spec
CONSTANTS
    B = 1
    MaxArgs = 9
    PageSize = 2
    Guard = 4
    Registers <- MCRegisters
    Align = 2
    Codes <- MCCodes
    Entries = {0, 4}
    Frames <- MCFrameSet
    Budgets = {1, 3}
    PageArgs <- MCPageArgs
    CopyArgs <- MCCopyArgs
    OuterMemory <- MCOuterMemory
    MaxGas = 8
    MaxMachines = 1
    Fee = 1
    PageFee = 1
    None = None
INVARIANTS
    BackendsAgree
    GasIsAccounted
PROPERTIES
    FaultsAreClean
    InvocationsAreBounded
CHECK_DEADLOCK FALSE
