SPECIFICATION Spec
CONSTANTS
    Package <- MCPackage
    Deps <- MCDeps
    Gas <- MCGas
    CoreOf <- MCCoreOf
    CoreCount = 3
    EpochTimeslots = 3
    GasTotal = 3
    GasAccumulation = 1
    AlwaysGas = 0
    History = 2
    ReplacementPeriod = 2
    ValidatorCounts = {6, 9}
    SlotSteps = {1, 2}
    MaxSlot = 5
INVARIANTS
    InOnePlace
    NoStaleDependency
    WaitsOneEpoch
PROPERTY
    RefinesReportLifecycle
CHECK_DEADLOCK FALSE
