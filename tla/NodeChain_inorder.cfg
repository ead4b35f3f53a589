\* Every block arrives after, and extends, the selected one.
CONSTANTS
    Zero = Zero
    None = None
    Missing = Missing
    Absent = Absent
    Untouched = Untouched
    BadRoot = BadRoot
    Block <- MCBlock
    Genesis = 0
    Val <- MCVal
    CompKey <- MCCompKey
    TimeKey = "tau"
    SvcKey <- MCSvcKey
    Parent <- MCParent
    Slot <- MCSlot
    Height <- MCHeight
    Ancestry <- MCAncestry
    Writes <- MCWrites
    Post <- MCPost
    PriorRoot <- MCPriorRoot
    Defect <- MCDefect
    OwnBlock = {2, 5, 6, 11}
    CorruptHeadCopy = FALSE
    InOrder = TRUE
    FailedAuthoring = {"unsealed"}
    FailsAtStart = FALSE
    CrashPoints = {"idle", "finalize"}
CHECK_DEADLOCK FALSE
SPECIFICATION Spec
PROPERTY RefinesForkTree
