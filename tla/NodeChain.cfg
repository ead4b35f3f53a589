\* Forks, faulty blocks, failing and successful authoring, restarts, and
\* crashes between the two writes of finalize.
CONSTANTS
    Zero = Zero
    None = None
    Missing = Missing
    Absent = Absent
    Untouched = Untouched
    BadRoot = BadRoot
    Block <- MCBlock
    Genesis = 0
    Val <- MCVal
    CompKey <- MCCompKey
    TimeKey = "tau"
    SvcKey <- MCSvcKey
    Parent <- MCParent
    Slot <- MCSlot
    Height <- MCHeight
    Ancestry <- MCAncestry
    Writes <- MCWrites
    Post <- MCPost
    PriorRoot <- MCPriorRoot
    Defect <- MCDefect
    OwnBlock = {2, 6}
    CorruptHeadCopy = TRUE
    InOrder = FALSE
    FailedAuthoring = {"unsealed", "sealed"}
    FailsAtStart = FALSE
    CrashPoints = {"idle", "finalize"}
SPECIFICATION Spec
INVARIANTS
    PersistedStateIsExact
    OverlaysAreWhole
    CacheDescribesHead
    NothingBuiltOnTornState
