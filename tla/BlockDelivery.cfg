\* A chain and a fork, delivered in every order and at any pace through either path.
CONSTANTS
    Zero = Zero
    None = None
    Missing = Missing
    Absent = Absent
    Untouched = Untouched
    BadRoot = BadRoot
    Block <- MCBlock
    Genesis = 0
    Val <- MCVal
    CompKey <- MCCompKey
    TimeKey = "tau"
    SvcKey <- MCSvcKey
    Parent <- MCParent
    Slot <- MCSlot
    Height <- MCHeight
    Ancestry <- MCAncestry
    Writes <- MCWrites
    Post <- MCPost
    PriorRoot <- MCPriorRoot
    Defect <- MCDefect
    OwnBlock = {}
    CorruptHeadCopy = FALSE
    InOrder = FALSE
    FailedAuthoring = {}
    FailsAtStart = FALSE
    CrashPoints = {}
    Paths = {"dir", "net"}
CHECK_DEADLOCK FALSE
SPECIFICATION DeliverySpec
INVARIANTS
    NoBlockIsLost
PROPERTY DeliveredBlocksAreStored
