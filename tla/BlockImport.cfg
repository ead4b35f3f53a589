\* Competing branches, same-slot siblings, and four kinds of faulty block.
CONSTANTS
    Zero = Zero
    None = None
    Missing = Missing
    Absent = Absent
    Untouched = Untouched
    BadRoot = BadRoot
    Block <- MCBlock
    Genesis = 0
    Val <- MCVal
    CompKey <- MCCompKey
    TimeKey = "tau"
    SvcKey <- MCSvcKey
    Parent <- MCParent
    Slot <- MCSlot
    Height <- MCHeight
    Ancestry <- MCAncestry
    Writes <- MCWrites
    Post <- MCPost
    PriorRoot <- MCPriorRoot
    Defect <- MCDefect
    Anchor = 1
    CorruptHeadCopy = FALSE
SPECIFICATION Spec
INVARIANTS
    AvailableStatesAreExact
    CacheDescribesHead
    RefineHeadIsAvailable
PROPERTIES
    RefinesForkTree
