CONSTANTS
    EPOCH_TIMESLOTS = 4
    TICKET_SUBMISSION_END_SLOT = 3
    MAXIMUM_EXTRINSIC_TICKETS = 2
    ROTATION_PERIOD_CORE = 2
    NullKey = 0
    TicketRank <- MCTicketRank
    FallbackDraw <- MCFallbackDraw
    Me = 1
    Submitters = {2, 3}
    Proofs = {1}
    GenesisValidators <- MCGenesis
    Designations <- MCDesignations
    DisputesOffered <- MCDisputes
    MaxSlot = 8
    MaxQueued = 1
SPECIFICATION Spec
CHECK_DEADLOCK FALSE
INVARIANTS
    TicketsAreUsable
    OffendersAreRetired
    StatisticsMatchTheContest
PROPERTIES
    SeriesWasAnnounced
    ContestIsFair
    VerdictsAreFinal
    PreviousGuarantorsAreKnown
    OwnBlocksVerify
