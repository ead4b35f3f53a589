CONSTANTS
    Service = {1, 2, 3, 4}
    Core = {1, 2}
    Authorizers = {"q0", "q1"}
    ValidatorSets = {"v0", "v1"}
    State0 <- MCState0
    Blessings <- MCBlessings
    NonManagerBless = TRUE
    MaxRounds = 2
    MaxCalls = 3
SPECIFICATION Spec
CHECK_DEADLOCK FALSE
PROPERTIES
    HandoverIsHonoured
    OutsidersAreHarmless
