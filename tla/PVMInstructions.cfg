CONSTANTS
    B = 1
    Operands <- Word
SPECIFICATION Spec
CHECK_DEADLOCK FALSE
INVARIANTS
    DivisionIsExact
    InterpretersAgree
