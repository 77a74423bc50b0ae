SPECIFICATION GoingOnSpec
CONSTANTS
    Unused = Unused
INVARIANTS
    SentIsThere
CHECK_DEADLOCK FALSE
