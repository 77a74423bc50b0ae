SPECIFICATION Spec
CONSTANTS
    Keys = {}
    MaxTyped = 0
    MaxRead = 1
    Ptys = {TRUE}
    Escapes = {TRUE}
    Obscures = {TRUE}
    MaxChunk = 1
    ChaffTail = 1
    Interval = 2
    CountMax = 2
    Late = 1
    Faults = {}
    MaxTime = 12
INVARIANTS
    GivesUpOnSilence
CHECK_DEADLOCK FALSE
