SPECIFICATION Spec
CONSTANTS
    Unused = Unused
INVARIANTS
    SuccessIsWhole
    ActsInside
    KeysVouched
    HandedOver
    KeySurvives
    RevokedStays
PROPERTIES
    HandleKept
CHECK_DEADLOCK FALSE
