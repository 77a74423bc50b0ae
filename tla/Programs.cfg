SPECIFICATION Spec
CONSTANTS
    Unused = Unused
INVARIANTS
    OncePerKnock
    StartupsBounded
    PidNamesDaemon
    SignedForListedHost
    UpBeforeUse
    TypedAsMeant
    ListenersAgree
PROPERTIES
    LockedSilent
CHECK_DEADLOCK FALSE
