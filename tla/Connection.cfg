SPECIFICATION Spec
CONSTANTS
    Unused = Unused
INVARIANTS
    SharedInOrder
    SessionsKept
    ListenersKept
    RunsAsUser
    StatusLast
    LetInByChain
    AcceptedOnItsLine
    
    RoundTrip
CHECK_DEADLOCK FALSE
