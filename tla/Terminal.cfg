SPECIFICATION LoginSpec
CONSTANTS
    Unused = Unused
INVARIANTS
    TerminalFlushed
CHECK_DEADLOCK FALSE
