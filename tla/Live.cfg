SPECIFICATION Spec
CONSTANTS
    Unused = Unused
PROPERTIES
    AllDelivered
    NobodyStuck
    ClientEnds
    TransferEnds
CHECK_DEADLOCK FALSE
