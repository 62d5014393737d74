CONSTANTS
    MsgSizes = {1, 3}
    MaxSizes = {0, 2, 4}
    DefaultMax = 4
    MaxHistory = 4
SPECIFICATION Spec
INVARIANTS
    SizeAccounting
    KeepsNewestThatFit
    ChainIntact
PROPERTIES
    EveryStatementRecordedOnce
