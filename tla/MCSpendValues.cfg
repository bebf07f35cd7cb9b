SPECIFICATION ValueSpec
CONSTANTS
    None = None
    U64 = 12
    MaxMoney = 5
INVARIANTS
    FeeAsAsked
    GoodCallsSucceed
CHECK_DEADLOCK FALSE
