SPECIFICATION FairSpec
CONSTANTS
    ValueMod = 32
    TypeFlag = 64
    DisableFlag = 128
    Csv <- StaggeredCsv
    React = 2
    Lead = 2
    MaxAge = 15
INVARIANTS
    SwapInv
    ResponderSafe
    InitiatorSafe
PROPERTIES
    FundsReturn
    SwapCompletes
    ExchangeSpec
CHECK_DEADLOCK FALSE
