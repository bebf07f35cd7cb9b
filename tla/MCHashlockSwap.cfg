\* Any of Alice, Bob and an outsider may take what they can.
CONSTANTS
    watcher = watcher
    Outsiders = {watcher}
    Value = 5
    Amounts = {0, 1, 2, 3, 4, 5}
SPECIFICATION FairSpec
CHECK_DEADLOCK FALSE
INVARIANT
    TypeOK
PROPERTIES
    RevealedByAlice
    RevealSettles
    ExchangeSpec
    BothClaim
