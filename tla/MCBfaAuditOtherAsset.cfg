SPECIFICATION Spec
CONSTANTS
    g0 = g0
    g1 = g1
    NoSeal = NoSeal
    Contracts <- MCContracts
    U64 = 8
    Seals = {g0, g1}
    Amounts = {1, 2}
    VaultOuts <- AnyAsset
    MaxAnchors = 1
    MaxTxs = 2
    MaxMints = 2
INVARIANTS
    FailsForCause
CHECK_DEADLOCK FALSE
