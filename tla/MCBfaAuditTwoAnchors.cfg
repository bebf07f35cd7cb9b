SPECIFICATION Spec
CONSTANTS
    g0 = g0
    g1 = g1
    NoSeal = NoSeal
    Contracts <- MCContracts
    U64 = 8
    Seals = {g0, g1}
    Amounts = {1, 2}
    VaultOuts <- Blinded
    MaxAnchors = 2
    MaxTxs = 1
    MaxMints = 2
INVARIANTS
    SupplyBacked
CHECK_DEADLOCK FALSE
