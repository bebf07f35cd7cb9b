SPECIFICATION ReceiptSpec
CONSTANTS
    g0 = g0
    g1 = g1
    NoSeal = NoSeal
    Contracts <- MCContracts
    U64 = 8
    Seals = {g0, g1}
    Amounts = {1, 2}
    VaultOuts <- MCVaultOuts
    MaxAnchors = 1
    MaxTxs = 2
    MaxMints = 1
    MaxReceipts = 2
INVARIANTS
    GateClosed
CHECK_DEADLOCK FALSE
