\* Somebody re-creates a gate in another asset.
CONSTANTS
    lock = lock
    burn = burn
    staked = staked
    swap = swap
    other = other
    Seals = {lock, burn, staked, swap}
    Program <- MCProgram
    Worth <- MCWorth
    Tranche = 2
    Maturity = 1
    FeeInputs = {3}
    Principals = {2, 9}
    Payloads <- Carried
    Layouts <- AssetLayouts
    MaxTxs = 3
    MaxBuilt = 1
    MaxHeight = 2
SPECIFICATION Spec
CHECK_DEADLOCK FALSE
INVARIANT
    BuiltIsAccepted
