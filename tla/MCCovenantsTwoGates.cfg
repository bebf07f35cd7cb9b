\* Two contracts behind the same gate covenant.
CONSTANTS
    lock = lock
    burn = burn
    staked = staked
    swap = swap
    other = other
    Seals = {lock, other}
    Program <- MCProgram
    Worth <- MCWorth
    Tranche = 2
    Maturity = 1
    FeeInputs = {3}
    Principals = {2}
    Payloads <- Carried
    Layouts <- MCLayouts
    MaxTxs = 3
    MaxBuilt = 0
    MaxHeight = 2
SPECIFICATION Spec
CHECK_DEADLOCK FALSE
INVARIANTS
    OwnDeposit
