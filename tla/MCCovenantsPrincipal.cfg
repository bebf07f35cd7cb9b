\* An unstake that names a smaller principal.
CONSTANTS
    lock = lock
    burn = burn
    staked = staked
    swap = swap
    other = other
    Seals = {staked}
    Program <- MCProgram
    Worth <- MCWorth
    Tranche = 2
    Maturity = 1
    FeeInputs = {3}
    Principals = {1, 2}
    Payloads <- Carried
    Layouts <- FewLayouts
    MaxTxs = 2
    MaxBuilt = 1
    MaxHeight = 2
SPECIFICATION Spec
CHECK_DEADLOCK FALSE
INVARIANTS
    PrincipalReturned
