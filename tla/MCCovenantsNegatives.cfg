\* The negative tests, without the covenant.
CONSTANTS
    lock = lock
    burn = burn
    staked = staked
    swap = swap
    other = other
    Seals = {lock}
    Program <- MCProgram
    Worth <- MCWorth
    Tranche = 2
    Maturity = 1
    FeeInputs = {3}
    Principals = {2}
    Payloads <- Carried
    Layouts <- FewLayouts
    MaxTxs = 2
    MaxBuilt = 1
    MaxHeight = 2
SPECIFICATION Spec
CHECK_DEADLOCK FALSE
INVARIANTS
    OnlyCovenantObjects
