\* One gate of each kind, a stake and a swapped asset: everything simp builds,
\* and spends of all sorts.
CONSTANTS
    lock = lock
    burn = burn
    staked = staked
    swap = swap
    other = other
    Seals = {lock, burn, staked, swap}
    Program <- MCProgram
    Worth <- MCWorth
    Tranche = 2
    Maturity = 1
    FeeInputs = {3}
    Principals = {2, 9}
    Payloads <- Carried
    Layouts <- MCLayouts
    MaxTxs = 3
    MaxBuilt = 1
    MaxHeight = 2
SPECIFICATION Spec
CHECK_DEADLOCK FALSE
INVARIANTS
    TypeOK
    GateStands
    ClosedByTheRules
    OwnDeposit
    TamperedRefused
    BuiltIsAccepted
