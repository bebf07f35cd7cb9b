\* The round trip of two assets over three locked coins and one the wallet may spend;
\* and calls with all sorts of arguments, right and wrong.
CONSTANTS
    htlc = htlc
    a = a
    b = b
    c = c
    d = d
    made_up = made_up
    e = e
    Wallet = {a, b, c, d, e}
    Htlcs = {htlc}
    Placeholders = {made_up}
    Locked = {a, b, d, e}
    AliceSeals = {htlc, a}
    BobSeals = {a, made_up}
    ChangeSeals = {b}
    Supplies = {2}
    Sends = {1, 2}
    PrevAmounts = {1}
    CloseSeals = {}
    MaxOps = 3
    MaxScripted = 5
SPECIFICATION Spec
CHECK_DEADLOCK FALSE
INVARIANTS
    TypeOK
    SupplyNeverGrows
    NothingLost
    HopsMove
PROPERTY
    LedgerKept
