\* The change that is printed for a chained transfer.
CONSTANTS
    htlc = htlc
    a = a
    b = b
    c = c
    d = d
    e = e
    made_up = made_up
    Wallet = {a, b}
    Htlcs = {htlc}
    Placeholders = {made_up}
    Locked = {}
    AliceSeals = {htlc}
    BobSeals = {a, made_up}
    ChangeSeals = {b}
    Supplies = {2, 3}
    Sends = {1, 2, 3}
    PrevAmounts = {1}
    CloseSeals = {}
    MaxOps = 3
    MaxScripted = 1
SPECIFICATION Spec
CHECK_DEADLOCK FALSE
INVARIANT
    ChangeShown
