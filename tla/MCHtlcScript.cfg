SPECIFICATION Spec
CONSTANTS
    ValueMod = 8
    TypeFlag = 16
    DisableFlag = 32
    Preimages = {p1, p2}
    Keys = {alice, bob}
    ByteBase = 8
    SmallMax = 2
    MaxNumBytes = 3
    Delays <- MCDelays
    Ages <- MCAges
    Sequences <- MCSequences
INVARIANTS
    ScriptIsContract
    NoEarlyRefund
    RefundAvailable
CHECK_DEADLOCK FALSE
