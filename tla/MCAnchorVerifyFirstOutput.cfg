SPECIFICATION Spec
CONSTANTS
    l1 = l1
    l2 = l2
    m1 = m1
    m2 = m2
    s1 = s1
    s2 = s2
    b1 = b1
    b2 = b2
    Labels = {l1, l2}
    SyntheticBundle <- MCSynthetic
    Assets = {n1}
    Transfers = {b1, b2}
    LabelLists <- MCLabelLists
    Keys = {k1}
    Seals = {s1, s2}
    NoSeal = NoSeal
    Wpkh = Wpkh
    OtherP2tr = OtherP2tr
    MaxFiles = 1
    MaxTxs = 1
    MaxOuts = 2
    MaxVerdicts = 1
INVARIANTS
    CommitmentFirst
CHECK_DEADLOCK FALSE
