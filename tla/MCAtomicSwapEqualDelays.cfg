SPECIFICATION Spec
CONSTANTS
    ValueMod = 32
    TypeFlag = 64
    DisableFlag = 128
    Csv <- EqualCsv
    React = 0
    Lead = 0
    MaxAge = 8
INVARIANTS
    ResponderSafe
CHECK_DEADLOCK FALSE
