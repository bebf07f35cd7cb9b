\* Alice does not stop after her own claim.
CONSTANTS
    watcher = watcher
    Outsiders = {}
    Value = 3
    Amounts = {0, 1, 2, 3}
SPECIFICATION Spec
CHECK_DEADLOCK FALSE
INVARIANT
    NeitherTakesBoth
