\* Both follow the script, and somebody reads the mempools.
CONSTANTS
    watcher = watcher
    Outsiders = {watcher}
    Value = 3
    Amounts = {0, 1, 2, 3}
SPECIFICATION Spec
CHECK_DEADLOCK FALSE
INVARIANT
    BobCanAlwaysClaim
