CONSTANTS
    Calls = {claim}
    Retried = {claim}
    Late = {claim}
    Lanes = {lane1}
    Dirs = {up, down}
    MaxInflight = 2
    MaxQueue = 3
    MaxInput = 2
    MaxHead = 2
    MaxFaults = 1
SPECIFICATION Spec
INVARIANTS NoncesInOrder LanesInOrder JournalIsTrue
CHECK_DEADLOCK FALSE
