CONSTANTS
    Calls = {finalizeRating}
    Retried = {}
    Late = {}
    Lanes = {}
    Dirs = {up}
    MaxInflight = 2
    MaxQueue = 3
    MaxInput = 0
    MaxHead = 2
    MaxFaults = 1
SPECIFICATION FairSpec
PROPERTY KeeperCallsMade
CHECK_DEADLOCK FALSE
