CONSTANTS
    NoKey = NoKey
    NoPlayer = NoPlayer
    Players = {p1, p2, p3}
    Keys = {k1}
    GrantLife = 1
    GrantLengths = {1}
    MaxGrants = 0
    MaxBlock = 2
    Ids = {1, 2}
    Rooms = {r1, r2}
    RankedChoices = {TRUE, FALSE}
    ChaosChoices = {FALSE}
    RevealWindow = 1
    StallTime = 0
    PauseLimit = 0
    SessionLengths = {2}
    SessionLife = 2
    Break = 1
    WinScore = 1
    MaxGap = 1
    InputCounts = {1}
    InputLimits = {1}
    Lockout = 0
    LastCreate = 1
    MaxInputNonce = 0
    MaxNonce = 0
    MaxVersion = 2
SPECIFICATION Spec
INVARIANTS TypeOK OneActiveMatch RatedByResults
CHECK_DEADLOCK FALSE
SYMMETRY Symmetry
