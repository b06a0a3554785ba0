CONSTANTS
    NoKey = NoKey
    NoPlayer = NoPlayer
    Players = {p1, p2}
    Keys = {k1}
    GrantLife = 1
    GrantLengths = {1}
    MaxGrants = 0
    MaxBlock = 0
    Ids = {1, 2, 3}
    Rooms = {r1, r2, r3}
    RankedChoices = {TRUE, FALSE}
    ChaosChoices = {FALSE}
    RevealWindow = 1
    StallTime = 1
    PauseLimit = 1
    SessionLengths = {2}
    SessionLife = 2
    Break = 1
    WinScore = 1
    MaxGap = 1
    InputCounts = {1}
    InputLimits = {1}
    Lockout = 0
    LastCreate = 0
    MaxInputNonce = 0
    MaxNonce = 0
    MaxVersion = 2
SPECIFICATION Spec
PROPERTY RatingGatesNextMatch
CHECK_DEADLOCK FALSE
SYMMETRY Symmetry
