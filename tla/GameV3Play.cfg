CONSTANTS
    NoKey = NoKey
    NoPlayer = NoPlayer
    Players = {p1, p2}
    Keys = {k1}
    GrantLife = 1
    GrantLengths = {1}
    MaxGrants = 0
    MaxBlock = 4
    Ids = {1}
    Rooms = {r1}
    RankedChoices = {TRUE}
    ChaosChoices = {TRUE, FALSE}
    RevealWindow = 0
    StallTime = 3
    PauseLimit = 0
    SessionLengths = {6}
    SessionLife = 6
    Break = 2
    WinScore = 2
    MaxGap = 2
    InputCounts = {2}
    InputLimits = {1, 2}
    Lockout = 1
    LastCreate = 0
    MaxInputNonce = 2
    MaxNonce = 0
    MaxVersion = 4
SPECIFICATION Spec
PROPERTIES ImplementsResults PlayIsFair
CHECK_DEADLOCK FALSE
SYMMETRY Symmetry
