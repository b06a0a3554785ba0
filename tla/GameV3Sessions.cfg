CONSTANTS
    NoKey = NoKey
    NoPlayer = NoPlayer
    Players = {p1, p2}
    Keys = {k1, k2}
    GrantLife = 1
    GrantLengths = {1}
    MaxGrants = 2
    MaxBlock = 1
    Ids = {1}
    Rooms = {r1}
    RankedChoices = {FALSE}
    ChaosChoices = {FALSE}
    RevealWindow = 0
    StallTime = 2
    PauseLimit = 0
    SessionLengths = {1}
    SessionLife = 2
    Break = 1
    WinScore = 1
    MaxGap = 1
    InputCounts = {1}
    InputLimits = {1}
    Lockout = 0
    LastCreate = 0
    MaxInputNonce = 1
    MaxNonce = 2
    MaxVersion = 2
SPECIFICATION Spec
INVARIANTS KeysHaveOneOwner
PROPERTIES InputsAuthorised
CHECK_DEADLOCK FALSE
SYMMETRY Symmetry
