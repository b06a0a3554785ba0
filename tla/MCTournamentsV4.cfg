CONSTANTS
    p1 = p1
    p2 = p2
    p3 = p3
    p4 = p4
    c1 = c1
    Treasury = Treasury
    Nobody = Nobody
    Accounts = {p1, p2, p3, p4}
    Tournaments = {c1}
    MatchIds = {1, 2, 3}
    PayoutIds <- MCPayoutIds
    MaxAttempts = 2
    Deposits = {1}
    MaxDeposited = 4
    MaxWithdrawals = 0
    MaxTime = 1
    Formats <- MCFormats
    MaxOpen = 1
    RoundLimit = 0
    MaxEntries = 4
    Deadlines = {1}
SPECIFICATION MCSpec
INVARIANTS PrizesCovered BracketIsFair
PROPERTY ResultsStand
SYMMETRY Symmetry
CHECK_DEADLOCK FALSE
CONSTRAINT PaidRefunds
