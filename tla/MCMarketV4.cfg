CONSTANTS
    p1 = p1
    p2 = p2
    p3 = p3
    p4 = p4
    m1 = m1
    Accounts = {p1, p2}
    Deposits = {3}
    MaxDeposited = 6
    MaxWithdrawals = 1
    MaxTime = 1
    PayoutIds <- MCPayoutIds
    MaxAttempts = 2
    Matches = {m1}
    Cost <- MCCost
    MaxShares = 4
    SeedMargin = 0
    TradeMargin = 1
    Liquidities = {1}
    ExtraSeeds = {1}
    Shares = {2}
    CostLimits = {3}
    Bettors = {p1, p2}
    PlayerA <- MCPlayerA
    PlayerB <- MCPlayerB
    MaxBets = 2
    MaxVersion = 2
SPECIFICATION Spec
INVARIANTS TypeOK Covered BooksMatchPositions Conservation ClaimNeverBlocked WithinSignedLimits
PROPERTY PayoutsFixed
CHECK_DEADLOCK FALSE
SYMMETRY Symmetry
