CONSTANTS
    Parts = {"client", "feed", "settlement", "pressure", "health", "replay", "login", "desk", "matchmaking", "payouts", "keeper", "relay", "game", "view", "lane", "writer", "arenas", "executor", "recovery"}
    p1 = p1
    p2 = p2
    Small = TRUE
SPECIFICATION FairSpec
PROPERTIES WaitingIsServed ViewsCatchUp
CHECK_DEADLOCK FALSE
