CONSTANTS
    Parts = {"settlement", "pressure", "bet", "matchmaking", "inviting", "payouts", "queue", "view", "actions", "arena", "physics", "lane", "keys", "writer", "arenas", "executor", "family", "upload"}
    p1 = p1
    p2 = p2
    Small = FALSE
SPECIFICATION Spec
INVARIANTS ArcadeTypeOK PaidBeforeClosed   PageIsTrue CatchUpAgrees SignedOnce FinalBeforeReuse
CHECK_DEADLOCK FALSE
