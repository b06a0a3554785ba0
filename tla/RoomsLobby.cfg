CONSTANTS
    Nobody = Nobody
    NoTicket = NoTicket
    Players = {p1, p2}
    RoomIds = {1}
    Tickets = {1}
    Blocks = {}
    GroupSize = 3
    MaxActive = 1
    PromptCycles = TRUE
    MaxInvites = 1
    MaxRollbacks = 1
SPECIFICATION Spec
INVARIANTS OneSeat PlayIsWatched 
CHECK_DEADLOCK FALSE
