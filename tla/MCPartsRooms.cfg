CONSTANTS
    Parts = {"lobby", "engine", "client", "feed", "health", "replay", "login", "desk"}
    p1 = p1
    p2 = p2
    Small = FALSE
SPECIFICATION Spec
INVARIANTS RoomsTypeOK RequestsOnce PhasesInOrder AdmissionIsSafe
PROPERTIES TicketsKept ResetIsReal RoomsPageIsTrue
SYMMETRY Symmetry
CHECK_DEADLOCK FALSE
