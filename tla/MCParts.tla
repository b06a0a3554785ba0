------------------------------- MODULE MCParts -------------------------------
(***************************************************************************)
(* Small instances of the components that stand on their own: the disjoint *)
(* sum of their state spaces.  A behaviour is a behaviour of one component, *)
(* the one that part names, and the variables s1, s2, ... are that         *)
(* component's variables in the order of its VARIABLES; a configuration    *)
(* chooses the components it looks at with Parts.  A property of this       *)
(* module is the property of the same meaning of each component it names.   *)
(***************************************************************************)
EXTENDS Integers, Sequences, FiniteSets, TLC

\* Small selects the bounds of the runs that check liveness; p1 and p2 are the
\* players of the lobby.
CONSTANTS Parts, Small, p1, p2

\* "nobody" is the lobby's empty seat.
ASSUME PlayersHaveNames == "nobody" \notin {p1, p2}

VARIABLES part, s1, s2, s3, s4, s5, s6, s7, s8, s9, s10, s11, s12, s13, s14,
          s15, s16, s17, s18

vars == <<part, s1, s2, s3, s4, s5, s6, s7, s8, s9, s10, s11, s12, s13, s14,
          s15, s16, s17, s18>>

Symmetry == Permutations({p1, p2})

Pick(a, b) == IF Small THEN b ELSE a

Lobby == INSTANCE RoomsLobby WITH
  Players <- {p1, p2}, RoomIds <- {1}, Tickets <- {1, 2}, Nobody <- "nobody",
  NoTicket <- 0, Blocks <- {}, GroupSize <- 3, MaxActive <- 1,
  PromptCycles <- TRUE, MaxInvites <- 0, MaxRollbacks <- 0, rooms <- s1,
  queue <- s2, invites <- s3, offers <- s4, age <- s5, results <- s6,
  audit <- s7, engine <- s8, rollbacks <- s9
Engine == INSTANCE RoomsEngine WITH
  Matches <- {1}, MaxEpoch <- 2, MaxJobs <- 3, MaxCrashes <- 1, hub <- s1,
  node <- s2, ticket <- s3, jobs <- s4, op <- s5, mem <- s6, stage <- s7,
  waited <- s8, cyc <- s9, txs <- s10, prov <- s11, created <- s12,
  crashes <- s13
Client == INSTANCE RoomsClient WITH
  MaxKey <- 1, MaxEpoch <- Pick(2, 1), MaxSent <- Pick(2, 1),
  FreshKeys <- ~Small, offer <- s1, engine <- s2, wire <- s3, sent <- s4,
  row <- s5, resolved <- s6, key <- s7, accepted <- s8, tab <- s9,
  sess <- s10, out <- s11, boot <- s12
Feed == INSTANCE EngineFeed WITH
  MaxRev <- 3, MaxHead <- 3, MaxRestarts <- 1,
  MaxFaults <- 1, GapWindow <- 2, node <- s1, stream <- s2, entry <- s3,
  pending <- s4, faults <- s5
Settlement == INSTANCE RoomsSettlement WITH
  Matches <- Pick({1, 2}, {1}), Players <- {1}, Page <- 1,
  Attempts <- Pick(1, 2), Scan <- 1, Early <- TRUE,
  MaxDeployment <- Pick(2, 1), MaxEpoch <- Pick(1, 2),
  MaxFaults <- Pick(0, 1), hub <- s1, match <- s2, pos <- s3, pay <- s4,
  log <- s5, jobs <- s6, rows <- s7, cursor <- s8, binding <- s9,
  active <- s10, asked <- s11, audit <- s12, renewing <- s13, faults <- s14
Pressure == INSTANCE RoomsPressure WITH
  Workers <- Pick({1, 2}, {1}), MaxRally <- Pick(1, 2), WindowBlocks <- 2,
  ConfirmationBlocks <- 1, MaxDepth <- Pick(3, 1), MaxReorgs <- Pick(1, 2),
  MaxRollbacks <- Pick(1, 0), MaxStops <- 1, chain <- s1, highest <- s2,
  minted <- s3, opening <- s4, engine <- s5, pub <- s6, table <- s7,
  signed <- s8, worker <- s9, faults <- s10
Health == INSTANCE RoomsHealth WITH
  MaxBatch <- 2, MaxEpoch <- Pick(2, 1), MaxFail <- Pick(2, 1), MaxCrash <- 1,
  node <- s1, hub <- s2, incident <- s3, row <- s4, queries <- s5,
  cycle <- s6, svc <- s7, open <- s8, faults <- s9
Replay == INSTANCE ReplayCache WITH
  MaxRev <- 2, MaxReset <- 1, MaxHash <- 2, MaxFault <- Pick(2, 1),
  game <- s1, heard <- s2, epoch <- s3, latest <- s4, buffer <- s5,
  flushing <- s6, retaining <- s7, row <- s8, frames <- s9, index <- s10,
  result <- s11, recorded <- s12, archived <- s13, job <- s14,
  resets <- s15, faults <- s16
Login == INSTANCE RoomsSessions WITH
  Players <- {1}, Ops <- Pick({1}, {}), MaxEpoch <- 1, MaxNonce <- 1, MaxOpen <- 1,
  MaxRev <- 2, MaxFail <- 1, hub <- s1, cache <- s2, reading <- s3,
  issued <- s4, nonces <- s5, logins <- s6, sessions <- s7, reqs <- s8,
  ops <- s9, effects <- s10, rev <- s11, sockets <- s12, walk <- s13,
  fails <- s14
Desk == INSTANCE RoomsDesk WITH
  Accounts <- Pick({1, 2}, {1}), MaxRoom <- 2, MaxDuel <- Pick(2, 1),
  MaxClick <- Pick(3, 1), MaxFault <- Pick(0, 1), seat <- s1, made <- s2,
  page <- s3, cmds <- s4, fetch <- s5, spent <- s6, chosen <- s7,
  readied <- s8
Bet == INSTANCE RoomsBet WITH
  MaxMatch <- 2, Choices <- {1}, Credit <- 1, MaxClick <- 2, MaxCrash <- 1,
  offer <- s1, ended <- s2, window <- s3, nonce <- s4, vaultNonce <- s5,
  balance <- s6, given <- s7, bets <- s8, jobs <- s9, bettors <- s10,
  credited <- s11, routes <- s12, seen <- s13, panel <- s14, read <- s15,
  act <- s16, clicks <- s17, crashes <- s18
Matching == INSTANCE Matchmaking WITH
  Players <- Pick({"p1", "p2", "p3"}, {"p1", "p2"}),
  MaxRoom <- Pick(2, 1), MaxTicket <- 1, MaxChallenge <- Pick(0, 1), Arenas <- 2, MaxCrash <- Pick(0, 1), queue <- s1,
  rooms <- s2, jobs <- s3, challenges <- s4, active <- s5, created <- s6,
  seen <- s7, op <- s8, crashes <- s9
Inviting == INSTANCE Matchmaking WITH
  Players <- {"p1", "p2"}, MaxRoom <- 2, MaxTicket <- 1, MaxChallenge <- 1,
  Arenas <- 2, MaxCrash <- 0, queue <- s1, rooms <- s2, jobs <- s3,
  challenges <- s4, active <- s5, created <- s6, seen <- s7, op <- s8,
  crashes <- s9
Payouts == INSTANCE PayoutWorker WITH
  Debts <- {1, 2}, Kind <- Pick(<<"bet", "prize">>, <<"bet", "refund">>),
  Owed <- Pick(<<TRUE, TRUE>>, <<FALSE, TRUE>>), Slots <- 1,
  MaxAttempt <- 1, MaxFailure <- 1, MaxCrash <- 1, over <- s1,
  pay <- s2, accepts <- s3, cursor <- s4, indexed <- s5, task <- s6,
  jobs <- s7, tick <- s8, user <- s9, failures <- s10, crashes <- s11
Keeper == INSTANCE RelayKeeper WITH
  MaxMatch <- 2, Cup <- {}, Recent <- 1, Scan <- 1, MaxFault <- 0,
  MaxCrash <- 0, MaxEvent <- 1, chain <- s1, fresh <- s2, watched <- s3,
  seeded <- s4, cursor <- s5, pass <- s6, row <- s7, faults <- s8,
  crashes <- s9
Relay == INSTANCE RelayJournal WITH
  Calls <- {"claim"}, Retried <- {"claim"}, Late <- {"claim"},
  Lanes <- {"lane"}, Dirs <- {1}, MaxInflight <- 2, MaxQueue <- 3,
  MaxInput <- 1, MaxHead <- 2, MaxFaults <- 1, status <- s1, nonceOf <- s2,
  queue <- s3, asking <- s4, dispatching <- s5, sending <- s6, head <- s7,
  chainNonce <- s8, mempool <- s9, mined <- s10, done <- s11, slot <- s12,
  faults <- s13
Queue == INSTANCE ArenaQueue WITH
  MaxRoom <- 2, MaxTicket <- 2, MaxFail <- 1, MaxReload <- 1, MaxAccount <- 1,
  tab <- s1, stored <- s2, op <- s3, entered <- s4, srv <- s5, made <- s6,
  faults <- s7
View == INSTANCE ArenaView WITH
  Matches <- {1, 2}, Final <- 1, MaxBlock <- 2, MaxClick <- 2,
  MaxReplay <- Pick(1, 0),
  MaxFail <- 1, MaxWire <- Pick(2, 1), block <- s1, ver <- s2, cache <- s3,
  head <- s4, wire <- s5, online <- s6, selected <- s7, tab <- s8,
  cursor <- s9, shown <- s10, court <- s11, reads <- s12, replay <- s13,
  frames <- s14, left <- s15
Actions == INSTANCE ArenaActions WITH
  Matches <- {1, 2}, Amounts <- {1, 2}, Prices <- {100, 102},
  Kinds <- {"session", "action", "credits", "withdraw", "enter"},
  MaxVersion <- 2, MaxStart <- 2, MaxEdit <- 1, price <- s1, version <- s2,
  nonce <- s3, done <- s4, jobs <- s5, selected <- s6, shares <- s7,
  preview <- s8, op <- s9, session <- s10, said <- s11, started <- s12,
  edits <- s13
Arena == INSTANCE ArenaDesk WITH
  Accounts <- {1, 2}, Admins <- {1}, MaxClick <- 1, MaxNav <- 1,
  MaxFail <- Pick(1, 0), page <- s1, op <- s2, restore <- s3, check <- s4,
  chain <- s5, playing <- s6, version <- s7, wanted <- s8, stored <- s9,
  spent <- s10
Physics == INSTANCE BallPhysics WITH
  Width <- 16, Height <- 10, Radius <- 1, HalfPaddle <- 2, Plane <- 3,
  PaddleSpeed <- 3, SpeedX <- 2, SpeedY <- 1, Pause <- 2, Points <- 2,
  Limit <- 2, Paid <- {0, 2}, MaxTime <- 8, MaxInputs <- 1, s <- s1,
  now <- s2, live <- s3, snap <- s4, inputs <- s5
Lane == INSTANCE InputLane WITH
  Dirs <- {0, 1}, MaxMoves <- Pick(1, 2), MaxFail <- Pick(1, 0),
  MaxReset <- Pick(1, 0), MaxLate <- Pick(1, 0), want <- s1, active <- s2, ctl <- s3, req <- s4,
  late <- s5, rows <- s6, lane <- s7, head <- s8, faults <- s9
Paddle == INSTANCE PaddleKeys WITH
  Pages <- {"rooms", "arena", "independent"}, Shifted <- {"independent"},
  MaxEvent <- 7, hand <- s1, court <- s2, page <- s3
Writer == INSTANCE IndependentWriter WITH
  Calls <- {"c"}, Contexts <- Pick({1, 2, 3}, {1, 2}), MaxQueue <- 2,
  MaxNonce <- 3, MaxCrash <- 1, MaxOther <- 1, rows <- s1, journal <- s2,
  chain <- s3, intake <- s4, pump <- s5, watch <- s6, crashes <- s7,
  others <- s8
Arenas == INSTANCE IndependentArenas WITH
  Matches <- Pick({1, 2}, {1}), Arenas <- {1}, MaxChallenge <- 2, MaxQueue <- 1,
  Budget <- 1, proposal <- s1, arenaOf <- s2, binding <- s3, hub <- s4,
  live <- s5, pub <- s6, ledger <- s7, gen <- s8, applied <- s9, ops <- s10,
  granted <- s11, challenges <- s12
Executor == INSTANCE AuthorityKeeper WITH
  Callers <- {1, 2}, MaxCycle <- 2, MaxFault <- 1, MaxCrash <- 1, cycle <- s1,
  work <- s2, row <- s3, live <- s4, outcome <- s5, faults <- s6,
  crashes <- s7
Game == INSTANCE GameV3 WITH
  Players <- {"p1", "p2"}, Keys <- {"k1"}, NoKey <- "no key",
  NoPlayer <- "nobody", GrantLife <- 1, GrantLengths <- {1}, MaxGrants <- 0,
  MaxBlock <- 2, Ids <- {1}, Rooms <- {1}, RankedChoices <- {FALSE},
  ChaosChoices <- {FALSE}, RevealWindow <- 1, StallTime <- 1,
  PauseLimit <- 1, SessionLengths <- {1}, SessionLife <- 1, Break <- 1,
  WinScore <- 1, MaxGap <- 1, InputCounts <- {1}, InputLimits <- {1},
  Lockout <- 0, LastCreate <- 0, MaxInputNonce <- 0, MaxNonce <- 0,
  MaxVersion <- 1, now <- s1, sessions <- s2, keyOwner <- s3,
  arcadeNonces <- s4, matches <- s5, nonces <- s6, activeMatchOf <- s7,
  pendingRatingOf <- s8, usedRooms <- s9, ladder <- s10,
  maxInputsPerBlock <- s11, paused <- s12, pauseStart <- s13,
  pausedBlocks <- s14
Recovery == INSTANCE AuthorityRecovery WITH
  MaxGen <- 2, MaxEpoch <- 2, MaxFault <- 2, MaxMatch <- 2, c <- s1,
  old <- s2, eng <- s3, up <- s4, health <- s5, seen <- s6, w <- s7,
  journal <- s8, faults <- s9, matches <- s10
Family == INSTANCE FamilySession WITH
  MaxOp <- 4, MaxClick <- 3, MaxFault <- 2, MaxReload <- 1, chain <- s1,
  ops <- s2, family <- s3, slot <- s4, known <- s5, run <- s6, effect <- s7,
  gone <- s8, clicks <- s9, faults <- s10, reloads <- s11
Upload == INSTANCE PrivateUpload WITH
  Tabs <- {1, 2}, Chunks <- {1}, MaxEdit <- 2, MaxNonce <- 3, MaxFault <- 1,
  past <- s1, uploads <- s2, nonce <- s3, ops <- s4, pend <- s5, op <- s6,
  tab <- s7, edits <- s8, faults <- s9

\* A component with n variables leaves the others alone.
Blank(n) ==
  /\ IF n < 4 THEN s4 = 0 ELSE TRUE
  /\ IF n < 5 THEN s5 = 0 ELSE TRUE
  /\ IF n < 6 THEN s6 = 0 ELSE TRUE
  /\ IF n < 7 THEN s7 = 0 ELSE TRUE
  /\ IF n < 8 THEN s8 = 0 ELSE TRUE
  /\ IF n < 9 THEN s9 = 0 ELSE TRUE
  /\ IF n < 10 THEN s10 = 0 ELSE TRUE
  /\ IF n < 11 THEN s11 = 0 ELSE TRUE
  /\ IF n < 12 THEN s12 = 0 ELSE TRUE
  /\ IF n < 13 THEN s13 = 0 ELSE TRUE
  /\ IF n < 14 THEN s14 = 0 ELSE TRUE
  /\ IF n < 15 THEN s15 = 0 ELSE TRUE
  /\ IF n < 16 THEN s16 = 0 ELSE TRUE
  /\ IF n < 17 THEN s17 = 0 ELSE TRUE
  /\ IF n < 18 THEN s18 = 0 ELSE TRUE

Keep(n) ==
  /\ IF n < 4 THEN UNCHANGED s4 ELSE TRUE
  /\ IF n < 5 THEN UNCHANGED s5 ELSE TRUE
  /\ IF n < 6 THEN UNCHANGED s6 ELSE TRUE
  /\ IF n < 7 THEN UNCHANGED s7 ELSE TRUE
  /\ IF n < 8 THEN UNCHANGED s8 ELSE TRUE
  /\ IF n < 9 THEN UNCHANGED s9 ELSE TRUE
  /\ IF n < 10 THEN UNCHANGED s10 ELSE TRUE
  /\ IF n < 11 THEN UNCHANGED s11 ELSE TRUE
  /\ IF n < 12 THEN UNCHANGED s12 ELSE TRUE
  /\ IF n < 13 THEN UNCHANGED s13 ELSE TRUE
  /\ IF n < 14 THEN UNCHANGED s14 ELSE TRUE
  /\ IF n < 15 THEN UNCHANGED s15 ELSE TRUE
  /\ IF n < 16 THEN UNCHANGED s16 ELSE TRUE
  /\ IF n < 17 THEN UNCHANGED s17 ELSE TRUE
  /\ IF n < 18 THEN UNCHANGED s18 ELSE TRUE

Is(p, n, I) == p \in Parts /\ part = p /\ I /\ Blank(n)
On(p, n, A) == part = p /\ A /\ Keep(n) /\ UNCHANGED part

Init ==
  \/ Is("lobby", 9, Lobby!Init)
  \/ Is("engine", 13, Engine!Init)
  \/ Is("client", 12, Client!Init)
  \/ Is("feed", 5, Feed!Init)
  \/ Is("settlement", 14, Settlement!Init)
  \/ Is("pressure", 10, Pressure!Init)
  \/ Is("health", 9, Health!Init)
  \/ Is("replay", 16, Replay!Init)
  \/ Is("login", 14, Login!Init)
  \/ Is("desk", 8, Desk!Init)
  \/ Is("bet", 18, Bet!Init)
  \/ Is("matchmaking", 9, Matching!Init)
  \/ Is("inviting", 9, Inviting!Init)
  \/ Is("payouts", 11, Payouts!Init)
  \/ Is("keeper", 9, Keeper!Init)
  \/ Is("relay", 13, Relay!Init)
  \/ Is("queue", 7, Queue!Init)
  \/ Is("view", 15, View!Init)
  \/ Is("actions", 13, Actions!Init)
  \/ Is("arena", 10, Arena!Init)
  \/ Is("physics", 5, Physics!Init)
  \/ Is("lane", 9, Lane!Init)
  \/ Is("keys", 3, Paddle!Init)
  \/ Is("writer", 8, Writer!Init)
  \/ Is("arenas", 12, Arenas!Init)
  \/ Is("executor", 7, Executor!Init)
  \/ Is("game", 14, Game!Init)
  \/ Is("recovery", 10, Recovery!Init)
  \/ Is("family", 11, Family!Init)
  \/ Is("upload", 9, Upload!Init)

Next ==
  \/ On("lobby", 9, Lobby!Next)
  \/ On("engine", 13, Engine!Next)
  \/ On("client", 12, Client!Next)
  \/ On("feed", 5, Feed!Next)
  \/ On("settlement", 14, Settlement!Next)
  \/ On("pressure", 10, Pressure!Next)
  \/ On("health", 9, Health!Next)
  \/ On("replay", 16, Replay!Next)
  \/ On("login", 14, Login!Next)
  \/ On("desk", 8, Desk!Next)
  \/ On("bet", 18, Bet!Next)
  \/ On("matchmaking", 9, Matching!Next)
  \/ On("inviting", 9, Inviting!Next)
  \/ On("payouts", 11, Payouts!Next)
  \/ On("keeper", 9, Keeper!Next)
  \/ On("relay", 13, Relay!Next)
  \/ On("queue", 7, Queue!Next)
  \/ On("view", 15, View!Next)
  \/ On("actions", 13, Actions!Next)
  \/ On("arena", 10, Arena!Next)
  \/ On("physics", 5, Physics!Next)
  \/ On("lane", 9, Lane!Next)
  \/ On("keys", 3, Paddle!Next)
  \/ On("writer", 8, Writer!Next)
  \/ On("arenas", 12, Arenas!Next)
  \/ On("executor", 7, Executor!Next)
  \/ On("game", 14, Game!Next)
  \/ On("recovery", 10, Recovery!Next)
  \/ On("family", 11, Family!Next)
  \/ On("upload", 9, Upload!Next)

Spec == Init /\ [][Next]_vars

(***************************************************************************)
(* Fairness.  Every component's module says what its code's timers, loops  *)
(* and answers justify; here the same actions are fair as steps of the     *)
(* sum.  A behaviour is one component's for ever, so an action of the sum  *)
(* that is strongly fair may join actions of different components; within  *)
(* a component, joining them assumes less than its module would allow.     *)
(***************************************************************************)
WeakFairness ==
  /\ WF_vars(On("client", 12, Client!StartRecover) \/ On("feed", 5, Feed!Tick)
             \/ On("settlement", 14, Settlement!AuditSteps) \/ On("pressure", 10, Pressure!Mine)
             \/ On("health", 9, Health!ReadNode) \/ On("replay", 16, Replay!Record)
             \/ On("login", 14, Login!StartReading(1)) \/ On("desk", 8, Desk!FetchRead)
             \/ On("matchmaking", 9, Matching!QueueEntered) \/ On("payouts", 11, Payouts!Discover)
             \/ On("keeper", 9, Keeper!NewBlock) \/ On("view", 15, View!Refresh) \/ On("lane", 9, Lane!Flush)
             \/ On("writer", 8, Writer!DispatchJournal) \/ On("arenas", 12, Arenas!Rebuild)
             \/ On("executor", 7, Executor!Request(1)) \/ On("recovery", 10, Recovery!Observe(s1))
             \/ On("relay", 13, Relay!NewHead) \/ On("game", 14, Game!NewBlock))
  /\ WF_vars(On("client", 12, Client!StartRestore) \/ On("feed", 5, Feed!Deliver)
             \/ On("settlement", 14, Settlement!Release) \/ On("pressure", 10, Pressure!Publish)
             \/ On("health", 9, Health!ReadHub) \/ On("replay", 16, Replay!EpochRead)
             \/ On("login", 14, Login!EndReading(1)) \/ On("desk", 8, Desk!FetchAnswer)
             \/ On("matchmaking", 9, Matching!QueuePaired) \/ On("payouts", 11, Payouts!ProcessEnqueue)
             \/ On("keeper", 9, Keeper!RefreshReads) \/ On("view", 15, View!Serve)
             \/ On("lane", 9, Lane!StateAnswered) \/ On("writer", 8, Writer!DispatchMark)
             \/ On("arenas", 12, Arenas!ObserveArena(1)) \/ On("executor", 7, Executor!Request(2))
             \/ On("recovery", 10, Recovery!CheckJournal)
             \/ On("relay", 13, Relay!EnqueueCheck("claim"))
             \/ On("game", 14, Game!CancelUnstarted(1)))
  /\ WF_vars(On("client", 12, Client!RecoverRead) \/ On("feed", 5, Feed!FindClosed)
             \/ On("settlement", 14, Settlement!Finish(1)) \/ On("pressure", 10, Pressure!Works(1))
             \/ On("health", 9, Health!Observe) \/ On("replay", 16, Replay!FlushTakes)
             \/ On("login", 14, Login!Age(1)) \/ On("desk", 8, Desk!SignedOutFails)
             \/ On("matchmaking", 9, Matching!SubmitInsert) \/ On("payouts", 11, Payouts!ProcessSave)
             \/ On("keeper", 9, Keeper!RefreshEnds) \/ On("view", 15, View!Poll)
             \/ On("lane", 9, Lane!PostServed) \/ On("writer", 8, Writer!ObserveRow)
             \/ On("arenas", 12, Arenas!Expire(1))
             \/ On("executor", 7, \E t \in Executor!Tasks : Executor!Execute(t))
             \/ On("recovery", 10, Recovery!Enqueue(s1))
             \/ On("relay", 13, \E r \in Relay!CallRows : Relay!EnqueueInsert(r)))
  /\ WF_vars(On("client", 12, Client!ResendFails) \/ On("feed", 5, Feed!ReadStarts)
             \/ On("settlement", 14, Settlement!JobsMade) \/ On("health", 9, Health!Deleted)
             \/ On("replay", 16, Replay!FlushCommits) \/ On("login", 14, Login!StartNotify)
             \/ On("desk", 8, Desk!Poll) \/ On("matchmaking", 9, Matching!SubmitRecord)
             \/ On("payouts", 11, Payouts!RetryEnqueue) \/ On("keeper", 9, Keeper!RefreshMatch(1))
             \/ On("view", 15, View!Receive) \/ On("lane", 9, Lane!PostAnswered)
             \/ On("writer", 8, Writer!ObserveJoin) \/ On("arenas", 12, Arenas!Resolve(1))
             \/ On("recovery", 10, Recovery!Requests)
             \/ On("relay", 13, Relay!DispatchStep))
  /\ WF_vars(On("client", 12, Client!Refreshed) \/ On("feed", 5, Feed!ReadServed)
             \/ On("health", 9, Health!Settle) \/ On("replay", 16, Replay!RetainReads)
             \/ On("desk", 8, Desk!LoggedIn) \/ On("payouts", 11, Payouts!RetrySave)
             \/ On("keeper", 9, Keeper!RefreshMatch(2)) \/ On("view", 15, View!Open)
             \/ On("lane", 9, Lane!WaitsEnd)
             \/ On("writer", 8, \E j \in Writer!Ids \cup Writer!Other : Writer!Execute(j))
             \/ On("arenas", 12, \E c \in Arenas!Calls : Arenas!Execute(c))
             \/ On("recovery", 10, Recovery!Monitor)
             \/ On("relay", 13, \E r \in Relay!Rows : Relay!ObserveReceipt(r)))
  /\ WF_vars(On("client", 12, Client!AnswerLost) \/ On("feed", 5, Feed!ReadDelivered)
             \/ On("health", 9, Health!Execute) \/ On("replay", 16, Replay!RetainApplies)
             \/ On("desk", 8, Desk!CleanUp) \/ On("payouts", 11, \E d \in 1..2 : Payouts!Ends(d))
             \/ On("keeper", 9, Keeper!MaintainMatch(1)) \/ On("view", 15, View!OnMessage)
             \/ On("lane", 9, Lane!RowsGoOn) \/ On("recovery", 10, Recovery!Silence)
             \/ On("relay", 13, \E r \in Relay!Rows : Relay!Mine(r)))
  /\ WF_vars(On("client", 12, Client!Bind) \/ On("feed", 5, Feed!VerifyDelivered)
             \/ On("health", 9, Health!Commit) \/ On("replay", 16, Replay!PublishArchive)
             \/ On("desk", 8, Desk!RunIntent) \/ On("payouts", 11, \E d \in 1..2 : Payouts!Index(d))
             \/ On("keeper", 9, Keeper!MaintainMatch(2)) \/ On("view", 15, View!ReplayMatch)
             \/ On("lane", 9, Lane!Regain) \/ On("recovery", 10, Recovery!Unlock)
             \/ On("relay", 13, Relay!BroadcastSend([call |-> "claim", head |-> 0])))
  /\ WF_vars(On("client", 12, Client!SignRefused) \/ On("health", 9, Health!Publish)
             \/ On("replay", 16, Replay!RecordMatch) \/ On("desk", 8, Desk!Restore)
             \/ On("payouts", 11, \E d \in 1..2 : Payouts!Unblock(d)) \/ On("keeper", 9, Keeper!EventDue(1))
             \/ On("view", 15, View!ReplayFrames) \/ On("lane", 9, Lane!Block)
             \/ On("recovery", 10, Recovery!ContestEnds)
             \/ On("relay", 13, Relay!BroadcastMark([call |-> "claim", head |-> 0])))
  /\ WF_vars(On("health", 9, Health!RenewDue) \/ On("desk", 8, Desk!Command)
             \/ On("payouts", 11, Payouts!Due(1)) \/ On("keeper", 9, Keeper!EventDue(2))
             \/ On("relay", 13, Relay!BroadcastSend([call |-> "claim", head |-> 1])))
  /\ WF_vars(On("desk", 8, Desk!CommandFails) \/ On("payouts", 11, Payouts!Due(2))
             \/ On("keeper", 9, \E c \in Keeper!Calls : Keeper!Execute(c, 1))
             \/ On("relay", 13, Relay!BroadcastMark([call |-> "claim", head |-> 1])))
  /\ WF_vars(On("desk", 8, Desk!Again) \/ On("payouts", 11, \E i \in 1..4 : Payouts!Execute(1, i))
             \/ On("keeper", 9, \E c \in Keeper!Calls : Keeper!Execute(c, 2))
             \/ On("relay", 13, Relay!BroadcastSend([call |-> "claim", head |-> 2])))
  /\ WF_vars(On("desk", 8, Desk!PageOnly) \/ On("payouts", 11, \E i \in 1..4 : Payouts!Execute(2, i))
             \/ On("relay", 13, Relay!BroadcastMark([call |-> "claim", head |-> 2])))
  /\ WF_vars(On("relay", 13, Relay!BroadcastSend([lane |-> "lane", nonce |-> 1, dir |-> 1])))
  /\ WF_vars(On("relay", 13, Relay!BroadcastMark([lane |-> "lane", nonce |-> 1, dir |-> 1])))

StrongFairness ==
  /\ SF_vars(\/ On("client", 12, Client!Resend \/ Client!Install)
             \/ On("login", 14, Login!Visits) \/ On("health", 9, Health!RetryDue)
             \/ On("matchmaking", 9, Matching!Maintain(1)) \/ On("payouts", 11, Payouts!Process(1))
             \/ On("writer", 8, \E i \in Writer!Ids : Writer!Dispatch(i))
             \/ On("executor", 7, \E t \in Executor!Tasks, p \in {1, 2} :
                                    Executor!Accepts(t) /\ Executor!Ask(p, t)))
  /\ SF_vars(\/ On("client", 12, Client!RestoreSession) \/ On("payouts", 11, Payouts!Process(2))
             \/ On("writer", 8, \E j \in Writer!Ids \cup Writer!Other : Writer!ObserveJournal(j)))

FairSpec == Spec /\ WeakFairness /\ StrongFairness

(***************************************************************************)
(* The rooms.                                                              *)
(***************************************************************************)
\* Every variable of the rooms' components keeps its shape.
RoomsTypeOK ==
  /\ part = "lobby" => Lobby!TypeOK
  /\ part = "engine" => Engine!TypeOK
  /\ part = "client" => Client!ClientTypeOK
  /\ part = "feed" => Feed!FeedTypeOK
  /\ part = "health" => Health!HealthTypeOK
  /\ part = "replay" => Replay!CacheTypeOK
  /\ part = "login" => Login!SessionsTypeOK
  /\ part = "desk" => Desk!DeskTypeOK

\* A room's ticket is replaced only when it can no longer be redeemed and no match
\* of it is played, although it was given up on an older reading of the engine
\* (interlude-rooms.ts, ensureRoomOffer).
TicketsKept == [][part = "lobby" => Lobby!TicketsOutlived]_vars

\* What is sent twice counts once: a nonce of the engine's operator carries one
\* job, a session of the engine is created once though the process stops between
\* posting and recording it (rooms-lifecycle.ts), a page never puts two commands
\* of one key on the wire with one nonce (compact-rooms-session.ts), and a
\* challenge or an operation of the lobby is consumed once (interlude-rooms.ts).
RequestsOnce ==
  /\ part = "engine" => Engine!NonceOwnedOnce /\ Engine!CreatedOnce
  /\ part = "client" => Client!NonceSignedOnce
  /\ part = "login" => Login!OperationOnce /\ Login!ChallengeOnce

\* Nothing is done out of its phase: no match is played that the lobby no longer
\* looks at (interlude-rooms.ts), a delegation that has been closed left no
\* match in play and nothing unpublished (rooms-lifecycle.ts), a consent reaches
\* the engine only after both players were ready and the introduction is over
\* (RoomsHub.tsx), and the frames of a retired epoch do not come back
\* (rooms-events-history.ts).
PhasesInOrder ==
  /\ part = "lobby" => Lobby!OneSeat /\ Lobby!PlayIsWatched
  /\ part = "engine" => Engine!ClosedClean
  /\ part = "client" => Client!ConsentAfterIntro
  /\ part = "replay" => Replay!RetiredStaysEmpty

\* What was published stands: the feed goes back to an older revision only when
\* the engine really did, and says so (engine-feed.ts); the epoch moves on only
\* when every result of the arena is final (rooms-lifecycle.ts).
ResetIsReal ==
  [][/\ part = "feed" => Feed!RealReset
     /\ part = "engine" => Engine!EpochEnds]_vars

\* Matches are admitted only while the last published batch is known to be good,
\* and an incident is forgotten only by the cycle that resolved it
\* (rooms-publication-health.ts).
AdmissionIsSafe == part = "health" => Health!AdmissionIsSafe /\ Health!IncidentKept

\* The hub comes to show an account its own room only, and makes ready by itself no
\* more duels than its player accepted invitations (RoomsHub.tsx).
RoomsPageIsTrue == [][part = "desk" => Desk!ShowsOwn /\ Desk!ReadyByChoice']_vars

(***************************************************************************)
(* The arcade of matches on chain and the independent arcade.              *)
(***************************************************************************)
\* Every variable of the arcade's components keeps its shape.
ArcadeTypeOK ==
  /\ part = "settlement" => Settlement!SettlementTypeOK
  /\ part = "pressure" => Pressure!PressureTypeOK
  /\ part = "matchmaking" => Matching!MatchmakingTypeOK
  /\ part = "inviting" => Inviting!MatchmakingTypeOK
  /\ part = "payouts" => Payouts!PayoutTypeOK
  /\ part = "queue" => Queue!QueueTypeOK
  /\ part = "view" => View!ViewTypeOK
  /\ part = "lane" => Lane!InputTypeOK
  /\ part = "writer" => Writer!WriterTypeOK
  /\ part = "arenas" => Arenas!ArenasTypeOK
  /\ part = "executor" => Executor!ExecutorTypeOK
  /\ part = "family" => Family!FamilyTypeOK

\* Money of the rooms is where the books say: a settled row has nothing more to
\* pay, a match keeps one market (rooms-finance.ts), and a rally's pressure is
\* signed once, from a payment that was really made.
PaidBeforeClosed ==
  /\ part = "settlement" => Settlement!SettledIsPaid /\ Settlement!OneMarket
  /\ part = "pressure" => Pressure!PressureIsPaid /\ Pressure!OneCheckpoint

\* A player is prepared for one match at most, no player has two creations in the
\* journal and a cancelled room is never created (main.ts, social.ts).
QueueIsHonest ==
  /\ part = "matchmaking" =>
       Matching!OneRoom /\ Matching!OneCreation /\ Matching!CancelledStaysCancelled
  /\ part = "inviting" =>
       Inviting!OneRoom /\ Inviting!OneCreation /\ Inviting!CancelledStaysCancelled

\* A debt has one transfer in flight at most, and is reported as it is (payouts.ts).
OneTransfer == part = "payouts" => Payouts!OneTransfer /\ Payouts!SettledIsTrue

\* What a page shows and signs is what it stands for: the match shown is the one
\* selected, a bet is sent at the limit that was reviewed, a success reported is
\* one, the queue's secret survives, an account's session is its own and only the
\* wanted match is launched (Arena.tsx), a bet of a room is made as it was shown,
\* credited once and its bettor found again (RoomsMarketPanel.tsx), the paddle
\* goes where the keys held say, a revoked family key stays revoked, and a private
\* upload never overwrites an edit its author has not seen (independent-private.ts).
PageIsTrue ==
  /\ part = "bet" => Bet!BetsAsShown /\ Bet!CreditOnce /\ Bet!BettorsFound
  /\ part = "view" => View!ShownIsSelected
  /\ part = "actions" => Actions!BetAsReviewed /\ Actions!ReportedIsTrue
  /\ part = "queue" => Queue!SecretKept
  /\ part = "arena" => Arena!SessionIsOwn /\ Arena!LaunchIsWanted
  /\ part = "keys" => Paddle!DirectionIsHeld
  /\ part = "family" => Family!RevokedForGood
  /\ part = "upload" => Upload!NoLostUpdate /\ Upload!PanelsKnowTheirBase

\* The ball is where it is however the elapsed time was cut, and what the page
\* draws ahead is what the contract will compute (physics-v2.ts, presentation.ts).
CatchUpAgrees == part = "physics" => Physics!CatchUpAgrees /\ Physics!PreviewHolds

\* A sponsored operation is signed once, under a nonce of its own, and one
\* transaction of a task may execute (independent-writer.ts, authority-keeper.ts).
SignedOnce ==
  /\ part = "writer" => Writer!NonceHeldOnce /\ Writer!SponsoredOnce /\ Writer!OneInFlight
  /\ part = "executor" => Executor!OneTransaction

\* An arena is used again only when its last result is final, and the published
\* ratings follow the results that stand (IndependentLobby.sol, PublishedRatings.sol).
FinalBeforeReuse == part = "arenas" => Arenas!FinalBeforeReuse /\ Arenas!LedgerCurrent

(***************************************************************************)
(* Progress.                                                               *)
(***************************************************************************)
Waits ==
  CASE part = "client" -> Client!Stuck
    [] part = "settlement" -> Settlement!Staked(<<1, 1>>)
    [] part = "replay" -> Replay!Corrected(2)
    [] part = "login" -> Login!Outdated(1, 0)
    [] part = "keeper" -> Keeper!WatchedLive(1)
    [] part = "relay" -> Relay!Queued
    [] part = "game" -> Game!Unstarted(1)
    [] part = "writer" -> Writer!Admits(<<"c", 1>>)
    [] part = "arenas" -> Arenas!Bound(1)
    [] OTHER -> FALSE

Served ==
  CASE part = "client" -> Client!Unstuck
    [] part = "settlement" -> Settlement!PaidOff(<<1, 1>>)
    [] part = "replay" -> Replay!Archived(2)
    [] part = "login" -> ~Login!Subscribed(1, 0)
    [] part = "keeper" -> Keeper!Finished(1)
    [] part = "relay" -> Relay!AllEnded
    [] part = "game" -> ~Game!Unstarted(1)
    [] part = "writer" -> Writer!Ended(<<"c", 1>>)
    [] part = "arenas" -> Arenas!Free(1)
    [] OTHER -> TRUE

\* What waits for a loop of the relayer or of a page is served: a page blocked on
\* its own command writes again, a bet is paid or tried as often as promised, a
\* corrected result is archived again, the sockets of a revoked key close, a
\* watched match ends, rows of the relay journal end, a match that is not revealed
\* starts or is cancelled, paused or not, a sponsored operation ends and a bound
\* arena is freed.
WaitingIsServed == Waits ~> Served

\* What has to follow something else holds from some time on, once that something
\* stands still if it has to.
StandsStill(k) ==
  CASE part = "view" -> View!Watches(k)
    [] part = "lane" -> Lane!Wants(k - 1)
    [] part = "recovery" -> Recovery!Gone
    [] OTHER -> TRUE

CaughtUp(k) ==
  CASE part = "feed" -> Feed!InStep
    [] part = "desk" -> Desk!UpToDate
    [] part = "payouts" -> Payouts!Reported(k)
    [] part = "executor" -> \A task \in Executor!Kinds : Executor!Served(task)
    [] part = "view" -> View!Sees(k)
    [] part = "lane" -> Lane!Moves(k - 1)
    [] part = "recovery" -> Recovery!Resumable
    [] OTHER -> TRUE

\* What may be interrupted again and again is also resumed again and again.
Resumed(k) ==
  CASE part = "health" -> Health!Admitting
    [] part = "pressure" -> ~Pressure!Paused(k)
    [] part = "matchmaking" -> ~Matching!Overlooked(1)
    [] OTHER -> TRUE

\* What follows another state catches up with it: the feed with the engine, the
\* hub with the lobby, the worker's report with the debts, the keeper with the
\* contract's cycles, the page with the match it watches, the paddle with the
\* player, and the games go on when the authority is gone for good; rooms reopen
\* after every incident, pauses end, and a room with both consents is not
\* overlooked for good.
ViewsCatchUp ==
  \A k \in 1..2 : /\ <>[]StandsStill(k) => <>[]CaughtUp(k)
                  /\ []<>Resumed(k)
=============================================================================
