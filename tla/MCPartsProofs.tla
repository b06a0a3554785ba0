---------------------------- MODULE MCPartsProofs ----------------------------
(***************************************************************************)
(* What is proved of the components that stand on their own, for the small *)
(* instances of MCParts: each theorem names the property the run checks    *)
(* and rests on the component's own theorem, which holds for every value   *)
(* of its constants.                                                       *)
(***************************************************************************)
EXTENDS MCParts, FiniteSetTheorems, TLAPS

Tables == INSTANCE RoomsProofs WITH
  Players <- {p1, p2}, RoomIds <- {1}, Tickets <- {1, 2}, Nobody <- "nobody",
  NoTicket <- 0, Blocks <- {}, GroupSize <- 3, MaxActive <- 1,
  PromptCycles <- TRUE, MaxInvites <- 0, MaxRollbacks <- 0, rooms <- s1,
  queue <- s2, invites <- s3, offers <- s4, age <- s5, results <- s6,
  audit <- s7, engine <- s8, rollbacks <- s9,
  Duels <- {1}, MaxTerm <- 2, MaxCommand <- 3, MaxDeath <- 1, delegation <- s1,
  hosted <- s2, passes <- s3, commands <- s4, writing <- s5, memory <- s6,
  lifeStage <- s7, minute <- s8, closeStep <- s9, filed <- s10, hostAsk <- s11,
  madeSessions <- s12, deaths <- s13,
  MaxState <- 2, MaxReturn <- 1, MaxCorrection <- 2, MaxMishap <- Pick(2, 1),
  contest <- s1, handed <- s2, contestTerm <- s3, newest <- s4, kept <- s5,
  storing <- s6, retiring <- s7, available <- s8, frameRows <- s9, listing <- s10,
  published <- s11, onChain <- s12, archivedAs <- s13, archiving <- s14,
  returns <- s15, mishaps <- s16,
  Callers <- {1}, OperationIds <- Pick({1}, {}), MaxTerms <- 1, MaxChallenge <- 1,
  MaxOpened <- 1, MaxRevision <- 2, MaxUnread <- 1, sessionTerm <- s1, termCache <- s2,
  termReading <- s3, challenges <- s4, openChallenges <- s5, posts <- s6,
  openSessions <- s7, requests <- s8, answers <- s9, took <- s10, documentRev <- s11,
  subscribed <- s12, visiting <- s13, unread <- s14,
  MaxNumber <- 3, MaxBlock <- 3, MaxLife <- 1, MaxLost <- 1, Window <- 2,
  engineNode <- s1, subscription <- s2, cached <- s3, fullRead <- s4, lost <- s5,
  MaxTabKey <- 1, MaxDelegation <- Pick(2, 1), MaxSigned <- Pick(2, 1),
  MayRekey <- ~Small, duel <- s1, arena <- s2, flying <- s3, signedOnes <- s4,
  uncertain <- s5, settledOnes <- s6, tabKey <- s7, consentRow <- s8, pageState <- s9,
  compact <- s10, sending <- s11, booting <- s12,
  HubAccounts <- Pick({1, 2}, {1}), HubRooms <- 2, HubDuels <- Pick(2, 1),
  HubClicks <- Pick(3, 1), HubFaults <- Pick(0, 1), lobbySeats <- s1,
  openedSoFar <- s2, hubPage <- s3, handlers <- s4, loading <- s5, usedUp <- s6,
  chosenOnes <- s7, readyOnes <- s8

\* The sum's lobby is the one that was proved.
LEMMA SameLobby ==
  /\ Lobby!Init <=> Tables!Init
  /\ Lobby!Next <=> Tables!Next
  /\ Lobby!TicketsOutlived <=> Tables!TicketsOutlived
<1>1. Lobby!Init <=> Tables!Init
    BY ZenonT(30) DEF Lobby!Init, Tables!Init, Lobby!NoRoom, Tables!NoRoom,
       Lobby!NoOffer, Tables!NoOffer, Lobby!NoResult, Tables!NoResult, Lobby!NoAudit,
       Tables!NoAudit, Lobby!NoMatch, Tables!NoMatch, Lobby!Cardinality,
       Tables!Cardinality, Lobby!SetToSeqs, Tables!SetToSeqs, Lobby!ToSet, Tables!ToSet,
       Lobby!IsFiniteSet, Tables!IsFiniteSet
<1>2. ASSUME NEW p PROVE Lobby!Route(p) <=> Tables!Route(p)
    BY ZenonT(30) DEF Lobby!Route, Tables!Route, Lobby!Queue, Tables!Queue,
       Lobby!CancelQueue, Tables!CancelQueue, Lobby!Rejoin, Tables!Rejoin,
       Lobby!LeaveFreely, Tables!LeaveFreely, Lobby!Join, Tables!Join, Lobby!CreateRoom,
       Tables!CreateRoom, Lobby!InviteToRoom, Tables!InviteToRoom, Lobby!CreateDuel,
       Tables!CreateDuel, Lobby!MeetDuel, Tables!MeetDuel, Lobby!Decline,
       Tables!Decline, Lobby!Readings, Tables!Readings, Lobby!Accept, Tables!Accept,
       Lobby!Confirm, Tables!Confirm, Lobby!Back, Tables!Back, Lobby!Leave,
       Tables!Leave, Lobby!Available, Tables!Available, Lobby!Lobby, Tables!Lobby,
       Lobby!Unless, Tables!Unless, Lobby!Occupied, Tables!Occupied, Lobby!Occupant,
       Tables!Occupant, Lobby!Without, Tables!Without, Lobby!Member, Tables!Member,
       Lobby!InOffer, Tables!InOffer, Lobby!LeaveRoom, Tables!LeaveRoom,
       Lobby!OpenRooms, Tables!OpenRooms, Lobby!Pending, Tables!Pending, Lobby!Seats,
       Tables!Seats, Lobby!Blocked, Tables!Blocked, Lobby!NextRooms, Tables!NextRooms,
       Lobby!NewRoom, Tables!NewRoom, Lobby!Invite, Tables!Invite, Lobby!Verified,
       Tables!Verified, Lobby!Pair, Tables!Pair, Lobby!Answered, Tables!Answered,
       Lobby!SetAway, Tables!SetAway, Lobby!engineVars, Tables!engineVars, Lobby!Chosen,
       Tables!Chosen, Lobby!OfferOf, Tables!OfferOf, Lobby!Rooms, Tables!Rooms,
       Lobby!NoRoom, Tables!NoRoom, Lobby!Invitable, Tables!Invitable,
       Lobby!Cardinality, Tables!Cardinality, Lobby!SetToSeqs, Tables!SetToSeqs,
       Lobby!ToSet, Tables!ToSet, Lobby!IsFiniteSet, Tables!IsFiniteSet
<1>3. Lobby!Commit <=> Tables!Commit
    <2>1. Lobby!Watched = Tables!Watched
        BY ZenonT(30) DEF Lobby!Watched, Tables!Watched, Lobby!Rooms, Tables!Rooms,
           Lobby!Cardinality, Tables!Cardinality, Lobby!SetToSeqs, Tables!SetToSeqs,
           Lobby!ToSet, Tables!ToSet, Lobby!IsFiniteSet, Tables!IsFiniteSet
    <2>2. Lobby!Quiet = Tables!Quiet
        BY ZenonT(30) DEF Lobby!Quiet, Tables!Quiet, Lobby!OpenRooms, Tables!OpenRooms,
           Lobby!Over, Tables!Over, Lobby!Cardinality, Tables!Cardinality, Lobby!SetToSeqs,
           Tables!SetToSeqs, Lobby!ToSet, Tables!ToSet, Lobby!IsFiniteSet,
           Tables!IsFiniteSet
    <2>3. ASSUME NEW line, NEW who PROVE Lobby!Unless(line, who) = Tables!Unless(line, who)
        BY ZenonT(30) DEF Lobby!Unless, Tables!Unless, Lobby!Chosen, Tables!Chosen,
           Lobby!Cardinality, Tables!Cardinality, Lobby!SetToSeqs, Tables!SetToSeqs,
           Lobby!ToSet, Tables!ToSet, Lobby!IsFiniteSet, Tables!IsFiniteSet
    <2>4. ASSUME NEW seen PROVE Lobby!Snapshots(seen) = Tables!Snapshots(seen)
        BY ZenonT(30) DEF Lobby!Snapshots, Tables!Snapshots, Lobby!Readings,
           Tables!Readings, Lobby!Cardinality, Tables!Cardinality, Lobby!SetToSeqs,
           Tables!SetToSeqs, Lobby!ToSet, Tables!ToSet, Lobby!IsFiniteSet,
           Tables!IsFiniteSet
    <2>5. ASSUME NEW line PROVE Lobby!Matchings(line) = Tables!Matchings(line)
        BY ZenonT(30) DEF Lobby!Matchings, Tables!Matchings, Lobby!NextRooms,
           Tables!NextRooms, Lobby!Blocked, Tables!Blocked, Lobby!Rooms, Tables!Rooms,
           Lobby!Cardinality, Tables!Cardinality, Lobby!SetToSeqs, Tables!SetToSeqs,
           Lobby!ToSet, Tables!ToSet, Lobby!IsFiniteSet, Tables!IsFiniteSet
    <2>6. ASSUME NEW snap, NEW made, NEW waiting, NEW eligible, NEW closed
          PROVE  Lobby!MaintenanceCycle(snap, made, waiting, eligible, closed)
                   <=> Tables!MaintenanceCycle(snap, made, waiting, eligible, closed)
        <3>1. ASSUME NEW seen, NEW pairs, NEW quiet
              PROVE  Lobby!Swept(seen, pairs, quiet)
                       = Tables!Swept(seen, pairs, quiet)
            BY ZenonT(30) DEF Lobby!Swept, Tables!Swept, Lobby!NewRoom, Tables!NewRoom,
               Lobby!Member, Tables!Member, Lobby!ObservedRoom, Tables!ObservedRoom,
               Lobby!NoRoom, Tables!NoRoom, Lobby!Ended, Tables!Ended, Lobby!RotateMembers,
               Tables!RotateMembers, Lobby!SetAway, Tables!SetAway, Lobby!Pair, Tables!Pair,
               Lobby!Unstarted, Tables!Unstarted, Lobby!Over, Tables!Over, Lobby!Without,
               Tables!Without, Lobby!Of, Tables!Of, Lobby!Chosen, Tables!Chosen,
               Lobby!Cardinality, Tables!Cardinality, Lobby!SetToSeqs, Tables!SetToSeqs,
               Lobby!ToSet, Tables!ToSet, Lobby!IsFiniteSet, Tables!IsFiniteSet
        <3>2. ASSUME NEW swept, NEW seen, NEW known, NEW awake
              PROVE  Lobby!Signed(swept, seen, known, awake)
                       = Tables!Signed(swept, seen, known, awake)
            BY ZenonT(60) DEF Lobby!Signed, Tables!Signed, Lobby!Over, Tables!Over,
               Lobby!MayOffer, Tables!MayOffer, Lobby!NextPair, Tables!NextPair, Lobby!Chosen,
               Tables!Chosen, Lobby!Of, Tables!Of, Lobby!Without, Tables!Without,
               Lobby!Cardinality, Tables!Cardinality, Lobby!SetToSeqs, Tables!SetToSeqs,
               Lobby!ToSet, Tables!ToSet, Lobby!IsFiniteSet, Tables!IsFiniteSet
        <3>3. ASSUME NEW swept, NEW seen, NEW signed, NEW s, NEW m, NEW w, NEW e
              PROVE  Lobby!CycleSaves(swept, seen, signed, s, m, w, e)
                       <=> Tables!CycleSaves(swept, seen, signed, s, m, w, e)
            BY ZenonT(30) DEF Lobby!CycleSaves, Tables!CycleSaves, Lobby!Spent, Tables!Spent,
               Lobby!NextPair, Tables!NextPair, Lobby!NoOffer, Tables!NoOffer, Lobby!Unless,
               Tables!Unless, Lobby!NoMatch, Tables!NoMatch, Lobby!NoResult, Tables!NoResult,
               Lobby!Live, Tables!Live, Lobby!Chosen, Tables!Chosen, Lobby!Of, Tables!Of,
               Lobby!Without, Tables!Without, Lobby!Cardinality, Tables!Cardinality,
               Lobby!SetToSeqs, Tables!SetToSeqs, Lobby!ToSet, Tables!ToSet, Lobby!IsFiniteSet,
               Tables!IsFiniteSet
        <3> QED BY <3>1, <3>2, <3>3, Zenon DEF Lobby!ObservedOffer, Tables!ObservedOffer, Lobby!Rooms,
               Tables!Rooms, Lobby!Pair, Tables!Pair, Lobby!Ended, Tables!Ended,
               Lobby!Unstarted, Tables!Unstarted, Lobby!Over, Tables!Over,
               Lobby!MaintenanceCycle, Tables!MaintenanceCycle
    <2> QED BY <2>1, <2>2, <2>3, <2>4, <2>5, <2>6
            DEF Lobby!Commit, Tables!Commit, Lobby!ToSet, Tables!ToSet, Lobby!Cardinality, Tables!Cardinality
<1>4. Lobby!RestoreContestedMatch <=> Tables!RestoreContestedMatch
    BY ZenonT(30) DEF Lobby!RestoreContestedMatch, Tables!RestoreContestedMatch,
       Lobby!Pair, Tables!Pair, Lobby!NoAudit, Tables!NoAudit, Lobby!NoResult,
       Tables!NoResult, Lobby!Seats, Tables!Seats, Lobby!Restored, Tables!Restored,
       Lobby!Rooms, Tables!Rooms, Lobby!Without, Tables!Without, Lobby!Unless,
       Tables!Unless, Lobby!engineVars, Tables!engineVars, Lobby!Member, Tables!Member,
       Lobby!Chosen, Tables!Chosen, Lobby!Cardinality, Tables!Cardinality,
       Lobby!SetToSeqs, Tables!SetToSeqs, Lobby!ToSet, Tables!ToSet, Lobby!IsFiniteSet,
       Tables!IsFiniteSet
<1>5. ASSUME NEW t PROVE Lobby!RecordResult(t) <=> Tables!RecordResult(t)
    BY ZenonT(30) DEF Lobby!RecordResult, Tables!RecordResult, Lobby!docVars,
       Tables!docVars, Lobby!engineVars, Tables!engineVars, Lobby!Cardinality,
       Tables!Cardinality, Lobby!SetToSeqs, Tables!SetToSeqs, Lobby!ToSet, Tables!ToSet,
       Lobby!IsFiniteSet, Tables!IsFiniteSet
<1>6. ASSUME NEW t PROVE Lobby!Contest(t) <=> Tables!Contest(t)
    BY ZenonT(30) DEF Lobby!Contest, Tables!Contest, Lobby!NoAudit, Tables!NoAudit,
       Lobby!docVars, Tables!docVars, Lobby!engineVars, Tables!engineVars,
       Lobby!Cardinality, Tables!Cardinality, Lobby!SetToSeqs, Tables!SetToSeqs,
       Lobby!ToSet, Tables!ToSet, Lobby!IsFiniteSet, Tables!IsFiniteSet
<1>7. Lobby!Game <=> Tables!Game
    BY ZenonT(30) DEF Lobby!Game, Tables!Game, Lobby!AcceptMatch, Tables!AcceptMatch,
       Lobby!CancelMatch, Tables!CancelMatch, Lobby!Pair, Tables!Pair,
       Lobby!FinishMatch, Tables!FinishMatch, Lobby!Rollback, Tables!Rollback,
       Lobby!Live, Tables!Live, Lobby!Engine, Tables!Engine, Lobby!NoMatch,
       Tables!NoMatch, Lobby!docVars, Tables!docVars, Lobby!Cardinality,
       Tables!Cardinality, Lobby!SetToSeqs, Tables!SetToSeqs, Lobby!ToSet, Tables!ToSet,
       Lobby!IsFiniteSet, Tables!IsFiniteSet
<1>8. Lobby!Time <=> Tables!Time
    BY ZenonT(30) DEF Lobby!Time, Tables!Time, Lobby!GrowOlder, Tables!GrowOlder,
       Lobby!InvitationExpires, Tables!InvitationExpires, Lobby!docVars, Tables!docVars,
       Lobby!engineVars, Tables!engineVars, Lobby!Lobby, Tables!Lobby,
       Lobby!Cardinality, Tables!Cardinality, Lobby!SetToSeqs, Tables!SetToSeqs,
       Lobby!ToSet, Tables!ToSet, Lobby!IsFiniteSet, Tables!IsFiniteSet
<1>9. Lobby!Next <=> Tables!Next
    BY <1>2, <1>3, <1>4, <1>5, <1>6, <1>7, <1>8
       DEF Lobby!Next, Tables!Next, Lobby!Maintenance, Tables!Maintenance
<1>10. Lobby!TicketsOutlived <=> Tables!TicketsOutlived
    BY ZenonT(30) DEF Lobby!TicketsOutlived, Tables!TicketsOutlived, Lobby!Cardinality,
       Tables!Cardinality, Lobby!SetToSeqs, Tables!SetToSeqs, Lobby!ToSet, Tables!ToSet,
       Lobby!IsFiniteSet, Tables!IsFiniteSet
<1> QED BY <1>1, <1>9, <1>10

\* So are the lobby's seats and what it watches.
LEMMA SameSeats ==
  /\ Lobby!OneSeat <=> Tables!OneSeat
  /\ Lobby!PlayIsWatched <=> Tables!PlayIsWatched
<1>1. Lobby!OneSeat <=> Tables!OneSeat
    BY ZenonT(30) DEF Lobby!OneSeat, Tables!OneSeat, Lobby!OpenRooms, Tables!OpenRooms,
       Lobby!Cardinality, Tables!Cardinality
<1>2. Lobby!PlayIsWatched <=> Tables!PlayIsWatched
    BY ZenonT(30) DEF Lobby!PlayIsWatched, Tables!PlayIsWatched, Lobby!Watched,
       Tables!Watched, Lobby!Rooms, Tables!Rooms, Lobby!Cardinality, Tables!Cardinality
<1> QED BY <1>1, <1>2

\* The sum's engine lifecycle is the one that was proved.
LEMMA SameEngine ==
  /\ Engine!Init <=> Tables!Hosted!Init
  /\ Engine!Next <=> Tables!Hosted!Next
  /\ Engine!NonceOwnedOnce <=> Tables!Hosted!NonceOwnedOnce
  /\ Engine!CreatedOnce <=> Tables!Hosted!CreatedOnce
  /\ Engine!ClosedClean <=> Tables!Hosted!ClosedClean
  /\ Engine!EpochEnds <=> Tables!Hosted!EpochEnds
<1>1. Engine!Init <=> Tables!Hosted!Init
    BY DEF Engine!Init, Tables!Hosted!Init, Engine!NoOp, Tables!Hosted!NoOp,
       Engine!Fresh, Tables!Hosted!Fresh, Engine!Kinds, Tables!Hosted!Kinds,
       Engine!NoTx, Tables!Hosted!NoTx
<1>2. Engine!Next <=> Tables!Hosted!Next
    BY DEF Engine!Next, Tables!Hosted!Next, Engine!Writer, Tables!Hosted!Writer,
       Engine!Lifecycle, Tables!Hosted!Lifecycle, Engine!World, Tables!Hosted!World,
       Engine!Observe, Tables!Hosted!Observe, Engine!StartResend,
       Tables!Hosted!StartResend, Engine!JournalJob, Tables!Hosted!JournalJob,
       Engine!SendJob, Tables!Hosted!SendJob, Engine!EndTick, Tables!Hosted!EndTick,
       Engine!ReconcileEngineJobs, Tables!Hosted!ReconcileEngineJobs, Engine!StartTick,
       Tables!Hosted!StartTick, Engine!StayPlaying, Tables!Hosted!StayPlaying,
       Engine!StartDraining, Tables!Hosted!StartDraining, Engine!FenceWriter,
       Tables!Hosted!FenceWriter, Engine!QuarantineTicks, Tables!Hosted!QuarantineTicks,
       Engine!CloseEngine, Tables!Hosted!CloseEngine, Engine!Challenge,
       Tables!Hosted!Challenge, Engine!FinalizeResults, Tables!Hosted!FinalizeResults,
       Engine!RenewEngine, Tables!Hosted!RenewEngine, Engine!StartEngine,
       Tables!Hosted!StartEngine, Engine!Kinds, Tables!Hosted!Kinds, Engine!SettleTx,
       Tables!Hosted!SettleTx, Engine!CreateSession, Tables!Hosted!CreateSession,
       Engine!LookupSession, Tables!Hosted!LookupSession, Engine!Publish,
       Tables!Hosted!Publish, Engine!NodeLoads, Tables!Hosted!NodeLoads, Engine!Due,
       Tables!Hosted!Due, Engine!Unlock, Tables!Hosted!Unlock, Engine!WaitMinute,
       Tables!Hosted!WaitMinute, Engine!Crash, Tables!Hosted!Crash, Engine!SignTicket,
       Tables!Hosted!SignTicket, Engine!TicketExpires, Tables!Hosted!TicketExpires,
       Engine!Redeem, Tables!Hosted!Redeem, Engine!MatchEnds, Tables!Hosted!MatchEnds,
       Engine!Execute, Tables!Hosted!Execute, Engine!Mine, Tables!Hosted!Mine,
       Engine!Observed, Tables!Hosted!Observed, Engine!writerVars,
       Tables!Hosted!writerVars, Engine!lifeVars, Tables!Hosted!lifeVars,
       Engine!PendingJobs, Tables!Hosted!PendingJobs, Engine!NoOp, Tables!Hosted!NoOp,
       Engine!Receipt, Tables!Hosted!Receipt, Engine!Outcome, Tables!Hosted!Outcome,
       Engine!Reconciled, Tables!Hosted!Reconciled, Engine!Cycle, Tables!Hosted!Cycle,
       Engine!Ready, Tables!Hosted!Ready, Engine!Life, Tables!Hosted!Life, Engine!Enter,
       Tables!Hosted!Enter, Engine!Kept, Tables!Hosted!Kept, Engine!Drained,
       Tables!Hosted!Drained, Engine!Terminal, Tables!Hosted!Terminal, Engine!Submit,
       Tables!Hosted!Submit, Engine!Obsolete, Tables!Hosted!Obsolete, Engine!NoTx,
       Tables!Hosted!NoTx, Engine!Synced, Tables!Hosted!Synced, Engine!Requesting,
       Tables!Hosted!Requesting, Engine!Fresh, Tables!Hosted!Fresh, Engine!Pending,
       Tables!Hosted!Pending, Engine!NoTxPending, Tables!Hosted!NoTxPending
<1>3. Engine!NonceOwnedOnce <=> Tables!Hosted!NonceOwnedOnce
    BY DEF Engine!NonceOwnedOnce, Tables!Hosted!NonceOwnedOnce
<1>4. Engine!CreatedOnce <=> Tables!Hosted!CreatedOnce
    BY DEF Engine!CreatedOnce, Tables!Hosted!CreatedOnce
<1>5. Engine!ClosedClean <=> Tables!Hosted!ClosedClean
    BY DEF Engine!ClosedClean, Tables!Hosted!ClosedClean
<1>6. Engine!EpochEnds <=> Tables!Hosted!EpochEnds
    BY DEF Engine!EpochEnds, Tables!Hosted!EpochEnds
<1> QED BY <1>1, <1>2, <1>3, <1>4, <1>5, <1>6

\* The sum's replay cache is the one that was proved.
LEMMA SameReplay ==
  /\ Replay!Init <=> Tables!Cache!Init
  /\ Replay!Next <=> Tables!Cache!Next
  /\ Replay!RetiredStaysEmpty <=> Tables!Cache!RetiredStaysEmpty
<1>1. Replay!Init <=> Tables!Cache!Init
    BY DEF Replay!Init, Tables!Cache!Init, Replay!Nothing, Tables!Cache!Nothing
<1>2. Replay!Next <=> Tables!Cache!Next
    BY DEF Replay!Next, Tables!Cache!Next, Replay!Play, Tables!Cache!Play,
       Replay!Rollback, Tables!Cache!Rollback, Replay!Publish, Tables!Cache!Publish,
       Replay!Index, Tables!Cache!Index, Replay!RecordMatch, Tables!Cache!RecordMatch,
       Replay!RecordFails, Tables!Cache!RecordFails, Replay!Record, Tables!Cache!Record,
       Replay!EpochRead, Tables!Cache!EpochRead, Replay!EpochFails,
       Tables!Cache!EpochFails, Replay!FlushTakes, Tables!Cache!FlushTakes,
       Replay!FlushCommits, Tables!Cache!FlushCommits, Replay!FlushFails,
       Tables!Cache!FlushFails, Replay!RetainReads, Tables!Cache!RetainReads,
       Replay!RetainApplies, Tables!Cache!RetainApplies, Replay!RetainFails,
       Tables!Cache!RetainFails, Replay!PublishArchive, Tables!Cache!PublishArchive,
       Replay!Restart, Tables!Cache!Restart, Replay!cacheVars, Tables!Cache!cacheVars,
       Replay!archiveVars, Tables!Cache!archiveVars, Replay!streamVars,
       Tables!Cache!streamVars, Replay!Fault, Tables!Cache!Fault, Replay!Nothing,
       Tables!Cache!Nothing, Replay!Storable, Tables!Cache!Storable, Replay!WithFrame,
       Tables!Cache!WithFrame, Replay!Trimmed, Tables!Cache!Trimmed, Replay!Unarchived,
       Tables!Cache!Unarchived
<1>3. Replay!RetiredStaysEmpty <=> Tables!Cache!RetiredStaysEmpty
    BY DEF Replay!RetiredStaysEmpty, Tables!Cache!RetiredStaysEmpty
<1> QED BY <1>1, <1>2, <1>3

\* The sum's sessions are the ones that were proved.
LEMMA SameLogin ==
  /\ Login!Init <=> Tables!Login!Init
  /\ Login!Next <=> Tables!Login!Next
  /\ Login!OperationOnce <=> Tables!Login!OperationOnce
  /\ Login!ChallengeOnce <=> Tables!Login!ChallengeOnce
<1>1. Login!Init <=> Tables!Login!Init
    BY DEF Login!Init, Tables!Login!Init, Login!NoCache, Tables!Login!NoCache,
       Login!None, Tables!Login!None
<1>2. Login!Next <=> Tables!Login!Next
    BY DEF Login!Next, Tables!Login!Next, Login!Challenge, Tables!Login!Challenge,
       Login!Revoke, Tables!Login!Revoke, Login!Age, Tables!Login!Age,
       Login!StartReading, Tables!Login!StartReading, Login!EndReading,
       Tables!Login!EndReading, Login!ReadingFails, Tables!Login!ReadingFails,
       Login!ChallengeExpires, Tables!Login!ChallengeExpires, Login!LoginVerified,
       Tables!Login!LoginVerified, Login!LoginEnds, Tables!Login!LoginEnds,
       Login!SessionEnds, Tables!Login!SessionEnds, Login!Subscribe,
       Tables!Login!Subscribe, Login!Request, Tables!Login!Request, Login!Transact,
       Tables!Login!Transact, Login!StartNotify, Tables!Login!StartNotify, Login!Visit,
       Tables!Login!Visit, Login!VisitUnavailable, Tables!Login!VisitUnavailable,
       Login!authVars, Tables!Login!authVars, Login!opVars, Tables!Login!opVars,
       Login!loginVars, Tables!Login!loginVars, Login!MustRead, Tables!Login!MustRead,
       Login!None, Tables!Login!None, Login!Asking, Tables!Login!Asking, Login!Used,
       Tables!Login!Used, Login!Authentic, Tables!Login!Authentic, Login!Known,
       Tables!Login!Known, Login!Rejected, Tables!Login!Rejected, Login!Cardinality,
       Tables!Login!Cardinality
<1>3. Login!OperationOnce <=> Tables!Login!OperationOnce
    BY DEF Login!OperationOnce, Tables!Login!OperationOnce, Login!None,
       Tables!Login!None
<1>4. Login!ChallengeOnce <=> Tables!Login!ChallengeOnce
    BY DEF Login!ChallengeOnce, Tables!Login!ChallengeOnce
<1> QED BY <1>1, <1>2, <1>3, <1>4

\* The sum's snapshot cache is the one that was proved.
LEMMA SameFeed ==
  /\ Feed!Init <=> Tables!Feed!Init
  /\ Feed!Next <=> Tables!Feed!Next
  /\ Feed!RealReset <=> Tables!Feed!RealReset
<1>1. Feed!Init <=> Tables!Feed!Init
    BY DEF Feed!Init, Tables!Feed!Init, Feed!NoStream, Tables!Feed!NoStream,
       Feed!NoValue, Tables!Feed!NoValue, Feed!NoRead, Tables!Feed!NoRead
<1>2. Feed!Next <=> Tables!Feed!Next
    BY DEF Feed!Next, Tables!Feed!Next, Feed!Apply, Tables!Feed!Apply, Feed!Tick,
       Tables!Feed!Tick, Feed!Restart, Tables!Feed!Restart, Feed!Connect,
       Tables!Feed!Connect, Feed!Drop, Tables!Feed!Drop, Feed!FindClosed,
       Tables!Feed!FindClosed, Feed!Deliver, Tables!Feed!Deliver,
       Feed!DeliverUnreadable, Tables!Feed!DeliverUnreadable, Feed!Receipt,
       Tables!Feed!Receipt, Feed!ReadStarts, Tables!Feed!ReadStarts, Feed!ReadServed,
       Tables!Feed!ReadServed, Feed!ReadFails, Tables!Feed!ReadFails,
       Feed!ReadDelivered, Tables!Feed!ReadDelivered, Feed!VerifyDelivered,
       Tables!Feed!VerifyDelivered, Feed!Rev, Tables!Feed!Rev, Feed!NoStream,
       Tables!Feed!NoStream, Feed!Invalidated, Tables!Feed!Invalidated, Feed!Closed,
       Tables!Feed!Closed, Feed!NoValue, Tables!Feed!NoValue, Feed!Applied,
       Tables!Feed!Applied, Feed!Old, Tables!Feed!Old, Feed!Now, Tables!Feed!Now,
       Feed!NoRead, Tables!Feed!NoRead, Feed!SameTime, Tables!Feed!SameTime,
       Feed!MustVerify, Tables!Feed!MustVerify, Feed!Behind, Tables!Feed!Behind,
       Feed!Published, Tables!Feed!Published, Feed!Fits, Tables!Feed!Fits, Feed!Last,
       Tables!Feed!Last, Feed!Ahead, Tables!Feed!Ahead, Feed!Admitted,
       Tables!Feed!Admitted
<1>3. Feed!RealReset <=> Tables!Feed!RealReset
    BY DEF Feed!RealReset, Tables!Feed!RealReset, Feed!Rev, Tables!Feed!Rev
<1> QED BY <1>1, <1>2, <1>3

\* The sum's tab is the one that was proved.
LEMMA SameTab ==
  /\ Client!Init <=> Tables!Tab!Init
  /\ Client!Next <=> Tables!Tab!Next
  /\ Client!NonceSignedOnce <=> Tables!Tab!NonceSignedOnce
  /\ Client!ConsentAfterIntro <=> Tables!Tab!ConsentAfterIntro
<1>1. Client!Init <=> Tables!Tab!Init
    BY DEF Client!Init, Tables!Tab!Init, Client!NewOffer, Tables!Tab!NewOffer,
       Client!Keys, Tables!Tab!Keys, Client!None, Tables!Tab!None, Client!Closed,
       Tables!Tab!Closed, Client!NoSession, Tables!Tab!NoSession, Client!Quiet,
       Tables!Tab!Quiet, Client!Still, Tables!Tab!Still
<1>2. Client!Next <=> Tables!Tab!Next
    BY DEF Client!Next, Tables!Tab!Next, Client!RivalReady, Tables!Tab!RivalReady,
       Client!CountdownOver, Tables!Tab!CountdownOver, Client!OfferExpires,
       Tables!Tab!OfferExpires, Client!Execute, Tables!Tab!Execute, Client!Dropped,
       Tables!Tab!Dropped, Client!RivalAccepts, Tables!Tab!RivalAccepts,
       Client!MatchEnds, Tables!Tab!MatchEnds, Client!Renewal, Tables!Tab!Renewal,
       Client!SessionExpires, Tables!Tab!SessionExpires, Client!Mount, Tables!Tab!Mount,
       Client!Reload, Tables!Tab!Reload, Client!StartRestore, Tables!Tab!StartRestore,
       Client!StartRecover, Tables!Tab!StartRecover, Client!Login, Tables!Tab!Login,
       Client!RecoverRead, Tables!Tab!RecoverRead, Client!Resend, Tables!Tab!Resend,
       Client!ResendFails, Tables!Tab!ResendFails, Client!RestoreSession,
       Tables!Tab!RestoreSession, Client!Install, Tables!Tab!Install,
       Client!EffectCleanup, Tables!Tab!EffectCleanup, Client!Refreshed,
       Tables!Tab!Refreshed, Client!BootFails, Tables!Tab!BootFails,
       Client!LobbySessionLost, Tables!Tab!LobbySessionLost, Client!NodeRestarted,
       Tables!Tab!NodeRestarted, Client!Ready, Tables!Tab!Ready, Client!Accept,
       Tables!Tab!Accept, Client!Send, Tables!Tab!Send, Client!Bind, Tables!Tab!Bind,
       Client!Sign, Tables!Tab!Sign, Client!SignRefused, Tables!Tab!SignRefused,
       Client!Answered, Tables!Tab!Answered, Client!AnswerLost, Tables!Tab!AnswerLost,
       Client!ConfirmAcceptance, Tables!Tab!ConfirmAcceptance, Client!Disconnect,
       Tables!Tab!Disconnect, Client!DisconnectEnds, Tables!Tab!DisconnectEnds,
       Client!Open, Tables!Tab!Open, Client!Prepared, Tables!Tab!Prepared, Client!chain,
       Tables!Tab!chain, Client!saved, Tables!Tab!saved, Client!page, Tables!Tab!page,
       Client!Executable, Tables!Tab!Executable, Client!Executed, Tables!Tab!Executed,
       Client!server, Tables!Tab!server, Client!LaunchReady, Tables!Tab!LaunchReady,
       Client!Quiet, Tables!Tab!Quiet, Client!Keys, Tables!Tab!Keys, Client!NewOffer,
       Tables!Tab!NewOffer, Client!Closed, Tables!Tab!Closed, Client!HasAccount,
       Tables!Tab!HasAccount, Client!Still, Tables!Tab!Still, Client!NoSession,
       Tables!Tab!NoSession, Client!Busy, Tables!Tab!Busy, Client!Retired,
       Tables!Tab!Retired, Client!Receipt, Tables!Tab!Receipt, Client!None,
       Tables!Tab!None, Client!MayResend, Tables!Tab!MayResend, Client!Installed,
       Tables!Tab!Installed, Client!CanSend, Tables!Tab!CanSend, Client!Sides,
       Tables!Tab!Sides, Client!Agreed, Tables!Tab!Agreed, Client!Refused,
       Tables!Tab!Refused, Client!Begin, Tables!Tab!Begin, Client!Command1,
       Tables!Tab!Command1, Client!Fails, Tables!Tab!Fails, Client!Blocking,
       Tables!Tab!Blocking, Client!MayJournal, Tables!Tab!MayJournal, Client!Signed,
       Tables!Tab!Signed, Client!Discarded, Tables!Tab!Discarded, Client!Permitted,
       Tables!Tab!Permitted, Client!Effect, Tables!Tab!Effect, Client!Cardinality,
       Tables!Tab!Cardinality
<1>3. Client!NonceSignedOnce <=> Tables!Tab!NonceSignedOnce
    BY DEF Client!NonceSignedOnce, Tables!Tab!NonceSignedOnce, Client!Replaced,
       Tables!Tab!Replaced
<1>4. Client!ConsentAfterIntro <=> Tables!Tab!ConsentAfterIntro
    BY DEF Client!ConsentAfterIntro, Tables!Tab!ConsentAfterIntro, Client!LaunchReady,
       Tables!Tab!LaunchReady, Client!Sides, Tables!Tab!Sides
<1> QED BY <1>1, <1>2, <1>3, <1>4

\* The sum's front desk is the one that was proved.
LEMMA SameDesk ==
  /\ Desk!Init <=> Tables!Hub!Init
  /\ Desk!Next <=> Tables!Hub!Next
  /\ Desk!ReadyByChoice <=> Tables!Hub!ReadyByChoice
  /\ Desk!ShowsOwn <=> Tables!Hub!ShowsOwn
<1>1. Desk!Init <=> Tables!Hub!Init
    BY DEF Desk!Init, Tables!Hub!Init, Desk!Home, Tables!Hub!Home, Desk!Nothing,
       Tables!Hub!Nothing, Desk!NoFetch, Tables!Hub!NoFetch
<1>2. Desk!Next <=> Tables!Hub!Next
    BY DEF Desk!Next, Tables!Hub!Next, Desk!FetchRead, Tables!Hub!FetchRead,
       Desk!FetchAnswer, Tables!Hub!FetchAnswer, Desk!FetchFails, Tables!Hub!FetchFails,
       Desk!Poll, Tables!Hub!Poll, Desk!Observe, Tables!Hub!Observe, Desk!Click,
       Tables!Hub!Click, Desk!OpenPanel, Tables!Hub!OpenPanel, Desk!ClosePanel,
       Tables!Hub!ClosePanel, Desk!Market, Tables!Hub!Market, Desk!LoggedIn,
       Tables!Hub!LoggedIn, Desk!LoginFails, Tables!Hub!LoginFails, Desk!CleanUp,
       Tables!Hub!CleanUp, Desk!RunIntent, Tables!Hub!RunIntent, Desk!Expire,
       Tables!Hub!Expire, Desk!Restore, Tables!Hub!Restore, Desk!Command,
       Tables!Hub!Command, Desk!CommandFails, Tables!Hub!CommandFails, Desk!Again,
       Tables!Hub!Again, Desk!PageOnly, Tables!Hub!PageOnly, Desk!AutoAccept,
       Tables!Hub!AutoAccept, Desk!LobbyMoves, Tables!Hub!LobbyMoves, Desk!NoFetch,
       Tables!Hub!NoFetch, Desk!Onward, Tables!Hub!Onward, Desk!Belongs,
       Tables!Hub!Belongs, Desk!v, Tables!Hub!v, Desk!Ended, Tables!Hub!Ended,
       Desk!Waiting, Tables!Hub!Waiting, Desk!Nothing, Tables!Hub!Nothing, Desk!MayPoll,
       Tables!Hub!MayPoll, Desk!Refresh, Tables!Hub!Refresh, Desk!Controls,
       Tables!Hub!Controls, Desk!Run, Tables!Hub!Run, Desk!Ensure, Tables!Hub!Ensure,
       Desk!Screen, Tables!Hub!Screen, Desk!Cancelled, Tables!Hub!Cancelled,
       Desk!Handler, Tables!Hub!Handler, Desk!Local, Tables!Hub!Local, Desk!Accepts,
       Tables!Hub!Accepts, Desk!Apply, Tables!Hub!Apply, Desk!AutoAfter,
       Tables!Hub!AutoAfter, Desk!PageHandlers, Tables!Hub!PageHandlers, Desk!Home,
       Tables!Hub!Home, Desk!Resumed, Tables!Hub!Resumed, Desk!Longer,
       Tables!Hub!Longer, Desk!InboxControls, Tables!Hub!InboxControls,
       Desk!HomeControls, Tables!Hub!HomeControls, Desk!DuelControls,
       Tables!Hub!DuelControls, Desk!RoomControls, Tables!Hub!RoomControls,
       Desk!SessionControls, Tables!Hub!SessionControls, Desk!ContactControls,
       Tables!Hub!ContactControls, Desk!MemberControls, Tables!Hub!MemberControls,
       Desk!Free, Tables!Hub!Free, Desk!Seated, Tables!Hub!Seated, Desk!Control,
       Tables!Hub!Control, Desk!Stage, Tables!Hub!Stage, Desk!InRoom, Tables!Hub!InRoom,
       Desk!Vacant, Tables!Hub!Vacant, Desk!Cardinality, Tables!Hub!Cardinality
<1>3. Desk!ReadyByChoice <=> Tables!Hub!ReadyByChoice
    BY DEF Desk!ReadyByChoice, Tables!Hub!ReadyByChoice, Desk!Unasked,
       Tables!Hub!Unasked, Desk!Cardinality, Tables!Hub!Cardinality
<1>4. Desk!ShowsOwn <=> Tables!Hub!ShowsOwn
    BY DEF Desk!ShowsOwn, Tables!Hub!ShowsOwn
<1> QED BY <1>1, <1>2, <1>3, <1>4

-----------------------------------------------------------------------------

\* The lobby's constants are as its proofs assume, when no player has the name of
\* nobody.
LEMMA LobbyPlayers == Tables!LobbyConstants
<1>1. IsFiniteSet({p1, p2})
    <2>1. IsFiniteSet({p1} \cup {p2})
        BY FS_Singleton, FS_AddElement
    <2> QED BY <2>1
<1>2. Tables!IsFiniteSet({p1, p2})
    BY <1>1 DEF IsFiniteSet, Tables!IsFiniteSet
<1> QED BY <1>2, PlayersHaveNames DEF Tables!LobbyConstants

\* A step of the sum is a step of the lobby, or none of it.
LEMMA LobbyPart ==
  /\ Init /\ part = "lobby" => Tables!Init
  /\ [Next]_vars /\ part' = "lobby" => part = "lobby" /\ [Tables!Next]_(Tables!vars)
<1>1. Init /\ part = "lobby" => Tables!Init
    BY SameLobby DEF Init, Is
<1>2. Next /\ part' = "lobby" => part = "lobby" /\ Tables!Next
    BY SameLobby DEF Next, On
<1>3. UNCHANGED vars /\ part' = "lobby" => part = "lobby" /\ UNCHANGED Tables!vars
    BY DEF vars, Tables!vars, Tables!docVars, Tables!engineVars
<1> QED BY <1>1, <1>2, <1>3

\* A room's ticket is replaced only when it can no longer be redeemed and no match
\* of it is played, although it was given up on an older reading of the engine.
THEOREM TicketsKeptInRooms == Spec => TicketsKept
<1> DEFINE Inv == part = "lobby" => Tables!SeatInv /\ Tables!Watching
           Outlived == [part = "lobby" => Lobby!TicketsOutlived]_vars
<1> USE LobbyPlayers
<1>1. Init => Inv
    BY LobbyPart, Tables!InitSeats, Tables!InitWatching
<1>2. Inv /\ [Next]_vars => Inv'
    BY LobbyPart, Tables!StepKeepsSeats, Tables!StepKeepsWatching
<1>3. Inv /\ [Next]_vars => Outlived
    <2> SUFFICES ASSUME Inv, [Next]_vars, part = "lobby", ~UNCHANGED vars PROVE Lobby!TicketsOutlived
        OBVIOUS
    <2>1. part' = "lobby"
        BY DEF Next, On
    <2>2. [Tables!Next]_(Tables!vars)
        BY <2>1, LobbyPart
    <2> QED BY <2>2, SameLobby, Tables!StepOutlives
<1> HIDE DEF Inv
<1> QED BY <1>1, <1>2, <1>3, PTL DEF Spec, TicketsKept

-----------------------------------------------------------------------------
\* A step of the sum is a step of the engine's lifecycle, or none of it.
LEMMA EnginePart ==
  /\ Init /\ part = "engine" => Tables!Hosted!Init
  /\ [Next]_vars /\ part' = "engine" =>
       part = "engine" /\ [Tables!Hosted!Next]_(Tables!Hosted!vars)
<1>1. Init /\ part = "engine" => Tables!Hosted!Init
    BY SameEngine DEF Init, Is
<1>2. Next /\ part' = "engine" => part = "engine" /\ Tables!Hosted!Next
    BY SameEngine DEF Next, On
<1>3. UNCHANGED vars /\ part' = "engine" => part = "engine" /\ UNCHANGED Tables!Hosted!vars
    BY DEF vars, Tables!Hosted!vars, Tables!Hosted!writerVars, Tables!Hosted!lifeVars
<1> QED BY <1>1, <1>2, <1>3

\* A step of the sum is a step of the replay cache, or none of it.
LEMMA ReplayPart ==
  /\ Init /\ part = "replay" => Tables!Cache!Init
  /\ [Next]_vars /\ part' = "replay" =>
       part = "replay" /\ [Tables!Cache!Next]_(Tables!Cache!vars)
<1>1. Init /\ part = "replay" => Tables!Cache!Init
    BY SameReplay DEF Init, Is
<1>2. Next /\ part' = "replay" => part = "replay" /\ Tables!Cache!Next
    BY SameReplay DEF Next, On
<1>3. UNCHANGED vars /\ part' = "replay" => part = "replay" /\ UNCHANGED Tables!Cache!vars
    BY DEF vars, Tables!Cache!vars, Tables!Cache!cacheVars, Tables!Cache!streamVars, Tables!Cache!archiveVars
<1> QED BY <1>1, <1>2, <1>3

\* A step of the sum is a step of the rooms' sessions, or none of it.
LEMMA LoginPart ==
  /\ Init /\ part = "login" => Tables!Login!Init
  /\ [Next]_vars /\ part' = "login" =>
       part = "login" /\ [Tables!Login!Next]_(Tables!Login!vars)
<1>1. Init /\ part = "login" => Tables!Login!Init
    BY SameLogin DEF Init, Is
<1>2. Next /\ part' = "login" => part = "login" /\ Tables!Login!Next
    BY SameLogin DEF Next, On
<1>3. UNCHANGED vars /\ part' = "login" => part = "login" /\ UNCHANGED Tables!Login!vars
    BY DEF vars, Tables!Login!vars, Tables!Login!authVars, Tables!Login!loginVars, Tables!Login!opVars
<1> QED BY <1>1, <1>2, <1>3

\* A step of the sum is a step of the snapshot cache, or none of it.
LEMMA FeedPart ==
  /\ Init /\ part = "feed" => Tables!Feed!Init
  /\ [Next]_vars /\ part' = "feed" =>
       part = "feed" /\ [Tables!Feed!Next]_(Tables!Feed!vars)
<1>1. Init /\ part = "feed" => Tables!Feed!Init
    BY SameFeed DEF Init, Is
<1>2. Next /\ part' = "feed" => part = "feed" /\ Tables!Feed!Next
    BY SameFeed DEF Next, On
<1>3. UNCHANGED vars /\ part' = "feed" => part = "feed" /\ UNCHANGED Tables!Feed!vars
    BY DEF vars, Tables!Feed!vars
<1> QED BY <1>1, <1>2, <1>3

\* A step of the sum is a step of a player's tab, or none of it.
LEMMA TabPart ==
  /\ Init /\ part = "client" => Tables!Tab!Init
  /\ [Next]_vars /\ part' = "client" =>
       part = "client" /\ [Tables!Tab!Next]_(Tables!Tab!vars)
<1>1. Init /\ part = "client" => Tables!Tab!Init
    BY SameTab DEF Init, Is
<1>2. Next /\ part' = "client" => part = "client" /\ Tables!Tab!Next
    BY SameTab DEF Next, On
<1>3. UNCHANGED vars /\ part' = "client" => part = "client" /\ UNCHANGED Tables!Tab!vars
    BY DEF vars, Tables!Tab!vars, Tables!Tab!server, Tables!Tab!saved, Tables!Tab!page
<1> QED BY <1>1, <1>2, <1>3

\* A request of the small instances takes effect once, whoever repeats it: a nonce of
\* the engine has one command, the host is asked for one session, a tab signs a nonce
\* once, an operation and a challenge are answered once.
THEOREM RequestsOnceInParts == Spec => []RequestsOnce
<1> DEFINE Inv == /\ part = "engine" => Tables!HostedInv
                  /\ part = "client" => Tables!ClientInv
                  /\ part = "login" => Tables!LoginInv
<1> USE LobbyPlayers
<1>1. 1 \in Nat \ {0}
    OBVIOUS
<1>2. Init => Inv
    BY <1>1, EnginePart, TabPart, LoginPart, Tables!HostedInit, Tables!ClientInit, Tables!LoginInit
<1>3. Inv /\ [Next]_vars => Inv'
    <2>1. Tables!LoginInv /\ [Tables!Login!Next]_(Tables!Login!vars) => Tables!LoginInv'
        BY Tables!AnswersKept, Tables!ChallengesSpent DEF Tables!LoginInv
    <2> QED BY <2>1, EnginePart, TabPart, LoginPart, Tables!HostedStep, Tables!ClientStep
<1>4. Inv => RequestsOnce
    BY SameEngine, SameTab, SameLogin, Tables!HostedFacts, Tables!ClientFacts, Tables!LoginFacts
       DEF RequestsOnce
<1> HIDE DEF Inv
<1> QED BY <1>2, <1>3, <1>4, PTL DEF Spec

\* The phases of the small instances come in order: nobody sits twice and what is
\* played is watched, a delegation is closed with everything published, a tab
\* consents after the introduction, a retired replay stays empty.
THEOREM PhasesInOrderInParts == Spec => []PhasesInOrder
<1> DEFINE Inv == /\ part = "lobby" => Tables!SeatInv /\ Tables!Watching
                  /\ part = "engine" => Tables!HostedInv
                  /\ part = "client" => Tables!ClientInv
                  /\ part = "replay" => Tables!Cache!RetiredStaysEmpty
<1> USE LobbyPlayers
<1>1. 1 \in Nat \ {0}
    OBVIOUS
<1>2. Init => Inv
    BY <1>1, LobbyPart, EnginePart, TabPart, ReplayPart, Tables!InitSeats, Tables!InitWatching,
       Tables!HostedInit, Tables!ClientInit, Tables!CacheInit
<1>3. Inv /\ [Next]_vars => Inv'
    BY LobbyPart, EnginePart, TabPart, ReplayPart, Tables!StepKeepsSeats,
       Tables!StepKeepsWatching, Tables!HostedStep, Tables!ClientStep, Tables!CacheStep
<1>4. Inv => PhasesInOrder
    BY SameSeats, SameEngine, SameTab, SameReplay, Tables!SeatsAreOne,
       Tables!WatchedWhilePlayed, Tables!HostedFacts, Tables!ClientFacts DEF PhasesInOrder
<1> HIDE DEF Inv
<1> QED BY <1>2, <1>3, <1>4, PTL DEF Spec

\* Listeners of the small instances are shown a reset only when the node has really
\* gone back, and an epoch ends only when its results are final.
THEOREM ResetIsRealInParts == Spec => ResetIsReal
<1> DEFINE Inv == /\ part = "feed" => Tables!FeedInv
                  /\ part = "engine" => Tables!HostedInv
           Real == [/\ part = "feed" => Feed!RealReset
                    /\ part = "engine" => Engine!EpochEnds]_vars
<1> USE LobbyPlayers
<1>1. Init => Inv
    BY FeedPart, EnginePart, Tables!FeedInit, Tables!HostedInit
<1>2. Inv /\ [Next]_vars => Inv'
    BY FeedPart, EnginePart, Tables!FeedStep, Tables!HostedStep
<1>3. Inv /\ [Next]_vars => Real
    <2> SUFFICES ASSUME Inv, [Next]_vars, ~UNCHANGED vars
                 PROVE  /\ part = "feed" => Feed!RealReset
                        /\ part = "engine" => Engine!EpochEnds
        OBVIOUS
    <2>1. part' = part
        BY DEF Next, On
    <2>2. CASE part = "feed"
        <3>1. Tables!Feed!Next
            BY <2>1, <2>2, SameFeed DEF Next, On
        <3> QED BY <2>1, <2>2, <3>1, SameFeed, Tables!FeedStep
    <2>3. CASE part = "engine"
        BY <2>1, <2>3, EnginePart, SameEngine, Tables!EpochEndsFact
    <2> QED BY <2>2, <2>3
<1> HIDE DEF Inv
<1> QED BY <1>1, <1>2, <1>3, PTL DEF Spec, ResetIsReal

\* A step of the sum is a step of the front desk, or none of it.
LEMMA DeskPart ==
  /\ Init /\ part = "desk" => Tables!Hub!Init
  /\ [Next]_vars /\ part' = "desk" =>
       part = "desk" /\ [Tables!Hub!Next]_(Tables!Hub!vars)
<1>1. Init /\ part = "desk" => Tables!Hub!Init
    BY SameDesk DEF Init, Is
<1>2. Next /\ part' = "desk" => part = "desk" /\ Tables!Hub!Next
    BY SameDesk DEF Next, On
<1>3. UNCHANGED vars /\ part' = "desk" => part = "desk" /\ UNCHANGED Tables!Hub!vars
    BY DEF vars, Tables!Hub!vars
<1> QED BY <1>1, <1>2, <1>3

\* The hub of the small instances comes to show the connected account's lobby only,
\* and makes ready by itself no more duels than invitations were accepted.
THEOREM RoomsPageIsTrueInParts == Spec => RoomsPageIsTrue
<1> DEFINE Inv == part = "desk" => Tables!DeskInv
           Ready == part = "desk" => Desk!ReadyByChoice
           Kept == [part = "desk" => Desk!ShowsOwn /\ Desk!ReadyByChoice']_vars
<1> USE LobbyPlayers
<1>1. Init => Inv
    BY DeskPart, Tables!DeskInit
<1>2. Inv /\ [Next]_vars => Inv'
    BY DeskPart, Tables!DeskStep
<1>3. Inv => Ready
    BY SameDesk, Tables!DeskFacts
<1>4. Inv /\ Ready' /\ [Next]_vars => Kept
    <2> SUFFICES ASSUME Inv, Ready', Next, part = "desk"
                 PROVE  Desk!ShowsOwn /\ Desk!ReadyByChoice'
        OBVIOUS
    <2>1. part' = part /\ Tables!Hub!Next
        BY SameDesk DEF Next, On
    <2>2. Desk!ShowsOwn
        BY <2>1, SameDesk, Tables!ShowsOwnStep
    <2> QED BY <2>1, <2>2
<1> HIDE DEF Inv, Ready
<1> QED BY <1>1, <1>2, <1>3, <1>4, PTL DEF Spec, RoomsPageIsTrue

-----------------------------------------------------------------------------
Proved == INSTANCE RelayerProofs WITH
  MaxBatch <- 2, MaxEpoch <- Pick(2, 1), MaxFail <- Pick(2, 1), MaxRestart <- 1,
  node <- s1, hub <- s2, incident <- s3, row <- s4, queries <- s5,
  cycle <- s6, svc <- s7, open <- s8, faults <- s9,
  Debts <- {1, 2}, Kind <- Pick(<<"bet", "prize">>, <<"bet", "refund">>),
  Owed <- Pick(<<TRUE, TRUE>>, <<FALSE, TRUE>>), Slots <- 1,
  MaxAttempt <- 1, MaxFailure <- 1, MaxStop <- 1, over <- s1,
  pay <- s2, accepts <- s3, cursor <- s4, indexed <- s5, task <- s6,
  jobs <- s7, tick <- s8, user <- s9, failures <- s10, crashes <- s11,
  Calls <- {"c"}, Contexts <- Pick({1, 2, 3}, {1, 2}), MaxQueue <- 2, MaxNonce <- 3,
  MaxOther <- 1, MaxHalt <- 1, rows <- s1, journal <- s2, chain <- s3, intake <- s4,
  pump <- s5, watch <- s6, halts <- s7, others <- s8,
  Callers <- {1, 2}, MaxCycle <- 2, MaxFault <- 1, MaxRevival <- 1, turn <- s1,
  work <- s2, sent <- s3, live <- s4, outcome <- s5, refusals <- s6, revivals <- s7,
  Matches <- Pick({1, 2}, {1}), Players <- {1}, Page <- 1, Attempts <- Pick(1, 2),
  Scan <- 1, Early <- TRUE, MaxDeployment <- Pick(2, 1), MaxSession <- Pick(1, 2),
  MaxSlips <- Pick(0, 1), session <- s1, match <- s2, pos <- s3, paidOut <- s4,
  log <- s5, calls <- s6, bettors <- s7, scanned <- s8, binding <- s9,
  active <- s10, asked <- s11, audit <- s12, renewing <- s13, slips <- s14,
  Workers <- Pick({1, 2}, {1}), MaxRally <- Pick(1, 2), WindowBlocks <- 2,
  ConfirmationBlocks <- 1, MaxDepth <- Pick(3, 1), MaxReorgs <- Pick(1, 2),
  MaxRollbacks <- Pick(1, 0), MaxStops <- 1, blocks <- s1, highest <- s2,
  minted <- s3, opening <- s4, engine <- s5, pub <- s6, table <- s7,
  signed <- s8, worker <- s9, troubles <- s10,
  Pairable <- Pick({"p1", "p2", "p3"}, {"p1", "p2"}), MaxPair <- Pick(2, 1),
  MaxTicket <- 1, MaxInvite <- Pick(0, 1), MaxBusy <- 2, MaxOutage <- Pick(0, 1),
  waiting <- s1, pairs <- s2, creations <- s3, invited <- s4, playing <- s5,
  games <- s6, unfinished <- s7, doing <- s8, outages <- s9

\* The sum's publication health is the one that was proved.
LEMMA SameHealth ==
  /\ Health!Init <=> Proved!Health!Init
  /\ Health!Next <=> Proved!Health!Next
  /\ Health!AdmissionIsSafe <=> Proved!Health!AdmissionIsSafe
  /\ Health!IncidentKept <=> Proved!Health!IncidentKept
<1>1. Health!Init <=> Proved!Health!Init
    BY DEF Health!Init, Proved!Health!Init, Health!None, Proved!Health!None,
       Health!Idle, Proved!Health!Idle, Health!Boot, Proved!Health!Boot
<1>2. Health!Next <=> Proved!Health!Next
    BY DEF Health!Next, Proved!Health!Next, Health!Commit, Proved!Health!Commit,
       Health!Publish, Proved!Health!Publish, Health!Renew, Proved!Health!Renew,
       Health!Fail, Proved!Health!Fail, Health!Execute, Proved!Health!Execute,
       Health!RetryDue, Proved!Health!RetryDue, Health!ReadNode, Proved!Health!ReadNode,
       Health!ReadHub, Proved!Health!ReadHub, Health!Observe, Proved!Health!Observe,
       Health!Deleted, Proved!Health!Deleted, Health!Settle, Proved!Health!Settle,
       Health!CheckFails, Proved!Health!CheckFails, Health!Restart,
       Proved!Health!Restart, Health!Opened, Proved!Health!Opened, Health!Deletes,
       Proved!Health!Deletes, Health!None, Proved!Health!None, Health!Idle,
       Proved!Health!Idle, Health!Recovered, Proved!Health!Recovered,
       Health!UnchangedSince, Proved!Health!UnchangedSince, Health!MayResend,
       Proved!Health!MayResend, Health!Boot, Proved!Health!Boot, Health!RemoveAt,
       Proved!Health!RemoveAt
<1>3. Health!AdmissionIsSafe <=> Proved!Health!AdmissionIsSafe
    BY DEF Health!AdmissionIsSafe, Proved!Health!AdmissionIsSafe, Health!Admitting,
       Proved!Health!Admitting
<1>4. Health!IncidentKept <=> Proved!Health!IncidentKept
    BY DEF Health!IncidentKept, Proved!Health!IncidentKept, Health!None,
       Proved!Health!None
<1> QED BY <1>1, <1>2, <1>3, <1>4

\* The sum's payment worker is the one that was proved.
LEMMA SamePayouts ==
  /\ Payouts!Init <=> Proved!Payouts!Init
  /\ Payouts!Next <=> Proved!Payouts!Next
  /\ Payouts!OneTransfer <=> Proved!Payouts!OneTransfer
  /\ Payouts!SettledIsTrue <=> Proved!Payouts!SettledIsTrue
<1>1. Payouts!Init <=> Proved!Payouts!Init
    BY DEF Payouts!Init, Proved!Payouts!Init, Payouts!NoTask, Proved!Payouts!NoTask,
       Payouts!Idle, Proved!Payouts!Idle
<1>2. Payouts!Next <=> Proved!Payouts!Next
    BY DEF Payouts!Next, Proved!Payouts!Next, Payouts!Ends, Proved!Payouts!Ends,
       Payouts!Index, Proved!Payouts!Index, Payouts!Unblock, Proved!Payouts!Unblock,
       Payouts!Due, Proved!Payouts!Due, Payouts!Process, Proved!Payouts!Process,
       Payouts!Retry, Proved!Payouts!Retry, Payouts!Execute, Proved!Payouts!Execute,
       Payouts!Discover, Proved!Payouts!Discover, Payouts!ProcessEnqueue,
       Proved!Payouts!ProcessEnqueue, Payouts!ProcessSave, Proved!Payouts!ProcessSave,
       Payouts!RetryEnqueue, Proved!Payouts!RetryEnqueue, Payouts!RetrySave,
       Proved!Payouts!RetrySave, Payouts!Crash, Proved!Payouts!Crash,
       Payouts!Transferred, Proved!Payouts!Transferred, Payouts!chainVars,
       Proved!Payouts!chainVars, Payouts!Idle, Proved!Payouts!Idle, Payouts!Financial,
       Proved!Payouts!Financial, Payouts!MayProcess, Proved!Payouts!MayProcess,
       Payouts!Saved, Proved!Payouts!Saved, Payouts!JobLive, Proved!Payouts!JobLive,
       Payouts!Live, Proved!Payouts!Live, Payouts!NoTask, Proved!Payouts!NoTask,
       Payouts!Enqueued, Proved!Payouts!Enqueued, Payouts!Answer, Proved!Payouts!Answer,
       Payouts!Rejected, Proved!Payouts!Rejected, Payouts!Selectable,
       Proved!Payouts!Selectable, Payouts!Reused, Proved!Payouts!Reused,
       Payouts!Simulated, Proved!Payouts!Simulated, Payouts!AttemptOf,
       Proved!Payouts!AttemptOf, Payouts!Same, Proved!Payouts!Same, Payouts!Base,
       Proved!Payouts!Base, Payouts!Failed, Proved!Payouts!Failed, Payouts!InFlight,
       Proved!Payouts!InFlight, Payouts!Cardinality, Proved!Payouts!Cardinality
<1>3. Payouts!OneTransfer <=> Proved!Payouts!OneTransfer
    BY DEF Payouts!OneTransfer, Proved!Payouts!OneTransfer, Payouts!Live,
       Proved!Payouts!Live, Payouts!Cardinality, Proved!Payouts!Cardinality
<1>4. Payouts!SettledIsTrue <=> Proved!Payouts!SettledIsTrue
    BY DEF Payouts!SettledIsTrue, Proved!Payouts!SettledIsTrue
<1> QED BY <1>1, <1>2, <1>3, <1>4

\* The sum's sponsor queue is the one that was proved.
LEMMA SameWriter ==
  /\ Writer!Init <=> Proved!Writer!Init
  /\ Writer!Next <=> Proved!Writer!Next
  /\ Writer!NonceHeldOnce <=> Proved!Writer!NonceHeldOnce
  /\ Writer!SponsoredOnce <=> Proved!Writer!SponsoredOnce
  /\ Writer!OneInFlight <=> Proved!Writer!OneInFlight
<1>1. Writer!Init <=> Proved!Writer!Init
    BY DEF Writer!Init, Proved!Writer!Init, Writer!Ids, Proved!Writer!Ids, Writer!NoRow,
       Proved!Writer!NoRow, Writer!Other, Proved!Writer!Other, Writer!NoJob,
       Proved!Writer!NoJob, Writer!Idle, Proved!Writer!Idle
<1>2. Writer!Next <=> Proved!Writer!Next
    BY DEF Writer!Next, Proved!Writer!Next, Writer!Ids, Proved!Writer!Ids,
       Writer!Enqueue, Proved!Writer!Enqueue, Writer!EnqueueBeside,
       Proved!Writer!EnqueueBeside, Writer!Dispatch, Proved!Writer!Dispatch,
       Writer!EnqueueInsert, Proved!Writer!EnqueueInsert, Writer!DispatchJournal,
       Proved!Writer!DispatchJournal, Writer!DispatchMark, Proved!Writer!DispatchMark,
       Writer!Execute, Proved!Writer!Execute, Writer!ObserveJournal,
       Proved!Writer!ObserveJournal, Writer!OtherSigns, Proved!Writer!OtherSigns,
       Writer!ObserveRow, Proved!Writer!ObserveRow, Writer!ObserveJoin,
       Proved!Writer!ObserveJoin, Writer!Crash, Proved!Writer!Crash, Writer!Idle,
       Proved!Writer!Idle, Writer!NoRow, Proved!Writer!NoRow, Writer!InFlight,
       Proved!Writer!InFlight, Writer!Queued, Proved!Writer!Queued, Writer!MaySign,
       Proved!Writer!MaySign, Writer!Admitted, Proved!Writer!Admitted,
       Writer!MayJournal, Proved!Writer!MayJournal, Writer!Receipt,
       Proved!Writer!Receipt, Writer!Outcome, Proved!Writer!Outcome, Writer!PendingJobs,
       Proved!Writer!PendingJobs, Writer!Joined, Proved!Writer!Joined, Writer!NoJob,
       Proved!Writer!NoJob, Writer!Cardinality, Proved!Writer!Cardinality
<1>3. Writer!NonceHeldOnce <=> Proved!Writer!NonceHeldOnce
    BY DEF Writer!NonceHeldOnce, Proved!Writer!NonceHeldOnce, Writer!PendingJobs,
       Proved!Writer!PendingJobs
<1>4. Writer!SponsoredOnce <=> Proved!Writer!SponsoredOnce
    BY DEF Writer!SponsoredOnce, Proved!Writer!SponsoredOnce
<1>5. Writer!OneInFlight <=> Proved!Writer!OneInFlight
    BY DEF Writer!OneInFlight, Proved!Writer!OneInFlight, Writer!InFlight,
       Proved!Writer!InFlight, Writer!Ids, Proved!Writer!Ids, Writer!Cardinality,
       Proved!Writer!Cardinality
<1> QED BY <1>1, <1>2, <1>3, <1>4, <1>5

\* The sum's maintenance executor is the one that was proved.
LEMMA SameExecutor ==
  /\ Executor!Init <=> Proved!Executor!Init
  /\ Executor!Next <=> Proved!Executor!Next
  /\ Executor!OneTransaction <=> Proved!Executor!OneTransaction
<1>1. Executor!Init <=> Proved!Executor!Init
    BY DEF Executor!Init, Proved!Executor!Init, Executor!Kinds, Proved!Executor!Kinds,
       Executor!Idle, Proved!Executor!Idle, Executor!Ids, Proved!Executor!Ids
<1>2. Executor!Next <=> Proved!Executor!Next
    BY DEF Executor!Next, Proved!Executor!Next, Executor!Request,
       Proved!Executor!Request, Executor!Tasks, Proved!Executor!Tasks, Executor!Ask,
       Proved!Executor!Ask, Executor!Execute, Proved!Executor!Execute, Executor!Crash,
       Proved!Executor!Crash, Executor!ReadJournal, Proved!Executor!ReadJournal,
       Executor!Reconcile, Proved!Executor!Reconcile, Executor!SponsorAvailable,
       Proved!Executor!SponsorAvailable, Executor!WaitForSponsor,
       Proved!Executor!WaitForSponsor, Executor!Simulate, Proved!Executor!Simulate,
       Executor!SponsoredEnqueue, Proved!Executor!SponsoredEnqueue, Executor!Kinds,
       Proved!Executor!Kinds, Executor!Limit, Proved!Executor!Limit, Executor!Idle,
       Proved!Executor!Idle, Executor!RequestId, Proved!Executor!RequestId,
       Executor!InFlight, Proved!Executor!InFlight, Executor!Accepts,
       Proved!Executor!Accepts, Executor!Fault, Proved!Executor!Fault, Executor!Onward,
       Proved!Executor!Onward, Executor!Replaceable, Proved!Executor!Replaceable
<1>3. Executor!OneTransaction <=> Proved!Executor!OneTransaction
    BY DEF Executor!OneTransaction, Proved!Executor!OneTransaction, Executor!Ids,
       Proved!Executor!Ids, Executor!Kinds, Proved!Executor!Kinds
<1> QED BY <1>1, <1>2, <1>3

\* The sum's settlement worker is the one that was proved.
LEMMA SameSettlement ==
  /\ Settlement!Init <=> Proved!Settlement!Init
  /\ Settlement!Next <=> Proved!Settlement!Next
  /\ Settlement!SettledIsPaid <=> Proved!Settlement!SettledIsPaid
  /\ Settlement!OneMarket <=> Proved!Settlement!OneMarket
<1>1. Settlement!Init <=> Proved!Settlement!Init
    BY DEF Settlement!Init, Proved!Settlement!Init, Settlement!Bets,
       Proved!Settlement!Bets, Settlement!Idle, Proved!Settlement!Idle
<1>2. Settlement!Next <=> Proved!Settlement!Next
    <2>1. Settlement!FirstPage = Proved!Settlement!FirstPage
        BY Zenon DEF Settlement!FirstPage, Proved!Settlement!FirstPage,
           Settlement!Unsettled, Proved!Settlement!Unsettled, Settlement!SetToSortSeq,
           Proved!Settlement!SetToSortSeq, Settlement!SetToSeq,
           Proved!Settlement!SetToSeq, Settlement!Cardinality,
           Proved!Settlement!Cardinality, Settlement!IsInjective,
           Proved!Settlement!IsInjective
    <2> QED BY <2>1 DEF Settlement!Next, Proved!Settlement!Next, Settlement!AskOpen,
           Proved!Settlement!AskOpen, Settlement!Finish, Proved!Settlement!Finish,
           Settlement!DirectBet, Proved!Settlement!DirectBet, Settlement!BuyRoute,
           Proved!Settlement!BuyRoute, Settlement!RetryRoute,
           Proved!Settlement!RetryRoute, Settlement!Bets, Proved!Settlement!Bets,
           Settlement!BuyRecorded, Proved!Settlement!BuyRecorded, Settlement!JobMade,
           Proved!Settlement!JobMade, Settlement!JobFails, Proved!Settlement!JobFails,
           Settlement!AuditSteps, Proved!Settlement!AuditSteps, Settlement!AuditFails,
           Proved!Settlement!AuditFails, Settlement!Redeploy,
           Proved!Settlement!Redeploy, Settlement!Release, Proved!Settlement!Release,
           Settlement!BeforeRenew, Proved!Settlement!BeforeRenew, Settlement!Renew,
           Proved!Settlement!Renew, Settlement!Restart, Proved!Settlement!Restart,
           Settlement!ForMatch, Proved!Settlement!ForMatch, Settlement!Call,
           Proved!Settlement!Call, Settlement!chainVars, Proved!Settlement!chainVars,
           Settlement!tableVars, Proved!Settlement!tableVars, Settlement!Window,
           Proved!Settlement!Window, Settlement!Placed, Proved!Settlement!Placed,
           Settlement!Insert, Proved!Settlement!Insert, Settlement!Made,
           Proved!Settlement!Made, Settlement!Fault, Proved!Settlement!Fault,
           Settlement!ScanRecent, Proved!Settlement!ScanRecent, Settlement!ScanHistory,
           Proved!Settlement!ScanHistory, Settlement!Select, Proved!Settlement!Select,
           Settlement!NextMatch, Proved!Settlement!NextMatch, Settlement!AuditPlayer,
           Proved!Settlement!AuditPlayer, Settlement!Idle, Proved!Settlement!Idle,
           Settlement!MayRenew, Proved!Settlement!MayRenew, Settlement!Known,
           Proved!Settlement!Known, Settlement!MayFinalize,
           Proved!Settlement!MayFinalize, Settlement!Tried, Proved!Settlement!Tried,
           Settlement!InsertAll, Proved!Settlement!InsertAll, Settlement!Settleable,
           Proved!Settlement!Settleable, Settlement!Retriable,
           Proved!Settlement!Retriable, Settlement!Unsettled,
           Proved!Settlement!Unsettled, Settlement!Cardinality,
           Proved!Settlement!Cardinality
<1>3. Settlement!SettledIsPaid <=> Proved!Settlement!SettledIsPaid
    BY DEF Settlement!SettledIsPaid, Proved!Settlement!SettledIsPaid
<1>4. Settlement!OneMarket <=> Proved!Settlement!OneMarket
    BY DEF Settlement!OneMarket, Proved!Settlement!OneMarket
<1> QED BY <1>1, <1>2, <1>3, <1>4

\* The sum's pressure bridge is the one that was proved.
LEMMA SamePressure ==
  /\ Pressure!Init <=> Proved!Pressure!Init
  /\ Pressure!Next <=> Proved!Pressure!Next
  /\ Pressure!OneCheckpoint <=> Proved!Pressure!OneCheckpoint
  /\ Pressure!PressureIsPaid <=> Proved!Pressure!PressureIsPaid
<1>1. Pressure!Init <=> Proved!Pressure!Init
    BY DEF Pressure!Init, Proved!Pressure!Init, Pressure!Rallies,
       Proved!Pressure!Rallies, Pressure!NoRound, Proved!Pressure!NoRound,
       Pressure!None, Proved!Pressure!None, Pressure!Idle, Proved!Pressure!Idle
<1>2. Pressure!Next <=> Proved!Pressure!Next
    BY DEF Pressure!Next, Proved!Pressure!Next, Pressure!Mine, Proved!Pressure!Mine,
       Pressure!Reorganise, Proved!Pressure!Reorganise, Pressure!Publish,
       Proved!Pressure!Publish, Pressure!PlayRally, Proved!Pressure!PlayRally,
       Pressure!RollBack, Proved!Pressure!RollBack, Pressure!Works,
       Proved!Pressure!Works, Pressure!Stop, Proved!Pressure!Stop, Pressure!Rallies,
       Proved!Pressure!Rallies, Pressure!Opens, Proved!Pressure!Opens, Pressure!Close,
       Proved!Pressure!Close, Pressure!Top, Proved!Pressure!Top, Pressure!Pause,
       Proved!Pressure!Pause, Pressure!Observe, Proved!Pressure!Observe,
       Pressure!ReadBlock, Proved!Pressure!ReadBlock, Pressure!ReadPaid,
       Proved!Pressure!ReadPaid, Pressure!Recheck, Proved!Pressure!Recheck,
       Pressure!Freeze, Proved!Pressure!Freeze, Pressure!Sign, Proved!Pressure!Sign,
       Pressure!Step, Proved!Pressure!Step, Pressure!Idle, Proved!Pressure!Idle,
       Pressure!Ready, Proved!Pressure!Ready, Pressure!Source, Proved!Pressure!Source,
       Pressure!HasSource, Proved!Pressure!HasSource, Pressure!None,
       Proved!Pressure!None, Pressure!SameSource, Proved!Pressure!SameSource,
       Pressure!Computed, Proved!Pressure!Computed, Pressure!Agrees,
       Proved!Pressure!Agrees
<1>3. Pressure!OneCheckpoint <=> Proved!Pressure!OneCheckpoint
    BY DEF Pressure!OneCheckpoint, Proved!Pressure!OneCheckpoint
<1>4. Pressure!PressureIsPaid <=> Proved!Pressure!PressureIsPaid
    BY DEF Pressure!PressureIsPaid, Proved!Pressure!PressureIsPaid
<1> QED BY <1>1, <1>2, <1>3, <1>4

\* The sum's matchmaking is the one that was proved.
LEMMA SameMatching ==
  /\ Matching!Init <=> Proved!Matching!Init
  /\ Matching!Next <=> Proved!Matching!Next
  /\ Matching!OneRoom <=> Proved!Matching!OneRoom
  /\ Matching!OneCreation <=> Proved!Matching!OneCreation
  /\ Matching!CancelledStaysCancelled <=> Proved!Matching!CancelledStaysCancelled
<1>1. Matching!Init <=> Proved!Matching!Init
    BY DEF Matching!Init, Proved!Matching!Init, Matching!Rooms, Proved!Matching!Rooms,
       Matching!NoRoom, Proved!Matching!NoRoom, Matching!Challenges,
       Proved!Matching!Challenges, Matching!NoChallenge, Proved!Matching!NoChallenge,
       Matching!Idle, Proved!Matching!Idle
<1>2. Matching!Next <=> Proved!Matching!Next
    BY DEF Matching!Next, Proved!Matching!Next, Matching!Queue, Proved!Matching!Queue,
       Matching!QueueEntered, Proved!Matching!QueueEntered, Matching!QueuePaired,
       Proved!Matching!QueuePaired, Matching!QueueCancel, Proved!Matching!QueueCancel,
       Matching!Rooms, Proved!Matching!Rooms, Matching!Consent, Proved!Matching!Consent,
       Matching!Maintain, Proved!Matching!Maintain, Matching!SubmitInsert,
       Proved!Matching!SubmitInsert, Matching!SubmitRecord,
       Proved!Matching!SubmitRecord, Matching!Mine, Proved!Matching!Mine,
       Matching!MatchEnds, Proved!Matching!MatchEnds, Matching!ObserveReceipt,
       Proved!Matching!ObserveReceipt, Matching!RecordMatch,
       Proved!Matching!RecordMatch, Matching!Refresh, Proved!Matching!Refresh,
       Matching!Nobody, Proved!Matching!Nobody, Matching!Invite, Proved!Matching!Invite,
       Matching!Challenges, Proved!Matching!Challenges, Matching!AcceptChallenge,
       Proved!Matching!AcceptChallenge, Matching!CancelChallenge,
       Proved!Matching!CancelChallenge, Matching!DeclineChallenge,
       Proved!Matching!DeclineChallenge, Matching!ChallengeLapses,
       Proved!Matching!ChallengeLapses, Matching!QueueLapses,
       Proved!Matching!QueueLapses, Matching!RoomLapses, Proved!Matching!RoomLapses,
       Matching!Crash, Proved!Matching!Crash, Matching!Idle, Proved!Matching!Idle,
       Matching!Available, Proved!Matching!Available, Matching!Seats,
       Proved!Matching!Seats, Matching!Preparing, Proved!Matching!Preparing,
       Matching!Exists, Proved!Matching!Exists, Matching!chainVars,
       Proved!Matching!chainVars, Matching!FreeRoom, Proved!Matching!FreeRoom,
       Matching!NewRoom, Proved!Matching!NewRoom, Matching!MayCancel,
       Proved!Matching!MayCancel, Matching!Cancelled, Proved!Matching!Cancelled,
       Matching!Unsubmitted, Proved!Matching!Unsubmitted, Matching!dbVars,
       Proved!Matching!dbVars, Matching!Creatable, Proved!Matching!Creatable,
       Matching!NoChallenge, Proved!Matching!NoChallenge, Matching!Unqueued,
       Proved!Matching!Unqueued, Matching!Pending, Proved!Matching!Pending,
       Matching!Ready, Proved!Matching!Ready, Matching!Cardinality,
       Proved!Matching!Cardinality
<1>3. Matching!OneRoom <=> Proved!Matching!OneRoom
    BY DEF Matching!OneRoom, Proved!Matching!OneRoom, Matching!Preparing,
       Proved!Matching!Preparing, Matching!Rooms, Proved!Matching!Rooms, Matching!Seats,
       Proved!Matching!Seats, Matching!Cardinality, Proved!Matching!Cardinality
<1>4. Matching!OneCreation <=> Proved!Matching!OneCreation
    BY DEF Matching!OneCreation, Proved!Matching!OneCreation, Matching!Rooms,
       Proved!Matching!Rooms, Matching!Seats, Proved!Matching!Seats, Matching!Pending,
       Proved!Matching!Pending, Matching!Cardinality, Proved!Matching!Cardinality
<1>5. Matching!CancelledStaysCancelled <=> Proved!Matching!CancelledStaysCancelled
    BY DEF Matching!CancelledStaysCancelled, Proved!Matching!CancelledStaysCancelled,
       Matching!NoFalseCancellation, Proved!Matching!NoFalseCancellation
<1> QED BY <1>1, <1>2, <1>3, <1>4, <1>5

\* A step of the sum is a step of the component it started as, or none.
LEMMA HealthPart ==
  /\ Init /\ part = "health" => Proved!Health!Init
  /\ [Next]_vars /\ part' = "health" =>
       part = "health" /\ [Proved!Health!Next]_(Proved!Health!vars)
<1>1. Init /\ part = "health" => Proved!Health!Init
    BY SameHealth DEF Init, Is
<1>2. Next /\ part' = "health" => part = "health" /\ Proved!Health!Next
    BY SameHealth DEF Next, On
<1>3. UNCHANGED vars /\ part' = "health" => part = "health" /\ UNCHANGED Proved!Health!vars
    BY DEF vars, Proved!Health!vars
<1> QED BY <1>1, <1>2, <1>3

\* The relayer admits players only when every failed batch it was told of is good
\* again, and does not lose an open incident with the process.
THEOREM HealthAdmitsSafely == Spec => []AdmissionIsSafe
<1> DEFINE Inv == part = "health" => Proved!HealthInv
<1>1. Init => Inv
    BY HealthPart, Proved!HealthInit
<1>2. Inv /\ [Next]_vars => Inv'
    BY HealthPart, Proved!HealthStep
<1>3. Inv => AdmissionIsSafe
    BY SameHealth, Proved!IncidentIsKept DEF AdmissionIsSafe, Proved!HealthInv
<1> QED BY <1>1, <1>2, <1>3, PTL DEF Spec

\* A step of the sum is a step of the payment worker, or none of it.
LEMMA PayoutPart ==
  /\ Init /\ part = "payouts" => Proved!Payouts!Init
  /\ [Next]_vars /\ part' = "payouts" =>
       part = "payouts" /\ [Proved!Payouts!Next]_(Proved!Payouts!vars)
<1>1. Init /\ part = "payouts" => Proved!Payouts!Init
    BY SamePayouts DEF Init, Is
<1>2. Next /\ part' = "payouts" => part = "payouts" /\ Proved!Payouts!Next
    BY SamePayouts DEF Next, On
<1>3. UNCHANGED vars /\ part' = "payouts" => part = "payouts" /\ UNCHANGED Proved!Payouts!vars
    BY DEF vars, Proved!Payouts!vars
<1> QED BY <1>1, <1>2, <1>3

\* A debt of the small instance has one transfer in flight at most, and is reported
\* settled only when it is.
THEOREM PayoutsAreSingle == Spec => []OneTransfer
<1> DEFINE Inv == part = "payouts" => Proved!PayInv
<1>1. Init => Inv
    BY PayoutPart, Proved!PayInit
<1>2. Inv /\ [Next]_vars => Inv'
    BY PayoutPart, Proved!PayStep
<1>3. Inv => OneTransfer
    BY SamePayouts, Proved!OneTransferAtATime DEF OneTransfer, Proved!PayInv
<1> QED BY <1>1, <1>2, <1>3, PTL DEF Spec

\* A step of the sum is a step of the sponsor queue, or none of it.
LEMMA WriterPart ==
  /\ Init /\ part = "writer" => Proved!Writer!Init
  /\ [Next]_vars /\ part' = "writer" =>
       part = "writer" /\ [Proved!Writer!Next]_(Proved!Writer!vars)
<1>1. Init /\ part = "writer" => Proved!Writer!Init
    BY SameWriter DEF Init, Is
<1>2. Next /\ part' = "writer" => part = "writer" /\ Proved!Writer!Next
    BY SameWriter DEF Next, On
<1>3. UNCHANGED vars /\ part' = "writer" => part = "writer" /\ UNCHANGED Proved!Writer!vars
    BY DEF vars, Proved!Writer!vars
<1> QED BY <1>1, <1>2, <1>3

\* A step of the sum is a step of the maintenance executor, or none of it.
LEMMA ExecutorPart ==
  /\ Init /\ part = "executor" => Proved!Executor!Init
  /\ [Next]_vars /\ part' = "executor" =>
       part = "executor" /\ [Proved!Executor!Next]_(Proved!Executor!vars)
<1>1. Init /\ part = "executor" => Proved!Executor!Init
    BY SameExecutor DEF Init, Is
<1>2. Next /\ part' = "executor" => part = "executor" /\ Proved!Executor!Next
    BY SameExecutor DEF Next, On
<1>3. UNCHANGED vars /\ part' = "executor" => part = "executor" /\ UNCHANGED Proved!Executor!vars
    BY DEF vars, Proved!Executor!vars
<1> QED BY <1>1, <1>2, <1>3

\* The sponsor queue's bounds are numbers and its call is not the other service's.
LEMMA WriterCalls == Proved!WriterConstants
BY DEF Proved!WriterConstants

\* A sponsored operation of the small instances is signed once, under a nonce of its
\* own, and one transaction of a task may execute.
THEOREM SignedOnceInParts == Spec => []SignedOnce
<1> DEFINE Inv == /\ part = "writer" => Proved!WriterInv
                  /\ part = "executor" => Proved!ExecutorInv
<1>1. Init => Inv
    BY WriterPart, ExecutorPart, WriterCalls, Proved!WriterInit, Proved!ExecutorInit
<1>2. Inv /\ [Next]_vars => Inv'
    BY WriterPart, ExecutorPart, WriterCalls, Proved!WriterStep, Proved!ExecutorStep
<1>3. Inv => SignedOnce
    BY SameWriter, SameExecutor, WriterCalls, Proved!SignedOnceFacts, Proved!OneTransactionFact
       DEF SignedOnce
<1> QED BY <1>1, <1>2, <1>3, PTL DEF Spec

\* A step of the sum is a step of the settlement worker, or none of it.
LEMMA SettlementPart ==
  /\ Init /\ part = "settlement" => Proved!Settlement!Init
  /\ [Next]_vars /\ part' = "settlement" =>
       part = "settlement" /\ [Proved!Settlement!Next]_(Proved!Settlement!vars)
<1>1. Init /\ part = "settlement" => Proved!Settlement!Init
    BY SameSettlement DEF Init, Is
<1>2. Next /\ part' = "settlement" => part = "settlement" /\ Proved!Settlement!Next
    BY SameSettlement DEF Next, On
<1>3. UNCHANGED vars /\ part' = "settlement" => part = "settlement" /\ UNCHANGED Proved!Settlement!vars
    BY DEF vars, Proved!Settlement!vars, Proved!Settlement!chainVars, Proved!Settlement!tableVars
<1> QED BY <1>1, <1>2, <1>3

\* A step of the sum is a step of the pressure bridge, or none of it.
LEMMA PressurePart ==
  /\ Init /\ part = "pressure" => Proved!Pressure!Init
  /\ [Next]_vars /\ part' = "pressure" =>
       part = "pressure" /\ [Proved!Pressure!Next]_(Proved!Pressure!vars)
<1>1. Init /\ part = "pressure" => Proved!Pressure!Init
    BY SamePressure DEF Init, Is
<1>2. Next /\ part' = "pressure" => part = "pressure" /\ Proved!Pressure!Next
    BY SamePressure DEF Next, On
<1>3. UNCHANGED vars /\ part' = "pressure" => part = "pressure" /\ UNCHANGED Proved!Pressure!vars
    BY DEF vars, Proved!Pressure!vars
<1> QED BY <1>1, <1>2, <1>3

\* Money of the small instances is where the books say: a settled row has nothing more
\* to pay, a match keeps one market, and a rally's pressure is signed once, from a
\* payment that was really made.
THEOREM PaidBeforeClosedInParts == Spec => []PaidBeforeClosed
<1> DEFINE Inv == /\ part = "settlement" => Proved!SettlementInv
                  /\ part = "pressure" => Proved!PressureInv
<1>1. Pick(1, 2) \in Nat /\ Proved!PressureConstants
    BY DEF Pick, Proved!PressureConstants
<1>2. Init => Inv
    BY <1>1, SettlementPart, PressurePart, Proved!SettlementInit, Proved!PressureInit
<1>3. Inv /\ [Next]_vars => Inv'
    BY <1>1, SettlementPart, PressurePart, Proved!SettlementStep, Proved!PressureStep
<1>4. Inv => PaidBeforeClosed
    BY SameSettlement, SamePressure, Proved!SettlementFacts, Proved!PressureFacts
       DEF PaidBeforeClosed
<1> QED BY <1>2, <1>3, <1>4, PTL DEF Spec

-----------------------------------------------------------------------------
\* The second instance differs in its matchmaking: two rooms and an invitation.
Invites == INSTANCE RelayerProofs WITH
  MaxBatch <- 2, MaxEpoch <- Pick(2, 1), MaxFail <- Pick(2, 1), MaxRestart <- 1,
  node <- s1, hub <- s2, incident <- s3, row <- s4, queries <- s5,
  cycle <- s6, svc <- s7, open <- s8, faults <- s9,
  Debts <- {1, 2}, Kind <- Pick(<<"bet", "prize">>, <<"bet", "refund">>),
  Owed <- Pick(<<TRUE, TRUE>>, <<FALSE, TRUE>>), Slots <- 1,
  MaxAttempt <- 1, MaxFailure <- 1, MaxStop <- 1, over <- s1,
  pay <- s2, accepts <- s3, cursor <- s4, indexed <- s5, task <- s6,
  jobs <- s7, tick <- s8, user <- s9, failures <- s10, crashes <- s11,
  Calls <- {"c"}, Contexts <- Pick({1, 2, 3}, {1, 2}), MaxQueue <- 2, MaxNonce <- 3,
  MaxOther <- 1, MaxHalt <- 1, rows <- s1, journal <- s2, chain <- s3, intake <- s4,
  pump <- s5, watch <- s6, halts <- s7, others <- s8,
  Callers <- {1, 2}, MaxCycle <- 2, MaxFault <- 1, MaxRevival <- 1, turn <- s1,
  work <- s2, sent <- s3, live <- s4, outcome <- s5, refusals <- s6, revivals <- s7,
  Matches <- Pick({1, 2}, {1}), Players <- {1}, Page <- 1, Attempts <- Pick(1, 2),
  Scan <- 1, Early <- TRUE, MaxDeployment <- Pick(2, 1), MaxSession <- Pick(1, 2),
  MaxSlips <- Pick(0, 1), session <- s1, match <- s2, pos <- s3, paidOut <- s4,
  log <- s5, calls <- s6, bettors <- s7, scanned <- s8, binding <- s9,
  active <- s10, asked <- s11, audit <- s12, renewing <- s13, slips <- s14,
  Workers <- Pick({1, 2}, {1}), MaxRally <- Pick(1, 2), WindowBlocks <- 2,
  ConfirmationBlocks <- 1, MaxDepth <- Pick(3, 1), MaxReorgs <- Pick(1, 2),
  MaxRollbacks <- Pick(1, 0), MaxStops <- 1, blocks <- s1, highest <- s2,
  minted <- s3, opening <- s4, engine <- s5, pub <- s6, table <- s7,
  signed <- s8, worker <- s9, troubles <- s10,
  Pairable <- {"p1", "p2"}, MaxPair <- 2,
  MaxTicket <- 1, MaxInvite <- 1, MaxBusy <- 2, MaxOutage <- 0,
  waiting <- s1, pairs <- s2, creations <- s3, invited <- s4, playing <- s5,
  games <- s6, unfinished <- s7, doing <- s8, outages <- s9

\* So is its matchmaking with an invitation.
LEMMA SameInviting ==
  /\ Inviting!Init <=> Invites!Matching!Init
  /\ Inviting!Next <=> Invites!Matching!Next
  /\ Inviting!OneRoom <=> Invites!Matching!OneRoom
  /\ Inviting!OneCreation <=> Invites!Matching!OneCreation
  /\ Inviting!CancelledStaysCancelled <=> Invites!Matching!CancelledStaysCancelled
<1>1. Inviting!Init <=> Invites!Matching!Init
    BY DEF Inviting!Init, Invites!Matching!Init, Inviting!Rooms, Invites!Matching!Rooms,
       Inviting!NoRoom, Invites!Matching!NoRoom, Inviting!Challenges,
       Invites!Matching!Challenges, Inviting!NoChallenge, Invites!Matching!NoChallenge,
       Inviting!Idle, Invites!Matching!Idle
<1>2. Inviting!Next <=> Invites!Matching!Next
    BY DEF Inviting!Next, Invites!Matching!Next, Inviting!Queue, Invites!Matching!Queue,
       Inviting!QueueEntered, Invites!Matching!QueueEntered, Inviting!QueuePaired,
       Invites!Matching!QueuePaired, Inviting!QueueCancel, Invites!Matching!QueueCancel,
       Inviting!Rooms, Invites!Matching!Rooms, Inviting!Consent,
       Invites!Matching!Consent, Inviting!Maintain, Invites!Matching!Maintain,
       Inviting!SubmitInsert, Invites!Matching!SubmitInsert, Inviting!SubmitRecord,
       Invites!Matching!SubmitRecord, Inviting!Mine, Invites!Matching!Mine,
       Inviting!MatchEnds, Invites!Matching!MatchEnds, Inviting!ObserveReceipt,
       Invites!Matching!ObserveReceipt, Inviting!RecordMatch,
       Invites!Matching!RecordMatch, Inviting!Refresh, Invites!Matching!Refresh,
       Inviting!Nobody, Invites!Matching!Nobody, Inviting!Invite,
       Invites!Matching!Invite, Inviting!Challenges, Invites!Matching!Challenges,
       Inviting!AcceptChallenge, Invites!Matching!AcceptChallenge,
       Inviting!CancelChallenge, Invites!Matching!CancelChallenge,
       Inviting!DeclineChallenge, Invites!Matching!DeclineChallenge,
       Inviting!ChallengeLapses, Invites!Matching!ChallengeLapses, Inviting!QueueLapses,
       Invites!Matching!QueueLapses, Inviting!RoomLapses, Invites!Matching!RoomLapses,
       Inviting!Crash, Invites!Matching!Crash, Inviting!Idle, Invites!Matching!Idle,
       Inviting!Available, Invites!Matching!Available, Inviting!Seats,
       Invites!Matching!Seats, Inviting!Preparing, Invites!Matching!Preparing,
       Inviting!Exists, Invites!Matching!Exists, Inviting!chainVars,
       Invites!Matching!chainVars, Inviting!FreeRoom, Invites!Matching!FreeRoom,
       Inviting!NewRoom, Invites!Matching!NewRoom, Inviting!MayCancel,
       Invites!Matching!MayCancel, Inviting!Cancelled, Invites!Matching!Cancelled,
       Inviting!Unsubmitted, Invites!Matching!Unsubmitted, Inviting!dbVars,
       Invites!Matching!dbVars, Inviting!Creatable, Invites!Matching!Creatable,
       Inviting!NoChallenge, Invites!Matching!NoChallenge, Inviting!Unqueued,
       Invites!Matching!Unqueued, Inviting!Pending, Invites!Matching!Pending,
       Inviting!Ready, Invites!Matching!Ready, Inviting!Cardinality,
       Invites!Matching!Cardinality
<1>3. Inviting!OneRoom <=> Invites!Matching!OneRoom
    BY DEF Inviting!OneRoom, Invites!Matching!OneRoom, Inviting!Preparing,
       Invites!Matching!Preparing, Inviting!Rooms, Invites!Matching!Rooms,
       Inviting!Seats, Invites!Matching!Seats, Inviting!Cardinality,
       Invites!Matching!Cardinality
<1>4. Inviting!OneCreation <=> Invites!Matching!OneCreation
    BY DEF Inviting!OneCreation, Invites!Matching!OneCreation, Inviting!Rooms,
       Invites!Matching!Rooms, Inviting!Seats, Invites!Matching!Seats, Inviting!Pending,
       Invites!Matching!Pending, Inviting!Cardinality, Invites!Matching!Cardinality
<1>5. Inviting!CancelledStaysCancelled <=> Invites!Matching!CancelledStaysCancelled
    BY DEF Inviting!CancelledStaysCancelled, Invites!Matching!CancelledStaysCancelled,
       Inviting!NoFalseCancellation, Invites!Matching!NoFalseCancellation
<1> QED BY <1>1, <1>2, <1>3, <1>4, <1>5

\* A step of the sum is a step of the matchmaking, or none of it.
LEMMA MatchingPart ==
  /\ Init /\ part = "matchmaking" => Proved!Matching!Init
  /\ [Next]_vars /\ part' = "matchmaking" =>
       part = "matchmaking" /\ [Proved!Matching!Next]_(Proved!Matching!vars)
<1>1. Init /\ part = "matchmaking" => Proved!Matching!Init
    BY SameMatching DEF Init, Is
<1>2. Next /\ part' = "matchmaking" => part = "matchmaking" /\ Proved!Matching!Next
    BY SameMatching DEF Next, On
<1>3. UNCHANGED vars /\ part' = "matchmaking" => part = "matchmaking" /\ UNCHANGED Proved!Matching!vars
    BY DEF vars, Proved!Matching!vars, Proved!Matching!dbVars, Proved!Matching!chainVars
<1> QED BY <1>1, <1>2, <1>3

\* A step of the sum is a step of the matchmaking with an invitation, or none of it.
LEMMA InvitingPart ==
  /\ Init /\ part = "inviting" => Invites!Matching!Init
  /\ [Next]_vars /\ part' = "inviting" =>
       part = "inviting" /\ [Invites!Matching!Next]_(Invites!Matching!vars)
<1>1. Init /\ part = "inviting" => Invites!Matching!Init
    BY SameInviting DEF Init, Is
<1>2. Next /\ part' = "inviting" => part = "inviting" /\ Invites!Matching!Next
    BY SameInviting DEF Next, On
<1>3. UNCHANGED vars /\ part' = "inviting" => part = "inviting" /\ UNCHANGED Invites!Matching!vars
    BY DEF vars, Invites!Matching!vars, Invites!Matching!dbVars, Invites!Matching!chainVars
<1> QED BY <1>1, <1>2, <1>3

\* A player of the small instances is prepared for one match at most, has one creation
\* on its way, and a room reported as cancelled is not created.
THEOREM QueueIsHonestInParts == Spec => []QueueIsHonest
<1> DEFINE Inv == /\ part = "matchmaking" => Proved!MatchingInv
                  /\ part = "inviting" => Invites!MatchingInv
<1>1. Proved!MatchingConstants /\ Invites!MatchingConstants
    BY DEF Proved!MatchingConstants, Invites!MatchingConstants, Pick
<1>2. Init => Inv
    BY <1>1, MatchingPart, InvitingPart, Proved!MatchingInit, Invites!MatchingInit
<1>3. Inv /\ [Next]_vars => Inv'
    BY <1>1, MatchingPart, InvitingPart, Proved!MatchingStep, Invites!MatchingStep
<1>4. Inv => QueueIsHonest
    BY SameMatching, SameInviting, Proved!MatchingFacts, Invites!MatchingFacts
       DEF QueueIsHonest
<1> QED BY <1>2, <1>3, <1>4, PTL DEF Spec

=============================================================================
