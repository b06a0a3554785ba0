------------------------------- MODULE GameV3 -------------------------------
(***************************************************************************)
(* contracts/src/v3/GameV3.sol: the life of a match, from signed joins     *)
(* over commit-reveal and play to a result and its rating, with the pause  *)
(* of the whole contract, the paddle sessions and the betting window.      *)
(*                                                                         *)
(* PhysicsV2 is abstracted to what the lifecycle can tell apart: the time  *)
(* of the last and of the next event, the score and the break before a     *)
(* serve.  When the next event falls, and who scores, is nondeterministic. *)
(* Time is counted in blocks (BLOCK_US microseconds each).  The tournament *)
(* id, a label copied into the match, is left out.                         *)
(***************************************************************************)
EXTENDS ArcadeSessions, TLC

CONSTANTS Ids,            \* match ids, 1..n
          Rooms,          \* room ids of the signed joins
          RankedChoices, ChaosChoices,   \* the agreed rules a match may have
          RevealWindow,   \* 200 blocks to reveal
          StallTime,      \* 30 minutes from the start
          PauseLimit,     \* 200 blocks of pause
          SessionLife,    \* 1 day
          SessionLengths, \* lengths of the paddle sessions that are signed
          Break,          \* 3 seconds before a Chaos serve
          WinScore,       \* 7
          MaxGap,         \* longest time between two physics events
          InputCounts,    \* values of maxInputs a player signs
          InputLimits,    \* values of maxInputsPerBlock an admin may set
          Lockout,        \* lockoutUs of the market that reads the window
          LastCreate,     \* bound: no match is created after this block
          MaxInputNonce,  \* bound: inputs accepted per paddle
          MaxNonce,       \* bound: session changes after which none is signed
          MaxVersion      \* bound: snapshots of a match before its last

ASSUME GameAssumption ==
    /\ Ids \subseteq Nat \ {0} /\ InputCounts \subseteq Nat \ {0} /\ InputLimits \subseteq 1..10
    /\ SessionLengths \subseteq Nat
    /\ RankedChoices \subseteq BOOLEAN /\ ChaosChoices \subseteq BOOLEAN
    /\ {RevealWindow, StallTime, PauseLimit, SessionLife, Break, Lockout, LastCreate,
        MaxInputNonce, MaxNonce, MaxVersion} \subseteq Nat
    /\ {WinScore, MaxGap} \subseteq Nat \ {0}

VARIABLES matches, nonces, activeMatchOf, pendingRatingOf, usedRooms,
          ladder,         \* ratings: played and won, one season
          maxInputsPerBlock, paused, pauseStart, pausedBlocks

gameVars == <<matches, nonces, activeMatchOf, pendingRatingOf, usedRooms, ladder,
              maxInputsPerBlock, paused, pauseStart, pausedBlocks>>
clockVars == <<paused, pauseStart, pausedBlocks>>
vars == <<now, arcadeVars, gameVars>>

Sides == {"A", "B"}
NoWinner == "none"
Other(side) == IF side = "A" THEN "B" ELSE "A"

NoSession == [key |-> NoKey, expiry |-> 0, nonce |-> 0, remaining |-> 0,
              rateBlock |-> 0, rateCount |-> 0]
NoState == [t |-> 0, nextAt |-> 0, awaiting |-> FALSE, resumeAt |-> 0,
            score |-> [s \in Sides |-> 0]]
NoMatch == [status |-> 0, player |-> [s \in Sides |-> NoPlayer], winner |-> NoWinner,
            version |-> 0, revealed |-> {}, created |-> 0, startBlock |-> 0, startedAt |-> 0,
            ranked |-> FALSE, chaos |-> FALSE, finalized |-> FALSE, inputLimit |-> 0,
            session |-> [s \in Sides |-> NoSession], state |-> NoState]

PlayersOf(m) == {m.player[s] : s \in Sides}

Init ==
    /\ ArcadeInit
    /\ matches = [i \in Ids |-> NoMatch]
    /\ nonces = [p \in Players |-> 0]
    /\ activeMatchOf = [p \in Players |-> 0]
    /\ pendingRatingOf = [p \in Players |-> 0]
    /\ usedRooms = {}
    /\ ladder = [p \in Players |-> [played |-> 0, wins |-> 0]]
    /\ maxInputsPerBlock \in InputLimits
    /\ paused = FALSE /\ pauseStart = 0 /\ pausedBlocks = 0

-----------------------------------------------------------------------------
(* The play clock. *)

ActiveBlock == now - pausedBlocks - (IF paused THEN now - pauseStart ELSE 0)

Clock(m) == IF m.status < 2 THEN 0 ELSE IF m.status >= 3 THEN m.state.t
            ELSE ActiveBlock - m.startBlock

NewBlock ==
    /\ now < MaxBlock
    /\ now' = now + 1
    /\ UNCHANGED <<arcadeVars, gameVars>>

\* Mutant: resuming subtracts the blocks of the pause.
ResumeSubtracts ==
    /\ paused' = ~paused
    /\ pauseStart' = IF paused THEN pauseStart ELSE now
    /\ pausedBlocks' = IF paused THEN pausedBlocks - (now - pauseStart) ELSE pausedBlocks
    /\ UNCHANGED <<now, arcadeVars, matches, nonces, activeMatchOf, pendingRatingOf, usedRooms,
                   ladder, maxInputsPerBlock>>

\* setPaused: play time stands still while the contract is paused.
SetPaused ==
    /\ paused' = ~paused
    /\ IF paused
       THEN pausedBlocks' = pausedBlocks + (now - pauseStart) /\ UNCHANGED pauseStart
       ELSE pauseStart' = now /\ UNCHANGED pausedBlocks
    /\ UNCHANGED <<now, arcadeVars, matches, nonces, activeMatchOf, pendingRatingOf, usedRooms,
                   ladder, maxInputsPerBlock>>

SetInputLimit(n) ==
    /\ maxInputsPerBlock' = n
    /\ UNCHANGED <<now, arcadeVars, matches, nonces, activeMatchOf, pendingRatingOf, usedRooms,
                   ladder, clockVars>>

-----------------------------------------------------------------------------
(* Creation and start. *)

\* The consent of p that _checkJoin accepts: the paddle key, its expiry and
\* budget, signed by p or by p's arcade key.
Joins(p) ==
    {j \in [player : {p}, key : Keys, expiry : {now + d : d \in SessionLengths}, inputs : InputCounts] :
        j.expiry > now /\ j.expiry <= now + SessionLife /\
        \E signer \in Players \cup Keys : CheckJoin(p, signer, j.key, j.expiry)}

\* id = nextId, and the caller's two players may start a match.
IsNextId(id) == \A k \in Ids : k < id <=> matches[k].status # 0
Free(p) == activeMatchOf[p] = 0 /\ pendingRatingOf[p] = 0

JoinedSession(j) == [NoSession EXCEPT !.key = j.key, !.expiry = j.expiry, !.remaining = j.inputs]

\* The match two joins make.
NewMatch(a, b, ranked, chaos) ==
    [NoMatch EXCEPT !.status = 1, !.created = now, !.ranked = ranked, !.chaos = chaos,
                    !.inputLimit = maxInputsPerBlock,
                    !.player = [s \in Sides |-> IF s = "A" THEN a.player ELSE b.player],
                    !.session = [s \in Sides |-> JoinedSession(IF s = "A" THEN a ELSE b)]]

\* createMatch: both players consented to the same room and rules.
CreateMatch(id, a, b, room, ranked, chaos) ==
    /\ ~paused /\ now <= LastCreate
    /\ IsNextId(id)
    /\ a.player # b.player /\ Free(a.player) /\ Free(b.player)
    /\ room \notin usedRooms
    /\ a \in Joins(a.player) /\ b \in Joins(b.player)
    /\ nonces' = [p \in Players |-> nonces[p] + (IF p \in {a.player, b.player} THEN 1 ELSE 0)]
    /\ usedRooms' = usedRooms \cup {room}
    /\ activeMatchOf' = [p \in Players |->
           IF p \in {a.player, b.player} THEN id ELSE activeMatchOf[p]]
    /\ matches' = [matches EXCEPT ![id] = NewMatch(a, b, ranked, chaos)]
    /\ UNCHANGED <<now, arcadeVars, pendingRatingOf, ladder, maxInputsPerBlock, clockVars>>

\* _emit publishes one snapshot.
Emit(m) == [m EXCEPT !.version = @ + 1]

\* The match when its clock starts; its first event falls after gap.
StartedMatch(m, gap) ==
    Emit([m EXCEPT !.revealed = Sides, !.status = 2, !.startBlock = ActiveBlock,
                   !.startedAt = now, !.state = [NoState EXCEPT !.nextAt = gap]])

\* reveal: the second secret starts the match.
Reveal(id, side) ==
    LET m == matches[id] IN
    /\ ~paused
    /\ m.status = 1 /\ now <= m.created + RevealWindow
    /\ side \notin m.revealed
    /\ IF Other(side) \in m.revealed
       THEN \E gap \in 1..MaxGap :
              matches' = [matches EXCEPT ![id] = StartedMatch(m, gap)]
       ELSE matches' = [matches EXCEPT ![id].revealed = {side}]
    /\ UNCHANGED <<now, arcadeVars, nonces, activeMatchOf, pendingRatingOf, usedRooms, ladder,
                   maxInputsPerBlock, clockVars>>

-----------------------------------------------------------------------------
(* Physics, by what it may return. *)

NextEvent(s) == IF s.awaiting THEN s.resumeAt ELSE s.nextAt

Points(s) == s.score["A"] + s.score["B"]
Won(s) == \E side \in Sides : s.score[side] = WinScore

\* Scores that events after s can produce: a point at a time, none after a win,
\* and in Chaos a break after every point.
ScoresAfter(s, chaos) ==
    {sc \in [Sides -> 0..WinScore] :
        /\ \A side \in Sides : sc[side] >= s.score[side]
        /\ sc["A"] < WinScore \/ sc["B"] < WinScore
        /\ chaos => sc["A"] + sc["B"] <= Points(s) + 1}

\* A Chaos break counts from the block that resolves the point.
BreakEnd(s, target) == target + Break

\* The states physics may stop in: after the last event at t, in a break that
\* ends at resume, caught up with the next event ahead, or still behind.
EndedAt(s, t, sc) == [s EXCEPT !.t = t, !.score = sc]
InBreak(e, target, resume) == [e EXCEPT !.t = target, !.awaiting = TRUE, !.resumeAt = resume]
CaughtUp(e, target, gap) == [e EXCEPT !.t = target, !.nextAt = target + gap]
StillBehind(e, gap) == [e EXCEPT !.nextAt = e.t + gap]

Ends(s, chaos, target) ==
    {EndedAt(s, t, sc) : t \in s.nextAt..target, sc \in ScoresAfter(s, chaos)}

\* Physics.advance: either nothing is due, or play catches up with target, stops
\* at a win or (Chaos) at a point, or runs out of its event limit.  The break is
\* always a whole one, counted from target.
PhysicsAdvance(s, chaos, target) ==
    IF s.nextAt > target
    THEN {[state |-> [s EXCEPT !.t = target], done |-> TRUE]}
    ELSE LET ends == Ends(s, chaos, target)
             won == {e \in ends : Won(e)}
             broke == {InBreak(e, target, BreakEnd(s, target)) :
                          e \in {f \in ends : chaos /\ Points(f) > Points(s) /\ ~Won(f)}}
             rally == {e \in ends : ~Won(e) /\ (chaos => Points(e) = Points(s))}
             caught == {CaughtUp(e, target, gap) : e \in rally, gap \in 1..MaxGap}
             behind == {StillBehind(e, gap) : e \in rally, gap \in 0..MaxGap}
         IN  {[state |-> e, done |-> TRUE] : e \in won \cup broke \cup caught}
                 \cup {[state |-> e, done |-> FALSE] : e \in {f \in behind : f.nextAt <= target \/ f.t < target}}

\* The match with side as its winner.
Decide(m, side) == [m EXCEPT !.status = 3, !.winner = side]

\* The match once physics has produced state s; a win decides it.
Played(m, s) ==
    LET n == [m EXCEPT !.state = s]
    IN  Emit(IF Won(s) THEN Decide(n, IF s.score["A"] = WinScore THEN "A" ELSE "B") ELSE n)

\* The serve after a Chaos break.
Serve(m, target, gap) ==
    Emit([m EXCEPT !.state = [@ EXCEPT !.awaiting = FALSE, !.resumeAt = 0,
                                       !.t = target, !.nextAt = target + gap]])

\* _advance: the possible matches after it, and whether it caught up.
Advance(m) ==
    LET target == Clock(m) IN
    IF m.state.awaiting
    THEN IF target < m.state.resumeAt
         THEN {[match |-> m, done |-> TRUE]}
         ELSE {[match |-> Serve(m, target, gap), done |-> TRUE] : gap \in 1..MaxGap}
    ELSE {[match |-> Played(m, r.state), done |-> r.done] :
              r \in PhysicsAdvance(m.state, m.chaos, target)}

\* Mutant: only the first player is freed.
ReleaseFirst(m) == activeMatchOf' = [activeMatchOf EXCEPT ![m.player["A"]] = 0]

\* Mutant: a friendly result gates too.
GateAll(id, m) == pendingRatingOf' = [p \in Players |->
                      IF p \in PlayersOf(m) THEN id ELSE pendingRatingOf[p]]

\* The end of a match frees both players; a ranked result gates their next one.
Release(m) == activeMatchOf' = [p \in Players |-> IF p \in PlayersOf(m) THEN 0 ELSE activeMatchOf[p]]
Gate(id, m) == pendingRatingOf' = [p \in Players |->
                   IF m.ranked /\ p \in PlayersOf(m) THEN id ELSE pendingRatingOf[p]]

\* resolveEvent: anyone catches the match up.
ResolveEvent(id) ==
    /\ ~paused /\ matches[id].status = 2
    /\ matches[id].version < MaxVersion
    /\ \E r \in Advance(matches[id]) :
           /\ matches' = [matches EXCEPT ![id] = r.match]
           /\ IF r.match.status = 3 THEN Release(r.match) /\ Gate(id, r.match)
                                    ELSE UNCHANGED <<activeMatchOf, pendingRatingOf>>
    /\ UNCHANGED <<now, arcadeVars, nonces, usedRooms, ladder, maxInputsPerBlock, clockVars>>

-----------------------------------------------------------------------------
(* Paddles. *)

\* The session once one more input is counted against its budget and rate.
Spent(x, n) == [x EXCEPT !.nonce = n, !.remaining = @ - 1, !.rateBlock = now,
                         !.rateCount = 1 + (IF x.rateBlock = now THEN @ ELSE 0)]

\* submitInput: the next signed input of a side, at most MAX_INPUT_BLOCK_AGE old
\* (an older one is simply not submitted here).  The match must catch up and
\* still be live, or everything reverts.
SubmitInput(id, side, n) ==
    LET m == matches[id]
        x == m.session[side]
    IN  /\ ~paused /\ m.status = 2
        /\ n <= MaxInputNonce /\ m.version < MaxVersion
        /\ x.key # NoKey /\ now <= x.expiry /\ x.remaining > 0 /\ ValidInput(m.player[side], x.key)
        /\ n = x.nonce + 1
        /\ x.rateBlock = now => x.rateCount < m.inputLimit
        /\ \E r \in Advance(m) :
               /\ r.done /\ r.match.status = 2
               /\ matches' = [matches EXCEPT ![id] =
                      Emit([r.match EXCEPT !.session[side] = Spent(x, n)])]
        /\ UNCHANGED <<now, arcadeVars, nonces, activeMatchOf, pendingRatingOf, usedRooms, ladder,
                       maxInputsPerBlock, clockVars>>

\* authorizeSession: a new paddle key during the match; the input nonce goes on.
AuthorizeSession(id, side, signer, key, expiry, inputs) ==
    LET m == matches[id]
        p == m.player[side]
    IN  /\ m.status = 2
        /\ nonces[p] < MaxNonce
        /\ expiry > now /\ expiry <= now + SessionLife
        /\ CheckJoin(p, signer, key, expiry)
        /\ nonces' = [nonces EXCEPT ![p] = @ + 1]
        /\ matches' = [matches EXCEPT ![id].session[side] =
               [@ EXCEPT !.key = key, !.expiry = expiry, !.remaining = inputs]]
        /\ UNCHANGED <<now, arcadeVars, activeMatchOf, pendingRatingOf, usedRooms, ladder,
                       maxInputsPerBlock, clockVars>>

\* playerAction 1: the player takes its paddle key back.
RevokeSession(id, side, signer) ==
    LET m == matches[id]
        p == m.player[side]
    IN  /\ m.status = 2 /\ IsSigner(p, signer)
        /\ nonces[p] < MaxNonce
        /\ nonces' = [nonces EXCEPT ![p] = @ + 1]
        /\ matches' = [matches EXCEPT ![id].session[side].key = NoKey]
        /\ UNCHANGED <<now, arcadeVars, activeMatchOf, pendingRatingOf, usedRooms, ladder,
                       maxInputsPerBlock, clockVars>>

\* playerAction 2: the player concedes, paused or not.
Concede(id, side, signer) ==
    LET m == matches[id]
        p == m.player[side]
    IN  /\ m.status = 2 /\ IsSigner(p, signer)
        /\ nonces' = [nonces EXCEPT ![p] = @ + 1]
        /\ matches' = [matches EXCEPT ![id] = Emit(Decide(m, Other(side)))]
        /\ Release(m) /\ Gate(id, m)
        /\ UNCHANGED <<now, arcadeVars, usedRooms, ladder, maxInputsPerBlock, clockVars>>

-----------------------------------------------------------------------------
(* Cancellation and rating: permissionless. *)

\* cancelUnstarted: once the time to reveal is over, paused or not.
CancelUnstarted(id) ==
    LET m == matches[id] IN
    /\ m.status = 1 /\ now > m.created + RevealWindow
    /\ matches' = [matches EXCEPT ![id].status = 4]
    /\ Release(m)
    /\ UNCHANGED <<now, arcadeVars, nonces, pendingRatingOf, usedRooms, ladder, maxInputsPerBlock,
                   clockVars>>

\* Mutant: a decided match can be cancelled.
CancelDecided(id) ==
    LET m == matches[id] IN
    /\ m.status \in {2, 3}
    /\ now > m.startedAt + StallTime \/ (paused /\ now > pauseStart + PauseLimit)
    /\ matches' = [matches EXCEPT ![id] = Emit([m EXCEPT !.status = 4])]
    /\ Release(m)
    /\ UNCHANGED <<now, arcadeVars, nonces, pendingRatingOf, usedRooms, ladder, maxInputsPerBlock,
                   clockVars>>

\* cancelStalled: a match that lasts too long, or under too long a pause.
CancelStalled(id) ==
    LET m == matches[id] IN
    /\ m.status = 2
    /\ now > m.startedAt + StallTime \/ (paused /\ now > pauseStart + PauseLimit)
    /\ matches' = [matches EXCEPT ![id] = Emit([m EXCEPT !.status = 4])]
    /\ Release(m)
    /\ UNCHANGED <<now, arcadeVars, nonces, pendingRatingOf, usedRooms, ladder, maxInputsPerBlock,
                   clockVars>>

\* _rate, by the counters it keeps: both players played one more, one won it.
Rate(m) ==
    ladder' = [p \in Players |->
        IF p \in PlayersOf(m)
        THEN [played |-> ladder[p].played + 1,
              wins   |-> ladder[p].wins + (IF p = m.player[m.winner] THEN 1 ELSE 0)]
        ELSE ladder[p]]

\* finalizeRating: once per decided match; it opens the gate of both players.
FinalizeRating(id) ==
    LET m == matches[id] IN
    /\ m.status = 3 /\ ~m.finalized
    /\ matches' = [matches EXCEPT ![id].finalized = TRUE]
    /\ pendingRatingOf' = [p \in Players |-> IF p \in PlayersOf(m) THEN 0 ELSE pendingRatingOf[p]]
    /\ IF m.ranked THEN Rate(m) ELSE UNCHANGED ladder
    /\ UNCHANGED <<now, arcadeVars, nonces, activeMatchOf, usedRooms, maxInputsPerBlock, clockVars>>

\* Mutant: the window stays open until the event is due.
WindowWithoutLockout(m) ==
    /\ ~paused /\ m.status = 2
    /\ NextEvent(m.state) > Clock(m)
    /\ Clock(m) >= m.state.t

\* bettingWindow: no event is due or imminent, so no bet buys a known point.
BettingWindow(m) ==
    /\ ~paused /\ m.status = 2
    /\ NextEvent(m.state) > Clock(m) + Lockout
    /\ Clock(m) >= m.state.t

-----------------------------------------------------------------------------

CreateStep ==
    \E id \in {i \in Ids : IsNextId(i)}, p, q \in {x \in Players : Free(x)} :
        \E a \in Joins(p), b \in Joins(q), room \in Rooms \ usedRooms,
           ranked \in RankedChoices, chaos \in ChaosChoices :
            CreateMatch(id, a, b, room, ranked, chaos)

SessionStep == \E id \in Ids, side \in Sides, signer \in Players \cup Keys :
    \/ RevokeSession(id, side, signer)
    \/ Concede(id, side, signer)
    \/ \E key \in Keys \cup {NoKey}, d \in SessionLengths, n \in InputCounts :
           AuthorizeSession(id, side, signer, key, now + d, n)

Next ==
    \/ NewBlock
    \/ SetPaused
    \/ \E n \in InputLimits : SetInputLimit(n)
    \/ ArcadeStep /\ UNCHANGED gameVars
    \/ CreateStep
    \/ \E id \in Ids, side \in Sides : Reveal(id, side)
    \/ \E id \in Ids : ResolveEvent(id)
    \/ \E id \in Ids, side \in Sides, n \in 1..MaxInputNonce : SubmitInput(id, side, n)
    \/ SessionStep
    \/ \E id \in Ids : CancelUnstarted(id)
    \/ \E id \in Ids : CancelStalled(id)
    \/ \E id \in Ids : FinalizeRating(id)

Spec == Init /\ [][Next]_vars

\* A match whose players have not both revealed.  No such match lasts: it starts,
\* or someone asks for its cancellation, which anyone may and the relayer's keeper
\* does for every match it sees (relayer/src/main.ts, refresh).
Unstarted(id) == matches[id].status = 1

-----------------------------------------------------------------------------
(* Properties. *)

Session == [key : Keys \cup {NoKey}, expiry : Nat, nonce : Nat, remaining : Nat,
            rateBlock : Nat, rateCount : Nat]
State == [t : Nat, nextAt : Nat, awaiting : BOOLEAN, resumeAt : Nat, score : [Sides -> 0..WinScore]]
Match == [status : 0..4, player : [Sides -> Players \cup {NoPlayer}],
          winner : Sides \cup {NoWinner}, version : Nat, revealed : SUBSET Sides, created : Nat,
          startBlock : Nat, startedAt : Nat, ranked : BOOLEAN, chaos : BOOLEAN,
          finalized : BOOLEAN, inputLimit : Nat, session : [Sides -> Session], state : State]

\* Type invariant of the arcade registry and the game contract.
TypeOK ==
    /\ ArcadeTypeOK
    /\ matches \in [Ids -> Match]
    /\ nonces \in [Players -> Nat]
    /\ activeMatchOf \in [Players -> Ids \cup {0}]
    /\ pendingRatingOf \in [Players -> Ids \cup {0}]
    /\ usedRooms \subseteq Rooms
    /\ ladder \in [Players -> [played : Nat, wins : Nat]]
    /\ maxInputsPerBlock \in InputLimits
    /\ paused \in BOOLEAN /\ pauseStart \in Nat /\ pausedBlocks \in Nat

Open(m) == m.status \in {1, 2}

\* A player is in at most one unfinished match, and activeMatchOf names exactly
\* that match: however it ends (points, concession, either cancellation), both
\* players are free again and nobody else is.
OneActiveMatch ==
    \A p \in Players :
        LET playing == {i \in Ids : Open(matches[i]) /\ p \in PlayersOf(matches[i])}
        IN  playing = IF activeMatchOf[p] = 0 THEN {} ELSE {activeMatchOf[p]}

\* The gate of a player is closed only by a decided, ranked, unrated match of
\* that player, which anyone can finalize: no stale gate locks a player out.
NoStaleGate ==
    \A p \in Players : pendingRatingOf[p] # 0 =>
        LET m == matches[pendingRatingOf[p]]
        IN  m.status = 3 /\ m.ranked /\ ~m.finalized /\ p \in PlayersOf(m)

Rated(p) == {i \in Ids : /\ matches[i].ranked /\ matches[i].finalized
                         /\ p \in PlayersOf(matches[i])}

\* The ladder is the finalized ranked results, each counted exactly once;
\* friendly and cancelled matches leave no trace.
LadderMatchesResults ==
    \A p \in Players :
        /\ ladder[p].played = Cardinality(Rated(p))
        /\ ladder[p].wins = Cardinality({i \in Rated(p) : matches[i].player[matches[i].winner] = p})

\* Ratings follow the ranked results: none is owed for another reason, none is
\* counted twice or left out, whatever order results and ratings come in.
RatedByResults == NoStaleGate /\ LadderMatchesResults

\* A paddle key registered in the arcade belongs to one account for good, and
\* only that account's grant can name it.
KeysHaveOneOwner ==
    \A p \in Players : sessions[p].key # NoKey => keyOwner[sessions[p].key] = p

\* What GameV3 promises to the market: see MatchResults.
Results == INSTANCE MatchResults WITH
    Matches <- Ids,
    status  <- [i \in Ids |-> matches[i].status],
    winner  <- [i \in Ids |-> matches[i].winner],
    version <- [i \in Ids |-> matches[i].version],
    window  <- [i \in Ids |-> BettingWindow(matches[i])]

\* Every step of the game is a step the results specification allows: statuses
\* only move forward, a decision is final, windows are open only in live play.
ImplementsResults == Results!ResultsSpec

Live(i) == matches[i].status = 2 /\ matches'[i].status = 2

\* Play time is exactly the unpaused blocks since the start: pausing,
\* resuming or any transaction moves no clock, a block moves it by one unless
\* the contract is paused.  So physics never meets a clock behind its state.
PlayClock ==
    [][\A i \in Ids : Live(i) =>
         /\ Clock(matches[i])' - Clock(matches[i]) = IF now' = now \/ paused THEN 0 ELSE 1
         /\ matches'[i].state.t <= Clock(matches[i])']_vars

\* A Chaos break is whole, even after a delayed keeper: it ends no sooner than
\* Break blocks of play time after the snapshot that began it.
BreakIsWhole ==
    [][\A i \in Ids : Live(i) =>
         LET s == matches[i].state
             z == matches'[i].state
         IN  /\ ~s.awaiting /\ z.awaiting => z.resumeAt = Clock(matches[i]) + Break
             /\ s.awaiting /\ z.awaiting => z.resumeAt = s.resumeAt
             /\ s.awaiting /\ ~z.awaiting => Clock(matches[i]) >= s.resumeAt]_vars

\* While the betting window is open, nothing that can be done in this block or
\* in the next Lockout blocks scores a point: no bet buys a known point.
NoBetOnKnownPoint ==
    [][\A i \in Ids : BettingWindow(matches[i]) =>
         /\ matches'[i].state.score = matches[i].state.score
         /\ Live(i) => NextEvent(matches'[i].state) > Clock(matches[i]) + Lockout]_vars

\* A match is played by its rules for players and bettors: the clock, the breaks
\* and the betting window hold whatever keepers are late and whatever is paused.
PlayIsFair == PlayClock /\ BreakIsWhole /\ NoBetOnKnownPoint

\* An accepted input is signed by a key nobody else owns, whose arcade grant (if
\* it ever had one) is this player's, unrevoked and unexpired.
InputsAuthorised ==
    [][\A i \in Ids, side \in Sides :
         LET x == matches[i].session[side]
             p == matches[i].player[side]
         IN  matches'[i].session[side].nonce # x.nonce =>
                 /\ matches'[i].session[side].nonce = x.nonce + 1
                 /\ keyOwner[x.key] \in {NoPlayer, p}
                 /\ keyOwner[x.key] = p => sessions[p].key = x.key /\ sessions[p].expires > now]_vars

\* Ranked rating finalization gates the next match of both players
\* (docs/ARCHITECTURE.md): nobody enters a match with an unrated ranked result.
RatingGatesNextMatch ==
    [][\A i \in Ids : (matches[i].status = 0 /\ matches'[i].status = 1) =>
         \A j \in Ids : (matches[j].status = 3 /\ matches[j].ranked /\ ~matches[j].finalized) =>
             PlayersOf(matches[j]) \cap PlayersOf(matches'[i]) = {}]_vars

\* Players, keys and rooms are interchangeable; used where only safety is checked.
Symmetry == Permutations(Players) \cup Permutations(Keys) \cup Permutations(Rooms)

=============================================================================
