---------------------------- MODULE GameV3Proofs ----------------------------
(***************************************************************************)
(* Proofs about GameV3 for every number of players, keys, rooms and        *)
(* matches, every physics the abstraction allows and every bound.          *)
(***************************************************************************)
EXTENDS GameV3, FiniteSetTheorems, TLAPS

\* The pause bookkeeping never exceeds the blocks that passed, so the play
\* clock is a natural number.
ClockOK ==
    /\ pausedBlocks <= IF paused THEN pauseStart ELSE now
    /\ pauseStart <= now

\* A match that was never created is blank; one that was has two players; a
\* winner is named exactly when it is decided, and only then is it rated.
Consistent(m) ==
    /\ m.status = 0 => m = NoMatch
    /\ m.status # 0 => m.player \in [Sides -> Players]
    /\ m.winner \in Sides <=> m.status = 3
    /\ m.finalized => m.status = 3

\* Physics never runs ahead of the play clock.
Behind(m) == m.status = 2 => m.startBlock + m.state.t <= ActiveBlock

\* The inductive invariant of a match's life.
IInv == TypeOK /\ ClockOK /\ \A i \in Ids : Consistent(matches[i]) /\ Behind(matches[i])

-----------------------------------------------------------------------------
(* The play clock. *)

\* The play clock is a natural number of blocks.
LEMMA ClockIsNat == TypeOK /\ ClockOK => ActiveBlock \in Nat
BY DEF TypeOK, ArcadeTypeOK, ClockOK, ActiveBlock

\* Pausing, resuming and transactions move no play clock; a block moves it by one
\* unless the contract is paused.
LEMMA ClockMoves ==
    ASSUME TypeOK, ClockOK
    PROVE  /\ UNCHANGED <<now, clockVars>> => ClockOK' /\ ActiveBlock' = ActiveBlock
           /\ SetPaused => ClockOK' /\ ActiveBlock' = ActiveBlock
           /\ NewBlock => ClockOK' /\ ActiveBlock' = ActiveBlock + IF paused THEN 0 ELSE 1
<1>0. /\ now \in Nat /\ pauseStart \in Nat /\ pausedBlocks \in Nat /\ paused \in BOOLEAN
      /\ pausedBlocks <= IF paused THEN pauseStart ELSE now
      /\ pauseStart <= now
    BY DEF TypeOK, ArcadeTypeOK, ClockOK
<1>1. UNCHANGED <<now, clockVars>> => ClockOK' /\ ActiveBlock' = ActiveBlock
    BY DEF clockVars, ClockOK, ActiveBlock
<1>2. SetPaused => ClockOK' /\ ActiveBlock' = ActiveBlock
    <2> SUFFICES ASSUME SetPaused PROVE ClockOK' /\ ActiveBlock' = ActiveBlock
        OBVIOUS
    <2>1. CASE paused
        <3>1. /\ ~paused' /\ pausedBlocks' = pausedBlocks + (now - pauseStart)
              /\ pauseStart' = pauseStart /\ now' = now
            BY <2>1 DEF SetPaused
        <3>2. QED
            BY <1>0, <2>1, <3>1 DEF ClockOK, ActiveBlock
    <2>2. CASE ~paused
        <3>1. paused' /\ pausedBlocks' = pausedBlocks /\ pauseStart' = now /\ now' = now
            BY <2>2 DEF SetPaused
        <3>2. QED
            BY <1>0, <2>2, <3>1 DEF ClockOK, ActiveBlock
    <2>3. QED
        BY <2>1, <2>2
<1>3. NewBlock => ClockOK' /\ ActiveBlock' = ActiveBlock + IF paused THEN 0 ELSE 1
    BY <1>0 DEF NewBlock, gameVars, ClockOK, ActiveBlock
<1>4. QED
    BY <1>1, <1>2, <1>3

-----------------------------------------------------------------------------
(* Physics. *)

\* The bounds of physics are natural numbers.
LEMMA PhysicsBounds == Break \in Nat /\ MaxGap \in Nat /\ WinScore \in Nat /\ WinScore > 0
<1>1. {Break} \subseteq Nat /\ {WinScore, MaxGap} \subseteq Nat \ {0}
    BY ONLY GameAssumption DEF GameAssumption
<1>2. QED
    BY ONLY <1>1

\* Physics stops between the last event and target, before any break.
LEMMA EndsFacts ==
    ASSUME NEW s \in State, ~s.awaiting, NEW chaos \in BOOLEAN, NEW target \in Nat,
           NEW e \in Ends(s, chaos, target)
    PROVE  e \in State /\ e.t <= target /\ ~e.awaiting
<1>1. PICK t \in s.nextAt..target, sc \in ScoresAfter(s, chaos) : e = EndedAt(s, t, sc)
    BY DEF Ends
<1>2. t \in Nat /\ t <= target /\ sc \in [Sides -> 0..WinScore]
    BY DEF State, ScoresAfter
<1>3. QED
    BY <1>1, <1>2 DEF State, EndedAt

\* The three ways to go on from there leave a state between the last event and
\* target; only a break is awaited, and for Break whole blocks.
LEMMA GoingOn ==
    ASSUME NEW e \in State, NEW target \in Nat, e.t <= target, ~e.awaiting
    PROVE  /\ LET z == InBreak(e, target, BreakEnd(e, target))
              IN  z \in State /\ z.t <= target /\ z.resumeAt = target + Break
           /\ \A gap \in 1..MaxGap :
                  LET z == CaughtUp(e, target, gap) IN z \in State /\ z.t <= target /\ ~z.awaiting
           /\ \A gap \in 0..MaxGap :
                  LET z == StillBehind(e, gap) IN z \in State /\ z.t <= target /\ ~z.awaiting
<1>0. e.t \in Nat /\ target + Break \in Nat
    BY PhysicsBounds DEF State
<1>1. \A gap \in 0..MaxGap : target + gap \in Nat /\ e.t + gap \in Nat
    BY <1>0, PhysicsBounds
<1>2. ASSUME NEW z, z = InBreak(e, target, BreakEnd(e, target))
      PROVE  z \in State /\ z.t <= target /\ z.resumeAt = target + Break
    <2>1. ASSUME NEW b \in Nat, b = target + Break
          PROVE  z \in State /\ z.t = target /\ z.resumeAt = b
        BY <1>2, <2>1 DEF State, InBreak, BreakEnd
    <2>2. QED
        BY <1>0, <2>1
<1>3. ASSUME NEW gap \in 1..MaxGap, NEW z, z = CaughtUp(e, target, gap)
      PROVE  z \in State /\ z.t <= target /\ ~z.awaiting
    <2>1. ASSUME NEW b \in Nat, b = target + gap
          PROVE  z \in State /\ z.t = target /\ z.awaiting = e.awaiting
        BY <1>3, <2>1 DEF State, CaughtUp
    <2>2. QED
        BY <1>1, <2>1
<1>4. ASSUME NEW gap \in 0..MaxGap, NEW z, z = StillBehind(e, gap)
      PROVE  z \in State /\ z.t <= target /\ ~z.awaiting
    BY <1>1, <1>4 DEF State, StillBehind
<1>9. QED
    BY <1>2, <1>3, <1>4

\* What the physics of a live match may return: a state between the last event
\* and target, a whole break if it begins one, and nothing new when nothing is due.
LEMMA PhysicsFacts ==
    ASSUME NEW s \in State, ~s.awaiting, NEW chaos \in BOOLEAN, NEW target \in Nat, s.t <= target,
           NEW r \in PhysicsAdvance(s, chaos, target)
    PROVE  /\ r.state \in State /\ r.state.t <= target
           /\ r.state.awaiting => r.state.resumeAt = target + Break
           /\ s.nextAt > target =>
                 ~r.state.awaiting /\ r.state.nextAt = s.nextAt /\ r.state.score = s.score
<1>1. CASE s.nextAt > target
    <2>1. r.state = [s EXCEPT !.t = target]
        BY <1>1 DEF PhysicsAdvance
    <2>2. LET z == [s EXCEPT !.t = target]
          IN  /\ z \in State /\ z.t = target /\ z.awaiting = s.awaiting
              /\ z.nextAt = s.nextAt /\ z.score = s.score
        BY DEF State
    <2>3. QED
        BY <2>1, <2>2
<1>2. CASE ~(s.nextAt > target)
    <2>1. \A e \in Ends(s, chaos, target) : e \in State /\ e.t <= target /\ ~e.awaiting
        BY EndsFacts
    <2>2. PICK e \in Ends(s, chaos, target) :
              \/ r.state = e
              \/ r.state = InBreak(e, target, BreakEnd(s, target))
              \/ \E gap \in 1..MaxGap : r.state = CaughtUp(e, target, gap)
              \/ \E gap \in 0..MaxGap : r.state = StillBehind(e, gap)
        BY <1>2 DEF PhysicsAdvance
    <2>3. BreakEnd(s, target) = BreakEnd(e, target)
        BY DEF BreakEnd
    <2>4. QED
        BY <1>2, <2>1, <2>2, <2>3, GoingOn
<1>3. QED
    BY <1>1, <1>2
-----------------------------------------------------------------------------
(* Resolving a match. *)

\* What no resolution touches.
SameMatch(m, n) ==
    /\ n.player = m.player /\ n.ranked = m.ranked /\ n.chaos = m.chaos
    /\ n.finalized = m.finalized /\ n.session = m.session
    /\ n.startBlock = m.startBlock /\ n.startedAt = m.startedAt
    /\ n.created = m.created /\ n.revealed = m.revealed /\ n.inputLimit = m.inputLimit

\* What a resolution of the live match m at play time target may make of it: it
\* publishes one snapshot, or finds a break that is not over and none; a break
\* begins whole and ends after its time; and nothing happens before it is due.
Resolved(m, n, target) ==
    /\ n \in Match /\ SameMatch(m, n)
    /\ n = m \/ n.version = m.version + 1
    /\ \/ n.status = 2 /\ n.winner = m.winner
       \/ n.status = 3 /\ n.winner \in Sides /\ n.version = m.version + 1
    /\ n.state.t <= target
    /\ ~m.state.awaiting /\ n.state.awaiting => n.state.resumeAt = target + Break
    /\ m.state.awaiting /\ n.state.awaiting => n.state.resumeAt = m.state.resumeAt
    /\ m.state.awaiting /\ ~n.state.awaiting => target >= m.state.resumeAt
    /\ NextEvent(m.state) > target =>
          n.state.score = m.state.score /\ NextEvent(n.state) = NextEvent(m.state)

\* Publishing a snapshot only counts it.
LEMMA EmitFacts ==
    ASSUME NEW m \in Match, NEW n, n = Emit(m)
    PROVE  /\ n \in Match /\ SameMatch(m, n) /\ n.version = m.version + 1
           /\ n.state = m.state /\ n.status = m.status /\ n.winner = m.winner
<1>1. ASSUME NEW v \in Nat, n = [m EXCEPT !.version = v]
      PROVE  /\ n \in Match /\ SameMatch(m, n) /\ n.version = v
             /\ n.state = m.state /\ n.status = m.status /\ n.winner = m.winner
    BY <1>1 DEF Match, SameMatch
<1>2. m.version + 1 \in Nat
    BY DEF Match
<1>3. QED
    BY <1>1, <1>2 DEF Emit

\* A match with a new state.
LEMMA StateFacts ==
    ASSUME NEW m \in Match, NEW z \in State, NEW n, n = [m EXCEPT !.state = z]
    PROVE  /\ n \in Match /\ SameMatch(m, n) /\ n.version = m.version
           /\ n.state = z /\ n.status = m.status /\ n.winner = m.winner
BY DEF Match, SameMatch

\* A decided match.
LEMMA DecidedFacts ==
    ASSUME NEW m \in Match, NEW w \in Sides, NEW n, n = Decide(m, w)
    PROVE  /\ n \in Match /\ SameMatch(m, n) /\ n.version = m.version
           /\ n.state = m.state /\ n.status = 3 /\ n.winner = w
<1>1. PICK k : k = [m EXCEPT !.status = 3]
    OBVIOUS
<1>2. /\ k \in Match /\ SameMatch(m, k) /\ k.version = m.version
      /\ k.state = m.state /\ k.status = 3
    BY <1>1 DEF Match, SameMatch
<1>3. n = [k EXCEPT !.winner = w]
    BY <1>1 DEF Decide
<1>4. /\ n \in Match /\ SameMatch(k, n) /\ n.version = k.version
      /\ n.state = k.state /\ n.status = k.status /\ n.winner = w
    BY <1>2, <1>3 DEF Match, SameMatch
<1>5. QED
    BY <1>2, <1>4 DEF SameMatch

\* A snapshot with a new state, which may decide the match.
LEMMA PlayedFacts ==
    ASSUME NEW m \in Match, m.status = 2, NEW z \in State, NEW n, n = Played(m, z)
    PROVE  /\ n \in Match /\ SameMatch(m, n) /\ n.version = m.version + 1 /\ n.state = z
           /\ \/ n.status = 2 /\ n.winner = m.winner
              \/ n.status = 3 /\ n.winner \in Sides
<1>1. PICK k : k = [m EXCEPT !.state = z]
    OBVIOUS
<1>2. k \in Match /\ SameMatch(m, k) /\ k.version = m.version /\ k.state = z
      /\ k.status = 2 /\ k.winner = m.winner
    BY <1>1, StateFacts
<1>3. CASE Won(z)
    <2>1. PICK w \in Sides : n = Emit(Decide(k, w))
        BY <1>1, <1>3 DEF Played, Sides
    <2>2. PICK d : d = Decide(k, w)
        OBVIOUS
    <2>3. n = Emit(d)
        BY <2>1, <2>2
    <2>4. d \in Match /\ SameMatch(k, d) /\ d.version = k.version /\ d.state = z
          /\ d.status = 3 /\ d.winner = w
        BY <1>2, <2>2, DecidedFacts
    <2>5. /\ n \in Match /\ SameMatch(d, n) /\ n.version = d.version + 1
          /\ n.state = d.state /\ n.status = d.status /\ n.winner = d.winner
        BY <2>3, <2>4, EmitFacts
    <2>6. QED
        BY <1>2, <2>4, <2>5 DEF SameMatch
<1>4. CASE ~Won(z)
    <2>1. n = Emit(k)
        BY <1>1, <1>4 DEF Played
    <2>2. /\ n \in Match /\ SameMatch(k, n) /\ n.version = k.version + 1
          /\ n.state = k.state /\ n.status = k.status /\ n.winner = k.winner
        BY <1>2, <2>1, EmitFacts
    <2>3. QED
        BY <1>2, <2>2 DEF SameMatch
<1>5. QED
    BY <1>3, <1>4

\* The serve after a break.
LEMMA ServeFacts ==
    ASSUME NEW m \in Match, m.status = 2, NEW target \in Nat, NEW gap \in 1..MaxGap,
           NEW n, n = Serve(m, target, gap)
    PROVE  /\ n \in Match /\ SameMatch(m, n) /\ n.version = m.version + 1
           /\ n.status = 2 /\ n.winner = m.winner
           /\ n.state.t = target /\ ~n.state.awaiting
<1>1. m.state \in State
    BY DEF Match
<1>2. target + gap \in Nat
    BY PhysicsBounds
<1>3. ASSUME NEW b \in Nat, NEW z, z = [m.state EXCEPT !.awaiting = FALSE, !.resumeAt = 0,
                                                        !.t = target, !.nextAt = b]
      PROVE  z \in State /\ z.t = target /\ ~z.awaiting
    BY <1>1, <1>3 DEF State
<1>4. PICK z : z = [m.state EXCEPT !.awaiting = FALSE, !.resumeAt = 0,
                                    !.t = target, !.nextAt = target + gap]
    OBVIOUS
<1>5. z \in State /\ z.t = target /\ ~z.awaiting
    BY <1>2, <1>3, <1>4
<1>6. PICK k : k = [m EXCEPT !.state = z]
    OBVIOUS
<1>7. n = Emit(k)
    BY <1>4, <1>6 DEF Serve
<1>8. k \in Match /\ SameMatch(m, k) /\ k.version = m.version /\ k.state = z
      /\ k.status = m.status /\ k.winner = m.winner
    BY <1>5, <1>6, StateFacts
<1>9. /\ n \in Match /\ SameMatch(k, n) /\ n.version = k.version + 1
      /\ n.state = k.state /\ n.status = k.status /\ n.winner = k.winner
    BY <1>7, <1>8, EmitFacts
<1>10. QED
    BY <1>5, <1>8, <1>9 DEF SameMatch

\* _advance returns a resolution of the match.
LEMMA AdvanceFacts ==
    ASSUME NEW m \in Match, m.status = 2, Clock(m) \in Nat, m.state.t <= Clock(m),
           NEW r \in Advance(m)
    PROVE  Resolved(m, r.match, Clock(m))
<1> DEFINE target == Clock(m)
<1>0. m.state \in State /\ m.chaos \in BOOLEAN /\ target \in Nat /\ m.version \in Nat
    BY DEF Match
<1> HIDE DEF target
<1>1. CASE m.state.awaiting /\ target < m.state.resumeAt
    <2>1. r.match = m
        BY <1>1 DEF Advance, target
    <2>2. QED
        BY <2>1, <1>0, <1>1 DEF Resolved, SameMatch, target
<1>2. CASE m.state.awaiting /\ ~(target < m.state.resumeAt)
    <2>1. PICK gap \in 1..MaxGap : r.match = Serve(m, target, gap)
        BY <1>2 DEF Advance, target
    <2>2. /\ r.match \in Match /\ SameMatch(m, r.match) /\ r.match.version = m.version + 1
          /\ r.match.status = 2 /\ r.match.winner = m.winner
          /\ r.match.state.t = target /\ ~r.match.state.awaiting
        BY ONLY <2>1, <1>0, ServeFacts, m \in Match, m.status = 2
    <2>3. m.state.resumeAt \in Nat
        BY <1>0 DEF State
    <2>4. ~(NextEvent(m.state) > target) /\ target >= m.state.resumeAt
        BY <1>0, <1>2, <2>3 DEF NextEvent
    <2>5. QED
        BY <1>0, <1>2, <2>2, <2>4 DEF Resolved, target
<1>3. CASE ~m.state.awaiting
    <2>1. PICK q \in PhysicsAdvance(m.state, m.chaos, target) : r.match = Played(m, q.state)
        BY <1>3 DEF Advance, target
    <2>2. /\ q.state \in State /\ q.state.t <= target
          /\ q.state.awaiting => q.state.resumeAt = target + Break
          /\ m.state.nextAt > target => /\ ~q.state.awaiting /\ q.state.nextAt = m.state.nextAt
                                        /\ q.state.score = m.state.score
        BY <1>0, <1>3, PhysicsFacts DEF target
    <2>3. /\ r.match \in Match /\ SameMatch(m, r.match) /\ r.match.version = m.version + 1
          /\ r.match.state = q.state
          /\ \/ r.match.status = 2 /\ r.match.winner = m.winner
             \/ r.match.status = 3 /\ r.match.winner \in Sides
        BY <2>1, <2>2, PlayedFacts
    <2>4. NextEvent(m.state) = m.state.nextAt
          /\ (~q.state.awaiting => NextEvent(q.state) = q.state.nextAt)
        BY <1>3 DEF NextEvent
    <2>5. QED
        BY <1>3, <2>2, <2>3, <2>4 DEF Resolved, target
<1>4. QED
    BY <1>1, <1>2, <1>3

-----------------------------------------------------------------------------
(* What the steps of one match make of it. *)

\* What no step of a match that exists changes before its end.
Same(m, n) == n.player = m.player /\ n.ranked = m.ranked /\ n.startBlock = m.startBlock
NoncesKept(m, n) == \A side \in Sides : n.session[side].nonce = m.session[side].nonce

\* Two matches that differ in their sessions and secrets only.
KeptShape(m, n) ==
    /\ n \in Match /\ m.status \in {1, 2} /\ Same(m, n) /\ NoncesKept(m, n)
    /\ n.status = m.status /\ n.winner = m.winner /\ n.version = m.version
    /\ n.finalized = m.finalized /\ n.state = m.state

CreatedShape(m, n, p, q) ==
    /\ n \in Match /\ m = NoMatch /\ NoncesKept(m, n)
    /\ n.status = 1 /\ n.winner = NoWinner /\ n.version = 0 /\ ~n.finalized
    /\ n.player = [s \in Sides |-> IF s = "A" THEN p ELSE q]

StartedShape(m, n) ==
    /\ n \in Match /\ m.status = 1 /\ NoncesKept(m, n)
    /\ n.player = m.player /\ n.ranked = m.ranked /\ n.finalized = m.finalized
    /\ n.status = 2 /\ n.winner = m.winner /\ n.version = m.version + 1
    /\ n.startBlock = ActiveBlock /\ n.state.t = 0

\* One input of one side, by a key that may play for it.
InputShape(m, n, side) ==
    /\ ValidInput(m.player[side], m.session[side].key) /\ m.session[side].key # NoKey
    /\ n.session[side].nonce = m.session[side].nonce + 1
    /\ \A o \in Sides \ {side} : n.session[o].nonce = m.session[o].nonce

\* An input or a resolution after which the match is still live.
PlayedShape(m, n) ==
    /\ n \in Match /\ m.status = 2 /\ Same(m, n)
    /\ NoncesKept(m, n) \/ \E side \in Sides : InputShape(m, n, side)
    /\ n.status = 2 /\ n.winner = m.winner /\ n.finalized = m.finalized
    /\ n.version \in {m.version, m.version + 1, m.version + 2}
    /\ n.state.t <= Clock(m)
    /\ ~m.state.awaiting /\ n.state.awaiting => n.state.resumeAt = Clock(m) + Break
    /\ m.state.awaiting /\ n.state.awaiting => n.state.resumeAt = m.state.resumeAt
    /\ m.state.awaiting /\ ~n.state.awaiting => Clock(m) >= m.state.resumeAt
    /\ NextEvent(m.state) > Clock(m) =>
          n.state.score = m.state.score /\ NextEvent(n.state) = NextEvent(m.state)

DecidedShape(m, n) ==
    /\ n \in Match /\ m.status = 2 /\ Same(m, n) /\ NoncesKept(m, n)
    /\ n.status = 3 /\ n.winner \in Sides /\ n.version = m.version + 1
    /\ n.finalized = m.finalized
    /\ NextEvent(m.state) > Clock(m) => n.state.score = m.state.score

CancelledShape(m, n) ==
    /\ n \in Match /\ m.status \in {1, 2} /\ Same(m, n) /\ NoncesKept(m, n)
    /\ n.status = 4 /\ n.winner = m.winner /\ n.version \in {m.version, m.version + 1}
    /\ n.finalized = m.finalized /\ n.state = m.state

FinalizedShape(m, n) ==
    /\ n \in Match /\ m.status = 3 /\ ~m.finalized /\ Same(m, n) /\ NoncesKept(m, n)
    /\ n.status = 3 /\ n.winner = m.winner /\ n.version = m.version
    /\ n.finalized /\ n.state = m.state

\* A match with another session of one side.
WithSession(m, side, x) == [m EXCEPT !.session[side] = x]

\* It differs in that session only.
LEMMA SessionFacts ==
    ASSUME NEW m \in Match, NEW side \in Sides, NEW x \in Session,
           NEW n, n = WithSession(m, side, x)
    PROVE  /\ n \in Match /\ Same(m, n) /\ n.status = m.status /\ n.winner = m.winner
           /\ n.version = m.version /\ n.finalized = m.finalized /\ n.state = m.state
           /\ x.nonce = m.session[side].nonce => NoncesKept(m, n)
           /\ n.session[side] = x
           /\ \A o \in Sides \ {side} : n.session[o] = m.session[o]
<1>1. m.session \in [Sides -> Session]
    BY DEF Match
<1>2. PICK y : y = [m.session EXCEPT ![side] = x]
    OBVIOUS
<1>3. y \in [Sides -> Session] /\ \A s \in Sides : y[s] = IF s = side THEN x ELSE m.session[s]
    BY <1>1, <1>2
<1>4. n = [m EXCEPT !.session = y]
    BY <1>2 DEF WithSession
<1>5. QED
    BY <1>3, <1>4 DEF Match, Same, NoncesKept

\* createMatch makes a match that waits for both secrets, of the two players who
\* signed the joins.
LEMMA CreatedFacts ==
    ASSUME TypeOK, NEW a, NEW b, NEW p \in Players, NEW q \in Players,
           a \in Joins(p), b \in Joins(q), NEW ranked \in RankedChoices, NEW chaos \in ChaosChoices,
           NEW n, n = NewMatch(a, b, ranked, chaos)
    PROVE  CreatedShape(NoMatch, n, p, q)
<1>1. /\ a.player = p /\ a.key \in Keys /\ a.expiry \in Nat /\ a.inputs \in Nat
      /\ b.player = q /\ b.key \in Keys /\ b.expiry \in Nat /\ b.inputs \in Nat
    <2>1. now \in Nat /\ SessionLengths \subseteq Nat /\ InputCounts \subseteq Nat
        BY GameAssumption DEF TypeOK, ArcadeTypeOK
    <2>2. \A d \in SessionLengths : now + d \in Nat
        BY <2>1
    <2>3. QED
        BY <2>1, <2>2 DEF Joins
<1>2. JoinedSession(a) \in Session /\ JoinedSession(b) \in Session
      /\ JoinedSession(a).nonce = 0 /\ JoinedSession(b).nonce = 0
    BY <1>1 DEF JoinedSession, NoSession, Session
<1>3. ranked \in BOOLEAN /\ chaos \in BOOLEAN /\ maxInputsPerBlock \in Nat /\ now \in Nat
    BY GameAssumption DEF TypeOK, ArcadeTypeOK
<1>4. PICK sess : sess = [s \in Sides |-> JoinedSession(IF s = "A" THEN a ELSE b)]
    OBVIOUS
<1>5. sess \in [Sides -> Session] /\ \A s \in Sides : sess[s].nonce = 0
    BY <1>2, <1>4
<1>6. PICK pl : pl = [s \in Sides |-> IF s = "A" THEN p ELSE q]
    OBVIOUS
<1>7. pl \in [Sides -> Players]
    BY <1>6
<1>8. n = [NoMatch EXCEPT !.status = 1, !.created = now, !.ranked = ranked, !.chaos = chaos,
                    !.inputLimit = maxInputsPerBlock, !.player = pl, !.session = sess]
    BY <1>1, <1>4, <1>6 DEF NewMatch
<1>9. n = [status |-> 1, player |-> pl, winner |-> NoWinner,
            version |-> 0, revealed |-> {}, created |-> now, startBlock |-> 0, startedAt |-> 0,
            ranked |-> ranked, chaos |-> chaos, finalized |-> FALSE, inputLimit |-> maxInputsPerBlock,
            session |-> sess, state |-> NoState]
    BY ONLY <1>8, Zenon DEF NoMatch
<1>10. NoState \in State /\ \A s \in Sides : NoMatch.session[s].nonce = 0
    BY PhysicsBounds DEF NoState, State, NoMatch, NoSession
<1>11. n \in Match
    BY <1>3, <1>5, <1>7, <1>9, <1>10 DEF Match
<1>12. QED
    BY <1>5, <1>6, <1>9, <1>10, <1>11 DEF CreatedShape, NoncesKept

\* The second secret starts the match at play time 0.
LEMMA StartedFacts ==
    ASSUME TypeOK, ClockOK, NEW m \in Match, m.status = 1, NEW gap \in 1..MaxGap,
           NEW n, n = StartedMatch(m, gap)
    PROVE  StartedShape(m, n)
<1>1. ActiveBlock \in Nat /\ now \in Nat /\ gap \in Nat
    BY ClockIsNat DEF TypeOK, ArcadeTypeOK
<1>2. PICK z : z = [NoState EXCEPT !.nextAt = gap]
    OBVIOUS
<1>3. z \in State /\ z.t = 0
    <2>1. NoState \in State /\ NoState.t = 0
        BY PhysicsBounds DEF NoState, State
    <2>2. QED
        BY <1>1, <1>2, <2>1 DEF State
<1>4. PICK j : j = [m EXCEPT !.revealed = Sides, !.status = 2]
    OBVIOUS
<1>5. /\ j \in Match /\ j.player = m.player /\ j.ranked = m.ranked
      /\ j.finalized = m.finalized /\ j.session = m.session /\ j.status = 2
      /\ j.winner = m.winner /\ j.version = m.version
    <2>1. ASSUME NEW R \in SUBSET Sides, NEW i, i = [m EXCEPT !.revealed = R]
          PROVE  i \in Match
        BY <2>1 DEF Match
    <2>2. PICK i : i = [m EXCEPT !.revealed = Sides]
        OBVIOUS
    <2>3. i \in Match /\ j = [i EXCEPT !.status = 2]
        BY <1>4, <2>1, <2>2
    <2>4. j \in Match
        BY <2>3 DEF Match
    <2>5. QED
        BY <1>4, <2>4 DEF Match
<1>6. PICK k : k = [j EXCEPT !.startBlock = ActiveBlock, !.startedAt = now, !.state = z]
    OBVIOUS
<1>7. ASSUME NEW b \in Nat, b = ActiveBlock, NEW w \in Nat, w = now
      PROVE  /\ k \in Match /\ k.player = m.player /\ k.ranked = m.ranked
             /\ k.finalized = m.finalized /\ k.session = m.session /\ k.status = 2
             /\ k.winner = m.winner /\ k.version = m.version /\ k.startBlock = b /\ k.state = z
    <2>1. k = [j EXCEPT !.startBlock = b, !.startedAt = w, !.state = z]
        BY <1>6, <1>7
    <2>2. QED
        BY ONLY <1>3, <1>5, <2>1, b \in Nat, w \in Nat DEF Match
<1>8. n = Emit(k)
    BY <1>2, <1>4, <1>6 DEF StartedMatch
<1>9. /\ n \in Match /\ SameMatch(k, n) /\ n.version = k.version + 1
      /\ n.state = k.state /\ n.status = k.status /\ n.winner = k.winner
    BY <1>1, <1>7, <1>8, EmitFacts
<1>10. QED
    BY <1>1, <1>3, <1>7, <1>9 DEF StartedShape, SameMatch, NoncesKept

-----------------------------------------------------------------------------
(* The steps of the game, by what they do to one match. *)

\* A step that changes no match.
StillStep ==
    /\ UNCHANGED <<matches, activeMatchOf, pendingRatingOf, ladder>>
    /\ NewBlock \/ SetPaused \/ UNCHANGED <<now, clockVars>>

\* A step that turns matches[id] into n.
GameStep(id, n) ==
    /\ matches' = [matches EXCEPT ![id] = n]
    /\ UNCHANGED <<now, clockVars>>
    /\ \/ /\ \/ KeptShape(matches[id], n)
             \/ StartedShape(matches[id], n)
             \/ PlayedShape(matches[id], n)
          /\ UNCHANGED <<activeMatchOf, pendingRatingOf, ladder>>
       \/ /\ \E p, q \in Players :
                /\ p # q /\ Free(p) /\ Free(q)
                /\ CreatedShape(matches[id], n, p, q)
                /\ activeMatchOf' = [x \in Players |-> IF x \in {p, q} THEN id ELSE activeMatchOf[x]]
          /\ UNCHANGED <<pendingRatingOf, ladder>>
       \/ /\ DecidedShape(matches[id], n)
          /\ Release(matches[id]) /\ Gate(id, matches[id]) /\ UNCHANGED ladder
       \/ /\ CancelledShape(matches[id], n)
          /\ Release(matches[id]) /\ UNCHANGED <<pendingRatingOf, ladder>>
       \/ /\ FinalizedShape(matches[id], n)
          /\ pendingRatingOf' = [p \in Players |->
                 IF p \in PlayersOf(matches[id]) THEN 0 ELSE pendingRatingOf[p]]
          /\ IF matches[id].ranked THEN Rate(matches[id]) ELSE UNCHANGED ladder
          /\ UNCHANGED activeMatchOf

\* The clock of a live match is a natural number that its state has not passed.
LEMMA LiveClock ==
    ASSUME IInv, NEW id \in Ids, matches[id].status = 2
    PROVE  /\ matches[id] \in Match
           /\ Clock(matches[id]) \in Nat /\ matches[id].state.t <= Clock(matches[id])
<1>1. matches[id] \in Match /\ ActiveBlock \in Nat /\ Behind(matches[id])
    BY ClockIsNat DEF IInv, TypeOK
<1>2. matches[id].startBlock \in Nat /\ matches[id].state.t \in Nat
    BY <1>1 DEF Match, State
<1>3. Clock(matches[id]) = ActiveBlock - matches[id].startBlock
    BY DEF Clock
<1>4. QED
    BY <1>1, <1>2, <1>3 DEF Behind

\* createMatch changes one match: the next one, for two free players.
LEMMA CreateStepShape ==
    ASSUME IInv, CreateStep
    PROVE  \E id \in Ids : \E n \in Match : GameStep(id, n)
<1>1. PICK id \in Ids, p \in Players, q \in Players, room \in Rooms,
           ranked \in RankedChoices, chaos \in ChaosChoices :
          IsNextId(id) /\ \E a \in Joins(p), b \in Joins(q) :
              CreateMatch(id, a, b, room, ranked, chaos)
    BY DEF CreateStep
<1>2. PICK a \in Joins(p), b \in Joins(q) : CreateMatch(id, a, b, room, ranked, chaos)
    BY <1>1
<1>3. a.player = p /\ b.player = q
    BY DEF Joins
<1>4. matches[id] = NoMatch
    BY <1>1, GameAssumption DEF IInv, TypeOK, IsNextId, Consistent
<1>5. PICK n : n = NewMatch(a, b, ranked, chaos)
    OBVIOUS
<1>6. CreatedShape(NoMatch, n, p, q)
    BY <1>5, CreatedFacts DEF IInv
<1>7. GameStep(id, n)
    BY <1>2, <1>3, <1>4, <1>5, <1>6 DEF CreateMatch, GameStep
<1>8. QED
    BY <1>6, <1>7 DEF CreatedShape

\* So does reveal, which starts the match or keeps it waiting.
LEMMA RevealShape ==
    ASSUME IInv, NEW id \in Ids, NEW side \in Sides, Reveal(id, side)
    PROVE  \E n \in Match : GameStep(id, n)
<1>1. matches[id] \in Match /\ matches[id].status = 1
    BY DEF IInv, TypeOK, Reveal
<1>2. CASE Other(side) \in matches[id].revealed
    <2>1. PICK gap \in 1..MaxGap : matches' = [matches EXCEPT ![id] = StartedMatch(matches[id], gap)]
        BY <1>2 DEF Reveal
    <2>2. PICK n : n = StartedMatch(matches[id], gap)
        OBVIOUS
    <2>3. StartedShape(matches[id], n)
        BY <1>1, <2>2, StartedFacts DEF IInv
    <2>4. GameStep(id, n)
        BY <2>1, <2>2, <2>3 DEF Reveal, GameStep
    <2>5. QED
        BY <2>3, <2>4 DEF StartedShape
<1>3. CASE Other(side) \notin matches[id].revealed
    <2>1. PICK n : n = [matches[id] EXCEPT !.revealed = {side}]
        OBVIOUS
    <2>2. KeptShape(matches[id], n)
        BY <1>1, <2>1 DEF KeptShape, Same, NoncesKept, Match
    <2>3. matches' = [matches EXCEPT ![id] = n]
        BY <1>3, <2>1 DEF Reveal
    <2>4. GameStep(id, n)
        BY <2>2, <2>3 DEF Reveal, GameStep
    <2>5. QED
        BY <2>2, <2>4 DEF KeptShape
<1>4. QED
    BY <1>2, <1>3

\* resolveEvent resolves one live match and, at a win, releases and gates its players.
LEMMA ResolveShape ==
    ASSUME IInv, NEW id \in Ids, ResolveEvent(id)
    PROVE  \E n \in Match : GameStep(id, n)
<1> DEFINE m == matches[id]
<1>1. m.status = 2
    BY DEF ResolveEvent
<1>2. PICK r \in Advance(m) :
          /\ matches' = [matches EXCEPT ![id] = r.match]
          /\ IF r.match.status = 3 THEN Release(r.match) /\ Gate(id, r.match)
                                   ELSE UNCHANGED <<activeMatchOf, pendingRatingOf>>
    BY DEF ResolveEvent
<1>3. Resolved(m, r.match, Clock(m))
    BY <1>1, LiveClock, AdvanceFacts
<1>4. UNCHANGED <<now, clockVars>> /\ UNCHANGED ladder
    BY DEF ResolveEvent
<1>5. CASE r.match.status = 2
    <2>1. PlayedShape(m, r.match)
        BY <1>1, <1>3, <1>5 DEF Resolved, PlayedShape, SameMatch, Same, NoncesKept
    <2>2. UNCHANGED <<activeMatchOf, pendingRatingOf, ladder>>
        BY <1>2, <1>4, <1>5
    <2>3. r.match \in Match /\ GameStep(id, r.match)
        BY <1>2, <1>4, <2>1, <2>2 DEF GameStep, PlayedShape
    <2>4. QED
        BY <2>3
<1>6. CASE r.match.status = 3
    <2>1. DecidedShape(m, r.match)
        BY <1>1, <1>3, <1>6 DEF Resolved, DecidedShape, SameMatch, Same, NoncesKept
    <2>2. Release(m) /\ Gate(id, m)
        BY <1>2, <1>6, <2>1 DEF DecidedShape, Same, Release, Gate, PlayersOf
    <2>3. QED
        BY <1>2, <1>4, <2>1, <2>2 DEF GameStep, DecidedShape
<1>7. QED
    BY <1>3, <1>5, <1>6 DEF Resolved

\* One more input is one more nonce and one less to spend.
LEMMA SpentFacts ==
    ASSUME NEW x \in Session, x.remaining > 0, NEW k \in Nat, now \in Nat
    PROVE  Spent(x, k) \in Session /\ Spent(x, k).nonce = k
<1>1. PICK b \in Nat, d \in Nat :
          Spent(x, k) = [x EXCEPT !.nonce = k, !.remaining = b, !.rateBlock = now, !.rateCount = d]
    <2>1. x.remaining - 1 \in Nat /\ x.rateCount \in Nat
        BY DEF Session
    <2>2. 1 + (IF x.rateBlock = now THEN x.rateCount ELSE 0) \in Nat
        BY <2>1
    <2>3. Spent(x, k) = [x EXCEPT !.nonce = k, !.remaining = x.remaining - 1, !.rateBlock = now,
                                  !.rateCount = 1 + (IF x.rateBlock = now THEN x.rateCount ELSE 0)]
        BY DEF Spent
    <2>4. QED
        BY <2>1, <2>2, <2>3
<1>2. PICK y : y = Spent(x, k)
    OBVIOUS
<1>3. y = [x EXCEPT !.nonce = k, !.remaining = b, !.rateBlock = now, !.rateCount = d]
    BY <1>1, <1>2
<1>4. \A c \in Nat : c = now => y \in Session /\ y.nonce = k
    BY ONLY <1>3, x \in Session, k \in Nat, b \in Nat, d \in Nat DEF Session
<1>5. QED
    BY <1>2, <1>4

\* submitInput resolves one live match and counts one input of one side.
LEMMA SubmitShape ==
    ASSUME IInv, NEW id \in Ids, NEW side \in Sides, NEW k \in Nat, SubmitInput(id, side, k)
    PROVE  \E n \in Match : GameStep(id, n)
<1> DEFINE m == matches[id]
           x == m.session[side]
<1>1. m.status = 2 /\ m \in Match /\ x \in Session /\ x.remaining > 0 /\ now \in Nat
    BY DEF SubmitInput, IInv, TypeOK, ArcadeTypeOK, Match
<1>2. PICK r \in Advance(m) :
          /\ r.match.status = 2
          /\ matches' = [matches EXCEPT ![id] = Emit([r.match EXCEPT !.session[side] = Spent(x, k)])]
    BY DEF SubmitInput
<1>3. Resolved(m, r.match, Clock(m))
    BY <1>1, LiveClock, AdvanceFacts
<1>4. PICK y, d : y = Spent(x, k) /\ d = WithSession(r.match, side, y)
    OBVIOUS
<1>5. y \in Session /\ y.nonce = k
    BY <1>1, <1>4, SpentFacts
<1>6. /\ d \in Match /\ Same(r.match, d) /\ d.status = r.match.status /\ d.winner = r.match.winner
      /\ d.version = r.match.version /\ d.finalized = r.match.finalized /\ d.state = r.match.state
      /\ d.session[side] = y
      /\ \A o \in Sides \ {side} : d.session[o] = r.match.session[o]
    <2>1. PICK q : q = r.match
        OBVIOUS
    <2>2. q \in Match /\ d = WithSession(q, side, y)
        BY <1>3, <1>4, <2>1 DEF Resolved
    <2>3. /\ d \in Match /\ Same(q, d) /\ d.status = q.status /\ d.winner = q.winner
          /\ d.version = q.version /\ d.finalized = q.finalized /\ d.state = q.state
          /\ d.session[side] = y /\ \A o \in Sides \ {side} : d.session[o] = q.session[o]
        BY ONLY <1>5, <2>2, side \in Sides, SessionFacts
    <2>4. QED
        BY <2>1, <2>3
<1>7. PICK n : n = Emit(d)
    OBVIOUS
<1>8. /\ n \in Match /\ SameMatch(d, n) /\ n.version = d.version + 1
      /\ n.state = d.state /\ n.status = d.status /\ n.winner = d.winner
    BY <1>6, <1>7, EmitFacts
<1>9. n.version \in {m.version, m.version + 1, m.version + 2}
    <2>1. m.version \in Nat
        BY <1>1 DEF Match
    <2>2. n.version = r.match.version + 1
        BY <1>6, <1>8
    <2>3. r.match.version = m.version \/ r.match.version = m.version + 1
        BY <1>3 DEF Resolved
    <2>4. QED
        BY ONLY <2>1, <2>2, <2>3
<1>10. /\ n.player = m.player /\ n.ranked = m.ranked /\ n.startBlock = m.startBlock
      /\ n.finalized = m.finalized /\ n.winner = m.winner /\ n.status = 2
      /\ n.state = r.match.state
    BY <1>2, <1>3, <1>6, <1>8 DEF Resolved, Same, SameMatch
<1>11. InputShape(m, n, side)
    <2>1. ValidInput(m.player[side], x.key) /\ x.key # NoKey /\ k = x.nonce + 1
        BY DEF SubmitInput
    <2>3. n.session = d.session /\ r.match.session = m.session
        BY <1>3, <1>8 DEF Resolved, SameMatch
    <2>4. QED
        BY <1>6, <1>5, <2>1, <2>3 DEF InputShape
<1>12. PlayedShape(m, n)
    BY <1>1, <1>3, <1>8, <1>9, <1>10, <1>11 DEF Resolved, PlayedShape, Same
<1>13. UNCHANGED <<activeMatchOf, pendingRatingOf, ladder>> /\ UNCHANGED <<now, clockVars>>
    BY DEF SubmitInput
<1>14. matches' = [matches EXCEPT ![id] = n]
    BY <1>2, <1>4, <1>7 DEF WithSession
<1>15. QED
    BY <1>8, <1>12, <1>13, <1>14 DEF GameStep

\* authorizeSession changes one session, and not its input nonce.
LEMMA AuthorizeShape ==
    ASSUME IInv, NEW id \in Ids, NEW side \in Sides, NEW signer, NEW key \in Keys \cup {NoKey},
           NEW expiry \in Nat, NEW inputs \in Nat,
           AuthorizeSession(id, side, signer, key, expiry, inputs)
    PROVE  \E n \in Match : GameStep(id, n)
<1> DEFINE m == matches[id]
           x == m.session[side]
<1>1. m.status = 2 /\ m \in Match /\ x \in Session
    BY DEF AuthorizeSession, IInv, TypeOK, Match
<1>2. PICK y : y = [x EXCEPT !.key = key, !.expiry = expiry, !.remaining = inputs]
    OBVIOUS
<1>3. y \in Session /\ y.nonce = x.nonce
    BY <1>1, <1>2 DEF Session
<1>4. PICK n : n = WithSession(m, side, y)
    OBVIOUS
<1>5. KeptShape(m, n)
    BY <1>1, <1>3, <1>4, SessionFacts DEF KeptShape
<1>6. matches' = [matches EXCEPT ![id] = n]
    BY <1>1, <1>2, <1>4 DEF AuthorizeSession, IInv, TypeOK, WithSession
<1>7. UNCHANGED <<activeMatchOf, pendingRatingOf, ladder>> /\ UNCHANGED <<now, clockVars>>
    BY DEF AuthorizeSession
<1>8. QED
    BY <1>5, <1>6, <1>7 DEF GameStep, KeptShape

\* So does the revocation of a session.
LEMMA RevokeShape ==
    ASSUME IInv, NEW id \in Ids, NEW side \in Sides, NEW signer, RevokeSession(id, side, signer)
    PROVE  \E n \in Match : GameStep(id, n)
<1> DEFINE m == matches[id]
           x == m.session[side]
<1>1. m.status = 2 /\ m \in Match /\ x \in Session
    BY DEF RevokeSession, IInv, TypeOK, Match
<1>2. PICK y : y = [x EXCEPT !.key = NoKey]
    OBVIOUS
<1>3. y \in Session /\ y.nonce = x.nonce
    BY <1>1, <1>2 DEF Session
<1>4. PICK n : n = WithSession(m, side, y)
    OBVIOUS
<1>5. KeptShape(m, n)
    BY <1>1, <1>3, <1>4, SessionFacts DEF KeptShape
<1>6. matches' = [matches EXCEPT ![id] = n]
    BY <1>1, <1>2, <1>4 DEF RevokeSession, IInv, TypeOK, WithSession
<1>7. UNCHANGED <<activeMatchOf, pendingRatingOf, ladder>> /\ UNCHANGED <<now, clockVars>>
    BY DEF RevokeSession
<1>8. QED
    BY <1>5, <1>6, <1>7 DEF GameStep, KeptShape

\* A concession decides one live match.
LEMMA ConcedeShape ==
    ASSUME IInv, NEW id \in Ids, NEW side \in Sides, NEW signer, Concede(id, side, signer)
    PROVE  \E n \in Match : GameStep(id, n)
<1> DEFINE m == matches[id]
<1>1. m.status = 2 /\ m \in Match /\ Other(side) \in Sides
    BY DEF Concede, IInv, TypeOK, Other, Sides
<1>2. PICK d : d = Decide(m, Other(side))
    OBVIOUS
<1>3. /\ d \in Match /\ SameMatch(m, d) /\ d.version = m.version
      /\ d.state = m.state /\ d.status = 3 /\ d.winner = Other(side)
    BY <1>1, <1>2, DecidedFacts
<1>4. PICK n : n = Emit(d)
    OBVIOUS
<1>5. /\ n \in Match /\ SameMatch(d, n) /\ n.version = d.version + 1
      /\ n.state = d.state /\ n.status = d.status /\ n.winner = d.winner
    BY <1>3, <1>4, EmitFacts
<1>6. DecidedShape(m, n)
    BY <1>1, <1>3, <1>5 DEF DecidedShape, SameMatch, Same, NoncesKept
<1>7. /\ matches' = [matches EXCEPT ![id] = n] /\ Release(m) /\ Gate(id, m)
      /\ UNCHANGED ladder /\ UNCHANGED <<now, clockVars>>
    BY <1>2, <1>4 DEF Concede
<1>8. QED
    BY <1>5, <1>6, <1>7 DEF GameStep

\* A cancellation ends one match that is not decided, with or without a snapshot.
LEMMA CancelShape ==
    ASSUME IInv, NEW id \in Ids, CancelUnstarted(id) \/ CancelStalled(id)
    PROVE  \E n \in Match : GameStep(id, n)
<1> DEFINE m == matches[id]
<1>1. m \in Match /\ m.status \in {1, 2}
    BY DEF IInv, TypeOK, CancelUnstarted, CancelStalled
<1>2. PICK d : d = [m EXCEPT !.status = 4]
    OBVIOUS
<1>3. /\ d \in Match /\ SameMatch(m, d) /\ d.status = 4 /\ d.winner = m.winner
      /\ d.version = m.version /\ d.state = m.state
    BY <1>1, <1>2 DEF Match, SameMatch
<1>4. PICK n : n = Emit(d)
    OBVIOUS
<1>5. /\ n \in Match /\ SameMatch(d, n) /\ n.version = d.version + 1
      /\ n.state = d.state /\ n.status = d.status /\ n.winner = d.winner
    BY <1>3, <1>4, EmitFacts
<1>6. CancelledShape(m, d) /\ CancelledShape(m, n)
    BY <1>1, <1>3, <1>5 DEF CancelledShape, SameMatch, Same, NoncesKept
<1>7. /\ matches' = [matches EXCEPT ![id] = d] \/ matches' = [matches EXCEPT ![id] = n]
      /\ Release(m) /\ UNCHANGED <<pendingRatingOf, ladder>> /\ UNCHANGED <<now, clockVars>>
    BY <1>1, <1>2, <1>4 DEF CancelUnstarted, CancelStalled, IInv, TypeOK
<1>8. QED
    BY <1>3, <1>5, <1>6, <1>7 DEF GameStep

\* finalizeRating rates one decided match.
LEMMA FinalizeShape ==
    ASSUME IInv, NEW id \in Ids, FinalizeRating(id)
    PROVE  \E n \in Match : GameStep(id, n)
<1> DEFINE m == matches[id]
<1>1. m \in Match /\ m.status = 3 /\ ~m.finalized
    BY DEF IInv, TypeOK, FinalizeRating
<1>2. PICK n : n = [m EXCEPT !.finalized = TRUE]
    OBVIOUS
<1>3. n \in Match /\ FinalizedShape(m, n)
    BY <1>1, <1>2 DEF Match, FinalizedShape, Same, NoncesKept
<1>4. matches' = [matches EXCEPT ![id] = n]
    BY <1>2 DEF FinalizeRating
<1>5. QED
    BY <1>3, <1>4 DEF GameStep, FinalizeRating

\* Every step of the game leaves the matches alone or is a step of one match.
LEMMA StepShapes ==
    ASSUME IInv, [Next]_vars
    PROVE  StillStep \/ \E id \in Ids : \E n \in Match : GameStep(id, n)
<1>1. CASE NewBlock \/ SetPaused
    BY <1>1 DEF NewBlock, SetPaused, gameVars, StillStep
<1>2. CASE \E n \in InputLimits : SetInputLimit(n)
    BY <1>2 DEF SetInputLimit, StillStep
<1>3. CASE (ArcadeStep /\ UNCHANGED gameVars) \/ UNCHANGED vars
    BY <1>3 DEF ArcadeStep, Register, Revoke, gameVars, vars, clockVars, StillStep
<1>4. CASE CreateStep
    BY <1>4, CreateStepShape
<1>5. CASE \E id \in Ids, side \in Sides : Reveal(id, side)
    BY <1>5, RevealShape
<1>6. CASE \E id \in Ids : ResolveEvent(id)
    BY <1>6, ResolveShape
<1>7. CASE \E id \in Ids, side \in Sides, n \in 1..MaxInputNonce : SubmitInput(id, side, n)
    BY <1>7, SubmitShape
<1>8. CASE SessionStep
    <2>1. \A d \in SessionLengths : now + d \in Nat
        BY GameAssumption DEF IInv, TypeOK, ArcadeTypeOK
    <2>2. InputCounts \subseteq Nat
        BY GameAssumption
    <2>3. QED
        BY <1>8, <2>1, <2>2, AuthorizeShape, RevokeShape, ConcedeShape DEF SessionStep
<1>9. CASE \E id \in Ids : CancelUnstarted(id) \/ CancelStalled(id)
    BY <1>9, CancelShape
<1>10. CASE \E id \in Ids : FinalizeRating(id)
    BY <1>10, FinalizeShape
<1>11. QED
    BY <1>1, <1>2, <1>3, <1>4, <1>5, <1>6, <1>7, <1>8, <1>9, <1>10 DEF Next

-----------------------------------------------------------------------------
(* The inductive invariant. *)

\* Blocks, the pause and the arcade move apart from the game's own counters.
LEMMA Frames ==
    ASSUME TypeOK, [Next]_vars
    PROVE  \/ NewBlock
           \/ SetPaused
           \/ ArcadeStep /\ UNCHANGED gameVars
           \/ /\ UNCHANGED <<now, arcadeVars, clockVars>>
              /\ nonces' \in [Players -> Nat] /\ usedRooms' \subseteq Rooms
              /\ maxInputsPerBlock' \in InputLimits
<1>0. /\ nonces \in [Players -> Nat] /\ usedRooms \subseteq Rooms
      /\ maxInputsPerBlock \in InputLimits
    BY DEF TypeOK
<1>1. CASE UNCHANGED vars
    BY <1>0, <1>1 DEF vars, gameVars, clockVars
<1>2. CASE \E n \in InputLimits : SetInputLimit(n)
    BY <1>0, <1>2 DEF SetInputLimit
<1>3. CASE CreateStep
    <2>1. PICK id \in Ids, p \in Players, q \in Players, room \in Rooms,
               ranked \in RankedChoices, chaos \in ChaosChoices :
              \E a \in Joins(p), b \in Joins(q) : CreateMatch(id, a, b, room, ranked, chaos)
        BY <1>3 DEF CreateStep
    <2>2. PICK a, b : CreateMatch(id, a, b, room, ranked, chaos)
        BY <2>1
    <2>3. nonces' \in [Players -> Nat]
        BY <1>0, <2>2 DEF CreateMatch
    <2>4. QED
        BY <1>0, <2>2, <2>3 DEF CreateMatch
<1>4. CASE \E id \in Ids, side \in Sides : Reveal(id, side)
    BY <1>0, <1>4 DEF Reveal
<1>5. CASE \E id \in Ids : ResolveEvent(id)
    BY <1>0, <1>5 DEF ResolveEvent
<1>6. CASE \E id \in Ids, side \in Sides, n \in 1..MaxInputNonce : SubmitInput(id, side, n)
    BY <1>0, <1>6 DEF SubmitInput
<1>7. CASE SessionStep
    <2>1. PICK id, side, signer, key, expiry, n :
              \/ RevokeSession(id, side, signer)
              \/ Concede(id, side, signer)
              \/ AuthorizeSession(id, side, signer, key, expiry, n)
        BY <1>7 DEF SessionStep
    <2>2. nonces' = [nonces EXCEPT ![matches[id].player[side]] = @ + 1]
        BY <2>1 DEF RevokeSession, Concede, AuthorizeSession
    <2>3. PICK p : nonces' = [nonces EXCEPT ![p] = @ + 1]
        BY <2>2
    <2>4. nonces' \in [Players -> Nat]
        <3>1. CASE p \in Players
            BY <1>0, <2>3, <3>1
        <3>2. CASE p \notin Players
            BY <1>0, <2>3, <3>2
        <3>3. QED
            BY <3>1, <3>2
    <2>5. QED
        BY <1>0, <2>1, <2>4 DEF RevokeSession, Concede, AuthorizeSession
<1>8. CASE \E id \in Ids : CancelUnstarted(id) \/ CancelStalled(id)
    BY <1>0, <1>8 DEF CancelUnstarted, CancelStalled
<1>9. CASE \E id \in Ids : FinalizeRating(id)
    <2>1. PICK id \in Ids : FinalizeRating(id)
        BY <1>9
    <2>2. /\ UNCHANGED <<now, arcadeVars, nonces, usedRooms>>
          /\ UNCHANGED maxInputsPerBlock /\ UNCHANGED clockVars
        BY <2>1 DEF FinalizeRating
    <2>3. QED
        BY <1>0, <2>2
<1>10. QED
    BY <1>1, <1>2, <1>3, <1>4, <1>5, <1>6, <1>7, <1>8, <1>9 DEF Next

\* The arcade registry, the counters and the pause stay well typed.
LEMMA RestTypes ==
    ASSUME TypeOK, ClockOK, [Next]_vars
    PROVE  /\ ArcadeTypeOK'
           /\ nonces' \in [Players -> Nat] /\ (usedRooms \subseteq Rooms)'
           /\ maxInputsPerBlock' \in InputLimits
           /\ paused' \in BOOLEAN /\ pauseStart' \in Nat /\ pausedBlocks' \in Nat
<1>0. /\ ArcadeTypeOK /\ nonces \in [Players -> Nat] /\ usedRooms \subseteq Rooms
      /\ maxInputsPerBlock \in InputLimits /\ paused \in BOOLEAN
      /\ pauseStart \in Nat /\ pausedBlocks \in Nat /\ now \in Nat /\ pauseStart <= now
    BY DEF TypeOK, ArcadeTypeOK, ClockOK
<1>1. CASE NewBlock
    BY <1>0, <1>1, ArcadeAssumption DEF NewBlock, arcadeVars, gameVars, ArcadeTypeOK
<1>2. CASE SetPaused
    <2>1. /\ now' = now /\ arcadeVars' = arcadeVars /\ nonces' = nonces /\ usedRooms' = usedRooms
          /\ maxInputsPerBlock' = maxInputsPerBlock /\ paused' \in BOOLEAN
        BY <1>2 DEF SetPaused
    <2>2. \/ pausedBlocks' = pausedBlocks + (now - pauseStart) /\ pauseStart' = pauseStart
          \/ pausedBlocks' = pausedBlocks /\ pauseStart' = now
        BY <1>2 DEF SetPaused
    <2>3. pausedBlocks' \in Nat /\ pauseStart' \in Nat
        BY <1>0, <2>2
    <2>4. QED
        BY <1>0, <2>1, <2>3 DEF arcadeVars, ArcadeTypeOK
<1>3. CASE ArcadeStep /\ UNCHANGED gameVars
    <2>1. ArcadeTypeOK'
        <3>1. ASSUME NEW p \in Players, NEW k \in Keys, NEW d \in GrantLengths,
                     Register(p, k, now + d)
              PROVE  ArcadeTypeOK'
            <4>1. now + d \in 0..(MaxBlock + GrantLife) /\ arcadeNonces[p] + 1 \in 0..MaxGrants
                BY <1>0, <3>1, ArcadeAssumption DEF Register, ArcadeTypeOK
            <4>2. QED
                BY <1>0, <3>1, <4>1 DEF Register, ArcadeTypeOK
        <3>2. ASSUME NEW p \in Players, Revoke(p) PROVE ArcadeTypeOK'
            <4>1. arcadeNonces[p] + 1 \in 0..MaxGrants /\ 0 \in 0..(MaxBlock + GrantLife)
                BY <1>0, <3>2, ArcadeAssumption DEF Revoke, ArcadeTypeOK
            <4>2. QED
                BY <1>0, <3>2, <4>1 DEF Revoke, ArcadeTypeOK, NoGrant
        <3>3. QED
            BY <1>3, <3>1, <3>2 DEF ArcadeStep
    <2>2. QED
        BY <1>0, <1>3, <2>1 DEF gameVars
<1>4. CASE /\ UNCHANGED <<now, arcadeVars, clockVars>>
           /\ nonces' \in [Players -> Nat] /\ usedRooms' \subseteq Rooms
           /\ maxInputsPerBlock' \in InputLimits
    <2>1. ArcadeTypeOK' /\ paused' \in BOOLEAN /\ pauseStart' \in Nat /\ pausedBlocks' \in Nat
        BY <1>0, <1>4 DEF arcadeVars, clockVars, ArcadeTypeOK
    <2>2. QED
        BY <1>0, <1>4, <2>1
<1>5. QED
    BY <1>1, <1>2, <1>3, <1>4, Frames

\* A step of one match keeps it consistent and behind its clock.
LEMMA ShapeKeeps ==
    ASSUME IInv, NEW id \in Ids, NEW n \in Match, GameStep(id, n)
    PROVE  Consistent(n) /\ Behind(n)
<1> DEFINE m == matches[id]
<1>0. /\ m \in Match /\ Consistent(m) /\ Behind(m) /\ ActiveBlock \in Nat /\ m.state.t \in Nat
      /\ m.startBlock \in Nat /\ n.state.t \in Nat /\ n.startBlock \in Nat
      /\ NoWinner \notin Sides
    BY ClockIsNat DEF IInv, TypeOK, Match, State, NoWinner, Sides
<1>1. CASE KeptShape(m, n)
    BY <1>0, <1>1 DEF KeptShape, Same, Consistent, Behind
<1>2. CASE StartedShape(m, n)
    BY <1>0, <1>2 DEF StartedShape, Consistent, Behind
<1>3. CASE PlayedShape(m, n)
    <2>1. n.startBlock + n.state.t <= ActiveBlock
        <3>1. Clock(m) = ActiveBlock - m.startBlock
            BY <1>3 DEF Clock, PlayedShape
        <3>2. n.state.t <= Clock(m) /\ n.startBlock = m.startBlock
            BY <1>3 DEF PlayedShape, Same
        <3>3. QED
            BY ONLY <1>0, <3>1, <3>2
    <2>2. QED
        BY <1>0, <1>3, <2>1 DEF PlayedShape, Same, Consistent, Behind
<1>4. ASSUME NEW p \in Players, NEW q \in Players, CreatedShape(m, n, p, q)
      PROVE  Consistent(n) /\ Behind(n)
    BY <1>0, <1>4 DEF CreatedShape, Consistent, Behind
<1>5. CASE DecidedShape(m, n) \/ CancelledShape(m, n) \/ FinalizedShape(m, n)
    BY <1>0, <1>5 DEF DecidedShape, CancelledShape, FinalizedShape, Same, Consistent, Behind
<1>6. QED
    BY <1>1, <1>2, <1>3, <1>4, <1>5 DEF GameStep

\* The bookkeeping of a step of one match is well typed.
LEMMA ShapeTypes ==
    ASSUME IInv, NEW id \in Ids, NEW n \in Match, GameStep(id, n)
    PROVE  /\ matches' \in [Ids -> Match]
           /\ activeMatchOf' \in [Players -> Ids \cup {0}]
           /\ pendingRatingOf' \in [Players -> Ids \cup {0}]
           /\ ladder' \in [Players -> [played : Nat, wins : Nat]]
<1>0. /\ matches \in [Ids -> Match] /\ activeMatchOf \in [Players -> Ids \cup {0}]
      /\ pendingRatingOf \in [Players -> Ids \cup {0}]
      /\ ladder \in [Players -> [played : Nat, wins : Nat]]
    BY DEF IInv, TypeOK
<1>1. matches' \in [Ids -> Match]
    BY <1>0 DEF GameStep
<1>2. activeMatchOf' \in [Players -> Ids \cup {0}]
    BY <1>0 DEF GameStep, Release
<1>3. pendingRatingOf' \in [Players -> Ids \cup {0}]
    BY <1>0 DEF GameStep, Gate
<1>4. ladder' \in [Players -> [played : Nat, wins : Nat]]
    <2>1. CASE Rate(matches[id])
        BY <1>0, <2>1 DEF Rate
    <2>2. QED
        BY <1>0, <2>1 DEF GameStep
<1>5. QED
    BY <1>1, <1>2, <1>3, <1>4

\* The inductive invariant holds initially.
LEMMA InitIInv == Init => IInv
<1> SUFFICES ASSUME Init PROVE IInv
    OBVIOUS
<1>1. NoMatch \in Match
    <2>1. NoState \in State /\ NoSession \in Session
        BY PhysicsBounds DEF NoState, State, NoSession, Session
    <2>2. PICK sess, pl, n : /\ sess = [s \in Sides |-> NoSession]
                             /\ pl = [s \in Sides |-> NoPlayer] /\ n = NoMatch
        OBVIOUS
    <2>3. sess \in [Sides -> Session] /\ pl \in [Sides -> Players \cup {NoPlayer}]
        BY <2>1, <2>2
    <2>4. n = [status |-> 0, player |-> pl, winner |-> NoWinner,
               version |-> 0, revealed |-> {}, created |-> 0, startBlock |-> 0, startedAt |-> 0,
               ranked |-> FALSE, chaos |-> FALSE, finalized |-> FALSE, inputLimit |-> 0,
               session |-> sess, state |-> NoState]
        BY <2>2 DEF NoMatch
    <2>5. n \in Match
        BY <2>1, <2>3, <2>4 DEF Match
    <2>6. QED
        BY <2>2, <2>5
<1>2. TypeOK
    <2>1. ArcadeTypeOK
        BY ArcadeAssumption DEF Init, ArcadeInit, NoGrant, ArcadeTypeOK
    <2>2. matches \in [Ids -> Match]
        BY <1>1 DEF Init
    <2>3. QED
        BY <2>1, <2>2 DEF Init, TypeOK
<1>3. Consistent(NoMatch) /\ Behind(NoMatch)
    BY DEF Consistent, Behind, NoMatch, NoWinner, Sides
<1>4. QED
    BY <1>2, <1>3 DEF Init, ArcadeInit, IInv, ClockOK

\* Every step keeps it.
LEMMA StepIInv == IInv /\ [Next]_vars => IInv'
<1> SUFFICES ASSUME IInv, [Next]_vars PROVE IInv'
    OBVIOUS
<1>0. TypeOK /\ ClockOK /\ \A i \in Ids : Consistent(matches[i]) /\ Behind(matches[i])
    BY DEF IInv
<1>1. CASE StillStep
    <2>1. ClockOK' /\ ActiveBlock \in Nat /\ ActiveBlock' \in Nat /\ ActiveBlock' >= ActiveBlock
        <3>1. ActiveBlock \in Nat
            BY <1>0, ClockIsNat
        <3>2. ClockOK' /\ (ActiveBlock' = ActiveBlock \/ ActiveBlock' = ActiveBlock + 1)
            BY <1>0, <1>1, <3>1, ClockMoves DEF StillStep
        <3>3. QED
            BY <3>1, <3>2
    <2>2. TypeOK'
        BY <1>0, <1>1, RestTypes DEF StillStep, TypeOK
    <2>3. ASSUME NEW i \in Ids PROVE (Consistent(matches[i]) /\ Behind(matches[i]))'
        <3>1. matches'[i] = matches[i] /\ matches[i] \in Match
            BY <1>0, <1>1 DEF StillStep, TypeOK
        <3>2. matches[i].startBlock \in Nat /\ matches[i].state.t \in Nat
            BY <3>1 DEF Match, State
        <3>3. Consistent(matches[i])'
            BY <1>0, <3>1 DEF Consistent
        <3>4. Behind(matches[i])'
            BY <1>0, <2>1, <3>1, <3>2 DEF Behind
        <3>5. QED
            BY <3>3, <3>4
    <2>4. QED
        BY <2>1, <2>2, <2>3 DEF IInv
<1>2. ASSUME NEW id \in Ids, NEW n \in Match, GameStep(id, n)
      PROVE  IInv'
    <2>1. ClockOK' /\ ActiveBlock' = ActiveBlock
        BY <1>0, <1>2, ClockMoves DEF GameStep
    <2>2. TypeOK'
        BY <1>0, <1>2, RestTypes, ShapeTypes DEF TypeOK
    <2>3. Consistent(n) /\ Behind(n)
        BY <1>2, ShapeKeeps
    <2>4. \A i \in Ids : matches'[i] = IF i = id THEN n ELSE matches[i]
        BY <1>0, <1>2 DEF GameStep, TypeOK
    <2>5. \A i \in Ids : (Consistent(matches[i]) /\ Behind(matches[i]))'
        BY <1>0, <2>1, <2>3, <2>4 DEF Consistent, Behind
    <2>6. QED
        BY <2>1, <2>2, <2>5 DEF IInv
<1>3. QED
    BY <1>1, <1>2, StepShapes

\* Type correctness of the game: every reachable value of its storage, and of the
\* arcade registry it reads, has its declared type.
THEOREM GameTypes == Spec => []TypeOK
<1>1. Spec => []IInv
    BY InitIInv, StepIInv, PTL DEF Spec
<1>2. IInv => TypeOK
    BY DEF IInv
<1>3. QED
    BY <1>1, <1>2, PTL

-----------------------------------------------------------------------------
(* Who plays what. *)

InPlay(i, p) == Open(matches[i]) /\ p \in PlayersOf(matches[i])

\* OneActiveMatch, match by match: activeMatchOf is the table of who plays what.
ActiveTable == \A p \in Players, i \in Ids : InPlay(i, p) <=> activeMatchOf[p] = i

\* Nobody plays initially.
LEMMA ActiveTableInit == Init => ActiveTable
<1> SUFFICES ASSUME Init, NEW p \in Players, NEW i \in Ids PROVE ~InPlay(i, p) /\ activeMatchOf[p] # i
    BY DEF ActiveTable
<1>1. i # 0
    BY GameAssumption
<1>2. QED
    BY <1>1 DEF Init, InPlay, Open, NoMatch

\* Every step keeps the table of who plays what.
LEMMA ActiveTableStep ==
    ASSUME IInv, ActiveTable, [Next]_vars
    PROVE  ActiveTable'
<1>0. 0 \notin Ids
    BY GameAssumption
<1>1. CASE StillStep
    BY <1>1 DEF StillStep, ActiveTable, InPlay, Open, PlayersOf
<1>2. ASSUME NEW id \in Ids, NEW n \in Match, GameStep(id, n)
      PROVE  ActiveTable'
    <2> DEFINE m == matches[id]
    <2>0. \A i \in Ids : matches'[i] = IF i = id THEN n ELSE matches[i]
        BY <1>2 DEF GameStep, IInv, TypeOK
    <2>1. SUFFICES ASSUME NEW p \in Players,
                          /\ \A i \in Ids : InPlay(i, p) <=> activeMatchOf[p] = i
                   PROVE  /\ \A i \in Ids \ {id} : activeMatchOf'[p] = i <=> activeMatchOf[p] = i
                          /\ (Open(n) /\ p \in PlayersOf(n)) <=> activeMatchOf'[p] = id
        BY <2>0 DEF ActiveTable, InPlay
    <2>2. activeMatchOf \in [Players -> Ids \cup {0}]
        BY DEF IInv, TypeOK
    <2>3. CASE /\ \/ KeptShape(m, n) \/ StartedShape(m, n)
                  \/ PlayedShape(m, n) \/ FinalizedShape(m, n)
               /\ activeMatchOf' = activeMatchOf
        <3>1. /\ Open(m) <=> Open(n)
              /\ n.player = m.player
            BY <2>3 DEF KeptShape, StartedShape, PlayedShape, FinalizedShape, Same, Open
        <3>2. QED
            BY <2>1, <2>3, <3>1 DEF InPlay, PlayersOf
    <2>4. ASSUME NEW a \in Players, NEW b \in Players, Free(a), Free(b), CreatedShape(m, n, a, b),
                 activeMatchOf' = [x \in Players |-> IF x \in {a, b} THEN id ELSE activeMatchOf[x]]
          PROVE  /\ \A i \in Ids \ {id} : activeMatchOf'[p] = i <=> activeMatchOf[p] = i
                 /\ (Open(n) /\ p \in PlayersOf(n)) <=> activeMatchOf'[p] = id
        <3>1. PlayersOf(n) = {a, b} /\ Open(n) /\ ~Open(m)
            BY <2>4 DEF CreatedShape, PlayersOf, Open, NoMatch, Sides
        <3>2. activeMatchOf[a] = 0 /\ activeMatchOf[b] = 0 /\ activeMatchOf[p] # id
            BY <2>1, <2>4, <3>1 DEF Free, InPlay
        <3>3. QED
            BY <1>0, <2>4, <3>1, <3>2
    <2>5. CASE (DecidedShape(m, n) \/ CancelledShape(m, n)) /\ Release(m)
        <3>1. Open(m) /\ ~Open(n) /\ n.player = m.player
            BY <2>5 DEF DecidedShape, CancelledShape, Same, Open
        <3>2. activeMatchOf'[p] = IF p \in PlayersOf(m) THEN 0 ELSE activeMatchOf[p]
            BY <2>5 DEF Release
        <3>3. QED
            BY <1>0, <2>1, <3>1, <3>2 DEF InPlay
    <2>6. QED
        BY <1>2, <2>3, <2>4, <2>5 DEF GameStep
<1>3. QED
    BY <1>1, <1>2, StepShapes

\* A player is in at most one unfinished match, the one activeMatchOf names, however
\* matches end: points, a concession, or either cancellation.
THEOREM OnePlayerOneMatch == Spec => []OneActiveMatch
<1>1. Init => IInv /\ ActiveTable
    BY InitIInv, ActiveTableInit
<1>2. IInv /\ ActiveTable /\ [Next]_vars => (IInv /\ ActiveTable)'
    BY StepIInv, ActiveTableStep
<1>3. IInv /\ ActiveTable => OneActiveMatch
    <2> SUFFICES ASSUME IInv, ActiveTable, NEW p \in Players
                 PROVE  {i \in Ids : Open(matches[i]) /\ p \in PlayersOf(matches[i])}
                            = IF activeMatchOf[p] = 0 THEN {} ELSE {activeMatchOf[p]}
        BY DEF OneActiveMatch
    <2>1. activeMatchOf[p] \in Ids \cup {0} /\ 0 \notin Ids
        BY GameAssumption DEF IInv, TypeOK
    <2>2. QED
        BY <2>1 DEF ActiveTable, InPlay
<1>4. QED
    BY <1>1, <1>2, <1>3, PTL DEF Spec

-----------------------------------------------------------------------------
(* Ratings. *)

\* The ranked results p won, and the inductive form of RatedByResults: the ranked
\* results of a player are finitely many and the ladder counts them.
WonResults(p) == {i \in Rated(p) : matches[i].player[matches[i].winner] = p}

LadderCounts(p) ==
    /\ IsFiniteSet(Rated(p))
    /\ ladder[p].played = Cardinality(Rated(p))
    /\ ladder[p].wins = Cardinality(WonResults(p))

RatingInv == NoStaleGate /\ \A p \in Players : LadderCounts(p)

\* No result is rated or owed initially.
LEMMA RatingInit == Init => RatingInv
<1> SUFFICES ASSUME Init PROVE RatingInv
    OBVIOUS
<1>1. NoStaleGate
    BY DEF Init, NoStaleGate
<1>2. ASSUME NEW p \in Players PROVE LadderCounts(p)
    <2>1. \A i \in Ids : ~matches[i].finalized
        BY DEF Init, NoMatch
    <2>2. Rated(p) = {} /\ WonResults(p) = {}
        BY <2>1 DEF Rated, WonResults
    <2>3. ladder[p] = [played |-> 0, wins |-> 0]
        BY DEF Init
    <2>4. QED
        BY <2>2, <2>3, FS_EmptySet DEF LadderCounts
<1>3. QED
    BY <1>1, <1>2 DEF RatingInv

\* Only finalizeRating touches a decided match; every other step starts from and
\* leaves a match that is not rated.
LEMMA FinalOrNot ==
    ASSUME IInv, NEW id \in Ids, NEW n \in Match, GameStep(id, n)
    PROVE  LET m == matches[id] IN
           \/ /\ FinalizedShape(m, n)
              /\ pendingRatingOf' = [p \in Players |->
                     IF p \in PlayersOf(m) THEN 0 ELSE pendingRatingOf[p]]
              /\ IF m.ranked THEN Rate(m) ELSE UNCHANGED ladder
           \/ /\ m.status # 3 /\ ~m.finalized /\ ~n.finalized /\ UNCHANGED ladder
              /\ \/ UNCHANGED pendingRatingOf
                 \/ DecidedShape(m, n) /\ Gate(id, m)
<1> DEFINE m == matches[id]
<1>0. m \in Match /\ Consistent(m)
    BY DEF IInv, TypeOK
<1>1. CASE KeptShape(m, n) \/ StartedShape(m, n) \/ PlayedShape(m, n) \/ DecidedShape(m, n)
           \/ CancelledShape(m, n) \/ \E p, q \in Players : CreatedShape(m, n, p, q)
    <2>1. m.status # 3 /\ ~m.finalized /\ ~n.finalized
        <3>1. CASE KeptShape(m, n) \/ StartedShape(m, n) \/ PlayedShape(m, n)
            BY <1>0, <3>1 DEF KeptShape, StartedShape, PlayedShape, Consistent
        <3>2. CASE DecidedShape(m, n) \/ CancelledShape(m, n)
            BY <1>0, <3>2 DEF DecidedShape, CancelledShape, Consistent
        <3>3. CASE \E p, q \in Players : CreatedShape(m, n, p, q)
            BY <3>3 DEF CreatedShape, NoMatch
        <3>4. QED
            BY <1>1, <3>1, <3>2, <3>3
    <2>2. ~FinalizedShape(m, n)
        BY <2>1 DEF FinalizedShape
    <2>3. QED
        BY <2>1, <2>2 DEF GameStep
<1>2. CASE FinalizedShape(m, n)
    <2>1. ~(KeptShape(m, n) \/ StartedShape(m, n) \/ PlayedShape(m, n) \/ DecidedShape(m, n)
            \/ CancelledShape(m, n) \/ \E p, q \in Players : CreatedShape(m, n, p, q))
        BY <1>2 DEF FinalizedShape, KeptShape, StartedShape, PlayedShape, DecidedShape,
            CancelledShape, CreatedShape, NoMatch
    <2>2. QED
        BY <1>2, <2>1 DEF GameStep
<1>3. QED
    BY <1>1, <1>2 DEF GameStep

\* The gate of every player stays justified.
LEMMA GateStep ==
    ASSUME IInv, NoStaleGate, NEW id \in Ids, NEW n \in Match, GameStep(id, n)
    PROVE  NoStaleGate'
<1> DEFINE m == matches[id]
<1>0. /\ \A i \in Ids : matches'[i] = IF i = id THEN n ELSE matches[i]
      /\ pendingRatingOf \in [Players -> Ids \cup {0}] /\ id # 0 /\ Consistent(m)
    BY GameAssumption DEF GameStep, IInv, TypeOK
<1> SUFFICES ASSUME NEW p \in Players, pendingRatingOf'[p] # 0
             PROVE  LET k == matches'[pendingRatingOf'[p]]
                    IN  k.status = 3 /\ k.ranked /\ ~k.finalized /\ p \in PlayersOf(k)
    BY DEF NoStaleGate, PlayersOf
<1>1. CASE pendingRatingOf'[p] = pendingRatingOf[p]
    <2>1. /\ pendingRatingOf[p] \in Ids
          /\ LET k == matches[pendingRatingOf[p]]
             IN  k.status = 3 /\ k.ranked /\ ~k.finalized /\ p \in PlayersOf(k)
        BY <1>0, <1>1 DEF NoStaleGate
    <2>2. CASE pendingRatingOf[p] = id
        <3>1. m.status = 3 /\ m.ranked /\ ~m.finalized /\ p \in PlayersOf(m)
            BY <2>1, <2>2
        <3>2. pendingRatingOf'[p] = 0
            BY <3>1, FinalOrNot
        <3>3. QED
            BY <3>2
    <2>3. CASE pendingRatingOf[p] # id
        BY <1>0, <1>1, <2>1, <2>3
    <2>4. QED
        BY <2>2, <2>3
<1>2. CASE pendingRatingOf'[p] # pendingRatingOf[p]
    <2>1. DecidedShape(m, n) /\ m.ranked /\ p \in PlayersOf(m) /\ pendingRatingOf'[p] = id
        BY <1>0, <1>2 DEF GameStep, Gate
    <2>2. n.status = 3 /\ n.ranked /\ ~n.finalized /\ n.player = m.player
        BY <1>0, <2>1 DEF DecidedShape, Same, Consistent
    <2>3. QED
        BY <1>0, <2>1, <2>2 DEF PlayersOf
<1>3. QED
    BY <1>1, <1>2

\* A finalized ranked result is counted once for each of its players.
LEMMA LadderStep ==
    ASSUME IInv, NEW id \in Ids, NEW n \in Match, GameStep(id, n),
           NEW p \in Players, LadderCounts(p)
    PROVE  LadderCounts(p)'
<1> DEFINE m == matches[id]
           counted == m.ranked /\ p \in PlayersOf(m)
<1>0. /\ \A i \in Ids : matches'[i] = IF i = id THEN n ELSE matches[i]
      /\ ladder \in [Players -> [played : Nat, wins : Nat]] /\ Consistent(m)
      /\ m \in Match /\ n \in Match
    BY DEF GameStep, IInv, TypeOK
<1>1. CASE FinalizedShape(m, n) /\ (IF m.ranked THEN Rate(m) ELSE UNCHANGED ladder)
    <2>1. /\ n.finalized /\ ~m.finalized /\ n.player = m.player /\ n.winner = m.winner
          /\ n.ranked = m.ranked
        BY <1>1 DEF FinalizedShape, Same
    <2>2. id \notin Rated(p)
        BY <2>1 DEF Rated
    <2>3. CASE counted
        <3>1. Rated(p)' = Rated(p) \cup {id}
            <4>0. n.ranked /\ n.finalized /\ p \in PlayersOf(n)
                BY <2>1, <2>3 DEF PlayersOf
            <4>1. \A i \in Ids : i \in Rated(p)' <=> i \in Rated(p) \/ i = id
                <5>1. id \in Rated(p)'
                    BY <1>0, <4>0 DEF Rated, PlayersOf
                <5>2. \A i \in Ids \ {id} : i \in Rated(p)' <=> i \in Rated(p)
                    BY <1>0 DEF Rated, PlayersOf
                <5>3. QED
                    BY <5>1, <5>2
            <4>2. Rated(p) \subseteq Ids /\ Rated(p)' \subseteq Ids
                BY DEF Rated
            <4>3. QED
                BY <4>1, <4>2
        <3>2. CASE m.player[m.winner] = p
            <4>1. WonResults(p)' = WonResults(p) \cup {id} /\ id \notin WonResults(p)
                BY <1>0, <2>1, <2>2, <3>1, <3>2 DEF WonResults, Rated
            <4>2. IsFiniteSet(WonResults(p))
                BY FS_Subset DEF LadderCounts, WonResults
            <4>3. /\ ladder'[p].played = ladder[p].played + 1
                  /\ ladder'[p].wins = ladder[p].wins + 1
                BY <1>0, <1>1, <2>3, <3>2 DEF Rate
            <4>4. /\ IsFiniteSet(Rated(p)')
                  /\ Cardinality(Rated(p)') = Cardinality(Rated(p)) + 1
                BY <2>2, <3>1, FS_AddElement DEF LadderCounts
            <4>5. Cardinality(WonResults(p)') = Cardinality(WonResults(p)) + 1
                BY <4>1, <4>2, FS_AddElement
            <4>6. QED
                BY <4>3, <4>4, <4>5 DEF LadderCounts
        <3>3. CASE m.player[m.winner] # p
            <4>1. WonResults(p)' = WonResults(p)
                BY <1>0, <2>1, <2>2, <3>1, <3>3 DEF WonResults, Rated
            <4>2. /\ ladder'[p].played = ladder[p].played + 1
                  /\ ladder'[p].wins = ladder[p].wins
                BY <1>0, <1>1, <2>3, <3>3 DEF Rate
            <4>3. /\ IsFiniteSet(Rated(p)')
                  /\ Cardinality(Rated(p)') = Cardinality(Rated(p)) + 1
                BY <2>2, <3>1, FS_AddElement DEF LadderCounts
            <4>4. QED
                BY <4>1, <4>2, <4>3 DEF LadderCounts
        <3>4. QED
            BY <3>2, <3>3
    <2>4. CASE ~counted
        <3>1. Rated(p)' = Rated(p) /\ WonResults(p)' = WonResults(p)
            BY <1>0, <2>1, <2>2, <2>4 DEF Rated, WonResults, PlayersOf
        <3>2. ladder'[p] = ladder[p]
            BY <1>0, <1>1, <2>4 DEF Rate
        <3>3. QED
            BY <3>1, <3>2 DEF LadderCounts
    <2>5. QED
        BY <2>3, <2>4
<1>2. CASE ladder' = ladder /\ ~m.finalized /\ ~n.finalized
    <2>1. \A i \in Ids : matches'[i].finalized => i # id /\ matches'[i] = matches[i]
        BY <1>0, <1>2
    <2>2. \A i \in Ids : matches[i].finalized => i # id /\ matches'[i] = matches[i]
        BY <1>0, <1>2
    <2>3. Rated(p)' = Rated(p)
        BY <2>1, <2>2 DEF Rated, PlayersOf
    <2>4. WonResults(p)' = WonResults(p)
        BY <2>1, <2>2, <2>3 DEF WonResults, Rated
    <2>5. QED
        BY <1>2, <2>3, <2>4 DEF LadderCounts
<1>3. QED
    BY <1>1, <1>2, FinalOrNot

\* Every step keeps the gates justified and the ladder counted.
LEMMA RatingStep ==
    ASSUME IInv, RatingInv, [Next]_vars
    PROVE  RatingInv'
<1>1. CASE StillStep
    <2>1. matches' = matches /\ pendingRatingOf' = pendingRatingOf /\ ladder' = ladder
        BY <1>1 DEF StillStep
    <2>2. NoStaleGate'
        BY <2>1 DEF RatingInv, NoStaleGate, PlayersOf
    <2>3. ASSUME NEW p \in Players PROVE LadderCounts(p)'
        <3>1. Rated(p)' = Rated(p) /\ WonResults(p)' = WonResults(p)
            BY <2>1 DEF Rated, WonResults, PlayersOf
        <3>2. QED
            BY <2>1, <3>1 DEF RatingInv, LadderCounts
    <2>4. QED
        BY <2>2, <2>3 DEF RatingInv
<1>2. ASSUME NEW id \in Ids, NEW n \in Match, GameStep(id, n)
      PROVE  RatingInv'
    BY <1>2, GateStep, LadderStep DEF RatingInv
<1>3. QED
    BY <1>1, <1>2, StepShapes

\* Ratings follow the ranked results: a player's gate is closed only by a decided,
\* ranked, unrated match of that player, and the ladder counts each finalized
\* ranked result once, in whatever order results and ratings come in.
THEOREM RatingsFollowResults == Spec => []RatedByResults
<1>1. Init => IInv /\ RatingInv
    BY InitIInv, RatingInit
<1>2. IInv /\ RatingInv /\ [Next]_vars => (IInv /\ RatingInv)'
    BY StepIInv, RatingStep
<1>3. RatingInv => RatedByResults
    BY DEF RatingInv, LadderCounts, WonResults, RatedByResults, LadderMatchesResults
<1>4. QED
    BY <1>1, <1>2, <1>3, PTL DEF Spec

-----------------------------------------------------------------------------
(* Paddle keys and inputs. *)

\* No key is registered initially.
LEMMA OwnersInit == Init => KeysHaveOneOwner
BY DEF Init, ArcadeInit, NoGrant, KeysHaveOneOwner

\* Every step leaves a granted key with its owner.
LEMMA OwnersStep ==
    ASSUME TypeOK, KeysHaveOneOwner, [Next]_vars
    PROVE  KeysHaveOneOwner'
<1>0. /\ sessions \in [Players -> [key : Keys \cup {NoKey}, expires : 0..(MaxBlock + GrantLife)]]
      /\ keyOwner \in [Keys \cup {NoKey} -> Players \cup {NoPlayer}]
      /\ NoKey \notin Keys /\ NoPlayer \notin Players
    BY ArcadeAssumption DEF TypeOK, ArcadeTypeOK
<1>1. CASE UNCHANGED arcadeVars
    BY <1>1 DEF arcadeVars, KeysHaveOneOwner
<1>2. CASE ArcadeStep
    <2>1. ASSUME NEW p \in Players, NEW k \in Keys, NEW expires, Register(p, k, expires)
          PROVE  KeysHaveOneOwner'
        BY <1>0, <2>1 DEF Register, KeysHaveOneOwner
    <2>2. ASSUME NEW p \in Players, Revoke(p)
          PROVE  KeysHaveOneOwner'
        BY <1>0, <2>2 DEF Revoke, NoGrant, KeysHaveOneOwner
    <2>3. QED
        BY <1>2, <2>1, <2>2 DEF ArcadeStep
<1>3. QED
    <2>1. NewBlock => UNCHANGED arcadeVars
        BY DEF NewBlock
    <2>2. SetPaused => UNCHANGED arcadeVars
        BY DEF SetPaused
    <2>3. QED
        BY <1>1, <1>2, <2>1, <2>2, Frames

\* A registered paddle key has one owner for good.
THEOREM OneOwnerPerKey == Spec => []KeysHaveOneOwner
<1>1. Init => IInv /\ KeysHaveOneOwner
    BY InitIInv, OwnersInit
<1>2. IInv /\ KeysHaveOneOwner /\ [Next]_vars => (IInv /\ KeysHaveOneOwner)'
    BY StepIInv, OwnersStep DEF IInv
<1>3. QED
    BY <1>1, <1>2, PTL DEF Spec

\* What an accepted input is signed by: the body of InputsAuthorised.
Authorised(i, side) ==
    LET x == matches[i].session[side]
        p == matches[i].player[side]
    IN  matches'[i].session[side].nonce # x.nonce =>
            /\ matches'[i].session[side].nonce = x.nonce + 1
            /\ keyOwner[x.key] \in {NoPlayer, p}
            /\ keyOwner[x.key] = p => sessions[p].key = x.key /\ sessions[p].expires > now

\* An input that a step accepts is authorised.
LEMMA InputStep ==
    ASSUME IInv, KeysHaveOneOwner, [Next]_vars, NEW i \in Ids, NEW side \in Sides
    PROVE  Authorised(i, side)
<1> DEFINE m == matches[i]
           x == m.session[side]
           p == m.player[side]
<1> SUFFICES ASSUME matches'[i].session[side].nonce # x.nonce
             PROVE  /\ matches'[i].session[side].nonce = x.nonce + 1
                    /\ keyOwner[x.key] \in {NoPlayer, p}
                    /\ keyOwner[x.key] = p => sessions[p].key = x.key /\ sessions[p].expires > now
    BY DEF Authorised
<1>1. PICK id \in Ids, n \in Match : GameStep(id, n)
    BY StepShapes DEF StillStep
<1>2. i = id /\ matches'[i] = n
    BY <1>1 DEF GameStep, IInv, TypeOK
<1>3. ~NoncesKept(m, n)
    BY <1>2 DEF NoncesKept
<1>4. PlayedShape(m, n)
    BY <1>1, <1>2, <1>3 DEF GameStep, KeptShape, StartedShape, CreatedShape, DecidedShape,
        CancelledShape, FinalizedShape
<1>5. InputShape(m, n, side)
    BY <1>2, <1>3, <1>4 DEF PlayedShape, InputShape
<1>6. p \in Players
    BY <1>4 DEF IInv, Consistent, PlayedShape
<1>7. /\ n.session[side].nonce = x.nonce + 1 /\ x.key # NoKey
      /\ keyOwner[x.key] = NoPlayer \/ (sessions[p].key = x.key /\ sessions[p].expires > now)
    <2>1. /\ n.session[side].nonce = x.nonce + 1 /\ x.key # NoKey
          /\ ValidInput(p, x.key)
        BY <1>5 DEF InputShape
    <2>2. ASSUME NEW k, ValidInput(p, k)
          PROVE  keyOwner[k] = NoPlayer \/ (sessions[p].key = k /\ sessions[p].expires > now)
        BY <2>2 DEF ValidInput, ExpiresAt
    <2>3. QED
        BY <2>1, <2>2
<1>8. sessions[p].key = x.key => keyOwner[x.key] = p
    BY <1>6, <1>7 DEF KeysHaveOneOwner
<1>9. p # NoPlayer
    BY <1>6, ArcadeAssumption
<1>10. QED
    BY <1>2, <1>7, <1>8, <1>9

\* Every accepted input is the next one of its side, signed by a key that nobody
\* else owns and whose arcade grant, if it ever had one, still runs for this player.
THEOREM InputsAreAuthorised == Spec => InputsAuthorised
<1>1. IInv /\ KeysHaveOneOwner /\ [Next]_vars
          => [\A i \in Ids, side \in Sides :
                 LET x == matches[i].session[side]
                     p == matches[i].player[side]
                 IN  matches'[i].session[side].nonce # x.nonce =>
                         /\ matches'[i].session[side].nonce = x.nonce + 1
                         /\ keyOwner[x.key] \in {NoPlayer, p}
                         /\ keyOwner[x.key] = p =>
                               sessions[p].key = x.key /\ sessions[p].expires > now]_vars
    BY InputStep DEF Authorised
<1>2. Init => IInv /\ KeysHaveOneOwner
    BY InitIInv, OwnersInit
<1>3. IInv /\ KeysHaveOneOwner /\ [Next]_vars => (IInv /\ KeysHaveOneOwner)'
    BY StepIInv, OwnersStep DEF IInv
<1>4. QED
    BY <1>1, <1>2, <1>3, PTL DEF Spec, InputsAuthorised

-----------------------------------------------------------------------------
(* Fair play. *)

\* What one step does to a live match: the bodies of PlayClock, BreakIsWhole and
\* NoBetOnKnownPoint.
ClockRule(i) ==
    Live(i) =>
        /\ Clock(matches[i])' - Clock(matches[i]) = IF now' = now \/ paused THEN 0 ELSE 1
        /\ matches'[i].state.t <= Clock(matches[i])'

BreakRule(i) ==
    Live(i) =>
        LET s == matches[i].state
            z == matches'[i].state
        IN  /\ ~s.awaiting /\ z.awaiting => z.resumeAt = Clock(matches[i]) + Break
            /\ s.awaiting /\ z.awaiting => z.resumeAt = s.resumeAt
            /\ s.awaiting /\ ~z.awaiting => Clock(matches[i]) >= s.resumeAt

BetRule(i) ==
    BettingWindow(matches[i]) =>
        /\ matches'[i].state.score = matches[i].state.score
        /\ Live(i) => NextEvent(matches'[i].state) > Clock(matches[i]) + Lockout

\* A live match that stays live was resolved, or its state and clock were left alone.
LEMMA LiveShapes ==
    ASSUME IInv, [Next]_vars, NEW i \in Ids, Live(i)
    PROVE  /\ matches'[i].startBlock = matches[i].startBlock
           /\ matches'[i].state = matches[i].state \/ PlayedShape(matches[i], matches'[i])
<1>1. CASE StillStep
    BY <1>1 DEF StillStep
<1>2. ASSUME NEW id \in Ids, NEW n \in Match, GameStep(id, n)
      PROVE  /\ matches'[i].startBlock = matches[i].startBlock
             /\ matches'[i].state = matches[i].state \/ PlayedShape(matches[i], matches'[i])
    <2>0. matches'[i] = IF i = id THEN n ELSE matches[i]
        BY <1>2 DEF GameStep, IInv, TypeOK
    <2>1. CASE i # id
        BY <2>0, <2>1
    <2>2. CASE i = id
        <3>1. matches[i].status = 2 /\ n.status = 2
            BY <2>0, <2>2 DEF Live
        <3>2. CASE KeptShape(matches[i], n)
            BY <2>0, <2>2, <3>2 DEF KeptShape, Same
        <3>3. CASE PlayedShape(matches[i], n)
            BY <2>0, <2>2, <3>3 DEF PlayedShape, Same
        <3>4. QED
            BY <1>2, <2>2, <3>1, <3>2, <3>3 DEF GameStep, StartedShape, CreatedShape, NoMatch,
                DecidedShape, CancelledShape, FinalizedShape
    <2>3. QED
        BY <2>1, <2>2
<1>3. QED
    BY <1>1, <1>2, StepShapes

\* A step moves the clock of a live match by one block, or not at all.
LEMMA ClockStep ==
    ASSUME IInv, [Next]_vars, NEW i \in Ids
    PROVE  ClockRule(i)
<1> SUFFICES ASSUME Live(i)
             PROVE  /\ Clock(matches[i])' - Clock(matches[i]) = IF now' = now \/ paused THEN 0 ELSE 1
                    /\ matches'[i].state.t <= Clock(matches[i])'
    BY DEF ClockRule
<1>1. /\ ActiveBlock \in Nat /\ matches[i].startBlock \in Nat /\ now \in Nat
      /\ IInv' /\ matches'[i] \in Match
    BY ClockIsNat, StepIInv DEF IInv, TypeOK, ArcadeTypeOK, Match
<1>2. ActiveBlock' = ActiveBlock + IF now' = now \/ paused THEN 0 ELSE 1
    <2>1. UNCHANGED <<now, clockVars>> => ActiveBlock' = ActiveBlock
        BY ClockMoves DEF IInv
    <2>2. SetPaused => ActiveBlock' = ActiveBlock /\ now' = now
        BY ClockMoves DEF IInv, SetPaused
    <2>3. NewBlock => ActiveBlock' = ActiveBlock + (IF paused THEN 0 ELSE 1) /\ now' = now + 1
        BY ClockMoves DEF IInv, NewBlock
    <2>4. NewBlock \/ SetPaused \/ UNCHANGED <<now, clockVars>>
        BY StepShapes DEF StillStep, GameStep
    <2>5. QED
        BY <1>1, <2>1, <2>2, <2>3, <2>4
<1>3. /\ Clock(matches[i]) = ActiveBlock - matches[i].startBlock
      /\ Clock(matches[i])' = ActiveBlock' - matches'[i].startBlock
    BY DEF Live, Clock
<1>4. matches'[i].startBlock = matches[i].startBlock
    BY LiveShapes
<1>5. matches'[i].startBlock + matches'[i].state.t <= ActiveBlock'
    BY <1>1 DEF IInv, Behind, Live
<1>6. matches'[i].state.t \in Nat
    BY <1>1 DEF Match, State
<1>7. QED
    <2> DEFINE a == ActiveBlock
               b == ActiveBlock'
               s == matches[i].startBlock
               t == matches'[i].state.t
               d == IF now' = now \/ paused THEN 0 ELSE 1
    <2>1. a \in Nat /\ s \in Nat /\ t \in Nat /\ d \in Nat /\ b = a + d /\ s + t <= b
        BY <1>1, <1>2, <1>4, <1>5, <1>6
    <2>2. Clock(matches[i]) = a - s /\ Clock(matches[i])' = b - s
        BY <1>3, <1>4
    <2> HIDE DEF a, b, s, t, d
    <2>3. (b - s) - (a - s) = d /\ t <= b - s
        BY ONLY <2>1
    <2>4. QED
        BY <2>2, <2>3 DEF d, t

\* A step keeps a Chaos break whole.
LEMMA BreakStep ==
    ASSUME IInv, [Next]_vars, NEW i \in Ids
    PROVE  BreakRule(i)
BY LiveShapes DEF BreakRule, PlayedShape

\* A step scores nothing while the betting window is open.
LEMMA BetStep ==
    ASSUME IInv, [Next]_vars, NEW i \in Ids
    PROVE  BetRule(i)
<1> SUFFICES ASSUME BettingWindow(matches[i])
             PROVE  /\ matches'[i].state.score = matches[i].state.score
                    /\ Live(i) => NextEvent(matches'[i].state) > Clock(matches[i]) + Lockout
    BY DEF BetRule
<1> DEFINE m == matches[i]
<1>0. m.status = 2 /\ NextEvent(m.state) > Clock(m) + Lockout
    BY DEF BettingWindow
<1>1. NextEvent(m.state) > Clock(m)
    <2>1. Clock(m) \in Nat /\ m.state \in State
        BY <1>0, LiveClock DEF Match
    <2>2. NextEvent(m.state) \in Nat
        BY <2>1 DEF NextEvent, State
    <2>3. Lockout \in Nat
        <3>1. {Lockout} \subseteq Nat
            BY ONLY GameAssumption DEF GameAssumption
        <3>2. QED
            BY <3>1
    <2>4. QED
        BY <1>0, <2>1, <2>2, <2>3
<1>2. CASE StillStep
    BY <1>0, <1>2 DEF StillStep
<1>3. ASSUME NEW id \in Ids, NEW n \in Match, GameStep(id, n)
      PROVE  matches'[i].state.score = m.state.score
             /\ (Live(i) => NextEvent(matches'[i].state) = NextEvent(m.state))
    <2>0. matches'[i] = IF i = id THEN n ELSE matches[i]
        BY <1>3 DEF GameStep, IInv, TypeOK
    <2>1. CASE i # id
        BY <2>0, <2>1
    <2>2. CASE i = id
        <3>1. m.status = 2
            BY <1>0
        <3>2. CASE KeptShape(m, n) \/ CancelledShape(m, n)
            BY <2>0, <2>2, <3>2 DEF KeptShape, CancelledShape
        <3>3. CASE PlayedShape(m, n)
            BY <1>1, <2>0, <2>2, <3>3 DEF PlayedShape
        <3>4. CASE DecidedShape(m, n)
            BY <1>1, <2>0, <2>2, <3>4 DEF DecidedShape, Live
        <3>5. QED
            <4>1. /\ ~StartedShape(m, n) /\ ~FinalizedShape(m, n)
                  /\ \A p, q : ~CreatedShape(m, n, p, q)
                BY <3>1 DEF StartedShape, CreatedShape, NoMatch, FinalizedShape
            <4>2. QED
                BY <1>3, <2>2, <3>2, <3>3, <3>4, <4>1 DEF GameStep
    <2>3. QED
        BY <2>1, <2>2
<1>4. QED
    BY <1>0, <1>2, <1>3, StepShapes

\* A match is played by its rules: its clock counts exactly the unpaused blocks and
\* physics stays behind it, Chaos breaks are whole, and no bet buys a known point,
\* whatever keepers are late and whatever is paused.
THEOREM PlayFollowsTheRules == Spec => PlayIsFair
<1>1. Init => IInv
    BY InitIInv
<1>2. IInv /\ [Next]_vars => IInv'
    BY StepIInv
<1>3. IInv /\ [Next]_vars => [\A i \in Ids : Live(i) =>
         /\ Clock(matches[i])' - Clock(matches[i]) = IF now' = now \/ paused THEN 0 ELSE 1
         /\ matches'[i].state.t <= Clock(matches[i])']_vars
    BY ClockStep DEF ClockRule
<1>4. IInv /\ [Next]_vars => [\A i \in Ids : Live(i) =>
         LET s == matches[i].state
             z == matches'[i].state
         IN  /\ ~s.awaiting /\ z.awaiting => z.resumeAt = Clock(matches[i]) + Break
             /\ s.awaiting /\ z.awaiting => z.resumeAt = s.resumeAt
             /\ s.awaiting /\ ~z.awaiting => Clock(matches[i]) >= s.resumeAt]_vars
    BY BreakStep DEF BreakRule
<1>5. IInv /\ [Next]_vars => [\A i \in Ids : BettingWindow(matches[i]) =>
         /\ matches'[i].state.score = matches[i].state.score
         /\ Live(i) => NextEvent(matches'[i].state) > Clock(matches[i]) + Lockout]_vars
    BY BetStep DEF BetRule
<1>6. QED
    BY <1>1, <1>2, <1>3, <1>4, <1>5, PTL DEF Spec, PlayIsFair, PlayClock, BreakIsWhole,
        NoBetOnKnownPoint

-----------------------------------------------------------------------------
(* The game implements the results specification. *)

\* The initial results are none.
LEMMA RefineInit == Init => Results!ResultsInit
<1> SUFFICES ASSUME Init PROVE Results!ResultsInit
    OBVIOUS
<1>1. \A i \in Ids : /\ matches[i].status = 0 /\ matches[i].winner = NoWinner
                     /\ matches[i].version = 0
    BY DEF Init, NoMatch
<1>2. \A i \in Ids : BettingWindow(matches[i]) = FALSE
    BY <1>1 DEF BettingWindow
<1>3. QED
    BY <1>1, <1>2 DEF Results!ResultsInit, Results!NoWinner, NoWinner

\* A step of one match is a snapshot of it and leaves every other window alone.
LEMMA StepIsSnapshot ==
    ASSUME IInv, NEW id \in Ids, NEW n \in Match, GameStep(id, n)
    PROVE  \E open \in BOOLEAN :
               /\ open => n.status = 2
               /\ Results!Snapshot(id, n.status, n.winner, n.version, open)
<1>0. \A i \in Ids : matches'[i] = IF i = id THEN n ELSE matches[i]
    BY DEF GameStep, IInv, TypeOK
<1>1. UNCHANGED <<now, paused, pauseStart, pausedBlocks>>
    BY DEF GameStep, clockVars
<1>2. PICK open \in BOOLEAN : open = BettingWindow(matches[id])'
    BY DEF BettingWindow
<1>3. open => n.status = 2
    BY <1>0, <1>2 DEF BettingWindow
<1>4. \A i \in Ids \ {id} : BettingWindow(matches[i])' = BettingWindow(matches[i])
    BY <1>0, <1>1 DEF BettingWindow, Clock, ActiveBlock
<1>5. [i \in Ids |-> BettingWindow(matches[i])]'
          = [[i \in Ids |-> BettingWindow(matches[i])] EXCEPT ![id] = open]
    BY <1>2, <1>4, Zenon
<1>6. /\ [i \in Ids |-> matches[i].status]'
             = [[i \in Ids |-> matches[i].status] EXCEPT ![id] = n.status]
      /\ [i \in Ids |-> matches[i].winner]'
             = [[i \in Ids |-> matches[i].winner] EXCEPT ![id] = n.winner]
      /\ [i \in Ids |-> matches[i].version]'
             = [[i \in Ids |-> matches[i].version] EXCEPT ![id] = n.version]
    BY <1>0
<1>7. Results!Snapshot(id, n.status, n.winner, n.version, open)
    BY <1>5, <1>6 DEF Results!Snapshot
<1>8. QED
    BY <1>3, <1>7

\* Every step is a step of the results specification, or leaves the results alone.
LEMMA RefineStep == IInv /\ [Next]_vars => [Results!ResultsNext]_(Results!resultVars)
<1> SUFFICES ASSUME IInv, [Next]_vars PROVE [Results!ResultsNext]_(Results!resultVars)
    OBVIOUS
<1>1. CASE StillStep
    <2>1. matches' = matches
        BY <1>1 DEF StillStep
    <2>2. [i \in Ids |-> BettingWindow(matches[i])]' \in [Ids -> BOOLEAN]
        BY DEF BettingWindow
    <2>3. \A i \in Ids : BettingWindow(matches[i])' => matches[i].status = 2
        BY <2>1 DEF BettingWindow
    <2>4. /\ [i \in Ids |-> matches[i].status]' = [i \in Ids |-> matches[i].status]
          /\ [i \in Ids |-> matches[i].winner]' = [i \in Ids |-> matches[i].winner]
          /\ [i \in Ids |-> matches[i].version]' = [i \in Ids |-> matches[i].version]
        BY <2>1
    <2>5. Results!WindowsMove
        BY <2>2, <2>3, <2>4 DEF Results!WindowsMove
    <2>6. QED
        BY <2>5 DEF Results!ResultsNext
<1>2. ASSUME NEW id \in Ids, NEW n \in Match, GameStep(id, n)
      PROVE  [Results!ResultsNext]_(Results!resultVars)
    <2> DEFINE m == matches[id]
    <2>0. /\ m \in Match /\ Consistent(m) /\ Consistent(n) /\ m.version \in Nat
        BY <1>2, ShapeKeeps DEF IInv, TypeOK, Match
    <2>1. PICK open \in BOOLEAN : /\ open => n.status = 2
                                  /\ Results!Snapshot(id, n.status, n.winner, n.version, open)
        BY <1>2, StepIsSnapshot
    <2>2. /\ [i \in Ids |-> matches[i].status][id] = m.status
          /\ [i \in Ids |-> matches[i].version][id] = m.version
          /\ Results!NoWinner = NoWinner /\ Results!Sides = Sides
        BY DEF Results!NoWinner, NoWinner, Results!Sides, Sides
    <2>3. n.status # 3 => n.winner = NoWinner
        BY <2>0 DEF Consistent, Match
    <2>4. CASE n.status = m.status /\ n.winner = m.winner /\ n.version = m.version /\ m.status # 2
        <3>1. \A i \in Ids : /\ matches'[i].status = matches[i].status
                             /\ matches'[i].winner = matches[i].winner
                             /\ matches'[i].version = matches[i].version
            BY <1>2, <2>4 DEF GameStep, IInv, TypeOK
        <3>2. \A i \in Ids : BettingWindow(matches[i])' = BettingWindow(matches[i])
            <4>1. \A i \in Ids \ {id} : matches'[i] = matches[i]
                BY <1>2 DEF GameStep, IInv, TypeOK
            <4>2. UNCHANGED <<now, paused, pauseStart, pausedBlocks>>
                BY <1>2 DEF GameStep, clockVars
            <4>3. BettingWindow(matches[id])' = FALSE /\ BettingWindow(matches[id]) = FALSE
                BY <2>4, <3>1 DEF BettingWindow
            <4>4. QED
                BY <4>1, <4>2, <4>3 DEF BettingWindow, Clock, ActiveBlock
        <3>3. UNCHANGED Results!resultVars
            BY <3>1, <3>2 DEF Results!resultVars
        <3>4. QED
            BY <3>3
    <2>5. CASE (KeptShape(m, n) /\ m.status = 2) \/ PlayedShape(m, n)
        <3>1. n.version \in {m.version + 0, m.version + 1, m.version + 2} /\ n.status = 2
              /\ m.status = 2
            BY <2>0, <2>5 DEF KeptShape, PlayedShape
        <3>2. Results!Played(id)
            BY <2>1, <2>2, <2>3, <3>1 DEF Results!Played
        <3>3. QED
            BY <3>2 DEF Results!ResultsNext, Results!ResultStep
    <2>6. CASE StartedShape(m, n)
        <3>1. m.status = 1 /\ n.status = 2 /\ n.version = m.version + 1
            BY <2>6 DEF StartedShape
        <3>2. Results!Started(id)
            BY <2>1, <2>2, <2>3, <3>1 DEF Results!Started
        <3>3. QED
            BY <3>2 DEF Results!ResultsNext, Results!ResultStep
    <2>7. CASE \E p, q \in Players : CreatedShape(m, n, p, q)
        <3>1. m.status = 0 /\ n.status = 1 /\ n.version = m.version
            BY <2>7 DEF CreatedShape, NoMatch
        <3>2. Results!Snapshot(id, 1, Results!NoWinner, [i \in Ids |-> matches[i].version][id], open) /\ open = FALSE
            BY <2>1, <2>2, <2>3, <3>1
        <3>3. Results!Snapshot(id, 1, Results!NoWinner, [i \in Ids |-> matches[i].version][id], FALSE)
            BY <3>2, Zenon
        <3>4. Results!Created(id)
            BY <2>2, <3>1, <3>3 DEF Results!Created
        <3>5. QED
            BY <3>4 DEF Results!ResultsNext, Results!ResultStep
    <2>8. CASE DecidedShape(m, n)
        <3>1. m.status = 2 /\ n.status = 3 /\ n.version = m.version + 1 /\ n.winner \in Sides
            BY <2>8 DEF DecidedShape
        <3>2. Results!Snapshot(id, 3, n.winner, [i \in Ids |-> matches[i].version][id] + 1, open) /\ open = FALSE
            BY <2>1, <2>2, <3>1
        <3>3. Results!Snapshot(id, 3, n.winner, [i \in Ids |-> matches[i].version][id] + 1, FALSE)
            BY <3>2, Zenon
        <3>4. Results!Decided(id)
            BY <2>2, <3>1, <3>3 DEF Results!Decided
        <3>5. QED
            BY <3>4 DEF Results!ResultsNext, Results!ResultStep
    <2>9. CASE CancelledShape(m, n)
        <3>1. m.status \in {1, 2} /\ n.status = 4
            BY <2>9 DEF CancelledShape
        <3>2. PICK k \in 0..1 : n.version = [i \in Ids |-> matches[i].version][id] + k
            BY <2>0, <2>2, <2>9 DEF CancelledShape
        <3>3. /\ Results!Snapshot(id, 4, Results!NoWinner,
                                  [i \in Ids |-> matches[i].version][id] + k, open)
              /\ open = FALSE
            BY <2>1, <2>2, <2>3, <3>1, <3>2
        <3>4. Results!Snapshot(id, 4, Results!NoWinner,
                               [i \in Ids |-> matches[i].version][id] + k, FALSE)
            BY <3>3, Zenon
        <3>5. Results!Cancelled(id)
            BY <2>2, <3>1, <3>4, Zenon DEF Results!Cancelled
        <3>6. QED
            BY <3>5 DEF Results!ResultsNext, Results!ResultStep
    <2>10. CASE (KeptShape(m, n) /\ m.status # 2) \/ FinalizedShape(m, n)
        BY <2>4, <2>10 DEF KeptShape, FinalizedShape
    <2>11. QED
        BY <1>2, <2>5, <2>6, <2>7, <2>8, <2>9, <2>10 DEF GameStep
<1>3. QED
    BY <1>1, <1>2, StepShapes

\* The game implements MatchResults, all the market reads of it: statuses only move
\* forward, a winner is named exactly when a match is decided, a decision is final,
\* and bets are possible only while the match is live.
THEOREM GameImplementsResults == Spec => ImplementsResults
<1>1. Init => IInv /\ Results!ResultsInit
    BY InitIInv, RefineInit
<1>2. IInv /\ [Next]_vars => IInv' /\ [Results!ResultsNext]_(Results!resultVars)
    BY StepIInv, RefineStep
<1>3. QED
    BY <1>1, <1>2, PTL DEF Spec, ImplementsResults, Results!ResultsSpec
=============================================================================
