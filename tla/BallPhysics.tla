----------------------------- MODULE BallPhysics -----------------------------
(***************************************************************************)
(* The rules of the court (shared/physics-v2.ts) and the page's projection *)
(* of them (web/lib/presentation.ts).                                      *)
(*                                                                         *)
(* Nothing moves by itself: a state is as of its time t, and is caught up, *)
(* event by event and at most so many events per call, when somebody asks. *)
(* A chain state is therefore late by any amount, and the page shows a     *)
(* later moment of a state that was late when it was read.  Lengths and    *)
(* speeds are those of a small court, in units whose speeds are whole, as  *)
(* the code's are (every speed is a multiple of SCALE).                    *)
(***************************************************************************)
EXTENDS Integers, SequencesExt

CONSTANTS Width, Height, Radius, HalfPaddle, Plane, PaddleSpeed,
          SpeedX, SpeedY,    \* the speeds of a serve
          Pause,             \* between a point and the next serve, in mode 1
          Points,            \* a match is won at so many points (seven in the code)
          Limit,             \* events of one call of advance
          Paid,              \* amounts bet on a side
          MaxTime, MaxInputs \* bounds

VARIABLES s,      \* the stored state of a match
          now,    \* the clock
          live,   \* the state of the match at this moment
          snap,   \* the last state the page read
          inputs
vars == <<s, now, live, snap, inputs>>

Abs(n) == IF n < 0 THEN -n ELSE n
Clamp(y, half) == IF y < half THEN half ELSE IF y > Height - half THEN Height - half ELSE y
\* The first moment at which a distance has been covered.
Travel(d, v) == (Abs(d) + Abs(v) - 1) \div Abs(v)

Serve(q) ==
  [q EXCEPT !.x = Width \div 2, !.y = Height \div 2,
            !.vx = IF (q.a + q.b) % 2 = 0 THEN SpeedX ELSE -SpeedX,
            !.vy = IF q.seed[q.a + q.b] THEN -SpeedY ELSE SpeedY]

Initial(seed, mode) ==
  Serve([x |-> 0, y |-> 0, vx |-> 0, vy |-> 0, left |-> Height \div 2, right |-> Height \div 2,
         leftDir |-> 0, rightDir |-> 0, t |-> 0, a |-> 0, b |-> 0, seed |-> seed, finished |-> FALSE,
         mode |-> mode, halfA |-> HalfPaddle, halfB |-> HalfPaddle, awaiting |-> FALSE, resumeAt |-> 0])

\* The next event of a ball in play: 1, 2 a wall, 3, 4 a paddle's plane, 5, 6 a goal.
Crossing(q) ==
  IF q.vx < 0 /\ q.x >= Plane THEN [at |-> q.t + Travel(Plane - q.x, q.vx), kind |-> 3]
  ELSE IF q.vx > 0 /\ q.x <= Width - Plane THEN [at |-> q.t + Travel(Width - Plane - q.x, q.vx), kind |-> 4]
  ELSE [at |-> q.t + Travel(IF q.vx < 0 THEN -Radius - q.x ELSE Width + Radius - q.x, q.vx),
        kind |-> IF q.vx < 0 THEN 5 ELSE 6]
NextEvent(q) ==
  LET wall == q.t + Travel(IF q.vy < 0 THEN Radius - q.y ELSE Height - Radius - q.y, q.vy)
      e == Crossing(q)
  IN  IF wall <= e.at THEN [at |-> wall, kind |-> IF q.vy < 0 THEN 1 ELSE 2] ELSE e

Move(q, to) ==
  IF q.awaiting \/ q.finished THEN q
  ELSE LET dt == to - q.t
       IN  [q EXCEPT !.x = @ + q.vx * dt, !.y = @ + q.vy * dt, !.t = to,
                     !.left = Clamp(@ + q.leftDir * PaddleSpeed * dt, q.halfA),
                     !.right = Clamp(@ + q.rightDir * PaddleSpeed * dt, q.halfB)]

Touches(q, kind) ==
  LET paddle == IF kind = 3 THEN q.left ELSE q.right
      half == IF kind = 3 THEN q.halfA ELSE q.halfB
  IN  q.y + Radius >= paddle - half /\ q.y - Radius <= paddle + half

Scored(q, kind) ==
  LET p == [q EXCEPT !.a = IF kind = 6 THEN @ + 1 ELSE @, !.b = IF kind = 5 THEN @ + 1 ELSE @]
  IN  IF p.a = Points \/ p.b = Points THEN [p EXCEPT !.finished = TRUE]
      ELSE IF p.mode = 1
      THEN [Serve(p) EXCEPT !.awaiting = TRUE, !.resumeAt = p.t + Pause, !.vx = 0, !.vy = 0]
      ELSE Serve(p)

Collide(q, kind) ==
  CASE kind \in {1, 2} -> [q EXCEPT !.y = IF kind = 1 THEN Radius ELSE Height - Radius, !.vy = -@]
    [] kind \in {3, 4} ->
         LET p == [q EXCEPT !.x = IF kind = 3 THEN Plane ELSE Width - Plane]
         IN  IF Touches(p, kind) THEN [p EXCEPT !.vx = -@]
             ELSE [p EXCEPT !.x = @ + (IF q.vx < 0 THEN -1 ELSE 1)]
    [] OTHER -> Scored(q, kind)

Over(q) == q.finished \/ q.awaiting

\* Mutant: the last event of a call is found before the move to the target.
StepLate(q, target) ==
  IF Over(q) THEN q
  ELSE IF NextEvent(q).at > target THEN Move(q, target)
  ELSE Move(Collide(Move(q, NextEvent(q).at), NextEvent(q).kind), target)

\* One turn of advance's loop, and all its turns.
Step(q, target) ==
  IF Over(q) THEN q
  ELSE LET e == NextEvent(q)
       IN  IF e.at > target THEN Move(q, target) ELSE Collide(Move(q, e.at), e.kind)

Advance(q, target, limit) ==
  FoldLeft(LAMBDA p, i : Step(p, target), q, [i \in 1..limit |-> i])
Complete(q, target) == IF Over(q) THEN TRUE ELSE q.t = target /\ NextEvent(q).at > target

Handicap(paidA, paidB) ==
  LET total == paidA + paidB
      share == ((IF paidA > paidB THEN paidA ELSE paidB) * 10000) \div total
      half == (HalfPaddle * (10000 - ((share - 6000) * 2500) \div 4000)) \div 10000
  IN  IF total < 2 \/ share <= 6000 THEN <<HalfPaddle, HalfPaddle>>
      ELSE IF paidA > paidB THEN <<half, HalfPaddle>> ELSE <<HalfPaddle, half>>

Resumed(q, at, paidA, paidB) ==
  Serve([q EXCEPT !.halfA = Handicap(paidA, paidB)[1], !.halfB = Handicap(paidA, paidB)[2],
                  !.awaiting = FALSE, !.resumeAt = 0, !.t = at,
                  !.left = Height \div 2, !.right = Height \div 2])

\* What the page shows: walls are crossed, and the ball is held just before a
\* paddle or a goal, whose outcome depends on inputs it does not know of yet.
Projected(q, target) ==
  LET Shown(p, i) ==
        IF p.waiting \/ p.done THEN p
        ELSE LET e == NextEvent(p.q)
             IN  IF e.at > target THEN [p EXCEPT !.q = Move(p.q, target), !.done = TRUE]
                 ELSE IF e.kind >= 3
                 THEN [p EXCEPT !.q = Move(p.q, IF e.at > p.q.t THEN e.at - 1 ELSE p.q.t), !.waiting = TRUE]
                 ELSE [p EXCEPT !.q = Step(p.q, e.at)]
      Start == [q |-> q, waiting |-> FALSE, done |-> Over(q) \/ target <= q.t]
  IN  FoldLeft(Shown, Start, [i \in 1..MaxTime |-> i])

Init ==
  /\ \E seed \in [0..2 * Points - 2 -> BOOLEAN], mode \in {0, 1} : s = Initial(seed, mode)
  /\ live = s /\ snap = s /\ now = 0 /\ inputs = 0

\* Time passes, whether or not anyone looks.
Tick ==
  /\ now < MaxTime /\ now' = now + 1
  /\ live' = Advance(live, now', 2 * MaxTime)
  /\ UNCHANGED <<s, snap, inputs>>

\* Somebody resolves the events that are due, at most a call's worth.
Resolve ==
  /\ ~Over(s) /\ s' = Advance(s, now, Limit) /\ s' # s
  /\ UNCHANGED <<now, live, snap, inputs>>

\* An input takes effect at the moment it is included, on a state that is caught up.
Input ==
  \E q \in {Advance(s, now, Limit)}, d \in -1..1, side \in {"leftDir", "rightDir"} :
    /\ inputs < MaxInputs /\ Complete(q, now) /\ ~Over(q) /\ q[side] # d
    /\ s' = [q EXCEPT ![side] = d] /\ live' = [live EXCEPT ![side] = d]
    /\ inputs' = inputs + 1
    /\ UNCHANGED <<now, snap>>

Resume ==
  \E paidA, paidB \in Paid :
    /\ s.awaiting /\ now >= s.resumeAt
    /\ s' = Resumed(s, now, paidA, paidB) /\ live' = Resumed(live, now, paidA, paidB)
    /\ UNCHANGED <<now, snap, inputs>>

\* The page reads the stored state.
Read == snap # s /\ snap' = s /\ UNCHANGED <<s, now, live, inputs>>

Next == Tick \/ Resolve \/ Input \/ Resume \/ Read
Spec == Init /\ [][Next]_vars

(***************************************************************************)
(* Properties.                                                             *)
(***************************************************************************)
\* Catching up late, in calls of any length and at any time, gives the match
\* that was played: advance does not depend on when it is called.
CatchUpAgrees == Advance(s, now, 2 * MaxTime) = live

Ball(q) == <<q.x, q.y, q.vx, q.vy, q.a, q.b>>
\* A ball the page shows without waiting is where the ball really is, whatever
\* the players did since the state it shows was read (projectConfirmed).
PreviewHolds ==
  \E p \in {Projected(snap, now)} : ~p.waiting /\ ~Over(snap) => Ball(p.q) = Ball(live)
=============================================================================
