---------------------------- MODULE Matchmaking ----------------------------
(***************************************************************************)
(* Matchmaking of the arcade relayer: the public queue, invitations, the   *)
(* rooms in which two players sign their consent, and the submission of a  *)
(* room to the relay journal (relayer/src/main.ts, relayer/src/social.ts). *)
(*                                                                         *)
(* serializeMatchmaking runs one operation at a time; `op` is the one that *)
(* is between two of its database statements.  Dispatch, receipts, the     *)
(* chain, the clock and a stop of the relayer interleave with it.  Rooms   *)
(* and job rows are named by one number: the identifier of the createMatch *)
(* job is a hash of the two recorded consents of the room.  Modes, ratings *)
(* and blocked players only narrow who may be paired, so the choice of     *)
(* opponent is left open.                                                  *)
(***************************************************************************)
EXTENDS Naturals, FiniteSets

CONSTANTS Players,      \* addresses
          MaxRoom,      \* rooms ever created
          MaxTicket,    \* queue signatures per player
          MaxChallenge, \* invitations ever sent
          Arenas,       \* concurrent matches the relayer admits (four)
          MaxCrash      \* stops of the relayer

VARIABLES queue,      \* queue_players: player -> ticket, 0 when not waiting
          rooms,      \* rooms table, deleted rows kept for the properties
          jobs,       \* relay_jobs row of the room's createMatch
          challenges, \* challenges table
          active,     \* game.activeMatchOf
          created,    \* matches the game has created
          seen,       \* matches the relayer's cache holds as unfinished
          op,         \* the serialized operation under way
          crashes

dbVars == <<queue, rooms, jobs, challenges>>
chainVars == <<active, created>>
vars == <<queue, rooms, jobs, challenges, active, created, seen, op, crashes>>

Rooms == 1..MaxRoom
Challenges == 1..MaxChallenge
Nobody == "nobody"
Idle == [kind |-> "idle"]
NoRoom == [state |-> "none"]
NoChallenge == [status |-> "none"]

Room == [state: {"open", "expired", "deleted"}, a: Players, b: Players,
         ta: Nat, tb: Nat, ja: BOOLEAN, jb: BOOLEAN, job: BOOLEAN, match: BOOLEAN]
Challenge == [status: {"pending", "expired", "accepted", "cancelled", "declined"},
              creator: Players, recipient: Players \cup {Nobody}, room: 0..MaxRoom]

(***************************************************************************)
(* What the queries ask.                                                   *)
(***************************************************************************)
Exists(r) == rooms[r].state \in {"open", "expired"}
Seats(r) == IF rooms[r].state = "none" THEN {} ELSE {rooms[r].a, rooms[r].b}
\* expires > now AND match_id IS NULL
Preparing(p) == {r \in Rooms : rooms[r].state = "open" /\ p \in Seats(r) /\ ~rooms[r].match}
\* Statuses queued, signed and sent, as one; mining is not visible in the row.
Pending(r) == jobs[r] \in {"queued", "mined", "reverted"}
Ready(r) == rooms[r].state = "open" /\ rooms[r].ja /\ rooms[r].jb /\ ~rooms[r].job

\* Mutant: a submitted creation is not looked up.
AvailableOnChain(P) == Cardinality(seen) < Arenas /\ \A p \in P : active[p] = 0
\* assertAvailable: a free arena, no submitted creation, no match on chain.
Available(P) ==
  /\ Cardinality(seen) < Arenas
  /\ \A p \in P : /\ active[p] = 0
                  /\ ~\E r \in Rooms : /\ Exists(r) /\ p \in Seats(r)
                                       /\ rooms[r].job /\ Pending(r)

\* The simulation of createMatch inside enqueue.
Creatable(r) == r \notin created /\ \A p \in Seats(r) : active[p] = 0

FreeRoom(r) == rooms[r].state = "none" /\ \A s \in Rooms : rooms[s].state = "none" => r <= s
NewRoom(p, q, tp, tq) ==
  [state |-> "open", a |-> p, b |-> q, ta |-> tp, tb |-> tq,
   ja |-> FALSE, jb |-> FALSE, job |-> FALSE, match |-> FALSE]

Init ==
  /\ queue = [p \in Players |-> 0]
  /\ rooms = [r \in Rooms |-> NoRoom]
  /\ jobs = [r \in Rooms |-> "none"]
  /\ challenges = [c \in Challenges |-> NoChallenge]
  /\ active = [p \in Players |-> 0]
  /\ created = {}
  /\ seen = {}
  /\ op = Idle
  /\ crashes = 0

(***************************************************************************)
(* POST /queue: the checks, the upsert and the pairing transaction are     *)
(* three awaited steps of one serialized operation.                        *)
(***************************************************************************)
Queue(p, k) ==
  /\ op = Idle
  /\ Available({p})
  /\ \A r \in seen : p \notin Seats(r)
  /\ Preparing(p) = {}
  \* The page signs a new request after a cancellation.
  /\ \A r \in Rooms : rooms[r].state = "deleted" =>
        /\ ~(rooms[r].a = p /\ rooms[r].ta = k)
        /\ ~(rooms[r].b = p /\ rooms[r].tb = k)
  /\ rooms' = [r \in Rooms |-> IF p \in Seats(r) /\ Exists(r) /\ rooms[r].match
                               THEN [rooms[r] EXCEPT !.state = "expired"] ELSE rooms[r]]
  /\ op' = [kind |-> "enter", p |-> p, k |-> k]
  /\ UNCHANGED <<queue, jobs, challenges, chainVars, seen, crashes>>

QueueEntered ==
  /\ op.kind = "enter"
  /\ queue' = [queue EXCEPT ![op.p] = op.k]
  /\ op' = [op EXCEPT !.kind = "pair"]
  /\ UNCHANGED <<rooms, jobs, challenges, chainVars, seen, crashes>>

QueuePaired ==
  /\ op.kind = "pair"
  /\ \/ /\ \A q \in Players \ {op.p} : queue[q] = 0
        /\ UNCHANGED <<queue, rooms>>
     \/ \E q \in Players \ {op.p}, r \in Rooms :
          /\ queue[q] # 0 /\ FreeRoom(r)
          /\ rooms' = [rooms EXCEPT ![r] = NewRoom(op.p, q, op.k, queue[q])]
          /\ queue' = [queue EXCEPT ![op.p] = 0, ![q] = 0]
  /\ op' = Idle
  /\ UNCHANGED <<jobs, challenges, chainVars, seen, crashes>>

\* POST /queue/cancel: one transaction on the ticket's room and queue row.
Cancelled(r) ==
  /\ rooms' = [rooms EXCEPT ![r].state = "deleted"]
  /\ challenges' = [c \in Challenges |->
        IF challenges[c].status = "accepted" /\ challenges[c].room = r
        THEN [challenges[c] EXCEPT !.status = "cancelled"] ELSE challenges[c]]

MayCancel(r) == ~rooms[r].job

QueueCancel(p, k) ==
  /\ op = Idle
  /\ \E found \in {{r \in Rooms : /\ Exists(r)
                                 /\ \/ rooms[r].a = p /\ rooms[r].ta = k
                                    \/ rooms[r].b = p /\ rooms[r].tb = k}} :
       \/ /\ found = {} /\ queue[p] = k
          /\ UNCHANGED <<rooms, challenges>>
       \/ \E r \in found : MayCancel(r) /\ Cancelled(r)
  /\ queue' = [queue EXCEPT ![p] = IF @ = k THEN 0 ELSE @]
  /\ UNCHANGED <<jobs, chainVars, seen, op, crashes>>

(***************************************************************************)
(* POST /ready records a consent and, with both, submits the room.  The    *)
(* job row and rooms.job_id are written by two statements.                 *)
(***************************************************************************)
Consent(p, r) ==
  /\ op = Idle
  /\ rooms[r].state = "open" /\ p \in Seats(r) /\ ~rooms[r].job
  /\ rooms' = [rooms EXCEPT ![r].ja = @ \/ rooms[r].a = p, ![r].jb = @ \/ rooms[r].b = p]
  /\ op' = IF rooms'[r].ja /\ rooms'[r].jb THEN [kind |-> "submit", r |-> r] ELSE Idle
  /\ UNCHANGED <<queue, jobs, challenges, chainVars, seen, crashes>>

Unsubmitted(r) == Ready(r)

\* maintenance: rooms with both consents and no recorded job are submitted.
Maintain(r) ==
  /\ op = Idle
  /\ Unsubmitted(r)
  /\ op' = [kind |-> "submit", r |-> r]
  /\ UNCHANGED <<dbVars, chainVars, seen, crashes>>

\* enqueue: an existing row is returned; otherwise simulate and insert.
SubmitInsert ==
  /\ op.kind = "submit"
  /\ \/ /\ jobs[op.r] # "none"
        /\ op' = [op EXCEPT !.kind = "record"]
        /\ UNCHANGED jobs
     \/ /\ jobs[op.r] = "none" /\ Creatable(op.r)
        /\ jobs' = [jobs EXCEPT ![op.r] = "queued"]
        /\ op' = [op EXCEPT !.kind = "record"]
     \/ /\ jobs[op.r] = "none" /\ ~Creatable(op.r)
        /\ op' = Idle
        /\ UNCHANGED jobs
  /\ UNCHANGED <<queue, rooms, challenges, chainVars, seen, crashes>>

SubmitRecord ==
  /\ op.kind = "record"
  /\ rooms' = [rooms EXCEPT ![op.r].job = TRUE]
  /\ op' = Idle
  /\ UNCHANGED <<queue, jobs, challenges, chainVars, seen, crashes>>

(***************************************************************************)
(* The journal, the chain and the receipts.                                *)
(***************************************************************************)
\* The journal signs, sends and mines the row (module RelayJournal); createMatch
\* reverts for a busy player or a lapsed consent.
Mine(r) ==
  /\ jobs[r] = "queued"
  /\ \/ /\ Creatable(r)
        /\ jobs' = [jobs EXCEPT ![r] = "mined"]
        /\ created' = created \cup {r}
        /\ active' = [p \in Players |-> IF p \in Seats(r) THEN r ELSE active[p]]
     \/ /\ jobs' = [jobs EXCEPT ![r] = "reverted"]
        /\ UNCHANGED chainVars
  /\ UNCHANGED <<queue, rooms, challenges, seen, op, crashes>>

MatchEnds(r) ==
  /\ \E p \in Players : active[p] = r
  /\ active' = [p \in Players |-> IF active[p] = r THEN 0 ELSE active[p]]
  /\ UNCHANGED <<dbVars, created, seen, op, crashes>>

\* observeReceipts: the row's status first, rooms.match_id afterwards.
ObserveReceipt(r) ==
  /\ jobs[r] \in {"mined", "reverted"}
  /\ jobs' = [jobs EXCEPT ![r] = IF @ = "mined" THEN "saved" ELSE "failed"]
  /\ UNCHANGED <<queue, rooms, challenges, chainVars, seen, op, crashes>>

RecordMatch(r) ==
  /\ jobs[r] = "saved"
  /\ jobs' = [jobs EXCEPT ![r] = "succeeded"]
  /\ rooms' = [rooms EXCEPT ![r] = IF Exists(r) /\ @.job THEN [@ EXCEPT !.match = TRUE] ELSE @]
  /\ UNCHANGED <<queue, challenges, chainVars, seen, op, crashes>>

Refresh ==
  /\ \E now \in {{r \in created : \E p \in Players : active[p] = r}} :
       seen # now /\ seen' = now
  /\ UNCHANGED <<dbVars, chainVars, op, crashes>>

(***************************************************************************)
(* Invitations.                                                            *)
(***************************************************************************)
Invite(p, q) ==
  /\ op = Idle
  /\ q # p
  \* An invitation still open between the two is returned as it is.
  /\ ~\E c \in Challenges :
        /\ \/ challenges[c].status = "pending"
           \/ /\ challenges[c].status = "accepted"
              /\ rooms[challenges[c].room].state = "open"
              /\ ~rooms[challenges[c].room].match
        /\ \/ challenges[c].creator = p /\ challenges[c].recipient = q
           \/ challenges[c].creator = q /\ challenges[c].recipient = p
  /\ Available({p, q} \cap Players)
  /\ \E c \in Challenges :
       /\ challenges[c] = NoChallenge
       /\ \A d \in Challenges : challenges[d] = NoChallenge => c <= d
       /\ challenges' = [challenges EXCEPT ![c] =
             [status |-> "pending", creator |-> p, recipient |-> q, room |-> 0]]
  /\ UNCHANGED <<queue, rooms, jobs, chainVars, seen, op, crashes>>

Unqueued(p, q) == [queue EXCEPT ![p] = 0, ![q] = 0]

AcceptChallenge(c, q) ==
  /\ op = Idle
  /\ challenges[c].status = "pending"
  /\ challenges[c].creator # q /\ challenges[c].recipient \in {q, Nobody}
  /\ Available({challenges[c].creator, q})
  /\ Preparing(challenges[c].creator) \cup Preparing(q) = {}
  /\ \E r \in Rooms :
       /\ FreeRoom(r)
       /\ rooms' = [rooms EXCEPT ![r] = NewRoom(challenges[c].creator, q, MaxTicket + r, MaxTicket + r)]
       /\ challenges' = [challenges EXCEPT ![c].status = "accepted", ![c].recipient = q, ![c].room = r]
  /\ queue' = Unqueued(challenges[c].creator, q)
  /\ UNCHANGED <<jobs, chainVars, seen, op, crashes>>

\* The creator withdraws an invitation, also after it was accepted.
CancelChallenge(c) ==
  /\ op = Idle
  /\ \/ /\ challenges[c].status = "pending"
        /\ challenges' = [challenges EXCEPT ![c].status = "cancelled"]
        /\ UNCHANGED rooms
     \/ /\ challenges[c].status = "accepted"
        /\ Exists(challenges[c].room) /\ MayCancel(challenges[c].room)
        /\ Cancelled(challenges[c].room)
  /\ UNCHANGED <<queue, jobs, chainVars, seen, op, crashes>>

DeclineChallenge(c) ==
  /\ op = Idle
  /\ challenges[c].status = "pending" /\ challenges[c].recipient # Nobody
  /\ challenges' = [challenges EXCEPT ![c].status = "declined"]
  /\ UNCHANGED <<queue, rooms, jobs, chainVars, seen, op, crashes>>

(***************************************************************************)
(* Time and failure.                                                       *)
(***************************************************************************)
QueueLapses(p) ==
  /\ queue[p] # 0 /\ ~(op.kind = "pair" /\ op.p = p)
  /\ queue' = [queue EXCEPT ![p] = 0]
  /\ UNCHANGED <<rooms, jobs, challenges, chainVars, seen, op, crashes>>

RoomLapses(r) ==
  /\ rooms[r].state = "open"
  /\ rooms' = [rooms EXCEPT ![r].state = "expired"]
  /\ UNCHANGED <<queue, jobs, challenges, chainVars, seen, op, crashes>>

ChallengeLapses(c) ==
  /\ challenges[c].status = "pending"
  /\ challenges' = [challenges EXCEPT ![c].status = "expired"]
  /\ UNCHANGED <<queue, rooms, jobs, chainVars, seen, op, crashes>>

\* The process stops between two statements and starts with an empty cache.
Crash ==
  /\ crashes < MaxCrash
  /\ crashes' = crashes + 1
  /\ op' = Idle
  /\ seen' = {}
  /\ jobs' = [r \in Rooms |-> IF jobs[r] = "saved" THEN "succeeded" ELSE jobs[r]]
  /\ UNCHANGED <<queue, rooms, challenges, chainVars>>

Next ==
  \/ \E p \in Players, k \in 1..MaxTicket : Queue(p, k)
  \/ QueueEntered \/ QueuePaired
  \/ \E p \in Players, k \in 1..(MaxTicket + MaxRoom) : QueueCancel(p, k)
  \/ \E p \in Players, r \in Rooms : Consent(p, r)
  \/ \E r \in Rooms : Maintain(r)
  \/ SubmitInsert \/ SubmitRecord
  \/ \E r \in Rooms : Mine(r) \/ MatchEnds(r) \/ ObserveReceipt(r) \/ RecordMatch(r)
  \/ Refresh
  \/ \E p \in Players, q \in Players \cup {Nobody} : Invite(p, q)
  \/ \E c \in Challenges, q \in Players : AcceptChallenge(c, q)
  \/ \E c \in Challenges : CancelChallenge(c) \/ DeclineChallenge(c) \/ ChallengeLapses(c)
  \/ \E p \in Players : QueueLapses(p)
  \/ \E r \in Rooms : RoomLapses(r)
  \/ Crash

Spec == Init /\ [][Next]_vars

\* The maintenance loop and a started operation go on.
MatchmakingFairness ==
  /\ WF_vars(QueueEntered) /\ WF_vars(QueuePaired)
  /\ WF_vars(SubmitInsert) /\ WF_vars(SubmitRecord)
  /\ \A r \in Rooms : SF_vars(Maintain(r))

(***************************************************************************)
(* Properties.                                                             *)
(***************************************************************************)
\* Every variable keeps its shape.
MatchmakingTypeOK ==
  /\ queue \in [Players -> 0..MaxTicket]
  /\ \A r \in Rooms : rooms[r] = NoRoom \/ rooms[r] \in Room
  /\ jobs \in [Rooms -> {"none", "queued", "mined", "reverted", "saved", "succeeded", "failed"}]
  /\ \A c \in Challenges : challenges[c] = NoChallenge \/ challenges[c] \in Challenge
  /\ active \in [Players -> 0..MaxRoom]
  /\ created \subseteq Rooms /\ seen \subseteq Rooms

\* A player is prepared for one match at most: never seated in two open rooms,
\* and never both waiting in the queue and seated, whatever mixture of queue,
\* invitation, cancellation and restart led there (main.ts /queue, social.ts accept).
OneRoom ==
  \A p \in Players :
    Cardinality(Preparing(p)) + (IF queue[p] = 0 THEN 0 ELSE 1) <= 1

\* "Each player can have only one active match creation": while the relayer has
\* not stopped in the middle of a submission, no player has two createMatch jobs
\* in the journal (assertAvailable, submitReadyRoom).
OneCreation ==
  crashes = 0 =>
    \A p \in Players : Cardinality({r \in Rooms : p \in Seats(r) /\ Pending(r)}) <= 1

\* A room the relayer reported as cancelled is never created on chain: "Submitted
\* transactions retain their true receipt state instead of reporting a false
\* cancellation" (docs/ARCHITECTURE.md).
NoFalseCancellation == \A r \in created : rooms[r].state # "deleted"

\* The same promise for a relayer that never stopped.
CancelledStaysCancelled == crashes = 0 => NoFalseCancellation

\* A room with both consents is not left without its job for ever while the chain
\* would accept it or the job row already exists, restarts included (maintenance).
Overlooked(r) == Ready(r) /\ (Creatable(r) \/ jobs[r] # "none")
ReadyIsSubmitted == \A r \in Rooms : []<>~Overlooked(r)
=============================================================================
