----------------------------- MODULE RoomsLobby -----------------------------
(***************************************************************************)
(* The coordinator of the rooms: the lobby document (rooms, queue,         *)
(* invitations) kept under one lock, the tickets it signs for a pair of    *)
(* members, and the hosted engine on which the two players redeem one.     *)
(*                                                                         *)
(* Two readings of the engine are used later than they are made: the       *)
(* evidence of a request, read before the lock, and the snapshots of a     *)
(* maintenance cycle.  Both are taken here at their use, from the phases   *)
(* the match may have shown meanwhile.  The only clock is the age of       *)
(* each ticket.  What a request may be refused for at any moment           *)
(* (admission, rate limits, a late answer) is not state here: the request  *)
(* is then simply not made.  Of a room's status only "closed" is read by   *)
(* the code; its host, like the other labels, is only shown.               *)
(***************************************************************************)
EXTENDS Naturals, SequencesExt

CONSTANTS Players, RoomIds, Tickets, Nobody, NoTicket,
          Blocks,        \* pairs {p, q} of which one has blocked the other
          GroupSize,     \* members of a group room
          MaxActive,     \* matches of the engine, and offers open at once
          PromptCycles,  \* a cycle commits within three seconds of its reads
          MaxInvites,    \* bound: pending invitations
          MaxRollbacks   \* bound: engine histories that are contested

ASSUME LobbyConstants ==
    /\ IsFiniteSet(Players) /\ Nobody \notin Players /\ NoTicket \notin Tickets
    /\ RoomIds \subseteq Nat \ {0}
    /\ Tickets \subseteq Nat /\ Blocks \subseteq SUBSET Players
    /\ GroupSize \in Nat /\ MaxActive \in Nat /\ PromptCycles \in BOOLEAN
    /\ MaxInvites \in Nat /\ MaxRollbacks \in Nat

VARIABLES rooms,      \* the lobby document
          queue,      \* players waiting for a ranked match, oldest first
          invites,    \* pending invitations
          offers,     \* il_offers: what was last saved of each ticket
          age,        \* of each ticket: 0 fresh, 1 expired, 2 replaceable, 3 seen so
                      \* by a whole cycle, 4 no longer watched
          results,    \* il_result_pending and il_results
          audit,      \* the contested result being restored
          engine,     \* the hosted engine: one record per ticket
          rollbacks

docVars == <<rooms, queue, invites, offers>>
engineVars == <<engine, rollbacks>>
vars == <<docVars, age, results, audit, engineVars>>

NoRoom == [status |-> "none", kind |-> "group", members |-> <<>>,
           winner |-> Nobody, offer |-> NoTicket]
NoOffer == [room |-> 0, a |-> Nobody, b |-> Nobody, status |-> "none",
            accepted |-> {}]
NoMatch == [phase |-> 0, acc |-> {}, winner |-> Nobody]
NoAudit == [ticket |-> NoTicket, phase |-> 0]
NoResult == [state |-> "none", phase |-> 0, winner |-> Nobody]

Over == {"complete", "cancelled"}
Live(t) == engine[t].phase \in {1, 2}
Pair(t) == {offers[t].a, offers[t].b}
Seats(r) == {m.player : m \in ToSet(rooms[r].members)}
Rooms == {r \in RoomIds : rooms[r].status # "none"}
OpenRooms == {r \in RoomIds : rooms[r].status = "open"}

\* Rooms are numbered as they are made.
NextRooms(n) == {r \in RoomIds \ Rooms : r <= Cardinality(Rooms) + n}

\* occupant: the open room a player sits in.
Occupied(p) == {r \in OpenRooms : p \in Seats(r)}
Occupant(p) == CHOOSE r \in Occupied(p) : TRUE

\* available: neither in a room nor in the queue.
Available(p) == Occupied(p) = {} /\ p \notin ToSet(queue)

\* What a filter leaves of a list: the elements at these places, in their order.
Chosen(s, places) ==
    [k \in 1..Cardinality(places) |->
        s[CHOOSE i \in places : Cardinality({j \in places : j <= i}) = k]]

\* The members of a room are kept in the order of their turn: by position, then
\* by seniority.
Member(p) == [player |-> p, away |-> FALSE]
SetAway(members, who) ==
    [i \in DOMAIN members |-> [members[i] EXCEPT !.away = @ \/ members[i].player \in who]]
Without(members, who) == Chosen(members, {i \in DOMAIN members : members[i].player \notin who})
Of(members, p) == Chosen(members, {i \in DOMAIN members : members[i].player = p})
Unless(line, who) == Chosen(line, {i \in DOMAIN line : line[i] \notin who})

\* Mutant: the loser is seated again wherever they are.
RotateReseats(members, t, winner) ==
    LET loser == IF winner = offers[t].a THEN offers[t].b ELSE offers[t].a
    IN  Append(Without(members, {loser}), Member(loser))

\* rotateMembers: the loser goes behind everyone.
RotateMembers(members, t, winner) ==
    LET loser == IF winner = offers[t].a THEN offers[t].b ELSE offers[t].a
    IN  Without(members, {loser}) \o Of(members, loser)

\* nextPair: the first two eligible members, the winner of the last match first.
NextPair(members, winner, eligible) ==
    LET line == Chosen(members, {i \in DOMAIN members : /\ ~members[i].away
                                                       /\ members[i].player \in eligible})
        kept == Of(line, winner) \o Without(line, {winner})
    IN  IF Len(kept) < 2 THEN <<>> ELSE <<kept[1].player, kept[2].player>>

Init ==
    /\ rooms = [r \in RoomIds |-> NoRoom] /\ queue = <<>> /\ invites = {}
    /\ offers = [t \in Tickets |-> NoOffer] /\ age = [t \in Tickets |-> 4]
    /\ results = [t \in Tickets |-> NoResult] /\ audit = NoAudit
    /\ engine = [t \in Tickets |-> NoMatch] /\ rollbacks = 0

-----------------------------------------------------------------------------
(* Requests that need no evidence: one transaction each. *)

NewRoom(p, kind) == [NoRoom EXCEPT !.status = "open", !.kind = kind, !.members = <<Member(p)>>]
Blocked(p, q) == {p, q} \in Blocks
Pending(r, q) == \E i \in invites : i.room = r /\ i.to = q

\* invite: refused for oneself or a blocked player, and repeated for free.
Invitable(p, q) == p # q /\ ~Blocked(p, q)
Invite(r, p, who) ==
    /\ \A q \in who : Invitable(p, q)
    /\ invites' = invites \cup {[room |-> r, from |-> p, to |-> q] : q \in {q \in who : ~Pending(r, q)}}
    /\ Cardinality(invites') <= MaxInvites

\* The rest of the state a lobby transaction leaves alone.
Lobby == UNCHANGED <<age, results, audit, engineVars>>

\* /queue
Queue(p) ==
    /\ Available(p)
    /\ queue' = Append(queue, p)
    /\ UNCHANGED <<rooms, invites, offers>> /\ Lobby

\* /queue/cancel
CancelQueue(p) ==
    /\ p \in ToSet(queue)
    /\ queue' = Unless(queue, {p})
    /\ UNCHANGED <<rooms, invites, offers>> /\ Lobby

\* /rooms: a group room with its first invitations.
CreateRoom(p, r, who) ==
    /\ Available(p) /\ r \in NextRooms(1)
    /\ rooms' = [rooms EXCEPT ![r] = NewRoom(p, "group")]
    /\ Invite(r, p, who)
    /\ UNCHANGED <<queue, offers>> /\ Lobby

\* /invitations: a friendly duel ...
CreateDuel(p, r, q) ==
    /\ Available(p) /\ r \in NextRooms(1)
    /\ ~\E i \in invites : i.from = q /\ i.to = p /\ rooms[i.room].kind = "duel"
    /\ rooms' = [rooms EXCEPT ![r] = NewRoom(p, "duel")]
    /\ Invite(r, p, {q})
    /\ UNCHANGED <<queue, offers>> /\ Lobby

\* ... or the answer to the one the other player has sent: the caller takes a
\* seat of that room.  The code gives position 1, which is behind the creator
\* unless the creator has rejoined.
MeetDuel(p, i, before) ==
    /\ i \in invites /\ i.to = p /\ rooms[i.room].kind = "duel"
    /\ Available(p) /\ ~Blocked(p, i.from)
    /\ rooms' = [rooms EXCEPT ![i.room].members =
           IF before THEN <<Member(p)>> \o @ ELSE Append(@, Member(p))]
    /\ invites' = invites \ {i}
    /\ UNCHANGED <<queue, offers>> /\ Lobby

\* /invitations/decline
Decline(i) ==
    /\ i \in invites /\ invites' = invites \ {i}
    /\ UNCHANGED <<rooms, queue, offers>> /\ Lobby

\* /rooms/join
Join(p, r) ==
    /\ r \in OpenRooms /\ Available(p)
    /\ rooms[r].kind # "group" => Pending(r, p)
    /\ Cardinality(Seats(r)) < IF rooms[r].kind = "group" THEN GroupSize ELSE 2
    /\ \A q \in Seats(r) : ~Blocked(p, q)
    /\ rooms' = [rooms EXCEPT ![r].members = Append(@, Member(p))]
    /\ invites' = {i \in invites : i.room # r \/ i.to # p}
    /\ UNCHANGED <<queue, offers>> /\ Lobby

\* /rooms/invite
InviteToRoom(p, q) ==
    /\ Occupied(p) # {} /\ ~Pending(Occupant(p), q)
    /\ Invite(Occupant(p), p, {q})
    /\ UNCHANGED <<rooms, queue, offers>> /\ Lobby

\* /rooms/rejoin
Rejoin(p) ==
    /\ Occupied(p) # {}
    /\ LET r == Occupant(p) IN
       rooms' = [rooms EXCEPT ![r].members = Append(Without(@, {p}), Member(p))]
    /\ UNCHANGED <<queue, invites, offers>> /\ Lobby

-----------------------------------------------------------------------------
(* Requests whose evidence is read before the lock. *)

OfferOf(p) == rooms[Occupant(p)].offer
InOffer(p) == OfferOf(p) # NoTicket /\ p \in Pair(OfferOf(p))

\* The phases a reading of t may show when it is used: the ones it has been
\* through, until the ages after its expiry have outlasted the reading (two
\* seconds for evidence, one cycle for a snapshot).
Readings(t) ==
    {engine[t].phase} \cup
    {phase \in 0..2 : phase <= Cardinality(engine[t].acc) /\ (age[t] >= 2 => ~PromptCycles)}

\* verifiedEvidence: the player's offer is still t, which was seen in this phase.
Verified(p, t, phase) ==
    /\ Occupied(p) # {} /\ InOffer(p) /\ OfferOf(p) = t /\ phase \in Readings(t)

\* What one such transaction leaves alone.
Answered == UNCHANGED <<queue, invites>> /\ Lobby

\* /offers/accept before the player's consent, which its client then sends.
Accept(p, t, phase) ==
    /\ Verified(p, t, phase)
    /\ \/ phase = 2 /\ offers' = [offers EXCEPT ![t].accepted = Pair(t)]
       \/ /\ phase < 2 /\ offers[t].status # "cancelled" /\ age[t] = 0
          /\ offers' = [offers EXCEPT ![t].accepted = IF phase = 0 THEN {} ELSE @]
    /\ Answered /\ UNCHANGED rooms

\* /offers/accept with the receipt of the consent.
Confirm(p, t, phase) ==
    /\ Verified(p, t, phase) /\ p \in engine[t].acc /\ phase # 0
    /\ offers' = [offers EXCEPT ![t].accepted = IF phase = 2 THEN Pair(t) ELSE @ \cup {p}]
    /\ Answered /\ UNCHANGED rooms

\* /offers/back
Back(p, t, phase) ==
    /\ Verified(p, t, phase) /\ phase \notin {1, 2} /\ offers[t].status # "active"
    /\ rooms' = [rooms EXCEPT ![Occupant(p)].members = SetAway(@, {p})]
    /\ offers' = [offers EXCEPT ![t].status = "cancelled"]
    /\ Answered

LeaveRoom(p) == rooms' = [rooms EXCEPT ![Occupant(p)].members = Without(@, {p})]

\* /rooms/leave by a player of the offer ...
Leave(p, t, phase) ==
    /\ Verified(p, t, phase) /\ phase \notin {1, 2}
    /\ LeaveRoom(p)
    /\ offers' = [offers EXCEPT ![t].status = IF @ = "offered" THEN "cancelled" ELSE @]
    /\ Answered

\* ... and by anyone else.
LeaveFreely(p) ==
    /\ Occupied(p) # {} /\ ~InOffer(p)
    /\ LeaveRoom(p)
    /\ UNCHANGED <<queue, invites, offers>> /\ Lobby

-----------------------------------------------------------------------------
(* Maintenance: snapshots, then one transaction over the document. *)

\* Mutant: a ticket is no longer read once it is cancelled here.
WatchedOpen == {t \in Tickets : \E r \in Rooms : rooms[r].offer = t /\ offers[t].status \notin Over}

\* The tickets a cycle reads: a cancelled one until half a minute after its expiry.
Watched == {t \in Tickets : \E r \in Rooms :
                /\ rooms[r].offer = t /\ offers[t].status # "complete"
                /\ offers[t].status = "cancelled" => age[t] < 4}

\* What a cycle reads; of a ticket that is not watched there is no snapshot (9).
Snapshots(seen) ==
    {[t \in Tickets |-> IF t \in seen THEN f[t] ELSE 9] :
        f \in {f \in [seen -> 0..4] : \A t \in seen : f[t] \in Readings(t)}}

Ended(t, phase) == phase \in {3, 4} /\ offers[t].status \notin Over

\* expireUnstartedRoomOffer: nobody's consent was seen until after the grace.
Unstarted(t, phase) == offers[t].status = "offered" /\ phase = 0 /\ age[t] >= 2

ObservedOffer(t, phase) ==
    CASE phase = 2 -> [offers[t] EXCEPT !.accepted = Pair(t), !.status = "active"]
      [] Ended(t, phase) -> [offers[t] EXCEPT !.status = IF phase = 3 THEN "complete" ELSE "cancelled"]
      [] Unstarted(t, phase) -> [offers[t] EXCEPT !.accepted = {}, !.status = "cancelled"]
      [] OTHER -> offers[t]

\* The loser of a match goes behind everyone; who let a ticket expire is away.
ObservedRoom(room, snap) ==
    LET t == room.offer
        winner == IF snap[t] = 3 THEN engine[t].winner ELSE Nobody IN
    IF t = NoTicket THEN room
    ELSE CASE Ended(t, snap[t]) ->
                [room EXCEPT !.winner = winner,
                     !.members = IF snap[t] = 3 THEN RotateMembers(@, t, winner)
                         ELSE IF age[t] >= 1 THEN SetAway(@, Pair(t) \ offers[t].accepted) ELSE @]
           [] Unstarted(t, snap[t]) -> [room EXCEPT !.members = SetAway(@, Pair(t))]
           [] OTHER -> room

\* Rooms in which nothing has happened for half an hour (a day, with members).
Quiet == {r \in OpenRooms :
             /\ \A i \in invites : i.room # r
             /\ rooms[r].offer # NoTicket =>
                    age[rooms[r].offer] = 4 /\ offers[rooms[r].offer].status \in Over}

\* The pairs a cycle may take from the queue: the older player first, within a
\* rating band that is left open here, never across a block.
Matchings(line) ==
    LET free == NextRooms(Len(line) \div 2)
        pairs == {<<line[ij[1]], line[ij[2]]>> : ij \in
                     {ij \in (DOMAIN line) \X (DOMAIN line) : /\ ij[1] < ij[2]
                                                         /\ ~Blocked(line[ij[1]], line[ij[2]])}}
    IN  UNION {{f \in [D -> pairs] : \A r, s \in D : r # s =>
                    ToSet(f[r]) \cap ToSet(f[s]) = {}} : D \in {D \in SUBSET free : \A r \in D, s \in free : s < r => s \in D}}

\* A ticket outside every room that can no longer be redeemed, nor its result
\* contested: what it was is of no more use.
Spent(t, list) ==
    /\ t \notin {list[r].offer : r \in RoomIds}
    /\ offers[t].status # "none" /\ (age[t] >= 1 \/ engine[t].phase >= 3)
    /\ ~Live(t) /\ audit.ticket # t
    /\ results[t].state # "none" => rollbacks = MaxRollbacks

\* Mutant: a cancelled ticket is replaced at once.
MayReplace(room, offer, eligible) ==
    /\ room.status # "closed" /\ NextPair(room.members, room.winner, eligible) # <<>>
    /\ room.offer # NoTicket => offer[room.offer].status \in Over

\* A room that gets an offer: a cancelled ticket is waited out.
MayOffer(room, offer, eligible) ==
    /\ room.status # "closed" /\ NextPair(room.members, room.winner, eligible) # <<>>
    /\ room.offer # NoTicket => /\ offer[room.offer].status \in Over
                                /\ offer[room.offer].status = "cancelled" => age[room.offer] >= 2

\* The transaction of the cycle: matches observed, idle rooms closed or deleted,
\* the queue paired, offers signed for the oldest rooms as far as the capacity
\* goes.  A member is eligible who was seen for the last half minute and whose
\* room is not in the pause after a match; nobody is while the engine is not
\* available or its next publication is full.
Swept(snap, made, closed) ==
    [r \in RoomIds |->
        IF r \in closed THEN [rooms[r] EXCEPT !.status = "closed", !.members = <<>>]
        ELSE IF r \in DOMAIN made THEN
            [NewRoom(made[r][1], "ranked") EXCEPT !.members = Append(@, Member(made[r][2]))]
        ELSE ObservedRoom(rooms[r], snap)]

\* The offers signed over the swept rooms: the i-th room that may have one gets the
\* i-th free ticket, while fewer than MaxActive are open.
Signed(swept, seen, known, eligible) ==
    LET free == {t \in Tickets : offers[t].status = "none"}
        open == {r \in RoomIds : swept[r].offer # NoTicket /\ seen[swept[r].offer].status \notin Over}
        ready == {r \in known : MayOffer(swept[r], seen, eligible)}
        Place(x, set) == Cardinality({y \in set : y <= x})
    IN  {s \in ready \X free : /\ Place(s[1], ready) = Place(s[2], free)
                               /\ Place(s[1], ready) + Cardinality(open) <= MaxActive}

\* What the cycle saves: rooms, their offers and the queue, with the tickets signed.
CycleSaves(swept, seen, signed, snap, made, waiting, eligible) ==
    LET new == {s[2] : s \in signed}
        offered == [r \in RoomIds |->
            IF \E s \in signed : s[1] = r
            THEN [swept[r] EXCEPT !.offer = (CHOOSE s \in signed : s[1] = r)[2]] ELSE swept[r]]
        dead == {t \in Tickets \ new : Spent(t, offered)}
        Ticket(r) == LET pair == NextPair(swept[r].members, swept[r].winner, eligible) IN
            [NoOffer EXCEPT !.room = r, !.status = "offered", !.a = pair[1], !.b = pair[2]]
        Fresh(f, value) == [t \in Tickets |-> IF t \in dead \cup new THEN value ELSE f[t]]
    IN  /\ rooms' = offered
        /\ offers' = [t \in Tickets |->
               IF t \in new THEN Ticket((CHOOSE s \in signed : s[2] = t)[1])
               ELSE IF t \in dead THEN [NoOffer EXCEPT !.status = "cancelled"] ELSE seen[t]]
        /\ queue' = Unless(waiting, UNION {ToSet(made[r]) : r \in DOMAIN made})
        /\ age' = [t \in Tickets |-> IF t \in new THEN 0 ELSE IF t \in dead THEN 4
                                    ELSE IF age[t] = 2 THEN 3 ELSE age[t]]
        /\ engine' = Fresh(engine, NoMatch)
        /\ results' = Fresh([t \in Tickets |-> IF snap[t] \in {3, 4} /\ results[t].state = "none"
                                 THEN [NoResult EXCEPT !.state = "pending"] ELSE results[t]], NoResult)
        /\ UNCHANGED <<invites, audit, rollbacks>>

MaintenanceCycle(snap, made, waiting, eligible, closed) ==
    \E swept \in {Swept(snap, made, closed)},
       seen \in {[t \in Tickets |-> ObservedOffer(t, snap[t])]} :
    \E signed \in {Signed(swept, seen, Rooms \cup DOMAIN made, eligible)} :
        CycleSaves(swept, seen, signed, snap, made, waiting, eligible)

-----------------------------------------------------------------------------
(* History: summaries of results, and matches whose result was contested. *)

\* auditHistory: the summary of a finished match.
RecordResult(t) ==
    /\ results[t].state = "pending" /\ engine[t].phase >= 3
    /\ results' = [results EXCEPT ![t] =
           [state |-> "recorded", phase |-> engine[t].phase, winner |-> engine[t].winner]]
    /\ UNCHANGED <<docVars, age, audit, engineVars>>

\* auditHistory: the engine no longer has this result.
Contest(t) ==
    /\ audit = NoAudit /\ results[t].state = "recorded"
    /\ <<results[t].phase, results[t].winner>> # <<engine[t].phase, engine[t].winner>>
    /\ audit' = [ticket |-> t, phase |-> engine[t].phase]
    /\ UNCHANGED <<docVars, age, results, engineVars>>

\* Mutant: a player who has left is not seated again.
RestoreUnseated(members, who) ==
    {[i \in DOMAIN members |-> [members[i] EXCEPT !.away = @ /\ members[i].player \notin who]]}

\* Players who had left are seated again at the place that their number of
\* members gives, which may be any.
Restored(members, who) ==
    LET back == [i \in DOMAIN members |-> [members[i] EXCEPT !.away = @ /\ members[i].player \notin who]]
        lost == who \ {m.player : m \in ToSet(members)}
    IN  {m \in SetToSeqs(ToSet(back) \cup {Member(p) : p \in lost}) : Without(m, lost) = back}

\* restoreContestedMatch: the engine owns participation, the document follows it.
RestoreContestedMatch ==
    LET t == audit.ticket  r == offers[t].room  who == Pair(t)
        clash(s) == rooms[s].offer # NoTicket /\ Pair(rooms[s].offer) \cap who # {} IN
    /\ audit # NoAudit /\ audit' = NoAudit
    /\ results' = [results EXCEPT ![t] = NoResult]
    /\ IF audit.phase \in {1, 2} THEN
            /\ Cardinality(Seats(r) \cup who) <= GroupSize
            /\ \E line \in Restored(rooms[r].members, who) :
                   rooms' = [s \in RoomIds |->
                       IF s \notin Rooms THEN rooms[s]
                       ELSE IF s # r THEN [rooms[s] EXCEPT !.members = Without(@, who)]
                       ELSE [rooms[r] EXCEPT !.winner = Nobody, !.members = line, !.offer = t,
                                             !.status = "open"]]
            /\ offers' = [u \in Tickets |->
                   IF u = t THEN [offers[t] EXCEPT !.status =
                                     IF audit.phase = 2 THEN "active" ELSE "submitted"]
                   ELSE IF \E s \in Rooms \ {r} : rooms[s].offer = u /\ clash(s)
                        THEN [offers[u] EXCEPT !.status = "cancelled"] ELSE offers[u]]
            /\ queue' = Unless(queue, who)
       ELSE /\ rooms' = [rooms EXCEPT ![r].winner = Nobody,
                   ![r].status = IF rooms[r].offer = t THEN "open" ELSE @]
            /\ offers' = [offers EXCEPT ![t].status = IF rooms[r].offer = t THEN "cancelled" ELSE @]
            /\ UNCHANGED queue
    /\ UNCHANGED <<invites, age, engineVars>>

-----------------------------------------------------------------------------
(* The engine's contract. *)

Engine(t, match) ==
    /\ engine' = [engine EXCEPT ![t] = match]
    /\ UNCHANGED <<docVars, age, results, audit, rollbacks>>

\* acceptMatch: the first consent creates the match, the second starts it, whatever
\* happened to the offer meanwhile: the ticket is signed.  The introduction that
\* the clients wait for (/offers/ready) is in RoomsClient.
AcceptMatch(p, t) ==
    /\ p \in Pair(t) /\ age[t] = 0 /\ p \notin engine[t].acc
    /\ \/ /\ engine[t].phase = 0
          /\ Cardinality({u \in Tickets : Live(u)}) < MaxActive
          /\ \A u \in Tickets : Live(u) => Pair(u) \cap Pair(t) = {}
          /\ Engine(t, [engine[t] EXCEPT !.phase = 1, !.acc = {p}])
       \/ /\ engine[t].phase = 1
          /\ Engine(t, [engine[t] EXCEPT !.phase = 2, !.acc = Pair(t)])

\* cancelMatch: by a player, or by anyone once the ticket has expired.
CancelMatch(t) == engine[t].phase = 1 /\ Engine(t, [engine[t] EXCEPT !.phase = 4])

\* tick and concede: play ends with a winner, or is cut off after half an hour.
FinishMatch(t, winner) ==
    /\ engine[t].phase = 2
    /\ Engine(t, [engine[t] EXCEPT !.phase = IF winner = Nobody THEN 4 ELSE 3, !.winner = winner])

\* A contested history: a match that was over, and whose summary was saved long
\* ago, is played again or never was, and what its players began later is gone.
Rollback(t, phase) ==
    /\ rollbacks < MaxRollbacks /\ results[t].state = "recorded" /\ engine[t].phase = 3 /\ age[t] = 4 /\ phase \in {0, 1, 2}
    /\ rollbacks' = rollbacks + 1
    /\ engine' = [u \in Tickets |->
           IF u = t THEN [NoMatch EXCEPT !.phase = phase,
                              !.acc = IF phase = 0 THEN {} ELSE IF phase = 1 THEN {offers[t].a} ELSE Pair(t)]
           ELSE IF Pair(u) \cap Pair(t) # {} /\ Live(u) THEN NoMatch ELSE engine[u]]
    /\ UNCHANGED <<docVars, age, results, audit>>

-----------------------------------------------------------------------------
(* Time. *)

\* A ticket grows older.  The last half minute of watching is longer than a
\* cycle: one has begun and ended in it, unless the service is down that long.
GrowOlder(t) ==
    /\ age[t] \in {0, 1, 3} /\ age' = [age EXCEPT ![t] = @ + 1]
    /\ UNCHANGED <<docVars, results, audit, engineVars>>

\* An invitation expires after ten minutes.
InvitationExpires(i) ==
    /\ i \in invites /\ invites' = invites \ {i}
    /\ UNCHANGED <<rooms, queue, offers>> /\ Lobby

-----------------------------------------------------------------------------
Route(p) ==
    \/ Queue(p) \/ CancelQueue(p) \/ Rejoin(p) \/ LeaveFreely(p)
    \/ \E r \in RoomIds : Join(p, r) \/ \E who \in SUBSET Players : CreateRoom(p, r, who)
    \/ \E q \in Players : InviteToRoom(p, q) \/ \E r \in RoomIds : CreateDuel(p, r, q)
    \/ \E i \in invites, before \in BOOLEAN : MeetDuel(p, i, before)
    \/ \E i \in invites : i.to = p /\ Decline(i)
    \/ \E t \in Tickets : \E phase \in Readings(t) :
        \/ Accept(p, t, phase) \/ Confirm(p, t, phase)
        \/ Back(p, t, phase) \/ Leave(p, t, phase)

Commit ==
    \E snap \in Snapshots(Watched),
       gone \in SUBSET ToSet(queue), eligible \in {e \in SUBSET Players : Cardinality(e) # 1},
       closed \in SUBSET Quiet :
        LET waiting == Unless(queue, gone) IN
        \E made \in Matchings(waiting) :
            MaintenanceCycle(snap, made, waiting, eligible, closed)

Maintenance ==
    \/ Commit \/ RestoreContestedMatch
    \/ \E t \in Tickets : RecordResult(t) \/ Contest(t)

Game ==
    \E t \in Tickets :
        \/ \E p \in Players : AcceptMatch(p, t)
        \/ CancelMatch(t) \/ \E w \in Pair(t) \cup {Nobody} : FinishMatch(t, w)
        \/ \E phase \in 0..2 : Rollback(t, phase)

Time == (\E t \in Tickets : GrowOlder(t)) \/ \E i \in invites : InvitationExpires(i)

Next == (\E p \in Players : Route(p)) \/ Maintenance \/ Game \/ Time
Spec == Init /\ [][Next]_vars

-----------------------------------------------------------------------------
\* Each part of the state is of its type.
TypeOK ==
    /\ \A r \in RoomIds :
        /\ rooms[r].status \in {"none", "open", "closed"}
        /\ rooms[r].offer \in Tickets \cup {NoTicket}
        /\ Seats(r) \subseteq Players
    /\ \A r \in Rooms : r > 1 => r - 1 \in Rooms
    /\ ToSet(queue) \subseteq Players
    /\ \A t \in Tickets : offers[t].accepted \subseteq Pair(t) /\ age[t] \in 0..4
    /\ engine \in [Tickets -> [phase : 0..4, acc : SUBSET Players, winner : Players \cup {Nobody}]]

\* Nobody sits in two rooms, twice in one, or in a room and in the queue: the
\* primary key of il_occupancy never refuses a transaction, whatever a recovery
\* or the queue does between two requests of a player.
OneSeat ==
    \A p \in Players :
        Cardinality({ri \in RoomIds \X (1..Cardinality(Players) + 1) :
            /\ ri[1] \in OpenRooms /\ ri[2] \in DOMAIN rooms[ri[1]].members
            /\ rooms[ri[1]].members[ri[2]].player = p})
        + Cardinality({i \in DOMAIN queue : queue[i] = p}) <= 1

\* A match being played is one the coordinator still looks at: a ticket that was
\* declined here but redeemed there, on evidence read before the consents, is
\* found again by a later cycle.
PlayIsWatched ==
    rollbacks = 0 => \A t \in Tickets : engine[t].phase = 2 => t \in Watched

\* Once a contested match has been restored, its players sit in the room that
\* offers it for as long as it is played, wherever they had gone meanwhile.
RestoredSeats ==
    \A t \in Tickets :
        rollbacks > 0 /\ age[t] = 4 /\ Live(t) /\ results[t].state = "none" /\ audit.ticket # t
        => \E r \in OpenRooms : rooms[r].offer = t /\ Pair(t) \subseteq Seats(r)

\* A room's ticket is replaced only when it can no longer be redeemed and no
\* match of it is being played: "never issue a replacement while it can be
\* submitted", although the offer was cancelled on a reading that is now old.
TicketsOutlived ==
    rollbacks = 0 => \A r \in RoomIds :
        LET t == rooms[r].offer IN
        (t # NoTicket /\ rooms'[r].offer # t) => engine[t].phase # 2 /\ (age[t] >= 1 \/ engine[t].phase >= 3)
=============================================================================
