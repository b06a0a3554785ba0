----------------------------- MODULE ArenaQueue -----------------------------
(***************************************************************************)
(* The arcade tab on its way into a match (web/components/Arena.tsx): it   *)
(* joins the queue or enters an accepted challenge, polls its room, signs  *)
(* one consent that commits to a secret, waits for the match and reveals   *)
(* the secret.  One operation at a time holds operationBusy; accepted      *)
(* challenges arrive from the social panel beside it.  Every request may   *)
(* fail before or after the server acted on it, and the page may be        *)
(* reloaded at any moment: what persistMatch stored is all that survives.  *)
(*                                                                         *)
(* The relayer is the server side of Matchmaking seen by one player: a     *)
(* waiting ticket, at most one live room, the recorded consent, the        *)
(* creation job and the match.  Rooms, tickets and secrets are numbers.    *)
(***************************************************************************)
EXTENDS Naturals

CONSTANTS MaxRoom,    \* rooms made for the player
          MaxTicket,  \* queue signatures
          MaxFail,    \* requests that fail
          MaxReload,  \* page reloads
          MaxAccount  \* disconnections and new logins

VARIABLES tab,      \* the refs and state of the component
          stored,   \* sessionStorage "pongit:pending-match"
          op,       \* the operation that holds operationBusy
          entered,  \* rooms the social panel has handed over since mounting
          srv,      \* ticket, room, kind, rticket, consent, job and match
          made,     \* counts of rooms, tickets and secrets used
          faults    \* counts of failures, reloads and disconnections

vars == <<tab, stored, op, entered, srv, made, faults>>

None == [room |-> 0, secret |-> 0, who |-> 0]
Anyone == MaxRoom + 1   \* expectedRoom of a search: any ranked opponent
Idle == [at |-> "idle"]
Blank == [queued |-> FALSE, ticket |-> 0, expected |-> 0, ready |-> 0, pend |-> None,
          secret |-> 0, reveal |-> 0, mine |-> 0]
NoRoom == [ticket |-> 0, room |-> 0, kind |-> "queue", rticket |-> 0, consent |-> None,
           job |-> "none", match |-> 0]

Init ==
  /\ tab = Blank /\ stored = Blank /\ op = Idle /\ entered = {}
  /\ srv = NoRoom
  /\ made = [room |-> 0, ticket |-> 0, secret |-> 0]
  /\ faults = [failed |-> 0, reloaded |-> 0, who |-> 1]

(***************************************************************************)
(* Searching, entering a challenge, cancelling.                            *)
(***************************************************************************)
MayJoin == op = Idle /\ ~tab.queued /\ tab.ticket = 0

JoinQueue ==
  /\ MayJoin /\ made.ticket < MaxTicket
  /\ tab' = [tab EXCEPT !.ready = 0, !.reveal = 0, !.expected = Anyone]
  /\ op' = [at |-> "join", ticket |-> made.ticket + 1]
  /\ made' = [made EXCEPT !.ticket = @ + 1]
  /\ UNCHANGED <<stored, entered, srv, faults>>

\* The server answers with the live room, or replaces the waiting ticket.
Queued(t) == IF srv.room # 0 /\ srv.match = 0 THEN srv ELSE [NoRoom EXCEPT !.ticket = t]

Joined ==
  /\ op.at = "join"
  /\ srv' = Queued(op.ticket)
  /\ \/ /\ tab' = [tab EXCEPT !.ticket = op.ticket, !.queued = TRUE]
        /\ stored' = [tab EXCEPT !.ticket = op.ticket]
        /\ UNCHANGED faults
     \/ /\ faults.failed < MaxFail
        /\ faults' = [faults EXCEPT !.failed = @ + 1]
        /\ UNCHANGED <<tab, stored>>
  /\ op' = Idle
  /\ UNCHANGED <<entered, made>>

Entered(r) ==
  IF tab.expected = r THEN tab
  ELSE [tab EXCEPT !.ready = 0, !.reveal = 0, !.expected = r, !.ticket = srv.rticket, !.queued = TRUE]

EnterChallenge ==
  /\ srv.kind = "duel" /\ srv.room # 0 /\ srv.match = 0 /\ srv.room \notin entered
  /\ entered' = entered \cup {srv.room}
  /\ tab' = Entered(srv.room)
  /\ stored' = IF tab.expected = srv.room THEN stored ELSE Entered(srv.room)
  /\ UNCHANGED <<op, srv, made, faults>>

CancelQueue ==
  /\ op = Idle /\ tab.queued /\ tab.ticket # 0
  /\ IF srv.room # 0 /\ srv.rticket = tab.ticket /\ srv.job # "none"
     THEN UNCHANGED <<tab, stored, srv, faults>>
     ELSE /\ srv' = IF tab.ticket \in {srv.ticket, srv.rticket} THEN NoRoom ELSE srv
          /\ \/ /\ tab' = [Blank EXCEPT !.expected = tab.expected, !.pend = tab.pend]
                /\ stored' = [tab' EXCEPT !.secret = tab.secret]
                /\ UNCHANGED faults
             \/ /\ faults.failed < MaxFail
                /\ faults' = [faults EXCEPT !.failed = @ + 1]
                /\ UNCHANGED <<tab, stored>>
  /\ UNCHANGED <<op, entered, made>>

\* The cancellation on the way out may fail; the page forgets all the same.
Disconnect ==
  /\ op = Idle /\ faults.who <= MaxAccount
  /\ tab' = Blank /\ stored' = Blank
  /\ faults' = [faults EXCEPT !.who = @ + 1]
  /\ \/ UNCHANGED srv
     \/ srv.job = "none" /\ tab.queued /\ srv' = NoRoom
  /\ UNCHANGED <<op, entered, made>>

\* Signing in again starts from nothing but leaves what was stored.
Login ==
  /\ op = Idle /\ faults.who <= MaxAccount
  /\ tab' = Blank
  /\ faults' = [faults EXCEPT !.who = @ + 1]
  /\ UNCHANGED <<stored, op, entered, srv, made>>

Reload ==
  /\ faults.reloaded < MaxReload
  /\ faults' = [faults EXCEPT !.reloaded = @ + 1]
  /\ tab' = [stored EXCEPT !.queued = stored.ticket # 0]
  /\ op' = Idle /\ entered' = {}
  /\ UNCHANGED <<stored, srv, made>>

(***************************************************************************)
(* The polling tick.                                                       *)
(***************************************************************************)
Poll ==
  /\ tab.queued /\ op = Idle
  /\ op' = [at |-> "poll", seen |-> srv]
  /\ UNCHANGED <<tab, stored, entered, srv, made, faults>>

\* Any await of the tick throws: the search is shown as ended.
Abandon ==
  /\ tab' = [tab EXCEPT !.queued = FALSE]
  /\ op' = Idle

PollFails ==
  /\ op.at \in {"poll", "sign", "ready", "again", "job", "reveal"}
  /\ faults.failed < MaxFail
  /\ faults' = [faults EXCEPT !.failed = @ + 1]
  /\ Abandon
  /\ UNCHANGED <<stored, entered, srv, made>>

Agreed(s) == tab.expected = IF s.kind = "queue" THEN Anyone ELSE s.room

PollAnswered ==
  /\ op.at = "poll"
  /\ \E s \in {op.seen} :
       \/ /\ s.room = 0 /\ s.ticket = 0
          /\ tab' = [tab EXCEPT !.ticket = 0, !.queued = FALSE]
          /\ op' = Idle /\ UNCHANGED made
       \/ /\ s.room = 0 /\ s.ticket # 0
          /\ op' = Idle /\ UNCHANGED <<tab, made>>
       \/ /\ s.room # 0 /\ ~Agreed(s)
          /\ Abandon /\ UNCHANGED made
       \/ /\ s.room # 0 /\ Agreed(s) /\ s.room # tab.ready
          /\ tab' = [tab EXCEPT !.ticket = s.rticket, !.ready = s.room, !.secret = made.secret + 1]
          /\ made' = [made EXCEPT !.secret = @ + 1]
          /\ op' = [at |-> "sign", seen |-> s]
       \/ /\ s.room # 0 /\ Agreed(s) /\ s.room = tab.ready
          /\ tab' = [tab EXCEPT !.ticket = s.rticket]
          /\ op' = [at |-> "again", seen |-> s]
          /\ UNCHANGED made
  /\ UNCHANGED <<stored, entered, srv, faults>>

Signed(t) == t

Sign ==
  /\ op.at = "sign"
  /\ tab' = [tab EXCEPT !.pend = [room |-> op.seen.room, secret |-> tab.secret, who |-> faults.who]]
  /\ stored' = Signed(tab')
  /\ op' = [op EXCEPT !.at = "ready"]
  /\ UNCHANGED <<entered, srv, made, faults>>

\* /ready keeps the first consent of a room and refuses another.
Consents(p) == srv.room = p.room /\ srv.consent \in {None, p}

PostReady ==
  /\ \/ op.at = "ready"
     \/ op.at = "again" /\ op.seen.room = tab.ready /\ tab.pend # None /\ op.seen.consent = None
  /\ IF Consents(tab.pend)
     THEN /\ srv' = [srv EXCEPT !.consent = IF srv.job = "none" THEN tab.pend ELSE @]
          /\ op' = [op EXCEPT !.at = IF op.at = "ready" THEN "again" ELSE "job"]
          /\ UNCHANGED tab
     ELSE Abandon /\ UNCHANGED srv
  /\ UNCHANGED <<stored, entered, made, faults>>

SkipReady ==
  /\ op.at = "again"
  /\ ~(op.seen.room = tab.ready /\ tab.pend # None /\ op.seen.consent = None)
  /\ op' = [op EXCEPT !.at = "job"]
  /\ UNCHANGED <<tab, stored, entered, srv, made, faults>>

CheckJob ==
  /\ op.at = "job"
  /\ \/ /\ op.seen.job # "none" /\ srv.job = "failed"
        /\ Abandon
     \/ /\ ~(op.seen.job # "none" /\ srv.job = "failed")
        /\ IF op.seen.match # 0 /\ tab.reveal # op.seen.match
           THEN /\ tab' = [tab EXCEPT !.reveal = op.seen.match, !.mine = op.seen.match]
                /\ op' = [op EXCEPT !.at = "reveal"]
           ELSE op' = Idle /\ UNCHANGED tab
  /\ UNCHANGED <<stored, entered, srv, made, faults>>

Reveal ==
  /\ op.at = "reveal"
  /\ IF tab.secret = op.seen.consent.secret
     THEN /\ tab' = [tab EXCEPT !.queued = FALSE, !.ticket = 0]
          /\ stored' = tab' /\ op' = Idle
     ELSE Abandon /\ UNCHANGED stored
  /\ UNCHANGED <<entered, srv, made, faults>>

(***************************************************************************)
(* The relayer, the opponent and the chain.                                *)
(***************************************************************************)
RoomMade(kind) ==
  /\ srv.room = 0 /\ made.room < MaxRoom
  /\ kind = "queue" => srv.ticket # 0
  /\ srv' = [NoRoom EXCEPT !.room = made.room + 1, !.kind = kind,
                           !.rticket = IF kind = "queue" THEN srv.ticket ELSE MaxTicket + made.room + 1]
  /\ made' = [made EXCEPT !.room = @ + 1]
  /\ UNCHANGED <<tab, stored, op, entered, faults>>

SubmitRoom ==
  /\ srv.room # 0 /\ srv.consent # None /\ srv.job = "none"
  /\ srv' = [srv EXCEPT !.job = "sent"]
  /\ UNCHANGED <<tab, stored, op, entered, made, faults>>

JobEnds ==
  /\ srv.job = "sent"
  /\ \/ srv' = [srv EXCEPT !.job = "done", !.match = srv.room]
     \/ srv' = [srv EXCEPT !.job = "failed"]
  /\ UNCHANGED <<tab, stored, op, entered, made, faults>>

\* The room or the ticket reaches its expiry.
Lapse ==
  /\ srv # NoRoom
  /\ srv' = NoRoom
  /\ UNCHANGED <<tab, stored, op, entered, made, faults>>

Next ==
  \/ JoinQueue \/ Joined \/ EnterChallenge \/ CancelQueue \/ Disconnect \/ Login \/ Reload
  \/ Poll \/ PollFails \/ PollAnswered \/ Sign \/ PostReady \/ SkipReady \/ CheckJob \/ Reveal
  \/ RoomMade("queue") \/ RoomMade("duel") \/ SubmitRoom \/ JobEnds \/ Lapse

Spec == Init /\ [][Next]_vars

(***************************************************************************)
(* Properties.                                                             *)
(***************************************************************************)
QueueTypeOK ==
  /\ tab.queued \in BOOLEAN /\ tab.ticket \in 0..(MaxTicket + MaxRoom)
  /\ tab.ready \in 0..MaxRoom /\ tab.expected \in 0..Anyone
  /\ op.at \in {"idle", "join", "poll", "sign", "ready", "again", "job", "reveal"}

\* While a room holds a consent of this login, the page has stored the secret
\* that opens it: lost answers, reloads and repeated notifications never
\* leave a match whose commitment the tab can no longer reveal.
SecretKept ==
  (srv.consent # None /\ srv.consent.who = faults.who) =>
     stored.secret = srv.consent.secret /\ stored.ready = srv.room

=============================================================================
