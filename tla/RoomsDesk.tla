------------------------------ MODULE RoomsDesk ------------------------------
(***************************************************************************)
(* The front desk of the rooms client (web/components/RoomsHub.tsx): which *)
(* screen and which controls the page shows from the last lobby state it   *)
(* loaded, what a click does, and the lobby commands behind the controls   *)
(* (run, ensure, refresh, join, leave, prepareLaunch...).  RoomsClient has *)
(* the other half of the page, the signed game commands; here the page     *)
(* being blocked by one of them is an input.                               *)
(*                                                                         *)
(* The lobby is what one account sees of RoomsLobby: its seat.  A room and *)
(* a duel are known by a number; 0 is none.                                *)
(***************************************************************************)
EXTENDS Integers, FiniteSets

CONSTANTS Accounts,   \* passkey accounts used in this tab
          MaxRoom,    \* rooms the lobby opens in one behaviour
          MaxDuel,    \* tickets the coordinator signs
          MaxClick,   \* clicks on controls that send or remember something
          MaxFault    \* failed answers, expired sessions and blocked writes

VARIABLES
  seat,    \* the lobby: the seat of each account
  made,    \* rooms opened and tickets signed so far
  page,    \* React state and refs of the tab
  cmds,    \* handlers under way: run(fn) and login
  fetch,   \* the one refresh of the lobby state under way (refreshPending)
  spent,   \* clicks and faults so far
  chosen,  \* the rooms and the duels the player chose to accept, and clicks on Accept of a room
  readied  \* the duels this tab told the lobby its player is ready for

vars == <<seat, made, page, cmds, fetch, spent, chosen, readied>>

Home == [room |-> 0, kind |-> "none", queue |-> FALSE, rival |-> FALSE, away |-> FALSE,
         duel |-> 0, status |-> "none", inbox |-> 0]
Nothing == [fn |-> "none", arg |-> 0]
NoFetch == [owner |-> 0, at |-> "none", seen |-> Home]

\* The page as it mounts; the address may name a room (roomId).
Init ==
  /\ seat = [a \in Accounts |-> Home]
  /\ made = [room |-> 1, duel |-> 0]
  /\ \E e \in 0..1 :
       page = [acct |-> 0, ready |-> FALSE, blocked |-> FALSE, renew |-> FALSE, busy |-> FALSE,
               panel |-> "none", entry |-> e, auto |-> FALSE, intent |-> Nothing,
               view |-> Home, owner |-> 0, phase |-> 0, market |-> FALSE]
  /\ cmds = {} /\ fetch = NoFetch
  /\ spent = [clicks |-> 0, faults |-> 0]
  /\ chosen = [rooms |-> {}, duels |-> {}, joins |-> 0] /\ readied = {}

-----------------------------------------------------------------------------
(***************************************************************************)
(* What the page shows.                                                    *)
(***************************************************************************)
v == page.view

\* The screen: an invitation by link, the three choices, the search, the room.
Screen ==
  IF page.entry # 0 /\ v.room = 0 THEN "entry"
  ELSE IF v.room = 0 /\ ~v.queue THEN "home"
  ELSE IF v.queue THEN "queue" ELSE "room"

\* In a room: the countdown or the Accept / Back of an offered duel, the court
\* of a started match, or the waiting list.
Stage ==
  IF v.status = "launching" THEN "countdown"
  ELSE IF v.status = "offered" /\ page.phase # 2 THEN "duel"
  ELSE IF page.phase >= 2 THEN "court" ELSE "waiting"

\* A control is what it calls: run(fn) at once or ensure(fn) through a session.
Control(how, fn, arg) == [how |-> how, fn |-> fn, arg |-> arg]

\* The invitation strip above every screen but the invitation by link.
InboxControls ==
  IF v.inbox = 0 \/ page.entry # 0 THEN {}
  ELSE {Control("ensure", "join", v.inbox), Control("run", "decline", v.inbox)}

\* The invitation by link, the three choices of the home screen, the search.
HomeControls ==
  CASE Screen = "entry" -> {Control("ensure", "join", page.entry)}
    [] Screen = "home" -> {Control("ensure", "queue", 0), Control("ensure", "contacts", 0),
                           Control("ensure", "choose", 0)}
    [] Screen = "queue" -> {Control("run", "cancel", 0)}
    [] OTHER -> {}

\* The room's bar opens the panels; a duel is accepted or sent back.
DuelControls ==
  IF Screen # "room" THEN {}
  ELSE CASE Stage = "countdown" -> {Control("run", "back", v.duel)}
         [] Stage = "duel" -> {Control("ensure", "ready", v.duel), Control("run", "back", v.duel)}
         [] OTHER -> {}

\* The waiting list and, after a result, Outcome's Rematch and Find another.
RoomControls ==
  IF Screen # "room" THEN {}
  ELSE CASE Stage = "waiting" -> {Control("run", "leave", 0),
                                  IF v.away THEN Control("run", "rejoin", 0)
                                            ELSE Control("run", "contacts", 0)}
         [] Stage = "court" /\ page.phase = 3 ->
              {Control("run", "rejoin", 0)}
                \cup (IF v.kind = "group" THEN {} ELSE {Control("run", "another", 0)})
         [] OTHER -> {}

\* The dialogs of the session: connecting, the account, the way to the others.
SessionControls ==
  CASE page.panel = "connect" -> {Control("run", "login", a) : a \in Accounts}
    [] page.panel = "account" /\ page.acct # 0 ->
         {Control("run", "disconnect", 0), Control("run", "profile", 0)}
    [] page.panel = "more" -> {Control("ensure", "contacts", 0)}
    [] OTHER -> {}

\* The address book: whom to invite, or to choose for a new room.
ContactControls ==
  CASE page.panel = "contacts" -> {Control("run", "invite", 0), Control("run", "save", 0)}
    [] page.panel = "create" -> {Control("run", "create", 0), Control("run", "save", 0)}
    [] OTHER -> {}

\* The room's members and the cabinet's tools.
MemberControls ==
  CASE page.panel = "members" /\ v.room # 0 ->
         {Control("run", "leave", 0), Control("run", "rejoin", 0), Control("run", "contacts", 0)}
    [] page.panel = "tools" ->
         {Control("run", "leave", 0)} \cup (IF page.phase = 2 THEN {Control("run", "concede", 0)} ELSE {})
    [] OTHER -> {}

Controls == IF page.panel = "none" THEN InboxControls \cup HomeControls \cup DuelControls \cup RoomControls
            ELSE SessionControls \cup ContactControls \cup MemberControls

-----------------------------------------------------------------------------
(***************************************************************************)
(* refresh: one load of the lobby state at a time; who asks meanwhile      *)
(* shares it, so its answer may be older than what the asker just did.     *)
(***************************************************************************)
Refresh == IF fetch.at = "none" THEN [NoFetch EXCEPT !.owner = page.acct, !.at = "asked"] ELSE fetch

FetchRead ==
  /\ fetch.at = "asked" /\ fetch.owner # 0
  /\ fetch' = [fetch EXCEPT !.at = "read", !.seen = seat[fetch.owner]]
  /\ UNCHANGED <<seat, made, page, cmds, spent, chosen, readied>>

\* Mutant: the answer is applied whoever is connected by now.
BelongsAny == TRUE
\* loadLobby drops an answer that was asked for another account.
Belongs == fetch.owner = page.acct

\* run's finally: the handlers that waited for this refresh go on or end.
Waiting(c) == c.at = "refresh"
Longer == {"another", "login", "restore"}
Resumed(c) == [c EXCEPT !.at = IF c.fn = "another" THEN "again" ELSE "intent"]
Onward == (cmds \ {c \in cmds : Waiting(c)})
            \cup {Resumed(c) : c \in {d \in cmds : Waiting(d) /\ d.fn \in Longer}}
Ended == \E c \in cmds : Waiting(c) /\ c.fn \notin Longer

FetchAnswer ==
  /\ fetch.at = "read"
  /\ fetch' = NoFetch
  /\ cmds' = Onward
  /\ page' = [page EXCEPT
       !.view = IF Belongs THEN fetch.seen ELSE @,
       !.owner = IF Belongs THEN fetch.owner ELSE @,
       !.entry = IF Belongs /\ fetch.seen.room # 0 THEN 0 ELSE @,
       !.phase = IF Belongs /\ fetch.seen.duel # v.duel THEN 0 ELSE @,
       !.busy = IF Ended THEN FALSE ELSE @]
  /\ UNCHANGED <<seat, made, spent, chosen, readied>>

\* The load fails: every handler that waited for it fails with it.
FetchFails ==
  /\ fetch.at # "none" /\ (fetch.owner = 0 \/ spent.faults < MaxFault)
  /\ fetch' = NoFetch
  /\ cmds' = {c \in cmds : ~Waiting(c)}
  /\ page' = [page EXCEPT
       !.busy = IF \E c \in cmds : Waiting(c) /\ c.fn # "restore" THEN FALSE ELSE @,
       !.ready = IF \E c \in cmds : Waiting(c) /\ c.fn = "login" THEN FALSE ELSE @,
       !.intent = IF \E c \in cmds : Waiting(c) /\ c.fn = "login" THEN Nothing ELSE @]
  /\ spent' = [spent EXCEPT !.faults = IF fetch.owner = 0 THEN @ ELSE @ + 1]
  /\ UNCHANGED <<seat, made, chosen, readied>>

\* The poll and the lobby's rooms-changed message ask for a refresh (one that
\* would load what is shown changes nothing and is left out).
MayPoll == page.ready /\ fetch.at = "none"
Poll ==
  /\ MayPoll /\ page.view # seat[page.acct]
  /\ fetch' = Refresh
  /\ UNCHANGED <<seat, made, page, cmds, spent, chosen, readied>>

\* The engine's snapshot of the offered duel reaches the page.
Observe ==
  /\ v.duel # 0 /\ page.acct # 0 /\ v.duel = seat[page.acct].duel
  /\ \E p \in {CASE seat[page.acct].status = "active" -> 2
                 [] seat[page.acct].status = "complete" -> 3
                 [] OTHER -> 0} :
       page.phase # p /\ page' = [page EXCEPT !.phase = p]
  /\ UNCHANGED <<seat, made, cmds, fetch, spent, chosen, readied>>

-----------------------------------------------------------------------------
(***************************************************************************)
(* run, ensure, login: how a click becomes a handler under way.            *)
(***************************************************************************)
Handler(fn, arg) == [fn |-> fn, arg |-> arg, who |-> page.acct, at |-> "send"]

\* run(fn) is silently ignored while another handler is under way.
Run(fn, arg) ==
  IF page.busy THEN UNCHANGED <<page, cmds>>
  ELSE /\ page' = [page EXCEPT !.busy = TRUE]
       /\ cmds' = cmds \cup {Handler(fn, arg)}

\* ensure(fn): at once, after the session is restored or the last game command
\* confirmed, or after a login: of the remembered account, or in a dialog.
Ensure(fn, arg) ==
  LET remembered == [page EXCEPT !.intent = [fn |-> fn, arg |-> arg]] IN
  IF page.ready /\ ~page.blocked THEN Run(fn, arg)
  ELSE IF page.ready \/ (page.acct # 0 /\ ~page.renew) THEN page' = remembered /\ UNCHANGED cmds
  ELSE \/ \E a \in IF page.acct # 0 THEN {page.acct} ELSE Accounts :
            /\ page' = [remembered EXCEPT !.busy = TRUE]
            /\ cmds' = cmds \cup {Handler("login", a)}
       \/ /\ page.acct = 0
          /\ page' = [remembered EXCEPT !.panel = "connect"] /\ UNCHANGED cmds

\* A click on an enabled control.
Click ==
  /\ spent.clicks < MaxClick /\ ~page.busy
  /\ \E c \in Controls :
       /\ IF c.how = "run" THEN Run(c.fn, c.arg) ELSE Ensure(c.fn, c.arg)
       /\ chosen' = CASE c.fn = "join" -> [chosen EXCEPT !.rooms = @ \cup {c.arg}, !.joins = @ + 1]
                      [] c.fn = "ready" -> [chosen EXCEPT !.duels = @ \cup {c.arg}]
                      [] OTHER -> chosen
  /\ spent' = [spent EXCEPT !.clicks = @ + 1]
  /\ UNCHANGED <<seat, made, fetch, readied>>

\* A dialog opens over the page; closing it forgets the waiting selection.
OpenPanel ==
  /\ page.panel = "none" /\ spent.clicks < MaxClick
  /\ \E p \in {"more"} \cup (IF page.acct # 0 THEN {"account", "market"} ELSE {})
                \cup (IF Screen = "room" THEN {"members", "tools"} ELSE {}) :
       page' = [page EXCEPT !.panel = p]
  /\ spent' = [spent EXCEPT !.clicks = @ + 1]
  /\ UNCHANGED <<seat, made, cmds, fetch, chosen, readied>>
ClosePanel ==
  /\ page.panel # "none" /\ ~page.busy
  /\ page' = [page EXCEPT !.panel = "none", !.intent = Nothing]
  /\ UNCHANGED <<seat, made, cmds, fetch, spent, chosen, readied>>

\* The betting panel marks the page busy and idle by itself (onBusy), also
\* while another handler is under way.
Market ==
  /\ \/ page.market /\ spent' = spent
     \/ /\ page.panel = "market" /\ ~page.market /\ spent.clicks < MaxClick
        /\ spent' = [spent EXCEPT !.clicks = @ + 1]
  /\ page' = [page EXCEPT !.market = ~@, !.busy = ~page.market]
  /\ UNCHANGED <<seat, made, cmds, fetch, chosen, readied>>

\* A restore belongs to the account and the state of the page it began in.
Cancelled(c) == c.fn = "restore" /\ (c.arg # page.acct \/ (~page.ready /\ page.busy))

\* login's passkey or the restored session answers: install, then a refresh.
LoggedIn ==
  \E c \in cmds :
    /\ c.fn \in {"login", "restore"} /\ c.at = "send" /\ ~Cancelled(c)
    /\ page' = [page EXCEPT !.acct = c.arg, !.ready = TRUE, !.renew = FALSE, !.blocked = FALSE,
                            !.panel = IF c.fn = "login" THEN "none" ELSE @]
    /\ fetch' = IF fetch.at = "none" THEN [NoFetch EXCEPT !.owner = c.arg, !.at = "asked"] ELSE fetch
    /\ cmds' = (cmds \ {c}) \cup {[c EXCEPT !.at = "refresh"]}
    /\ UNCHANGED <<seat, made, spent, chosen, readied>>

\* install changed ready or writeBlocked, and these the effect that restores
\* depends on: once the page renders, the rest of the effect is cancelled.
CleanUp ==
  \E c \in cmds :
    /\ c.fn = "restore" /\ (Waiting(c) \/ Cancelled(c))
    /\ cmds' = cmds \ {c}
    /\ UNCHANGED <<seat, made, page, fetch, spent, chosen, readied>>

\* The passkey is refused, or the restore is tried again or needs a renewal.
LoginFails ==
  /\ spent.faults < MaxFault
  /\ \E c \in cmds :
       /\ c.fn \in {"login", "restore"} /\ c.at = "send" /\ ~Cancelled(c)
       /\ cmds' = cmds \ {c}
       /\ page' \in IF c.fn = "login"
                    THEN {[page EXCEPT !.ready = FALSE, !.busy = FALSE, !.intent = Nothing]}
                    ELSE {page, [page EXCEPT !.ready = FALSE, !.renew = TRUE]}
  /\ spent' = [spent EXCEPT !.faults = @ + 1]
  /\ UNCHANGED <<seat, made, fetch, chosen, readied>>

\* The selection that waited goes on: inside login's own busy section, or
\* through run after a restore, which a busy page ignores.
RunIntent ==
  \E c \in cmds :
    /\ c.at = "intent"
    /\ LET go == page.intent # Nothing /\ (c.fn = "login" \/ ~page.busy) IN
       /\ cmds' = (cmds \ {c})
                    \cup (IF go THEN {Handler(page.intent.fn, page.intent.arg)} ELSE {})
       /\ page' = [page EXCEPT !.intent = Nothing, !.busy = IF go THEN TRUE
                                                          ELSE IF c.fn = "login" THEN FALSE ELSE @]
    /\ UNCHANGED <<seat, made, fetch, spent, chosen, readied>>

\* The lobby says the session is gone, or a game command lost its answer.
Expire ==
  /\ page.ready /\ spent.faults < MaxFault
  /\ page' \in {[page EXCEPT !.ready = FALSE], [page EXCEPT !.blocked = TRUE]}
  /\ spent' = [spent EXCEPT !.faults = @ + 1]
  /\ UNCHANGED <<seat, made, cmds, fetch, chosen, readied>>

\* The page's own retries: a lost session, or a blocked one, is restored.
Restore ==
  /\ page.acct # 0 /\ (IF page.ready THEN page.blocked ELSE ~page.busy /\ ~page.renew)
  /\ \A c \in cmds : c.fn # "restore"
  /\ cmds' = cmds \cup {Handler("restore", page.acct)}
  /\ UNCHANGED <<seat, made, page, fetch, spent, chosen, readied>>

-----------------------------------------------------------------------------
(***************************************************************************)
(* The commands at the lobby, and how their handlers go on.                *)
(***************************************************************************)
Free(s) == s.room = 0 /\ ~s.queue
Vacant(s) == [Home EXCEPT !.inbox = s.inbox]
InRoom(s, r, kind, rival) == [Vacant(s) EXCEPT !.room = r, !.kind = kind, !.rival = rival]

\* What the lobby makes of each command: the seat after it, if it is accepted.
Accepts(c, s) ==
  CASE c.fn \in {"queue", "create", "join"} -> Free(s) /\ (c.fn = "create" => made.room < MaxRoom)
    [] c.fn = "invite" -> s.room # 0 \/ (Free(s) /\ made.room < MaxRoom)
    [] c.fn = "cancel" -> s.queue
    [] c.fn = "concede" -> s.status = "active"
    [] c.fn \in {"leave", "rejoin", "another"} -> s.room # 0 /\ s.status # "active"
    [] c.fn \in {"ready", "back"} -> s.duel = c.arg /\ s.status \in {"offered", "launching"}
    [] OTHER -> TRUE

Seated(c, s) ==
  CASE c.fn = "queue" -> [s EXCEPT !.queue = TRUE]
    [] c.fn = "cancel" -> [s EXCEPT !.queue = FALSE]
    [] c.fn = "create" -> InRoom(s, made.room + 1, "group", FALSE)
    [] c.fn = "invite" -> IF s.room # 0 THEN s ELSE InRoom(s, made.room + 1, "friendly", FALSE)
    [] c.fn = "join" -> [InRoom(s, c.arg, "friendly", TRUE) EXCEPT !.inbox = 0]
    [] c.fn = "decline" -> [s EXCEPT !.inbox = 0]
    [] c.fn \in {"leave", "another"} -> Vacant(s)
    [] c.fn = "concede" -> [s EXCEPT !.status = "complete"]
    [] c.fn = "rejoin" -> [s EXCEPT !.away = FALSE]
    [] c.fn = "ready" -> [s EXCEPT !.status = "launching"]
    [] c.fn = "back" -> [s EXCEPT !.status = "cancelled", !.away = TRUE]
    [] OTHER -> s

\* The lobby applies a command of the account that sent it.
Apply(c) ==
  \E t \in {Seated(c, seat[c.who])} :
    /\ seat' = [seat EXCEPT ![c.who] = t]
    /\ made' = IF t.room > made.room THEN [made EXCEPT !.room = @ + 1] ELSE made
    /\ readied' = IF c.fn = "ready" THEN readied \cup {[room |-> t.room, duel |-> c.arg]} ELSE readied

PageHandlers == {"contacts", "choose", "save", "disconnect"}
Local == PageHandlers \cup {"login", "restore"}

\* join remembers that its first duel is accepted too (acceptFirstDuel); Back
\* forgets it, leaving the room does not.
AutoAfter(c) ==
  CASE c.fn = "join" -> TRUE
    [] c.fn = "back" -> FALSE
    [] OTHER -> page.auto

\* The command reaches the lobby and is answered; the handler asks for a
\* refresh and waits for it.
Command ==
  \E c \in cmds :
    /\ c.at = "send" /\ c.fn \notin Local /\ c.who # 0 /\ Accepts(c, seat[c.who])
    /\ Apply(c)
    /\ cmds' = (cmds \ {c}) \cup {[c EXCEPT !.at = "refresh"]}
    /\ page' = [page EXCEPT !.auto = AutoAfter(c),
                            !.panel = IF c.fn \in {"decline", "cancel", "ready", "back", "join"} THEN @ ELSE "none",
                            !.entry = IF c.fn \in {"join", "leave", "another"} THEN 0 ELSE @]
    /\ fetch' = Refresh
    /\ UNCHANGED <<spent, chosen>>

\* It is refused, or its answer is lost after the lobby applied it.
CommandFails ==
  \E c \in cmds :
    /\ c.at = "send" /\ c.fn \notin Local
    /\ IF c.who # 0 /\ Accepts(c, seat[c.who])
       THEN /\ spent.faults < MaxFault
            /\ spent' = [spent EXCEPT !.faults = @ + 1]
            /\ Apply(c)
       ELSE UNCHANGED <<seat, made, spent, readied>>
    /\ cmds' = cmds \ {c}
    /\ page' = [page EXCEPT !.busy = FALSE]
    /\ UNCHANGED <<fetch, chosen>>

\* another: the room is left, the search starts.
Again ==
  \E c \in cmds :
    /\ c.at = "again"
    /\ cmds' = (cmds \ {c}) \cup {Handler("queue", 0)}
    /\ UNCHANGED <<seat, made, page, fetch, spent, chosen, readied>>

\* The handlers that leave the seat alone: the contact list (openContacts, for an
\* invitation or a new room), a saved contact, and disconnect, which empties
\* the page.
PageOnly ==
  \E c \in cmds :
    /\ c.at = "send" /\ c.fn \in PageHandlers
    /\ cmds' = cmds \ {c}
    /\ page' = IF c.fn = "disconnect"
               THEN [page EXCEPT !.busy = FALSE, !.acct = 0, !.ready = FALSE, !.renew = FALSE,
                                 !.panel = "none", !.view = Home, !.owner = 0, !.phase = 0]
               ELSE [page EXCEPT !.busy = FALSE,
                                 !.panel = CASE c.fn = "choose" -> "create"
                                             [] c.fn = "contacts" -> "contacts"
                                             [] OTHER -> @]
    /\ UNCHANGED <<seat, made, fetch, spent, chosen, readied>>

\* The first duel of a joined room is made ready without another click.
AutoAccept ==
  /\ page.auto /\ v.status = "offered" /\ page.ready /\ ~page.blocked /\ ~page.busy
  /\ page' = [page EXCEPT !.auto = FALSE, !.busy = TRUE]
  /\ cmds' = cmds \cup {Handler("ready", v.duel)}
  /\ UNCHANGED <<seat, made, fetch, spent, chosen, readied>>

-----------------------------------------------------------------------------
(***************************************************************************)
(* The lobby's other side: invitations, rivals, tickets and matches.       *)
(***************************************************************************)
LobbyMoves ==
  /\ \E a \in Accounts :
       LET s == seat[a] IN
       \E t \in {[s EXCEPT !.inbox = 1],
                 [Home EXCEPT !.inbox = s.inbox, !.room = made.room + 1, !.kind = "ranked", !.rival = TRUE],
                 [s EXCEPT !.rival = ~@],
                 [s EXCEPT !.duel = made.duel + 1, !.status = "offered"],
                 [s EXCEPT !.status = "cancelled", !.away = TRUE],
                 [s EXCEPT !.status = "active"],
                 [s EXCEPT !.status = "complete"]} :
         /\ t # s
         /\ t.inbox # s.inbox => s.room = 0 /\ 1 \notin {seat[b].room : b \in Accounts} \cup chosen.rooms
         /\ t.room # s.room => s.queue /\ made.room < MaxRoom
         /\ t.rival # s.rival /\ t.room = s.room => s.room # 0 /\ s.status \notin {"launching", "active"}
         /\ s.rival /\ ~t.rival => spent.faults < MaxFault
         /\ spent' = [spent EXCEPT !.faults = IF s.rival /\ ~t.rival THEN @ + 1 ELSE @]
         /\ t.duel # s.duel => /\ s.rival /\ s.room # 0 /\ ~s.away /\ made.duel < MaxDuel
                               /\ s.status \notin {"offered", "launching", "active"}
         /\ t.status = "cancelled" => s.status \in {"offered", "launching"}
         /\ t.status = "active" /\ s.status # "active" => s.status = "launching"
         /\ t.status = "complete" /\ s.status # "complete" => s.status = "active"
         /\ seat' = [seat EXCEPT ![a] = t]
         /\ made' = [room |-> IF t.room > made.room THEN made.room + 1 ELSE made.room,
                     duel |-> IF t.duel > made.duel THEN made.duel + 1 ELSE made.duel]
  /\ UNCHANGED <<page, cmds, fetch, chosen, readied>>

Next ==
  \/ FetchRead \/ FetchAnswer \/ FetchFails \/ Poll \/ Observe
  \/ Click \/ OpenPanel \/ ClosePanel \/ Market
  \/ LoggedIn \/ LoginFails \/ CleanUp \/ RunIntent \/ Expire \/ Restore
  \/ Command \/ CommandFails \/ Again \/ PageOnly \/ AutoAccept \/ LobbyMoves

Spec == Init /\ [][Next]_vars

\* The browser's promises and timers run, and the lobby answers.
SignedOutFails == fetch.owner = 0 /\ FetchFails

DeskFairness ==
  /\ WF_vars(FetchRead) /\ WF_vars(FetchAnswer) /\ WF_vars(SignedOutFails) /\ WF_vars(Poll)
  /\ WF_vars(LoggedIn) /\ WF_vars(CleanUp) /\ WF_vars(RunIntent) /\ WF_vars(Restore)
  /\ WF_vars(Command) /\ WF_vars(CommandFails) /\ WF_vars(Again) /\ WF_vars(PageOnly)
FairDesk == Spec /\ DeskFairness

-----------------------------------------------------------------------------
\* The records have their fields.
DeskTypeOK ==
  /\ page.acct \in Accounts \cup {0} /\ page.owner \in Accounts \cup {0}
  /\ page.ready => page.acct # 0
  /\ \A c \in cmds : c.who \in Accounts \cup {0} /\ c.at \in {"send", "refresh", "again", "intent"}
  /\ fetch.at \in {"none", "asked", "read"} /\ page.intent.fn # "login"

\* What the page comes to show is the lobby of the account connected by then: an
\* answer that was asked for an account that has left since is dropped (loadLobby,
\* RoomsHub.tsx:335).
ShowsOwn ==
  page'.view # page.view \/ page'.owner # page.owner => page'.owner \in {0, page'.acct}

\* The duels this tab made ready without a click on their Accept.
Unasked == {r \in readied : r.duel \notin chosen.duels}

\* Accepting an invitation makes one duel ready by itself at most ("its first
\* proposed duel"): every other one is the player's own click.
ReadyByChoice == Cardinality(Unasked) <= chosen.joins

\* A connected page ends up showing the seat its account has in the lobby.
UpToDate == page.ready => page.view = seat[page.acct]
DeskConverges == <>[]UpToDate

=============================================================================
