------------------------------ MODULE ArenaDesk ------------------------------
(***************************************************************************)
(* The front desk of the arcade page (web/components/Arena.tsx): whose     *)
(* passkey and whose two-hour arcade session the tab holds, which controls *)
(* it shows, what a click starts and how far it gets when one of its       *)
(* awaits fails.  act() runs one handler at a time; the restoration of the *)
(* tab's session and the 15 s validation of it run beside the handlers.    *)
(* ArenaActions has the calls that move money in detail, ArenaQueue the    *)
(* search, ArenaView what is drawn of a match.                             *)
(***************************************************************************)
EXTENDS Integers, FiniteSets

CONSTANTS Accounts,  \* passkeys of this browser: 1..n
          Admins,    \* accounts with the onchain admin role
          MaxClick,  \* clicks that start a handler
          MaxNav,    \* tabs and dialogs opened
          MaxFail    \* awaits that fail

VARIABLES
  page,     \* React state and refs of the page
  op,       \* the handler act() is running, and the await it is at
  restore,  \* restoreArcade of this tab
  check,    \* the session whose validation is under way
  chain,    \* the arcade key authorised for each account, 0 for none
  playing,  \* the accounts in an active match
  version,  \* identityVersion
  wanted,   \* the player asked to play and has not taken it back
  stored,   \* the session in sessionStorage
  spent     \* clicks and failures so far

vars == <<page, op, restore, check, chain, playing, version, wanted, stored, spent>>

NoArcade == [of |-> 0, key |-> 0]
NoOp == [fn |-> "none", at |-> "idle", arg |-> 0, from |-> "none"]
NoMatch == [of |-> {}, status |-> 0]
Off == [at |-> "off", version |-> 0, got |-> NoArcade]
Ask(v, t) == [at |-> "asked", version |-> v, got |-> t]
Blank == [account |-> 0, owner |-> 0, open |-> FALSE, arcade |-> NoArcade, alive |-> FALSE, ended |-> FALSE,
          remembered |-> 0, launch |-> FALSE, profile |-> FALSE, busy |-> FALSE,
          panel |-> "none", tab |-> "Play", match |-> NoMatch, queued |-> FALSE,
          invited |-> FALSE, frames |-> FALSE]

\* The page as it mounts: the tab may hold the session of an account, the
\* browser may remember one.
Init ==
  /\ chain = [a \in Accounts |-> 1]
  /\ playing \in SUBSET Accounts
  /\ \E r, t \in Accounts \cup {0} :
       /\ page = [Blank EXCEPT !.remembered = r, !.busy = TRUE]
       /\ stored = IF t = 0 THEN NoArcade ELSE [of |-> t, key |-> 1]
       /\ restore = Ask(0, stored)
  /\ op = NoOp /\ check = NoArcade /\ version = 0 /\ wanted = FALSE
  /\ spent = [clicks |-> 0, navs |-> 0, fails |-> 0]
-----------------------------------------------------------------------------
(***************************************************************************)
(* What the page shows.                                                    *)
(***************************************************************************)
needsArcadeRenewal == page.account # 0 /\ (page.arcade = NoArcade \/ ~page.alive)
Playing == page.match.status = 2 /\ page.account \in page.match.of
home == page.tab = "Play" /\ ~page.queued /\ ~page.invited /\ ~Playing
lobby == page.tab = "Play" /\ (page.queued \/ page.invited)
showArena ==
  /\ page.match # NoMatch
  /\ \/ page.tab = "Live"
     \/ page.tab = "Archive" /\ page.frames
     \/ page.tab = "Play" /\ ~lobby /\ page.match.status = 2
Fn(fn) == [fn |-> fn, arg |-> 0]

HeaderControls ==
  IF page.account # 0 /\ ~needsArcadeRenewal THEN {} ELSE {Fn("connect")}
HomeControls ==
  IF home THEN {Fn("join"), Fn("profile")} ELSE {}
LobbyControls ==
  IF ~lobby THEN {} ELSE IF page.queued THEN {Fn("cancel")} ELSE {Fn("uninvite")}
OutcomeControls ==
  IF page.match.status = 3 /\ page.account \in page.match.of /\ page.tab # "Archive"
  THEN {Fn("rematch"), Fn("replay"), Fn("join")} ELSE {}
ToolControls ==
  IF ~showArena THEN {}
  ELSE IF Playing THEN {Fn(IF needsArcadeRenewal THEN "renew" ELSE "resume"), Fn("revoke"), Fn("concede")}
  ELSE {Fn("join")}
MarketControls ==
  IF showArena /\ page.match.status = 2 /\ ~Playing THEN {Fn("bet")} ELSE {}
ArchiveControls == IF page.tab = "Archive" THEN {Fn("replay"), Fn("history")} ELSE {}
LadderControls == IF page.tab = "Ladder" THEN {Fn("challenge")} ELSE {}
CupControls ==
  IF page.tab # "Tournaments" THEN {}
  ELSE {Fn("bracket")} \cup (IF page.account = 0 THEN {} ELSE {Fn("register"), Fn("join")})
AdminControls ==
  IF page.tab # "Admin" THEN {} ELSE IF page.account \in Admins THEN {Fn("admin")} ELSE {Fn("connect")}
AccountControls ==
  IF page.panel # "account" \/ page.account = 0 THEN {}
  ELSE {Fn("credits"), Fn("withdraw"), Fn("renew"), Fn("disconnect"), Fn("forget")}
ConnectControls ==
  IF page.panel # "connect" THEN {} ELSE {[fn |-> "login", arg |-> a] : a \in Accounts}

Controls ==
  IF page.busy THEN {}
  ELSE IF page.panel # "none" THEN AccountControls \cup ConnectControls
  ELSE UNION {HeaderControls, HomeControls, LobbyControls, OutcomeControls, ToolControls,
              MarketControls, ArchiveControls, LadderControls, CupControls, AdminControls}
-----------------------------------------------------------------------------
(***************************************************************************)
(* Clicks.                                                                 *)
(***************************************************************************)
\* The nav and the dialogs: no handler, so they work while one is running.
Nav ==
  /\ spent.navs < MaxNav
  /\ spent' = [spent EXCEPT !.navs = @ + 1]
  /\ UNCHANGED <<op, restore, check, chain, playing, version, wanted, stored>>

changeTab(t) ==
  /\ page.tab # t
  /\ page' = [page EXCEPT !.tab = t, !.panel = IF @ \in {"more", "tools"} THEN "none" ELSE @]
  /\ Nav

OpenPanel(p) ==
  /\ page.panel = "none"
  /\ p = "account" => page.account # 0
  /\ p = "connect" => page.account = 0 /\ page.remembered # 0 /\ ~page.busy
  /\ page' = [page EXCEPT !.panel = p]
  /\ Nav

\* Mutant: closing the dialog leaves the intention to play pending.
DroppedNever(p) == FALSE
\* closeConnect forgets what the player wanted to do once connected.
Dropped(p) == p = "connect"

ClosePanel ==
  /\ page.panel # "none"
  /\ page' = [page EXCEPT !.panel = "none",
                          !.launch = @ /\ ~Dropped(page.panel),
                          !.profile = @ /\ ~Dropped(page.panel)]
  /\ wanted' = (wanted /\ page.panel # "connect")
  /\ UNCHANGED <<op, restore, check, chain, playing, version, stored, spent>>

\* A row of the list of live matches.
Watch(s) ==
  /\ page.tab = "Live" /\ page.panel = "none"
  /\ page' = [page EXCEPT !.match = [of |-> s, status |-> 2]]
  /\ UNCHANGED <<op, restore, check, chain, playing, version, wanted, stored, spent>>

\* Where a handler's first await is.  connectFromButton chooses by what the
\* page holds; joinQueue without an account remembers the launch first.
Entry(fn) ==
  CASE fn \in {"credits", "withdraw", "register", "bet", "admin"} -> "unlock"
    [] fn = "join" -> IF page.owner = 0 THEN "connect" ELSE "key"
    [] fn \in {"cancel", "resume", "revoke", "concede"} -> "key"
    [] fn \in {"rematch", "challenge"} -> IF needsArcadeRenewal THEN "renew" ELSE "key"
    [] fn = "profile" -> IF page.account = 0 \/ needsArcadeRenewal THEN "connect" ELSE "done"
    [] fn = "connect" -> "connect"
    [] fn = "renew" -> "renew"
    [] fn = "login" -> "passkey"
    [] fn \in {"disconnect", "forget"} -> "leave"
    [] OTHER -> "read"

\* joinQueue during the player's own match resumes that match.
Handler(fn) == IF fn = "join" /\ Playing THEN "resume" ELSE fn

\* act(fn): one handler at a time, and the page is busy until it ends.
act(c) ==
  /\ op = NoOp /\ c \in Controls /\ spent.clicks < MaxClick
  /\ (c.fn = "join" => ~page.queued) /\ (c.fn = "bet" => page.account # 0)
  /\ op' = [fn |-> Handler(c.fn), at |-> Entry(Handler(c.fn)), arg |-> c.arg, from |-> c.fn]
  /\ page' = [page EXCEPT !.busy = TRUE,
                          !.launch = @ \/ (c.fn = "join" /\ page.owner = 0),
                          !.profile = @ \/ (c.fn = "profile" /\ Entry(c.fn) = "connect")]
  /\ wanted' = (wanted \/ c.fn = "join")
  /\ spent' = [spent EXCEPT !.clicks = @ + 1]
  /\ UNCHANGED <<restore, check, chain, playing, version, stored>>
-----------------------------------------------------------------------------
(***************************************************************************)
(* The awaits of the running handler.                                      *)
(***************************************************************************)
At(s) == op.at = s
Goto(s) == op' = [op EXCEPT !.at = s]
\* act's finally.
Finish(p) == op' = NoOp /\ page' = [p EXCEPT !.busy = FALSE]

\* The error of an await; joinQueue and openProfile forget what a failed
\* connection was for.
Failed(p) == Finish([p EXCEPT !.launch = @ /\ op.from # "join", !.profile = @ /\ op.from # "profile"])

\* connectFromButton: renew, log in again, or ask which passkey.
Connect ==
  /\ At("connect")
  /\ IF page.owner # 0 /\ needsArcadeRenewal
     THEN Goto("renew") /\ page' = [page EXCEPT !.panel = "none"]
     ELSE IF page.remembered # 0
     THEN /\ op' = [op EXCEPT !.fn = "login", !.at = "passkey", !.arg = page.remembered]
          /\ page' = [page EXCEPT !.panel = "none"]
     ELSE Finish([page EXCEPT !.panel = "connect"])
  /\ UNCHANGED <<restore, check, chain, playing, version, wanted, stored, spent>>

\* What login resets; the former session stays in its ref until it is replaced.
PutDown(p) == Blank
Switch ==
  /\ At("passkey")
  /\ version' = version + 1
  /\ page' = [PutDown(page) EXCEPT
       !.account = op.arg, !.owner = op.arg, !.open = TRUE, !.remembered = op.arg,
       !.arcade = page.arcade, !.ended = page.ended, !.launch = page.launch, !.profile = page.profile,
       !.busy = page.busy, !.tab = page.tab, !.frames = page.frames, !.invited = page.invited]
  /\ Goto("renew")
  /\ UNCHANGED <<restore, check, chain, playing, wanted, stored, spent>>

\* renewArcade: the passkey authorises a fresh session key for its account
\* and is put away, whether or not that succeeds.
Renew ==
  /\ At("renew")
  /\ chain' = [chain EXCEPT ![page.owner] = @ + 1]
  /\ stored' = [of |-> page.owner, key |-> chain'[page.owner]]
  /\ page' = [page EXCEPT !.arcade = stored', !.alive = TRUE, !.ended = FALSE, !.open = FALSE]
  /\ Goto(CASE op.fn = "login" -> "load"
            [] op.fn \in {"join", "rematch", "challenge"} -> "key"
            [] OTHER -> IF Playing THEN "key" ELSE "done")
  /\ UNCHANGED <<restore, check, playing, version, wanted, spent>>

\* createArcade ends the current session first and stores the new key before
\* the relay registers it; the answer may be lost after the registration.
RenewFails(step) ==
  /\ At("renew") /\ spent.fails < MaxFail
  /\ spent' = [spent EXCEPT !.fails = @ + 1]
  /\ chain' = IF step = "answer" THEN [chain EXCEPT ![page.owner] = @ + 1] ELSE chain
  /\ stored' = CASE step = "read" -> stored
                 [] step = "register" -> [of |-> page.owner, key |-> -1]
                 [] step = "answer" -> [of |-> page.owner, key |-> chain'[page.owner]]
  /\ Failed([page EXCEPT !.ended = TRUE, !.open = FALSE])
  /\ UNCHANGED <<restore, check, playing, version, wanted>>

\* The rest of login: the active match, or the launch the player wanted.
Load ==
  /\ At("load")
  /\ IF page.account \in playing
     THEN /\ Finish([page EXCEPT !.launch = FALSE, !.tab = "Play",
                                 !.match = [of |-> {page.account}, status |-> 2]])
     ELSE IF page.launch
     THEN /\ op' = [op EXCEPT !.fn = "join", !.at = "key"]
          /\ page' = [page EXCEPT !.launch = FALSE]
     ELSE Finish(page)
  /\ UNCHANGED <<restore, check, chain, playing, version, wanted, stored, spent>>

\* gameplaySigner: the session is the connected account's and still valid.
Usable == page.arcade # NoArcade /\ ~page.ended /\ page.arcade.of = page.owner
            /\ page.arcade.key = chain[page.arcade.of]

\* A handler that needs the session key: it signs, or joinQueue renews the
\* session, or the handler ends with the error.
Key ==
  /\ At("key")
  /\ IF Usable THEN Goto("relay") /\ UNCHANGED page
     ELSE IF op.fn = "join" THEN Goto("renew") /\ UNCHANGED page
     ELSE Failed(page)
  /\ UNCHANGED <<restore, check, chain, playing, version, wanted, stored, spent>>

\* signingOwner: the passkey is asked for unless it is still open.
Unlock ==
  /\ At("unlock")
  /\ page' = [page EXCEPT !.open = TRUE] /\ Goto("sign")
  /\ UNCHANGED <<restore, check, chain, playing, version, wanted, stored, spent>>

\* The nonce is read, the message is signed and the passkey put away.
Sign ==
  /\ At("sign")
  /\ page' = [page EXCEPT !.open = FALSE] /\ Goto("relay")
  /\ UNCHANGED <<restore, check, chain, playing, version, wanted, stored, spent>>

\* The relay's answer, and what the handler leaves on the page.
Answered ==
  CASE op.fn = "join" -> [page EXCEPT !.queued = TRUE, !.tab = "Play", !.match = NoMatch, !.invited = FALSE]
    [] op.fn = "cancel" -> [page EXCEPT !.queued = page.account \in playing]
    [] op.fn = "rematch" -> [page EXCEPT !.invited = TRUE, !.tab = "Play"]
    [] OTHER -> page
Relay ==
  /\ At("relay")
  /\ Finish(Answered)
  /\ playing' = IF op.fn = "concede" THEN playing \ {page.account} ELSE playing
  /\ UNCHANGED <<restore, check, chain, version, wanted, stored, spent>>

\* Reads, and the bracket calls anyone may relay.
Read ==
  /\ At("read")
  /\ Finish(CASE op.fn = "replay" -> [page EXCEPT !.tab = "Archive", !.frames = TRUE]
              [] op.fn = "uninvite" -> [page EXCEPT !.invited = FALSE]
              [] OTHER -> page)
  /\ UNCHANGED <<restore, check, chain, playing, version, wanted, stored, spent>>

\* A handler with nothing left to do; a wanted profile opens once connected.
Done ==
  /\ At("done")
  /\ Finish([page EXCEPT !.panel = IF op.fn = "profile" THEN "profile" ELSE @, !.profile = FALSE])
  /\ UNCHANGED <<restore, check, chain, playing, version, wanted, stored, spent>>

\* disconnect: whatever the revocation answered, nothing of the account stays.
Leave(revoked) ==
  /\ At("leave")
  /\ version' = version + 1
  /\ chain' = IF revoked /\ page.arcade # NoArcade THEN [chain EXCEPT ![page.arcade.of] = 0] ELSE chain
  /\ Finish([Blank EXCEPT !.remembered = IF op.fn = "forget" THEN 0 ELSE page.remembered])
  /\ wanted' = FALSE /\ stored' = NoArcade
  /\ UNCHANGED <<restore, check, playing, spent>>

\* Another await throws: act shows the error.  bet puts the passkey away on
\* the way out.
Fail ==
  /\ op.at \in {"passkey", "load", "key", "unlock", "sign", "relay", "read"}
  /\ spent.fails < MaxFail
  /\ spent' = [spent EXCEPT !.fails = @ + 1]
  /\ Failed([page EXCEPT !.open = @ /\ op.fn # "bet"])
  /\ UNCHANGED <<restore, check, chain, playing, version, wanted, stored>>
-----------------------------------------------------------------------------
(***************************************************************************)
(* Beside the handlers.                                                    *)
(***************************************************************************)
\* restoreArcade's answer counts only for the identity it was asked under.
\* Without a valid session the remembered account is shown, to be renewed.
Valid(t) == t # NoArcade /\ t.key = chain[t.of]
Restored ==
  /\ restore.at = "asked"
  /\ IF restore.version # version
     THEN page' = [page EXCEPT !.busy = FALSE] /\ restore' = Off /\ UNCHANGED stored
     ELSE IF Valid(restore.got)
     THEN /\ page' = [page EXCEPT !.account = restore.got.of, !.owner = restore.got.of, !.open = FALSE,
                                  !.arcade = restore.got, !.alive = TRUE, !.ended = FALSE]
          /\ restore' = [restore EXCEPT !.at = "select"] /\ UNCHANGED stored
     ELSE /\ page' = [page EXCEPT !.busy = FALSE,
                        !.account = IF page.remembered = 0 THEN @ ELSE page.remembered,
                        !.owner = IF page.remembered = 0 THEN @ ELSE page.remembered]
          /\ restore' = Off /\ stored' = NoArcade
  /\ UNCHANGED <<op, check, chain, playing, version, wanted, spent>>

\* The active match of the restored account.
Selected ==
  /\ restore.at = "select"
  /\ page' = [page EXCEPT !.busy = FALSE,
       !.match = IF restore.got.of \in playing THEN [of |-> {restore.got.of}, status |-> 2] ELSE @,
       !.tab = IF restore.got.of \in playing THEN "Play" ELSE @]
  /\ restore' = Off
  /\ UNCHANGED <<op, check, chain, playing, version, wanted, stored, spent>>

\* The network fails: the next config poll asks again, for what is stored
\* and under the identity of that moment.
RestoreFails ==
  /\ restore.at = "asked" /\ restore.got # NoArcade /\ spent.fails < MaxFail
  /\ spent' = [spent EXCEPT !.fails = @ + 1]
  /\ restore' = IF restore.version = version THEN [restore EXCEPT !.at = "again"] ELSE Off
  /\ page' = [page EXCEPT !.busy = FALSE]
  /\ UNCHANGED <<op, check, chain, playing, version, wanted, stored>>
RestoreAgain ==
  /\ restore.at = "again"
  /\ restore' = Ask(version, stored)
  /\ page' = [page EXCEPT !.busy = TRUE]
  /\ UNCHANGED <<op, check, chain, playing, version, wanted, stored, spent>>

\* The tick of a search: the opponent is found and the page enters the match,
\* or it has no session to enter it with.
Matched ==
  /\ page.queued /\ op = NoOp
  /\ page' = IF Usable THEN [page EXCEPT !.queued = FALSE, !.tab = "Play",
                                          !.match = [of |-> {page.account}, status |-> 2]]
             ELSE [page EXCEPT !.queued = FALSE]
  /\ playing' = IF Usable THEN playing \cup {page.account} ELSE playing
  /\ UNCHANGED <<op, restore, check, chain, version, wanted, stored, spent>>

\* The 15 s validation of the tab's session; an invalid one must be renewed.
Validate ==
  /\ check = NoArcade /\ page.arcade # NoArcade
  /\ check' = page.arcade
  /\ UNCHANGED <<page, op, restore, chain, playing, version, wanted, stored, spent>>
Validated ==
  /\ check # NoArcade
  /\ page' = [page EXCEPT !.alive = @ /\ check.key = chain[check.of]]
  /\ check' = NoArcade
  /\ UNCHANGED <<op, restore, chain, playing, version, wanted, stored, spent>>

\* The match on the screen ends; another device replaces the session.
MatchEnds ==
  /\ page.match.status = 2
  /\ page' = [page EXCEPT !.match.status = 3]
  /\ playing' = playing \ page.match.of
  /\ UNCHANGED <<op, restore, check, chain, version, wanted, stored, spent>>
OtherDevice(a) ==
  /\ spent.fails < MaxFail /\ spent' = [spent EXCEPT !.fails = @ + 1]
  /\ chain' = [chain EXCEPT ![a] = @ + 1]
  /\ UNCHANGED <<page, op, restore, check, playing, version, wanted, stored>>
-----------------------------------------------------------------------------
Clicks ==
  \/ \E t \in {"Play", "Live", "Archive", "Ladder", "Tournaments", "Admin"} : changeTab(t)
  \/ \E p \in {"account", "connect", "more"} : OpenPanel(p)
  \/ ClosePanel
  \/ \E s \in SUBSET playing : s # {} /\ Watch(s)
  \/ \E c \in Controls : act(c)
Awaits ==
  \/ Connect \/ Switch \/ Renew \/ (\E s \in {"read", "register", "answer"} : RenewFails(s)) \/ Load \/ Key \/ Unlock \/ Sign \/ Relay \/ Read \/ Done
  \/ \E r \in BOOLEAN : Leave(r)
  \/ Fail
Beside ==
  \/ Restored \/ Selected \/ RestoreFails \/ RestoreAgain \/ Matched \/ Validate \/ Validated \/ MatchEnds
  \/ \E a \in Accounts : OtherDevice(a)
Next == Clicks \/ Awaits \/ Beside
Spec == Init /\ [][Next]_vars

\* The session the page offers to play with is the shown account's, and the
\* passkey it would sign with too: across logins that stop half way, answers
\* of a restoration or a validation that come late, and lost registrations.
SessionIsOwn ==
  /\ page.owner = page.account
  /\ page.alive => page.arcade.of = page.account

\* A pending launch is one the player asked for and has not taken back: no
\* login queues a player who closed the dialog or disconnected since.
LaunchIsWanted == page.launch => wanted
=============================================================================
