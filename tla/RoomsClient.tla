----------------------------- MODULE RoomsClient -----------------------------
(***************************************************************************)
(* One browser tab of one account in the rooms client (web/components/     *)
(* RoomsHub.tsx with web/lib/rooms-command-journal.ts, web/lib/            *)
(* interlude-rooms.ts, shared/compact-rooms-session.ts and the command     *)
(* lane of web/lib/interlude-lab.ts), with what it talks to: the lobby's   *)
(* introduction of one duel (/offers/ready, /offers/accept), and the       *)
(* engine, which executes the raw commands the tab signs.                  *)
(*                                                                         *)
(* The bytes of a command are known by the key that signed them, their     *)
(* nonce and their action.  The tab keeps them in sessionStorage, with the *)
(* engine epoch it last read, before they leave, so that a reload, a lost  *)
(* answer or a renewed engine can be reconciled.  Key 0 is no key.         *)
(***************************************************************************)
EXTENDS Integers, FiniteSets

CONSTANTS MaxKey,      \* arcade sessions one tab opens
          MaxEpoch,    \* engine delegations
          MaxSent,     \* commands put on the wire in one behaviour
          FreshKeys    \* may the user disconnect and open a session with a new key

VARIABLES
  offer,     \* the lobby's duel: status, who is ready, its launch, confirmed acceptances
  engine,    \* epoch, nonces, registered key, the match's phase and consents, receipts
  wire,      \* bytes sent and not executed yet
  sent,      \* every command that ever left the tab, with the epoch of the engine it went to
  row,       \* the journal's uncertain command (sessionStorage)
  resolved,  \* the journal's other rows: confirmed, reverted or obsolete
  key,       \* the stored arcade session of this tab (sessionStorage)
  accepted,  \* the stored hash of an acceptance to confirm (sessionStorage)
  tab,       \* React state of the page
  sess,      \* the compact session installed by this page
  out,       \* the command at the head of the send queue
  boot       \* the restore, recovery or login under way

vars == <<offer, engine, wire, sent, row, resolved, key, accepted, tab, sess, out, boot>>

None == [cmd |-> [key |-> 0], epoch |-> 0]
Keys == 1..MaxKey
Sides == {"me", "rival"}
Acts == {"register", "accept", "cancel", "input", "concede", "revoke"}
Command == [key : Keys, nonce : 0..MaxSent + 1, act : Acts]
Row == [cmd : Command, epoch : 1..MaxEpoch]

Closed == [open |-> FALSE, ready |-> FALSE, blocked |-> FALSE, renew |-> FALSE,
           launched |-> FALSE, issue |-> FALSE]
NoSession == [epoch |-> 0, nonce |-> -1, registered |-> FALSE, failed |-> FALSE]
Quiet == [act |-> "none", at |-> "idle", cmd |-> None.cmd]
Still == [by |-> "none", at |-> "idle", cancelled |-> FALSE]

NewOffer == [status |-> "offered", ready |-> {}, launch |-> "none",
             accepted |-> {}, expired |-> FALSE]

\* A tab with no session, or with one that has already registered its key.
Init ==
  /\ offer = NewOffer
  /\ \E k \in 0..1 :
       /\ engine = [epoch |-> 1, count |-> [j \in Keys |-> IF j = k THEN 1 ELSE 0], bound |-> k,
                    consents |-> {}, phase |-> 0, receipts |-> {}]
       /\ key = [id |-> k, used |-> k, expired |-> FALSE, account |-> k # 0]
  /\ wire = {} /\ sent = {}
  /\ row = None /\ resolved = {} /\ accepted = None
  /\ tab = Closed /\ sess = NoSession /\ out = Quiet /\ boot = Still

server == <<offer>>
chain == <<engine, wire, sent>>
saved == <<row, resolved, key, accepted>>
page == <<tab, sess, out, boot>>

(***************************************************************************)
(* The lobby's introduction (interlude-rooms.ts, rooms-acceptance.ts).     *)
(***************************************************************************)
Open == offer.status = "offered" /\ ~offer.expired

\* prepareRoomLaunch: the second of the two to be ready starts the countdown.
Prepared(p) ==
  LET ready == offer.ready \cup offer.accepted \cup {p}
  IN  [offer EXCEPT !.ready = ready,
                    !.launch = IF ready = Sides /\ @ = "none" THEN "counting" ELSE @]

\* assertRoomLaunchReady.
LaunchReady == offer.ready = Sides /\ offer.launch = "over"

RivalReady ==
  /\ Open /\ engine.phase < 2 /\ "rival" \notin offer.ready
  /\ offer' = Prepared("rival")
  /\ UNCHANGED <<chain, saved, page>>

CountdownOver ==
  /\ offer.launch = "counting"
  /\ offer' = [offer EXCEPT !.launch = "over"]
  /\ UNCHANGED <<chain, saved, page>>

\* The ticket runs out, and the maintenance cycle cancels a duel that the
\* engine never saw (expireUnstartedRoomOffer).
OfferExpires ==
  /\ Open /\ engine.phase = 0
  /\ offer' = [offer EXCEPT !.expired = TRUE, !.status = "cancelled", !.accepted = {}]
  /\ UNCHANGED <<chain, saved, page>>

(***************************************************************************)
(* The engine.                                                             *)
(***************************************************************************)
\* What one command does when its turn comes.  Everything but registration
\* needs the key to be registered for this epoch.
Effect(c) ==
  CASE c.act = "register" -> [engine EXCEPT !.bound = c.key]
    [] c.act = "revoke" -> [engine EXCEPT !.bound = 0]
    [] c.act = "accept" -> [engine EXCEPT !.consents = @ \cup {"me"},
                                          !.phase = IF "rival" \in engine.consents THEN 2 ELSE 1]
    [] c.act \in {"cancel", "concede"} -> [engine EXCEPT !.phase = 3]
    [] OTHER -> engine

Permitted(c) ==
  CASE c.act = "register" -> ~(c.key = key.id /\ key.expired)
    [] c.act = "revoke" -> engine.bound = c.key
    [] c.act = "accept" -> engine.bound = c.key /\ engine.phase < 2
                           /\ "me" \notin engine.consents /\ ~offer.expired
    [] c.act = "cancel" -> engine.bound = c.key /\ engine.phase = 1
    [] OTHER -> engine.bound = c.key /\ engine.phase = 2

Executed(c) ==
  [(IF Permitted(c) THEN Effect(c) ELSE engine)
     EXCEPT !.count[c.key] = @ + 1,
            !.receipts = @ \cup {[cmd |-> c, ok |-> Permitted(c)]}]

Receipt(c) == \E x \in engine.receipts : x.cmd = c
Executable(c) == c.nonce = engine.count[c.key]

\* A revert consumes the nonce as a success does.
Execute ==
  \E c \in wire :
    /\ Executable(c)
    /\ engine' = Executed(c)
    /\ wire' = wire \ {c}
    /\ UNCHANGED <<server, sent, saved, page>>

\* A request that never arrives, or that the node refuses for its nonce.
Dropped ==
  \E c \in wire :
    /\ wire' = wire \ {c}
    /\ UNCHANGED <<server, engine, sent, saved, page>>

RivalAccepts ==
  /\ LaunchReady /\ Open /\ engine.phase < 2 /\ "rival" \notin engine.consents
  /\ engine' = [engine EXCEPT !.consents = @ \cup {"rival"},
                              !.phase = IF "me" \in engine.consents THEN 2 ELSE 1]
  /\ UNCHANGED <<server, wire, sent, saved, page>>

MatchEnds ==
  /\ engine.phase = 2
  /\ engine' = [engine EXCEPT !.phase = 3]
  /\ UNCHANGED <<server, wire, sent, saved, page>>

\* The hub releases the delegation and a new one starts: a new epoch, with no
\* receipt, no registration, nonces that may start again, and a new duel in it.  The
\* drain and the challenge window are longer than any request, so no command
\* is being sent and nothing of the old epoch is still on the wire.
Renewal ==
  /\ engine.epoch < MaxEpoch /\ engine.phase \in {0, 3} /\ out = Quiet
  /\ \E count \in {engine.count, [k \in Keys |-> 0]} :
       engine' = [engine EXCEPT !.epoch = @ + 1, !.count = count, !.bound = 0,
                                   !.receipts = {}, !.consents = {}, !.phase = 0]
  /\ offer' = NewOffer
  /\ tab' = [tab EXCEPT !.launched = FALSE, !.issue = FALSE]
  /\ wire' = {}
  /\ UNCHANGED <<sent, saved, sess, out, boot>>

\* Two hours pass.
SessionExpires ==
  /\ key.id # 0 /\ ~key.expired
  /\ key' = [key EXCEPT !.expired = TRUE]
  /\ UNCHANGED <<server, chain, row, resolved, accepted, page>>

(***************************************************************************)
(* Restoring, recovering and opening a session.                            *)
(***************************************************************************)
HasAccount == key.account
Busy == boot.by \in {"mount", "login"} \/ out.act \in {"accept", "cancel", "revoke"}

\* The page is loaded with the account of this tab in sessionStorage.
Mount ==
  /\ ~tab.open
  /\ tab' = [Closed EXCEPT !.open = TRUE]
  /\ boot' = IF HasAccount THEN [Still EXCEPT !.by = "mount", !.at = "session"] ELSE Still
  /\ sess' = NoSession /\ out' = Quiet
  /\ UNCHANGED <<server, chain, saved>>

\* F5 or a closed page: the memory goes, sessionStorage and the wire stay.
Reload ==
  /\ tab.open
  /\ tab' = Closed /\ sess' = NoSession /\ out' = Quiet /\ boot' = Still
  /\ UNCHANGED <<server, chain, saved>>

\* The effect that restores an account whose page is not ready.
StartRestore ==
  /\ tab.open /\ HasAccount /\ ~tab.ready /\ ~tab.renew /\ ~Busy /\ boot = Still
  /\ boot' = [Still EXCEPT !.by = "restore", !.at = "session"]
  /\ UNCHANGED <<server, chain, saved, tab, sess, out>>

\* The effect that reconciles the uncertain command of a blocked page.
StartRecover ==
  /\ tab.ready /\ tab.blocked /\ boot = Still
  /\ boot' = [Still EXCEPT !.by = "recover", !.at = "commands"]
  /\ UNCHANGED <<server, chain, saved, tab, sess, out>>

\* login: the stored session if it still stands, else a new key from the wallet.
Login ==
  /\ tab.open /\ ~tab.ready /\ ~Busy
  /\ IF key.id # 0 /\ ~key.expired
     THEN UNCHANGED key
     ELSE /\ key.used < MaxKey
          /\ key' = [key EXCEPT !.id = key.used + 1, !.used = @ + 1, !.expired = FALSE]
  /\ boot' = [Still EXCEPT !.by = "login", !.at = "session"]
  /\ UNCHANGED <<server, chain, row, resolved, accepted, tab, sess, out>>

\* retirePrevious: a newer epoch on the hub makes an older command obsolete.
Retired(r) == IF r # None /\ r.epoch < engine.epoch THEN None ELSE r

\* recoverRoomsCommands, first half: retire, then look for the receipt.
RecoverRead ==
  /\ boot.at = "commands"
  /\ \E r \in {Retired(row)} :
       /\ row' = IF Receipt(r.cmd) THEN None ELSE r
       /\ boot' = [boot EXCEPT !.at = IF row' = None THEN "session" ELSE "resend"]
  /\ resolved' = resolved \cup (IF row' # row THEN {row.cmd} ELSE {})
  /\ UNCHANGED <<server, chain, key, accepted, tab, sess, out>>

\* beforeSend admits the same uncertain bytes again, when the key the tab now
\* stores is the key that signed them.
MayResend == row # None /\ row.cmd.key = key.id /\ row.epoch = engine.epoch

\* Second half: the same bytes go out again, and the answer comes back.
Resend ==
  /\ boot.at = "resend" /\ MayResend
  /\ \/ Executable(row.cmd) /\ engine' = Executed(row.cmd)
     \/ Receipt(row.cmd) /\ UNCHANGED engine
  /\ row' = None /\ resolved' = resolved \cup {row.cmd}
  /\ boot' = [boot EXCEPT !.at = "session"]
  /\ UNCHANGED <<server, wire, sent, key, accepted, tab, sess, out>>

\* They may go out and get no answer, or be refused; the effect tries again.
ResendFails ==
  /\ boot.at = "resend"
  /\ wire' = IF MayResend THEN wire \cup {row.cmd} ELSE wire
  /\ boot' = IF boot.cancelled THEN Still ELSE [boot EXCEPT !.at = "commands"]
  /\ UNCHANGED <<server, engine, sent, saved, tab, sess, out>>

\* client.restoreSession: an expired or revoked grant has to be renewed.
RestoreSession ==
  /\ boot.at = "session"
  /\ LET restored == key.id # 0 /\ ~key.expired
     IN  IF boot.cancelled
         THEN boot' = Still /\ UNCHANGED tab
         ELSE IF restored
         THEN boot' = [boot EXCEPT !.at = "install"] /\ UNCHANGED tab
         ELSE /\ boot' = Still
              /\ tab' = [tab EXCEPT !.renew = TRUE, !.ready = FALSE]
  /\ UNCHANGED <<server, chain, saved, sess, out>>

\* The page as install leaves it: ready, and blocked by an uncertain command.
Installed == [tab EXCEPT !.ready = TRUE, !.renew = FALSE, !.blocked = (row # None)]

\* install: authenticated with the lobby, a fresh compact session whose nonce
\* is read from the engine when it first sends.
Install ==
  /\ boot.at = "install"
  /\ IF boot.cancelled
     THEN boot' = Still /\ UNCHANGED <<key, tab, sess>>
     ELSE /\ tab' = Installed
          /\ key' = [key EXCEPT !.account = TRUE]
          /\ sess' = [NoSession EXCEPT !.epoch = engine.epoch]
          /\ boot' = [boot EXCEPT !.at = "refresh"]
  /\ UNCHANGED <<server, chain, row, resolved, accepted, out>>

\* React runs the cleanup of an effect whose dependencies install changed:
\* ready for the restore effect, writeBlocked for the recovery effect.
EffectCleanup ==
  /\ boot.at = "refresh" /\ ~boot.cancelled
  /\ boot.by = "restore" \/ (boot.by = "recover" /\ ~tab.blocked)
  /\ boot' = [boot EXCEPT !.cancelled = TRUE]
  /\ UNCHANGED <<server, chain, saved, tab, sess, out>>

\* The lobby answered.
Refreshed ==
  /\ boot.at = "refresh"
  /\ boot' = Still
  /\ UNCHANGED <<server, chain, saved, tab, sess, out>>

\* A request of the restore or of the login failed.  An effect tries again; the
\* page that was mounting is left to the restore effect; a login gives up.
BootFails ==
  /\ boot.at \in {"session", "install"}
  /\ IF boot.by = "recover" /\ ~boot.cancelled
     THEN boot' = [boot EXCEPT !.at = "commands"] /\ UNCHANGED tab
     ELSE /\ boot' = Still
          /\ tab' = IF boot.by = "login" THEN [tab EXCEPT !.ready = FALSE] ELSE tab
  /\ UNCHANGED <<server, chain, saved, sess, out>>

\* The lobby says the session is gone (401, rooms-expired): restore again.
LobbySessionLost ==
  /\ tab.ready
  /\ tab' = [tab EXCEPT !.ready = FALSE]
  /\ boot' = [boot EXCEPT !.cancelled = @ \/ boot.by = "recover"]
  /\ UNCHANGED <<server, chain, saved, sess, out>>

\* The feed saw a verified reset of the node: stop writing until reconciled.
NodeRestarted ==
  /\ tab.ready /\ ~tab.blocked /\ engine.phase = 2
  /\ tab' = [tab EXCEPT !.blocked = TRUE]
  /\ UNCHANGED <<server, chain, saved, sess, out, boot>>

(***************************************************************************)
(* Sending.  One queue owns the nonce: a command waits for the one before  *)
(* it (the proxy of install), registers the key if it must, is journaled   *)
(* and only then leaves.                                                   *)
(***************************************************************************)
CanSend == tab.ready /\ ~tab.blocked /\ out = Quiet
Begin(act) == out' = [act |-> act, at |-> "bind", cmd |-> None.cmd]

Ready ==
  /\ CanSend /\ ~Busy /\ Open /\ "me" \notin offer.ready /\ engine.phase < 2
  /\ offer' = Prepared("me")
  /\ UNCHANGED <<chain, saved, page>>

\* /offers/accept without a receipt: what stops it, and when nothing is left to do.
Refused == ~Open \/ engine.phase >= 3 \/ ~LaunchReady
Agreed == engine.phase = 2 \/ "me" \in offer.accepted

\* The launch timer, or the retry button of a failed acceptance, asks the lobby
\* first and signs only what it admits.  The timer follows an estimate of the
\* lobby's clock, so it may fire before the lobby's countdown is over.
Accept ==
  /\ CanSend /\ ~Busy /\ "me" \in offer.ready /\ accepted = None
  /\ \/ offer.launch # "none" /\ ~tab.launched
     \/ tab.issue
  /\ offer' = [offer EXCEPT !.accepted = IF engine.phase = 2 THEN Sides
                                         ELSE IF engine.phase = 0 THEN {} ELSE @]
  /\ IF ~Agreed /\ ~Refused
     THEN /\ Begin("accept")
          /\ tab' = [tab EXCEPT !.launched = TRUE, !.issue = FALSE]
     ELSE /\ UNCHANGED out
          /\ tab' = [tab EXCEPT !.launched = TRUE, !.issue = ~Agreed]
  /\ UNCHANGED <<chain, saved, sess, boot>>

\* backOffer cancels a half-accepted match; the lane moves, ticks or concedes.
Command1(act) ==
  /\ CanSend
  /\ act = "cancel" => ~Busy /\ engine.phase = 1
  /\ act \in {"input", "concede"} => engine.phase = 2
  /\ Begin(act)
  /\ UNCHANGED <<server, chain, saved, tab, sess, boot>>

Send == \E act \in {"cancel", "input", "concede"} : Command1(act)

\* A refusal before the bytes leave: the queue is failed until a new session.
Fails(blocked) ==
  /\ sess' = IF sess.nonce = -1 /\ out.at = "wait" THEN sess ELSE [sess EXCEPT !.failed = TRUE]
  /\ tab' = [tab EXCEPT !.blocked = @ \/ blocked, !.issue = @ \/ out.act = "accept"]
  /\ out' = Quiet

Blocking == out.act # "cancel"

\* compact.send reads the binding and signs registerControls first if needed.
Bind ==
  /\ out.at = "bind"
  /\ IF sess.failed \/ key.expired
     THEN Fails(Blocking)
     ELSE /\ sess' = [sess EXCEPT !.registered = @ \/ (engine.bound = key.id /\ sess.epoch = engine.epoch)]
          /\ out' = [out EXCEPT !.at = "sign"]
          /\ UNCHANGED tab
  /\ UNCHANGED <<server, chain, saved, boot>>

Signed ==
  [key |-> key.id,
   nonce |-> IF sess.nonce = -1 THEN engine.count[key.id] ELSE sess.nonce,
   act |-> IF out.act # "revoke" /\ ~sess.registered THEN "register" ELSE out.act]

\* beforeSend: nothing is sent over an uncertain command, nor a resolved one again.
MayJournal == row = None /\ Signed \notin resolved

\* The bytes are journaled, then leave.
Sign ==
  /\ out.at = "sign" /\ Cardinality(sent) < MaxSent
  /\ IF MayJournal
     THEN \E c \in {Signed} :
            /\ row' = [cmd |-> c, epoch |-> sess.epoch]
            /\ wire' = wire \cup {c}
            /\ sent' = sent \cup {[cmd |-> c, epoch |-> sess.epoch, to |-> engine.epoch]}
            /\ sess' = [sess EXCEPT !.nonce = c.nonce]
            /\ out' = [out EXCEPT !.at = "wait", !.cmd = c]
            /\ UNCHANGED tab
     ELSE Fails(Blocking) /\ UNCHANGED <<row, wire, sent>>
  /\ UNCHANGED <<server, engine, resolved, key, accepted, boot>>

\* A known cooldown or a paused publication refuses before the journal.
SignRefused ==
  /\ out.at = "sign" /\ out.act # "revoke"
  /\ Fails(Blocking)
  /\ UNCHANGED <<server, chain, saved, boot>>

\* The receipt of the command in flight.  A registration is followed by the
\* command it was for; a revert has consumed its nonce.
Answered ==
  /\ out.at = "wait" /\ out.act # "revoke"
  /\ \E x \in engine.receipts :
       /\ x.cmd = out.cmd
       /\ row' = IF row.cmd = out.cmd THEN None ELSE row
       /\ resolved' = resolved \cup {out.cmd}
       /\ sess' = IF sess.nonce = -1 THEN sess
                  ELSE [sess EXCEPT !.nonce = @ + 1,
                                    !.registered = @ \/ (out.cmd.act = "register" /\ x.ok)]
       /\ IF out.cmd.act = "register" /\ x.ok /\ sess.nonce # -1
          THEN out' = [out EXCEPT !.at = "sign", !.cmd = None.cmd] /\ UNCHANGED <<tab, accepted>>
          ELSE /\ out' = Quiet
               /\ accepted' = IF out.cmd.act = "accept" /\ x.ok
                              THEN [cmd |-> out.cmd, epoch |-> engine.epoch] ELSE accepted
               /\ tab' = [tab EXCEPT !.blocked = @ \/ (~x.ok /\ out.act = "accept"),
                                     !.issue = @ \/ (~x.ok /\ out.act = "accept")]
  /\ UNCHANGED <<server, chain, key, boot>>

\* No answer: the row stays uncertain and the page stops writing.
AnswerLost ==
  /\ out.at = "wait" /\ out.act # "revoke"
  /\ Fails(Blocking)
  /\ UNCHANGED <<server, chain, saved, boot>>

\* The stored hash is confirmed with the lobby, or cleared with its offer.
ConfirmAcceptance ==
  /\ tab.ready /\ accepted # None
  /\ \/ (offer.status # "offered" \/ accepted.epoch # engine.epoch) /\ UNCHANGED offer
     \/ /\ offer.status = "offered" /\ accepted.epoch = engine.epoch /\ engine.phase > 0
        /\ offer' = [offer EXCEPT !.accepted = IF engine.phase = 2 THEN Sides ELSE @ \cup {"me"}]
  /\ accepted' = None
  /\ UNCHANGED <<chain, row, resolved, key, page>>

\* disconnect: the key is revoked if the queue allows it, and discarded anyway.
\* The journal is left as it is.
Discarded ==
  /\ key' = [key EXCEPT !.id = 0, !.account = FALSE]
  /\ tab' = [Closed EXCEPT !.open = TRUE]
  /\ accepted' = None
  /\ sess' = NoSession /\ boot' = Still /\ out' = Quiet

Disconnect ==
  /\ FreshKeys /\ tab.ready /\ out = Quiet /\ ~Busy
  /\ IF engine.bound = key.id /\ ~sess.failed /\ row = None
     THEN /\ out' = [act |-> "revoke", at |-> "sign", cmd |-> None.cmd]
          /\ UNCHANGED <<key, accepted, tab, sess, boot>>
     ELSE Discarded
  /\ UNCHANGED <<server, chain, row, resolved>>

\* The revocation was answered, refused or lost: the session goes either way.
DisconnectEnds ==
  /\ out.act = "revoke"
  /\ \E answered \in BOOLEAN :
       /\ answered => Receipt(out.cmd)
       /\ row' = IF answered /\ row.cmd = out.cmd THEN None ELSE row
       /\ resolved' = IF answered THEN resolved \cup {out.cmd} ELSE resolved
  /\ Discarded
  /\ UNCHANGED <<server, chain>>

Next ==
  \/ RivalReady \/ CountdownOver \/ OfferExpires
  \/ Execute \/ Dropped \/ RivalAccepts \/ MatchEnds \/ Renewal \/ SessionExpires
  \/ Mount \/ Reload \/ StartRestore \/ StartRecover \/ Login
  \/ RecoverRead \/ Resend \/ ResendFails \/ RestoreSession \/ Install
  \/ EffectCleanup \/ Refreshed \/ BootFails \/ LobbySessionLost \/ NodeRestarted
  \/ Ready \/ Accept \/ Send \/ Bind \/ Sign \/ SignRefused \/ Answered \/ AnswerLost
  \/ ConfirmAcceptance \/ Disconnect \/ DisconnectEnds

(***************************************************************************)
(* Fairness: the page's effects run, a request it makes is answered        *)
(* sometime if it is made again and again, and React runs its cleanups.    *)
(* Nothing is assumed of the user, of the rival or of the engine's renewal.*)
(***************************************************************************)
PageFairness ==
  /\ WF_vars(StartRecover) /\ WF_vars(StartRestore) /\ WF_vars(RecoverRead)
  /\ SF_vars(Resend) /\ WF_vars(ResendFails) /\ SF_vars(RestoreSession) /\ SF_vars(Install)
  /\ WF_vars(Refreshed) /\ WF_vars(AnswerLost) /\ WF_vars(Bind) /\ WF_vars(SignRefused)

Spec == Init /\ [][Next]_vars

(***************************************************************************)
(* Properties.                                                             *)
(***************************************************************************)
ClientTypeOK ==
  /\ offer.status \in {"offered", "cancelled"} /\ offer.launch \in {"none", "counting", "over"}
  /\ offer.ready \subseteq Sides /\ offer.accepted \subseteq Sides
  /\ engine.epoch \in 1..MaxEpoch /\ engine.phase \in 0..3 /\ engine.bound \in 0..MaxKey
  /\ wire \subseteq {s.cmd : s \in sent} /\ resolved \subseteq Command
  /\ row \in Row \cup {None} /\ accepted \in Row \cup {None}
  /\ key.id \in 0..key.used /\ key.used \in 0..MaxKey
  /\ sess.nonce \in -1..MaxSent + 2
  /\ boot.at \in {"idle", "commands", "resend", "session", "install", "refresh"}
  /\ out.at \in {"idle", "bind", "sign", "wait"}

Replaced(c, d) ==
  /\ c.cmd.act # d.cmd.act
  /\ c.cmd.key = d.cmd.key /\ c.cmd.nonce = d.cmd.nonce /\ c.to = d.to

\* "Never replace this nonce when the response may have been lost after
\* execution" (compact-rooms-session.ts): whatever is reloaded, lost, recovered
\* or disconnected, a page that was installed under the epoch it plays in never
\* puts two different commands of one key on the wire with one nonce.
NonceSignedOnce ==
  \A c, d \in sent : Replaced(c, d) => c.to # c.epoch \/ d.to # d.epoch

\* A consent reaches the engine only after both players were ready and the
\* introduction is over, by whichever way it was sent or resent: /offers/accept
\* admits no acceptance before (assertRoomLaunchReady), and recovery only
\* resends what it admitted.
ConsentAfterIntro == "me" \in engine.consents => LaunchReady

\* The command lane's promise (RoomsHub.tsx, recoverRoomsCommands): a page
\* blocked on a command that its present key signed writes again, or has to
\* renew its session, or is closed.
Stuck == tab.blocked /\ row # None /\ row.cmd.key = key.id
Unstuck == ~tab.blocked \/ ~tab.ready
OwnCommandResolves == Stuck ~> Unstuck

=============================================================================
