--------------------------- MODULE RoomsSettlement ---------------------------
(***************************************************************************)
(* The settlement worker of the rooms market: relayer/src/rooms-finance.ts *)
(* (audit, beforeRenew and the routes), rooms-finance-router.ts and        *)
(* rooms-finance-receipts.ts, between the market and its result adapter    *)
(* (contracts/src/labs), the hub that opens and releases engine sessions,  *)
(* and the relay journal, which makes every call asked of it at most once  *)
(* at a time (RelayJournal.tla).                                           *)
(*                                                                         *)
(* A bet is made through the relayer or straight on the market.  The table *)
(* il_bettors is all the worker knows of it: a row comes from the buy      *)
(* route, from the receipt of a relayed bet, from the scan of the last     *)
(* blocks or from the historical scan, whichever comes first.              *)
(***************************************************************************)
EXTENDS Integers, Sequences, FiniteSets, SequencesExt

CONSTANTS Matches,       \* numbers: ORDER BY id
          Players,
          Page,          \* 20: matches looked at in one audit
          Attempts,      \* 6: transfers the worker tries
          Scan,          \* events one historical page covers
          Early,         \* settlement = "early-published-testnet"
          MaxDeployment, \* bound: financial deployments of the arena
          MaxEpoch,      \* bound: engine sessions
          MaxFaults      \* bound: failed reads, failed jobs and stops

VARIABLES
  hub,      \* epoch and status of the engine session
  match,    \* per match: published phase, epoch of its round, accepted result, market
  pos,      \* positions: none, bet, claimed
  pay,      \* payouts: status and attempts
  log,      \* the BetPlaced events, oldest first
  jobs,     \* open rows of the relay journal
  rows,     \* il_bettors
  cursor,   \* il_market_cursor
  binding,  \* il_match_finance
  active,   \* the last deployment of the manifest
  asked,    \* bets enqueued by a buy request that has not inserted its row yet
  audit,    \* the audit under way: step and what is left of its page
  renewing, \* beforeRenew has passed and renewEngine is submitted
  faults

chainVars == <<hub, match, pos, pay, log>>
tableVars == <<rows, cursor, binding>>
vars == <<chainVars, jobs, tableVars, active, asked, audit, renewing, faults>>

Bets == Matches \X Players
Call(fn, m, p) == [fn |-> fn, m |-> m, p |-> p]
Idle == [at |-> "idle", ids |-> <<>>, left |-> {}]

Init ==
  /\ hub = [epoch |-> 1, status |-> "active"]
  /\ match = [m \in Matches |-> [phase |-> "live", epoch |-> 0, final |-> FALSE, market |-> 0]]
  /\ pos = [b \in Bets |-> "none"] /\ pay = [b \in Bets |-> [status |-> "none", tries |-> 0]]
  /\ log = <<>> /\ jobs = {}
  /\ rows = [b \in Bets |-> "none"] /\ cursor = 0
  /\ binding = [m \in Matches |-> 0] /\ active = 1
  /\ asked = {} /\ audit = Idle /\ renewing = FALSE /\ faults = 0

Fault == faults < MaxFaults /\ faults' = faults + 1
Insert(b) == IF rows[b] = "none" THEN [rows EXCEPT ![b] = "open"] ELSE rows
InsertAll(bs) == [b \in Bets |-> IF b \in bs /\ rows[b] = "none" THEN "open" ELSE rows[b]]

-----------------------------------------------------------------------------
(* The deployment of a match. *)

\* Mutant: the market of a match is looked for in the current manifest only.
ForMatchActive(m) == active

\* forMatch: the binding, or the deployment that already has a book for the
\* match, or the active one; written once.
ForMatch(m) ==
  IF binding[m] # 0 THEN binding[m]
  ELSE IF match[m].market # 0 THEN match[m].market ELSE active

\* A live chaos match asks for its market and its round (pressure, router): the
\* book is opened in the deployment the match is bound to.
AskOpen(m) ==
  /\ match[m].phase = "live"
  /\ binding' = [binding EXCEPT ![m] = ForMatch(m)]
  /\ LET d == ForMatch(m)
     IN  jobs' = jobs \cup (IF match[m].market = 0 THEN {Call("open", m, d)}
                            ELSE IF match[m].epoch = 0 THEN {Call("openRound", m, d)} ELSE {})
  /\ UNCHANGED <<chainVars, rows, cursor, active, asked, audit, renewing, faults>>

\* A release with one more deployment in the manifest: a restart.
Redeploy ==
  /\ active < MaxDeployment
  /\ active' = active + 1
  /\ asked' = {} /\ audit' = Idle /\ renewing' = FALSE
  /\ UNCHANGED <<chainVars, jobs, tableVars, faults>>

-----------------------------------------------------------------------------
(* The chain. *)

\* bettingWindow: the match is live and its round is of the active session.
Window(m) ==
  /\ match[m].phase = "live" /\ ~match[m].final
  /\ match[m].epoch = hub.epoch /\ hub.status = "active"

Placed(m, p) ==
  /\ pos' = [pos EXCEPT ![<<m, p>>] = "bet"]
  /\ log' = Append(log, <<m, p>>)

\* A bet of a player that does not use the relayer.
DirectBet(m, p) ==
  /\ Window(m) /\ pos[<<m, p>>] = "none"
  /\ Placed(m, p)
  /\ UNCHANGED <<hub, match, pay, jobs, tableVars, active, asked, audit, renewing, faults>>

\* The published state of the match becomes terminal.
Finish(m) ==
  /\ match[m].phase = "live" /\ hub.status = "active"
  /\ match' = [match EXCEPT ![m].phase = "over"]
  /\ UNCHANGED <<hub, pos, pay, log, jobs, tableVars, active, asked, audit, renewing, faults>>

\* finalizeResult of the adapter: after the release of the session or, with early
\* settlement, in the session of the match's round.
MayFinalize(m) ==
  /\ ~match[m].final /\ match[m].phase = "over"
  /\ \/ hub.status = "none"
     \/ Early /\ hub.status = "active" /\ match[m].epoch = hub.epoch
  /\ Early => match[m].epoch > 0

\* A drained session is released by its operator.
Release ==
  /\ hub.status = "active"
  /\ \A m \in Matches : match[m].phase = "live" => match[m].epoch = 0
  /\ hub' = [hub EXCEPT !.status = "none"]
  /\ UNCHANGED <<match, pos, pay, log, jobs, tableVars, active, asked, audit, renewing, faults>>

\* One attempt to transfer: it arrives or the recipient refuses it.
Tried(b) == \E s \in {"paid", "deferred"} :
              pay' = [pay EXCEPT ![b] = [status |-> s, tries |-> pay[b].tries + 1]]

\* The journal makes a call: it takes effect, or reverts.
Made(c) ==
  LET b == <<c.m, c.p>> IN
  CASE c.fn = "open" ->
         /\ match' = IF match[c.m].market = 0 /\ match[c.m].phase = "live"
                     THEN [match EXCEPT ![c.m].market = c.p] ELSE match
         /\ UNCHANGED <<pos, pay, log>>
    [] c.fn = "openRound" ->
         /\ match' = IF match[c.m].phase = "live" /\ match[c.m].epoch = 0 /\ hub.status = "active"
                     THEN [match EXCEPT ![c.m].epoch = hub.epoch] ELSE match
         /\ UNCHANGED <<pos, pay, log>>
    [] c.fn = "finalizeResult" ->
         /\ match' = IF MayFinalize(c.m) THEN [match EXCEPT ![c.m].final = TRUE] ELSE match
         /\ UNCHANGED <<pos, pay, log>>
    [] c.fn = "buy" ->
         /\ IF Window(c.m) /\ pos[b] = "none" THEN Placed(c.m, c.p) ELSE UNCHANGED <<pos, log>>
         /\ UNCHANGED <<match, pay>>
    [] c.fn = "claim" ->
         /\ IF match[c.m].final /\ pos[b] = "bet"
            THEN pos' = [pos EXCEPT ![b] = "claimed"] /\ Tried(b)
            ELSE UNCHANGED <<pos, pay>>
         /\ UNCHANGED <<match, log>>
    [] c.fn = "retryPayout" ->
         /\ IF pay[b].status = "deferred" THEN Tried(b) ELSE UNCHANGED pay
         /\ UNCHANGED <<match, pos, log>>

\* observeReceipts records a relayed bet before its row of the journal is closed.
JobMade(c) ==
  /\ c \in jobs
  /\ Made(c)
  /\ jobs' = jobs \ {c}
  /\ rows' = IF c.fn = "buy" /\ pos'[<<c.m, c.p>>] = "bet" THEN Insert(<<c.m, c.p>>) ELSE rows
  /\ UNCHANGED <<hub, cursor, binding, active, asked, audit, renewing, faults>>

JobFails(c) ==
  /\ c \in jobs /\ Fault
  /\ jobs' = jobs \ {c}
  /\ UNCHANGED <<chainVars, tableVars, active, asked, audit, renewing>>

-----------------------------------------------------------------------------
(* The routes. *)

\* /finance/buy: the call is simulated and enqueued; the row follows.
BuyRoute(m, p) ==
  /\ Window(m) /\ pos[<<m, p>>] = "none"
  /\ jobs' = jobs \cup {Call("buy", m, p)}
  /\ asked' = asked \cup {<<m, p>>}
  /\ binding' = [binding EXCEPT ![m] = ForMatch(m)]
  /\ UNCHANGED <<chainVars, rows, cursor, active, audit, renewing, faults>>

BuyRecorded(b) ==
  /\ b \in asked
  /\ rows' = Insert(b) /\ asked' = asked \ {b}
  /\ UNCHANGED <<chainVars, jobs, cursor, binding, active, audit, renewing, faults>>

\* /finance/retry, for as long as the transfer is deferred.
RetryRoute(m, p) ==
  /\ pay[<<m, p>>].status = "deferred" /\ pay[<<m, p>>].tries <= Attempts
  /\ jobs' = jobs \cup {Call("retryPayout", m, p)}
  /\ UNCHANGED <<chainVars, tableVars, active, asked, audit, renewing, faults>>

-----------------------------------------------------------------------------
(* audit: one at a time. *)

Unsettled == {m \in Matches : \E p \in Players : rows[<<m, p>>] = "open"}
FirstPage == SubSeq(SetToSortSeq(Unsettled, <), 1,
                    IF Cardinality(Unsettled) < Page THEN Cardinality(Unsettled) ELSE Page)

\* The scan of the last blocks; a failure is logged and passed over.
ScanRecent ==
  /\ audit.at = "idle"
  /\ audit' = [audit EXCEPT !.at = "history"]
  /\ \/ /\ rows' = InsertAll({log[i] : i \in {j \in 1..Len(log) : j > Len(log) - Scan}})
        /\ UNCHANGED faults
     \/ Fault /\ UNCHANGED rows
  /\ UNCHANGED <<chainVars, jobs, cursor, binding, active, asked, renewing>>

\* A page of history: its rows and the cursor in one transaction, or neither.
ScanHistory ==
  /\ audit.at = "history"
  /\ audit' = [audit EXCEPT !.at = "select"]
  /\ \/ LET to == IF cursor + Scan < Len(log) THEN cursor + Scan ELSE Len(log)
        IN  /\ rows' = InsertAll({log[i] : i \in (cursor + 1)..to})
            /\ cursor' = to
            /\ UNCHANGED faults
     \/ Fault /\ UNCHANGED <<rows, cursor>>
  /\ UNCHANGED <<chainVars, jobs, binding, active, asked, renewing>>

Select ==
  /\ audit.at = "select"
  /\ audit' = [at |-> "match", ids |-> FirstPage, left |-> {}]
  /\ UNCHANGED <<chainVars, jobs, tableVars, active, asked, renewing, faults>>

\* The next match of the page: one without a result is finalized if it can be.
NextMatch ==
  /\ audit.at = "match"
  /\ IF audit.ids = <<>>
     THEN audit' = Idle /\ UNCHANGED jobs
     ELSE LET m == Head(audit.ids) IN
          IF ~match[m].final
          THEN /\ jobs' = IF MayFinalize(m) THEN jobs \cup {Call("finalizeResult", m, 0)} ELSE jobs
               /\ audit' = [audit EXCEPT !.ids = Tail(@)]
          ELSE /\ audit' = [audit EXCEPT !.at = "player",
                              !.left = {p \in Players : rows[<<m, p>>] = "open"}]
               /\ UNCHANGED jobs
  /\ UNCHANGED <<chainVars, tableVars, active, asked, renewing, faults>>

Retriable(b) == pay[b].status = "deferred" /\ pay[b].tries < Attempts

\* Nothing is left to do for a bettor: no stake, or claimed and not to be retried.
Settleable(b) == pos[b] = "none" \/ (pos[b] = "claimed" /\ ~Retriable(b))

\* One bettor of the match: claim his position and stop there, retry his transfer
\* or settle his row.
AuditPlayer(p) ==
  /\ audit.at = "player" /\ p \in audit.left
  /\ LET m == Head(audit.ids)
         b == <<m, p>>
         rest == audit.left \ {p}
         next == IF rest = {} THEN [at |-> "match", ids |-> Tail(audit.ids), left |-> {}]
                 ELSE [audit EXCEPT !.left = rest]
     IN  /\ rows' = IF Settleable(b) THEN [rows EXCEPT ![b] = "settled"] ELSE rows
         /\ IF pos[b] = "bet"
            THEN /\ jobs' = jobs \cup {Call("claim", m, p)}
                 /\ audit' = [at |-> "match", ids |-> Tail(audit.ids), left |-> {}]
            ELSE /\ jobs' = IF pos[b] = "claimed" /\ Retriable(b)
                            THEN jobs \cup {Call("retryPayout", m, p)} ELSE jobs
                 /\ audit' = next
  /\ UNCHANGED <<chainVars, cursor, binding, active, asked, renewing, faults>>

\* Any read or enqueue of an audit fails: the rest waits for the next one.
AuditFails ==
  /\ audit.at \in {"select", "match", "player"} /\ Fault
  /\ audit' = Idle
  /\ UNCHANGED <<chainVars, jobs, tableVars, active, asked, renewing>>

\* The process stops: the tables and the journal remain.
Restart ==
  /\ Fault
  /\ asked' = {} /\ audit' = Idle /\ renewing' = FALSE
  /\ UNCHANGED <<chainVars, jobs, tableVars, active>>

-----------------------------------------------------------------------------
(* Renewal of the engine session. *)

Known == {m \in Matches : \E p \in Players : rows[<<m, p>>] # "none"}

\* beforeRenew: every match with a known bettor has its result.
MayRenew == \A m \in Known : match[m].final

BeforeRenew ==
  /\ Early /\ hub.status = "none" /\ ~renewing /\ hub.epoch < MaxEpoch
  /\ IF MayRenew
     THEN renewing' = TRUE /\ UNCHANGED jobs
     ELSE /\ \E m \in Known : /\ ~match[m].final
                              /\ jobs' = jobs \cup (IF MayFinalize(m) THEN {Call("finalizeResult", m, 0)} ELSE {})
          /\ UNCHANGED renewing
  /\ UNCHANGED <<chainVars, tableVars, active, asked, audit, faults>>

Renew ==
  /\ renewing
  /\ renewing' = FALSE
  /\ hub' = [epoch |-> hub.epoch + 1, status |-> "active"]
  /\ UNCHANGED <<match, pos, pay, log, jobs, tableVars, active, asked, audit, faults>>

AuditSteps == ScanRecent \/ ScanHistory \/ Select \/ NextMatch \/ \E p \in Players : AuditPlayer(p)

Next ==
  \/ \E m \in Matches : AskOpen(m) \/ Finish(m)
  \/ \E m \in Matches, p \in Players : DirectBet(m, p) \/ BuyRoute(m, p) \/ RetryRoute(m, p)
  \/ \E b \in Bets : BuyRecorded(b)
  \/ \E c \in jobs : JobMade(c) \/ JobFails(c)
  \/ AuditSteps \/ AuditFails
  \/ Redeploy \/ Release \/ BeforeRenew \/ Renew \/ Restart

Spec == Init /\ [][Next]_vars

\* The timer audits every five seconds, the journal makes what it holds, matches
\* end and the operator releases a drained session.
JobsMade == \E c \in jobs : JobMade(c)

SettlementFairness ==
  /\ WF_vars(AuditSteps) /\ WF_vars(Release)
  /\ \A m \in Matches : WF_vars(Finish(m))
  /\ WF_vars(JobsMade)

-----------------------------------------------------------------------------
(* Properties. *)

SettlementTypeOK ==
  /\ hub \in [epoch : 1..MaxEpoch, status : {"active", "none"}]
  /\ match \in [Matches -> [phase : {"live", "over"}, epoch : 0..MaxEpoch, final : BOOLEAN,
                            market : 0..MaxDeployment]]
  /\ pos \in [Bets -> {"none", "bet", "claimed"}]
  /\ rows \in [Bets -> {"none", "open", "settled"}] /\ cursor \in 0..Len(log)
  /\ \A b \in Bets : pos[b] = "claimed" <=> pay[b].status # "none"

\* A row that audit closes is never looked at again: it is closed only when the
\* bettor can have nothing more on the market, whichever of the four sources
\* inserted it, whenever the bet was mined and however the transfer went.
SettledIsPaid ==
  \A m \in Matches, p \in Players :
    rows[<<m, p>>] = "settled" =>
      /\ match[m].final /\ pos[<<m, p>>] # "bet"
      /\ pay[<<m, p>>].status = "deferred" => pay[<<m, p>>].tries >= Attempts

\* "A match never changes its financial deployment": its market is the one it
\* is bound to, and no open call would open another, across releases.
OneMarket ==
  \A m \in Matches :
    /\ match[m].market # 0 => binding[m] = match[m].market
    /\ \A c \in jobs : c.fn = "open" /\ c.m = m => c.p = binding[m]

\* Every bet is paid or tried Attempts times in the end, however it was made.
PaidOff(b) == pay[b].status = "paid" \/ pay[b].tries >= Attempts
Staked(b) == pos[b] = "bet"
BetsPaid == \A b \in Bets : Staked(b) ~> PaidOff(b)
=============================================================================
