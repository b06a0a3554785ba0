------------------------------- MODULE RoomsBet -------------------------------
(***************************************************************************)
(* The betting panel of a spectator (web/components/RoomsMarketPanel.tsx), *)
(* the finance routes it calls (relayer/src/rooms-finance.ts) and the      *)
(* receipts that make bettors known (main.ts, rooms-finance-receipts.ts).  *)
(*                                                                         *)
(* A quote is known by the match and by the choice (side and shares) it is *)
(* for.  The version a live market signs is its delegation epoch, which    *)
(* every match of the room shares, so it is left out: what keeps a quote   *)
(* of one match from being signed for another is the panel.  A bet costs   *)
(* one unit of betting credit, the test credit is Credit of them.          *)
(***************************************************************************)
EXTENDS Naturals, FiniteSets

CONSTANTS MaxMatch, Choices, Credit, MaxClick, MaxCrash

VARIABLES offer,    \* the match of the watched room
          ended,    \* il_results: matches that are over
          window,   \* bettingWindow of each match on the chain
          nonce, vaultNonce, balance, given, bets,
          jobs,     \* relay_jobs
          bettors, credited,       \* il_bettors, il_credits
          routes, seen,            \* requests and receipts in the relay's memory
          panel, read, act,
          clicks, crashes
chain == <<window, nonce, vaultNonce, balance, given, bets>>
relay == <<jobs, bettors, credited, routes, seen>>
page == <<panel, read, act>>
vars == <<offer, ended, chain, relay, page, clicks, crashes>>

Matches == 1..MaxMatch
NoMarket == [match |-> 0, choice |-> 0, open |-> FALSE]
NoRead == [match |-> 0]
NoAct == [at |-> "idle"]

Init ==
  /\ offer = 1 /\ ended = {} /\ window = [m \in Matches |-> "none"]
  /\ nonce = 0 /\ vaultNonce = 0 /\ balance = 0 /\ given = 0 /\ bets = {}
  /\ jobs = {} /\ bettors = {} /\ credited = FALSE /\ routes = {} /\ seen = {}
  /\ panel = [match |-> 1, choice |-> 1, market |-> NoMarket] /\ read = NoRead /\ act = NoAct
  /\ clicks = 0 /\ crashes = 0

(***************************************************************************)
(* The room and the chain.                                                 *)
(***************************************************************************)
OpenMarket(m) ==
  /\ m = offer /\ m \notin ended /\ window[m] = "none"
  /\ window' = [window EXCEPT ![m] = "open"]
  /\ UNCHANGED <<offer, ended, nonce, vaultNonce, balance, given, bets, relay, page, clicks, crashes>>

\* The chain learns of the end of a match when its result is published.
Publish(m) ==
  /\ m \in ended /\ window[m] # "shut" /\ window' = [window EXCEPT ![m] = "shut"]
  /\ UNCHANGED <<offer, ended, nonce, vaultNonce, balance, given, bets, relay, page, clicks, crashes>>

EndMatch ==
  /\ offer \notin ended /\ ended' = ended \cup {offer}
  /\ UNCHANGED <<offer, chain, relay, page, clicks, crashes>>

\* A read of what the panel no longer shows is dropped (readSequence).
Stale(r) == IF r = NoRead THEN r ELSE [r EXCEPT !.stale = TRUE]

\* The room goes on to its next match, and the panel with it, even while an
\* action is under way.
NewOffer ==
  /\ offer \in ended /\ offer < MaxMatch /\ offer' = offer + 1
  /\ panel' = [panel EXCEPT !.match = offer + 1, !.market = NoMarket]
  /\ read' = Stale(read)
  /\ UNCHANGED <<ended, chain, relay, act, clicks, crashes>>

Valid(c) ==
  CASE c.fn = "buy" -> window[c.match] = "open" /\ c.nonce = nonce /\ balance > 0
    [] c.fn = "withdraw" -> c.nonce = vaultNonce /\ c.amount <= balance
    [] OTHER -> TRUE

\* The sponsor's transaction is mined, and reverts if the call is no longer valid.
Mine(j) ==
  /\ j \in jobs /\ j.status = "queued"
  /\ jobs' = (jobs \ {j}) \cup {[j EXCEPT !.status = "mined", !.ok = Valid(j.call)]}
  /\ IF ~Valid(j.call) THEN UNCHANGED <<nonce, vaultNonce, balance, given, bets>>
     ELSE CASE j.call.fn = "buy" ->
                 /\ nonce' = nonce + 1 /\ balance' = balance - 1 /\ bets' = bets \cup {j.call}
                 /\ UNCHANGED <<vaultNonce, given>>
            [] j.call.fn = "withdraw" ->
                 /\ vaultNonce' = vaultNonce + 1 /\ balance' = balance - j.call.amount
                 /\ UNCHANGED <<nonce, given, bets>>
            [] OTHER ->
                 /\ balance' = balance + Credit /\ given' = given + 1
                 /\ UNCHANGED <<nonce, vaultNonce, bets>>
  /\ UNCHANGED <<offer, ended, window, bettors, credited, routes, seen, page, clicks, crashes>>

(***************************************************************************)
(* observeReceipts: what a receipt says is saved before the row ends.      *)
(***************************************************************************)
Record(j) == IF j.ok /\ j.call.fn = "buy" THEN bettors \cup {j.call.match} ELSE bettors

ObserveReceipt(j) ==
  /\ j \in jobs /\ j.status = "mined" /\ j \notin seen
  /\ bettors' = Record(j) /\ seen' = seen \cup {j}
  /\ UNCHANGED <<offer, ended, chain, jobs, credited, routes, page, clicks, crashes>>

MarkJob(j) ==
  /\ j \in seen /\ seen' = seen \ {j}
  /\ jobs' = (jobs \ {j}) \cup {[j EXCEPT !.status = IF j.ok THEN "succeeded" ELSE "failed"]}
  /\ UNCHANGED <<offer, ended, chain, bettors, credited, routes, page, clicks, crashes>>

(***************************************************************************)
(* The finance routes.  enqueue knows a call by its content.               *)
(***************************************************************************)
Known(c) == {j \in jobs : j.call = c}

Request(c) == routes' = routes \cup {[call |-> c, at |-> IF c.fn = "depositFor" THEN "lookup" ELSE "enqueue"]}
Move(r, at) == routes' = (routes \ {r}) \cup {[r EXCEPT !.at = at]}

\* A player whose credit row exists is answered with its job.
LookupCredit(r) ==
  /\ r \in routes /\ r.at = "lookup"
  /\ Move(r, IF credited THEN "answer" ELSE "enqueue")
  /\ UNCHANGED <<offer, ended, chain, jobs, bettors, credited, seen, page, clicks, crashes>>

Enqueue(r) ==
  /\ r \in routes /\ r.at = "enqueue"
  /\ IF Known(r.call) # {} THEN Move(r, "save") /\ UNCHANGED jobs
     ELSE IF Valid(r.call)
     THEN /\ jobs' = jobs \cup {[call |-> r.call, status |-> "queued", ok |-> FALSE, k |-> Cardinality(jobs)]}
          /\ Move(r, "save")
     ELSE Move(r, "refused") /\ UNCHANGED jobs
  /\ UNCHANGED <<offer, ended, chain, bettors, credited, seen, page, clicks, crashes>>

\* The row that makes the bettor, or the credit, known is a second statement.
Save(r) ==
  /\ r \in routes /\ r.at = "save"
  /\ bettors' = IF r.call.fn = "buy" THEN bettors \cup {r.call.match} ELSE bettors
  /\ credited' = (credited \/ r.call.fn = "depositFor")
  /\ Move(r, "answer")
  /\ UNCHANGED <<offer, ended, chain, jobs, seen, page, clicks, crashes>>

\* A stop forgets the requests and the receipts that were being handled.
Crash ==
  /\ crashes < MaxCrash /\ crashes' = crashes + 1
  /\ routes' = {} /\ seen' = {}
  /\ act' = IF act.at = "post" THEN NoAct ELSE act
  /\ UNCHANGED <<offer, ended, chain, jobs, bettors, credited, panel, read, clicks>>

(***************************************************************************)
(* The panel's reads: one at a time, a forced one after the one under way. *)
(***************************************************************************)
StartRead(m, forced) ==
  read' = [match |-> m, choice |-> panel.choice, stale |-> FALSE, forced |-> forced, served |-> FALSE, open |-> FALSE]

Offered(m) == window[m] = "open" /\ m \notin ended

\* A poll that would read what is shown changes nothing and is left out.
Poll ==
  /\ read = NoRead /\ act = NoAct
  /\ panel.market # [match |-> panel.match, choice |-> panel.choice, open |-> Offered(panel.match)]
  /\ StartRead(panel.match, FALSE)
  /\ UNCHANGED <<offer, ended, chain, relay, panel, act, clicks, crashes>>

\* view: the market as the chain and the results say at one moment.
Serve ==
  /\ read # NoRead /\ ~read.served
  /\ read' = [read EXCEPT !.served = TRUE, !.open = Offered(read.match)]
  /\ UNCHANGED <<offer, ended, chain, relay, panel, act, clicks, crashes>>

EndAct == act' = IF act.at = "refresh" /\ read.forced THEN NoAct ELSE act

Shows(r) == ~r.stale

Answer ==
  /\ read # NoRead /\ read.served
  /\ panel' = IF Shows(read)
              THEN [panel EXCEPT !.market = [match |-> read.match, choice |-> read.choice, open |-> read.open]]
              ELSE panel
  /\ read' = NoRead /\ EndAct
  /\ UNCHANGED <<offer, ended, chain, relay, clicks, crashes>>

\* A poll that fails is one that did not happen.
ReadFails ==
  /\ read # NoRead /\ read.forced /\ read' = NoRead /\ EndAct
  /\ UNCHANGED <<offer, ended, chain, relay, panel, clicks, crashes>>

(***************************************************************************)
(* What the spectator does.  perform runs one action at a time.            *)
(***************************************************************************)
Choose(k) ==
  /\ act = NoAct /\ k # panel.choice
  /\ panel' = [panel EXCEPT !.choice = k] /\ read' = Stale(read)
  /\ UNCHANGED <<offer, ended, chain, relay, act, clicks, crashes>>

\* A position of an earlier match.
Pick(m) ==
  /\ act = NoAct /\ m \in bettors /\ m # panel.match
  /\ panel' = [panel EXCEPT !.match = m, !.market = NoMarket] /\ read' = Stale(read)
  /\ UNCHANGED <<offer, ended, chain, relay, act, clicks, crashes>>

Click(a) ==
  /\ act = NoAct /\ clicks < MaxClick /\ clicks' = clicks + 1 /\ act' = a
  /\ UNCHANGED <<offer, ended, chain, relay, panel, read, crashes>>

\* The bet is what was shown when it was confirmed; a quote of another choice
\* is not a price.
Buy ==
  /\ panel.market.open /\ panel.market.choice = panel.choice /\ balance > 0
  /\ Click([at |-> "sign", fn |-> "buy", match |-> panel.match, choice |-> panel.choice,
            quoted |-> panel.market.match])
GetCredit == Click([at |-> "sign", fn |-> "depositFor", match |-> panel.match])
Withdraw == balance > 0 /\ Click([at |-> "sign", fn |-> "withdraw", match |-> panel.match])

\* What GET /interlude/finance answers.
Account == [balance |-> balance, nonce |-> vaultNonce, marketNonce |-> nonce]

\* The nonce, and the amount withdrawn, are read after the passkey answered.
Sign ==
  /\ act.at = "sign"
  /\ LET c == CASE act.fn = "buy" -> [fn |-> "buy", match |-> act.match, choice |-> act.choice,
                                      quoted |-> act.quoted, nonce |-> Account.marketNonce]
                [] act.fn = "withdraw" -> [fn |-> "withdraw", nonce |-> Account.nonce, amount |-> Account.balance]
                [] OTHER -> [fn |-> "depositFor"]
     IN  IF act.fn = "withdraw" /\ Account.balance = 0 THEN act' = NoAct /\ UNCHANGED routes
         ELSE Request(c) /\ act' = [at |-> "post", call |-> c, match |-> act.match]
  /\ UNCHANGED <<offer, ended, chain, jobs, bettors, credited, seen, panel, read, clicks, crashes>>

\* The panel is closed, and opened again.
Cancel ==
  /\ act # NoAct /\ act' = NoAct /\ read' = NoRead
  /\ panel' = [panel EXCEPT !.match = offer, !.market = NoMarket]
  /\ UNCHANGED <<offer, ended, chain, relay, clicks, crashes>>

Answered(r) ==
  /\ r \in routes /\ r.at \in {"answer", "refused"} /\ routes' = routes \ {r}
  /\ act' = IF act.at = "post" /\ act.call = r.call
            THEN IF r.at = "answer" THEN [act EXCEPT !.at = "wait"] ELSE NoAct
            ELSE act
  /\ UNCHANGED <<offer, ended, chain, jobs, bettors, credited, seen, panel, read, clicks, crashes>>

\* waitJob, and its ninety seconds.
Waited ==
  /\ act.at = "wait"
  /\ \E j \in Known(act.call) : act' = IF j.status = "succeeded" THEN [act EXCEPT !.at = "refresh"] ELSE NoAct
  /\ UNCHANGED <<offer, ended, chain, relay, panel, read, clicks, crashes>>

\* The panel reads again what it showed when the action began.
ForceRead ==
  /\ act.at = "refresh" /\ read = NoRead /\ StartRead(act.match, TRUE)
  /\ UNCHANGED <<offer, ended, chain, relay, panel, act, clicks, crashes>>

Next ==
  \/ EndMatch \/ NewOffer \/ \E m \in Matches : OpenMarket(m) \/ Publish(m) \/ Pick(m)
  \/ \E j \in jobs : Mine(j) \/ ObserveReceipt(j) \/ MarkJob(j)
  \/ \E r \in routes : LookupCredit(r) \/ Enqueue(r) \/ Save(r) \/ Answered(r)
  \/ Crash \/ Poll \/ Serve \/ Answer \/ ReadFails \/ Buy \/ GetCredit \/ Withdraw
  \/ Sign \/ Cancel \/ Waited \/ ForceRead \/ \E k \in Choices : Choose(k)
Spec == Init /\ [][Next]_vars

(***************************************************************************)
(* Properties.                                                             *)
(***************************************************************************)
\* A bet that was taken was confirmed on a quote of its own match, although the
\* panel follows the room to its next match while it still reads the last one.
BetsAsShown == \A b \in bets : b.quoted = b.match

\* The test credit is given once, however often it is asked for, whether the
\* relay stops between the transfer's row and the credit's row or not.
CreditOnce == given <= 1

\* A bet whose row has ended has its bettor listed, so the payment worker will
\* find the position even if the request that placed it died.
BettorsFound == \A j \in jobs : j.status = "succeeded" /\ j.call.fn = "buy" => j.call.match \in bettors
=============================================================================
