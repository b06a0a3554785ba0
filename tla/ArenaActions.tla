----------------------------- MODULE ArenaActions -----------------------------
(***************************************************************************)
(* What a player does from the arcade page that moves money or rights      *)
(* (web/components/Arena.tsx): a reviewed bet, a withdrawal, a tournament  *)
(* entry, a concession or revocation, a restored game session, test        *)
(* credits.  Each unlocks the passkey, reads a nonce, signs, posts to the  *)
(* relay and waits for the job (web/lib/api.ts); the player keeps using    *)
(* the page meanwhile, the price moves, answers are lost and waits end     *)
(* before the job does.                                                    *)
(***************************************************************************)
EXTENDS Integers, FiniteSets

CONSTANTS Matches,    \* matches with an open market
          Amounts,    \* quantities of shares the player types
          Prices,     \* prices of one share
          Kinds,      \* the operations offered besides a bet
          MaxVersion, \* rallies: a bet is valid for one version
          MaxStart,   \* operations started
          MaxEdit     \* selections and edits of the amount

VARIABLES price, version,  \* per match: the market's price and the rally
          nonce,           \* nonces[player] of each contract
          done,            \* operations executed on chain
          jobs,            \* relay_jobs of this player
          selected, shares,\* the selected match and the amount typed
          preview,         \* betPreview
          op,              \* the operation act() is running
          session,         \* sessionMatch: the match the page holds a game session of
          said,            \* operations the page has reported as confirmed
          started, edits   \* bounds

vars == <<price, version, nonce, done, jobs, selected, shares, preview, op, session, said,
          started, edits>>

NoBet == [m |-> 0, q |-> 0, amount |-> 0]
Idle == [kind |-> "none", stage |-> "idle", m |-> 0, q |-> 0, limit |-> 0,
         version |-> 0, nonce |-> 0, review |-> NoBet, id |-> 0]

(* The contract whose nonce an operation uses; test credits use none. *)
Contract(kind) ==
  CASE kind = "bet" -> "market" [] kind = "withdraw" -> "vault"
    [] kind = "enter" -> "tournaments" [] kind = "credits" -> "none"
    [] OTHER -> "game"
Contracts == {"market", "vault", "tournaments", "game", "none"}

Init ==
  /\ price \in [Matches -> Prices] /\ version = [m \in Matches |-> 1]
  /\ nonce = [c \in Contracts |-> 0]
  /\ done = {} /\ jobs = {} /\ selected \in Matches /\ shares \in Amounts
  /\ preview = NoBet /\ op = Idle /\ session = 0 /\ said = {} /\ started = 0 /\ edits = 0

-----------------------------------------------------------------------------
(* The chain: prices and rallies move, jobs are executed or fail. *)

Trade(m) ==
  /\ \E p \in Prices \ {price[m]} : price' = [price EXCEPT ![m] = p]
  /\ UNCHANGED <<version, nonce, done, jobs, selected, shares, preview, op, session, said,
                 started, edits>>

Rally(m) ==
  /\ version[m] < MaxVersion
  /\ version' = [version EXCEPT ![m] = @ + 1]
  /\ UNCHANGED <<price, nonce, done, jobs, selected, shares, preview, op, session, said,
                 started, edits>>

(* Whether the signed call succeeds: the nonce is consumed in order, a bet is
   for this rally and costs at most what was signed.                          *)
Valid(j) ==
  /\ Contract(j.kind) # "none" => j.nonce = nonce[Contract(j.kind)]
  /\ j.kind = "bet" => j.version = version[j.m] /\ j.q * price[j.m] <= j.limit

Execute(j) ==
  /\ j.status = "queued" /\ Valid(j)
  /\ nonce' = [nonce EXCEPT ![Contract(j.kind)] =
                 IF Contract(j.kind) = "none" THEN @ ELSE @ + 1]
  /\ done' = done \cup {[kind |-> j.kind, id |-> j.id, m |-> j.m, q |-> j.q,
                         review |-> j.review, cost |-> IF j.kind = "bet"
                                                      THEN j.q * price[j.m] ELSE 0]}
  /\ jobs' = (jobs \ {j}) \cup {[j EXCEPT !.status = "succeeded"]}
  /\ UNCHANGED <<price, version, selected, shares, preview, op, session, said, started, edits>>

(* A revert, or the deadline passed before the relay reached the job. *)
Fail(j) ==
  /\ j.status = "queued"
  /\ jobs' = (jobs \ {j}) \cup {[j EXCEPT !.status = "failed"]}
  /\ UNCHANGED <<price, version, nonce, done, selected, shares, preview, op, session, said,
                 started, edits>>

-----------------------------------------------------------------------------
(* The page. *)

(* A selection drops the reviewed bet; a new amount is noticed at confirmation. *)
Select(m) ==
  /\ edits < MaxEdit /\ edits' = edits + 1
  /\ selected # m /\ selected' = m /\ preview' = NoBet
  /\ UNCHANGED <<price, version, nonce, done, jobs, shares, op, session, said, started>>

Type(q) ==
  /\ edits < MaxEdit /\ edits' = edits + 1
  /\ shares # q /\ shares' = q
  /\ UNCHANGED <<price, version, nonce, done, jobs, selected, preview, op, session, said, started>>

(* act: one operation at a time. *)
Begin(new) ==
  /\ op = Idle /\ started < MaxStart
  /\ started' = started + 1
  /\ op' = [new EXCEPT !.id = started']

Review ==
  /\ Begin([Idle EXCEPT !.kind = "bet", !.stage = "review", !.m = selected, !.q = shares])
  /\ UNCHANGED <<price, version, nonce, done, jobs, selected, shares, preview, session, said, edits>>

Hundredth == 101
Reviewed == preview.m = selected /\ preview.q = shares

Confirm ==
  /\ preview # NoBet /\ Reviewed
  /\ Begin([Idle EXCEPT !.kind = "bet", !.stage = "unlock", !.m = selected,
              !.q = preview.q, !.limit = (preview.amount * Hundredth) \div 100,
              !.review = preview])
  /\ UNCHANGED <<price, version, nonce, done, jobs, selected, shares, preview, session, said, edits>>

Start(kind) ==
  /\ kind \in Kinds
  /\ Begin([Idle EXCEPT !.kind = kind, !.stage = "unlock", !.m = selected])
  /\ UNCHANGED <<price, version, nonce, done, jobs, selected, shares, preview, session,
                 said, edits>>
RestoreSession == Start("session")
PlayerAction == Start("action")
Credits == Start("credits")
Withdraw == Start("withdraw")
RegisterTournament == Start("enter")

(* signingOwner, gameplaySigner: the ceremony succeeds, or the operation ends
   with an error, as it does wherever a request fails.                        *)
Unlock ==
  /\ op.stage = "unlock"
  /\ op' = [op EXCEPT !.stage = CASE op.kind = "bet" -> "requote"
                                  [] op.kind = "credits" -> "post" [] OTHER -> "nonce"]
  /\ UNCHANGED <<price, version, nonce, done, jobs, selected, shares, preview, session, said,
                 started, edits>>

GiveUp ==
  /\ op # Idle /\ op' = Idle
  /\ UNCHANGED <<price, version, nonce, done, jobs, selected, shares, preview, session, said,
                 started, edits>>

(* quoteWindow asks until the rally is open for long enough, and stops when the
   page has moved to another match.                                            *)
Same == selected = op.m
Quote == op.q * price[op.m]

Previewed ==
  /\ op.stage = "review" /\ Same
  /\ preview' = [m |-> op.m, q |-> op.q, amount |-> Quote]
  /\ op' = Idle
  /\ UNCHANGED <<price, version, nonce, done, jobs, selected, shares, session, said, started, edits>>

Limit(quote) == op.limit

Requote ==
  /\ op.stage = "requote" /\ Same
  /\ IF Quote > Limit(Quote)
     THEN preview' = [op.review EXCEPT !.amount = Quote] /\ op' = Idle
     ELSE /\ op' = [op EXCEPT !.stage = "nonce", !.version = version[op.m],
                              !.limit = Limit(Quote)]
          /\ UNCHANGED preview
  /\ UNCHANGED <<price, version, nonce, done, jobs, selected, shares, session, said, started, edits>>

ReadNonce ==
  /\ op.stage = "nonce"
  /\ op' = [op EXCEPT !.stage = "post", !.nonce = nonce[Contract(op.kind)]]
  /\ UNCHANGED <<price, version, nonce, done, jobs, selected, shares, preview, session, said,
                 started, edits>>

(* enqueue and POST /faucet: a payload has one job; credits are asked for once. *)
Job == [kind |-> op.kind, id |-> op.id, m |-> op.m, q |-> op.q, limit |-> op.limit,
        version |-> op.version, nonce |-> op.nonce, review |-> op.review,
        status |-> "queued"]
Known == {j \in jobs : op.kind = "credits" /\ j.kind = "credits"}

Post ==
  /\ op.stage = "post"
  /\ \E answered \in BOOLEAN :
       IF Known # {}
       THEN /\ op' = IF answered THEN [op EXCEPT !.stage = "wait",
                                         !.id = (CHOOSE j \in Known : TRUE).id] ELSE Idle
            /\ UNCHANGED jobs
       ELSE /\ jobs' = jobs \cup {Job}
            /\ op' = IF answered THEN [op EXCEPT !.stage = "wait"] ELSE Idle
  /\ UNCHANGED <<price, version, nonce, done, selected, shares, preview, session, said, started, edits>>

(* waitJob: "superseded" is an input's outcome and counts as success; after
   ninety seconds the wait ends as a failure (GiveUp).                       *)
Succeeded(j) == j.status = "succeeded"

Waited ==
  /\ op.stage = "wait"
  /\ \E j \in jobs :
       /\ j.id = op.id
       /\ \/ /\ Succeeded(j)
             /\ said' = said \cup {[kind |-> op.kind, id |-> j.id]}
             /\ preview' = IF op.kind = "bet" THEN NoBet ELSE preview
             /\ session' = CASE op.kind = "session" -> op.m
                             [] op.kind = "action" -> 0 [] OTHER -> session
          \/ j.status = "failed" /\ UNCHANGED <<said, preview, session>>
  /\ op' = Idle
  /\ UNCHANGED <<price, version, nonce, done, jobs, selected, shares, started, edits>>

Next ==
  \/ \E m \in Matches : Trade(m) \/ Rally(m) \/ Select(m)
  \/ \E q \in Amounts : Type(q)
  \/ \E j \in jobs : Execute(j) \/ Fail(j)
  \/ RestoreSession \/ PlayerAction \/ Credits \/ Withdraw \/ RegisterTournament
  \/ Review \/ Confirm \/ Unlock \/ GiveUp \/ Previewed \/ Requote \/ ReadNonce
  \/ Post \/ Waited

Spec == Init /\ [][Next]_vars

-----------------------------------------------------------------------------
(* A bet on chain is the bet a player reviewed: the match, the amount, and at
   most one per cent more than the price shown, whatever the price, the rally,
   the selection and the amount on the page did during the passkey ceremony and
   while an earlier bet was still pending (Arena.tsx bet).                     *)
BetAsReviewed ==
  \A d \in done : d.kind = "bet" =>
    /\ d.m = d.review.m /\ d.q = d.review.q
    /\ 100 * d.cost <= 101 * d.review.amount

(* What the page reported as confirmed was executed, and one report stands for
   one execution: neither a lost answer nor a wait that ended early, with the
   retry the player then makes, turns into a second report (api.ts waitJob).   *)
ReportedIsTrue ==
  \A s \in said : Cardinality({d \in done : d.kind = s.kind /\ d.id = s.id}) = 1
=============================================================================
