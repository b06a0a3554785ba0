---------------------------- MODULE RoomsEngine ----------------------------
(***************************************************************************)
(* What the rooms coordinator does to its hosted engine: the one writer,   *)
(* which journals the bytes of a transaction before it sends them, and the *)
(* lifecycle, which drains an arena, closes its delegation on the hub,     *)
(* finalizes its results and renews it under the next epoch.               *)
(*                                                                         *)
(* A step ends at an await: the writer reads a nonce, then journals, then  *)
(* sends; a closing cycle checks, fences the writer, checks again and only *)
(* then submits.  Players act on the engine in between, a receipt arrives  *)
(* late or never, and the process may stop anywhere: il_engine_jobs, the   *)
(* stage, the operator's transactions and the provisioning request stay.   *)
(***************************************************************************)
EXTENDS Naturals, Sequences, FiniteSets

CONSTANTS Matches,
          MaxEpoch,    \* bound: epochs of the delegation
          MaxJobs,     \* bound: transactions the writer journals
          MaxCrashes   \* bound: restarts of the process

VARIABLES hub,      \* the delegation on Monad: epoch, status, and which results are final
          node,     \* the engine: epoch loaded, signer's nonce, matches, unpublished changes
          ticket,   \* the matches that a signed ticket may still create
          jobs,     \* il_engine_jobs, and what became of each on the engine
          op,       \* the writer's command
          mem,      \* memory: lastEpoch, closingEpoch, the matches seen playing
          stage,    \* il_lifecycle.stage; waited: a minute has passed since it changed
          waited,
          cyc,      \* where a closing cycle stands
          txs,      \* il_lifecycle_jobs of this epoch, and whether each was mined
          prov,     \* il_lifecycle.provisioning; created: sessions the host has made
          created,
          crashes

writerVars == <<jobs, op>>
lifeVars == <<stage, waited, cyc, txs, prov, created>>
vars == <<hub, node, ticket, writerVars, mem, lifeVars, crashes>>

Kinds == {"close", "release", "final", "renew"}
NoTx == [status |-> "none", mined |-> FALSE]
NoOp == [pc |-> "idle", match |-> 0, act |-> "tick", nonce |-> 0, job |-> 0]
Fresh == [last |-> 0, closing |-> 0, seen |-> {}]
Pending(j) == jobs[j].status = "pending"
Synced == node.epoch = hub.epoch

Init ==
    /\ hub = [epoch |-> 1, status |-> 1, due |-> FALSE, unlocked |-> FALSE, final |-> {}]
    /\ node = [epoch |-> 1, nonce |-> 0, live |-> {}, over |-> {}, diffs |-> FALSE]
    /\ ticket = {} /\ jobs = <<>> /\ op = NoOp /\ mem = Fresh
    /\ stage = "playing" /\ waited = FALSE /\ cyc = "idle"
    /\ txs = [k \in Kinds |-> NoTx] /\ prov = "none" /\ created = 0 /\ crashes = 0

-----------------------------------------------------------------------------
(* The engine and its players. *)

\* The lobby signs a ticket while the lifecycle says the arcade is available ...
SignTicket(m) ==
    /\ stage = "playing" /\ hub.status = 1 /\ Synced
    /\ m \notin node.live \cup node.over \cup ticket
    /\ ticket' = ticket \cup {m}
    /\ UNCHANGED <<hub, node, writerVars, mem, lifeVars, crashes>>

\* ... which expires after twenty seconds ...
TicketExpires(m) ==
    /\ m \in ticket /\ ticket' = ticket \ {m}
    /\ UNCHANGED <<hub, node, writerVars, mem, lifeVars, crashes>>

\* ... unless its players create the match with it.
Redeem(m) ==
    /\ m \in ticket /\ ticket' = ticket \ {m}
    /\ node' = [node EXCEPT !.live = @ \cup {m}, !.diffs = TRUE]
    /\ UNCHANGED <<hub, writerVars, mem, lifeVars, crashes>>

\* A player's input or concession ends it.
MatchEnds(m) ==
    /\ m \in node.live
    /\ node' = [node EXCEPT !.live = @ \ {m}, !.over = @ \cup {m}, !.diffs = TRUE]
    /\ UNCHANGED <<hub, ticket, writerVars, mem, lifeVars, crashes>>

\* The engine publishes its changes while its delegation is active.
Publish ==
    /\ node.diffs /\ hub.status = 1 /\ Synced
    /\ node' = [node EXCEPT !.diffs = FALSE]
    /\ UNCHANGED <<hub, ticket, writerVars, mem, lifeVars, crashes>>

\* Bytes that were sent are executed, now or later: only in their turn, and with
\* an effect only on a match that is still played.
Execute(j) ==
    LET live == jobs[j].match \in node.live IN
    /\ jobs[j].sent /\ jobs[j].exec = "none"
    /\ jobs[j].epoch = node.epoch /\ jobs[j].nonce = node.nonce
    /\ jobs' = [jobs EXCEPT ![j].exec = IF live THEN "ok" ELSE "reverted"]
    /\ \E ends \in IF live THEN BOOLEAN ELSE {FALSE} :
           node' = [node EXCEPT !.nonce = @ + 1, !.diffs = @ \/ live,
                        !.live = IF ends THEN @ \ {jobs[j].match} ELSE @,
                        !.over = IF ends THEN @ \cup {jobs[j].match} ELSE @]
    /\ UNCHANGED <<hub, ticket, op, mem, lifeVars, crashes>>

\* The host loads the renewed delegation; the engine's accounts may start afresh.
NodeLoads ==
    /\ hub.status = 1 /\ ~Synced /\ created > 0
    /\ \E nonce \in {0, node.nonce} :
           node' = [node EXCEPT !.epoch = hub.epoch, !.nonce = nonce, !.diffs = FALSE]
    /\ UNCHANGED <<hub, ticket, writerVars, mem, lifeVars, crashes>>

-----------------------------------------------------------------------------
(* The writer. *)

\* A maintenance cycle, every two seconds, notes the engine's epoch and the
\* matches to push on.
Observed == [mem EXCEPT !.last = node.epoch,
                        !.seen = IF stage \in {"playing", "draining"} THEN node.live ELSE {}]
Observe ==
    /\ mem' = Observed /\ mem' # mem
    /\ UNCHANGED <<hub, node, ticket, writerVars, lifeVars, crashes>>

PendingJobs == {j \in DOMAIN jobs : Pending(j)}

\* Mutant: a pending command is not looked for.
StartTickAgain(m, act) ==
    /\ op.pc = "idle" /\ mem.closing = 0 /\ m \in mem.seen
    /\ Len(jobs) < MaxJobs
    /\ op' = [NoOp EXCEPT !.pc = "sign", !.match = m, !.act = act, !.nonce = node.nonce]
    /\ UNCHANGED <<hub, node, ticket, jobs, mem, lifeVars, crashes>>

\* sendPublicTick: a pending command of this epoch comes first; only without one
\* is a nonce read for a new one.
StartTick(m, act) ==
    /\ op.pc = "idle" /\ mem.closing = 0 /\ PendingJobs = {} /\ m \in mem.seen
    /\ Len(jobs) < MaxJobs
    /\ op' = [NoOp EXCEPT !.pc = "sign", !.match = m, !.act = act, !.nonce = node.nonce]
    /\ UNCHANGED <<hub, node, ticket, jobs, mem, lifeVars, crashes>>

StartResend ==
    /\ op.pc = "idle" /\ mem.closing = 0 /\ PendingJobs # {}
    /\ \E j \in PendingJobs :
        /\ jobs[j].epoch = mem.last
        /\ op' = [NoOp EXCEPT !.pc = "send", !.job = j]
    /\ UNCHANGED <<hub, node, ticket, jobs, mem, lifeVars, crashes>>

\* Mutant: the bytes are sent before they are kept.
SignAndSend ==
    /\ op.pc = "sign"
    /\ op' = [op EXCEPT !.pc = "send", !.job = Len(jobs) + 1]
    /\ UNCHANGED <<hub, node, ticket, jobs, mem, lifeVars, crashes>>

\* The exact bytes are kept before they are sent.
JournalJob ==
    /\ op.pc = "sign"
    /\ jobs' = Append(jobs, [epoch |-> mem.last, nonce |-> op.nonce, match |-> op.match,
                             act |-> op.act, status |-> "pending", sent |-> FALSE, exec |-> "none"])
    /\ op' = [op EXCEPT !.pc = "send", !.job = Len(jobs) + 1]
    /\ UNCHANGED <<hub, node, ticket, mem, lifeVars, crashes>>

SendJob ==
    /\ op.pc = "send" /\ ~jobs[op.job].sent
    /\ jobs' = [jobs EXCEPT ![op.job].sent = TRUE]
    /\ UNCHANGED <<hub, node, ticket, op, mem, lifeVars, crashes>>

\* engineReceiptOutcome
Outcome(j) == IF jobs[j].exec = "ok" THEN "observed" ELSE "failed"
Receipt(j) == jobs[j].exec # "none" /\ jobs[j].epoch = node.epoch

\* The command ends with its receipt, or without one: it stays pending.
EndTick ==
    /\ op.pc = "send" /\ op' = NoOp
    /\ jobs' = IF Receipt(op.job) THEN [jobs EXCEPT ![op.job].status = Outcome(op.job)] ELSE jobs
    /\ UNCHANGED <<hub, node, ticket, mem, lifeVars, crashes>>

\* reconcileEngineJobs, on its own timer.
Reconciled ==
    [j \in DOMAIN jobs |->
        IF jobs[j].status \in {"pending", "quarantined"} /\ Receipt(j)
        THEN [jobs[j] EXCEPT !.status = Outcome(j)] ELSE jobs[j]]
ReconcileEngineJobs ==
    /\ jobs' = Reconciled /\ jobs' # jobs
    /\ UNCHANGED <<hub, node, ticket, op, mem, lifeVars, crashes>>

-----------------------------------------------------------------------------
(* The lifecycle: one cycle at a time, the operator's transaction first. *)

NoTxPending == \A k \in Kinds : txs[k].status # "pending"
Cycle(status) == cyc = "idle" /\ NoTxPending /\ hub.status = status
Enter(s) == stage' = s /\ waited' = (IF s = stage THEN waited ELSE FALSE)
Submit(k) == txs' = [txs EXCEPT ![k].status = IF @ = "none" THEN "pending" ELSE @]
Life == UNCHANGED <<hub, node, ticket, writerVars, crashes>>
Kept == UNCHANGED <<prov, created>>

\* submit, and the start of every cycle: a mined transaction is settled once.
SettleTx(k) ==
    /\ cyc = "idle" /\ txs[k].status = "pending" /\ txs[k].mined
    /\ txs' = [txs EXCEPT ![k].status = "confirmed"]
    /\ UNCHANGED <<stage, waited, cyc, mem>> /\ Life /\ Kept

\* playing, with more than an hour left: the writer is free again in a new epoch.
Ready(e) == [mem EXCEPT !.closing = IF @ = e THEN @ ELSE 0]
StayPlaying ==
    /\ Cycle(1) /\ stage = "playing" /\ ~hub.due
    /\ mem' = Ready(hub.epoch) /\ mem' # mem
    /\ UNCHANGED lifeVars /\ Life

StartDraining ==
    /\ Cycle(1) /\ stage \in {"playing", "challenge", "finalizing"} /\ (stage = "playing" => hub.due)
    /\ Enter("draining")
    /\ UNCHANGED <<cyc, txs, mem>> /\ Life /\ Kept

\* roomsDrainBlocker
Drained == node.live = {} /\ ~node.diffs /\ Synced

\* A minute after admission stopped, longer than a ticket lives: the first check,
\* and the fence before the second.
FenceWriter ==
    /\ Cycle(1) /\ stage = "draining" /\ waited /\ Drained
    /\ mem' = [mem EXCEPT !.closing = hub.epoch] /\ cyc' = "fenced"
    /\ UNCHANGED <<stage, waited, txs>> /\ Life /\ Kept

\* beforeClose, once the writer is idle: receipts, then quarantineTerminalTicks.
Terminal(j) == jobs[j].epoch = hub.epoch /\ jobs[j].act = "tick" /\ jobs[j].match \in node.over
QuarantineTicks ==
    /\ cyc = "fenced" /\ op.pc = "idle"
    /\ jobs' = IF \A j \in DOMAIN jobs : Reconciled[j].status = "pending" => Terminal(j) /\ ~node.diffs
               THEN [j \in DOMAIN jobs |-> IF Reconciled[j].status = "pending"
                        THEN [jobs[j] EXCEPT !.status = "quarantined"] ELSE Reconciled[j]]
               ELSE Reconciled
    /\ cyc' = IF \E j \in DOMAIN jobs : jobs'[j].status = "pending" THEN "idle" ELSE "checked"
    /\ UNCHANGED <<hub, node, ticket, op, mem, stage, waited, txs, crashes>> /\ Kept

\* Both checks again, no command unconfirmed, and the closing is submitted.
CloseEngine ==
    /\ cyc = "checked" /\ cyc' = "idle"
    /\ IF Drained /\ PendingJobs = {} /\ hub.status = 1
       THEN IF txs["close"].status = "confirmed" THEN Enter("challenge") /\ UNCHANGED txs
            ELSE Submit("close") /\ UNCHANGED <<stage, waited>>
       ELSE UNCHANGED <<stage, waited, txs>>
    /\ UNCHANGED mem /\ Life /\ Kept

\* The challenge window, then the stake is released.
Challenge ==
    /\ Cycle(2) /\ stage \notin {"renewing", "starting"}
    /\ IF hub.unlocked THEN Submit("release") ELSE UNCHANGED txs
    /\ Enter(IF txs["release"].status = "confirmed" THEN "finalizing" ELSE "challenge")
    /\ UNCHANGED <<cyc, mem>> /\ Life /\ Kept

\* The hub has released the whole epoch: its quarantined commands are obsolete.
Obsolete ==
    [j \in DOMAIN jobs |-> IF jobs[j].status = "quarantined" /\ jobs[j].epoch = hub.epoch
                           THEN [jobs[j] EXCEPT !.status = "obsolete"] ELSE jobs[j]]

\* Every result that is not final is finalized, one at a time; then the renewal.
FinalizeResults ==
    /\ Cycle(0) /\ stage \notin {"playing", "renewing"}
    /\ jobs' = Obsolete
    /\ IF node.over \subseteq hub.final THEN Enter("renewing") /\ Submit("renew")
       ELSE Enter("finalizing") /\ txs' = [txs EXCEPT !["final"] = [NoTx EXCEPT !.status = "pending"]]
    /\ UNCHANGED <<hub, node, ticket, op, mem, cyc, crashes>> /\ Kept

RenewEngine ==
    /\ Cycle(0) /\ stage = "renewing" /\ txs["renew"].status = "none"
    /\ Submit("renew")
    /\ UNCHANGED <<stage, waited, cyc, mem>> /\ Life /\ Kept

\* The new epoch: the hosted engine has loaded it, or is asked for.
StartEngine ==
    /\ Cycle(1) /\ stage \in {"renewing", "starting"} /\ Synced
    /\ Enter("playing") /\ mem' = Ready(hub.epoch)
    /\ UNCHANGED <<cyc, txs>> /\ Life /\ Kept

-----------------------------------------------------------------------------
(* requestHostedRenewal *)

Requesting == Cycle(1) /\ stage \in {"renewing", "starting"} /\ ~Synced

\* The first request, or one after a refusal: intent is saved, then posted.  The
\* host may have made the session whatever the coordinator learns.
CreateSession(made, state) ==
    /\ Requesting /\ prov \in {"none", "rejected"}
    /\ state = "confirmed" => made
    /\ state = "rejected" => ~made
    /\ created' = (IF made THEN created + 1 ELSE created) /\ prov' = state
    /\ Enter("starting")
    /\ UNCHANGED <<cyc, txs, mem>> /\ Life

\* Afterwards only lookups; after five minutes an operator has to look.
LookupSession(state) ==
    /\ Requesting /\ prov \in {"sending", "uncertain", "confirmed"}
    /\ state = "confirmed" => created > 0
    /\ prov' = state /\ prov' # prov
    /\ Enter("starting")
    /\ UNCHANGED <<cyc, txs, mem, created>> /\ Life

-----------------------------------------------------------------------------
(* Monad, time and the process. *)

\* A submitted transaction is mined; a retry of the same bytes changes nothing.
Mine(k) ==
    /\ txs[k].status = "pending" /\ ~txs[k].mined
    /\ CASE k = "close" -> hub.status = 1 /\ hub' = [hub EXCEPT !.status = 2, !.unlocked = FALSE]
         [] k = "release" -> hub.status = 2 /\ hub.unlocked /\ hub' = [hub EXCEPT !.status = 0]
         [] k = "final" -> \E m \in node.over \ hub.final : hub' = [hub EXCEPT !.final = @ \cup {m}]
         [] k = "renew" -> /\ hub.status = 0 /\ hub.epoch < MaxEpoch
                           /\ hub' = [hub EXCEPT !.epoch = @ + 1, !.status = 1, !.due = FALSE]
    /\ txs' = IF k = "renew" THEN [x \in Kinds |-> NoTx] ELSE [txs EXCEPT ![k].mined = TRUE]
    /\ IF k = "renew" THEN prov' = "none" /\ created' = 0 ELSE Kept
    /\ UNCHANGED <<node, ticket, writerVars, mem, stage, waited, cyc, crashes>>

\* Less than an hour is left.
Due ==
    /\ hub.status = 1 /\ ~hub.due /\ hub' = [hub EXCEPT !.due = TRUE]
    /\ UNCHANGED <<node, ticket, writerVars, mem, lifeVars, crashes>>

\* The challenge window ends, hours later: the last observation is newer.
Unlock ==
    /\ hub.status = 2 /\ ~hub.unlocked /\ hub' = [hub EXCEPT !.unlocked = TRUE]
    /\ mem' = Observed
    /\ UNCHANGED <<node, ticket, writerVars, lifeVars, crashes>>

\* A minute passes: no ticket signed before it is alive.
WaitMinute ==
    /\ stage = "draining" /\ ~waited /\ ticket = {} /\ waited' = TRUE /\ mem' = Observed
    /\ UNCHANGED <<hub, node, ticket, writerVars, stage, cyc, txs, prov, created, crashes>>

\* The process stops; what it was doing and its fence are forgotten.
Crash ==
    /\ crashes < MaxCrashes /\ crashes' = crashes + 1
    /\ op' = NoOp /\ mem' = Fresh /\ cyc' = "idle"
    /\ UNCHANGED <<hub, node, ticket, jobs, stage, waited, txs, prov, created>>

Writer ==
    \/ Observe \/ StartResend \/ JournalJob \/ SendJob \/ EndTick \/ ReconcileEngineJobs
    \/ \E m \in Matches, act \in {"tick", "other"} : StartTick(m, act)
Lifecycle ==
    \/ StayPlaying \/ StartDraining \/ FenceWriter \/ QuarantineTicks \/ CloseEngine
    \/ Challenge \/ FinalizeResults \/ RenewEngine \/ StartEngine
    \/ \E k \in Kinds : SettleTx(k)
    \/ \E made \in BOOLEAN, s \in {"sending", "uncertain", "rejected", "confirmed"} : CreateSession(made, s)
    \/ \E s \in {"uncertain", "confirmed", "intervention"} : LookupSession(s)
World ==
    \/ Publish \/ NodeLoads \/ Due \/ Unlock \/ WaitMinute \/ Crash
    \/ \E m \in Matches : SignTicket(m) \/ TicketExpires(m) \/ Redeem(m) \/ MatchEnds(m)
    \/ \E j \in DOMAIN jobs : Execute(j)
    \/ \E k \in Kinds : Mine(k)

Next == Writer \/ Lifecycle \/ World
Spec == Init /\ [][Next]_vars

-----------------------------------------------------------------------------
\* Each part of the state is of its type.
TypeOK ==
    /\ hub.epoch \in 1..MaxEpoch /\ hub.status \in 0..2 /\ hub.final \subseteq node.over
    /\ node.epoch \in 1..hub.epoch /\ node.nonce \in 0..MaxJobs
    /\ node.live \cap node.over = {} /\ ticket \subseteq Matches
    /\ op.pc \in {"idle", "sign", "send"} /\ (op.pc = "send" => op.job \in DOMAIN jobs)
    /\ mem.last \in 0..MaxEpoch /\ mem.closing \in 0..MaxEpoch /\ mem.seen \subseteq Matches
    /\ stage \in {"playing", "draining", "challenge", "finalizing", "renewing", "starting"}
    /\ cyc \in {"idle", "fenced", "checked"}
    /\ prov \in {"none", "sending", "uncertain", "rejected", "confirmed", "intervention"}

\* Two commands never carry the same nonce of one epoch: a command whose answer
\* was lost keeps its nonce, across restarts, the fence and the quarantine.
NonceOwnedOnce ==
    \A i, j \in DOMAIN jobs :
        i # j => jobs[i].epoch # jobs[j].epoch \/ jobs[i].nonce # jobs[j].nonce

\* A delegation that has been closed left nothing behind: no match was being
\* played and every change was published, although the checks were made several
\* awaits before the transaction was mined.
ClosedClean == hub.status # 1 => node.live = {} /\ ~node.diffs /\ ticket = {}

\* The epoch moves on only when every result of the arena is final.
EpochEnds == hub'.epoch # hub.epoch => node.over \subseteq hub.final
RenewedFinal == [][EpochEnds]_vars

\* The host is asked at most once to create the session of an epoch, whatever
\* answers are lost and wherever the process stops.
CreatedOnce == created <= 1
=============================================================================
