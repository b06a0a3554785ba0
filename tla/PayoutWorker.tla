---------------------------- MODULE PayoutWorker ----------------------------
(***************************************************************************)
(* The automatic payment worker (relayer/src/payouts.ts).  It discovers    *)
(* debts through the indexer, keeps one task per debt, and asks the relay  *)
(* journal to claim, refund or retry a native transfer until the chain     *)
(* says it was made.  The worker's tick and a user's POST /payouts/retry   *)
(* run concurrently; each reads the chain, enqueues and saves the task in  *)
(* separate awaited statements, and the relayer may stop between any two.  *)
(*                                                                         *)
(* Journal rows are identified by the call and the payout attempt read     *)
(* when they were asked for (main.ts enqueue); signing and nonces are the  *)
(* subject of module RelayJournal.                                         *)
(***************************************************************************)
EXTENDS Naturals, FiniteSets, Sequences

CONSTANTS Debts,      \* debts in the order of the indexer's cursor, 1..N
          Kind,       \* debt -> "bet", "refund" or "prize"
          Owed,       \* debt -> whether its amount is positive
          Slots,      \* financial jobs allowed in the nonce pipeline (two)
          MaxAttempt, \* refused transfers per debt
          MaxFailure, \* journal rows that fail for another reason
          MaxCrash

VARIABLES over,     \* the match or cup behind the debt has ended
          pay,      \* payouts[id] on chain: 0 none, 1 deferred, 2 paid; attempts
          accepts,  \* the recipient takes a native transfer
          cursor,   \* payout_cursors
          indexed,  \* debts whose candidate the indexer has written
          task,     \* payout_tasks
          jobs,     \* relay_jobs rows of the debt, oldest first
          tick,     \* the worker's statement in progress
          user,     \* the retry request's statement in progress
          failures, crashes

chainVars == <<over, pay, accepts>>
vars == <<over, pay, accepts, cursor, indexed, task, jobs, tick, user, failures, crashes>>

Idle == [at |-> "idle"]
NoTask == [state |-> "none", attempts |-> 0, job |-> 0, hash |-> FALSE, due |-> FALSE]
Live(row) == row.status = "queued"
Financial == Cardinality({di \in Debts \X (1..(MaxAttempt + MaxFailure + 2)) :
                            di[2] \in DOMAIN jobs[di[1]] /\ Live(jobs[di[1]][di[2]])})

Init ==
  /\ over = [d \in Debts |-> FALSE]
  /\ pay = [d \in Debts |-> [st |-> 0, attempts |-> 0]]
  /\ accepts \in [Debts -> BOOLEAN]
  /\ cursor = 0 /\ indexed = {}
  /\ task = [d \in Debts |-> NoTask]
  /\ jobs = [d \in Debts |-> <<>>]
  /\ tick = Idle /\ user = Idle
  /\ failures = 0 /\ crashes = 0

(***************************************************************************)
(* The chain and the indexer (external).  A prize is transferred by        *)
(* advance itself; a bet and a refund wait for claim and refund.           *)
(***************************************************************************)
Transferred(d, p) ==
  IF accepts[d] THEN [p EXCEPT !.st = 2]
  ELSE [p EXCEPT !.st = 1, !.attempts = @ + 1]

Ends(d) ==
  /\ ~over[d]
  /\ \A e \in Debts : e < d => over[e]
  /\ over' = [over EXCEPT ![d] = TRUE]
  /\ pay' = IF Kind[d] = "prize" THEN [pay EXCEPT ![d] = Transferred(d, @)] ELSE pay
  /\ UNCHANGED <<accepts, cursor, indexed, task, jobs, tick, user, failures, crashes>>

Index(d) ==
  /\ over[d] /\ d \notin indexed
  /\ \A e \in Debts : e < d => e \in indexed
  /\ indexed' = indexed \cup {d}
  /\ UNCHANGED <<chainVars, cursor, task, jobs, tick, user, failures, crashes>>

Unblock(d) ==
  /\ ~accepts[d]
  /\ accepts' = [accepts EXCEPT ![d] = TRUE]
  /\ UNCHANGED <<over, pay, cursor, indexed, task, jobs, tick, user, failures, crashes>>

\* The journal executes a row: the transfer, or a revert.
Execute(d, i) ==
  /\ i \in DOMAIN jobs[d] /\ Live(jobs[d][i])
  /\ \/ /\ IF jobs[d][i].fn = "retryPayout" THEN pay[d].st = 1
                                            ELSE pay[d].st = 0 /\ over[d]
        /\ accepts[d] \/ pay[d].attempts < MaxAttempt
        /\ pay' = [pay EXCEPT ![d] = Transferred(d, @)]
        /\ jobs' = [jobs EXCEPT ![d][i].status = "succeeded"]
        /\ UNCHANGED failures
     \/ /\ failures < MaxFailure
        /\ failures' = failures + 1
        /\ jobs' = [jobs EXCEPT ![d][i].status = "failed"]
        /\ UNCHANGED pay
  /\ UNCHANGED <<over, accepts, cursor, indexed, task, tick, user, crashes>>

(***************************************************************************)
(* enqueue, for the calls this worker makes.                               *)
(***************************************************************************)
Same(row, fn, att) == row.fn = fn /\ row.att = att
AttemptOf(d, fn) == IF fn = "retryPayout" THEN pay[d].attempts ELSE 0
Simulated(d, fn) == IF fn = "retryPayout" THEN pay[d].st = 1 ELSE pay[d].st = 0 /\ over[d]

\* Mutant: a failed row is replaced without looking for one in flight.
InFlightNone(d, fn) == {}
InFlight(d, fn) == {i \in DOMAIN jobs[d] : jobs[d][i].fn = fn /\ Live(jobs[d][i])}

\* The row of the call's own identifier; later rows carry a retry identifier.
Base(d, fn) ==
  {i \in DOMAIN jobs[d] : /\ Same(jobs[d][i], fn, AttemptOf(d, fn))
                          /\ \A j \in DOMAIN jobs[d] : Same(jobs[d][j], fn, AttemptOf(d, fn)) => i <= j}
Failed(d, i) == jobs[d][i].status = "failed"

\* A row is returned when it has not failed or its replacement is in flight;
\* otherwise the call is simulated and a row is inserted.
Reused(d, fn) == \E i \in Base(d, fn) : Failed(d, i) => InFlight(d, fn) # {}
Enqueued(d, fn) ==
  IF Reused(d, fn)
  THEN UNCHANGED jobs
  ELSE /\ Simulated(d, fn)
       /\ jobs' = [jobs EXCEPT ![d] =
                     Append(@, [fn |-> fn, att |-> AttemptOf(d, fn), status |-> "queued"])]

\* The row whose identifier enqueue returns, once Enqueued has taken place.
Answer(d, fn) ==
  LET live == {i \in DOMAIN jobs'[d] : jobs'[d][i].fn = fn /\ Live(jobs'[d][i])}
      same == {i \in DOMAIN jobs'[d] : Same(jobs'[d][i], fn, AttemptOf(d, fn))}
      rows == IF live # {} THEN live ELSE same
  IN  CHOOSE i \in rows : \A j \in rows : i >= j

Rejected(d, fn) == ~Reused(d, fn) /\ ~Simulated(d, fn)

(***************************************************************************)
(* discover: a page of candidates beyond the cursor becomes tasks.         *)
(***************************************************************************)
Discover ==
  /\ \E page \in {{d \in indexed : d > cursor}} :
       /\ page # {}
       /\ task' = [d \in Debts |-> IF d \in page /\ task[d].state = "none"
                                   THEN [NoTask EXCEPT !.state = "pending", !.due = TRUE] ELSE task[d]]
       /\ cursor' = CHOOSE d \in page : \A e \in page : d >= e
  /\ UNCHANGED <<chainVars, indexed, jobs, tick, user, failures, crashes>>

\* next_check passes.
Due(d) ==
  /\ task[d].state # "none" /\ ~task[d].due
  /\ task' = [task EXCEPT ![d].due = TRUE]
  /\ UNCHANGED <<chainVars, cursor, indexed, jobs, tick, user, failures, crashes>>

\* The rows a tick may select.
Selectable(d) ==
  /\ task[d].due
  /\ task[d].state \notin {"none", "no_payout"}
  /\ task[d].state = "paid" => ~task[d].hash

\* Mutant: a task that went wrong is not taken up again.
MayProcessOnce(d) == Selectable(d) /\ task[d].state # "delayed"
MayProcess(d) == Selectable(d)

Saved(d, state) == [task EXCEPT ![d].state = state, ![d].due = FALSE]
JobLive(d) == task[d].job # 0 /\ Live(jobs[d][task[d].job])

\* process up to the enqueue: what the chain and the journal say decides.
Process(d) ==
  /\ tick = Idle
  /\ Financial < Slots
  /\ MayProcess(d)
  /\ \/ /\ pay[d].st = 2
        /\ \E shown \in {task[d].hash, TRUE} :
             task' = [Saved(d, "paid") EXCEPT ![d].attempts = pay[d].attempts, ![d].hash = shown]
        /\ UNCHANGED tick
     \/ /\ pay[d].st # 2 /\ JobLive(d)
        /\ task' = Saved(d, "processing")
        /\ UNCHANGED tick
     \/ /\ pay[d].st = 1 /\ ~JobLive(d) /\ pay[d].attempts > task[d].attempts
        /\ task' = [Saved(d, "delayed") EXCEPT ![d].attempts = pay[d].attempts]
        /\ UNCHANGED tick
     \/ /\ pay[d].st = 1 /\ ~JobLive(d) /\ pay[d].attempts <= task[d].attempts
        /\ tick' = [at |-> "enqueue", d |-> d, fn |-> "retryPayout"]
        /\ UNCHANGED task
     \/ /\ pay[d].st = 0 /\ ~JobLive(d) /\ Kind[d] # "prize" /\ over[d] /\ ~Owed[d]
        /\ task' = Saved(d, "no_payout")
        /\ UNCHANGED tick
     \/ /\ pay[d].st = 0 /\ ~JobLive(d) /\ Kind[d] # "prize" /\ over[d] /\ Owed[d]
        /\ tick' = [at |-> "enqueue", d |-> d, fn |-> IF Kind[d] = "bet" THEN "claim" ELSE "refund"]
        /\ UNCHANGED task
  /\ UNCHANGED <<chainVars, cursor, indexed, jobs, user, failures, crashes>>

ProcessEnqueue ==
  /\ tick.at = "enqueue"
  /\ \/ /\ Enqueued(tick.d, tick.fn)
        /\ tick' = [at |-> "save", d |-> tick.d, job |-> Answer(tick.d, tick.fn)]
        /\ UNCHANGED task
     \/ /\ Rejected(tick.d, tick.fn)
        /\ task' = Saved(tick.d, "delayed")
        /\ tick' = Idle
        /\ UNCHANGED jobs
  /\ UNCHANGED <<chainVars, cursor, indexed, user, failures, crashes>>

ProcessSave ==
  /\ tick.at = "save"
  /\ task' = [Saved(tick.d, IF jobs[tick.d][tick.job].status = "failed" THEN "delayed" ELSE "processing")
                EXCEPT ![tick.d].job = tick.job]
  /\ tick' = Idle
  /\ UNCHANGED <<chainVars, cursor, indexed, jobs, user, failures, crashes>>

(***************************************************************************)
(* POST /payouts/retry.                                                    *)
(***************************************************************************)
Retry(d) ==
  /\ user = Idle
  /\ task[d].state = "delayed" /\ pay[d].st = 1
  /\ user' = [at |-> "enqueue", d |-> d, attempts |-> pay[d].attempts]
  /\ UNCHANGED <<chainVars, cursor, indexed, task, jobs, tick, failures, crashes>>

RetryEnqueue ==
  /\ user.at = "enqueue"
  /\ \/ /\ Enqueued(user.d, "retryPayout")
        /\ user' = [at |-> "save", d |-> user.d, attempts |-> user.attempts,
                    job |-> Answer(user.d, "retryPayout")]
     \/ /\ Rejected(user.d, "retryPayout")
        /\ user' = Idle
        /\ UNCHANGED jobs
  /\ UNCHANGED <<chainVars, cursor, indexed, task, tick, failures, crashes>>

RetrySave ==
  /\ user.at = "save"
  /\ task' = [Saved(user.d, "processing") EXCEPT ![user.d].job = user.job,
                                                 ![user.d].attempts = user.attempts]
  /\ user' = Idle
  /\ UNCHANGED <<chainVars, cursor, indexed, jobs, tick, failures, crashes>>

Crash ==
  /\ crashes < MaxCrash
  /\ tick # Idle \/ user # Idle
  /\ crashes' = crashes + 1
  /\ tick' = Idle /\ user' = Idle
  /\ UNCHANGED <<chainVars, cursor, indexed, task, jobs, failures>>

Next ==
  \/ \E d \in Debts : Ends(d) \/ Index(d) \/ Unblock(d) \/ Due(d) \/ Process(d) \/ Retry(d)
  \/ \E d \in Debts : \E i \in 1..(MaxAttempt + MaxFailure + 2) : Execute(d, i)
  \/ Discover \/ ProcessEnqueue \/ ProcessSave \/ RetryEnqueue \/ RetrySave \/ Crash

Spec == Init /\ [][Next]_vars

\* The loops run, the journal executes its rows, matches end, and a task's turn
\* comes because ticks select by next_check.
PayoutFairness ==
  /\ WF_vars(Discover) /\ WF_vars(ProcessEnqueue) /\ WF_vars(ProcessSave)
  /\ WF_vars(RetryEnqueue) /\ WF_vars(RetrySave)
  /\ \A d \in Debts :
       /\ WF_vars(Ends(d)) /\ WF_vars(Index(d)) /\ WF_vars(Unblock(d)) /\ WF_vars(Due(d))
       /\ SF_vars(Process(d))
       /\ \A i \in 1..(MaxAttempt + MaxFailure + 2) : WF_vars(Execute(d, i))

(***************************************************************************)
(* Properties.                                                             *)
(***************************************************************************)
\* Every variable keeps its shape.
PayoutTypeOK ==
  /\ over \in [Debts -> BOOLEAN] /\ accepts \in [Debts -> BOOLEAN]
  /\ \A d \in Debts :
       /\ pay[d].st \in 0..2 /\ pay[d].attempts \in 0..MaxAttempt
       /\ task[d].state \in {"none", "pending", "processing", "delayed", "paid", "no_payout"}
       /\ task[d].job \in 0..Len(jobs[d])
  /\ tick.at \in {"idle", "enqueue", "save"} /\ user.at \in {"idle", "enqueue", "save"}

\* A debt has one job in flight at most: the worker's tick, a user's retry, a
\* failed row and a restart never put two transfers of one debt in the journal.
OneTransfer ==
  \A d \in Debts : Cardinality({i \in DOMAIN jobs[d] : Live(jobs[d][i])}) <= 1

\* What the worker reports as settled is settled: "paid" only when the chain has
\* transferred, and "no_payout" only when nothing is owed.
SettledIsTrue ==
  \A d \in Debts :
    /\ task[d].state = "paid" => pay[d].st = 2
    /\ task[d].state = "no_payout" => ~Owed[d]

\* Every debt whose recipient accepts transfers in the end is paid and reported.
Reported(d) ==
  task[d].state = IF Owed[d] \/ Kind[d] = "prize" THEN "paid" ELSE "no_payout"
DebtsPaid == \A d \in Debts : <>[]Reported(d)
=============================================================================
