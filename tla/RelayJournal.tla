---------------------------- MODULE RelayJournal ----------------------------
(***************************************************************************)
(* The sponsor's transaction journal: relayer/src/main.ts (enqueue,        *)
(* dispatch, broadcastTransactions, observeReceipts) and inputs.ts         *)
(* (accept).  Four loops and the HTTP handlers of one process share the    *)
(* table relay_jobs; the process may stop between any two awaits and start *)
(* again with nothing but the table.                                       *)
(*                                                                         *)
(* A row is named by what its id hashes: a keeper's call with, for a       *)
(* retry, the head at which it was asked for again (0 the first time); or  *)
(* an input's lane (match and player), nonce and direction.  The chain is  *)
(* external: it takes transactions in nonce order, executes a call once    *)
(* and the inputs of a lane in order, and may drop what is pending.        *)
(***************************************************************************)
EXTENDS Integers, Sequences, FiniteSets, SequencesExt

CONSTANTS Calls,         \* keeper calls: one contract function and its arguments
          Retried,       \* those whose function enqueue retries after a failure
          Late,          \* those whose function dispatch takes last
          Lanes, Dirs,
          MaxInflight,   \* 8
          MaxQueue,      \* RELAYER_QUEUE_LIMIT
          MaxInput,      \* bound: inputs per lane
          MaxHead,       \* bound: heads seen
          MaxFaults      \* bound: stops, dropped transactions, errors and refusals

ASSUME JournalAssumption ==
    /\ Retried \subseteq Calls /\ Late \subseteq Calls
    /\ MaxInflight \in Nat \ {0} /\ MaxQueue \in Nat /\ MaxInput \in Nat
    /\ MaxHead \in Nat \ {0} /\ MaxFaults \in Nat

VARIABLES
    status, nonceOf,   \* relay_jobs: status, and nonce (-1 while raw_tx is null)
    queue,             \* the queued rows by created_at
    asking,            \* rows an enqueue has checked and not yet inserted
    dispatching,       \* the row, step and nonce dispatch works on
    sending,           \* rows sent to the RPC and not yet marked
    head,              \* the last block refresh saw
    chainNonce, mempool, mined, done, slot,   \* the chain
    faults

journalVars == <<status, nonceOf, queue>>
processVars == <<asking, dispatching, sending>>
chainVars == <<chainNonce, mempool, mined, done, slot>>
vars == <<journalVars, processVars, head, chainVars, faults>>

CallRows == [call : Calls, head : 0..MaxHead]
InputRows == [lane : Lanes, nonce : 1..MaxInput, dir : Dirs]
Rows == CallRows \cup InputRows

Idle == [step |-> "idle"]
Open == {"queued", "signed", "sent"}
InFlight == {"signed", "sent"}

Init ==
    /\ status = [r \in Rows |-> "none"] /\ nonceOf = [r \in Rows |-> -1] /\ queue = <<>>
    /\ asking = {} /\ dispatching = Idle /\ sending = {}
    /\ head = 1
    /\ chainNonce = 0 /\ mempool = {} /\ mined = [r \in Rows |-> "no"]
    /\ done = {} /\ slot = [l \in Lanes |-> 0]
    /\ faults = 0

\* Faults stop at the last head: the code keeps seeing heads, the model does not.
Fault == faults < MaxFaults /\ head < MaxHead /\ faults' = faults + 1

\* The queue without the rows of S.
Dequeued(S) == SelectSeq(queue, LAMBDA q : q \notin S)

-----------------------------------------------------------------------------
(* Asking for a transaction. *)

\* The row enqueue would insert for c: the first, or one more attempt.
RowFor(c) == [call |-> c, head |-> IF status[[call |-> c, head |-> 0]] = "none" THEN 0 ELSE head]

\* A row of this id exists already, and is not a failure enqueue retries.
Settled(c) ==
    LET first == status[[call |-> c, head |-> 0]] IN
    /\ first # "none"
    /\ \/ first # "failed" \/ c \notin Retried
       \/ \E h \in 0..MaxHead : status[[call |-> c, head |-> h]] \in Open

\* enqueue up to its simulation: the call is new or retried, the queue has room
\* and the call would succeed now.
EnqueueCheck(c) ==
    /\ ~Settled(c)
    /\ Cardinality({r \in Rows : status[r] \in Open}) < MaxQueue
    /\ c \notin done
    /\ asking' = asking \cup {RowFor(c)}
    /\ UNCHANGED <<journalVars, dispatching, sending, head, chainVars, faults>>

\* INSERT ... ON CONFLICT DO NOTHING.
EnqueueInsert(r) ==
    /\ r \in asking
    /\ asking' = asking \ {r}
    /\ IF status[r] = "none"
       THEN status' = [status EXCEPT ![r] = "queued"] /\ queue' = Append(queue, r)
       ELSE UNCHANGED <<status, queue>>
    /\ UNCHANGED <<nonceOf, dispatching, sending, head, chainVars, faults>>

LaneRows(l) == {r \in InputRows : r.lane = l}

\* Mutant: the cursor trusts the slot it read and the rows in flight.
CursorFromSlot(l, seen) ==
    LET used == {seen} \cup {r.nonce : r \in {x \in LaneRows(l) : status[x] \in InFlight}}
    IN  1 + CHOOSE n \in used : \A m \in used : n >= m

\* cursor: the input nonce after what the chain was seen to hold, what the
\* journal knows to have succeeded and what is in flight.
Cursor(l, seen) ==
    LET used == {seen} \cup {r.nonce : r \in {x \in LaneRows(l) : status[x] \in InFlight \cup {"succeeded"}}}
    IN  1 + CHOOSE n \in used : \A m \in used : n >= m

\* Mutant: a newer command replaces a signed one too.
AcceptOverSigned(r, seen) ==
    /\ status[r] = "none"
    /\ r.nonce = Cursor(r.lane, seen)
    /\ LET old == {x \in LaneRows(r.lane) : status[x] \in {"queued", "signed"}} IN
       /\ status' = [x \in Rows |-> IF x = r THEN "queued"
                                    ELSE IF x \in old THEN "superseded" ELSE status[x]]
       /\ queue' = Append(Dequeued(old), r)
    /\ UNCHANGED <<nonceOf, processVars, head, chainVars, faults>>

\* accept, under the lock of the lane: a command with the next nonce replaces
\* the commands that are not signed yet.  The slot was read before the lock, at
\* any earlier time.
AcceptInput(r, seen) ==
    /\ status[r] = "none"
    /\ r.nonce = Cursor(r.lane, seen)
    /\ LET old == {x \in LaneRows(r.lane) : status[x] = "queued"} IN
       /\ status' = [x \in Rows |-> IF x = r THEN "queued"
                                    ELSE IF x \in old THEN "superseded" ELSE status[x]]
       /\ queue' = Append(Dequeued(old), r)
    /\ UNCHANGED <<nonceOf, processVars, head, chainVars, faults>>

-----------------------------------------------------------------------------
(* dispatch: one row at a time gets the next nonce of the sponsor. *)

Priority(r) == IF r \in InputRows THEN 0 ELSE IF r.call \in Late THEN 2 ELSE 1

\* A queued row none of whose lane is in flight.
Eligible(r) ==
    /\ status[r] = "queued"
    /\ r \in InputRows => \A x \in LaneRows(r.lane) : status[x] \notin InFlight

\* The first eligible row by priority, then by age.
IsNextRow(i) ==
    /\ Eligible(queue[i])
    /\ \A j \in 1..Len(queue) : Eligible(queue[j]) =>
          \/ Priority(queue[i]) < Priority(queue[j])
          \/ Priority(queue[i]) = Priority(queue[j]) /\ i <= j

DispatchSelect ==
    /\ dispatching = Idle
    /\ Cardinality({r \in Rows : status[r] \in InFlight}) < MaxInflight
    /\ \E i \in 1..Len(queue) : IsNextRow(i) /\ dispatching' = [step |-> "estimate", row |-> queue[i]]
    /\ UNCHANGED <<journalVars, asking, sending, head, chainVars, faults>>

\* What the chain would accept of row r now.
Valid(r) == IF r \in InputRows THEN r.nonce = slot[r.lane] + 1 ELSE r.call \notin done

\* getTransactionCount("pending"): the nonces mined or pending without a gap.
\* readSponsor caches it, so dispatch may see an older count.
PendingCount(n) ==
    /\ n >= chainNonce
    /\ \A k \in chainNonce..(n - 1) : \E r \in mempool : nonceOf[r] = k

\* Mutant: the pending count alone decides.
IsPendingCount(n, nextNonce) == n = nextNonce

\* max(nextNonce, reserved + 1)
IsNextNonce(n, nextNonce) ==
    LET all == {nextNonce} \cup {nonceOf[r] + 1 : r \in Rows}
    IN  n \in all /\ \A m \in all : n >= m

\* The estimate succeeds, the sponsor can pay and a nonce is chosen.
DispatchEstimate(n) ==
    /\ dispatching.step = "estimate" /\ Valid(dispatching.row)
    /\ \E count, nextNonce \in 0..Cardinality(Rows) :
           PendingCount(count) /\ nextNonce <= count /\ IsNextNonce(n, nextNonce)
    /\ dispatching' = [step |-> "sign", row |-> dispatching.row, nonce |-> n]
    /\ UNCHANGED <<journalVars, asking, sending, head, chainVars, faults>>

\* The row signed in place of r: itself, or the command that replaced it while
\* its gas was estimated, if it has the same input nonce.
Signable(r) ==
    IF status[r] = "queued" THEN {r}
    ELSE {x \in Rows : /\ status[r] = "superseded" /\ r \in InputRows /\ x \in LaneRows(r.lane)
                       /\ status[x] = "queued" /\ x.nonce = r.nonce}

\* sign and persist, under the lock of the lane.
DispatchSign(r) ==
    /\ dispatching.step = "sign" /\ r \in Signable(dispatching.row)
    /\ status' = [status EXCEPT ![r] = "signed"]
    /\ nonceOf' = [nonceOf EXCEPT ![r] = dispatching.nonce]
    /\ queue' = Dequeued({r})
    /\ dispatching' = Idle
    /\ UNCHANGED <<asking, sending, head, chainVars, faults>>

\* dispatch returns without a transaction: nothing left to sign, or (a fault) the
\* gas price, the budget or the age of the command forbids it.
DispatchSkip ==
    /\ dispatching # Idle
    /\ \/ dispatching.step = "sign" /\ Signable(dispatching.row) = {} /\ UNCHANGED faults
       \/ Fault
    /\ dispatching' = Idle
    /\ UNCHANGED <<journalVars, asking, sending, head, chainVars>>

\* The catch of dispatch: the estimate reverted, or any call threw (a fault).
DispatchFail ==
    /\ dispatching # Idle
    /\ \/ dispatching.step = "estimate" /\ ~Valid(dispatching.row) /\ UNCHANGED faults
       \/ Fault
    /\ LET r == dispatching.row IN
       IF status[r] = "queued"
       THEN status' = [status EXCEPT ![r] = "failed"] /\ queue' = Dequeued({r})
       ELSE UNCHANGED <<status, queue>>
    /\ dispatching' = Idle
    /\ UNCHANGED <<nonceOf, asking, sending, head, chainVars>>

-----------------------------------------------------------------------------
(* broadcastTransactions and observeReceipts. *)

\* sendRawTransaction of a signed row, or again of a sent one; "already known"
\* and "nonce too low" are as good as success.
BroadcastSend(r) ==
    /\ status[r] \in InFlight /\ r \notin sending
    /\ mempool' = IF nonceOf[r] < chainNonce THEN mempool ELSE mempool \cup {r}
    /\ sending' = sending \cup {r}
    /\ UNCHANGED <<journalVars, asking, dispatching, head, chainNonce, mined, done, slot, faults>>

BroadcastMark(r) ==
    /\ r \in sending
    /\ sending' = sending \ {r}
    /\ status' = [status EXCEPT ![r] = IF @ \in InFlight THEN "sent" ELSE @]
    /\ UNCHANGED <<nonceOf, queue, asking, dispatching, head, chainVars, faults>>

ObserveReceipt(r) ==
    /\ status[r] = "sent" /\ mined[r] # "no"
    /\ status' = [status EXCEPT ![r] = IF mined[r] = "ok" THEN "succeeded" ELSE "failed"]
    /\ UNCHANGED <<nonceOf, queue, processVars, head, chainVars, faults>>

-----------------------------------------------------------------------------
(* The chain and the process. *)

NewHead ==
    /\ head < MaxHead
    /\ head' = head + 1
    /\ UNCHANGED <<journalVars, processVars, chainVars, faults>>

\* The next transaction of the sponsor: it reverts if it is no longer valid (or,
\* an input and a fault, if the match ended or the command is too old).
Mine(r) ==
    /\ r \in mempool /\ nonceOf[r] = chainNonce
    /\ chainNonce' = chainNonce + 1
    /\ mempool' = mempool \ {r}
    /\ \/ /\ Valid(r)
          /\ mined' = [mined EXCEPT ![r] = "ok"]
          /\ IF r \in InputRows
             THEN slot' = [slot EXCEPT ![r.lane] = r.nonce] /\ UNCHANGED done
             ELSE done' = done \cup {r.call} /\ UNCHANGED slot
          /\ UNCHANGED faults
       \/ /\ IF Valid(r) THEN r \in InputRows /\ Fault ELSE UNCHANGED faults
          /\ mined' = [mined EXCEPT ![r] = "reverted"]
          /\ UNCHANGED <<done, slot>>
    /\ UNCHANGED <<journalVars, processVars, head>>

Drop(r) ==
    /\ r \in mempool /\ Fault
    /\ mempool' = mempool \ {r}
    /\ UNCHANGED <<journalVars, processVars, head, chainNonce, mined, done, slot>>

\* The keeper's calls are permissionless: anyone may make one directly.
OthersCall(c) ==
    /\ c \notin done
    /\ done' = done \cup {c}
    /\ UNCHANGED <<journalVars, processVars, head, chainNonce, mempool, mined, slot, faults>>

\* The process stops and starts again: the advisory lock of store.ts keeps two
\* from running, and only the journal survives.
Restart ==
    /\ Fault
    /\ asking' = {} /\ dispatching' = Idle /\ sending' = {}
    /\ UNCHANGED <<journalVars, head, chainVars>>

-----------------------------------------------------------------------------

DispatchStep ==
    \/ DispatchSelect
    \/ \E n \in 0..Cardinality(Rows) : DispatchEstimate(n)
    \/ \E r \in Rows : DispatchSign(r)
    \/ DispatchSkip
    \/ DispatchFail

InputStep == \E r \in InputRows : \E seen \in 0..slot[r.lane] : AcceptInput(r, seen)

Next ==
    \/ \E c \in Calls : EnqueueCheck(c)
    \/ \E r \in asking : EnqueueInsert(r)
    \/ InputStep
    \/ DispatchStep
    \/ \E r \in Rows : BroadcastSend(r)
    \/ \E r \in sending : BroadcastMark(r)
    \/ \E r \in Rows : ObserveReceipt(r)
    \/ NewHead
    \/ \E r \in mempool : Mine(r)
    \/ \E r \in mempool : Drop(r)
    \/ \E c \in Calls : OthersCall(c)
    \/ Restart

Spec == Init /\ [][Next]_vars

\* Every loop of the process keeps running, heads keep coming, pending
\* transactions are mined; the keeper asks for each of its calls until done.
Fairness ==
    /\ WF_vars(NewHead)
    /\ \A c \in Calls : WF_vars(EnqueueCheck(c))
    /\ \A r \in CallRows : WF_vars(EnqueueInsert(r))
    /\ WF_vars(DispatchStep)
    /\ \A r \in Rows : /\ WF_vars(BroadcastSend(r)) /\ WF_vars(BroadcastMark(r))
                       /\ WF_vars(ObserveReceipt(r)) /\ WF_vars(Mine(r))

FairSpec == Spec /\ Fairness

-----------------------------------------------------------------------------
(* Properties. *)

Signed == {r \in Rows : nonceOf[r] # -1}

\* Type invariant of the journal, the process and the chain.
TypeOK ==
    /\ status \in [Rows -> Open \cup {"none", "succeeded", "failed", "superseded"}]
    /\ nonceOf \in [Rows -> Nat \cup {-1}]
    /\ queue \in Seq(Rows)
    /\ asking \subseteq CallRows /\ sending \subseteq Rows
    /\ dispatching \in {Idle} \cup [step : {"estimate"}, row : Rows]
                              \cup [step : {"sign"}, row : Rows, nonce : Nat]
    /\ head \in 1..MaxHead /\ faults \in 0..MaxFaults
    /\ chainNonce \in Nat /\ mempool \subseteq Rows /\ mined \in [Rows -> {"no", "ok", "reverted"}]
    /\ done \subseteq Calls /\ slot \in [Lanes -> Nat]

\* The sponsor's nonces are handed out in order, one to a row, with no gap that
\* would hold up every later transaction: across restarts, a stale pending count
\* and transactions the chain dropped.
NoncesInOrder ==
    /\ \A r, x \in Signed : nonceOf[r] = nonceOf[x] => r = x
    /\ {nonceOf[r] : r \in Signed} = 0..(Cardinality(Signed) - 1)
    /\ chainNonce <= Cardinality(Signed)

\* Signed bytes are persisted before they are broadcast, and what the journal
\* says of a row is what the chain did: a success was executed, a failure was
\* not, and a replaced command or a failure without bytes never can be.
JournalIsTrue ==
    \A r \in Rows :
        /\ r \in mempool \/ mined[r] # "no" => r \in Signed
        /\ status[r] = "succeeded" => mined[r] = "ok"
        /\ status[r] = "failed" => mined[r] = IF r \in Signed THEN "reverted" ELSE "no"
        /\ status[r] \in {"none", "queued", "superseded"} => r \notin Signed

\* A lane has one transaction in flight and one command waiting, and neither
\* repeats an input the chain has executed, however stale the slot accept read.
LanesInOrder ==
    \A l \in Lanes :
        /\ Cardinality({r \in LaneRows(l) : status[r] \in InFlight}) <= 1
        /\ Cardinality({r \in LaneRows(l) : status[r] = "queued"}) <= 1
        /\ \A r \in LaneRows(l) : (status[r] \in Open /\ mined[r] = "no") => r.nonce > slot[l]

\* Every accepted row comes to an end: signed bytes survive a stop between any
\* two steps, and a dropped transaction is sent again.
Queued == \E r \in Rows : status[r] = "queued"
AllEnded == \A r \in Rows : status[r] \notin Open
RowsEnd == Queued ~> AllEnded

\* "Keeper finalizes the preceding result first" (submitReadyRoom): every call the
\* keeper asks for is made in the end.
KeeperCallsMade == \A c \in Calls : <>(c \in done)
=============================================================================
