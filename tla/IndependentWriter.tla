------------------------- MODULE IndependentWriter -------------------------
(***************************************************************************)
(* The sponsor queue of the independent arcade                             *)
(* (relayer/src/independent-writer.ts).  Operations are rows of            *)
(* independent_operations; one operator account signs them, one nonce at a *)
(* time, and journals the raw bytes in il_lifecycle_jobs before sending.   *)
(* The rooms lifecycle service signs with the same account and journals in *)
(* the same table.  Intake, dispatch and observation are separate pumps    *)
(* whose statements interleave, and the process may stop between any two.  *)
(*                                                                         *)
(* A call is the calldata, a context distinguishes requests for the same   *)
(* calldata: their identifiers differ, their bytes do not.                 *)
(***************************************************************************)
EXTENDS Naturals, FiniteSets

CONSTANTS Calls, Contexts,
          MaxQueue,   \* unsigned rows admitted (two hundred)
          MaxNonce, MaxCrash,
          MaxOther    \* transactions of the other service

VARIABLES rows,     \* independent_operations: id -> status and whether hash is set
          journal,  \* il_lifecycle_jobs: id -> nonce and status
          chain,    \* next nonce, and the journal ids executed, in order of nonce
          intake,   \* an enqueue past its simulation
          pump,     \* dispatch, between two statements
          watch,    \* observe, between two statements
          crashes, others

vars == <<rows, journal, chain, intake, pump, watch, crashes, others>>

Ids == Calls \X Contexts
Other == {<<"other", n>> : n \in 1..MaxOther}
Idle == [at |-> "idle"]
NoRow == [status |-> "none", hash |-> FALSE]
NoJob == [status |-> "none", nonce |-> 0]

Init ==
  /\ rows = [i \in Ids |-> NoRow]
  /\ journal = [j \in Ids \cup Other |-> NoJob]
  /\ chain = [next |-> 0, done |-> [n \in 0..(MaxNonce - 1) |-> <<>>]]
  /\ intake = Idle /\ pump = Idle /\ watch = Idle
  /\ crashes = 0 /\ others = 0

Queued == {i \in Ids : rows[i].status = "queued"}
InFlight(call) == {i \in Ids : i[1] = call /\ rows[i].status \in {"queued", "pending"}}
PendingJobs == {j \in DOMAIN journal : journal[j].status = "pending"}

(***************************************************************************)
(* enqueue: look for the row, simulate, then insert in one transaction     *)
(* that looks again.  An answer from an existing row changes nothing.      *)
(***************************************************************************)
Enqueue(id) ==
  /\ intake = Idle
  /\ rows[id] = NoRow /\ InFlight(id[1]) = {} /\ Cardinality(Queued) < MaxQueue
  /\ intake' = [at |-> "insert", id |-> id]
  /\ UNCHANGED <<rows, journal, chain, pump, watch, crashes, others>>

Admitted(id) == rows[id] = NoRow /\ InFlight(id[1]) = {} /\ Cardinality(Queued) < MaxQueue

EnqueueInsert ==
  /\ intake.at = "insert"
  /\ rows' = IF Admitted(intake.id) THEN [rows EXCEPT ![intake.id].status = "queued"] ELSE rows
  /\ intake' = Idle
  /\ UNCHANGED <<journal, chain, pump, watch, crashes, others>>

\* A second request completes its whole intake while one is being simulated.
EnqueueBeside(id) ==
  /\ intake # Idle
  /\ rows[id] = NoRow /\ InFlight(id[1]) = {} /\ Cardinality(Queued) < MaxQueue
  /\ rows' = [rows EXCEPT ![id].status = "queued"]
  /\ UNCHANGED <<journal, chain, intake, pump, watch, crashes, others>>

(***************************************************************************)
(* dispatch, under the signing lock: resend the oldest pending bytes, or   *)
(* sign the next row at the chain's nonce.  (The comparison of the pending  *)
(* with the latest transaction count can only refuse more.)                *)
(***************************************************************************)
\* Mutant: a pending journal row does not hold the queue back.
MaySignAnyway == TRUE
MaySign == PendingJobs = {}

Dispatch(id) ==
  /\ pump = Idle
  /\ MaySign
  /\ id \in Queued
  /\ \/ pump' = [at |-> "journal", id |-> id, nonce |-> chain.next]
        /\ UNCHANGED rows
     \* The simulation before signing is a confirmed revert.
     \/ rows' = [rows EXCEPT ![id].status = "failed"]
        /\ UNCHANGED pump
  /\ UNCHANGED <<journal, chain, intake, watch, crashes, others>>

MayJournal(id) == journal[id] = NoJob

\* The primary key of the journal refuses a second signature for one row.
DispatchJournal ==
  /\ pump.at = "journal"
  /\ IF MayJournal(pump.id)
     THEN /\ journal' = [journal EXCEPT ![pump.id] = [status |-> "pending", nonce |-> pump.nonce]]
          /\ pump' = [pump EXCEPT !.at = "mark"]
     ELSE /\ pump' = Idle
          /\ UNCHANGED journal
  /\ UNCHANGED <<rows, chain, intake, watch, crashes, others>>

DispatchMark ==
  /\ pump.at = "mark"
  /\ rows' = [rows EXCEPT ![pump.id] = [status |-> "pending", hash |-> TRUE]]
  /\ pump' = Idle
  /\ UNCHANGED <<journal, chain, intake, watch, crashes, others>>

\* Bytes are sent after the row is marked, or again by a later dispatch, and
\* execute once by nonce.
Execute(j) ==
  /\ ~(pump.at = "mark" /\ pump.id = j)
  /\ journal[j].status = "pending" /\ journal[j].nonce = chain.next
  /\ chain.next < MaxNonce
  /\ \E ok \in BOOLEAN :
       chain' = [next |-> chain.next + 1, done |-> [chain.done EXCEPT ![chain.next] = <<j, ok>>]]
  /\ UNCHANGED <<rows, journal, intake, pump, watch, crashes, others>>

\* The rooms lifecycle service signs under the same lock.
OtherSigns ==
  /\ pump = Idle /\ others < MaxOther
  /\ PendingJobs = {}
  /\ others' = others + 1
  /\ journal' = [journal EXCEPT ![<<"other", others + 1>>] = [status |-> "pending", nonce |-> chain.next]]
  /\ UNCHANGED <<rows, chain, intake, pump, watch, crashes>>

(***************************************************************************)
(* observe: receipts settle the journal, then the row by its hash, and     *)
(* last every row by its journal identifier.                               *)
(***************************************************************************)
Receipt(j) == journal[j].nonce < chain.next /\ chain.done[journal[j].nonce][1] = j
Outcome(j) == IF chain.done[journal[j].nonce][2] THEN "confirmed" ELSE "failed"

ObserveJournal(j) ==
  /\ watch = Idle
  /\ journal[j].status = "pending" /\ Receipt(j)
  /\ journal' = [journal EXCEPT ![j].status = Outcome(j)]
  /\ watch' = [at |-> "row", id |-> j, status |-> Outcome(j)]
  /\ UNCHANGED <<rows, chain, intake, pump, crashes, others>>

ObserveRow ==
  /\ watch.at = "row"
  /\ rows' = IF watch.id \in Ids /\ rows[watch.id].hash /\ rows[watch.id].status = "pending"
             THEN [rows EXCEPT ![watch.id].status = watch.status] ELSE rows
  /\ watch' = [at |-> "join"]
  /\ UNCHANGED <<journal, chain, intake, pump, crashes, others>>

Joined(i) == rows[i].status \in {"queued", "pending"} /\ journal[i] # NoJob

ObserveJoin ==
  /\ watch.at = "join" \/ (watch = Idle /\ \E i \in Ids : Joined(i) /\ rows[i].status # journal[i].status)
  /\ rows' = [i \in Ids |-> IF Joined(i) THEN [status |-> journal[i].status, hash |-> TRUE] ELSE rows[i]]
  /\ watch' = Idle
  /\ UNCHANGED <<journal, chain, intake, pump, crashes, others>>

Crash ==
  /\ crashes < MaxCrash
  /\ crashes' = crashes + 1
  /\ intake' = Idle /\ pump' = Idle /\ watch' = Idle
  /\ UNCHANGED <<rows, journal, chain, others>>

Next ==
  \/ \E id \in Ids : Enqueue(id) \/ EnqueueBeside(id) \/ Dispatch(id)
  \/ EnqueueInsert \/ DispatchJournal \/ DispatchMark
  \/ \E j \in DOMAIN journal : Execute(j) \/ ObserveJournal(j)
  \/ OtherSigns \/ ObserveRow \/ ObserveJoin \/ Crash

Spec == Init /\ [][Next]_vars

\* The pumps run on timers and the chain includes what is sent to it.
WriterFairness ==
  /\ WF_vars(DispatchJournal) /\ WF_vars(DispatchMark) /\ WF_vars(ObserveRow) /\ WF_vars(ObserveJoin)
  /\ \A id \in Ids : SF_vars(Dispatch(id))
  /\ \A j \in Ids \cup Other : WF_vars(Execute(j)) /\ SF_vars(ObserveJournal(j))

(***************************************************************************)
(* Properties.                                                             *)
(***************************************************************************)
\* Every variable keeps its shape.
WriterTypeOK ==
  /\ \A i \in Ids : rows[i].status \in {"none", "queued", "pending", "confirmed", "failed"}
  /\ \A j \in DOMAIN journal : journal[j].status \in {"none", "pending", "confirmed", "failed"}
                               /\ journal[j].nonce \in 0..MaxNonce
  /\ chain.next \in 0..MaxNonce

\* An operation is executed once: whatever the process forgets between signing,
\* marking and observing, its row is never signed a second time.
SponsoredOnce ==
  \A n, k \in 0..(MaxNonce - 1) :
    n < k /\ k < chain.next => chain.done[n][1] # chain.done[k][1]

\* The same calldata is not in flight twice, though two contexts asked for it at
\* the same time (the transaction of enqueue).
OneInFlight == \A call \in Calls : Cardinality(InFlight(call)) <= 1

\* Two journal rows never hold one nonce of the shared operator account.
NonceHeldOnce ==
  \A j, k \in PendingJobs : j # k => journal[j].nonce # journal[k].nonce

\* Every admitted operation is confirmed or failed in the end, also when the
\* process stopped between journaling the bytes and marking the row.
Admits(id) == rows[id].status = "queued"
Ended(id) == rows[id].status \in {"confirmed", "failed"}
OperationsEnd == \A id \in Ids : Admits(id) ~> Ended(id)
=============================================================================
