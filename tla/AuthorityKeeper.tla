--------------------------- MODULE AuthorityKeeper ---------------------------
(***************************************************************************)
(* The contract-authority candidate's maintenance executor                 *)
(* (relayer/src/authority-keeper.ts): permissionless calls, each named by  *)
(* the cycle of the contract it was observed in, made through the          *)
(* sponsor's journal.  Within a process a request in progress is shared;   *)
(* across restarts only the journal knows what was sent.                   *)
(***************************************************************************)
EXTENDS Naturals, FiniteSets

CONSTANTS Callers,   \* parts of the process that ask for maintenance
          MaxCycle,  \* bound: cycles of the repeated task
          MaxFault,  \* bound: reverted transactions, missing sponsors
          MaxCrash   \* bound: restarts

\* A tick is repeated, once for each revision; a result is finalized once.
Kinds == {"tick", "finalizeResult"}
Limit(k) == IF k = "tick" THEN MaxCycle ELSE 1

VARIABLES cycle,    \* how far the contract is with each task
          work,     \* the request each caller waits for
          row,      \* the sponsor's journal, as last written
          live,     \* transactions that may still execute
          outcome,  \* what the last transaction of a request did
          faults, crashes

vars == <<cycle, work, row, live, outcome, faults, crashes>>

Tasks == {t \in Kinds \X (0..MaxCycle) : t[2] < Limit(t[1])}
Ids == Kinds \X (0..MaxCycle)
Idle == [at |-> "idle"]

Init ==
  /\ cycle = [k \in Kinds |-> 0]
  /\ work = [p \in Callers |-> Idle]
  /\ row = [i \in Ids |-> "missing"]
  /\ live = [i \in Ids |-> 0]
  /\ outcome = [i \in Ids |-> "missing"]
  /\ faults = 0 /\ crashes = 0

\* The identity of a request: the call and, if the task is repeated, the cycle
\* it was observed in.
RequestId(t) == IF t[1] = "tick" THEN t ELSE <<t[1], 0>>

InFlight == {work[p].id : p \in {q \in Callers : work[q] # Idle}}

\* A caller asks, for what it saw of the contract now or a cycle ago; a request
\* in progress answers it.
Ask(p, t) ==
  /\ work[p] = Idle
  /\ t[2] <= cycle[t[1]] /\ cycle[t[1]] <= t[2] + 1
  /\ RequestId(t) \notin InFlight
  /\ work' = [work EXCEPT ![p] = [at |-> "journal", id |-> RequestId(t), task |-> t]]
  /\ UNCHANGED <<cycle, row, live, outcome, faults, crashes>>

\* Only a request that was never made, or is known to have failed, goes on.
Replaceable(state) == state \in {"missing", "failed"}
Onward(p, state) ==
  work' = [work EXCEPT ![p] = IF Replaceable(state) THEN [@ EXCEPT !.at = "sponsor"] ELSE Idle]

ReadJournal(p) ==
  /\ work[p].at = "journal"
  /\ IF row[work[p].id] = "submitted"
       THEN work' = [work EXCEPT ![p].at = "reconcile"]
       ELSE Onward(p, row[work[p].id])
  /\ UNCHANGED <<cycle, row, live, outcome, faults, crashes>>

Reconcile(p) ==
  /\ work[p].at = "reconcile"
  /\ LET id == work[p].id
         state == IF live[id] > 0 THEN "submitted" ELSE outcome[id]
     IN row' = [row EXCEPT ![id] = state] /\ Onward(p, state)
  /\ UNCHANGED <<cycle, live, outcome, faults, crashes>>

Fault == faults < MaxFault /\ faults' = faults + 1

SponsorAvailable(p) ==
  /\ work[p].at = "sponsor" /\ work' = [work EXCEPT ![p].at = "simulate"]
  /\ UNCHANGED <<cycle, row, live, outcome, faults, crashes>>
WaitForSponsor(p) ==
  /\ work[p].at = "sponsor" /\ Fault /\ work' = [work EXCEPT ![p] = Idle]
  /\ UNCHANGED <<cycle, row, live, outcome, crashes>>

Accepts(t) == cycle[t[1]] = t[2]
Simulate(p) ==
  /\ work[p].at = "simulate"
  /\ work' = [work EXCEPT ![p] = IF Accepts(work[p].task) THEN [@ EXCEPT !.at = "enqueue"] ELSE Idle]
  /\ UNCHANGED <<cycle, row, live, outcome, faults, crashes>>

SponsoredEnqueue(p) ==
  /\ work[p].at = "enqueue"
  /\ row' = [row EXCEPT ![work[p].id] = "submitted"]
  /\ live' = [live EXCEPT ![work[p].id] = @ + 1]
  /\ work' = [work EXCEPT ![p] = Idle]
  /\ UNCHANGED <<cycle, outcome, faults, crashes>>

\* A transaction that executes in a later cycle does nothing there: the
\* contract refuses it, as it may refuse one of this cycle.
Execute(t) ==
  LET id == RequestId(t) IN
  /\ live[id] > 0 /\ live' = [live EXCEPT ![id] = @ - 1]
  /\ \/ /\ Accepts(t) /\ cycle' = [cycle EXCEPT ![t[1]] = @ + 1]
        /\ outcome' = [outcome EXCEPT ![id] = "confirmed"] /\ UNCHANGED faults
     \/ /\ (~Accepts(t) /\ UNCHANGED faults) \/ Fault
        /\ outcome' = [outcome EXCEPT ![id] = "failed"] /\ UNCHANGED cycle
  /\ UNCHANGED <<work, row, crashes>>

Crash ==
  /\ crashes < MaxCrash /\ crashes' = crashes + 1
  /\ work' = [p \in Callers |-> Idle]
  /\ UNCHANGED <<cycle, row, live, outcome, faults>>

Request(p) ==
  \/ ReadJournal(p) \/ Reconcile(p) \/ SponsorAvailable(p) \/ WaitForSponsor(p)
  \/ Simulate(p) \/ SponsoredEnqueue(p)
Next ==
  \/ \E p \in Callers : Request(p) \/ \E t \in Tasks : Ask(p, t)
  \/ \E t \in Tasks : Execute(t)
  \/ Crash

Spec == Init /\ [][Next]_vars

\* Each caller keeps asking for what is due, requests run to their end and sent
\* transactions are mined.
ExecutorFairness ==
  /\ \A p \in Callers : WF_vars(Request(p))
  /\ \A t \in Tasks : WF_vars(Execute(t)) /\ SF_vars(Accepts(t) /\ \E p \in Callers : Ask(p, t))
FairSpec == Spec /\ ExecutorFairness

(***************************************************************************)
(* Properties.                                                             *)
(***************************************************************************)
ExecutorTypeOK ==
  /\ \A k \in Kinds : cycle[k] \in 0..Limit(k)
  /\ \A p \in Callers : work[p] = Idle \/ work[p].task \in Tasks
  /\ row \in [Ids -> {"missing", "submitted", "confirmed", "failed"}]
  /\ outcome \in [Ids -> {"missing", "confirmed", "failed"}]

\* "A lost receipt never authorizes replacement": no request has two
\* transactions that may execute, whoever asks and whenever the process stops.
OneTransaction == \A i \in Ids : live[i] <= 1

\* "A confirmed earlier cycle must not suppress the next one": every cycle of
\* the contract is served.
Served(k) == cycle[k] = Limit(k)
CyclesServed == \A k \in Kinds : <>Served(k)
=============================================================================
