----------------------------- MODULE RoomsHealth -----------------------------
(***************************************************************************)
(* How the rooms relayer decides that players may be admitted              *)
(* (relayer/src/interlude-rooms.ts: maintenance, recordPublicationFailure, *)
(* with relayer/src/rooms-publication-health.ts).  A failed publication is *)
(* an incident that survives a restart of the relayer; reading the node    *)
(* again is no proof that it recovered: the failed batch must be committed *)
(* by the node and published on the hub, or the delegation renewed.        *)
(*                                                                         *)
(* The maintenance cycle awaits the node, the hub and the database, and a  *)
(* writer's job may report a failure at each of these points.              *)
(***************************************************************************)
EXTENDS Integers, Sequences, SequencesExt

CONSTANTS MaxBatch,   \* batches of one delegation
          MaxEpoch,   \* delegations
          MaxFail,    \* failed publications
          MaxCrash    \* restarts of the relayer and failed checks

VARIABLES
  node,      \* the engine: its epoch, its committed batches, is a batch stuck
  hub,       \* the hub on Monad: epoch and published batches
  incident,  \* the relayer's open incident, in memory
  row,       \* the same in il_rooms_publication_health
  queries,   \* INSERTs and DELETEs of the row on their way to the database
  cycle,     \* the maintenance cycle: where it is, what it has read, and whether
             \* another incident replaced the one it is deleting
  svc,       \* online, admissionHealthy, may a retry be claimed, is a job pending
  open,      \* the failures reported to this process that named their batch
  faults     \* failures and crashes so far

vars == <<node, hub, incident, row, queries, cycle, svc, open, faults>>

None == [epoch |-> 0, batch |-> 0, at |-> 0]
Idle == [at |-> "idle", node |-> [epoch |-> 0, batch |-> 0], hub |-> [epoch |-> 0, batch |-> 0],
         replaced |-> FALSE, writable |-> FALSE]
Boot == [online |-> FALSE, healthy |-> FALSE, retry |-> FALSE, job |-> FALSE]

Init ==
  /\ node = [epoch |-> 1, batch |-> 0, stuck |-> FALSE]
  /\ hub = [epoch |-> 1, batch |-> 0]
  /\ incident = None /\ row = None /\ queries = <<>>
  /\ cycle = Idle /\ svc = Boot
  /\ open = {} /\ faults = [fail |-> 0, crash |-> 0]

-----------------------------------------------------------------------------
(***************************************************************************)
(* The engine and the hub.                                                 *)
(***************************************************************************)
\* A batch is committed by the node and published.
Commit ==
  /\ ~node.stuck /\ node.batch < MaxBatch /\ node.epoch = hub.epoch
  /\ node' = [node EXCEPT !.batch = @ + 1]
  /\ UNCHANGED <<hub, incident, row, queries, cycle, svc, open, faults>>
Publish ==
  /\ node.epoch = hub.epoch /\ hub.batch < node.batch
  /\ hub' = [hub EXCEPT !.batch = @ + 1]
  /\ UNCHANGED <<node, incident, row, queries, cycle, svc, open, faults>>

\* A new delegation: the hub first, then the node.
Renew ==
  /\ \/ /\ hub.epoch < MaxEpoch /\ hub.epoch = node.epoch
        /\ hub' = [epoch |-> hub.epoch + 1, batch |-> 0] /\ UNCHANGED node
     \/ /\ node.epoch < hub.epoch
        /\ node' = [epoch |-> hub.epoch, batch |-> 0, stuck |-> FALSE] /\ UNCHANGED hub
  /\ UNCHANGED <<incident, row, queries, cycle, svc, open, faults>>

-----------------------------------------------------------------------------
(***************************************************************************)
(* The incident.                                                           *)
(***************************************************************************)
Recovered(i, n, h) ==
  /\ n.epoch = h.epoch
  /\ \/ h.epoch > i.epoch /\ n.batch = h.batch
     \/ h.epoch = i.epoch /\ n.batch >= i.batch /\ h.batch >= i.batch

\* fail: the incident of this epoch keeps its batch unless the error names one,
\* and the time of its first failure.
Opened(named) ==
  LET same == incident # None /\ incident.epoch = cycle.node.epoch IN
  [epoch |-> cycle.node.epoch,
   batch |-> IF named THEN node.batch + 1 ELSE IF same THEN incident.batch ELSE cycle.node.batch + 1,
   at |-> IF same THEN incident.at ELSE faults.fail + 1]

\* A job or a check learns that the node could not publish a batch
\* (recordPublicationFailure): admissions stop at once, the row is on its way.
Fail ==
  /\ faults.fail < MaxFail /\ node.epoch = hub.epoch /\ cycle.node.epoch = node.epoch
  /\ node.batch < MaxBatch
  /\ \E named \in BOOLEAN :
       \E i \in {Opened(named)} :
         /\ incident' = i
         /\ queries' = Append(queries, [op |-> "insert", value |-> i])
         /\ open' = IF named THEN open \cup {i} ELSE open
  /\ node' = [node EXCEPT !.stuck = TRUE]
  /\ svc' = [svc EXCEPT !.online = FALSE, !.healthy = FALSE, !.retry = FALSE, !.job = TRUE]
  /\ faults' = [faults EXCEPT !.fail = @ + 1]
  /\ cycle' = [cycle EXCEPT !.replaced = TRUE]
  /\ UNCHANGED <<hub, row>>

\* The DELETE names the incident it was decided for.
Deletes(q) == row = q.value

\* The pool sends queries over several connections: an INSERT and a DELETE may
\* pass each other.  Two INSERTs, a request to the engine apart, do not.
Execute ==
  \E k \in DOMAIN queries :
    LET q == queries[k] IN
    /\ \A j \in 1..k - 1 : queries[j].op # q.op
    /\ queries' = RemoveAt(queries, k)
    /\ row' = IF q.op = "insert" THEN q.value ELSE IF Deletes(q) THEN None ELSE row
    /\ UNCHANGED <<node, hub, incident, cycle, svc, open, faults>>

-----------------------------------------------------------------------------
(***************************************************************************)
(* The maintenance cycle, every two seconds.                               *)
(***************************************************************************)
\* client.status(), then the hub's sessionOf.
ReadNode ==
  /\ cycle.at = "idle"
  /\ cycle' = [Idle EXCEPT !.at = "node", !.node = [epoch |-> node.epoch, batch |-> node.batch]]
  /\ UNCHANGED <<node, hub, incident, row, queries, svc, open, faults>>
ReadHub ==
  /\ cycle.at = "node"
  /\ cycle' = [cycle EXCEPT !.at = "hub", !.hub = hub, !.writable = cycle.node.epoch = hub.epoch]
  /\ UNCHANGED <<node, hub, incident, row, queries, svc, open, faults>>

\* observe: a recovered incident's row is deleted; the cycle awaits it.
Observe ==
  /\ cycle.at = "hub"
  /\ LET recovered == incident # None /\ cycle.writable /\ Recovered(incident, cycle.node, cycle.hub) IN
     /\ cycle' = [cycle EXCEPT !.at = IF recovered THEN "deleting" ELSE "checked",
                               !.replaced = FALSE]
     /\ queries' = IF recovered THEN Append(queries, [op |-> "delete", value |-> incident]) ELSE queries
  /\ UNCHANGED <<node, hub, incident, row, svc, open, faults>>

\* Mutant: the incident in memory is cleared though another one replaced it.
UnchangedSinceAny == TRUE
\* A failure that was reported while the DELETE was in flight stays open.
UnchangedSince == ~cycle.replaced

Deleted ==
  /\ cycle.at = "deleting" /\ \A k \in DOMAIN queries : queries[k].op # "delete"
  /\ incident' = IF UnchangedSince THEN None ELSE incident
  /\ cycle' = [cycle EXCEPT !.at = "checked"]
  /\ UNCHANGED <<node, hub, row, queries, svc, open, faults>>

\* The pending job is sent again when all is well, and every 30 seconds while
\* the incident is open (claimRetry).
MayResend(writable) == writable \/ (cycle.writable /\ incident # None /\ svc.retry)

\* The outcome of the cycle: online and admissionHealthy, and the resend, which
\* makes the node publish again what it could not.
Settle ==
  /\ cycle.at = "checked"
  /\ \E writable \in {cycle.writable /\ incident = None} :
       /\ svc' = [svc EXCEPT !.online = writable, !.healthy = writable,
                             !.retry = IF MayResend(writable) THEN FALSE ELSE @,
                             !.job = IF MayResend(writable) THEN FALSE ELSE @]
       /\ node' = IF svc.job /\ MayResend(writable) THEN [node EXCEPT !.stuck = FALSE] ELSE node
  /\ cycle' = [cycle EXCEPT !.at = "idle"]
  /\ UNCHANGED <<hub, incident, row, queries, open, faults>>

\* The check fails for another reason: admissions stop, and the page goes
\* offline when the node has not been seen for ten seconds.
CheckFails ==
  /\ cycle.at \in {"node", "hub", "checked"} /\ faults.crash < MaxCrash
  /\ \E seen \in BOOLEAN : svc' = [svc EXCEPT !.healthy = FALSE, !.online = @ /\ seen]
  /\ cycle' = [cycle EXCEPT !.at = "idle"]
  /\ faults' = [faults EXCEPT !.crash = @ + 1]
  /\ UNCHANGED <<node, hub, incident, row, queries, open>>

\* Thirty seconds pass.
RetryDue ==
  /\ incident # None /\ ~svc.retry
  /\ svc' = [svc EXCEPT !.retry = TRUE]
  /\ UNCHANGED <<node, hub, incident, row, queries, cycle, open, faults>>

\* The relayer restarts and reads the row; queries on their way may be lost.
Restart ==
  /\ faults.crash < MaxCrash
  /\ incident' = row /\ queries' = <<>>
  /\ svc' = [Boot EXCEPT !.retry = row # None, !.job = svc.job]
  /\ cycle' = Idle
  /\ open' = {i \in open : i = row}
  /\ faults' = [faults EXCEPT !.crash = @ + 1]
  /\ UNCHANGED <<node, hub, row>>

Next ==
  \/ Commit \/ Publish \/ Renew
  \/ Fail \/ Execute \/ RetryDue
  \/ ReadNode \/ ReadHub \/ Observe \/ Deleted \/ Settle \/ CheckFails
  \/ Restart

Spec == Init /\ [][Next]_vars

\* The timers fire, the database answers, and a node that may publish does.
RenewDue == node.epoch < hub.epoch /\ Renew

HealthFairness ==
  /\ WF_vars(ReadNode) /\ WF_vars(ReadHub) /\ WF_vars(Observe) /\ WF_vars(Deleted) /\ WF_vars(Settle)
  /\ WF_vars(Execute) /\ SF_vars(RetryDue)
  /\ WF_vars(Commit) /\ WF_vars(Publish) /\ WF_vars(RenewDue)
FairHealth == Spec /\ HealthFairness

-----------------------------------------------------------------------------
(***************************************************************************)
(* Properties.                                                             *)
(***************************************************************************)
\* The records have their fields.
HealthTypeOK ==
  /\ cycle.at \in {"idle", "node", "hub", "deleting", "checked"}
  /\ svc \in [online : BOOLEAN, healthy : BOOLEAN, retry : BOOLEAN, job : BOOLEAN]
  /\ hub.batch <= node.batch \/ hub.epoch # node.epoch

\* Players are admitted only when every failure this process was told of has
\* been published or belongs to a delegation that was renewed, however the
\* failure fell into the cycle that cleared an earlier one.
Admitting == svc.online /\ svc.healthy
AdmissionIsSafe ==
  Admitting => \A i \in open : hub.epoch > i.epoch \/ hub.batch >= i.batch

\* An open incident that is not recovered would be found again by a restarted
\* relayer, once its queries have been executed.
IncidentKept ==
  queries = <<>> /\ incident # None /\ row = None
    => hub.epoch > incident.epoch \/ hub.batch >= incident.batch

\* An incident does not close the arcade for good.
ArcadeReopens == []<>Admitting
=============================================================================
