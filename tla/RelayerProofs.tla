---------------------------- MODULE RelayerProofs ----------------------------
(***************************************************************************)
(* Proofs about the loops of the relayer that stand on their own: when     *)
(* admissions are safe (RoomsHealth), one transfer of a debt at a time     *)
(* (PayoutWorker), the sponsor queue's journal (IndependentWriter), the    *)
(* maintenance executor (AuthorityKeeper), the settlement of the rooms'    *)
(* market (RoomsSettlement), the pressure of a rally (RoomsPressure) and   *)
(* the matchmaking of the arcade (Matchmaking).                            *)
(***************************************************************************)
EXTENDS Integers, Sequences, FiniteSetTheorems, WellFoundedInduction, TLAPS

CONSTANTS MaxBatch, MaxEpoch, MaxFail, MaxRestart,
          Debts, Kind, Owed, Slots, MaxAttempt, MaxFailure, MaxStop,
          Calls, Contexts, MaxQueue, MaxNonce, MaxOther, MaxHalt,
          Callers, MaxCycle, MaxFault, MaxRevival,
          Matches, Players, Page, Attempts, Scan, Early, MaxDeployment, MaxSession, MaxSlips,
          Workers, MaxRally, WindowBlocks, ConfirmationBlocks, MaxDepth, MaxReorgs, MaxRollbacks, MaxStops,
          Pairable, MaxPair, MaxTicket, MaxInvite, MaxBusy, MaxOutage

VARIABLES node, hub, incident, row, queries, cycle, svc, open, faults,
          over, pay, accepts, cursor, indexed, task, jobs, tick, user, failures,
          crashes,
          rows, journal, chain, intake, pump, watch, others, halts,
          turn, work, sent, live, outcome, refusals, revivals,
          session, match, pos, paidOut, log, calls, bettors, scanned, binding, active, asked, audit,
          renewing, slips,
          blocks, highest, minted, opening, engine, pub, table, signed, worker, troubles,
          waiting, pairs, creations, invited, playing, games, unfinished, doing, outages

Health == INSTANCE RoomsHealth WITH MaxCrash <- MaxRestart
Payouts == INSTANCE PayoutWorker WITH MaxCrash <- MaxStop
Writer == INSTANCE IndependentWriter WITH MaxCrash <- MaxHalt, crashes <- halts
Executor == INSTANCE AuthorityKeeper WITH MaxCrash <- MaxRevival,
              cycle <- turn, row <- sent, faults <- refusals, crashes <- revivals
Settlement == INSTANCE RoomsSettlement WITH MaxEpoch <- MaxSession, MaxFaults <- MaxSlips,
                hub <- session, pay <- paidOut, jobs <- calls, rows <- bettors, cursor <- scanned,
                faults <- slips
Pressure == INSTANCE RoomsPressure WITH chain <- blocks, faults <- troubles
Matching == INSTANCE Matchmaking WITH Players <- Pairable, MaxRoom <- MaxPair,
              MaxChallenge <- MaxInvite, Arenas <- MaxBusy, MaxCrash <- MaxOutage,
              queue <- waiting, rooms <- pairs, jobs <- creations, challenges <- invited,
              active <- playing, created <- games, seen <- unfinished, op <- doing,
              crashes <- outages

-----------------------------------------------------------------------------
(***************************************************************************)
(* Publication health.                                                     *)
(***************************************************************************)
Position == [epoch : Nat, batch : Nat]
Incident == [epoch : Nat, batch : Nat, at : Nat]
Query == [op : {"insert", "delete"}, value : Incident]

Node == [epoch : Nat, batch : Nat, stuck : BOOLEAN]
Cycle == [at : {"idle", "node", "hub", "deleting", "checked"}, node : Position,
          hub : Position, replaced : BOOLEAN, writable : BOOLEAN]
Flags == [online : BOOLEAN, healthy : BOOLEAN, retry : BOOLEAN, job : BOOLEAN]
Counts == [fail : Nat, crash : Nat]

\* The node, the hub, the incident and its row, the cycle and the flags keep
\* their shapes.
HealthTypes ==
  /\ node \in Node /\ hub \in Position
  /\ incident \in Incident /\ row \in Incident /\ open \subseteq Incident
  /\ queries \in Seq(Query)
  /\ cycle \in Cycle /\ svc \in Flags /\ faults \in Counts

\* With the hub at h, the batch of an incident is good again or its delegation
\* was renewed.
Good(i, h) == h.epoch > i.epoch \/ h.batch >= i.batch

\* Nothing the relayer has read or been told of is ahead of the hub's epoch, and
\* a batch that failed by name is not beyond the node's next one.
BehindHub ==
  /\ node.epoch <= hub.epoch
  /\ cycle.hub.epoch <= hub.epoch
  /\ cycle.hub.epoch = hub.epoch => cycle.hub.batch <= hub.batch
  /\ incident.epoch <= hub.epoch /\ row.epoch <= hub.epoch
  /\ \A k \in DOMAIN queries : queries[k].value.epoch <= hub.epoch
  /\ \A i \in open : /\ i # Health!None /\ i.epoch <= node.epoch
                     /\ i.epoch = node.epoch => i.batch <= node.batch + 1

\* The open incident stands for every failure reported by name that is not good
\* again.
Covered ==
  \A i \in open : \/ Good(i, hub)
                  \/ /\ incident # Health!None
                     /\ i.epoch = incident.epoch /\ i.batch <= incident.batch

\* The cycle forgets only an incident that is over, and so does the database.
Clearing == cycle.at = "deleting" /\ ~cycle.replaced => Good(incident, hub)
DeletesAreDue ==
  \A k \in DOMAIN queries : queries[k].op = "delete" => Good(queries[k].value, hub)

\* The open incident is the last row on its way to the database, or the row there
\* unless it is over.
Inserts(line) == {k \in DOMAIN line : line[k].op = "insert"}
LastInsert(line, i) == \E k \in Inserts(line) : line[k].value = i /\ \A j \in Inserts(line) : j <= k
RowFollows ==
  incident # Health!None =>
    \/ LastInsert(queries, incident)
    \/ Inserts(queries) = {} /\ (row = incident \/ Good(incident, hub))

HealthInv ==
  /\ HealthTypes /\ BehindHub /\ Covered /\ Clearing /\ DeletesAreDue /\ RowFollows
  /\ Health!AdmissionIsSafe

\* A relayer that starts knows of no failure.
LEMMA HealthInit == Health!Init => HealthInv
<1> SUFFICES ASSUME Health!Init PROVE HealthInv
    OBVIOUS
<1>1. HealthTypes
    BY DEF Health!Init, Health!None, Health!Idle, Health!Boot, HealthTypes, Position, Incident, Node,
              Cycle, Flags, Counts
<1>2. BehindHub
    BY DEF Health!Init, Health!Idle, Health!None, BehindHub
<1>3. Covered /\ Clearing /\ DeletesAreDue /\ RowFollows
    BY DEF Health!Init, Health!Idle, Health!None, Covered, Clearing, DeletesAreDue, RowFollows
<1>4. Health!AdmissionIsSafe
    BY DEF Health!Init, Health!Boot, Health!AdmissionIsSafe, Health!Admitting
<1> QED BY <1>1, <1>2, <1>3, <1>4 DEF HealthInv

\* What is left of a queue once its k-th query has been executed.
LEMMA RemoveFacts ==
    ASSUME NEW S, NEW line \in Seq(S), NEW k \in 1..Len(line)
    PROVE  /\ Health!RemoveAt(line, k) \in Seq(S) /\ Len(Health!RemoveAt(line, k)) = Len(line) - 1
           /\ \A j \in 1..Len(line) - 1 :
                  Health!RemoveAt(line, k)[j] = IF j < k THEN line[j] ELSE line[j + 1]
<1> DEFINE before == SubSeq(line, 1, k - 1)
           after == SubSeq(line, k + 1, Len(line))
<1>1. /\ before \in Seq(S) /\ Len(before) = k - 1
      /\ \A j \in 1..k - 1 : before[j] = line[j]
    OBVIOUS
<1>2. /\ after \in Seq(S) /\ Len(after) = Len(line) - k
      /\ \A j \in 1..Len(line) - k : after[j] = line[k + j]
    OBVIOUS
<1>3. Health!RemoveAt(line, k) = before \o after
    BY DEF Health!RemoveAt
<1> HIDE DEF before, after
<1>4. before \o after \in Seq(S) /\ Len(before \o after) = Len(line) - 1
    BY <1>1, <1>2
<1>5. \A j \in 1..Len(line) - 1 :
          (before \o after)[j] = IF j < k THEN before[j] ELSE after[j - (k - 1)]
    BY <1>1, <1>2
<1>6. ASSUME NEW j \in 1..Len(line) - 1, j >= k PROVE after[j - (k - 1)] = line[j + 1]
    <2>1. j - (k - 1) \in 1..Len(line) - k /\ k + (j - (k - 1)) = j + 1
        BY <1>6
    <2> QED BY <1>2, <2>1
<1> QED BY <1>1, <1>3, <1>4, <1>5, <1>6

\* Every step keeps the shapes.
LEMMA HealthStepTypes == HealthTypes /\ Health!Next => HealthTypes'
<1> SUFFICES ASSUME HealthTypes, Health!Next PROVE HealthTypes'
    OBVIOUS
<1>0. /\ node \in Node /\ hub \in Position
      /\ incident \in Incident /\ row \in Incident /\ open \subseteq Incident
      /\ queries \in Seq(Query)
      /\ cycle \in Cycle /\ svc \in Flags /\ faults \in Counts
    BY DEF HealthTypes
<1>a. Health!None \in Incident
    BY DEF Health!None, Incident
<1>1. CASE Health!Commit
    <2>1. node' \in Node
        BY <1>0, <1>1 DEF Health!Commit, Node
    <2> QED BY <1>0, <1>1, <2>1 DEF Health!Commit, HealthTypes
<1>2. CASE Health!Publish
    <2>1. hub' \in Position
        BY <1>0, <1>2 DEF Health!Publish, Position
    <2> QED BY <1>0, <1>2, <2>1 DEF Health!Publish, HealthTypes
<1>3. CASE Health!Renew
    <2>1. hub.epoch \in Nat
        BY <1>0 DEF Position
    <2>2. [epoch |-> hub.epoch, batch |-> 0, stuck |-> FALSE] \in Node
        BY <2>1 DEF Node
    <2>3. [epoch |-> hub.epoch + 1, batch |-> 0] \in Position
        BY <2>1 DEF Position
    <2> QED BY <1>0, <1>3, <2>2, <2>3 DEF Health!Renew, HealthTypes
<1>4. CASE Health!Fail
    <2>1. PICK named \in BOOLEAN : \E i \in {Health!Opened(named)} :
              /\ incident' = i
              /\ queries' = Append(queries, [op |-> "insert", value |-> i])
              /\ open' = IF named THEN open \cup {i} ELSE open
        BY <1>4 DEF Health!Fail
    <2>2. Health!Opened(named) \in Incident
        <3>1. /\ cycle.node.epoch \in Nat /\ cycle.node.batch \in Nat /\ node.batch \in Nat
              /\ incident.batch \in Nat /\ incident.at \in Nat /\ faults.fail \in Nat
            BY <1>0 DEF Cycle, Position, Node, Incident, Counts
        <3> QED BY <3>1 DEF Health!Opened, Incident
    <2>3. [op |-> "insert", value |-> Health!Opened(named)] \in Query
        BY <2>2 DEF Query
    <2>4. queries' \in Seq(Query) /\ incident' \in Incident /\ open' \subseteq Incident
        BY <1>0, <2>1, <2>2, <2>3
    <2>5. node' \in Node
        BY <1>0, <1>4 DEF Health!Fail, Node
    <2>6. svc' \in Flags
        BY <1>0, <1>4 DEF Health!Fail, Flags
    <2>7. faults' \in Counts
        BY <1>0, <1>4 DEF Health!Fail, Counts
    <2>8. cycle' \in Cycle
        BY <1>0, <1>4 DEF Health!Fail, Cycle
    <2> QED BY <1>0, <1>4, <2>4, <2>5, <2>6, <2>7, <2>8 DEF Health!Fail, HealthTypes
<1>5. CASE Health!Execute
    <2>1. PICK k \in DOMAIN queries :
              /\ queries' = Health!RemoveAt(queries, k)
              /\ row' = IF queries[k].op = "insert" THEN queries[k].value
                        ELSE IF Health!Deletes(queries[k]) THEN Health!None ELSE row
              /\ UNCHANGED <<node, hub, incident, cycle, svc, open, faults>>
        BY <1>5 DEF Health!Execute
    <2>2. queries' \in Seq(Query)
        <3>1. k \in 1..Len(queries)
            BY <1>0
        <3> QED BY <1>0, <2>1, <3>1, RemoveFacts
    <2>3. queries[k].value \in Incident
        <3>1. queries[k] \in Query
            BY <1>0
        <3> QED BY <3>1 DEF Query
    <2> QED BY <1>0, <1>a, <2>1, <2>2, <2>3 DEF HealthTypes
<1>6. CASE Health!RetryDue
    <2>1. svc' \in Flags
        BY <1>0, <1>6 DEF Health!RetryDue, Flags
    <2> QED BY <1>0, <1>6, <2>1 DEF Health!RetryDue, HealthTypes
<1>7. CASE Health!ReadNode
    <2>1. [epoch |-> node.epoch, batch |-> node.batch] \in Position
        BY <1>0 DEF Node, Position
    <2>2. Health!Idle \in Cycle
        BY DEF Health!Idle, Cycle, Position
    <2>3. cycle' \in Cycle
        BY <1>7, <2>1, <2>2 DEF Health!ReadNode, Cycle
    <2> QED BY <1>0, <1>7, <2>3 DEF Health!ReadNode, HealthTypes
<1>8. CASE Health!ReadHub
    <2>1. cycle' \in Cycle
        BY <1>0, <1>8 DEF Health!ReadHub, Cycle
    <2> QED BY <1>0, <1>8, <2>1 DEF Health!ReadHub, HealthTypes
<1>9. CASE Health!Observe
    <2>1. [op |-> "delete", value |-> incident] \in Query
        BY <1>0 DEF Query
    <2>2. queries' \in Seq(Query)
        BY <1>0, <1>9, <2>1 DEF Health!Observe
    <2>3. cycle' \in Cycle
        BY <1>0, <1>9 DEF Health!Observe, Cycle
    <2> QED BY <1>0, <1>9, <2>2, <2>3 DEF Health!Observe, HealthTypes
<1>10. CASE Health!Deleted
    <2>1. cycle' \in Cycle
        BY <1>0, <1>10 DEF Health!Deleted, Cycle
    <2> QED BY <1>0, <1>a, <1>10, <2>1 DEF Health!Deleted, HealthTypes
<1>11. CASE Health!Settle
    <2>1. svc' \in Flags
        BY <1>0, <1>11 DEF Health!Settle, Flags
    <2>2. node' \in Node
        BY <1>0, <1>11 DEF Health!Settle, Node
    <2>3. cycle' \in Cycle
        BY <1>0, <1>11 DEF Health!Settle, Cycle
    <2> QED BY <1>0, <1>11, <2>1, <2>2, <2>3 DEF Health!Settle, HealthTypes
<1>12. CASE Health!CheckFails
    <2>1. svc' \in Flags
        BY <1>0, <1>12 DEF Health!CheckFails, Flags
    <2>2. cycle' \in Cycle
        BY <1>0, <1>12 DEF Health!CheckFails, Cycle
    <2>3. faults' \in Counts
        BY <1>0, <1>12 DEF Health!CheckFails, Counts
    <2> QED BY <1>0, <1>12, <2>1, <2>2, <2>3 DEF Health!CheckFails, HealthTypes
<1>13. CASE Health!Restart
    <2>1. svc' \in Flags
        BY <1>0, <1>13 DEF Health!Restart, Health!Boot, Flags
    <2>2. Health!Idle \in Cycle
        BY DEF Health!Idle, Cycle, Position
    <2>3. faults' \in Counts
        BY <1>0, <1>13 DEF Health!Restart, Counts
    <2> QED BY <1>0, <1>13, <2>1, <2>2, <2>3 DEF Health!Restart, HealthTypes
<1> QED BY <1>1, <1>2, <1>3, <1>4, <1>5, <1>6, <1>7, <1>8, <1>9, <1>10, <1>11, <1>12, <1>13
        DEF Health!Next

\* The hub and the node only go on, and the node is never ahead of the hub.
LEMMA MovesOn ==
    ASSUME HealthTypes, BehindHub, Health!Next
    PROVE  /\ hub'.epoch > hub.epoch \/ (hub'.epoch = hub.epoch /\ hub'.batch >= hub.batch)
           /\ node'.epoch > node.epoch \/ (node'.epoch = node.epoch /\ node'.batch >= node.batch)
           /\ node'.epoch <= hub'.epoch
<1>0. /\ node.epoch \in Nat /\ node.batch \in Nat /\ hub.epoch \in Nat /\ hub.batch \in Nat
      /\ node.epoch <= hub.epoch /\ node \in Node /\ hub \in Position
    BY DEF HealthTypes, Node, Position, BehindHub
<1>1. CASE UNCHANGED <<node, hub>>
    BY <1>0, <1>1
<1>2. CASE Health!Commit
    BY <1>0, <1>2 DEF Health!Commit, Node
<1>3. CASE Health!Publish
    BY <1>0, <1>3 DEF Health!Publish, Position
<1>4. CASE Health!Renew
    BY <1>0, <1>4 DEF Health!Renew
<1>5. CASE UNCHANGED hub /\ \E b \in BOOLEAN : node' = [node EXCEPT !.stuck = b]
    BY <1>0, <1>5 DEF Node
<1>6. CASE Health!Fail \/ Health!Settle
    <2>1. UNCHANGED hub /\ (node' = node \/ \E b \in BOOLEAN : node' = [node EXCEPT !.stuck = b])
        BY <1>6 DEF Health!Fail, Health!Settle
    <2> QED BY <1>1, <1>5, <2>1
<1>7. CASE Health!Execute \/ Health!RetryDue \/ Health!ReadNode \/ Health!ReadHub
           \/ Health!Observe \/ Health!Deleted \/ Health!CheckFails \/ Health!Restart
    BY <1>1, <1>7 DEF Health!Execute, Health!RetryDue, Health!ReadNode, Health!ReadHub,
                      Health!Observe, Health!Deleted, Health!CheckFails, Health!Restart
<1> QED BY <1>2, <1>3, <1>4, <1>6, <1>7 DEF Health!Next

\* What is good again stays good.
LEMMA GoodStays ==
    ASSUME HealthTypes, BehindHub, Health!Next, NEW i \in Incident, i.epoch <= hub.epoch, Good(i, hub)
    PROVE  Good(i, hub')
<1>1. /\ hub.epoch \in Nat /\ hub.batch \in Nat /\ i.epoch \in Nat /\ i.batch \in Nat
    BY DEF HealthTypes, Position, Incident
<1>2. hub'.epoch \in Nat /\ hub'.batch \in Nat
    BY HealthStepTypes DEF HealthTypes, Position
<1> QED BY <1>1, <1>2, MovesOn DEF Good

\* The steps that touch neither the incident nor its row, and what they do to the
\* cycle; the others by name.
LEMMA HealthSteps ==
    ASSUME HealthTypes, Health!Next
    PROVE  \/ /\ UNCHANGED <<incident, row, queries, open>>
              /\ \/ UNCHANGED cycle
                 \/ cycle'.at # "deleting"
           \/ Health!Fail \/ Health!Execute \/ Health!Observe \/ Health!Deleted \/ Health!Restart
<1>1. CASE Health!Commit \/ Health!Publish \/ Health!Renew \/ Health!RetryDue
    BY <1>1 DEF Health!Commit, Health!Publish, Health!Renew, Health!RetryDue
<1>2. CASE Health!ReadNode \/ Health!ReadHub \/ Health!Settle \/ Health!CheckFails
    <2>1. UNCHANGED <<incident, row, queries, open>>
        BY <1>2 DEF Health!ReadNode, Health!ReadHub, Health!Settle, Health!CheckFails
    <2>2. cycle \in Cycle
        BY DEF HealthTypes
    <2>3. CASE Health!ReadNode
        BY <2>1, <2>3 DEF Health!ReadNode, Health!Idle
    <2>4. CASE Health!ReadHub
        BY <2>1, <2>2, <2>4 DEF Health!ReadHub, Cycle
    <2>5. CASE Health!Settle
        BY <2>1, <2>2, <2>5 DEF Health!Settle, Cycle
    <2>6. CASE Health!CheckFails
        BY <2>1, <2>2, <2>6 DEF Health!CheckFails, Cycle
    <2> QED BY <1>2, <2>3, <2>4, <2>5, <2>6
<1> QED BY <1>1, <1>2 DEF Health!Next

\* Every step keeps what the relayer knows behind the hub.
LEMMA BehindStep ==
    ASSUME HealthTypes, BehindHub, Health!Next
    PROVE  BehindHub'
<1> DEFINE Behind(i) == i.epoch <= hub'.epoch
           Named(i) == /\ i # Health!None /\ i.epoch <= node'.epoch
                       /\ i.epoch = node'.epoch => i.batch <= node'.batch + 1
<1>0. /\ node \in Node /\ hub \in Position /\ incident \in Incident /\ row \in Incident
      /\ open \subseteq Incident /\ queries \in Seq(Query) /\ cycle \in Cycle /\ faults \in Counts
    BY DEF HealthTypes
<1>a. node' \in Node /\ hub' \in Position
    BY HealthStepTypes DEF HealthTypes
<1>b. /\ node.epoch \in Nat /\ node.batch \in Nat /\ hub.epoch \in Nat /\ hub.batch \in Nat
      /\ node'.epoch \in Nat /\ node'.batch \in Nat /\ hub'.epoch \in Nat /\ hub'.batch \in Nat
    BY <1>0, <1>a DEF Node, Position
<1>c. hub.epoch <= hub'.epoch /\ node'.epoch <= hub'.epoch
    BY <1>b, MovesOn
<1>d. ASSUME NEW i \in Incident PROVE i.epoch \in Nat /\ i.batch \in Nat
    BY DEF Incident
<1>e. Behind(incident) /\ Behind(row)
    BY <1>0, <1>b, <1>c, <1>d DEF BehindHub
<1>f. Behind(Health!None)
    BY <1>b DEF Health!None
<1>g. ASSUME NEW k \in DOMAIN queries PROVE queries[k].value \in Incident
    <2>1. queries[k] \in Query
        BY <1>0
    <2> QED BY <2>1 DEF Query
<1>h. \A k \in DOMAIN queries : Behind(queries[k].value)
    BY <1>b, <1>c, <1>d, <1>g DEF BehindHub
<1>i. ASSUME NEW i \in open PROVE Named(i)
    <2>1. i \in Incident /\ i # Health!None /\ i.epoch <= node.epoch
          /\ (i.epoch = node.epoch => i.batch <= node.batch + 1)
        BY <1>0 DEF BehindHub
    <2> QED BY <1>b, <1>d, <2>1, MovesOn
<1>j. /\ cycle'.hub.epoch <= hub'.epoch
      /\ cycle'.hub.epoch = hub'.epoch => cycle'.hub.batch <= hub'.batch
    <2>1. cycle'.hub \in {cycle.hub, hub, [epoch |-> 0, batch |-> 0]}
        <3>1. CASE cycle'.hub = cycle.hub
            BY <3>1
        <3>6. /\ Health!Idle.hub = [epoch |-> 0, batch |-> 0]
              /\ [Health!Idle EXCEPT !.at = "node", !.node = [epoch |-> node.epoch, batch |-> node.batch]].hub
                   = Health!Idle.hub
            BY DEF Health!Idle
        <3>2. CASE Health!ReadNode \/ Health!Restart
            BY <3>2, <3>6 DEF Health!ReadNode, Health!Restart
        <3>3. CASE Health!ReadHub
            BY <1>0, <3>3 DEF Health!ReadHub, Cycle
        <3>4. CASE Health!Commit \/ Health!Publish \/ Health!Renew \/ Health!RetryDue \/ Health!Execute
            BY <3>4 DEF Health!Commit, Health!Publish, Health!Renew, Health!RetryDue, Health!Execute
        <3>5. CASE Health!Fail \/ Health!Observe \/ Health!Deleted \/ Health!Settle \/ Health!CheckFails
            BY <1>0, <3>5 DEF Health!Fail, Health!Observe, Health!Deleted, Health!Settle,
                              Health!CheckFails, Cycle
        <3> QED BY <3>2, <3>3, <3>4, <3>5 DEF Health!Next
    <2>2. /\ cycle.hub.epoch \in Nat /\ cycle.hub.batch \in Nat /\ cycle.hub.epoch <= hub.epoch
          /\ cycle.hub.epoch = hub.epoch => cycle.hub.batch <= hub.batch
        BY <1>0 DEF Cycle, Position, BehindHub
    <2> QED BY <1>b, <2>1, <2>2, MovesOn
<1>k. SUFFICES /\ Behind(incident') /\ Behind(row')
               /\ \A k \in DOMAIN queries' : Behind(queries'[k].value)
               /\ \A i \in open' : Named(i)
    BY <1>c, <1>j DEF BehindHub
<1> HIDE DEF Behind, Named
<1>1. CASE UNCHANGED <<incident, row, queries, open>>
    BY <1>1, <1>e, <1>h, <1>i
<1>2. CASE Health!Fail
    <2>1. PICK named \in BOOLEAN : \E i \in {Health!Opened(named)} :
              /\ incident' = i
              /\ queries' = Append(queries, [op |-> "insert", value |-> i])
              /\ open' = IF named THEN open \cup {i} ELSE open
        BY <1>2 DEF Health!Fail
    <2> DEFINE i == Health!Opened(named)
    <2>2. /\ node.epoch = hub.epoch /\ i.epoch = hub.epoch /\ hub' = hub
          /\ node'.epoch = node.epoch /\ node'.batch = node.batch /\ row' = row
        BY <1>0, <1>2 DEF Health!Fail, Health!Opened, Node
    <2>3. Behind(i)
        BY <1>b, <2>2 DEF Behind
    <2>4. ASSUME named PROVE Named(i)
        <3>1. i.batch = node.batch + 1
            BY <2>4 DEF Health!Opened
        <3>2. i.batch # 0
            BY <1>b, <3>1
        <3>3. i # Health!None
            BY <3>2 DEF Health!None
        <3> QED BY <1>b, <2>2, <3>1, <3>3 DEF Named
    <2>5. ASSUME NEW k \in DOMAIN queries' PROVE Behind(queries'[k].value)
        <3> HIDE DEF i
        <3>1. \/ k \in DOMAIN queries /\ queries'[k] = queries[k]
              \/ queries'[k] = [op |-> "insert", value |-> i]
            BY <1>0, <2>1 DEF i
        <3> QED BY <1>h, <2>3, <3>1
    <2> HIDE DEF i
    <2> QED BY <1>e, <1>i, <2>1, <2>2, <2>3, <2>4, <2>5 DEF i
<1>3. CASE Health!Execute
    <2>1. PICK k \in DOMAIN queries :
              /\ queries' = Health!RemoveAt(queries, k)
              /\ row' = IF queries[k].op = "insert" THEN queries[k].value
                        ELSE IF Health!Deletes(queries[k]) THEN Health!None ELSE row
              /\ UNCHANGED <<incident, open>>
        BY <1>3 DEF Health!Execute
    <2>2. ASSUME NEW j \in DOMAIN queries'
          PROVE  \E l \in DOMAIN queries : queries'[j] = queries[l]
        <3>1. k \in 1..Len(queries)
            BY <1>0
        <3>2. /\ queries' \in Seq(Query) /\ Len(queries') = Len(queries) - 1
              /\ \A l \in 1..Len(queries) - 1 : queries'[l] = IF l < k THEN queries[l] ELSE queries[l + 1]
            BY <1>0, <2>1, <3>1, RemoveFacts
        <3>3. j \in 1..Len(queries) - 1
            BY <3>2
        <3>4. j \in DOMAIN queries /\ j + 1 \in DOMAIN queries
            BY <1>0, <3>3
        <3> QED BY <3>2, <3>3, <3>4
    <2>3. \A j \in DOMAIN queries' : Behind(queries'[j].value)
        BY <1>h, <2>2
    <2> QED BY <1>e, <1>f, <1>h, <1>i, <2>1, <2>3
<1>4. CASE Health!Observe
    <2>1. /\ queries' = queries \/ queries' = Append(queries, [op |-> "delete", value |-> incident])
          /\ UNCHANGED <<incident, row, open>>
        BY <1>4 DEF Health!Observe
    <2>2. ASSUME NEW k \in DOMAIN queries' PROVE Behind(queries'[k].value)
        <3>1. \/ k \in DOMAIN queries /\ queries'[k] = queries[k]
              \/ queries'[k] = [op |-> "delete", value |-> incident]
            BY <1>0, <2>1
        <3> QED BY <1>e, <1>h, <3>1
    <2> QED BY <1>e, <1>i, <2>1, <2>2
<1>5. CASE Health!Deleted
    BY <1>5, <1>e, <1>f, <1>h, <1>i DEF Health!Deleted
<1>6. CASE Health!Restart
    BY <1>6, <1>e, <1>i DEF Health!Restart
<1> QED BY <1>1, <1>2, <1>3, <1>4, <1>5, <1>6, HealthSteps

\* Every step keeps the failures covered by the open incident.
LEMMA CoveredStep ==
    ASSUME HealthTypes, BehindHub, Covered, Clearing, Health!Next
    PROVE  Covered'
<1>0. /\ open \subseteq Incident /\ incident \in Incident
      /\ hub.epoch \in Nat /\ hub.batch \in Nat /\ node.epoch \in Nat /\ node.batch \in Nat
    BY DEF HealthTypes, Position, Node
<1>a. ASSUME NEW i \in Incident PROVE i.epoch \in Nat /\ i.batch \in Nat
    BY DEF Incident
<1>b. ASSUME NEW i \in open, Good(i, hub) PROVE Good(i, hub')
    <2>1. i.epoch <= hub.epoch
        BY <1>0, <1>a DEF BehindHub
    <2> QED BY <1>0, <1>b, <2>1, GoodStays
<1>1. CASE UNCHANGED <<incident, open>>
    BY <1>1, <1>b DEF Covered
<1>2. CASE Health!Fail
    <2>1. PICK named \in BOOLEAN : \E i \in {Health!Opened(named)} :
              /\ incident' = i
              /\ open' = IF named THEN open \cup {i} ELSE open
        BY <1>2 DEF Health!Fail
    <2> DEFINE new == Health!Opened(named)
    <2>2. /\ node.epoch = hub.epoch /\ new.epoch = hub.epoch /\ hub' = hub /\ node.epoch = cycle.node.epoch
        BY <1>2 DEF Health!Fail, Health!Opened
    <2>3. ASSUME NEW i \in open, ~Good(i, hub)
          PROVE  new # Health!None /\ i.epoch = new.epoch /\ i.batch <= new.batch
        <3>1. /\ incident # Health!None /\ i.epoch = incident.epoch /\ i.batch <= incident.batch
            BY <2>3 DEF Covered
        <3>2. i.epoch = hub.epoch /\ i.batch >= 1 /\ i.batch <= node.batch + 1
            <4>1. i.epoch <= node.epoch /\ (i.epoch = node.epoch => i.batch <= node.batch + 1)
                BY DEF BehindHub
            <4>2. ~(hub.epoch > i.epoch) /\ ~(hub.batch >= i.batch)
                BY <2>3 DEF Good
            <4>3. i.epoch \in Nat /\ i.batch \in Nat
                BY <1>0, <1>a
            <4> QED BY <1>0, <2>2, <4>1, <4>2, <4>3
        <3>3. CASE named
            <4>1. new.batch = node.batch + 1
                BY <3>3 DEF Health!Opened
            <4>2. new.batch # 0
                BY <1>0, <4>1
            <4>3. new # Health!None
                BY <4>2 DEF Health!None
            <4> QED BY <2>2, <3>2, <4>1, <4>3
        <3>4. CASE ~named
            <4>1. new.batch = incident.batch
                BY <2>2, <3>1, <3>2, <3>4 DEF Health!Opened
            <4>2. i.batch \in Nat /\ incident.batch \in Nat
                BY <1>0, <1>a
            <4>3. new.batch # 0
                BY <3>1, <3>2, <4>1, <4>2
            <4>4. new # Health!None
                BY <4>3 DEF Health!None
            <4> QED BY <2>2, <3>1, <3>2, <4>1, <4>4
        <3> QED BY <3>3, <3>4
    <2>4. ASSUME named
          PROVE  new # Health!None /\ new.epoch \in Nat /\ new.batch \in Nat
        <3>1. new.batch = node.batch + 1
            BY <2>4 DEF Health!Opened
        <3>2. new.batch # 0 /\ new.batch \in Nat
            BY <1>0, <3>1
        <3> QED BY <1>0, <2>2, <3>2 DEF Health!None
    <2> HIDE DEF new
    <2>5. incident' = new /\ \A i \in open' : i \in open \/ (named /\ i = new)
        BY <2>1 DEF new
    <2>6. ASSUME NEW i \in open'
          PROVE  Good(i, hub') \/ (new # Health!None /\ i.epoch = new.epoch /\ i.batch <= new.batch)
        BY <1>b, <2>2, <2>3, <2>4, <2>5, <2>6
    <2> QED BY <2>5, <2>6 DEF Covered
<1>3. CASE Health!Execute \/ Health!Observe
    BY <1>1, <1>3 DEF Health!Execute, Health!Observe
<1>4. CASE Health!Deleted
    <2>1. hub' = hub /\ open' = open /\ incident' = IF cycle.replaced THEN incident ELSE Health!None
        BY <1>4 DEF Health!Deleted, Health!UnchangedSince
    <2>2. CASE cycle.replaced
        BY <1>1, <2>1, <2>2
    <2>3. CASE ~cycle.replaced
        <3>1. Good(incident, hub)
            BY <1>4, <2>3 DEF Clearing, Health!Deleted
        <3>2. ASSUME NEW i \in open PROVE Good(i, hub)
            <4>1. i.epoch \in Nat /\ i.batch \in Nat /\ incident.epoch \in Nat /\ incident.batch \in Nat
                BY <1>0, <1>a
            <4> QED BY <1>0, <3>1, <4>1 DEF Covered, Good
        <3> QED BY <2>1, <3>2 DEF Covered
    <2> QED BY <2>2, <2>3
<1>5. CASE Health!Restart
    <2>1. incident' = row /\ open' = {i \in open : i = row}
        BY <1>5 DEF Health!Restart
    <2>2. ASSUME NEW i \in open, i = row
          PROVE  row # Health!None /\ i.epoch = row.epoch /\ i.batch <= row.batch
        <3>1. i.batch \in Nat
            BY <1>0, <1>a
        <3> QED BY <2>2, <3>1 DEF BehindHub
    <2> QED BY <2>1, <2>2 DEF Covered
<1> QED BY <1>1, <1>2, <1>3, <1>4, <1>5, HealthSteps

\* A cycle that found the incident over deletes no other one.
LEMMA ClearingStep ==
    ASSUME HealthTypes, BehindHub, Clearing, Health!Next
    PROVE  Clearing'
<1>0. /\ incident \in Incident /\ cycle \in Cycle
      /\ hub.epoch \in Nat /\ hub.batch \in Nat /\ incident.epoch \in Nat /\ incident.batch \in Nat
    BY DEF HealthTypes, Position, Incident
<1>1. CASE UNCHANGED <<incident, cycle>>
    <2>1. Good(incident, hub) => Good(incident, hub')
        BY <1>0, GoodStays DEF BehindHub
    <2> QED BY <1>1, <2>1 DEF Clearing
<1>2. CASE cycle'.at # "deleting"
    BY <1>2 DEF Clearing
<1>3. CASE Health!Fail
    <2>1. cycle'.replaced
        BY <1>0, <1>3 DEF Health!Fail, Cycle
    <2> QED BY <2>1 DEF Clearing
<1>4. CASE Health!Execute
    BY <1>1, <1>4 DEF Health!Execute
<1>5. CASE Health!Observe
    <2>1. /\ cycle'.at = "deleting" => Health!Recovered(incident, cycle.node, cycle.hub)
          /\ incident' = incident /\ hub' = hub
        BY <1>0, <1>5 DEF Health!Observe, Cycle
    <2>2. /\ cycle.hub.epoch \in Nat /\ cycle.hub.batch \in Nat /\ cycle.hub.epoch <= hub.epoch
          /\ cycle.hub.epoch = hub.epoch => cycle.hub.batch <= hub.batch
        BY <1>0 DEF Cycle, Position, BehindHub
    <2>3. Health!Recovered(incident, cycle.node, cycle.hub) => Good(incident, hub)
        BY <1>0, <2>2 DEF Health!Recovered, Good
    <2> QED BY <2>1, <2>3 DEF Clearing
<1>6. CASE Health!Deleted
    <2>1. cycle'.at = "checked"
        BY <1>0, <1>6 DEF Health!Deleted, Cycle
    <2> QED BY <1>2, <2>1
<1>7. CASE Health!Restart
    BY <1>2, <1>7 DEF Health!Restart, Health!Idle
<1> QED BY <1>1, <1>2, <1>3, <1>4, <1>5, <1>6, <1>7, HealthSteps

\* One more query goes behind the others.
LEMMA AppendedFacts ==
    ASSUME queries \in Seq(Query), NEW q \in Query, queries' = Append(queries, q)
    PROVE  /\ DOMAIN queries' = DOMAIN queries \cup {Len(queries) + 1}
           /\ Len(queries) + 1 \notin DOMAIN queries
           /\ \A j \in DOMAIN queries : queries'[j] = queries[j] /\ j < Len(queries) + 1
           /\ queries'[Len(queries) + 1] = q
OBVIOUS

\* The k-th query leaves, and those behind it move up.
LEMMA ExecutedFacts ==
    ASSUME queries \in Seq(Query), NEW k \in DOMAIN queries, queries' = Health!RemoveAt(queries, k)
    PROVE  /\ k \in Nat /\ DOMAIN queries \subseteq Nat /\ DOMAIN queries' \subseteq Nat
           /\ \A j \in DOMAIN queries' :
                  IF j < k THEN j \in DOMAIN queries /\ queries'[j] = queries[j]
                           ELSE j + 1 \in DOMAIN queries /\ queries'[j] = queries[j + 1]
           /\ \A j \in DOMAIN queries :
                  /\ j < k => j \in DOMAIN queries' /\ queries'[j] = queries[j]
                  /\ j > k => j - 1 \in DOMAIN queries' /\ queries'[j - 1] = queries[j]
<1>1. k \in 1..Len(queries) /\ DOMAIN queries = 1..Len(queries)
    OBVIOUS
<1>2. /\ queries' \in Seq(Query) /\ Len(queries') = Len(queries) - 1
      /\ \A l \in 1..Len(queries) - 1 : queries'[l] = IF l < k THEN queries[l] ELSE queries[l + 1]
    BY <1>1, RemoveFacts
<1>3. DOMAIN queries' = 1..Len(queries) - 1
    BY <1>2
<1>4. Len(queries) \in Nat
    OBVIOUS
<1> HIDE DEF Query
<1>5. ASSUME NEW j \in DOMAIN queries'
      PROVE  IF j < k THEN j \in DOMAIN queries /\ queries'[j] = queries[j]
                      ELSE j + 1 \in DOMAIN queries /\ queries'[j] = queries[j + 1]
    BY <1>1, <1>2, <1>3, <1>4
<1>6. ASSUME NEW j \in DOMAIN queries, j < k
      PROVE  j \in DOMAIN queries' /\ queries'[j] = queries[j]
    BY <1>1, <1>2, <1>3, <1>4, <1>6
<1>7. ASSUME NEW j \in DOMAIN queries, j > k
      PROVE  j - 1 \in DOMAIN queries' /\ queries'[j - 1] = queries[j]
    <2>1. j - 1 \in 1..Len(queries) - 1 /\ ~(j - 1 < k) /\ (j - 1) + 1 = j
        BY <1>1, <1>4, <1>7
    <2> QED BY <1>2, <1>3, <2>1
<1> QED BY <1>1, <1>3, <1>5, <1>6, <1>7

\* The database is asked to forget only incidents that are over.
LEMMA DeletesStep ==
    ASSUME HealthTypes, BehindHub, DeletesAreDue, Health!Next
    PROVE  DeletesAreDue'
<1>0. /\ queries \in Seq(Query) /\ incident \in Incident /\ cycle \in Cycle
      /\ hub.epoch \in Nat /\ hub.batch \in Nat /\ incident.epoch \in Nat /\ incident.batch \in Nat
    BY DEF HealthTypes, Position, Incident
<1>a. ASSUME NEW k \in DOMAIN queries, queries[k].op = "delete"
      PROVE  Good(queries[k].value, hub')
    <2>1. queries[k] \in Query
        BY <1>0
    <2>2. queries[k].value \in Incident
        BY <2>1 DEF Query
    <2>3. queries[k].value.epoch <= hub.epoch /\ Good(queries[k].value, hub)
        BY <1>a DEF BehindHub, DeletesAreDue
    <2> QED BY <2>2, <2>3, GoodStays
<1>1. CASE UNCHANGED queries
    BY <1>1, <1>a DEF DeletesAreDue
<1>2. CASE Health!Fail
    <2>1. PICK i : queries' = Append(queries, [op |-> "insert", value |-> i]) /\ i = incident'
        BY <1>2 DEF Health!Fail
    <2>2. [op |-> "insert", value |-> i] \in Query
        BY <2>1, HealthStepTypes DEF HealthTypes, Query
    <2>3. ASSUME NEW k \in DOMAIN queries', queries'[k].op = "delete" PROVE Good(queries'[k].value, hub')
        <3>1. k = Len(queries) + 1 => queries'[k].op = "insert"
            BY <1>0, <2>1, <2>2, AppendedFacts
        <3> QED BY <1>0, <1>a, <2>1, <2>2, <2>3, <3>1, AppendedFacts
    <2> QED BY <2>3 DEF DeletesAreDue
<1>3. CASE Health!Execute
    <2>1. PICK k \in DOMAIN queries : queries' = Health!RemoveAt(queries, k)
        BY <1>3 DEF Health!Execute
    <2>2. ASSUME NEW j \in DOMAIN queries', queries'[j].op = "delete" PROVE Good(queries'[j].value, hub')
        BY <1>0, <1>a, <2>1, <2>2, ExecutedFacts
    <2> QED BY <2>2 DEF DeletesAreDue
<1>4. CASE Health!Observe
    <2>1. CASE queries' = queries
        BY <1>1, <2>1
    <2>2. CASE queries' # queries
        <3>1. /\ queries' = Append(queries, [op |-> "delete", value |-> incident]) /\ hub' = hub
              /\ Health!Recovered(incident, cycle.node, cycle.hub)
            BY <1>4, <2>2 DEF Health!Observe
        <3>2. /\ cycle.hub.epoch \in Nat /\ cycle.hub.batch \in Nat /\ cycle.hub.epoch <= hub.epoch
              /\ cycle.hub.epoch = hub.epoch => cycle.hub.batch <= hub.batch
            BY <1>0 DEF Cycle, Position, BehindHub
        <3>3. Good(incident, hub')
            BY <1>0, <3>1, <3>2 DEF Health!Recovered, Good
        <3>4. [op |-> "delete", value |-> incident] \in Query
            BY <1>0 DEF Query
        <3>5. ASSUME NEW k \in DOMAIN queries', queries'[k].op = "delete" PROVE Good(queries'[k].value, hub')
            <4>1. k = Len(queries) + 1 => queries'[k].value = incident
                BY <1>0, <3>1, <3>4, AppendedFacts
            <4> QED BY <1>0, <1>a, <3>1, <3>3, <3>4, <3>5, <4>1, AppendedFacts
        <3> QED BY <3>5 DEF DeletesAreDue
    <2> QED BY <2>1, <2>2
<1>5. CASE Health!Deleted
    BY <1>1, <1>5 DEF Health!Deleted
<1>6. CASE Health!Restart
    BY <1>6 DEF Health!Restart, DeletesAreDue
<1> QED BY <1>1, <1>2, <1>3, <1>4, <1>5, <1>6, HealthSteps

\* The open incident is always on its way to the database, there, or over.
LEMMA RowStep ==
    ASSUME HealthTypes, BehindHub, DeletesAreDue, RowFollows, Health!Next
    PROVE  RowFollows'
<1>0. /\ queries \in Seq(Query) /\ incident \in Incident /\ row \in Incident
      /\ incident.epoch <= hub.epoch
    BY DEF HealthTypes, BehindHub
<1>a. Good(incident, hub) => Good(incident, hub')
    BY <1>0, GoodStays
<1>1. CASE UNCHANGED <<incident, row, queries>>
    BY <1>1, <1>a DEF RowFollows
<1>2. CASE Health!Fail
    <2> DEFINE q == [op |-> "insert", value |-> incident']
    <2>1. queries' = Append(queries, q)
        BY <1>2 DEF Health!Fail
    <2>2. q \in Query
        BY HealthStepTypes DEF HealthTypes, Query
    <2>3. q.op = "insert" /\ q.value = incident'
        OBVIOUS
    <2> HIDE DEF q
    <2>4. Len(queries) + 1 \in Inserts(queries')
        BY <1>0, <2>1, <2>2, <2>3, AppendedFacts DEF Inserts
    <2>5. ASSUME NEW j \in Inserts(queries') PROVE j <= Len(queries) + 1
        <3>1. j \in DOMAIN queries \/ j = Len(queries) + 1
            BY <1>0, <2>1, <2>2, AppendedFacts DEF Inserts
        <3>2. Len(queries) \in Nat /\ DOMAIN queries = 1..Len(queries)
            BY <1>0
        <3> QED BY <3>1, <3>2
    <2>6. queries'[Len(queries) + 1].value = incident'
        BY <1>0, <2>1, <2>2, <2>3, AppendedFacts
    <2> QED BY <2>4, <2>5, <2>6 DEF RowFollows, LastInsert
<1>3. CASE Health!Execute
    <2>1. PICK k \in DOMAIN queries :
              /\ \A j \in 1..k - 1 : queries[j].op # queries[k].op
              /\ queries' = Health!RemoveAt(queries, k)
              /\ row' = IF queries[k].op = "insert" THEN queries[k].value
                        ELSE IF Health!Deletes(queries[k]) THEN Health!None ELSE row
              /\ UNCHANGED <<hub, incident>>
        BY <1>3 DEF Health!Execute
    <2>2. /\ k \in Nat /\ DOMAIN queries \subseteq Nat /\ DOMAIN queries' \subseteq Nat
          /\ DOMAIN queries = 1..Len(queries) /\ Len(queries) \in Nat
        BY <1>0, <2>1, ExecutedFacts
    <2>3. ASSUME NEW j \in Inserts(queries')
          PROVE  IF j < k THEN j \in Inserts(queries) ELSE j + 1 \in Inserts(queries)
        BY <1>0, <2>1, <2>3, ExecutedFacts DEF Inserts
    <2>4. CASE incident # Health!None /\ LastInsert(queries, incident)
        <3>1. PICK m \in Inserts(queries) : queries[m].value = incident /\ \A j \in Inserts(queries) : j <= m
            BY <2>4 DEF LastInsert
        <3>2. m \in DOMAIN queries /\ queries[m].op = "insert" /\ m \in Nat
            BY <2>2, <3>1 DEF Inserts
        <3>3. CASE m = k
            <4>1. row' = incident
                BY <2>1, <3>1, <3>2, <3>3
            <4>2. ASSUME NEW j \in Inserts(queries') PROVE FALSE
                <5>1. j \in Nat
                    BY <2>2 DEF Inserts
                <5>2. CASE j < k
                    <6>1. j \in 1..k - 1 /\ queries[j].op = "insert"
                        BY <2>2, <2>3, <5>1, <5>2 DEF Inserts
                    <6> QED BY <2>1, <3>2, <3>3, <6>1
                <5>3. CASE ~(j < k)
                    <6>1. j + 1 <= k
                        BY <2>3, <3>1, <3>3, <5>3
                    <6> QED BY <2>2, <5>1, <5>3, <6>1
                <5> QED BY <5>2, <5>3
            <4> QED BY <2>1, <4>1, <4>2 DEF RowFollows
        <3>4. CASE m < k
            <4>1. m \in Inserts(queries') /\ queries'[m].value = incident
                BY <1>0, <2>1, <3>1, <3>2, <3>4, ExecutedFacts DEF Inserts
            <4>2. ASSUME NEW j \in Inserts(queries') PROVE j <= m
                <5>1. j \in Nat
                    BY <2>2 DEF Inserts
                <5>2. j <= m \/ j + 1 <= m
                    BY <2>3, <3>1
                <5> QED BY <3>2, <5>1, <5>2
            <4> QED BY <2>1, <4>1, <4>2 DEF RowFollows, LastInsert
        <3>5. CASE m > k
            <4>1. m - 1 \in Inserts(queries') /\ queries'[m - 1].value = incident
                BY <1>0, <2>1, <3>1, <3>2, <3>5, ExecutedFacts DEF Inserts
            <4>2. ASSUME NEW j \in Inserts(queries') PROVE j <= m - 1
                <5>1. j \in Nat
                    BY <2>2 DEF Inserts
                <5>2. CASE j < k
                    BY <2>2, <3>2, <3>5, <5>1, <5>2
                <5>3. CASE ~(j < k)
                    <6>1. j + 1 <= m
                        BY <2>3, <3>1, <5>3
                    <6> QED BY <3>2, <5>1, <6>1
                <5> QED BY <5>2, <5>3
            <4> QED BY <2>1, <4>1, <4>2 DEF RowFollows, LastInsert
        <3> QED BY <2>2, <3>2, <3>3, <3>4, <3>5
    <2>5. CASE incident # Health!None /\ Inserts(queries) = {} /\ (row = incident \/ Good(incident, hub))
        <3>1. Inserts(queries') = {}
            BY <2>3, <2>5
        <3>2. queries[k].op = "delete"
            <4>1. queries[k] \in Query
                BY <1>0
            <4>2. queries[k].op \in {"insert", "delete"}
                BY <4>1 DEF Query
            <4> QED BY <2>5, <4>2 DEF Inserts
        <3>3. CASE Health!Deletes(queries[k]) /\ row = incident
            <4>1. Good(incident, hub)
                BY <3>2, <3>3 DEF DeletesAreDue, Health!Deletes
            <4> QED BY <1>a, <2>1, <3>1, <4>1 DEF RowFollows
        <3>4. CASE ~Health!Deletes(queries[k]) /\ row = incident
            BY <2>1, <3>1, <3>2, <3>4 DEF RowFollows
        <3>5. CASE Good(incident, hub)
            BY <1>a, <2>1, <3>1, <3>5 DEF RowFollows
        <3> QED BY <2>5, <3>3, <3>4, <3>5
    <2>6. CASE incident = Health!None
        BY <2>1, <2>6 DEF RowFollows
    <2> QED BY <2>4, <2>5, <2>6 DEF RowFollows
<1>4. CASE Health!Observe
    <2> DEFINE q == [op |-> "delete", value |-> incident]
    <2>1. /\ queries' = queries \/ queries' = Append(queries, q)
          /\ UNCHANGED <<hub, incident, row>>
        BY <1>4 DEF Health!Observe
    <2>2. q \in Query /\ q.op = "delete"
        BY <1>0 DEF Query
    <2> HIDE DEF q
    <2>3. ASSUME queries' = Append(queries, q) PROVE Inserts(queries') = Inserts(queries)
        BY <1>0, <2>2, <2>3, AppendedFacts DEF Inserts
    <2>4. ASSUME queries' = Append(queries, q), NEW j \in Inserts(queries)
          PROVE  queries'[j] = queries[j]
        BY <1>0, <2>2, <2>4, AppendedFacts DEF Inserts
    <2>5. LastInsert(queries, incident) => LastInsert(queries', incident)
        BY <2>1, <2>3, <2>4 DEF LastInsert
    <2>6. Inserts(queries) = {} => Inserts(queries') = {}
        BY <2>1, <2>3
    <2> QED BY <1>a, <2>1, <2>5, <2>6 DEF RowFollows
<1>5. CASE Health!Deleted
    <2>1. UNCHANGED <<hub, row, queries>> /\ incident' \in {incident, Health!None}
        BY <1>5 DEF Health!Deleted
    <2> QED BY <1>a, <2>1 DEF RowFollows
<1>6. CASE Health!Restart
    BY <1>6 DEF Health!Restart, RowFollows, Inserts
<1> QED BY <1>1, <1>2, <1>3, <1>4, <1>5, <1>6, HealthSteps

\* Players are admitted only by a cycle that saw no open incident, and every
\* failure stops admissions at once.
LEMMA AdmissionStep ==
    ASSUME HealthTypes, BehindHub, Covered, Health!AdmissionIsSafe, Health!Next
    PROVE  Health!AdmissionIsSafe'
<1>0. svc \in Flags /\ open \subseteq Incident
    BY DEF HealthTypes
<1>a. ASSUME NEW i \in open, Good(i, hub) PROVE Good(i, hub')
    <2>1. i \in Incident /\ i.epoch \in Nat /\ i.epoch <= hub.epoch
        <3>1. i \in Incident /\ i.epoch \in Nat /\ i.epoch <= node.epoch /\ node.epoch <= hub.epoch
            BY <1>0 DEF Incident, BehindHub
        <3>2. node.epoch \in Nat /\ hub.epoch \in Nat
            BY DEF HealthTypes, Node, Position
        <3> QED BY <3>1, <3>2
    <2> QED BY <1>a, <2>1, GoodStays
<1>1. ASSUME open' \subseteq open, \A i \in open : Good(i, hub)
      PROVE  Health!AdmissionIsSafe'
    <2>1. \A i \in open' : Good(i, hub')
        BY <1>1, <1>a
    <2> QED BY <2>1 DEF Good, Health!AdmissionIsSafe
<1>2. ASSUME open' \subseteq open, Health!Admitting' => Health!Admitting
      PROVE  Health!AdmissionIsSafe'
    <2>1. CASE Health!Admitting
        <3>1. \A i \in open : Good(i, hub)
            BY <2>1 DEF Good, Health!AdmissionIsSafe
        <3> QED BY <1>1, <1>2, <3>1
    <2>2. CASE ~Health!Admitting
        BY <1>2, <2>2 DEF Health!AdmissionIsSafe
    <2> QED BY <2>1, <2>2
<1>3. CASE UNCHANGED <<svc, open>>
    BY <1>2, <1>3 DEF Health!Admitting
<1>4. CASE Health!RetryDue \/ Health!CheckFails
    <2>1. open' \subseteq open
        BY <1>4 DEF Health!RetryDue, Health!CheckFails
    <2>2. Health!Admitting' => Health!Admitting
        BY <1>0, <1>4 DEF Health!RetryDue, Health!CheckFails, Health!Admitting, Flags
    <2> QED BY <1>2, <2>1, <2>2
<1>5. CASE Health!Settle
    <2>1. CASE incident = Health!None
        <3>1. \A i \in open : Good(i, hub)
            BY <2>1 DEF Covered
        <3> QED BY <1>1, <1>5, <3>1 DEF Health!Settle
    <2>2. CASE incident # Health!None
        <3>1. ~svc'.online
            BY <1>0, <1>5, <2>2 DEF Health!Settle, Flags
        <3> QED BY <3>1 DEF Health!AdmissionIsSafe, Health!Admitting
    <2> QED BY <2>1, <2>2
<1>6. CASE Health!Fail
    <2>1. ~svc'.online
        BY <1>0, <1>6 DEF Health!Fail, Flags
    <2> QED BY <2>1 DEF Health!AdmissionIsSafe, Health!Admitting
<1>7. CASE Health!Restart
    <2>1. ~svc'.online
        BY <1>7 DEF Health!Restart, Health!Boot
    <2> QED BY <2>1 DEF Health!AdmissionIsSafe, Health!Admitting
<1>8. CASE Health!Commit \/ Health!Publish \/ Health!Renew \/ Health!Execute
    BY <1>3, <1>8 DEF Health!Commit, Health!Publish, Health!Renew, Health!Execute
<1>9. CASE Health!ReadNode \/ Health!ReadHub \/ Health!Observe \/ Health!Deleted
    BY <1>3, <1>9 DEF Health!ReadNode, Health!ReadHub, Health!Observe, Health!Deleted
<1> QED BY <1>4, <1>5, <1>6, <1>7, <1>8, <1>9 DEF Health!Next

\* Every step of the relayer, the node and the hub keeps the invariant.
LEMMA HealthStep == HealthInv /\ [Health!Next]_(Health!vars) => HealthInv'
<1>1. CASE HealthInv /\ Health!Next
    BY <1>1, HealthStepTypes, BehindStep, CoveredStep, ClearingStep, DeletesStep, RowStep, AdmissionStep
       DEF HealthInv
<1>2. CASE HealthInv /\ UNCHANGED Health!vars
    BY <1>2 DEF Health!vars, HealthInv, HealthTypes, BehindHub, Covered, Clearing, DeletesAreDue,
                RowFollows, Health!AdmissionIsSafe, Health!Admitting
<1> QED BY <1>1, <1>2

\* What a restarted relayer would find: see IncidentKept.
LEMMA IncidentIsKept == HealthInv => Health!IncidentKept
BY DEF HealthInv, RowFollows, LastInsert, Inserts, Good, Health!IncidentKept

\* The inductive invariant of publication health, for every number of batches,
\* delegations, failures and restarts.
THEOREM HealthInvariance == Health!Spec => []HealthInv
BY HealthInit, HealthStep, PTL DEF Health!Spec

\* Players are admitted only when every failed batch the process was told of is good
\* again, and an open incident is not lost with the process.
THEOREM AdmissionsAreSafe == Health!Spec => [](Health!AdmissionIsSafe /\ Health!IncidentKept)
<1>1. HealthInv => Health!AdmissionIsSafe /\ Health!IncidentKept
    BY IncidentIsKept DEF HealthInv
<1> QED BY <1>1, HealthInvariance, PTL

-----------------------------------------------------------------------------
(***************************************************************************)
(* The payment worker.                                                     *)
(***************************************************************************)
Payment == [st : 0..2, attempts : Nat]
Job == [fn : {"claim", "refund", "retryPayout"}, att : Nat,
        status : {"queued", "succeeded", "failed"}]

\* The first call made for a debt.
FirstCall(d) == IF Kind[d] = "bet" THEN "claim" ELSE "refund"
CallsOf(d) == {FirstCall(d), "retryPayout"}

\* Payments, tasks and rows keep their shapes, and the worker only ever asks for
\* the calls of its debt.
PayTypes ==
  /\ over \in [Debts -> BOOLEAN]
  /\ pay \in [Debts -> Payment]
  /\ jobs \in [Debts -> Seq(Job)]
  /\ DOMAIN task = Debts
  /\ \A d \in Debts : DOMAIN task[d] = {"state", "attempts", "job", "hash", "due"}
  /\ tick.at \in {"idle", "enqueue", "save"} /\ user.at \in {"idle", "enqueue", "save"}
  /\ tick.at # "idle" => tick.d \in Debts
  /\ user.at # "idle" => user.d \in Debts
  /\ tick.at = "enqueue" => tick.fn \in CallsOf(tick.d)

\* Two rows in flight for a debt are one.
OneLive ==
  \A d \in Debts : \A i, j \in DOMAIN jobs[d] :
    Payouts!Live(jobs[d][i]) /\ Payouts!Live(jobs[d][j]) => i = j

\* A row of debt d fits payment p: executing it now would still make the transfer
\* it was asked for.
Fits(r, d, p) ==
  IF r.fn = "retryPayout" THEN p.st = 1 /\ r.att = p.attempts
                          ELSE p.st = 0 /\ r.fn = FirstCall(d) /\ r.att = 0
LiveFits ==
  \A d \in Debts : \A i \in DOMAIN jobs[d] :
    Payouts!Live(jobs[d][i]) => Fits(jobs[d][i], d, pay[d])

\* Nothing is paid or asked for before the match or the cup has ended.
NothingEarly == \A d \in Debts : ~over[d] => pay[d].st = 0 /\ jobs[d] = <<>>

PayInv == PayTypes /\ OneLive /\ LiveFits /\ NothingEarly /\ Payouts!SettledIsTrue

\* There is nothing in flight when the worker starts.
LEMMA PayInit == Payouts!Init => PayInv
<1> SUFFICES ASSUME Payouts!Init PROVE PayInv
    OBVIOUS
<1> USE DEF Payouts!Init
<1>1. pay \in [Debts -> Payment] /\ over \in [Debts -> BOOLEAN]
    BY DEF Payment
<1>2. jobs \in [Debts -> Seq(Job)] /\ \A d \in Debts : jobs[d] = <<>>
    OBVIOUS
<1>3. tick.at = "idle" /\ user.at = "idle"
    BY DEF Payouts!Idle
<1>4. DOMAIN task = Debts /\ \A d \in Debts : task[d] = Payouts!NoTask
    OBVIOUS
<1>5. PayTypes
    BY <1>1, <1>2, <1>3, <1>4 DEF PayTypes, Payouts!NoTask
<1>6. OneLive /\ LiveFits
    BY <1>2 DEF OneLive, LiveFits
<1>7. NothingEarly
    BY <1>2 DEF NothingEarly
<1>8. Payouts!SettledIsTrue
    BY <1>4 DEF Payouts!SettledIsTrue, Payouts!NoTask
<1> QED BY <1>5, <1>6, <1>7, <1>8 DEF PayInv

-----------------------------------------------------------------------------
\* Of some positions in a sequence one is the first.
LEMMA FirstOne ==
    ASSUME NEW S, S \subseteq Nat, S # {}
    PROVE  \E n \in S : \A m \in S : n <= m
<1>1. PICK n \in S : \A m \in S : <<m, n>> \notin OpToRel(<, Nat)
    BY NatLessThanWellFounded, WFMin
<1>2. ASSUME NEW m \in S PROVE n <= m
    <2>1. m \in Nat /\ n \in Nat
        OBVIOUS
    <2>2. ~(m < n)
        BY <1>1, <2>1 DEF OpToRel
    <2> QED BY <2>1, <2>2
<1> QED BY <1>2

\* enqueue inserts a row only when nothing of the debt is in flight: a row of the
\* same call would have been found, and the chain refuses every other one.
LEMMA InsertsAlone ==
    ASSUME PayInv, NEW d \in Debts, NEW fn \in CallsOf(d),
           ~Payouts!Reused(d, fn), Payouts!Simulated(d, fn),
           NEW i \in DOMAIN jobs[d], Payouts!Live(jobs[d][i])
    PROVE  FALSE
<1> DEFINE att == Payouts!AttemptOf(d, fn)
           same == {j \in DOMAIN jobs[d] : Payouts!Same(jobs[d][j], fn, att)}
<1>1. Fits(jobs[d][i], d, pay[d])
    BY DEF PayInv, LiveFits
<1>2. fn = "retryPayout" => pay[d].st = 1
    BY DEF Payouts!Simulated
<1>3. fn # "retryPayout" => pay[d].st = 0 /\ fn = FirstCall(d)
    BY DEF Payouts!Simulated, CallsOf
<1>4. FirstCall(d) # "retryPayout"
    BY DEF FirstCall
<1>5. jobs[d][i].fn = fn /\ jobs[d][i].att = att
    BY <1>1, <1>2, <1>3, <1>4 DEF Fits, Payouts!AttemptOf
<1>6. i \in same
    BY <1>5 DEF Payouts!Same
<1>7. same \subseteq Nat
    <2>1. jobs[d] \in Seq(Job)
        BY DEF PayInv, PayTypes
    <2> QED BY <2>1
<1>8. PICK k \in same : \A j \in same : k <= j
    <2> HIDE DEF same
    <2> QED BY <1>6, <1>7, FirstOne
<1>9. k \in Payouts!Base(d, fn)
    BY <1>8 DEF Payouts!Base
<1>10. i \in Payouts!InFlight(d, fn)
    BY <1>5 DEF Payouts!InFlight
<1> QED BY <1>9, <1>10 DEF Payouts!Reused

\* What a row inserted behind the others leaves in place.
LEMMA InsertedFacts ==
    ASSUME NEW s \in Seq(Job), NEW r \in Job, NEW t, t = Append(s, r)
    PROVE  /\ t \in Seq(Job) /\ DOMAIN t = DOMAIN s \cup {Len(s) + 1}
           /\ t[Len(s) + 1] = r
           /\ \A j \in DOMAIN s : t[j] = s[j] /\ j # Len(s) + 1
<1> HIDE DEF Job
<1> QED OBVIOUS

\* A row that has been executed stays in its place.
LEMMA EndedFacts ==
    ASSUME NEW s \in Seq(Job), NEW i \in DOMAIN s, NEW u \in {"succeeded", "failed"},
           NEW t, t = [s EXCEPT ![i].status = u]
    PROVE  /\ t \in Seq(Job) /\ DOMAIN t = DOMAIN s /\ ~Payouts!Live(t[i])
           /\ \A j \in DOMAIN s : j # i => t[j] = s[j]
<1> DEFINE r == [s[i] EXCEPT !.status = u]
<1>1. s[i] \in Job
    OBVIOUS
<1>2. r \in Job /\ ~Payouts!Live(r)
    BY <1>1 DEF Job, Payouts!Live
<1>3. t = [s EXCEPT ![i] = r]
    OBVIOUS
<1> HIDE DEF r, Job
<1>4. t \in Seq(Job)
    BY <1>2, <1>3
<1> QED BY <1>2, <1>3, <1>4

\* A step changes the debts, their payments and rows in one of these ways.
LEMMA PayMoves ==
    ASSUME PayInv, [Payouts!Next]_(Payouts!vars)
    PROVE  \/ UNCHANGED <<over, pay, jobs>>
           \/ \E d \in Debts : Payouts!Ends(d)
           \/ \E d \in Debts : \E i \in DOMAIN jobs[d] : Payouts!Execute(d, i)
           \/ \E d \in Debts : \E fn \in CallsOf(d) :
                /\ UNCHANGED <<over, pay>>
                /\ ~Payouts!Reused(d, fn) /\ Payouts!Simulated(d, fn)
                /\ jobs' = [jobs EXCEPT ![d] =
                     Append(@, [fn |-> fn, att |-> Payouts!AttemptOf(d, fn), status |-> "queued"])]
<1>1. CASE \E d \in Debts : \/ Payouts!Index(d) \/ Payouts!Unblock(d) \/ Payouts!Due(d)
                            \/ Payouts!Process(d) \/ Payouts!Retry(d)
    BY <1>1, Zenon DEF Payouts!Index, Payouts!Unblock, Payouts!Due, Payouts!Process, Payouts!Retry,
                Payouts!chainVars
<1>2. CASE Payouts!Discover \/ Payouts!ProcessSave \/ Payouts!RetrySave \/ Payouts!Crash
    BY <1>2, Zenon DEF Payouts!Discover, Payouts!ProcessSave, Payouts!RetrySave, Payouts!Crash,
                Payouts!chainVars
<1>3. CASE Payouts!ProcessEnqueue
    <2>1. tick.d \in Debts /\ tick.fn \in CallsOf(tick.d)
        BY <1>3 DEF Payouts!ProcessEnqueue, PayInv, PayTypes
    <2>2. UNCHANGED <<over, pay>> /\ (UNCHANGED jobs \/ Payouts!Enqueued(tick.d, tick.fn))
        BY <1>3, Zenon DEF Payouts!ProcessEnqueue, Payouts!chainVars
    <2> QED BY <2>1, <2>2 DEF Payouts!Enqueued
<1>4. CASE Payouts!RetryEnqueue
    <2>1. user.d \in Debts /\ "retryPayout" \in CallsOf(user.d)
        BY <1>4 DEF Payouts!RetryEnqueue, PayInv, PayTypes, CallsOf
    <2>2. UNCHANGED <<over, pay>> /\ (UNCHANGED jobs \/ Payouts!Enqueued(user.d, "retryPayout"))
        BY <1>4, Zenon DEF Payouts!RetryEnqueue, Payouts!chainVars
    <2> QED BY <2>1, <2>2 DEF Payouts!Enqueued
<1>5. CASE \E d \in Debts : \E i \in 1..(MaxAttempt + MaxFailure + 2) : Payouts!Execute(d, i)
    BY <1>5, Zenon DEF Payouts!Execute
<1>6. CASE UNCHANGED Payouts!vars
    BY <1>6 DEF Payouts!vars
<1> QED BY <1>1, <1>2, <1>3, <1>4, <1>5, <1>6 DEF Payouts!Next

\* Every step keeps the shapes.
LEMMA PayTypesStep == PayInv /\ [Payouts!Next]_(Payouts!vars) => PayTypes'
<1> SUFFICES ASSUME PayInv, [Payouts!Next]_(Payouts!vars) PROVE PayTypes'
    OBVIOUS
<1>0. PayTypes
    BY DEF PayInv
<1>1. over' \in [Debts -> BOOLEAN] /\ pay' \in [Debts -> Payment] /\ jobs' \in [Debts -> Seq(Job)]
    <2>1. CASE UNCHANGED <<over, pay, jobs>>
        BY <1>0, <2>1 DEF PayTypes
    <2>2. ASSUME NEW d \in Debts, NEW p \in Payment
          PROVE  Payouts!Transferred(d, p) \in Payment
        <3>1. p.attempts + 1 \in Nat
            BY DEF Payment
        <3>2. [p EXCEPT !.st = 2] \in Payment
            BY DEF Payment
        <3> DEFINE q == [p EXCEPT !.st = 1]
        <3>3. q \in Payment /\ q.attempts = p.attempts
            BY DEF Payment
        <3> HIDE DEF q
        <3>4. [q EXCEPT !.attempts = p.attempts + 1] \in Payment
            BY <3>1, <3>3 DEF Payment
        <3> USE DEF q
        <3> QED BY <3>2, <3>4 DEF Payouts!Transferred
    <2>3. ASSUME NEW d \in Debts, Payouts!Ends(d)
          PROVE  over' \in [Debts -> BOOLEAN] /\ pay' \in [Debts -> Payment] /\ jobs' \in [Debts -> Seq(Job)]
        <3>1. pay[d] \in Payment
            BY <1>0 DEF PayTypes
        <3> QED BY <1>0, <2>2, <2>3, <3>1 DEF PayTypes, Payouts!Ends
    <2>4. ASSUME NEW d \in Debts, NEW i \in DOMAIN jobs[d], Payouts!Execute(d, i)
          PROVE  over' \in [Debts -> BOOLEAN] /\ pay' \in [Debts -> Payment] /\ jobs' \in [Debts -> Seq(Job)]
        <3>1. pay[d] \in Payment /\ jobs[d] \in Seq(Job) /\ UNCHANGED over
            BY <1>0, <2>4 DEF PayTypes, Payouts!Execute
        <3>2. pay' = pay \/ pay' = [pay EXCEPT ![d] = Payouts!Transferred(d, pay[d])]
            BY <2>4 DEF Payouts!Execute
        <3>3. pay' \in [Debts -> Payment]
            BY <1>0, <2>2, <3>1, <3>2 DEF PayTypes
        <3>4. PICK u \in {"succeeded", "failed"} : jobs' = [jobs EXCEPT ![d][i].status = u]
            BY <2>4 DEF Payouts!Execute
        <3>5. [jobs[d] EXCEPT ![i].status = u] \in Seq(Job)
            BY <3>1, EndedFacts
        <3>6. jobs' \in [Debts -> Seq(Job)]
            BY <1>0, <3>4, <3>5 DEF PayTypes
        <3> QED BY <1>0, <3>1, <3>3, <3>6 DEF PayTypes
    <2>5. ASSUME NEW d \in Debts, NEW fn \in CallsOf(d), UNCHANGED <<over, pay>>,
                 jobs' = [jobs EXCEPT ![d] =
                   Append(@, [fn |-> fn, att |-> Payouts!AttemptOf(d, fn), status |-> "queued"])]
          PROVE  over' \in [Debts -> BOOLEAN] /\ pay' \in [Debts -> Payment] /\ jobs' \in [Debts -> Seq(Job)]
        <3> DEFINE r == [fn |-> fn, att |-> Payouts!AttemptOf(d, fn), status |-> "queued"]
        <3>1. pay[d] \in Payment /\ jobs[d] \in Seq(Job)
            BY <1>0 DEF PayTypes
        <3>2. r \in Job
            BY <3>1 DEF Job, CallsOf, FirstCall, Payouts!AttemptOf, Payment
        <3>3. jobs' = [jobs EXCEPT ![d] = Append(jobs[d], r)]
            BY <2>5
        <3> HIDE DEF r
        <3>4. Append(jobs[d], r) \in Seq(Job)
            BY <3>1, <3>2, InsertedFacts
        <3> QED BY <1>0, <2>5, <3>3, <3>4 DEF PayTypes
    <2> QED BY <2>1, <2>3, <2>4, <2>5, PayMoves
<1>2. DOMAIN task' = Debts /\ \A d \in Debts : DOMAIN task'[d] = {"state", "attempts", "job", "hash", "due"}
    <2> DEFINE Kept == DOMAIN task' = Debts /\ \A d \in Debts : DOMAIN task'[d] = {"state", "attempts", "job", "hash", "due"}
    <2> SUFFICES Kept
        OBVIOUS
    <2>0. DOMAIN task = Debts /\ \A d \in Debts : DOMAIN task[d] = {"state", "attempts", "job", "hash", "due"}
        BY <1>0 DEF PayTypes
    <2>1. CASE UNCHANGED task
        BY <2>0, <2>1
    <2>2. CASE Payouts!Discover
        BY <2>0, <2>2 DEF Payouts!Discover, Payouts!NoTask
    <2>3. ASSUME NEW d \in Debts, Payouts!Due(d) PROVE Kept
        BY <2>0, <2>3 DEF Payouts!Due
    <2>4. ASSUME NEW d \in Debts, Payouts!Process(d) PROVE Kept
        BY <2>0, <2>4 DEF Payouts!Process, Payouts!Saved
    <2>5. CASE Payouts!ProcessEnqueue
        BY <2>0, <2>5 DEF Payouts!ProcessEnqueue, Payouts!Saved
    <2>6. CASE Payouts!ProcessSave \/ Payouts!RetrySave
        BY <2>0, <2>6 DEF Payouts!ProcessSave, Payouts!RetrySave, Payouts!Saved
    <2>7. CASE (\E d \in Debts : \/ Payouts!Ends(d) \/ Payouts!Index(d) \/ Payouts!Unblock(d) \/ Payouts!Retry(d)
                                 \/ \E i \in 1..(MaxAttempt + MaxFailure + 2) : Payouts!Execute(d, i))
               \/ Payouts!RetryEnqueue \/ Payouts!Crash
        <3>1. UNCHANGED task
            BY <2>7, Zenon DEF Payouts!Ends, Payouts!Index, Payouts!Unblock, Payouts!Retry, Payouts!Execute,
                               Payouts!RetryEnqueue, Payouts!Crash, Payouts!chainVars
        <3> QED BY <2>1, <3>1
    <2>8. CASE UNCHANGED Payouts!vars
        BY <2>1, <2>8 DEF Payouts!vars
    <2> HIDE DEF Kept
    <2> QED BY <2>2, <2>3, <2>4, <2>5, <2>6, <2>7, <2>8, Zenon DEF Payouts!Next
<1>3. /\ tick'.at \in {"idle", "enqueue", "save"} /\ user'.at \in {"idle", "enqueue", "save"}
      /\ tick'.at # "idle" => tick'.d \in Debts
      /\ user'.at # "idle" => user'.d \in Debts
      /\ tick'.at = "enqueue" => tick'.fn \in CallsOf(tick'.d)
    <2> DEFINE T == /\ tick'.at \in {"idle", "enqueue", "save"}
                    /\ tick'.at # "idle" => tick'.d \in Debts
                    /\ tick'.at = "enqueue" => tick'.fn \in CallsOf(tick'.d)
               U == /\ user'.at \in {"idle", "enqueue", "save"}
                    /\ user'.at # "idle" => user'.d \in Debts
    <2> SUFFICES T /\ U
        OBVIOUS
    <2>1. UNCHANGED tick => T
        BY <1>0 DEF PayTypes
    <2>2. UNCHANGED user => U
        BY <1>0 DEF PayTypes
    <2>3. tick' = Payouts!Idle => T
        BY DEF Payouts!Idle
    <2>4. user' = Payouts!Idle => U
        BY DEF Payouts!Idle
    <2>5. CASE \E d \in Debts : Payouts!Process(d)
        <3>1. PICK d \in Debts : Payouts!Process(d)
            BY <2>5
        <3>2. UNCHANGED user
            BY <3>1 DEF Payouts!Process
        <3>3. \/ UNCHANGED tick
              \/ \E fn \in CallsOf(d) : tick' = [at |-> "enqueue", d |-> d, fn |-> fn]
            BY <3>1 DEF Payouts!Process, CallsOf, FirstCall
        <3>4. T
            BY <2>1, <3>3
        <3> QED BY <2>2, <3>2, <3>4
    <2>6. CASE Payouts!ProcessEnqueue
        <3>1. UNCHANGED user /\ tick.d \in Debts
            BY <1>0, <2>6 DEF Payouts!ProcessEnqueue, PayTypes
        <3>2. \/ tick' = Payouts!Idle
              \/ \E x \in {Payouts!Answer(tick.d, tick.fn)} : tick' = [at |-> "save", d |-> tick.d, job |-> x]
            BY <2>6 DEF Payouts!ProcessEnqueue
        <3>3. T
            BY <2>3, <3>1, <3>2
        <3> QED BY <2>2, <3>1, <3>3
    <2>7. CASE Payouts!ProcessSave
        BY <2>2, <2>3, <2>7 DEF Payouts!ProcessSave
    <2>8. CASE \E d \in Debts : Payouts!Retry(d)
        <3>1. UNCHANGED tick /\ \E d \in Debts : user' = [at |-> "enqueue", d |-> d, attempts |-> pay[d].attempts]
            BY <2>8, Zenon DEF Payouts!Retry
        <3>2. U
            BY <3>1
        <3> QED BY <2>1, <3>1, <3>2
    <2>9. CASE Payouts!RetryEnqueue
        <3>1. UNCHANGED tick /\ user.d \in Debts
            BY <1>0, <2>9 DEF Payouts!RetryEnqueue, PayTypes
        <3>2. \/ user' = Payouts!Idle
              \/ \E x \in {Payouts!Answer(user.d, "retryPayout")} :
                    user' = [at |-> "save", d |-> user.d, attempts |-> user.attempts, job |-> x]
            BY <2>9 DEF Payouts!RetryEnqueue
        <3>3. U
            BY <2>4, <3>1, <3>2
        <3> QED BY <2>1, <3>1, <3>3
    <2>10. CASE Payouts!RetrySave
        BY <2>1, <2>4, <2>10 DEF Payouts!RetrySave
    <2>11. CASE Payouts!Crash
        BY <2>3, <2>4, <2>11 DEF Payouts!Crash
    <2>12. CASE (\E d \in Debts : \/ Payouts!Ends(d) \/ Payouts!Index(d) \/ Payouts!Unblock(d) \/ Payouts!Due(d)
                                  \/ \E i \in 1..(MaxAttempt + MaxFailure + 2) : Payouts!Execute(d, i))
                \/ Payouts!Discover \/ UNCHANGED Payouts!vars
        <3>1. UNCHANGED <<tick, user>>
            BY <2>12, Zenon DEF Payouts!Ends, Payouts!Index, Payouts!Unblock, Payouts!Due, Payouts!Execute,
                                Payouts!Discover, Payouts!chainVars, Payouts!vars
        <3> QED BY <2>1, <2>2, <3>1
    <2> HIDE DEF T, U
    <2> QED BY <2>5, <2>6, <2>7, <2>8, <2>9, <2>10, <2>11, <2>12, Zenon DEF Payouts!Next
<1> QED BY <1>1, <1>2, <1>3 DEF PayTypes

\* A row is inserted, or executed, when nothing else of its debt is in flight: at
\* most one row is, and what it asks for can still be done.
LEMMA FlightStep == PayInv /\ [Payouts!Next]_(Payouts!vars) => OneLive' /\ LiveFits' /\ NothingEarly'
<1> SUFFICES ASSUME PayInv, [Payouts!Next]_(Payouts!vars) PROVE OneLive' /\ LiveFits' /\ NothingEarly'
    OBVIOUS
<1>0. PayTypes /\ OneLive /\ LiveFits /\ NothingEarly
    BY DEF PayInv
<1>1. CASE UNCHANGED <<over, pay, jobs>>
    BY <1>0, <1>1 DEF OneLive, LiveFits, NothingEarly
<1>2. ASSUME NEW d \in Debts, Payouts!Ends(d)
      PROVE  OneLive' /\ LiveFits' /\ NothingEarly'
    <2>1. ~over[d] /\ jobs' = jobs /\ over' = [over EXCEPT ![d] = TRUE]
          /\ (pay' = pay \/ pay' = [pay EXCEPT ![d] = Payouts!Transferred(d, pay[d])])
        BY <1>2 DEF Payouts!Ends
    <2>2. jobs[d] = <<>>
        BY <1>0, <2>1 DEF NothingEarly
    <2>3. OneLive'
        BY <1>0, <2>1 DEF OneLive
    <2>4. \A e \in Debts : e # d => pay'[e] = pay[e] /\ over'[e] = over[e]
        BY <1>0, <2>1 DEF PayTypes
    <2>5. LiveFits'
        BY <1>0, <2>1, <2>2, <2>4 DEF LiveFits
    <2>6. NothingEarly'
        BY <1>0, <2>1, <2>4 DEF NothingEarly, PayTypes
    <2> QED BY <2>3, <2>5, <2>6
<1>3. ASSUME NEW d \in Debts, NEW i \in DOMAIN jobs[d], Payouts!Execute(d, i)
      PROVE  OneLive' /\ LiveFits' /\ NothingEarly'
    <2>1. /\ Payouts!Live(jobs[d][i]) /\ over' = over
          /\ pay' = pay \/ pay' = [pay EXCEPT ![d] = Payouts!Transferred(d, pay[d])]
        BY <1>3 DEF Payouts!Execute
    <2>2. PICK u \in {"succeeded", "failed"} : jobs' = [jobs EXCEPT ![d][i].status = u]
        BY <1>3 DEF Payouts!Execute
    <2>3. /\ jobs'[d] = [jobs[d] EXCEPT ![i].status = u]
          /\ \A e \in Debts : e # d => jobs'[e] = jobs[e] /\ pay'[e] = pay[e]
        BY <1>0, <2>1, <2>2 DEF PayTypes
    <2>4. jobs[d] \in Seq(Job)
        BY <1>0 DEF PayTypes
    <2>5. /\ DOMAIN jobs'[d] = DOMAIN jobs[d] /\ ~Payouts!Live(jobs'[d][i])
          /\ \A j \in DOMAIN jobs[d] : j # i => jobs'[d][j] = jobs[d][j]
        BY <2>3, <2>4, EndedFacts
    <2>6. \A j \in DOMAIN jobs'[d] : ~Payouts!Live(jobs'[d][j])
        BY <1>0, <2>1, <2>5 DEF OneLive
    <2>7. OneLive' /\ LiveFits'
        BY <1>0, <2>3, <2>6 DEF OneLive, LiveFits
    <2>8. over[d]
        BY <1>0, <2>4 DEF NothingEarly
    <2>9. NothingEarly'
        BY <1>0, <2>1, <2>3, <2>8 DEF NothingEarly
    <2> QED BY <2>7, <2>9
<1>4. ASSUME NEW d \in Debts, NEW fn \in CallsOf(d), UNCHANGED <<over, pay>>,
             ~Payouts!Reused(d, fn), Payouts!Simulated(d, fn),
             jobs' = [jobs EXCEPT ![d] =
               Append(@, [fn |-> fn, att |-> Payouts!AttemptOf(d, fn), status |-> "queued"])]
      PROVE  OneLive' /\ LiveFits' /\ NothingEarly'
    <2> DEFINE r == [fn |-> fn, att |-> Payouts!AttemptOf(d, fn), status |-> "queued"]
    <2>1. pay[d] \in Payment /\ jobs[d] \in Seq(Job)
        BY <1>0 DEF PayTypes
    <2>2. r \in Job /\ Fits(r, d, pay[d])
        BY <1>4, <2>1 DEF Job, CallsOf, FirstCall, Payouts!AttemptOf, Payment, Fits, Payouts!Simulated
    <2>3. /\ jobs'[d] = Append(jobs[d], r)
          /\ \A e \in Debts : e # d => jobs'[e] = jobs[e]
        BY <1>0, <1>4 DEF PayTypes
    <2> HIDE DEF r
    <2>4. /\ DOMAIN jobs'[d] = DOMAIN jobs[d] \cup {Len(jobs[d]) + 1}
          /\ jobs'[d][Len(jobs[d]) + 1] = r
          /\ \A j \in DOMAIN jobs[d] : jobs'[d][j] = jobs[d][j]
        BY <2>1, <2>2, <2>3, InsertedFacts
    <2>5. \A j \in DOMAIN jobs[d] : ~Payouts!Live(jobs[d][j])
        BY <1>4, InsertsAlone
    <2>6. \A j \in DOMAIN jobs'[d] : Payouts!Live(jobs'[d][j]) => j = Len(jobs[d]) + 1
        BY <2>4, <2>5
    <2>7. OneLive'
        BY <1>0, <2>3, <2>6 DEF OneLive
    <2>8. LiveFits'
        BY <1>0, <1>4, <2>2, <2>3, <2>4, <2>6 DEF LiveFits
    <2>9. over[d]
        BY <1>0, <1>4 DEF NothingEarly, Payouts!Simulated
    <2>10. NothingEarly'
        BY <1>0, <1>4, <2>3, <2>9 DEF NothingEarly
    <2> QED BY <2>7, <2>8, <2>10
<1> QED BY <1>1, <1>2, <1>3, <1>4, PayMoves

\* A payment that was made stays made.
LEMMA PaidStays ==
    ASSUME PayInv, [Payouts!Next]_(Payouts!vars), NEW d \in Debts, pay[d].st = 2
    PROVE  pay'[d].st = 2
<1>0. PayTypes /\ NothingEarly
    BY DEF PayInv
<1>1. CASE pay' = pay
    BY <1>1
<1>2. ASSUME NEW e \in Debts, Payouts!Ends(e) PROVE pay'[d].st = 2
    <2>1. ~over[e] /\ (pay' = pay \/ pay' = [pay EXCEPT ![e] = Payouts!Transferred(e, pay[e])])
        BY <1>2 DEF Payouts!Ends
    <2>2. e # d
        BY <1>0, <2>1 DEF NothingEarly
    <2> QED BY <1>0, <2>1, <2>2 DEF PayTypes
<1>3. ASSUME NEW e \in Debts, NEW i \in DOMAIN jobs[e], Payouts!Execute(e, i) PROVE pay'[d].st = 2
    <2>1. \/ pay' = pay
          \/ pay[e].st # 2 /\ pay' = [pay EXCEPT ![e] = Payouts!Transferred(e, pay[e])]
        BY <1>3 DEF Payouts!Execute
    <2> QED BY <1>0, <2>1 DEF PayTypes
<1> QED BY <1>1, <1>2, <1>3, PayMoves

\* What a task reports as settled was read from the chain in the same step.
LEMMA SettledStep == PayInv /\ [Payouts!Next]_(Payouts!vars) => Payouts!SettledIsTrue'
<1> SUFFICES ASSUME PayInv, [Payouts!Next]_(Payouts!vars) PROVE Payouts!SettledIsTrue'
    OBVIOUS
<1>0. PayTypes /\ Payouts!SettledIsTrue
    BY DEF PayInv
<1>00. DOMAIN task = Debts /\ \A d \in Debts : DOMAIN task[d] = {"state", "attempts", "job", "hash", "due"}
    BY <1>0 DEF PayTypes
\* Debt d is reported as before, or as the chain shows it.
<1> DEFINE True(d) == \/ task'[d].state = task[d].state
                      \/ task'[d].state \in {"pending", "processing", "delayed"}
                      \/ task'[d].state = "paid" /\ pay[d].st = 2
                      \/ task'[d].state = "no_payout" /\ ~Owed[d]
<1> SUFFICES \A e \in Debts : True(e)
    BY <1>0, PaidStays DEF Payouts!SettledIsTrue
<1>1. CASE UNCHANGED task
    BY <1>1
<1>2. ASSUME Payouts!Discover, NEW e \in Debts PROVE True(e)
    <2>1. task'[e].state \in {task[e].state, "pending"}
        BY <1>2 DEF Payouts!Discover, Payouts!NoTask
    <2> QED BY <2>1
<1>3. ASSUME NEW d \in Debts, Payouts!Due(d), NEW e \in Debts PROVE True(e)
    BY <1>00, <1>3 DEF Payouts!Due
<1>4. ASSUME NEW d \in Debts, Payouts!Process(d), NEW e \in Debts PROVE True(e)
    <2>1. e # d => task'[e] = task[e]
        BY <1>00, <1>4 DEF Payouts!Process, Payouts!Saved
    <2>2. True(d)
        BY <1>00, <1>4 DEF Payouts!Process, Payouts!Saved
    <2> QED BY <2>1, <2>2
<1>5. ASSUME Payouts!ProcessEnqueue, NEW e \in Debts PROVE True(e)
    <2>1. tick.d \in Debts
        BY <1>0, <1>5 DEF PayTypes, Payouts!ProcessEnqueue
    <2>2. task' = task \/ task' = Payouts!Saved(tick.d, "delayed")
        BY <1>5 DEF Payouts!ProcessEnqueue
    <2> QED BY <1>00, <2>1, <2>2 DEF Payouts!Saved
<1>6. ASSUME Payouts!ProcessSave, NEW e \in Debts PROVE True(e)
    <2>1. tick.d \in Debts
        BY <1>0, <1>6 DEF PayTypes, Payouts!ProcessSave
    <2>2. PICK s \in {"delayed", "processing"} : task' = [Payouts!Saved(tick.d, s) EXCEPT ![tick.d].job = tick.job]
        BY <1>6 DEF Payouts!ProcessSave
    <2> QED BY <1>00, <2>1, <2>2 DEF Payouts!Saved
<1>7. ASSUME Payouts!RetrySave, NEW e \in Debts PROVE True(e)
    <2>1. user.d \in Debts
        BY <1>0, <1>7 DEF PayTypes, Payouts!RetrySave
    <2> QED BY <1>00, <1>7, <2>1 DEF Payouts!RetrySave, Payouts!Saved
<1>8. CASE (\E d \in Debts : \/ Payouts!Ends(d) \/ Payouts!Index(d) \/ Payouts!Unblock(d) \/ Payouts!Retry(d)
                             \/ \E i \in 1..(MaxAttempt + MaxFailure + 2) : Payouts!Execute(d, i))
           \/ Payouts!RetryEnqueue \/ Payouts!Crash \/ UNCHANGED Payouts!vars
    <2>1. UNCHANGED task
        BY <1>8, Zenon DEF Payouts!Ends, Payouts!Index, Payouts!Unblock, Payouts!Retry, Payouts!Execute,
                           Payouts!RetryEnqueue, Payouts!Crash, Payouts!chainVars, Payouts!vars
    <2> QED BY <1>1, <2>1
<1> HIDE DEF True
<1> QED BY <1>2, <1>3, <1>4, <1>5, <1>6, <1>7, <1>8, Zenon DEF Payouts!Next

\* Every step of the worker, a retry, the journal and the chain keeps the invariant.
LEMMA PayStep == PayInv /\ [Payouts!Next]_(Payouts!vars) => PayInv'
BY PayTypesStep, FlightStep, SettledStep DEF PayInv

\* The cardinality of module FiniteSets is the one the worker's module uses.
LEMMA SameCardinality == ASSUME NEW S PROVE Payouts!Cardinality(S) = Cardinality(S)
BY DEF Payouts!Cardinality, Cardinality

\* What is at most one row has at most one member.
LEMMA OneTransferAtATime == PayInv => Payouts!OneTransfer
<1> SUFFICES ASSUME PayInv, NEW d \in Debts
             PROVE  Cardinality({i \in DOMAIN jobs[d] : Payouts!Live(jobs[d][i])}) <= 1
    BY SameCardinality DEF Payouts!OneTransfer
<1> DEFINE S == {i \in DOMAIN jobs[d] : Payouts!Live(jobs[d][i])}
<1>1. \A i, j \in S : i = j
    BY DEF PayInv, OneLive
<1>2. CASE S = {}
    BY <1>2, FS_EmptySet
<1>3. CASE S # {}
    <2>1. PICK i \in S : TRUE
        BY <1>3
    <2>2. S = {i}
        <3> HIDE DEF S
        <3> QED BY <1>1, <2>1
    <2> HIDE DEF S
    <2>3. Cardinality(S) = 1
        BY <2>2, FS_Singleton
    <2> QED BY <2>3 DEF S
<1> QED BY <1>2, <1>3

\* The inductive invariant of the payment worker, for every list of debts, every
\* number of refused transfers, of failing rows and of restarts.
THEOREM PayInvariance == Payouts!Spec => []PayInv
BY PayInit, PayStep, PTL DEF Payouts!Spec

\* A debt has one transfer in flight at most, and is reported settled only when it is.
THEOREM OneTransferInFlight == Payouts!Spec => [](Payouts!OneTransfer /\ Payouts!SettledIsTrue)
<1>1. PayInv => Payouts!OneTransfer /\ Payouts!SettledIsTrue
    BY OneTransferAtATime DEF PayInv
<1> QED BY <1>1, PayInvariance, PTL

-----------------------------------------------------------------------------
(***************************************************************************)
(* The sponsor queue.                                                      *)
(***************************************************************************)
\* The bounds are numbers, and no call is named like the other service's rows.
WriterConstants == "other" \notin Calls /\ MaxNonce \in Nat /\ MaxOther \in Nat

Statuses == {"none", "queued", "pending", "confirmed", "failed"}
Row == [status : Statuses, hash : BOOLEAN]
Intent == [status : {"none", "pending", "confirmed", "failed"}, nonce : Nat]
Signing == [at : {"journal"}, id : Writer!Ids, nonce : Nat]
           \cup [at : {"mark"}, id : Writer!Ids, nonce : Nat]
Watching == [at : {"row"}, id : Writer!Ids \cup Writer!Other, status : {"confirmed", "failed"}]
Jobs == Writer!Ids \cup Writer!Other

\* Rows, journal, chain and pumps keep their shapes.
WriterTypes ==
  /\ rows \in [Writer!Ids -> Row] /\ journal \in [Jobs -> Intent]
  /\ chain.next \in 0..MaxNonce
  /\ chain = [next |-> chain.next, done |-> chain.done] /\ DOMAIN chain.done = 0..(MaxNonce - 1)
  /\ intake \in {Writer!Idle} \cup [at : {"insert"}, id : Writer!Ids]
  /\ pump \in {Writer!Idle} \cup Signing
  /\ watch \in {Writer!Idle, [at |-> "join"]} \cup Watching
  /\ others \in 0..MaxOther

\* A journal row without a status was never written, and the other service numbers
\* its rows.
Unwritten ==
  /\ \A j \in Jobs : journal[j].status = "none" => journal[j] = Writer!NoJob
  /\ \A n \in 1..MaxOther : n > others => journal[<<"other", n>>].status = "none"

\* One pending row at most, under the nonce the chain expects next or one it has
\* executed; none while another is being signed.
OnePending ==
  /\ \A j, k \in Writer!PendingJobs : j = k
  /\ \A j \in Writer!PendingJobs : journal[j].nonce <= chain.next
  /\ pump.at = "journal" => Writer!PendingJobs = {} /\ pump.nonce = chain.next

\* Every nonce the chain has used was the journal's.
Executed ==
  \A n \in 0..(MaxNonce - 1) : n < chain.next =>
    /\ chain.done[n][1] \in Jobs
    /\ journal[chain.done[n][1]].status # "none" /\ journal[chain.done[n][1]].nonce = n

\* A row is in flight while it is being signed, and what is observed is over.
Flying(i) == rows[i].status \in {"queued", "pending"}
SignedInFlight ==
  /\ pump.at = "journal" /\ journal[pump.id] = Writer!NoJob => rows[pump.id].status = "queued"
  /\ pump.at = "mark" => /\ Flying(pump.id) /\ journal[pump.id].status = "pending"
                         /\ journal[pump.id].nonce = chain.next
  /\ watch.at = "row" => journal[watch.id].status \in {"confirmed", "failed"}
OneEach == \A i, k \in Writer!Ids : i[1] = k[1] /\ Flying(i) /\ Flying(k) => i = k

WriterInv == WriterTypes /\ Unwritten /\ OnePending /\ Executed /\ SignedInFlight /\ OneEach

\* The sponsor starts with empty tables.
LEMMA WriterInit == WriterConstants /\ Writer!Init => WriterInv
<1> SUFFICES ASSUME WriterConstants, Writer!Init PROVE WriterInv
    OBVIOUS
<1> USE DEF WriterConstants, Writer!Init, Writer!NoRow, Writer!NoJob, Writer!Idle, Jobs
<1>1. WriterTypes
    BY DEF WriterTypes, Row, Intent, Statuses
<1>2. Unwritten /\ OnePending
    BY DEF Unwritten, OnePending, Writer!PendingJobs, Writer!Other
<1>3. Executed /\ SignedInFlight /\ OneEach
    BY DEF Executed, SignedInFlight, OneEach, Flying
<1> QED BY <1>1, <1>2, <1>3 DEF WriterInv

\* The two services' rows have names of their own.
LEMMA NamesApart ==
  ASSUME WriterConstants, NEW n, NEW id \in Writer!Ids
  PROVE  <<"other", n>> # id
BY DEF WriterConstants, Writer!Ids

\* Intake changes rows that were in no one's hands.
LEMMA IntakeKeeps ==
  ASSUME WriterInv, NEW id \in Writer!Ids, Writer!Admitted(id),
         rows' = [rows EXCEPT ![id].status = "queued"],
         intake' \in {intake, Writer!Idle}, UNCHANGED <<journal, chain, pump, watch, others>>
  PROVE  WriterInv'
<1> USE DEF WriterInv
<1>1. rows[id] = Writer!NoRow /\ ~Flying(id) /\ id \in DOMAIN rows
    BY DEF Writer!Admitted, Writer!NoRow, Flying, WriterTypes
<1>2. /\ \A i \in Writer!Ids \ {id} : rows'[i] = rows[i]
      /\ rows'[id].status = "queued"
    BY <1>1 DEF WriterTypes, Row
<1>3. WriterTypes'
    BY DEF WriterTypes, Row, Statuses
<1>4. Unwritten' /\ OnePending' /\ Executed'
    BY DEF Unwritten, OnePending, Executed, Writer!PendingJobs
<1>5. SignedInFlight'
    <2>1. pump \in {Writer!Idle} \cup Signing
        BY DEF WriterTypes
    <2>2. pump.at \in {"journal", "mark"} => pump.id \in Writer!Ids
        BY <2>1 DEF Signing, Writer!Idle
    <2> QED BY <1>1, <1>2, <2>2 DEF SignedInFlight, Flying, Writer!NoRow
<1>6. OneEach'
    <2>1. \A i \in Writer!Ids : i[1] = id[1] => ~Flying(i)
        BY DEF Writer!Admitted, Writer!InFlight, Flying
    <2> QED BY <1>2, <2>1 DEF OneEach, Flying
<1> QED BY <1>3, <1>4, <1>5, <1>6

\* A replica takes an operation up when nothing of it is in flight.
LEMMA EnqueueKeeps ==
  ASSUME WriterInv, NEW id \in Writer!Ids, Writer!Enqueue(id)
  PROVE  WriterInv'
BY DEF WriterInv, WriterTypes, Unwritten, OnePending, Executed, SignedInFlight, OneEach, Flying,
       Writer!Enqueue, Writer!PendingJobs, Writer!Idle

\* A replica that did not see the other one's row takes the operation up beside it.
LEMMA EnqueueBesideKeeps ==
  ASSUME WriterInv, NEW id \in Writer!Ids, Writer!EnqueueBeside(id)
  PROVE  WriterInv'
BY IntakeKeeps DEF Writer!EnqueueBeside, Writer!Admitted

\* The insert of an operation that was admitted before.
LEMMA EnqueueInsertKeeps ==
  ASSUME WriterInv, Writer!EnqueueInsert
  PROVE  WriterInv'
<1>1. intake.id \in Writer!Ids
    BY DEF WriterInv, WriterTypes, Writer!EnqueueInsert, Writer!Idle
<1>2. CASE Writer!Admitted(intake.id)
    BY <1>1, <1>2, IntakeKeeps DEF Writer!EnqueueInsert
<1>3. CASE ~Writer!Admitted(intake.id)
    BY <1>3 DEF WriterInv, WriterTypes, Unwritten, OnePending, Executed, SignedInFlight, OneEach,
       Flying, Writer!EnqueueInsert, Writer!PendingJobs, Writer!Idle
<1> QED BY <1>2, <1>3

\* A row is chosen for the next nonce, or its simulation reverts.
LEMMA DispatchKeeps ==
  ASSUME WriterInv, NEW id \in Writer!Ids, Writer!Dispatch(id)
  PROVE  WriterInv'
<1> USE DEF WriterInv
<1>1. id \in DOMAIN rows /\ rows[id].status = "queued" /\ Writer!PendingJobs = {} /\ pump = Writer!Idle
    BY DEF Writer!Dispatch, Writer!Queued, Writer!MaySign, WriterTypes
<1>2. CASE pump' = [at |-> "journal", id |-> id, nonce |-> chain.next] /\ UNCHANGED rows
    <2>1. UNCHANGED <<rows, journal, chain, intake, watch, others>>
        BY <1>2 DEF Writer!Dispatch
    <2>2. WriterTypes' /\ Unwritten'
        BY <1>2, <2>1 DEF WriterTypes, Unwritten, Signing
    <2>3. OnePending'
        BY <1>1, <1>2, <2>1 DEF OnePending, Writer!PendingJobs
    <2>4. Executed' /\ SignedInFlight' /\ OneEach'
        BY <1>1, <1>2, <2>1 DEF Executed, SignedInFlight, OneEach, Flying
    <2> QED BY <2>2, <2>3, <2>4
<1>3. CASE rows' = [rows EXCEPT ![id].status = "failed"] /\ UNCHANGED pump
    <2>1. UNCHANGED <<journal, chain, intake, pump, watch, others>>
        BY <1>3 DEF Writer!Dispatch
    <2>2. WriterTypes'
        BY <1>3, <2>1 DEF WriterTypes, Row, Statuses
    <2>3. Unwritten' /\ OnePending' /\ Executed'
        BY <2>1 DEF Unwritten, OnePending, Executed, Writer!PendingJobs
    <2>4. SignedInFlight'
        BY <1>1, <2>1 DEF SignedInFlight, Writer!Idle
    <2>5. \A i \in Writer!Ids : Flying(i)' => Flying(i)
        BY <1>3 DEF Flying, WriterTypes
    <2>6. OneEach'
        BY <2>5 DEF OneEach
    <2> QED BY <2>2, <2>3, <2>4, <2>6
<1> QED BY <1>2, <1>3 DEF Writer!Dispatch

\* The bytes of a row are journaled once.
LEMMA DispatchJournalKeeps ==
  ASSUME WriterConstants, WriterInv, Writer!DispatchJournal
  PROVE  WriterInv'
<1> USE DEF WriterInv
<1> DEFINE id == pump.id
<1>1. /\ pump = [at |-> "journal", id |-> id, nonce |-> chain.next] /\ id \in Writer!Ids /\ id \in Jobs
      /\ Writer!PendingJobs = {} /\ chain.next \in Nat
    <2>1. pump \in [at : {"journal"}, id : Writer!Ids, nonce : Nat]
        BY DEF Writer!DispatchJournal, WriterTypes, Signing, Writer!Idle
    <2>2. pump.nonce = chain.next /\ Writer!PendingJobs = {}
        BY DEF Writer!DispatchJournal, OnePending
    <2> QED BY <2>1, <2>2 DEF Jobs, WriterTypes, WriterConstants
<1>2. UNCHANGED <<rows, chain, intake, watch, others>>
    BY DEF Writer!DispatchJournal
<1>3. CASE ~Writer!MayJournal(id)
    <2>1. UNCHANGED journal /\ pump' = Writer!Idle
        BY <1>3 DEF Writer!DispatchJournal
    <2> QED BY <1>2, <2>1 DEF WriterTypes, Unwritten, OnePending, Executed, SignedInFlight, OneEach,
           Flying, Writer!PendingJobs, Writer!Idle
<1>4. CASE Writer!MayJournal(id)
    <2> DEFINE job == [status |-> "pending", nonce |-> chain.next]
    <2>1. /\ journal' = [journal EXCEPT ![id] = job]
          /\ pump' = [at |-> "mark", id |-> id, nonce |-> chain.next]
        BY <1>1, <1>4 DEF Writer!DispatchJournal
    <2>2. /\ journal[id] = Writer!NoJob /\ journal'[id] = job
          /\ \A j \in Jobs \ {id} : journal'[j] = journal[j]
        BY <1>1, <1>4, <2>1 DEF Writer!MayJournal, WriterTypes
    <2>3. WriterTypes'
        BY <1>1, <1>2, <2>1 DEF WriterTypes, Intent, Signing
    <2>4. Unwritten'
        <3>1. \A n \in 1..MaxOther : <<"other", n>> \in Jobs \ {id}
            BY <1>1, NamesApart DEF Jobs, Writer!Other
        <3> QED BY <1>2, <2>2, <3>1 DEF Unwritten
    <2>5. OnePending'
        <3>1. \A j \in Jobs : journal[j].status # "pending"
            BY <1>1 DEF Writer!PendingJobs, WriterTypes
        <3>2. Writer!PendingJobs' = {id}
            BY <1>1, <2>2, <2>3, <3>1 DEF Writer!PendingJobs, WriterTypes
        <3> QED BY <1>1, <1>2, <2>1, <2>2, <3>2 DEF OnePending
    <2>6. Executed'
        <3>1. journal[id].status = "none"
            BY <2>2 DEF Writer!NoJob
        <3> QED BY <1>2, <2>2, <3>1 DEF Executed
    <2>7. SignedInFlight'
        <3>1. rows[id].status = "queued"
            BY <1>1, <2>2 DEF SignedInFlight
        <3>2. journal[id].status = "none"
            BY <2>2 DEF Writer!NoJob
        <3>3. watch.at = "row" => watch.id \in Jobs
            BY DEF WriterTypes, Watching, Writer!Idle, Jobs
        <3> QED BY <1>2, <2>1, <2>2, <3>1, <3>2, <3>3 DEF SignedInFlight, Flying
    <2>8. OneEach'
        BY <1>2 DEF OneEach, Flying
    <2> QED BY <2>3, <2>4, <2>5, <2>6, <2>7, <2>8
<1> QED BY <1>3, <1>4

\* The row of journaled bytes is marked.
LEMMA DispatchMarkKeeps ==
  ASSUME WriterInv, Writer!DispatchMark
  PROVE  WriterInv'
<1> USE DEF WriterInv
<1>1. pump.id \in Writer!Ids /\ Flying(pump.id) /\ pump' = Writer!Idle
    BY DEF Writer!DispatchMark, WriterTypes, Signing, Writer!Idle, SignedInFlight
<1>2. UNCHANGED <<journal, chain, intake, watch, others>>
    BY DEF Writer!DispatchMark
<1>3. WriterTypes'
    BY <1>1, <1>2 DEF Writer!DispatchMark, WriterTypes, Row, Statuses
<1>4. Unwritten' /\ OnePending' /\ Executed' /\ SignedInFlight'
    BY <1>1, <1>2 DEF Unwritten, OnePending, Executed, SignedInFlight, Writer!PendingJobs, Writer!Idle
<1>5. \A i \in Writer!Ids : Flying(i)' => Flying(i)
    BY <1>1 DEF Writer!DispatchMark, Flying, WriterTypes
<1>6. OneEach'
    BY <1>5 DEF OneEach
<1> QED BY <1>3, <1>4, <1>6

\* The chain executes the pending row that holds its next nonce.
LEMMA ExecuteKeeps ==
  ASSUME WriterConstants, WriterInv, NEW j \in Jobs, Writer!Execute(j)
  PROVE  WriterInv'
<1> USE DEF WriterInv
<1>1. UNCHANGED <<rows, journal, intake, pump, watch, others>>
    BY DEF Writer!Execute
<1>2. PICK ok \in BOOLEAN :
        chain' = [next |-> chain.next + 1, done |-> [chain.done EXCEPT ![chain.next] = <<j, ok>>]]
    BY DEF Writer!Execute
<1>3. /\ chain.next \in 0..(MaxNonce - 1) /\ journal[j].status = "pending"
      /\ journal[j].nonce = chain.next /\ j \in Writer!PendingJobs
    BY DEF Writer!Execute, WriterTypes, WriterConstants, Writer!PendingJobs
<1>4. /\ chain'.next = chain.next + 1 /\ chain'.done[chain.next] = <<j, ok>>
      /\ DOMAIN chain'.done = 0..(MaxNonce - 1)
      /\ \A n \in 0..(MaxNonce - 1) : n # chain.next => chain'.done[n] = chain.done[n]
      /\ chain' = [next |-> chain'.next, done |-> chain'.done]
    BY <1>2, <1>3 DEF WriterTypes
<1>5. WriterTypes'
    BY <1>1, <1>3, <1>4 DEF WriterTypes, WriterConstants
<1>6. Unwritten' /\ OneEach'
    BY <1>1 DEF Unwritten, OneEach, Flying
<1>7. pump.at \notin {"journal", "mark"}
    <2>1. pump.at # "journal"
        BY <1>3 DEF OnePending
    <2>2. CASE pump.at = "mark"
        <3>1. pump.id \in Writer!PendingJobs
            BY <2>2 DEF SignedInFlight, Writer!PendingJobs, WriterTypes, Signing, Writer!Idle, Jobs
        <3> QED BY <1>3, <2>2, <3>1 DEF OnePending, Writer!Execute
    <2> QED BY <2>1, <2>2
<1>8. OnePending'
    <2>1. \A k \in Writer!PendingJobs : k = j
        BY <1>3 DEF OnePending
    <2> QED BY <1>1, <1>3, <1>4, <1>7, <2>1 DEF OnePending, Writer!PendingJobs, WriterConstants
<1>9. Executed'
    BY <1>1, <1>3, <1>4 DEF Executed, WriterConstants
<1>10. SignedInFlight'
    BY <1>1, <1>7 DEF SignedInFlight
<1> QED BY <1>5, <1>6, <1>8, <1>9, <1>10

\* The other service signs when nothing is pending.
LEMMA OtherSignsKeeps ==
  ASSUME WriterConstants, WriterInv, Writer!OtherSigns
  PROVE  WriterInv'
<1> USE DEF WriterInv
<1> DEFINE id == <<"other", others + 1>>
           job == [status |-> "pending", nonce |-> chain.next]
<1>1. UNCHANGED <<rows, chain, intake, pump, watch>> /\ others' = others + 1 /\ pump = Writer!Idle
    BY DEF Writer!OtherSigns
<1>2. others \in Nat /\ others + 1 \in 1..MaxOther /\ chain.next \in Nat
    BY DEF Writer!OtherSigns, WriterTypes, WriterConstants
<1>3. id \in Jobs /\ journal[id].status = "none"
    BY <1>2 DEF Jobs, Writer!Other, Unwritten
<1>4. journal' = [journal EXCEPT ![id] = job]
    BY DEF Writer!OtherSigns
<1>5. journal'[id] = job /\ \A j \in Jobs \ {id} : journal'[j] = journal[j]
    BY <1>3, <1>4 DEF WriterTypes
<1>6. WriterTypes'
    BY <1>1, <1>2, <1>3, <1>4 DEF WriterTypes, Intent
<1>7. Unwritten'
    <2>1. \A n \in 1..MaxOther : n > others + 1 => <<"other", n>> \in Jobs \ {id} /\ n > others
        BY <1>2 DEF Jobs, Writer!Other
    <2> QED BY <1>1, <1>5, <2>1 DEF Unwritten
<1>8. OnePending'
    <2>1. \A j \in Jobs : journal[j].status # "pending"
        BY DEF Writer!PendingJobs, WriterTypes, Writer!OtherSigns
    <2>2. Writer!PendingJobs' = {id}
        BY <1>3, <1>5, <1>6, <2>1 DEF Writer!PendingJobs, WriterTypes
    <2> QED BY <1>1, <1>2, <1>5, <2>2 DEF OnePending, Writer!Idle
<1>9. Executed'
    BY <1>1, <1>3, <1>5 DEF Executed
<1>10. SignedInFlight'
    <2>1. watch.at = "row" => watch.id \in Jobs
        BY DEF WriterTypes, Watching, Writer!Idle, Jobs
    <2> QED BY <1>1, <1>3, <1>5, <2>1 DEF SignedInFlight, Writer!Idle
<1>11. OneEach'
    BY <1>1 DEF OneEach, Flying
<1> QED BY <1>6, <1>7, <1>8, <1>9, <1>10, <1>11

\* A receipt settles the journal's row.
LEMMA ObserveJournalKeeps ==
  ASSUME WriterConstants, WriterInv, NEW j \in Jobs, Writer!ObserveJournal(j)
  PROVE  WriterInv'
<1> USE DEF WriterInv
<1> DEFINE ended == Writer!Outcome(j)
<1>1. /\ UNCHANGED <<rows, chain, intake, pump, others>> /\ watch' = [at |-> "row", id |-> j, status |-> ended]
      /\ journal[j].status = "pending" /\ journal[j].nonce < chain.next
      /\ ended \in {"confirmed", "failed"}
    BY DEF Writer!ObserveJournal, Writer!Outcome, Writer!Receipt
<1>2. /\ journal' = [journal EXCEPT ![j] = [journal[j] EXCEPT !.status = ended]]
      /\ \A k \in Jobs \ {j} : journal'[k] = journal[k]
      /\ journal'[j] = [status |-> ended, nonce |-> journal[j].nonce] /\ journal[j].nonce \in Nat
    <2>1. journal' = [journal EXCEPT ![j] = [journal[j] EXCEPT !.status = ended]]
        BY DEF Writer!ObserveJournal
    <2>2. journal[j] \in Intent
        BY DEF WriterTypes
    <2> QED BY <2>1, <2>2 DEF WriterTypes, Intent
<1>3. WriterTypes'
    BY <1>1, <1>2 DEF WriterTypes, Intent, Watching, Jobs
<1>4. Unwritten'
    BY <1>1, <1>2 DEF Unwritten, Jobs, Writer!Other
<1>5. Writer!PendingJobs' \subseteq Writer!PendingJobs
    BY <1>1, <1>2, <1>3 DEF Writer!PendingJobs, WriterTypes
<1>6. OnePending'
    BY <1>1, <1>2, <1>5 DEF OnePending, Writer!PendingJobs, WriterTypes
<1>7. Executed'
    BY <1>1, <1>2 DEF Executed
<1>8. SignedInFlight'
    <2>1. pump.at = "mark" => pump.id # j /\ pump.id \in Jobs
        BY <1>1 DEF SignedInFlight, WriterTypes, WriterConstants, Signing, Writer!Idle, Jobs
    <2>2. pump.at = "journal" => pump.id \in Jobs
        BY DEF WriterTypes, Signing, Writer!Idle, Jobs
    <2>3. journal'[j] # Writer!NoJob
        BY <1>1, <1>2 DEF Writer!NoJob
    <2> QED BY <1>1, <1>2, <2>1, <2>2, <2>3 DEF SignedInFlight, Flying
<1>9. OneEach'
    BY <1>1 DEF OneEach, Flying
<1> QED BY <1>3, <1>4, <1>6, <1>7, <1>8, <1>9

\* A receipt settles the row of its hash.
LEMMA ObserveRowKeeps ==
  ASSUME WriterInv, Writer!ObserveRow
  PROVE  WriterInv'
<1> USE DEF WriterInv
<1>1. /\ UNCHANGED <<journal, chain, intake, pump, others>> /\ watch' = [at |-> "join"]
      /\ watch \in Watching
    BY DEF Writer!ObserveRow, WriterTypes, Writer!Idle
<1>2. Unwritten' /\ OnePending' /\ Executed'
    BY <1>1 DEF Unwritten, OnePending, Executed, Writer!PendingJobs
<1>3. CASE UNCHANGED rows
    BY <1>1, <1>2, <1>3 DEF WriterTypes, SignedInFlight, OneEach, Flying
<1>4. CASE /\ watch.id \in Writer!Ids /\ rows[watch.id].status = "pending"
           /\ rows' = [rows EXCEPT ![watch.id].status = watch.status]
    <2>1. WriterTypes'
        BY <1>1, <1>4 DEF WriterTypes, Row, Statuses, Watching
    <2>2. \A i \in Writer!Ids : /\ Flying(i)' => Flying(i)
                                /\ i # watch.id => rows'[i] = rows[i]
        BY <1>4 DEF Flying, WriterTypes
    <2>3. OneEach'
        BY <2>2 DEF OneEach
    <2>4. SignedInFlight'
        <3>1. pump.at \in {"journal", "mark"} => pump.id \in Writer!Ids
            BY DEF WriterTypes, Signing, Writer!Idle
        <3>2. pump.at = "mark" => pump.id # watch.id
            BY <1>1 DEF SignedInFlight, Watching
        <3>3. pump.at = "journal" /\ journal[pump.id] = Writer!NoJob => pump.id # watch.id
            BY <1>4 DEF SignedInFlight
        <3> QED BY <1>1, <2>2, <3>1, <3>2, <3>3 DEF SignedInFlight, Flying
    <2> QED BY <1>2, <2>1, <2>3, <2>4
<1> QED BY <1>3, <1>4 DEF Writer!ObserveRow

\* Rows whose bytes are journaled take the journal's word.
LEMMA ObserveJoinKeeps ==
  ASSUME WriterInv, Writer!ObserveJoin
  PROVE  WriterInv'
<1> USE DEF WriterInv
<1>1. /\ UNCHANGED <<journal, chain, intake, pump, others>> /\ watch' = Writer!Idle
      /\ rows' = [i \in Writer!Ids |-> IF Writer!Joined(i)
                    THEN [status |-> journal[i].status, hash |-> TRUE] ELSE rows[i]]
    BY DEF Writer!ObserveJoin
<1>2. Unwritten' /\ OnePending' /\ Executed'
    BY <1>1 DEF Unwritten, OnePending, Executed, Writer!PendingJobs
<1>3. WriterTypes'
    <2>1. \A i \in Writer!Ids : journal[i].status \in Statuses
        BY DEF WriterTypes, Intent, Jobs, Statuses
    <2> QED BY <1>1, <2>1 DEF WriterTypes, Row
<1>4. \A i \in Writer!Ids : Flying(i)' => Flying(i)
    BY <1>1 DEF Flying, Writer!Joined
<1>5. OneEach'
    BY <1>4 DEF OneEach
<1>6. SignedInFlight'
    <2>1. pump.at \in {"journal", "mark"} => pump.id \in Writer!Ids
        BY DEF WriterTypes, Signing, Writer!Idle
    <2> QED BY <1>1, <2>1 DEF SignedInFlight, Flying, Writer!Joined, Writer!Idle
<1> QED BY <1>2, <1>3, <1>5, <1>6

\* A restart forgets what the pumps were doing.
LEMMA CrashKeeps ==
  ASSUME WriterInv, Writer!Crash
  PROVE  WriterInv'
BY DEF WriterInv, WriterTypes, Unwritten, OnePending, Executed, SignedInFlight, OneEach, Flying,
   Writer!Crash, Writer!PendingJobs, Writer!Idle

\* Every step of the writer keeps its invariant.
LEMMA WriterStep == WriterConstants /\ WriterInv /\ [Writer!Next]_(Writer!vars) => WriterInv'
<1> SUFFICES ASSUME WriterConstants, WriterInv, [Writer!Next]_(Writer!vars) PROVE WriterInv'
    OBVIOUS
<1>1. DOMAIN journal = Jobs
    BY DEF WriterInv, WriterTypes
<1>2. CASE Writer!Next
    BY <1>1, <1>2, EnqueueKeeps, EnqueueBesideKeeps, DispatchKeeps, EnqueueInsertKeeps,
       DispatchJournalKeeps, DispatchMarkKeeps, ExecuteKeeps, ObserveJournalKeeps, OtherSignsKeeps,
       ObserveRowKeeps, ObserveJoinKeeps, CrashKeeps DEF Writer!Next
<1>3. CASE UNCHANGED Writer!vars
    BY <1>3 DEF WriterInv, WriterTypes, Unwritten, OnePending, Executed, SignedInFlight, OneEach,
       Flying, Writer!vars, Writer!PendingJobs
<1> QED BY <1>2, <1>3

\* The promises of the sponsor's queue.
LEMMA SignedOnceFacts ==
  WriterConstants /\ WriterInv =>
    Writer!NonceHeldOnce /\ Writer!SponsoredOnce /\ Writer!OneInFlight
<1> SUFFICES ASSUME WriterConstants, WriterInv
             PROVE  Writer!NonceHeldOnce /\ Writer!SponsoredOnce /\ Writer!OneInFlight
    OBVIOUS
<1>1. Writer!NonceHeldOnce
    BY DEF WriterInv, OnePending, Writer!NonceHeldOnce
<1>2. Writer!SponsoredOnce
    <2> SUFFICES ASSUME NEW n \in 0..(MaxNonce - 1), NEW k \in 0..(MaxNonce - 1), n < k, k < chain.next
                 PROVE  chain.done[n][1] # chain.done[k][1]
        BY DEF Writer!SponsoredOnce
    <2>1. chain.next \in Nat /\ n < chain.next
        BY DEF WriterInv, WriterTypes, WriterConstants
    <2> QED BY <2>1 DEF WriterInv, Executed
<1>3. Writer!OneInFlight
    <2> SUFFICES ASSUME NEW call \in Calls PROVE Writer!Cardinality(Writer!InFlight(call)) <= 1
        BY DEF Writer!OneInFlight
    <2>1. \A i, k \in Writer!InFlight(call) : i = k
        BY DEF WriterInv, OneEach, Flying, Writer!InFlight
    <2>2. CASE Writer!InFlight(call) = {}
        BY <2>2, FS_EmptySet DEF Cardinality, Writer!Cardinality
    <2>3. CASE Writer!InFlight(call) # {}
        <3>1. PICK i : Writer!InFlight(call) = {i}
            BY <2>1, <2>3
        <3>2. Cardinality({i}) = 1
            BY FS_Singleton
        <3>3. Writer!Cardinality(Writer!InFlight(call)) = Cardinality({i})
            BY <3>1 DEF Cardinality, Writer!Cardinality
        <3> QED BY <3>2, <3>3
    <2> QED BY <2>2, <2>3
<1> QED BY <1>1, <1>2, <1>3

\* The inductive invariant of the sponsor's queue, for all calls, contexts and bounds.
THEOREM WriterInvariance == WriterConstants => (Writer!Spec => []WriterInv)
<1> SUFFICES ASSUME WriterConstants PROVE Writer!Spec => []WriterInv
    OBVIOUS
<1>1. Writer!Init => WriterInv
    BY WriterInit
<1>2. WriterInv /\ [Writer!Next]_(Writer!vars) => WriterInv'
    BY WriterStep
<1> QED BY <1>1, <1>2, PTL DEF Writer!Spec

\* A sponsored operation is signed once and executed once, under a nonce of its own,
\* and one of its calldata is in flight.
THEOREM OperationsSignedOnce ==
  WriterConstants =>
    (Writer!Spec => [](Writer!NonceHeldOnce /\ Writer!SponsoredOnce /\ Writer!OneInFlight))
<1> SUFFICES ASSUME WriterConstants
             PROVE  Writer!Spec => [](Writer!NonceHeldOnce /\ Writer!SponsoredOnce /\ Writer!OneInFlight)
    OBVIOUS
<1>1. WriterInv => Writer!NonceHeldOnce /\ Writer!SponsoredOnce /\ Writer!OneInFlight
    BY SignedOnceFacts
<1>2. Writer!Spec => []WriterInv
    BY WriterInvariance
<1> QED BY <1>1, <1>2, PTL

-----------------------------------------------------------------------------
(***************************************************************************)
(* The contract authority's maintenance executor.                          *)
(***************************************************************************)
Request == [at : {"journal", "reconcile", "sponsor", "simulate", "enqueue"},
            id : Executor!Ids, task : Executor!Tasks]

\* The requests, the journal and the transactions keep their shapes.
ExecutorTypes ==
  /\ work \in [Callers -> {Executor!Idle} \cup Request]
  /\ sent \in [Executor!Ids -> {"missing", "submitted", "confirmed", "failed"}]
  /\ outcome \in [Executor!Ids -> {"missing", "confirmed", "failed"}]
  /\ live \in [Executor!Ids -> Nat]

\* One caller at a time asks for a request.
OneAsker ==
  \A p, q \in Callers :
    work[p] # Executor!Idle /\ work[q] # Executor!Idle /\ work[p].id = work[q].id => p = q

\* What may still execute is known to the journal, and a request that goes on has
\* nothing that may.
LiveIsSent == \A i \in Executor!Ids : live[i] > 0 => live[i] = 1 /\ sent[i] = "submitted"
OnwardIsFree ==
  \A p \in Callers : work[p].at \in {"sponsor", "simulate", "enqueue"} => live[work[p].id] = 0

ExecutorInv == ExecutorTypes /\ OneAsker /\ LiveIsSent /\ OnwardIsFree

\* The executor starts with no request and an empty journal.
LEMMA ExecutorInit == MaxCycle \in Nat /\ Executor!Init => ExecutorInv
BY DEF Executor!Init, ExecutorInv, ExecutorTypes, OneAsker, LiveIsSent, OnwardIsFree, Executor!Idle

\* A step of one caller's request that leaves the transactions alone.
LEMMA RequestKeeps ==
  ASSUME ExecutorInv, NEW p \in Callers, work[p] # Executor!Idle, NEW next,
         next = Executor!Idle \/ (next \in Request /\ next.id = work[p].id),
         work' = [work EXCEPT ![p] = next], UNCHANGED <<live, outcome>>,
         ExecutorTypes', LiveIsSent',
         next.at \in {"sponsor", "simulate", "enqueue"} => live[work[p].id] = 0
  PROVE  ExecutorInv'
<1> USE DEF ExecutorInv
<1>1. \A q \in Callers : work'[q] = IF q = p THEN next ELSE work[q]
    BY DEF ExecutorTypes
<1>2. OneAsker'
    BY <1>1 DEF OneAsker
<1>3. OnwardIsFree'
    BY <1>1 DEF OnwardIsFree, Executor!Idle
<1> QED BY <1>2, <1>3

\* A caller at work has a request.
LEMMA AtWork ==
  ASSUME ExecutorInv, NEW p \in Callers, work[p].at # "idle"
  PROVE  work[p] \in Request /\ work[p] # Executor!Idle
BY DEF ExecutorInv, ExecutorTypes, Executor!Idle

\* Where the onward step leads.
LEMMA OnwardKeeps ==
  ASSUME ExecutorInv, NEW p \in Callers, work[p] \in Request, work[p] # Executor!Idle, NEW state,
         Executor!Onward(p, state), UNCHANGED <<live, outcome>>,
         LiveIsSent', sent' \in [Executor!Ids -> {"missing", "submitted", "confirmed", "failed"}],
         Executor!Replaceable(state) => live[work[p].id] = 0
  PROVE  ExecutorInv'
<1> DEFINE next == IF Executor!Replaceable(state) THEN [work[p] EXCEPT !.at = "sponsor"] ELSE Executor!Idle
<1>1. work' = [work EXCEPT ![p] = next]
    BY DEF Executor!Onward
<1>2. next = Executor!Idle \/ (next \in Request /\ next.id = work[p].id)
    BY DEF Request
<1>3. next.at \in {"sponsor", "simulate", "enqueue"} => live[work[p].id] = 0
    BY DEF Executor!Idle
<1>4. ExecutorTypes'
    BY <1>1, <1>2 DEF ExecutorInv, ExecutorTypes
<1> QED BY <1>1, <1>2, <1>3, <1>4, RequestKeeps

\* A caller asks for what no caller asks for.
LEMMA AskKeeps ==
  ASSUME MaxCycle \in Nat, ExecutorInv, NEW p \in Callers, NEW t \in Executor!Tasks, Executor!Ask(p, t)
  PROVE  ExecutorInv'
<1> USE DEF ExecutorInv
<1> DEFINE id == Executor!RequestId(t)
           next == [at |-> "journal", id |-> id, task |-> t]
<1>1. /\ work' = [work EXCEPT ![p] = next] /\ UNCHANGED <<live, outcome, sent>>
      /\ \A q \in Callers : work[q] # Executor!Idle => work[q].id # id
    BY DEF Executor!Ask, Executor!InFlight
<1>2. id \in Executor!Ids
    BY DEF Executor!RequestId, Executor!Ids, Executor!Tasks
<1>3. ExecutorTypes' /\ LiveIsSent'
    BY <1>1, <1>2 DEF ExecutorTypes, Request, LiveIsSent
<1>4. \A q \in Callers : work'[q] = IF q = p THEN next ELSE work[q]
    BY <1>1 DEF ExecutorTypes
<1>5. OneAsker'
    BY <1>1, <1>4 DEF OneAsker
<1>6. OnwardIsFree'
    BY <1>1, <1>4 DEF OnwardIsFree
<1> QED BY <1>3, <1>5, <1>6

\* A journaled submission is reconciled, any other state goes on.
LEMMA ReadJournalKeeps ==
  ASSUME ExecutorInv, NEW p \in Callers, Executor!ReadJournal(p)
  PROVE  ExecutorInv'
<1>1. /\ work[p] \in Request /\ work[p] # Executor!Idle
      /\ UNCHANGED <<live, outcome, sent>> /\ LiveIsSent'
    BY AtWork DEF Executor!ReadJournal, ExecutorInv, LiveIsSent
<1>2. CASE sent[work[p].id] = "submitted"
    <2> DEFINE next == [work[p] EXCEPT !.at = "reconcile"]
    <2>1. work' = [work EXCEPT ![p] = next]
        BY <1>2 DEF Executor!ReadJournal
    <2>2. next \in Request /\ next.id = work[p].id /\ next.at = "reconcile"
        BY <1>1 DEF Request
    <2>3. ExecutorTypes'
        BY <1>1, <2>1, <2>2 DEF ExecutorInv, ExecutorTypes
    <2> HIDE DEF next
    <2> QED BY <1>1, <2>1, <2>2, <2>3, RequestKeeps
<1>3. CASE sent[work[p].id] # "submitted"
    <2>1. Executor!Onward(p, sent[work[p].id])
        BY <1>3 DEF Executor!ReadJournal
    <2>2. live[work[p].id] = 0
        BY <1>1, <1>3 DEF ExecutorInv, ExecutorTypes, LiveIsSent, Request
    <2>3. sent' \in [Executor!Ids -> {"missing", "submitted", "confirmed", "failed"}]
        BY <1>1 DEF ExecutorInv, ExecutorTypes
    <2> QED BY <1>1, <2>1, <2>2, <2>3, OnwardKeeps
<1> QED BY <1>2, <1>3

\* The outcome of a journaled submission decides whether the request goes on.
LEMMA ReconcileKeeps ==
  ASSUME ExecutorInv, NEW p \in Callers, Executor!Reconcile(p)
  PROVE  ExecutorInv'
<1> DEFINE id == work[p].id
           state == IF live[id] > 0 THEN "submitted" ELSE outcome[id]
<1>1. /\ work[p] \in Request /\ work[p] # Executor!Idle /\ UNCHANGED <<live, outcome>>
      /\ sent' = [sent EXCEPT ![id] = state] /\ Executor!Onward(p, state)
    BY AtWork DEF Executor!Reconcile
<1>2. id \in Executor!Ids /\ live[id] \in Nat
    BY <1>1 DEF Request, ExecutorInv, ExecutorTypes
<1>3. sent' \in [Executor!Ids -> {"missing", "submitted", "confirmed", "failed"}]
    BY <1>1, <1>2 DEF ExecutorInv, ExecutorTypes
<1>4. LiveIsSent'
    BY <1>1, <1>2 DEF ExecutorInv, ExecutorTypes, LiveIsSent
<1>5. Executor!Replaceable(state) => live[id] = 0
    BY <1>2 DEF Executor!Replaceable
<1> QED BY <1>1, <1>3, <1>4, <1>5, OnwardKeeps

\* A request waits, goes on to the simulation or to the journal, or ends.
LEMMA SponsorKeeps ==
  ASSUME ExecutorInv, NEW p \in Callers,
         Executor!SponsorAvailable(p) \/ Executor!WaitForSponsor(p) \/ Executor!Simulate(p)
  PROVE  ExecutorInv'
<1>1. /\ work[p] \in Request /\ work[p] # Executor!Idle
      /\ UNCHANGED <<live, outcome, sent>> /\ LiveIsSent' /\ live[work[p].id] = 0
    BY AtWork DEF Executor!SponsorAvailable, Executor!WaitForSponsor, Executor!Simulate, ExecutorInv,
       LiveIsSent, OnwardIsFree
<1>2. PICK next : /\ work' = [work EXCEPT ![p] = next]
                  /\ next \in {Executor!Idle, [work[p] EXCEPT !.at = "simulate"],
                               [work[p] EXCEPT !.at = "enqueue"]}
    BY DEF Executor!SponsorAvailable, Executor!WaitForSponsor, Executor!Simulate
<1>3. next = Executor!Idle \/ (next \in Request /\ next.id = work[p].id)
    BY <1>1, <1>2 DEF Request
<1>4. ExecutorTypes'
    BY <1>1, <1>2, <1>3 DEF ExecutorInv, ExecutorTypes
<1> QED BY <1>1, <1>2, <1>3, <1>4, RequestKeeps

\* The transaction is journaled before it is sent.
LEMMA SponsoredEnqueueKeeps ==
  ASSUME ExecutorInv, NEW p \in Callers, Executor!SponsoredEnqueue(p)
  PROVE  ExecutorInv'
<1> USE DEF ExecutorInv
<1> DEFINE id == work[p].id
<1>1. work[p] \in Request /\ work[p] # Executor!Idle /\ id \in Executor!Ids /\ live[id] = 0
    BY AtWork DEF Executor!SponsoredEnqueue, OnwardIsFree, Request
<1>2. /\ work' = [work EXCEPT ![p] = Executor!Idle] /\ UNCHANGED outcome
      /\ sent' = [sent EXCEPT ![id] = "submitted"] /\ live' = [live EXCEPT ![id] = live[id] + 1]
    BY DEF Executor!SponsoredEnqueue
<1>3. ExecutorTypes' /\ LiveIsSent'
    BY <1>1, <1>2 DEF ExecutorTypes, LiveIsSent
<1>4. \A q \in Callers : work'[q] = IF q = p THEN Executor!Idle ELSE work[q]
    BY <1>2 DEF ExecutorTypes
<1>5. OneAsker'
    BY <1>4 DEF OneAsker
<1>6. OnwardIsFree'
    <2> SUFFICES ASSUME NEW q \in Callers, work'[q].at \in {"sponsor", "simulate", "enqueue"}
                 PROVE  live'[work'[q].id] = 0
        BY DEF OnwardIsFree
    <2>1. q # p /\ work'[q] = work[q] /\ work[q] # Executor!Idle
        BY <1>4 DEF Executor!Idle
    <2>2. work[q].id # id /\ work[q].id \in Executor!Ids
        BY <1>1, <2>1 DEF OneAsker, ExecutorTypes, Request
    <2> QED BY <1>2, <2>1, <2>2 DEF OnwardIsFree, ExecutorTypes
<1> QED BY <1>3, <1>5, <1>6

\* A transaction executes or reverts; either way it is gone.
LEMMA ExecuteTaskKeeps ==
  ASSUME MaxCycle \in Nat, ExecutorInv, NEW t \in Executor!Tasks, Executor!Execute(t)
  PROVE  ExecutorInv'
<1> USE DEF ExecutorInv
<1> DEFINE id == Executor!RequestId(t)
<1>1. id \in Executor!Ids
    BY DEF Executor!RequestId, Executor!Ids, Executor!Tasks
<1>2. /\ live[id] > 0 /\ live' = [live EXCEPT ![id] = live[id] - 1] /\ UNCHANGED <<work, sent>>
      /\ outcome' \in {[outcome EXCEPT ![id] = "confirmed"], [outcome EXCEPT ![id] = "failed"]}
    BY DEF Executor!Execute
<1>3. ExecutorTypes' /\ LiveIsSent'
    BY <1>1, <1>2 DEF ExecutorTypes, LiveIsSent
<1>4. OneAsker'
    BY <1>2 DEF OneAsker
<1>5. OnwardIsFree'
    BY <1>1, <1>2 DEF OnwardIsFree, ExecutorTypes, Request, Executor!Idle
<1> QED BY <1>3, <1>4, <1>5

\* Every step of the executor keeps its invariant.
LEMMA ExecutorStep ==
  MaxCycle \in Nat /\ ExecutorInv /\ [Executor!Next]_(Executor!vars) => ExecutorInv'
<1> SUFFICES ASSUME MaxCycle \in Nat, ExecutorInv, [Executor!Next]_(Executor!vars) PROVE ExecutorInv'
    OBVIOUS
<1>1. CASE Executor!Crash
    BY <1>1 DEF Executor!Crash, ExecutorInv, ExecutorTypes, OneAsker, LiveIsSent, OnwardIsFree,
       Executor!Idle
<1>2. ASSUME NEW p \in Callers, Executor!Request(p) PROVE ExecutorInv'
    BY <1>2, ReadJournalKeeps, ReconcileKeeps, SponsorKeeps, SponsoredEnqueueKeeps DEF Executor!Request
<1>3. CASE UNCHANGED Executor!vars
    BY <1>3 DEF Executor!vars, ExecutorInv, ExecutorTypes, OneAsker, LiveIsSent, OnwardIsFree
<1> QED BY <1>1, <1>2, <1>3, AskKeeps, ExecuteTaskKeeps DEF Executor!Next

\* The journal knows what is live, so one transaction of a task may execute.
LEMMA OneTransactionFact == ExecutorInv => Executor!OneTransaction
BY DEF ExecutorInv, ExecutorTypes, LiveIsSent, Executor!OneTransaction

\* The inductive invariant of the executor, for all callers, cycles and faults.
THEOREM ExecutorInvariance == MaxCycle \in Nat => (Executor!Spec => []ExecutorInv)
<1> SUFFICES ASSUME MaxCycle \in Nat PROVE Executor!Spec => []ExecutorInv
    OBVIOUS
<1>1. Executor!Init => ExecutorInv
    BY ExecutorInit
<1>2. ExecutorInv /\ [Executor!Next]_(Executor!vars) => ExecutorInv'
    BY ExecutorStep
<1> QED BY <1>1, <1>2, PTL DEF Executor!Spec

\* No request has two transactions that may execute, whoever asks and whenever the
\* process stops.
THEOREM OneTransactionEach == MaxCycle \in Nat => (Executor!Spec => []Executor!OneTransaction)
<1> SUFFICES ASSUME MaxCycle \in Nat PROVE Executor!Spec => []Executor!OneTransaction
    OBVIOUS
<1>1. Executor!Spec => []ExecutorInv
    BY ExecutorInvariance
<1> QED BY <1>1, OneTransactionFact, PTL

-----------------------------------------------------------------------------
(***************************************************************************)
(* Settlement of the rooms' market.                                        *)
(***************************************************************************)
CallNames == {"open", "openRound", "finalizeResult", "buy", "claim", "retryPayout"}
Session == [epoch : Nat, status : {"active", "none"}]
Payout == [status : {"none", "paid", "deferred"}, tries : Nat]
Match == [phase : {"live", "over"}, epoch : Nat, final : BOOLEAN, market : Nat]

\* Matches, positions, transfers and rows keep their shapes, and an account was paid
\* or refused when it claimed.
SettlementTypes ==
  /\ session \in Session
  /\ match \in [Matches -> Match] /\ pos \in [Settlement!Bets -> {"none", "bet", "claimed"}]
  /\ paidOut \in [Settlement!Bets -> Payout]
  /\ bettors \in [Settlement!Bets -> {"none", "open", "settled"}]
  /\ binding \in [Matches -> Nat] /\ active \in Nat \ {0}
  /\ audit = [at |-> audit.at, ids |-> audit.ids, left |-> audit.left]
  /\ \A c \in calls : c.fn \in CallNames
  /\ \A b \in Settlement!Bets : pos[b] = "claimed" <=> paidOut[b].status # "none"

\* A row that audit closed has nothing to come.
Closed(b) ==
  /\ match[b[1]].final /\ pos[b] # "bet"
  /\ paidOut[b].status = "deferred" => paidOut[b].tries >= Attempts
ClosedIsPaid == \A b \in Settlement!Bets : bettors[b] = "settled" => Closed(b)

\* audit looks at the bettors of a match that has its result.
AuditedIsFinal ==
  audit.at = "player" /\ Head(audit.ids) \in Matches => match[Head(audit.ids)].final

\* A match has the market it is bound to, and so have the calls that would open one.
BoundMarket ==
  /\ \A m \in Matches : match[m].market # 0 => binding[m] = match[m].market
  /\ \A c \in calls : c.fn = "open" /\ c.m \in Matches => c.p \in Nat \ {0} /\ c.p = binding[c.m]

SettlementInv == SettlementTypes /\ ClosedIsPaid /\ AuditedIsFinal /\ BoundMarket

\* The worker starts with nothing bet, called or paid.
LEMMA SettlementInit == Settlement!Init => SettlementInv
<1> SUFFICES ASSUME Settlement!Init PROVE SettlementInv
    OBVIOUS
<1>1. SettlementTypes
    BY DEF Settlement!Init, SettlementTypes, Match, Session, Payout, Settlement!Idle
<1>2. ClosedIsPaid /\ AuditedIsFinal /\ BoundMarket
    BY DEF Settlement!Init, ClosedIsPaid, AuditedIsFinal, BoundMarket, Settlement!Idle
<1> QED BY <1>1, <1>2 DEF SettlementInv

\* A row is inserted once, and never closed by that.
Inserted == \A b \in Settlement!Bets : bettors'[b] = bettors[b] \/ bettors'[b] = "open"

\* What matches and accounts may do while the worker and its calls are not looked at:
\* a result stands, and a closed row stays closed.
ChainMoves ==
  /\ SettlementTypes'
  /\ \A m \in Matches : match[m].final => match'[m].final
  /\ \A b \in Settlement!Bets : Closed(b) => Closed(b)'
  /\ \A m \in Matches : match'[m].market = match[m].market

\* Steps that leave results and accounts as they are, or move them forward.
LEMMA MovesKeep ==
  ASSUME SettlementInv, ChainMoves, Inserted, BoundMarket',
         audit'.at = "player" => audit' = audit
  PROVE  SettlementInv'
BY DEF SettlementInv, SettlementTypes, ChainMoves, Inserted, ClosedIsPaid, AuditedIsFinal,
   Settlement!Bets

\* Inserting rows opens them and closes none.
LEMMA InsertFacts ==
  ASSUME SettlementInv, NEW b, NEW set
  PROVE  /\ Settlement!Insert(b) \in [Settlement!Bets -> {"none", "open", "settled"}]
         /\ Settlement!InsertAll(set) \in [Settlement!Bets -> {"none", "open", "settled"}]
         /\ \A a \in Settlement!Bets :
              /\ Settlement!Insert(b)[a] \in {bettors[a], "open"}
              /\ Settlement!InsertAll(set)[a] \in {bettors[a], "open"}
BY DEF SettlementInv, SettlementTypes, Settlement!Insert, Settlement!InsertAll

\* A match keeps its deployment.
LEMMA BindKeeps ==
  ASSUME SettlementInv, NEW m \in Matches, NEW more,
         binding' = [binding EXCEPT ![m] = Settlement!ForMatch(m)],
         \A c \in more : c.fn \in CallNames /\ (c.fn = "open" => c.m = m /\ c.p = Settlement!ForMatch(m)),
         calls' = calls \cup more, UNCHANGED <<match, active>>
  PROVE  /\ BoundMarket' /\ binding' \in [Matches -> Nat]
         /\ \A c \in calls' : c.fn \in CallNames
<1> USE DEF SettlementInv
<1>1. Settlement!ForMatch(m) \in Nat \ {0} /\ (binding[m] # 0 => Settlement!ForMatch(m) = binding[m])
    BY DEF Settlement!ForMatch, SettlementTypes, Match, BoundMarket
<1>2. \A k \in Matches : binding'[k] = IF k = m THEN Settlement!ForMatch(m) ELSE binding[k]
    BY DEF SettlementTypes
<1>3. \A k \in Matches : binding[k] # 0 => binding'[k] = binding[k]
    BY <1>1, <1>2
<1>4. \A k \in Matches : match[k].market # 0 => binding'[k] = match[k].market
    BY <1>3 DEF BoundMarket
<1>5. \A c \in calls' : c.fn = "open" /\ c.m \in Matches => c.p \in Nat \ {0} /\ c.p = binding'[c.m]
    BY <1>1, <1>2, <1>3 DEF BoundMarket
<1>6. binding' \in [Matches -> Nat]
    BY <1>1 DEF SettlementTypes
<1>7. \A c \in calls' : c.fn \in CallNames
    BY DEF SettlementTypes
<1> QED BY <1>4, <1>5, <1>6, <1>7 DEF BoundMarket

\* A match with a new market is bound to the one it opens.
LEMMA AskOpenKeeps ==
  ASSUME SettlementInv, NEW m \in Matches, Settlement!AskOpen(m)
  PROVE  SettlementInv'
<1> USE DEF SettlementInv
<1> DEFINE more == IF match[m].market = 0 THEN {Settlement!Call("open", m, Settlement!ForMatch(m))}
                   ELSE IF match[m].epoch = 0 THEN {Settlement!Call("openRound", m, Settlement!ForMatch(m))}
                   ELSE {}
<1>1. /\ binding' = [binding EXCEPT ![m] = Settlement!ForMatch(m)] /\ calls' = calls \cup more
      /\ UNCHANGED <<session, match, pos, paidOut, log, bettors, active, audit>>
    BY DEF Settlement!AskOpen, Settlement!chainVars
<1>2. \A c \in more : c.fn \in CallNames /\ (c.fn = "open" => c.m = m /\ c.p = Settlement!ForMatch(m))
    BY DEF Settlement!Call, CallNames
<1> HIDE DEF more
<1>3. BoundMarket' /\ binding' \in [Matches -> Nat] /\ \A c \in calls' : c.fn \in CallNames
    BY <1>1, <1>2, BindKeeps
<1>4. ChainMoves
    BY <1>1, <1>3 DEF ChainMoves, SettlementTypes, Closed
<1> QED BY <1>1, <1>3, <1>4, MovesKeep DEF Inserted

\* A bet asks for the market of its match and records its bettor.
LEMMA BuyRouteKeeps ==
  ASSUME SettlementInv, NEW m \in Matches, NEW p \in Players, Settlement!BuyRoute(m, p)
  PROVE  SettlementInv'
<1> USE DEF SettlementInv
<1> DEFINE more == {Settlement!Call("buy", m, p)}
<1>1. /\ binding' = [binding EXCEPT ![m] = Settlement!ForMatch(m)] /\ calls' = calls \cup more
      /\ UNCHANGED <<session, match, pos, paidOut, log, bettors, active, audit>>
    BY DEF Settlement!BuyRoute, Settlement!chainVars
<1>2. \A c \in more : c.fn \in CallNames /\ (c.fn = "open" => c.m = m /\ c.p = Settlement!ForMatch(m))
    BY DEF Settlement!Call, CallNames
<1> HIDE DEF more
<1>3. BoundMarket' /\ binding' \in [Matches -> Nat] /\ \A c \in calls' : c.fn \in CallNames
    BY <1>1, <1>2, BindKeeps
<1>4. ChainMoves
    BY <1>1, <1>3 DEF ChainMoves, SettlementTypes, Closed
<1> QED BY <1>1, <1>3, <1>4, MovesKeep DEF Inserted

\* A step that only asks for calls, inserts rows or forgets what the worker did.
LEMMA QuietKeeps ==
  ASSUME SettlementInv, UNCHANGED <<session, match, pos, paidOut, binding>>,
         active' \in Nat \ {0},
         \A c \in calls' : c \in calls \/ c.fn \in CallNames \ {"open"},
         bettors' \in [Settlement!Bets -> {"none", "open", "settled"}], Inserted,
         audit' = [at |-> audit'.at, ids |-> audit'.ids, left |-> audit'.left],
         audit'.at = "player" => audit' = audit
  PROVE  SettlementInv'
<1> USE DEF SettlementInv
<1>1. ChainMoves
    BY DEF ChainMoves, SettlementTypes, Closed
<1>2. BoundMarket'
    BY DEF BoundMarket
<1> QED BY <1>1, <1>2, MovesKeep

\* The steps that change neither the chain nor a binding.
LEMMA QuietSteps ==
  ASSUME SettlementInv,
         \/ Settlement!Redeploy \/ Settlement!AuditFails \/ Settlement!Restart \/ Settlement!Select
         \/ Settlement!BeforeRenew \/ Settlement!ScanRecent \/ Settlement!ScanHistory
         \/ \E b \in Settlement!Bets : Settlement!BuyRecorded(b)
         \/ \E m \in Matches, p \in Players : Settlement!RetryRoute(m, p)
         \/ \E c \in calls : Settlement!JobFails(c)
  PROVE  SettlementInv'
<1> USE DEF SettlementInv
<1>0. UNCHANGED bettors => bettors' \in [Settlement!Bets -> {"none", "open", "settled"}] /\ Inserted
    BY DEF SettlementTypes, Inserted
<1>1. CASE Settlement!Redeploy
    <2>1. /\ UNCHANGED <<session, match, pos, paidOut, binding>> /\ active' \in Nat \ {0}
        BY <1>1 DEF Settlement!Redeploy, Settlement!chainVars, Settlement!tableVars, SettlementTypes
    <2>2. \A c \in calls' : c \in calls \/ c.fn \in CallNames \ {"open"}
        BY <1>1 DEF Settlement!Redeploy, Settlement!Call, CallNames
    <2>3. /\ audit' = [at |-> audit'.at, ids |-> audit'.ids, left |-> audit'.left]
          /\ audit'.at = "player" => audit' = audit
        BY <1>1 DEF Settlement!Redeploy, Settlement!Idle, SettlementTypes
    <2>4. UNCHANGED bettors
        BY <1>1 DEF Settlement!Redeploy, Settlement!tableVars
    <2> QED BY <1>0, <2>1, <2>2, <2>3, <2>4, QuietKeeps, InsertFacts DEF Inserted
<1>2. CASE Settlement!AuditFails
    <2>1. /\ UNCHANGED <<session, match, pos, paidOut, binding>> /\ active' \in Nat \ {0}
        BY <1>2 DEF Settlement!AuditFails, Settlement!chainVars, Settlement!tableVars, SettlementTypes
    <2>2. \A c \in calls' : c \in calls \/ c.fn \in CallNames \ {"open"}
        BY <1>2 DEF Settlement!AuditFails, Settlement!Call, CallNames
    <2>3. /\ audit' = [at |-> audit'.at, ids |-> audit'.ids, left |-> audit'.left]
          /\ audit'.at = "player" => audit' = audit
        BY <1>2 DEF Settlement!AuditFails, Settlement!Idle, SettlementTypes
    <2>4. UNCHANGED bettors
        BY <1>2 DEF Settlement!AuditFails, Settlement!tableVars
    <2> QED BY <1>0, <2>1, <2>2, <2>3, <2>4, QuietKeeps, InsertFacts DEF Inserted
<1>3. CASE Settlement!Restart
    <2>1. /\ UNCHANGED <<session, match, pos, paidOut, binding>> /\ active' \in Nat \ {0}
        BY <1>3 DEF Settlement!Restart, Settlement!chainVars, Settlement!tableVars, SettlementTypes
    <2>2. \A c \in calls' : c \in calls \/ c.fn \in CallNames \ {"open"}
        BY <1>3 DEF Settlement!Restart, Settlement!Call, CallNames
    <2>3. /\ audit' = [at |-> audit'.at, ids |-> audit'.ids, left |-> audit'.left]
          /\ audit'.at = "player" => audit' = audit
        BY <1>3 DEF Settlement!Restart, Settlement!Idle, SettlementTypes
    <2>4. UNCHANGED bettors
        BY <1>3 DEF Settlement!Restart, Settlement!tableVars
    <2> QED BY <1>0, <2>1, <2>2, <2>3, <2>4, QuietKeeps, InsertFacts DEF Inserted
<1>4. CASE Settlement!Select
    <2>1. /\ UNCHANGED <<session, match, pos, paidOut, binding>> /\ active' \in Nat \ {0}
        BY <1>4 DEF Settlement!Select, Settlement!chainVars, Settlement!tableVars, SettlementTypes
    <2>2. \A c \in calls' : c \in calls \/ c.fn \in CallNames \ {"open"}
        BY <1>4 DEF Settlement!Select, Settlement!Call, CallNames
    <2>3. /\ audit' = [at |-> audit'.at, ids |-> audit'.ids, left |-> audit'.left]
          /\ audit'.at = "player" => audit' = audit
        BY <1>4 DEF Settlement!Select, Settlement!Idle, SettlementTypes
    <2>4. UNCHANGED bettors
        BY <1>4 DEF Settlement!Select, Settlement!tableVars
    <2> QED BY <1>0, <2>1, <2>2, <2>3, <2>4, QuietKeeps, InsertFacts DEF Inserted
<1>5. CASE Settlement!BeforeRenew
    <2>1. /\ UNCHANGED <<session, match, pos, paidOut, binding>> /\ active' \in Nat \ {0}
        BY <1>5 DEF Settlement!BeforeRenew, Settlement!chainVars, Settlement!tableVars, SettlementTypes
    <2>2. \A c \in calls' : c \in calls \/ c.fn \in CallNames \ {"open"}
        BY <1>5 DEF Settlement!BeforeRenew, Settlement!Call, CallNames
    <2>3. /\ audit' = [at |-> audit'.at, ids |-> audit'.ids, left |-> audit'.left]
          /\ audit'.at = "player" => audit' = audit
        BY <1>5 DEF Settlement!BeforeRenew, Settlement!Idle, SettlementTypes
    <2>4. UNCHANGED bettors
        BY <1>5 DEF Settlement!BeforeRenew, Settlement!tableVars
    <2> QED BY <1>0, <2>1, <2>2, <2>3, <2>4, QuietKeeps, InsertFacts DEF Inserted
<1>6. CASE Settlement!ScanRecent
    <2>1. /\ UNCHANGED <<session, match, pos, paidOut, binding>> /\ active' \in Nat \ {0}
        BY <1>6 DEF Settlement!ScanRecent, Settlement!chainVars, Settlement!tableVars, SettlementTypes
    <2>2. \A c \in calls' : c \in calls \/ c.fn \in CallNames \ {"open"}
        BY <1>6 DEF Settlement!ScanRecent, Settlement!Call, CallNames
    <2>3. /\ audit' = [at |-> audit'.at, ids |-> audit'.ids, left |-> audit'.left]
          /\ audit'.at = "player" => audit' = audit
        BY <1>6 DEF Settlement!ScanRecent, Settlement!Idle, SettlementTypes
    <2>4. UNCHANGED bettors \/ \E set : bettors' = Settlement!InsertAll(set)
        BY <1>6 DEF Settlement!ScanRecent, Settlement!tableVars
    <2> QED BY <1>0, <2>1, <2>2, <2>3, <2>4, QuietKeeps, InsertFacts DEF Inserted
<1>7. CASE Settlement!ScanHistory
    <2>1. /\ UNCHANGED <<session, match, pos, paidOut, binding>> /\ active' \in Nat \ {0}
        BY <1>7 DEF Settlement!ScanHistory, Settlement!chainVars, Settlement!tableVars, SettlementTypes
    <2>2. \A c \in calls' : c \in calls \/ c.fn \in CallNames \ {"open"}
        BY <1>7 DEF Settlement!ScanHistory, Settlement!Call, CallNames
    <2>3. /\ audit' = [at |-> audit'.at, ids |-> audit'.ids, left |-> audit'.left]
          /\ audit'.at = "player" => audit' = audit
        BY <1>7 DEF Settlement!ScanHistory, Settlement!Idle, SettlementTypes
    <2>4. UNCHANGED bettors \/ \E set : bettors' = Settlement!InsertAll(set)
        BY <1>7 DEF Settlement!ScanHistory, Settlement!tableVars
    <2> QED BY <1>0, <2>1, <2>2, <2>3, <2>4, QuietKeeps, InsertFacts DEF Inserted
<1>8. CASE \E b \in Settlement!Bets : Settlement!BuyRecorded(b)
    <2>1. /\ UNCHANGED <<session, match, pos, paidOut, binding>> /\ active' \in Nat \ {0}
        BY <1>8 DEF Settlement!BuyRecorded, Settlement!chainVars, Settlement!tableVars, SettlementTypes
    <2>2. \A c \in calls' : c \in calls \/ c.fn \in CallNames \ {"open"}
        BY <1>8 DEF Settlement!BuyRecorded, Settlement!Call, CallNames
    <2>3. /\ audit' = [at |-> audit'.at, ids |-> audit'.ids, left |-> audit'.left]
          /\ audit'.at = "player" => audit' = audit
        BY <1>8 DEF Settlement!BuyRecorded, Settlement!Idle, SettlementTypes
    <2>4. \E b : bettors' = Settlement!Insert(b)
        BY <1>8 DEF Settlement!BuyRecorded, Settlement!tableVars
    <2> QED BY <1>0, <2>1, <2>2, <2>3, <2>4, QuietKeeps, InsertFacts DEF Inserted
<1>9. CASE \E m \in Matches, p \in Players : Settlement!RetryRoute(m, p)
    <2>1. /\ UNCHANGED <<session, match, pos, paidOut, binding>> /\ active' \in Nat \ {0}
        BY <1>9 DEF Settlement!RetryRoute, Settlement!chainVars, Settlement!tableVars, SettlementTypes
    <2>2. \A c \in calls' : c \in calls \/ c.fn \in CallNames \ {"open"}
        BY <1>9 DEF Settlement!RetryRoute, Settlement!Call, CallNames
    <2>3. /\ audit' = [at |-> audit'.at, ids |-> audit'.ids, left |-> audit'.left]
          /\ audit'.at = "player" => audit' = audit
        BY <1>9 DEF Settlement!RetryRoute, Settlement!Idle, SettlementTypes
    <2>4. UNCHANGED bettors
        BY <1>9 DEF Settlement!RetryRoute, Settlement!tableVars
    <2> QED BY <1>0, <2>1, <2>2, <2>3, <2>4, QuietKeeps, InsertFacts DEF Inserted
<1>10. CASE \E c \in calls : Settlement!JobFails(c)
    <2>1. /\ UNCHANGED <<session, match, pos, paidOut, binding>> /\ active' \in Nat \ {0}
        BY <1>10 DEF Settlement!JobFails, Settlement!chainVars, Settlement!tableVars, SettlementTypes
    <2>2. \A c \in calls' : c \in calls \/ c.fn \in CallNames \ {"open"}
        BY <1>10 DEF Settlement!JobFails, Settlement!Call, CallNames
    <2>3. /\ audit' = [at |-> audit'.at, ids |-> audit'.ids, left |-> audit'.left]
          /\ audit'.at = "player" => audit' = audit
        BY <1>10 DEF Settlement!JobFails, Settlement!Idle, SettlementTypes
    <2>4. UNCHANGED bettors
        BY <1>10 DEF Settlement!JobFails, Settlement!tableVars
    <2> QED BY <1>0, <2>1, <2>2, <2>3, <2>4, QuietKeeps, InsertFacts DEF Inserted
<1> QED BY <1>1, <1>2, <1>3, <1>4, <1>5, <1>6, <1>7, <1>8, <1>9, <1>10

\* The engine's session or a match ends, or another session begins.
LEMMA SessionKeeps ==
  ASSUME SettlementInv,
         Settlement!Release \/ Settlement!Renew \/ \E m \in Matches : Settlement!Finish(m)
  PROVE  SettlementInv'
<1> USE DEF SettlementInv
<1>1. UNCHANGED <<pos, paidOut, log, calls, bettors, scanned, binding, active, asked, audit, slips>>
    BY DEF Settlement!Release, Settlement!Renew, Settlement!Finish, Settlement!tableVars
<1>2. /\ session' \in Session /\ match' \in [Matches -> Match]
      /\ \A m \in Matches : match'[m].final = match[m].final /\ match'[m].market = match[m].market
    <2>1. CASE \E m \in Matches : Settlement!Finish(m)
        <3>1. PICK m \in Matches : match' = [match EXCEPT ![m].phase = "over"]
            BY <2>1 DEF Settlement!Finish
        <3>2. session' = session
            BY <2>1 DEF Settlement!Finish
        <3> QED BY <3>1, <3>2 DEF SettlementTypes, Match
    <2>2. CASE Settlement!Release \/ Settlement!Renew
        BY <2>2 DEF Settlement!Release, Settlement!Renew, SettlementTypes, Session
    <2> QED BY <2>1, <2>2
<1>3. ChainMoves
    BY <1>1, <1>2 DEF ChainMoves, SettlementTypes, Closed, Settlement!Bets
<1>4. BoundMarket' /\ Inserted
    BY <1>1, <1>2 DEF BoundMarket, Inserted
<1> QED BY <1>1, <1>3, <1>4, MovesKeep

\* A bet is placed in an open window, so on no closed row.
LEMMA PlacedFacts ==
  ASSUME SettlementInv, NEW m, NEW p, Settlement!Window(m), pos[<<m, p>>] = "none",
         Settlement!Placed(m, p), UNCHANGED <<match, paidOut>>
  PROVE  /\ pos' \in [Settlement!Bets -> {"none", "bet", "claimed"}]
         /\ \A b \in Settlement!Bets : /\ pos'[b] = "claimed" <=> pos[b] = "claimed"
                                       /\ Closed(b) => Closed(b)'
<1> USE DEF SettlementInv
<1>1. pos' = [pos EXCEPT ![<<m, p>>] = "bet"] /\ ~match[m].final
    BY DEF Settlement!Placed, Settlement!Window
<1>2. \A b \in Settlement!Bets : pos'[b] = IF b = <<m, p>> THEN "bet" ELSE pos[b]
    BY <1>1 DEF SettlementTypes
<1>3. \A b \in Settlement!Bets : Closed(b) => Closed(b)'
    BY <1>1, <1>2 DEF Closed
<1>4. pos' \in [Settlement!Bets -> {"none", "bet", "claimed"}]
    BY <1>1 DEF SettlementTypes
<1> QED BY <1>2, <1>3, <1>4

\* A bet made on the chain itself, past the routes.
LEMMA DirectBetKeeps ==
  ASSUME SettlementInv, NEW m \in Matches, NEW p \in Players, Settlement!DirectBet(m, p)
  PROVE  SettlementInv'
<1> USE DEF SettlementInv
<1>1. /\ UNCHANGED <<session, match, paidOut, calls, bettors, scanned, binding, active, asked, audit>>
      /\ Settlement!Window(m) /\ pos[<<m, p>>] = "none" /\ Settlement!Placed(m, p)
    BY DEF Settlement!DirectBet, Settlement!tableVars
<1>2. /\ pos' \in [Settlement!Bets -> {"none", "bet", "claimed"}]
      /\ \A b \in Settlement!Bets : /\ pos'[b] = "claimed" <=> pos[b] = "claimed"
                                    /\ Closed(b) => Closed(b)'
    BY <1>1, PlacedFacts
<1>3. ChainMoves
    BY <1>1, <1>2 DEF ChainMoves, SettlementTypes
<1>4. BoundMarket' /\ Inserted
    BY <1>1 DEF BoundMarket, Inserted
<1> QED BY <1>1, <1>3, <1>4, MovesKeep

\* An attempt to transfer changes one payout, and a deferred one has been tried once
\* more.
LEMMA TriedFacts ==
  ASSUME SettlementInv, NEW a, Settlement!Tried(a), a \in Settlement!Bets
  PROVE  /\ paidOut' \in [Settlement!Bets -> Payout]
         /\ \A b \in Settlement!Bets \ {a} : paidOut'[b] = paidOut[b]
         /\ paidOut'[a].status # "none" /\ paidOut'[a].tries = paidOut[a].tries + 1 /\ paidOut[a].tries \in Nat
<1>1. PICK s \in {"paid", "deferred"} :
        paidOut' = [paidOut EXCEPT ![a] = [status |-> s, tries |-> paidOut[a].tries + 1]]
    BY DEF Settlement!Tried
<1>2. paidOut[a].tries \in Nat /\ paidOut \in [Settlement!Bets -> Payout]
    BY DEF SettlementInv, SettlementTypes, Payout
<1> QED BY <1>1, <1>2 DEF Payout

\* What a call of the journal does to matches and accounts.
LEMMA MadeFacts ==
  ASSUME SettlementInv, Attempts \in Nat, NEW c \in calls, Settlement!Made(c)
  PROVE  /\ match' \in [Matches -> Match]
         /\ \A m \in Matches : match[m].final => match'[m].final
         /\ \A m \in Matches : match'[m].market # match[m].market =>
                                 c.fn = "open" /\ c.m = m /\ match'[m].market = c.p
         /\ pos' \in [Settlement!Bets -> {"none", "bet", "claimed"}]
         /\ paidOut' \in [Settlement!Bets -> Payout]
         /\ \A b \in Settlement!Bets : /\ pos'[b] = "claimed" <=> paidOut'[b].status # "none"
                                       /\ Closed(b) => Closed(b)'
<1> USE DEF SettlementInv
<1> DEFINE a == <<c.m, c.p>>
           Goal == /\ match' \in [Matches -> Match]
                   /\ \A m \in Matches : match[m].final => match'[m].final
                   /\ \A m \in Matches : match'[m].market # match[m].market =>
                                 c.fn = "open" /\ c.m = m /\ match'[m].market = c.p
                   /\ pos' \in [Settlement!Bets -> {"none", "bet", "claimed"}]
                   /\ paidOut' \in [Settlement!Bets -> Payout]
                   /\ \A b \in Settlement!Bets : /\ pos'[b] = "claimed" <=> paidOut'[b].status # "none"
                                                 /\ Closed(b) => Closed(b)'
<1> SUFFICES Goal
    OBVIOUS
<1>0. UNCHANGED <<match, pos, paidOut>> => Goal
    BY DEF SettlementTypes, Closed
<1>9. /\ match \in [Matches -> Match] /\ pos \in [Settlement!Bets -> {"none", "bet", "claimed"}]
      /\ paidOut \in [Settlement!Bets -> Payout] /\ session.epoch \in Nat
      /\ \A b \in Settlement!Bets : pos[b] = "claimed" <=> paidOut[b].status # "none"
    BY DEF SettlementTypes, Session
<1>1. CASE c.fn = "open"
    <2>1. /\ UNCHANGED <<pos, paidOut>>
          /\ match' = match \/ match' = [match EXCEPT ![c.m].market = c.p]
        BY <1>1 DEF Settlement!Made
    <2>2. CASE c.m \in Matches /\ match' = [match EXCEPT ![c.m].market = c.p]
        <3>1. c.p \in Nat
            BY <1>1, <2>2 DEF BoundMarket
        <3>2. \A m \in Matches : /\ match'[m].final = match[m].final
                                 /\ match'[m].market = IF m = c.m THEN c.p ELSE match[m].market
            BY <2>2, <1>9 DEF Match
        <3>3. match' \in [Matches -> Match]
            BY <2>2, <3>1, <1>9 DEF Match
        <3> QED BY <1>1, <2>1, <3>2, <3>3, <1>9 DEF Closed, Settlement!Bets
    <2>3. CASE c.m \notin Matches /\ match' = [match EXCEPT ![c.m].market = c.p]
        <3>1. match' = match
            BY <2>3, <1>9
        <3> QED BY <1>0, <2>1, <3>1
    <2> QED BY <1>0, <2>1, <2>2, <2>3
<1>2. CASE c.fn \in {"openRound", "finalizeResult"}
    <2>1. /\ UNCHANGED <<pos, paidOut>>
          /\ \/ match' = match \/ match' = [match EXCEPT ![c.m].epoch = session.epoch]
             \/ match' = [match EXCEPT ![c.m].final = TRUE]
        BY <1>2 DEF Settlement!Made
    <2>2. match' \in [Matches -> Match]
        <3>1. CASE c.m \notin Matches
            BY <1>9, <2>1, <3>1
        <3>2. CASE c.m \in Matches
            <4>1. /\ [match[c.m] EXCEPT !.epoch = session.epoch] \in Match
                  /\ [match[c.m] EXCEPT !.final = TRUE] \in Match
                BY <1>9, <3>2 DEF Match
            <4> QED BY <1>9, <2>1, <4>1
        <3> QED BY <3>1, <3>2
    <2>3. ASSUME NEW m \in Matches
          PROVE  (match[m].final => match'[m].final) /\ match'[m].market = match[m].market
        <3>1. match[m] \in Match /\ m \in DOMAIN match
            BY <1>9
        <3>2. CASE match' = match
            BY <3>2
        <3>3. CASE match' = [match EXCEPT ![c.m].epoch = session.epoch]
            BY <3>1, <3>3 DEF Match
        <3>4. CASE match' = [match EXCEPT ![c.m].final = TRUE]
            BY <3>1, <3>4 DEF Match
        <3> QED BY <2>1, <3>2, <3>3, <3>4
    <2> QED BY <2>1, <2>2, <2>3, <1>9 DEF Closed, Settlement!Bets
<1>3. CASE c.fn = "buy"
    <2>1. UNCHANGED <<match, paidOut>>
        BY <1>3 DEF Settlement!Made
    <2>2. CASE Settlement!Window(c.m) /\ pos[a] = "none"
        <3>1. Settlement!Placed(c.m, c.p)
            BY <1>3, <2>2 DEF Settlement!Made
        <3> QED BY <2>1, <2>2, <3>1, PlacedFacts, <1>9
    <2>3. CASE ~(Settlement!Window(c.m) /\ pos[a] = "none")
        BY <1>0, <1>3, <2>1, <2>3 DEF Settlement!Made
    <2> QED BY <2>2, <2>3
<1>4. CASE c.fn = "claim"
    <2>1. UNCHANGED match
        BY <1>4 DEF Settlement!Made
    <2>2. CASE match[c.m].final /\ pos[a] = "bet"
        <3>1. pos' = [pos EXCEPT ![a] = "claimed"] /\ Settlement!Tried(a)
            BY <1>4, <2>2 DEF Settlement!Made
        <3>2. CASE a \in Settlement!Bets
            <4>1. \A b \in Settlement!Bets : pos'[b] = IF b = a THEN "claimed" ELSE pos[b]
                BY <1>9, <3>1
            <4>2. \A b \in Settlement!Bets : pos'[b] = "claimed" <=> paidOut'[b].status # "none"
                BY <1>9, <3>1, <3>2, <4>1, TriedFacts
            <4>3. \A b \in Settlement!Bets : Closed(b) => Closed(b)'
                BY <2>1, <2>2, <3>1, <3>2, <4>1, TriedFacts DEF Closed
            <4> QED BY <1>9, <2>1, <3>1, <3>2, <4>2, <4>3, TriedFacts
        <3>3. CASE a \notin Settlement!Bets
            BY <1>0, <2>1, <3>1, <3>3, <1>9 DEF Settlement!Tried
        <3> QED BY <3>2, <3>3
    <2>3. CASE ~(match[c.m].final /\ pos[a] = "bet")
        BY <1>0, <1>4, <2>1, <2>3 DEF Settlement!Made
    <2> QED BY <2>2, <2>3
<1>5. CASE c.fn = "retryPayout"
    <2>1. UNCHANGED <<match, pos>>
        BY <1>5 DEF Settlement!Made
    <2>2. CASE paidOut[a].status = "deferred"
        <3>1. Settlement!Tried(a)
            BY <1>5, <2>2 DEF Settlement!Made
        <3>2. CASE a \in Settlement!Bets
            BY <2>1, <2>2, <3>1, <3>2, TriedFacts, <1>9 DEF Closed
        <3>3. CASE a \notin Settlement!Bets
            BY <1>0, <2>1, <3>1, <3>3, <1>9 DEF Settlement!Tried
        <3> QED BY <3>2, <3>3
    <2>3. CASE paidOut[a].status # "deferred"
        BY <1>0, <1>5, <2>1, <2>3 DEF Settlement!Made
    <2> QED BY <2>2, <2>3
<1> QED BY <1>1, <1>2, <1>3, <1>4, <1>5 DEF SettlementTypes, CallNames

\* The chain executes one call of the worker.
LEMMA JobMadeKeeps ==
  ASSUME SettlementInv, Attempts \in Nat, NEW c \in calls, Settlement!JobMade(c)
  PROVE  SettlementInv'
<1> USE DEF SettlementInv
<1>1. /\ Settlement!Made(c) /\ calls' \subseteq calls
      /\ UNCHANGED <<session, binding, active, audit>>
    BY DEF Settlement!JobMade
<1>2. bettors' \in [Settlement!Bets -> {"none", "open", "settled"}] /\ Inserted
    <2>1. bettors' = bettors \/ bettors' = Settlement!Insert(<<c.m, c.p>>)
        BY DEF Settlement!JobMade
    <2>2. CASE bettors' = bettors
        BY <2>2 DEF SettlementTypes, Inserted
    <2> QED BY <2>1, <2>2, InsertFacts DEF Inserted
<1>3. SettlementTypes'
    BY <1>1, <1>2, MadeFacts DEF SettlementTypes
<1>4. BoundMarket'
    BY <1>1, MadeFacts DEF BoundMarket
<1>5. \A b \in Settlement!Bets : bettors'[b] = "settled" => Closed(b)'
    BY <1>1, <1>2, MadeFacts DEF ClosedIsPaid, Inserted
<1>6. AuditedIsFinal'
    BY <1>1, MadeFacts DEF AuditedIsFinal
<1>7. ClosedIsPaid'
    BY <1>5 DEF ClosedIsPaid
<1> QED BY <1>3, <1>4, <1>6, <1>7

\* audit goes on to the next match of its page.
LEMMA NextMatchKeeps ==
  ASSUME SettlementInv, Settlement!NextMatch
  PROVE  SettlementInv'
<1> USE DEF SettlementInv
<1> DEFINE m == Head(audit.ids)
<1>1. UNCHANGED <<session, match, pos, paidOut, bettors, binding, active>>
    BY DEF Settlement!NextMatch, Settlement!chainVars, Settlement!tableVars
<1>2. \A c \in calls' : c \in calls \/ c.fn \in CallNames \ {"open"}
    BY DEF Settlement!NextMatch, Settlement!Call, CallNames
<1>3. \/ audit' = Settlement!Idle
      \/ \E rest : audit' = [at |-> audit.at, ids |-> rest, left |-> audit.left]
      \/ match[m].final /\ \E rest : audit' = [at |-> "player", ids |-> audit.ids, left |-> rest]
    <2>1. \/ audit' = Settlement!Idle
          \/ audit' = [audit EXCEPT !.ids = Tail(audit.ids)]
          \/ match[m].final /\ \E rest : audit' = [audit EXCEPT !.at = "player", !.left = rest]
        BY Zenon DEF Settlement!NextMatch
    <2>2. audit = [at |-> audit.at, ids |-> audit.ids, left |-> audit.left]
        BY DEF SettlementTypes
    <2> QED BY <2>1, <2>2
<1>4. /\ audit' = [at |-> audit'.at, ids |-> audit'.ids, left |-> audit'.left]
      /\ audit'.at = "player" => audit'.ids = audit.ids /\ match[m].final
    BY <1>3 DEF Settlement!NextMatch, Settlement!Idle
<1>5. SettlementTypes'
    BY <1>1, <1>2, <1>4 DEF SettlementTypes
<1>6. BoundMarket' /\ ClosedIsPaid'
    BY <1>1, <1>2 DEF BoundMarket, ClosedIsPaid, Closed
<1>7. AuditedIsFinal'
    BY <1>1, <1>4 DEF AuditedIsFinal
<1> QED BY <1>5, <1>6, <1>7

\* audit closes the row of a bettor with nothing to come, and asks for the rest.
LEMMA AuditPlayerKeeps ==
  ASSUME SettlementInv, Attempts \in Nat, NEW p \in Players, Settlement!AuditPlayer(p)
  PROVE  SettlementInv'
<1> USE DEF SettlementInv
<1> DEFINE m == Head(audit.ids)
           a == <<m, p>>
<1>1. UNCHANGED <<session, match, pos, paidOut, binding, active>> /\ audit.at = "player"
    BY DEF Settlement!AuditPlayer, Settlement!chainVars
<1>2. \A c \in calls' : c \in calls \/ c.fn \in CallNames \ {"open"}
    BY DEF Settlement!AuditPlayer, Settlement!Call, CallNames
<1>3. audit' = [at |-> audit'.at, ids |-> audit'.ids, left |-> audit'.left]
    BY DEF Settlement!AuditPlayer, SettlementTypes
<1>4. audit'.at = "player" => audit'.ids = audit.ids
    BY <1>1 DEF Settlement!AuditPlayer, SettlementTypes
<1>5. bettors' = IF Settlement!Settleable(a) THEN [bettors EXCEPT ![a] = "settled"] ELSE bettors
    BY DEF Settlement!AuditPlayer
<1>6. SettlementTypes'
    BY <1>1, <1>2, <1>3, <1>5 DEF SettlementTypes
<1>7. BoundMarket' /\ AuditedIsFinal'
    BY <1>1, <1>2, <1>4 DEF BoundMarket, AuditedIsFinal
<1>8. ClosedIsPaid'
    <2> SUFFICES ASSUME NEW b \in Settlement!Bets, bettors'[b] = "settled" PROVE Closed(b)'
        BY DEF ClosedIsPaid
    <2>1. Closed(b) => Closed(b)'
        BY <1>1 DEF Closed
    <2>2. CASE bettors[b] = "settled"
        BY <2>1, <2>2 DEF ClosedIsPaid
    <2>3. CASE bettors[b] # "settled"
        <3>1. b = a /\ Settlement!Settleable(a)
            BY <1>5, <2>3 DEF SettlementTypes
        <3>2. m \in Matches /\ match[m].final
            BY <1>1, <3>1 DEF AuditedIsFinal, Settlement!Bets
        <3>3. pos[b] = "claimed" <=> paidOut[b].status # "none"
            BY DEF SettlementTypes
        <3>4. paidOut[b].tries \in Nat
            BY DEF SettlementTypes, Payout
        <3> QED BY <2>1, <3>1, <3>2, <3>3, <3>4 DEF Closed, Settlement!Settleable, Settlement!Retriable
    <2> QED BY <2>2, <2>3
<1> QED BY <1>6, <1>7, <1>8

\* Every step of the worker, the market and the hub keeps the invariant.
LEMMA SettlementStep ==
  Attempts \in Nat /\ SettlementInv /\ [Settlement!Next]_(Settlement!vars) => SettlementInv'
<1> SUFFICES ASSUME Attempts \in Nat, SettlementInv, [Settlement!Next]_(Settlement!vars)
             PROVE  SettlementInv'
    OBVIOUS
<1>1. CASE Settlement!AuditSteps
    BY <1>1, QuietSteps, NextMatchKeeps, AuditPlayerKeeps DEF Settlement!AuditSteps
<1>2. CASE UNCHANGED Settlement!vars
    BY <1>2 DEF Settlement!vars, Settlement!chainVars, Settlement!tableVars, SettlementInv,
       SettlementTypes, ClosedIsPaid, Closed, AuditedIsFinal, BoundMarket
<1> QED BY <1>1, <1>2, AskOpenKeeps, BuyRouteKeeps, QuietSteps, SessionKeeps, DirectBetKeeps, JobMadeKeeps
        DEF Settlement!Next

\* What the invariant says of settled rows and of markets.
LEMMA SettlementFacts == SettlementInv => Settlement!SettledIsPaid /\ Settlement!OneMarket
<1> SUFFICES ASSUME SettlementInv PROVE Settlement!SettledIsPaid /\ Settlement!OneMarket
    OBVIOUS
<1>1. Settlement!SettledIsPaid
    <2> SUFFICES ASSUME NEW m \in Matches, NEW p \in Players, bettors[<<m, p>>] = "settled"
                 PROVE  Closed(<<m, p>>)
        BY DEF Settlement!SettledIsPaid, Closed
    <2> QED BY DEF SettlementInv, ClosedIsPaid, Settlement!Bets
<1>2. Settlement!OneMarket
    BY DEF SettlementInv, BoundMarket, Settlement!OneMarket
<1> QED BY <1>1, <1>2

\* The inductive invariant of the settlement, for all matches, bettors, deployments,
\* attempts and faults.
THEOREM SettlementInvariance == Attempts \in Nat => (Settlement!Spec => []SettlementInv)
<1> SUFFICES ASSUME Attempts \in Nat PROVE Settlement!Spec => []SettlementInv
    OBVIOUS
<1>1. Settlement!Init => SettlementInv
    BY SettlementInit
<1>2. SettlementInv /\ [Settlement!Next]_(Settlement!vars) => SettlementInv'
    BY SettlementStep
<1> QED BY <1>1, <1>2, PTL DEF Settlement!Spec

\* A row that is closed has nothing more to be paid, and a match keeps one market.
THEOREM ClosedRowsArePaid ==
  Attempts \in Nat => (Settlement!Spec => [](Settlement!SettledIsPaid /\ Settlement!OneMarket))
<1> SUFFICES ASSUME Attempts \in Nat
             PROVE  Settlement!Spec => [](Settlement!SettledIsPaid /\ Settlement!OneMarket)
    OBVIOUS
<1>1. Settlement!Spec => []SettlementInv
    BY SettlementInvariance
<1> QED BY <1>1, SettlementFacts, PTL

-----------------------------------------------------------------------------
(***************************************************************************)
(* The pressure of a rally.                                                *)
(***************************************************************************)
\* There is a rally, and a window has a length.
PressureConstants == MaxRally \in Nat \ {0} /\ WindowBlocks \in Nat

Rounds == [Pressure!Rallies -> [close : Nat, resume : Nat]]
Block == [hash : Nat, rounds : Rounds, paid : Nat]
Checkpoint == [resume : Nat, hash : Nat, paid : Nat]
Steps == {"idle", "block", "paid", "recheck", "freeze", "sign"}
WorkerState == [at : Steps, rally : Pressure!Rallies, resume : Nat, src : Nat, hash : Nat, paid : Nat]
Engine == [rally : Pressure!Rallies, resume : Nat, paused : BOOLEAN]

\* The chain's blocks are among those ever made, with what was paid in them.
PressureTypes ==
  /\ minted \in Seq(Nat) /\ blocks \in Seq(Block) /\ Len(blocks) > 0
  /\ \A i \in 1..Len(blocks) : /\ blocks[i].hash \in 1..Len(minted)
                               /\ blocks[i].paid = minted[blocks[i].hash]
  /\ engine \in Engine /\ pub.resume \in Nat
  /\ table \in [Pressure!Rallies -> Checkpoint]
  /\ worker \in [Workers -> WorkerState]

\* A record names a block that was made and what was paid in it.
Honest(c) == c.hash \in 1..Len(minted) /\ c.paid = minted[c.hash]

\* What the worker knows of the chain: a block that was there and, once it has the
\* totals, that they are that block's if it still is.
Knows(w) ==
  /\ worker[w].at \in {"paid", "recheck", "freeze", "sign"} => worker[w].hash \in 1..Len(minted)
  /\ worker[w].at = "recheck" /\ Pressure!SameSource(w) => Honest(worker[w])
  /\ worker[w].at = "freeze" => Honest(worker[w])
  /\ worker[w].at = "sign" => table[worker[w].rally] = Pressure!Computed(w)

\* A checkpoint is honest, and what is signed is the checkpoint of its rally.
Frozen == \A r \in Pressure!Rallies : table[r] # Pressure!None => Honest(table[r])
Signature == [rally : Pressure!Rallies, resume : Nat, hash : Nat, paid : Nat]
SignedIsFrozen ==
  \A s \in signed :
    /\ s \in Signature /\ table[s.rally] # Pressure!None
    /\ s.resume = table[s.rally].resume /\ s.hash = table[s.rally].hash /\ s.paid = table[s.rally].paid

PressureInv == PressureTypes /\ (\A w \in Workers : Knows(w)) /\ Frozen /\ SignedIsFrozen

\* The chain starts with one block and nothing frozen or signed.
LEMMA PressureInit == PressureConstants /\ Pressure!Init => PressureInv
<1> SUFFICES ASSUME PressureConstants, Pressure!Init PROVE PressureInv
    OBVIOUS
<1>1. 1 \in Pressure!Rallies
    BY DEF PressureConstants, Pressure!Rallies
<1>2. /\ blocks = <<[hash |-> 1, rounds |-> [r \in Pressure!Rallies |-> Pressure!NoRound], paid |-> 0]>>
      /\ minted = <<0>>
    BY DEF Pressure!Init
<1>3. blocks \in Seq(Block) /\ Len(blocks) = 1 /\ minted \in Seq(Nat) /\ Len(minted) = 1
    <2>1. [r \in Pressure!Rallies |-> Pressure!NoRound] \in Rounds
        BY DEF Rounds, Pressure!NoRound
    <2>2. [hash |-> 1, rounds |-> [r \in Pressure!Rallies |-> Pressure!NoRound], paid |-> 0] \in Block
        BY <2>1 DEF Block
    <2> QED BY <1>2, <2>2
<1>4. PressureTypes
    BY <1>1, <1>2, <1>3 DEF Pressure!Init, PressureTypes, Engine, Checkpoint, WorkerState, Steps,
       Pressure!None, Pressure!Idle
<1>5. (\A w \in Workers : Knows(w)) /\ Frozen /\ SignedIsFrozen
    BY DEF Pressure!Init, Knows, Frozen, SignedIsFrozen, Pressure!Idle
<1> QED BY <1>4, <1>5 DEF PressureInv

\* What stays true of a worker when only the chain changes: old blocks do not return.
LEMMA ChainKeeps ==
  ASSUME PressureInv, PressureTypes', UNCHANGED <<table, signed, worker>>,
         Len(minted) <= Len(minted'), \A h \in 1..Len(minted) : minted'[h] = minted[h],
         \A i \in 1..Len(blocks') : \/ i \in 1..Len(blocks) /\ blocks'[i] = blocks[i]
                                    \/ blocks'[i].hash > Len(minted)
  PROVE  PressureInv'
<1> USE DEF PressureInv
<1>1. \A c : Honest(c) => c.hash \in 1..Len(minted') /\ c.paid = minted'[c.hash]
    BY DEF PressureTypes, Honest
<1>2. ASSUME NEW w \in Workers PROVE Knows(w)'
    <2>1. worker[w].at \in {"paid", "recheck", "freeze", "sign"} =>
             worker[w].hash \in 1..Len(minted) /\ worker[w].hash \in 1..Len(minted')
        BY DEF Knows, PressureTypes
    <2>2. worker[w].at = "recheck" /\ Pressure!SameSource(w)' => Pressure!SameSource(w)
        <3>1. worker[w].hash \in Nat /\ Len(minted) \in Nat
            BY DEF PressureTypes, WorkerState
        <3>2. SUFFICES ASSUME worker[w].at = "recheck", worker[w].src \in 1..Len(blocks'),
                              blocks'[worker[w].src].hash = worker[w].hash
                       PROVE  worker[w].src \in 1..Len(blocks) /\ blocks[worker[w].src].hash = worker[w].hash
            BY Zenon DEF Pressure!SameSource, Pressure!HasSource, Pressure!Source
        <3>3. ~(worker[w].hash > Len(minted))
            BY <2>1, <3>1, <3>2
        <3> QED BY <3>2, <3>3
    <2> QED BY <1>1, <2>1, <2>2 DEF Knows, Honest, Pressure!Computed
<1>3. Frozen'
    BY <1>1 DEF Frozen, Honest, Pressure!None
<1>4. SignedIsFrozen'
    BY DEF SignedIsFrozen
<1> QED BY <1>2, <1>3, <1>4

\* A new block has a hash of its own.
LEMMA MineKeeps == ASSUME PressureConstants, PressureInv, Pressure!Mine PROVE PressureInv'
<1> USE DEF PressureInv
<1>1. PICK bet \in 0..1, r \in {0} \cup {q \in Pressure!Rallies : Pressure!Opens(q)} :
        /\ LET number == Len(blocks) + 1
               rounds == IF r = 0 THEN Pressure!Top.rounds
                         ELSE [Pressure!Top.rounds EXCEPT ![r] =
                                 [close |-> number + WindowBlocks, resume |-> pub.resume]]
           IN  blocks' = Append(blocks, [hash |-> Len(minted) + 1, rounds |-> rounds,
                                         paid |-> Pressure!Top.paid + bet])
        /\ minted' = Append(minted, Pressure!Top.paid + bet)
    BY DEF Pressure!Mine
<1>2. UNCHANGED <<engine, pub, table, signed, worker>>
    BY DEF Pressure!Mine
<1> DEFINE rounds == IF r = 0 THEN Pressure!Top.rounds
                     ELSE [Pressure!Top.rounds EXCEPT ![r] =
                             [close |-> Len(blocks) + 1 + WindowBlocks, resume |-> pub.resume]]
           paid == Pressure!Top.paid + bet
           block == [hash |-> Len(minted) + 1, rounds |-> rounds, paid |-> paid]
<1>3. blocks' = Append(blocks, block) /\ minted' = Append(minted, paid)
    BY <1>1
<1>4. blocks \in Seq(Block) /\ minted \in Seq(Nat) /\ Pressure!Top \in Block
    BY DEF PressureTypes, Pressure!Top
<1>5. rounds \in Rounds
    BY <1>4 DEF Rounds, Block, PressureConstants, PressureTypes
<1>6. paid \in Nat /\ block \in Block
    BY <1>4, <1>5 DEF Block
<1> HIDE DEF rounds, paid
<1>7. /\ blocks' \in Seq(Block) /\ Len(blocks') = Len(blocks) + 1
      /\ \A i \in 1..Len(blocks) : blocks'[i] = blocks[i]
      /\ blocks'[Len(blocks) + 1] = block
    BY <1>3, <1>4, <1>6
<1>8. /\ minted' \in Seq(Nat) /\ Len(minted') = Len(minted) + 1
      /\ \A i \in 1..Len(minted) : minted'[i] = minted[i]
      /\ minted'[Len(minted) + 1] = paid
    BY <1>3, <1>4, <1>6
<1>9. \A i \in 1..Len(blocks') : /\ blocks'[i].hash \in 1..Len(minted')
                                 /\ blocks'[i].paid = minted'[blocks'[i].hash]
    <2> SUFFICES ASSUME NEW i \in 1..Len(blocks')
                 PROVE  blocks'[i].hash \in 1..Len(minted') /\ blocks'[i].paid = minted'[blocks'[i].hash]
        OBVIOUS
    <2>1. CASE i \in 1..Len(blocks)
        <3>1. blocks'[i] = blocks[i] /\ blocks[i].hash \in 1..Len(minted) /\ blocks[i].paid = minted[blocks[i].hash]
            BY <1>7, <2>1 DEF PressureTypes
        <3>2. Len(minted) \in Nat
            BY <1>4
        <3> QED BY <1>8, <3>1, <3>2
    <2>2. CASE i = Len(blocks) + 1
        BY <1>4, <1>7, <1>8, <2>2
    <2> QED BY <1>4, <1>7, <2>1, <2>2
<1>10. PressureTypes'
    BY <1>2, <1>7, <1>8, <1>9 DEF PressureTypes
<1>11. \A i \in 1..Len(blocks') : \/ i \in 1..Len(blocks) /\ blocks'[i] = blocks[i]
                                  \/ blocks'[i].hash > Len(minted)
    BY <1>4, <1>7
<1>12. Len(minted) <= Len(minted')
    BY <1>4, <1>8
<1> QED BY <1>2, <1>8, <1>10, <1>11, <1>12, ChainKeeps

\* A reorganisation takes blocks away.
LEMMA ReorganiseKeeps == ASSUME PressureInv, Pressure!Reorganise PROVE PressureInv'
<1> USE DEF PressureInv
<1>1. PICK n \in 1..(Len(blocks) - 1) : blocks' = SubSeq(blocks, 1, n)
    BY DEF Pressure!Reorganise
<1>2. UNCHANGED <<minted, engine, pub, table, signed, worker>>
    BY DEF Pressure!Reorganise
<1>3. blocks \in Seq(Block) /\ minted \in Seq(Nat)
    BY DEF PressureTypes
<1>4. blocks' \in Seq(Block) /\ Len(blocks') = n /\ \A i \in 1..n : i \in 1..Len(blocks) /\ blocks'[i] = blocks[i]
    BY <1>1, <1>3
<1>5. n \in Nat /\ n > 0 /\ Len(minted) \in Nat
    BY <1>3
<1>6. \A i \in 1..Len(blocks') : /\ blocks'[i].hash \in 1..Len(minted')
                                 /\ blocks'[i].paid = minted'[blocks'[i].hash]
    BY <1>2, <1>4 DEF PressureTypes
<1>7. PressureTypes'
    BY <1>2, <1>4, <1>5, <1>6 DEF PressureTypes
<1> QED BY <1>2, <1>4, <1>5, <1>7, ChainKeeps

\* Steps of the engine and of the published state.
LEMMA EngineKeeps ==
  ASSUME PressureConstants, PressureInv,
         Pressure!Publish \/ Pressure!PlayRally \/ Pressure!RollBack
  PROVE  PressureInv'
<1> USE DEF PressureInv
<1>1. UNCHANGED <<blocks, minted, table, signed, worker>>
    BY DEF Pressure!Publish, Pressure!PlayRally, Pressure!RollBack
<1>2. engine' \in Engine /\ pub'.resume \in Nat
    <2>1. engine \in Engine /\ pub.resume \in Nat
        BY DEF PressureTypes
    <2>2. CASE Pressure!Publish
        BY <2>1, <2>2 DEF Pressure!Publish, Pressure!Pause, Engine
    <2>3. CASE Pressure!PlayRally
        <3>1. /\ engine' = [rally |-> engine.rally + 1, resume |-> engine.resume + 1, paused |-> TRUE]
              /\ pub' = pub /\ engine.rally < MaxRally
            BY <2>3 DEF Pressure!PlayRally
        <3>2. engine.rally + 1 \in Pressure!Rallies
            BY <2>1, <3>1 DEF Engine, Pressure!Rallies, PressureConstants
        <3> QED BY <2>1, <3>1, <3>2 DEF Engine
    <2>4. CASE Pressure!RollBack
        <3>1. /\ engine' = [rally |-> engine.rally, resume |-> engine.resume + 1, paused |-> TRUE]
              /\ pub' = pub
            BY <2>1, <2>4, Zenon DEF Pressure!RollBack, Engine
        <3> QED BY <2>1, <3>1 DEF Engine
    <2> QED BY <2>2, <2>3, <2>4
<1>3. PressureTypes'
    BY <1>1, <1>2 DEF PressureTypes
<1>4. Len(minted) <= Len(minted') /\ \A i \in 1..Len(blocks') : i \in 1..Len(blocks) /\ blocks'[i] = blocks[i]
    BY <1>1 DEF PressureTypes
<1> QED BY <1>1, <1>3, <1>4, ChainKeeps

\* One worker's step, what is frozen and what is signed.
LEMMA WorkerKeeps ==
  ASSUME PressureInv, NEW w \in Workers, NEW rec \in WorkerState, Pressure!Step(w, rec),
         UNCHANGED <<blocks, minted, pub>>, engine' \in Engine,
         table' \in [Pressure!Rallies -> Checkpoint],
         \A r \in Pressure!Rallies : table[r] # Pressure!None => table'[r] = table[r],
         Frozen', SignedIsFrozen', Knows(w)'
  PROVE  PressureInv'
<1> USE DEF PressureInv
<1>1. \A v \in Workers : worker'[v] = IF v = w THEN rec ELSE worker[v]
    BY DEF Pressure!Step, PressureTypes
<1>2. PressureTypes'
    BY DEF Pressure!Step, PressureTypes
<1>3. ASSUME NEW v \in Workers \ {w} PROVE Knows(v)'
    <2>1. worker'[v] = worker[v] /\ worker[v].rally \in Pressure!Rallies
        BY <1>1 DEF PressureTypes, WorkerState
    <2>2. worker[v].at = "sign" => table[worker[v].rally] # Pressure!None
        <3>1. worker[v].at = "sign" => worker[v].hash # 0 /\ table[worker[v].rally] = Pressure!Computed(v)
            BY DEF Knows, PressureTypes
        <3>2. Pressure!Computed(v).hash = worker[v].hash /\ Pressure!None.hash = 0
            BY DEF Pressure!Computed, Pressure!None
        <3> QED BY <3>1, <3>2
    <2> QED BY <2>1, <2>2 DEF Knows, Honest, Pressure!SameSource, Pressure!HasSource, Pressure!Source, Pressure!Computed
<1> QED BY <1>2, <1>3

\* A worker starts with a round, gives up, or goes back to idle: it knows nothing.
LEMMA IdleFacts == Pressure!Idle \in WorkerState \/ ~PressureConstants
BY DEF Pressure!Idle, WorkerState, Steps, Pressure!Rallies, PressureConstants

\* A step that reads, or that ends the worker's attempt.
LEMMA ReadKeeps ==
  ASSUME PressureInv, NEW w \in Workers, NEW rec \in WorkerState, Pressure!Step(w, rec),
         UNCHANGED <<blocks, minted, pub, engine, table, signed>>, Knows(w)'
  PROVE  PressureInv'
<1>1. /\ engine' \in Engine /\ table' \in [Pressure!Rallies -> Checkpoint]
      /\ \A r \in Pressure!Rallies : table'[r] = table[r]
    BY DEF PressureInv, PressureTypes
<1>2. Frozen' /\ SignedIsFrozen'
    BY DEF PressureInv, Frozen, Honest, SignedIsFrozen
<1> QED BY <1>1, <1>2, WorkerKeeps

\* A worker that gives up knows nothing.
LEMMA ToIdleKeeps ==
  ASSUME PressureConstants, PressureInv, NEW w \in Workers, Pressure!Step(w, Pressure!Idle),
         UNCHANGED <<blocks, minted, pub, engine, table, signed>>
  PROVE  PressureInv'
<1>1. worker'[w] = Pressure!Idle
    BY DEF Pressure!Step, PressureInv, PressureTypes
<1>2. Knows(w)'
    BY <1>1 DEF Knows, Pressure!Idle
<1> QED BY <1>2, IdleFacts, ReadKeeps

\* A worker starts with the closing block of a round, or a round is opened.
LEMMA ObserveKeeps ==
  ASSUME PressureConstants, PressureInv, NEW w \in Workers, Pressure!Observe(w)
  PROVE  PressureInv'
<1> USE DEF PressureInv
<1>1. UNCHANGED <<blocks, minted, pub, engine, table, signed>>
    BY DEF Pressure!Observe
<1>2. CASE UNCHANGED worker
    BY <1>1, <1>2 DEF PressureTypes, Knows, Honest, Frozen, SignedIsFrozen, Pressure!SameSource,
       Pressure!HasSource, Pressure!Source, Pressure!Computed
<1>3. CASE ~UNCHANGED worker
    <2> DEFINE rec == [Pressure!Idle EXCEPT !.at = "block", !.rally = engine.rally, !.resume = engine.resume,
                          !.src = Pressure!Close(engine.rally)]
    <2>1. Pressure!Step(w, rec)
        BY <1>3 DEF Pressure!Observe
    <2>2. Pressure!Close(engine.rally) \in Nat /\ engine.rally \in Pressure!Rallies /\ engine.resume \in Nat
        <3>1. Pressure!Top \in Block /\ engine \in Engine
            BY DEF PressureTypes, Pressure!Top
        <3> QED BY <3>1 DEF Pressure!Close, Block, Rounds, Engine
    <2>3. Pressure!Idle \in WorkerState
        BY IdleFacts
    <2>4. rec \in WorkerState /\ rec.at = "block"
        <3> DEFINE src == Pressure!Close(engine.rally)
        <3> HIDE DEF src
        <3> QED BY <2>2, <2>3 DEF WorkerState, Steps, src
    <2> HIDE DEF rec
    <2>5. worker'[w] = rec
        BY <2>1 DEF Pressure!Step, PressureTypes
    <2>6. Knows(w)'
        BY <2>4, <2>5 DEF Knows
    <2> QED BY <1>1, <2>1, <2>4, <2>6, ReadKeeps
<1> QED BY <1>2, <1>3

\* The source block is read, beside the row that may be frozen.
LEMMA ReadBlockKeeps ==
  ASSUME PressureConstants, PressureInv, NEW w \in Workers, Pressure!ReadBlock(w)
  PROVE  PressureInv'
<1> USE DEF PressureInv
<1> DEFINE me == worker[w]
           stored == table[me.rally]
           hash == blocks[Pressure!Source(w)].hash
<1>1. UNCHANGED <<blocks, minted, pub, engine, table, signed>>
    BY DEF Pressure!ReadBlock
<1>2. me \in WorkerState /\ me.rally \in Pressure!Rallies /\ stored \in Checkpoint
    BY DEF PressureTypes, WorkerState
<1>3. CASE Pressure!Step(w, Pressure!Idle)
    BY <1>1, <1>3, ToIdleKeeps
<1>4. CASE /\ Pressure!HasSource(w)
           /\ Pressure!Step(w, [me EXCEPT !.at = "paid", !.hash = hash])
    <2> DEFINE rec == [me EXCEPT !.at = "paid", !.hash = hash]
    <2>1. hash \in 1..Len(minted) /\ Len(minted) \in Nat
        BY <1>4 DEF Pressure!HasSource, PressureTypes
    <2>2. rec \in WorkerState /\ rec.at = "paid" /\ rec.hash = hash
        <3>1. hash \in Nat
            BY <2>1
        <3> HIDE DEF hash
        <3> QED BY <1>2, <3>1 DEF WorkerState, Steps
    <2>3. worker'[w] = rec
        BY <1>4 DEF Pressure!Step, PressureTypes
    <2> HIDE DEF rec
    <2>4. Knows(w)'
        BY <1>1, <2>1, <2>2, <2>3 DEF Knows
    <2> QED BY <1>1, <1>4, <2>2, <2>4, ReadKeeps DEF rec
<1>5. CASE /\ Pressure!HasSource(w) /\ stored # Pressure!None /\ stored.hash = hash /\ stored.resume = me.resume
           /\ Pressure!Step(w, [me EXCEPT !.at = "sign", !.hash = stored.hash, !.paid = stored.paid])
    <2> DEFINE rec == [me EXCEPT !.at = "sign", !.hash = stored.hash, !.paid = stored.paid]
    <2>1. Honest(stored) /\ stored.hash \in 1..Len(minted)
        BY <1>2, <1>5 DEF Frozen, Honest
    <2>2. /\ rec \in WorkerState /\ rec.at = "sign" /\ rec.hash = stored.hash /\ rec.paid = stored.paid
          /\ rec.resume = me.resume /\ rec.rally = me.rally
        BY <1>2 DEF WorkerState, Steps, Checkpoint
    <2>3. worker'[w] = rec
        BY <1>5 DEF Pressure!Step, PressureTypes
    <2>4. stored = [resume |-> rec.resume, hash |-> rec.hash, paid |-> rec.paid]
        BY <1>2, <1>5, <2>2 DEF Checkpoint
    <2> HIDE DEF rec
    <2>5. Knows(w)'
        BY <1>1, <2>1, <2>2, <2>3, <2>4 DEF Knows, Pressure!Computed
    <2> QED BY <1>1, <1>5, <2>2, <2>5, ReadKeeps DEF rec
<1> QED BY <1>3, <1>4, <1>5 DEF Pressure!ReadBlock

\* The totals belong to the block that is there now.
LEMMA ReadPaidKeeps ==
  ASSUME PressureConstants, PressureInv, NEW w \in Workers, Pressure!ReadPaid(w)
  PROVE  PressureInv'
<1> USE DEF PressureInv
<1> DEFINE me == worker[w]
           rec == [me EXCEPT !.at = "recheck", !.paid = blocks[Pressure!Source(w)].paid]
<1>1. UNCHANGED <<blocks, minted, pub, engine, table, signed>> /\ me.at = "paid"
    BY DEF Pressure!ReadPaid
<1>2. CASE Pressure!Step(w, Pressure!Idle)
    BY <1>1, <1>2, ToIdleKeeps
<1>3. CASE Pressure!HasSource(w) /\ Pressure!Step(w, rec)
    <2>1. /\ me \in WorkerState /\ me.hash \in 1..Len(minted)
          /\ blocks[me.src].paid = minted[blocks[me.src].hash] /\ blocks[me.src].paid \in Nat
        <3>1. me.src \in 1..Len(blocks)
            BY <1>3 DEF Pressure!HasSource, Pressure!Source
        <3>2. blocks[me.src] \in Block
            BY <3>1 DEF PressureTypes
        <3>3. blocks[me.src].paid \in Nat
            BY <3>2 DEF Block
        <3>4. blocks[me.src].paid = minted[blocks[me.src].hash] /\ me \in WorkerState
            BY <3>1 DEF PressureTypes
        <3>5. me.hash \in 1..Len(minted)
            BY <1>1 DEF Knows
        <3> QED BY <3>3, <3>4, <3>5
    <2>2. /\ rec \in WorkerState /\ rec.at = "recheck" /\ rec.hash = me.hash /\ rec.src = me.src
          /\ rec.paid = blocks[me.src].paid
        BY <2>1 DEF WorkerState, Steps, Pressure!Source
    <2>3. worker'[w] = rec
        BY <1>3 DEF Pressure!Step, PressureTypes
    <2>4. Pressure!SameSource(w)' => blocks[me.src].hash = me.hash
        BY <1>1, <2>2, <2>3 DEF Pressure!SameSource, Pressure!Source
    <2> HIDE DEF rec
    <2>5. Knows(w)'
        BY <1>1, <2>1, <2>2, <2>3, <2>4 DEF Knows, Honest
    <2> QED BY <1>1, <1>3, <2>2, <2>5, ReadKeeps
<1> QED BY <1>2, <1>3 DEF Pressure!ReadPaid

\* The block is read again: then the totals are its own.
LEMMA RecheckKeeps ==
  ASSUME PressureConstants, PressureInv, NEW w \in Workers, Pressure!Recheck(w)
  PROVE  PressureInv'
<1> USE DEF PressureInv
<1> DEFINE me == worker[w]
           rec == [me EXCEPT !.at = "freeze"]
<1>1. UNCHANGED <<blocks, minted, pub, engine, table, signed>> /\ me.at = "recheck"
    BY DEF Pressure!Recheck
<1>2. CASE Pressure!Step(w, Pressure!Idle)
    BY <1>1, <1>2, ToIdleKeeps
<1>3. CASE Pressure!SameSource(w) /\ Pressure!Step(w, rec)
    <2>1. me \in WorkerState /\ Honest(me)
        BY <1>1, <1>3 DEF PressureTypes, Knows
    <2>2. rec \in WorkerState /\ rec.at = "freeze" /\ rec.hash = me.hash /\ rec.paid = me.paid
        BY <2>1 DEF WorkerState, Steps
    <2>3. worker'[w] = rec
        BY <1>3 DEF Pressure!Step, PressureTypes
    <2> HIDE DEF rec
    <2>4. Knows(w)'
        BY <1>1, <2>1, <2>2, <2>3 DEF Knows, Honest
    <2> QED BY <1>1, <1>3, <2>2, <2>4, ReadKeeps
<1> QED BY <1>2, <1>3 DEF Pressure!Recheck

\* The checkpoint of a rally is inserted once, and the worker signs it or gives up.
LEMMA FreezeKeeps ==
  ASSUME PressureConstants, PressureInv, NEW w \in Workers, Pressure!Freeze(w)
  PROVE  PressureInv'
<1> USE DEF PressureInv
<1> DEFINE me == worker[w]
           r == me.rally
           cp == Pressure!Computed(w)
           rec == IF Pressure!Agrees(w) THEN [me EXCEPT !.at = "sign"] ELSE Pressure!Idle
<1>1. /\ UNCHANGED <<blocks, minted, pub, engine, signed>> /\ me.at = "freeze" /\ Pressure!Step(w, rec)
      /\ table' = IF table[r] = Pressure!None THEN [table EXCEPT ![r] = cp] ELSE table
    BY DEF Pressure!Freeze
<1>2. me \in WorkerState /\ r \in Pressure!Rallies /\ Honest(me)
    BY <1>1 DEF PressureTypes, Knows, WorkerState
<1>3. cp \in Checkpoint /\ cp.hash = me.hash /\ cp.paid = me.paid /\ Honest(cp)
    BY <1>2 DEF Pressure!Computed, Checkpoint, WorkerState, Honest
<1> HIDE DEF cp
<1>4. /\ table' \in [Pressure!Rallies -> Checkpoint]
      /\ \A q \in Pressure!Rallies : table'[q] = IF q = r /\ table[q] = Pressure!None THEN cp ELSE table[q]
    BY <1>1, <1>2, <1>3 DEF PressureTypes
<1>5. Frozen'
    BY <1>1, <1>3, <1>4 DEF Frozen, Honest
<1>6. SignedIsFrozen'
    <2> SUFFICES ASSUME NEW s \in signed PROVE table'[s.rally] = table[s.rally]
        BY <1>1 DEF SignedIsFrozen
    <2>1. s \in Signature /\ table[s.rally] # Pressure!None
        BY DEF SignedIsFrozen
    <2>2. s.rally \in Pressure!Rallies
        BY <2>1 DEF Signature
    <2> QED BY <1>4, <2>1, <2>2
<1>7. rec \in WorkerState
    BY <1>2, IdleFacts DEF WorkerState, Steps
<1>8. Knows(w)'
    <2>1. worker'[w] = rec
        BY <1>1 DEF Pressure!Step, PressureTypes
    <2>2. CASE ~Pressure!Agrees(w)
        BY <2>1, <2>2 DEF Knows, Pressure!Idle
    <2>3. CASE Pressure!Agrees(w)
        <3>1. /\ worker'[w].at = "sign" /\ worker'[w].rally = r /\ worker'[w].hash = me.hash
              /\ worker'[w].paid = me.paid /\ worker'[w].resume = me.resume
            BY <1>2, <2>1, <2>3 DEF WorkerState
        <3>2. table'[r] = cp
            BY <1>2, <1>4, <2>3 DEF Pressure!Agrees, cp
        <3>3. Pressure!Computed(w)' = cp
            BY <3>1 DEF Pressure!Computed, cp
        <3> QED BY <1>1, <1>2, <3>1, <3>2, <3>3 DEF Knows, Honest
    <2> QED BY <2>2, <2>3
<1>9. engine' \in Engine
    BY <1>1 DEF PressureTypes
<1> HIDE DEF rec
<1> QED BY <1>1, <1>4, <1>5, <1>6, <1>7, <1>8, <1>9, WorkerKeeps

\* What is signed is what was frozen.
LEMMA SignKeeps ==
  ASSUME PressureConstants, PressureInv, NEW w \in Workers, Pressure!Sign(w)
  PROVE  PressureInv'
<1> USE DEF PressureInv
<1> DEFINE me == worker[w]
           new == [rally |-> me.rally, resume |-> me.resume, hash |-> me.hash, paid |-> me.paid]
<1>1. /\ UNCHANGED <<blocks, minted, pub, table>> /\ me.at = "sign" /\ Pressure!Step(w, Pressure!Idle)
      /\ signed' = signed \cup {new}
    BY DEF Pressure!Sign
<1>2. me.rally \in Pressure!Rallies /\ me.hash # 0 /\ table[me.rally] = Pressure!Computed(w)
    BY <1>1 DEF PressureTypes, WorkerState, Knows
<1>3. engine' \in Engine
    BY DEF Pressure!Sign, PressureTypes, Engine
<1>4. SignedIsFrozen'
    <2>1. me \in WorkerState
        BY DEF PressureTypes
    <2>2. new \in Signature
        BY <1>2, <2>1 DEF Signature, WorkerState
    <2>3. table[me.rally].resume = me.resume /\ table[me.rally].hash = me.hash /\ table[me.rally].paid = me.paid
        BY <1>2 DEF Pressure!Computed
    <2>4. table[me.rally] # Pressure!None
        BY <1>2, <2>3 DEF Pressure!None
    <2>5. /\ new.rally = me.rally /\ new.resume = me.resume /\ new.hash = me.hash /\ new.paid = me.paid
        OBVIOUS
    <2> HIDE DEF new
    <2> QED BY <1>1, <2>2, <2>3, <2>4, <2>5 DEF SignedIsFrozen
<1>5. /\ table' \in [Pressure!Rallies -> Checkpoint] /\ Frozen'
      /\ \A r \in Pressure!Rallies : table'[r] = table[r]
    BY <1>1 DEF PressureTypes, Frozen, Honest
<1>6. Knows(w)'
    <2>1. worker'[w] = Pressure!Idle
        BY <1>1 DEF Pressure!Step, PressureTypes
    <2> QED BY <2>1 DEF Knows, Pressure!Idle
<1> QED BY <1>1, <1>3, <1>4, <1>5, <1>6, IdleFacts, WorkerKeeps

\* A worker that stops gives up.
LEMMA StopKeeps ==
  ASSUME PressureConstants, PressureInv, NEW w \in Workers, Pressure!Stop(w)
  PROVE  PressureInv'
BY ToIdleKeeps DEF Pressure!Stop

\* Every step of the bridge keeps the invariant.
LEMMA PressureStep ==
  PressureConstants /\ PressureInv /\ [Pressure!Next]_(Pressure!vars) => PressureInv'
<1> SUFFICES ASSUME PressureConstants, PressureInv, [Pressure!Next]_(Pressure!vars) PROVE PressureInv'
    OBVIOUS
<1>1. ASSUME NEW w \in Workers, Pressure!Works(w) PROVE PressureInv'
    BY <1>1, ObserveKeeps, ReadBlockKeeps, ReadPaidKeeps, RecheckKeeps, FreezeKeeps, SignKeeps
       DEF Pressure!Works
<1>2. CASE UNCHANGED Pressure!vars
    BY <1>2 DEF Pressure!vars, PressureInv, PressureTypes, Knows, Honest, Frozen, SignedIsFrozen,
       Pressure!SameSource, Pressure!HasSource, Pressure!Source, Pressure!Computed
<1> QED BY <1>1, <1>2, MineKeeps, ReorganiseKeeps, EngineKeeps, StopKeeps DEF Pressure!Next

\* What is signed is the one checkpoint of its rally, and it is honest.
LEMMA PressureFacts == PressureInv => Pressure!OneCheckpoint /\ Pressure!PressureIsPaid
<1> SUFFICES ASSUME PressureInv PROVE Pressure!OneCheckpoint /\ Pressure!PressureIsPaid
    OBVIOUS
<1> USE DEF PressureInv
<1>1. \A s \in signed : /\ s \in Signature /\ table[s.rally] # Pressure!None
                        /\ s.resume = table[s.rally].resume /\ s.hash = table[s.rally].hash
                        /\ s.paid = table[s.rally].paid
    BY DEF SignedIsFrozen
<1>2. Pressure!PressureIsPaid
    <2> SUFFICES ASSUME NEW s \in signed PROVE minted[s.hash] = s.paid
        BY DEF Pressure!PressureIsPaid
    <2>1. s.rally \in Pressure!Rallies
        BY <1>1 DEF Signature
    <2>2. Honest(table[s.rally])
        BY <1>1, <2>1 DEF Frozen
    <2> QED BY <1>1, <2>2 DEF Honest
<1>3. Pressure!OneCheckpoint
    <2> SUFFICES ASSUME NEW s \in signed, NEW t \in signed, s.rally = t.rally PROVE s = t
        BY DEF Pressure!OneCheckpoint
    <2>1. s \in Signature /\ t \in Signature
        BY <1>1
    <2>2. s.resume = t.resume /\ s.hash = t.hash /\ s.paid = t.paid
        BY <1>1
    <2> QED BY <2>1, <2>2 DEF Signature
<1> QED BY <1>2, <1>3

\* The inductive invariant of the pressure bridge, for all workers, rallies, windows
\* and faults.
THEOREM PressureInvariance == PressureConstants => (Pressure!Spec => []PressureInv)
<1> SUFFICES ASSUME PressureConstants PROVE Pressure!Spec => []PressureInv
    OBVIOUS
<1>1. Pressure!Init => PressureInv
    BY PressureInit
<1>2. PressureInv /\ [Pressure!Next]_(Pressure!vars) => PressureInv'
    BY PressureStep
<1> QED BY <1>1, <1>2, PTL DEF Pressure!Spec

\* A rally's pressure is signed once, from a payment that was really made in the very
\* block it names.
THEOREM PressureSignedOnce ==
  PressureConstants => (Pressure!Spec => [](Pressure!OneCheckpoint /\ Pressure!PressureIsPaid))
<1> SUFFICES ASSUME PressureConstants
             PROVE  Pressure!Spec => [](Pressure!OneCheckpoint /\ Pressure!PressureIsPaid)
    OBVIOUS
<1>1. Pressure!Spec => []PressureInv
    BY PressureInvariance
<1> QED BY <1>1, PressureFacts, PTL

-----------------------------------------------------------------------------
(***************************************************************************)
(* Matchmaking of the arcade.                                              *)
(***************************************************************************)
\* The bounds are numbers.
MatchingConstants == MaxPair \in Nat /\ MaxTicket \in Nat

Submission == {"none", "queued", "mined", "reverted", "saved", "succeeded", "failed"}
Entering == [kind : {"enter", "pair"}, p : Pairable, k : Nat \ {0}]
Submitting == [kind : {"submit", "record"}, r : Matching!Rooms]

InvitedTypes ==
  invited \in [Matching!Challenges -> {Matching!NoChallenge} \cup Matching!Challenge]

\* Tickets, rooms, jobs, invitations and the serialized operation keep their shapes.
MatchingTypes ==
  /\ waiting \in [Pairable -> Nat]
  /\ pairs \in [Matching!Rooms -> {Matching!NoRoom} \cup Matching!Room]
  /\ creations \in [Matching!Rooms -> Submission]
  /\ InvitedTypes
  /\ doing \in {Matching!Idle} \cup Entering \cup Submitting
  /\ outages \in Nat

\* The player sits in a room that can still be created; the room is being prepared or
\* submitted for the player or its creation is on its way; the player waits in the
\* queue or is about to.
Seated(p, r) == p \in Matching!Seats(r)
Preparing(p, r) == pairs[r].state = "open" /\ Seated(p, r) /\ ~pairs[r].match
Engaged(p, r) == /\ Seated(p, r)
                 /\ \/ Preparing(p, r) \/ Matching!Pending(r)
                    \/ doing.kind \in {"submit", "record"} /\ doing.r = r
Waits(p) == waiting[p] # 0 \/ (doing.kind \in {"enter", "pair"} /\ doing.p = p)

\* A player is prepared for one room at most, and for none while waiting.
OnePreparation ==
  \A p \in Pairable :
    /\ \A r, t \in Matching!Rooms : Preparing(p, r) /\ Preparing(p, t) => r = t
    /\ Waits(p) => \A r \in Matching!Rooms : ~Preparing(p, r)

\* The same of creations, while the relayer has not stopped.
OneEngagement ==
  outages = 0 =>
    \A p \in Pairable :
      /\ \A r, t \in Matching!Rooms : Engaged(p, r) /\ Engaged(p, t) => r = t
      /\ Waits(p) => \A r \in Matching!Rooms : ~Engaged(p, r)

\* The job of a room is recorded in it, or is being recorded: no such room is deleted.
JobsRecorded ==
  /\ \A r \in Matching!Rooms : pairs[r] \in Matching!Room /\ pairs[r].match => pairs[r].job
  /\ doing.kind \in {"submit", "record"} => pairs[doing.r].state \in {"open", "expired"}
  /\ outages = 0 =>
       \A r \in Matching!Rooms : creations[r] # "none" =>
         /\ pairs[r].state \in {"open", "expired"}
         /\ pairs[r].job \/ (doing.kind = "record" /\ doing.r = r)
  /\ \A r \in games : r \in Matching!Rooms /\ creations[r] # "none"

MatchingInv == MatchingTypes /\ OnePreparation /\ OneEngagement /\ JobsRecorded

\* Matchmaking starts with nothing.
LEMMA MatchingInit == MatchingConstants /\ Matching!Init => MatchingInv
<1> SUFFICES ASSUME MatchingConstants, Matching!Init PROVE MatchingInv
    OBVIOUS
<1> USE DEF Matching!Init
<1>1. MatchingTypes
    BY DEF MatchingTypes, InvitedTypes, Submission
<1>2. \A r \in Matching!Rooms : pairs[r].state = "none" /\ pairs[r] \notin Matching!Room /\ creations[r] = "none"
    BY DEF Matching!NoRoom, Matching!Room
<1>3. doing.kind = "idle"
    BY DEF Matching!Idle
<1>4. \A p, r : r \in Matching!Rooms => ~Seated(p, r)
    BY <1>2 DEF Seated, Matching!Seats
<1> QED BY <1>1, <1>2, <1>3, <1>4 DEF MatchingInv, OnePreparation, OneEngagement, JobsRecorded, Preparing, Engaged

\* A room that expires or is deleted stays the room of its players.
LEMMA StateEdited ==
  ASSUME NEW m \in Matching!Room, NEW x \in {"expired", "deleted"}, NEW n,
         n = [m EXCEPT !.state = x]
  PROVE  /\ n \in Matching!Room /\ n.state = x /\ n.a = m.a /\ n.b = m.b
         /\ n.job = m.job /\ n.match = m.match
BY DEF Matching!Room

\* So does one whose job is recorded.
LEMMA JobEdited ==
  ASSUME NEW m \in Matching!Room, NEW n, n = [m EXCEPT !.job = TRUE]
  PROVE  /\ n \in Matching!Room /\ n.state = m.state /\ n.a = m.a /\ n.b = m.b
         /\ n.job /\ n.match = m.match
BY DEF Matching!Room

\* The match of a room is recorded.
LEMMA MatchEdited ==
  ASSUME NEW m \in Matching!Room, NEW n, n = [m EXCEPT !.match = TRUE]
  PROVE  /\ n \in Matching!Room /\ n.state = m.state /\ n.a = m.a /\ n.b = m.b
         /\ n.job = m.job /\ n.match
BY DEF Matching!Room

\* A step after which nobody is engaged or waits more than before.
LEMMA LessKeeps ==
  ASSUME MatchingInv, MatchingTypes', JobsRecorded', outages' = 0 => outages = 0,
         \A p \in Pairable, r \in Matching!Rooms : Preparing(p, r)' => Preparing(p, r),
         \A p \in Pairable, r \in Matching!Rooms : outages' = 0 /\ Engaged(p, r)' => Engaged(p, r),
         \A p \in Pairable : Waits(p)' => Waits(p)
  PROVE  MatchingInv'
<1>1. OnePreparation'
    BY DEF MatchingInv, OnePreparation
<1>2. OneEngagement'
    BY DEF MatchingInv, OneEngagement
<1> QED BY <1>1, <1>2 DEF MatchingInv

\* What a room becomes in a step that creates none: it keeps its players, and neither
\* opens again nor loses its job or its match.
Ages(r) ==
  \/ pairs'[r] = pairs[r]
  \/ /\ pairs[r] \in Matching!Room /\ pairs'[r] \in Matching!Room
     /\ pairs'[r].a = pairs[r].a /\ pairs'[r].b = pairs[r].b
     /\ pairs'[r].state = "open" => pairs[r].state = "open"
     /\ pairs[r].job => pairs'[r].job
     /\ pairs[r].match => pairs'[r].match

\* Then nobody sits elsewhere, and no room is prepared that was not.
LEMMA AgesFacts ==
  ASSUME NEW r, Ages(r), NEW p
  PROVE  (Seated(p, r)' <=> Seated(p, r)) /\ (Preparing(p, r)' => Preparing(p, r))
<1>1. CASE pairs'[r] = pairs[r]
    BY <1>1 DEF Seated, Preparing, Matching!Seats
<1>2. CASE pairs'[r] # pairs[r]
    <2>1. pairs[r].state # "none" /\ pairs'[r].state # "none" /\ pairs[r].match \in BOOLEAN
        BY <1>2 DEF Ages, Matching!Room
    <2> QED BY <1>2, <2>1 DEF Seated, Preparing, Matching!Seats, Ages
<1> QED BY <1>1, <1>2

\* A step of the journal, the chain, the cache or an invitation: no room, ticket or
\* operation moves, and no job appears.
LEMMA ElsewhereKeeps ==
  ASSUME MatchingInv, UNCHANGED <<waiting, pairs, doing, outages>>,
         creations' \in [Matching!Rooms -> Submission],
         \A r \in Matching!Rooms : /\ Matching!Pending(r)' => Matching!Pending(r)
                                   /\ creations'[r] = "none" <=> creations[r] = "none",
         InvitedTypes',
         \A r \in games' : r \in Matching!Rooms /\ creations'[r] # "none"
  PROVE  MatchingInv'
<1> USE DEF MatchingInv
<1>1. MatchingTypes'
    BY DEF MatchingTypes
<1>2. JobsRecorded'
    BY DEF JobsRecorded
<1>3. \A p \in Pairable, r \in Matching!Rooms :
        (Seated(p, r)' <=> Seated(p, r)) /\ (Preparing(p, r)' <=> Preparing(p, r))
    BY DEF Seated, Preparing, Matching!Seats
<1>4. \A p \in Pairable, r \in Matching!Rooms : Engaged(p, r)' => Engaged(p, r)
    BY <1>3 DEF Engaged
<1>5. \A p \in Pairable : Waits(p)' => Waits(p)
    BY DEF Waits
<1> QED BY <1>1, <1>2, <1>3, <1>4, <1>5, LessKeeps

\* createMatch is executed, or reverts.
LEMMA MineKeepsMatching ==
  ASSUME MatchingInv, NEW r \in Matching!Rooms, Matching!Mine(r) PROVE MatchingInv'
<1> USE DEF MatchingInv
<1>1. /\ UNCHANGED <<waiting, pairs, doing, outages, invited>> /\ creations[r] = "queued"
      /\ \E x \in {"mined", "reverted"} : creations' = [creations EXCEPT ![r] = x]
      /\ games' \subseteq games \cup {r}
    BY DEF Matching!Mine, Matching!chainVars
<1>2. creations \in [Matching!Rooms -> Submission]
    BY DEF MatchingTypes
<1>3. /\ creations' \in [Matching!Rooms -> Submission]
      /\ \A t \in Matching!Rooms : /\ Matching!Pending(t)' => Matching!Pending(t)
                                   /\ creations'[t] = "none" <=> creations[t] = "none"
    BY <1>1, <1>2 DEF Submission, Matching!Pending
<1>4. \A t \in games' : t \in Matching!Rooms /\ creations'[t] # "none"
    BY <1>1, <1>3 DEF JobsRecorded
<1> QED BY <1>1, <1>3, <1>4, ElsewhereKeeps DEF MatchingTypes, InvitedTypes

\* A receipt is seen, and no job appears.
LEMMA ObserveReceiptKeeps ==
  ASSUME MatchingInv, NEW r \in Matching!Rooms, Matching!ObserveReceipt(r) PROVE MatchingInv'
<1> USE DEF MatchingInv
<1>1. /\ UNCHANGED <<waiting, pairs, doing, outages, invited, games>> /\ creations[r] # "none"
      /\ \E x \in {"saved", "failed"} : creations' = [creations EXCEPT ![r] = x]
    BY DEF Matching!ObserveReceipt, Matching!chainVars
<1>2. creations \in [Matching!Rooms -> Submission]
    BY DEF MatchingTypes
<1>3. /\ creations' \in [Matching!Rooms -> Submission]
      /\ \A t \in Matching!Rooms : /\ Matching!Pending(t)' => Matching!Pending(t)
                                   /\ creations'[t] = "none" <=> creations[t] = "none"
    BY <1>1, <1>2 DEF Submission, Matching!Pending
<1>4. \A t \in games' : t \in Matching!Rooms /\ creations'[t] # "none"
    BY <1>1, <1>3 DEF JobsRecorded
<1> QED BY <1>1, <1>3, <1>4, ElsewhereKeeps DEF MatchingTypes, InvitedTypes

\* Steps of the chain, the cache and the invitations.
LEMMA InvitationsKeep ==
  ASSUME MatchingConstants, MatchingInv,
         \/ \E r \in Matching!Rooms : Matching!MatchEnds(r)
         \/ Matching!Refresh
         \/ \E p \in Pairable, q \in Pairable \cup {Matching!Nobody} : Matching!Invite(p, q)
         \/ \E c \in Matching!Challenges : Matching!DeclineChallenge(c) \/ Matching!ChallengeLapses(c)
  PROVE  MatchingInv'
<1> USE DEF MatchingInv
<1>1. UNCHANGED <<waiting, pairs, doing, outages, creations, games>>
    BY DEF Matching!MatchEnds, Matching!Refresh, Matching!Invite, Matching!DeclineChallenge,
       Matching!ChallengeLapses, Matching!dbVars, Matching!chainVars
<1>2. InvitedTypes'
    <2>1. invited \in [Matching!Challenges -> {Matching!NoChallenge} \cup Matching!Challenge]
        BY DEF MatchingTypes, InvitedTypes
    <2>2. CASE (\E r \in Matching!Rooms : Matching!MatchEnds(r)) \/ Matching!Refresh
        BY <2>1, <2>2 DEF Matching!MatchEnds, Matching!Refresh, Matching!dbVars, InvitedTypes
    <2>3. ASSUME NEW p \in Pairable, NEW q \in Pairable \cup {Matching!Nobody}, Matching!Invite(p, q)
          PROVE  InvitedTypes'
        <3>1. PICK c \in Matching!Challenges : invited' = [invited EXCEPT ![c] =
                 [status |-> "pending", creator |-> p, recipient |-> q, room |-> 0]]
            BY <2>3 DEF Matching!Invite
        <3>2. [status |-> "pending", creator |-> p, recipient |-> q, room |-> 0] \in Matching!Challenge
            BY DEF Matching!Challenge, MatchingConstants
        <3> QED BY <2>1, <3>1, <3>2 DEF InvitedTypes
    <2>4. ASSUME NEW c \in Matching!Challenges, NEW x \in {"expired", "declined"},
                 invited' = [invited EXCEPT ![c] = [invited[c] EXCEPT !.status = x]],
                 invited[c].status = "pending"
          PROVE  InvitedTypes'
        <3>1. invited[c] \in Matching!Challenge
            BY <2>1, <2>4 DEF Matching!NoChallenge
        <3>2. [invited[c] EXCEPT !.status = x] \in Matching!Challenge
            BY <3>1 DEF Matching!Challenge
        <3> QED BY <2>1, <2>4, <3>2 DEF InvitedTypes
    <2>5. ASSUME NEW c \in Matching!Challenges, Matching!DeclineChallenge(c) \/ Matching!ChallengeLapses(c)
          PROVE  InvitedTypes'
        <3>1. invited[c].status = "pending" /\ \E x \in {"expired", "declined"} :
                 invited' = [invited EXCEPT ![c] = [invited[c] EXCEPT !.status = x]]
            BY <2>5, Zenon DEF Matching!DeclineChallenge, Matching!ChallengeLapses
        <3> QED BY <2>4, <3>1
    <2> QED BY <2>1, <2>2, <2>3, <2>5
<1> QED BY <1>1, <1>2, ElsewhereKeeps DEF MatchingTypes, JobsRecorded, Matching!Pending

\* A step in which rooms age: they are consented to, recorded, expire or are deleted.
LEMMA AgingKeeps ==
  ASSUME MatchingInv, UNCHANGED <<outages, games>>,
         pairs' \in [Matching!Rooms -> {Matching!NoRoom} \cup Matching!Room],
         \A r \in Matching!Rooms : Ages(r),
         waiting' \in [Pairable -> Nat], InvitedTypes',
         doing' \in {Matching!Idle} \cup Entering \cup Submitting,
         creations' \in [Matching!Rooms -> Submission],
         \A r \in Matching!Rooms : /\ Matching!Pending(r)' => Matching!Pending(r)
                                   /\ creations'[r] = "none" <=> creations[r] = "none",
         \A p \in Pairable : Waits(p)' => Waits(p),
         \A r \in Matching!Rooms : doing'.kind \in {"submit", "record"} /\ doing'.r = r =>
           \/ doing.kind \in {"submit", "record"} /\ doing.r = r
           \/ \A p \in Pairable : Seated(p, r) => Preparing(p, r),
         JobsRecorded'
  PROVE  MatchingInv'
<1> USE DEF MatchingInv
<1>1. MatchingTypes'
    BY DEF MatchingTypes
<1>2. \A p \in Pairable, r \in Matching!Rooms :
        (Seated(p, r)' <=> Seated(p, r)) /\ (Preparing(p, r)' => Preparing(p, r))
    BY AgesFacts
<1>3. \A p \in Pairable, r \in Matching!Rooms : Engaged(p, r)' => Engaged(p, r)
    BY <1>2 DEF Engaged
<1> QED BY <1>1, <1>2, <1>3, LessKeeps

\* A room that was made and is not of the kind "none".
LEMMA MadeRooms ==
  ASSUME MatchingTypes, NEW r \in Matching!Rooms
  PROVE  /\ pairs[r] \in Matching!Room <=> pairs[r].state # "none"
         /\ pairs[r] \in Matching!Room => /\ pairs[r].state \in {"open", "expired", "deleted"}
                                          /\ pairs[r].job \in BOOLEAN /\ pairs[r].match \in BOOLEAN
                                          /\ pairs[r].ja \in BOOLEAN /\ pairs[r].jb \in BOOLEAN
<1>1. pairs[r] = Matching!NoRoom \/ pairs[r] \in Matching!Room
    BY DEF MatchingTypes
<1> QED BY <1>1 DEF Matching!NoRoom, Matching!Room

\* A player whose rooms are matched asks for the queue: those rooms expire.
LEMMA QueueKeeps ==
  ASSUME MatchingInv, NEW p \in Pairable, NEW k \in 1..MaxTicket, MaxTicket \in Nat, Matching!Queue(p, k)
  PROVE  MatchingInv'
<1> USE DEF MatchingInv
<1>1. /\ UNCHANGED <<waiting, creations, invited, playing, games, unfinished, outages>>
      /\ doing = Matching!Idle /\ doing' = [kind |-> "enter", p |-> p, k |-> k]
      /\ Matching!Available({p}) /\ Matching!Preparing(p) = {}
      /\ pairs' = [r \in Matching!Rooms |-> IF p \in Matching!Seats(r) /\ Matching!Exists(r) /\ pairs[r].match
                               THEN [pairs[r] EXCEPT !.state = "expired"] ELSE pairs[r]]
    BY DEF Matching!Queue, Matching!chainVars
<1>2. ASSUME NEW r \in Matching!Rooms
      PROVE  /\ pairs'[r] \in {Matching!NoRoom} \cup Matching!Room /\ Ages(r)
             /\ pairs'[r].match = pairs[r].match /\ pairs'[r].job = pairs[r].job
             /\ pairs[r].state \in {"open", "expired"} => pairs'[r].state \in {"open", "expired"}
    <2>1. CASE p \in Matching!Seats(r) /\ Matching!Exists(r) /\ pairs[r].match
        <3>1. pairs'[r] = [pairs[r] EXCEPT !.state = "expired"] /\ pairs[r] \in Matching!Room
            BY <1>1, <2>1, MadeRooms DEF Matching!Exists
        <3>2. /\ pairs'[r] \in Matching!Room /\ pairs'[r].state = "expired"
              /\ pairs'[r].a = pairs[r].a /\ pairs'[r].b = pairs[r].b
              /\ pairs'[r].job = pairs[r].job /\ pairs'[r].match = pairs[r].match
            BY <3>1, StateEdited
        <3> QED BY <3>1, <3>2 DEF Ages
    <2>2. CASE ~(p \in Matching!Seats(r) /\ Matching!Exists(r) /\ pairs[r].match)
        <3>1. pairs'[r] = pairs[r]
            BY <1>1, <2>2
        <3> QED BY <3>1 DEF Ages, MatchingTypes
    <2> QED BY <2>1, <2>2
<1>3. MatchingTypes'
    <2>1. pairs' \in [Matching!Rooms -> {Matching!NoRoom} \cup Matching!Room]
        BY <1>1, <1>2
    <2>2. doing' \in Entering
        BY <1>1 DEF Entering
    <2> QED BY <1>1, <2>1, <2>2 DEF MatchingTypes, InvitedTypes
<1>4. \A q \in Pairable, r \in Matching!Rooms :
        (Seated(q, r)' <=> Seated(q, r)) /\ (Preparing(q, r)' => Preparing(q, r))
    BY <1>2, AgesFacts
<1>5. doing'.kind = "enter" /\ doing'.p = p /\ doing.kind = "idle"
    BY <1>1 DEF Matching!Idle
<1>6. \A q \in Pairable, r \in Matching!Rooms : Engaged(q, r)' => Engaged(q, r)
    BY <1>1, <1>4, <1>5 DEF Engaged, Matching!Pending
<1>7. \A q \in Pairable : Waits(q)' => q = p \/ Waits(q)
    BY <1>1, <1>5 DEF Waits
<1>8. \A r \in Matching!Rooms : ~Preparing(p, r)
    BY <1>1 DEF Preparing, Seated, Matching!Preparing
<1>9. outages = 0 => \A r \in Matching!Rooms : ~Engaged(p, r)
    <2> SUFFICES ASSUME outages = 0, NEW r \in Matching!Rooms, Seated(p, r), Matching!Pending(r) PROVE FALSE
        BY <1>5, <1>8 DEF Engaged
    <2>1. pairs[r].state \in {"open", "expired"} /\ pairs[r].job
        BY <1>5 DEF JobsRecorded, Matching!Pending
    <2> QED BY <1>1, <2>1 DEF Matching!Available, Matching!Exists, Seated
<1>10. OnePreparation'
    BY <1>4, <1>7, <1>8 DEF OnePreparation
<1>11. OneEngagement'
    BY <1>1, <1>6, <1>7, <1>9 DEF OneEngagement
<1>12. JobsRecorded'
    <2>1. \A r \in Matching!Rooms : pairs'[r] \in Matching!Room /\ pairs'[r].match => pairs'[r].job
        BY <1>2, MadeRooms DEF JobsRecorded, Ages
    <2> QED BY <1>1, <1>2, <1>5, <2>1 DEF JobsRecorded
<1> QED BY <1>3, <1>10, <1>11, <1>12

\* A consent is recorded, and with both the room is being submitted.
LEMMA ConsentKeeps ==
  ASSUME MatchingInv, NEW p \in Pairable, NEW r \in Matching!Rooms, Matching!Consent(p, r)
  PROVE  MatchingInv'
<1> USE DEF MatchingInv
<1> DEFINE new == [pairs[r] EXCEPT !.ja = @ \/ pairs[r].a = p, !.jb = @ \/ pairs[r].b = p]
<1>1. /\ UNCHANGED <<waiting, creations, invited, games, outages>>
      /\ doing = Matching!Idle /\ pairs[r].state = "open" /\ ~pairs[r].job
      /\ doing' \in {[kind |-> "submit", r |-> r], Matching!Idle}
      /\ pairs' = [pairs EXCEPT ![r].ja = @ \/ pairs[r].a = p, ![r].jb = @ \/ pairs[r].b = p]
    BY Zenon DEF Matching!Consent, Matching!chainVars
<1>2. pairs[r] \in Matching!Room /\ ~pairs[r].match /\ pairs[r].ja \in BOOLEAN /\ pairs[r].jb \in BOOLEAN
    BY <1>1, MadeRooms DEF JobsRecorded
<1>3. /\ new \in Matching!Room /\ new.state = "open" /\ new.a = pairs[r].a /\ new.b = pairs[r].b
      /\ new.job = pairs[r].job /\ new.match = pairs[r].match
    BY <1>1, <1>2 DEF Matching!Room
<1>11. pairs' = [pairs EXCEPT ![r] = new]
    BY <1>1
<1> HIDE DEF new
<1>4. /\ pairs' \in [Matching!Rooms -> {Matching!NoRoom} \cup Matching!Room]
      /\ \A t \in Matching!Rooms : pairs'[t] = IF t = r THEN new ELSE pairs[t]
    BY <1>11, <1>3 DEF MatchingTypes
<1>5. \A t \in Matching!Rooms : Ages(t)
    BY <1>1, <1>2, <1>3, <1>4 DEF Ages
<1>6. doing' \in {Matching!Idle} \cup Entering \cup Submitting
    BY <1>1 DEF Submitting
<1>7. doing.kind = "idle" /\ (doing'.kind = "idle" \/ (doing'.kind = "submit" /\ doing'.r = r))
    BY <1>1 DEF Matching!Idle
<1>8. \A q \in Pairable : Waits(q)' => Waits(q)
    BY <1>1, <1>7 DEF Waits
<1>9. \A q \in Pairable : Seated(q, r) => Preparing(q, r)
    BY <1>1, <1>2 DEF Preparing
<1>10. JobsRecorded'
    BY <1>1, <1>2, <1>3, <1>4, <1>7 DEF JobsRecorded
<1> QED BY <1>1, <1>4, <1>5, <1>6, <1>7, <1>8, <1>9, <1>10, AgingKeeps DEF MatchingTypes, InvitedTypes, Matching!Pending

\* Maintenance submits a room that has both consents.
LEMMA MaintainKeeps ==
  ASSUME MatchingInv, NEW r \in Matching!Rooms, Matching!Maintain(r)
  PROVE  MatchingInv'
<1> USE DEF MatchingInv
<1>1. /\ UNCHANGED <<waiting, pairs, creations, invited, games, outages>>
      /\ doing = Matching!Idle /\ pairs[r].state = "open" /\ ~pairs[r].job
      /\ doing' = [kind |-> "submit", r |-> r]
    BY DEF Matching!Maintain, Matching!Unsubmitted, Matching!Ready, Matching!chainVars, Matching!dbVars
<1>2. pairs[r] \in Matching!Room /\ ~pairs[r].match
    BY <1>1, MadeRooms DEF JobsRecorded
<1>3. \A t \in Matching!Rooms : Ages(t)
    BY <1>1 DEF Ages
<1>4. doing' \in Submitting
    BY <1>1 DEF Submitting
<1>5. doing.kind = "idle" /\ doing'.kind = "submit" /\ doing'.r = r
    BY <1>1 DEF Matching!Idle
<1>6. \A q \in Pairable : Waits(q)' => Waits(q)
    BY <1>1, <1>5 DEF Waits
<1>7. \A q \in Pairable : Seated(q, r) => Preparing(q, r)
    BY <1>1, <1>2 DEF Preparing
<1>8. JobsRecorded'
    BY <1>1, <1>5 DEF JobsRecorded
<1> QED BY <1>1, <1>3, <1>4, <1>5, <1>6, <1>7, <1>8, AgingKeeps DEF MatchingTypes, InvitedTypes, Matching!Pending

\* The job row is inserted for the room being submitted.
LEMMA SubmitInsertKeeps == ASSUME MatchingInv, Matching!SubmitInsert PROVE MatchingInv'
<1> USE DEF MatchingInv
<1> DEFINE r == doing.r
<1>1. /\ UNCHANGED <<waiting, pairs, invited, games, outages>> /\ doing.kind = "submit"
      /\ \/ creations[r] # "none" /\ doing' = [doing EXCEPT !.kind = "record"] /\ UNCHANGED creations
         \/ creations[r] = "none" /\ doing' = [doing EXCEPT !.kind = "record"]
            /\ creations' = [creations EXCEPT ![r] = "queued"]
         \/ doing' = Matching!Idle /\ UNCHANGED creations
    BY DEF Matching!SubmitInsert, Matching!chainVars
<1>2. doing \in Submitting /\ r \in Matching!Rooms
    BY <1>1 DEF MatchingTypes, Matching!Idle, Entering, Submitting
<1>3. \/ doing' = Matching!Idle /\ UNCHANGED creations
      \/ doing' \in Submitting /\ doing'.kind = "record" /\ doing'.r = r
    BY <1>1, <1>2 DEF Submitting
<1>4. /\ creations' \in [Matching!Rooms -> Submission]
      /\ \A t \in Matching!Rooms : /\ creations'[t] = creations[t] \/ (t = r /\ creations'[t] = "queued" /\ doing'.kind = "record")
                                   /\ creations[t] # "none" => creations'[t] # "none"
    BY <1>1, <1>2, <1>3 DEF MatchingTypes, Submission
<1>5. \A p \in Pairable, t \in Matching!Rooms :
        (Seated(p, t)' <=> Seated(p, t)) /\ (Preparing(p, t)' <=> Preparing(p, t))
    BY <1>1 DEF Seated, Preparing, Matching!Seats
<1>6. \A p \in Pairable, t \in Matching!Rooms : Engaged(p, t)' => Engaged(p, t)
    BY <1>1, <1>3, <1>4, <1>5 DEF Engaged, Matching!Pending, Matching!Idle
<1>7. \A p \in Pairable : Waits(p)' => Waits(p)
    BY <1>1, <1>3 DEF Waits, Matching!Idle
<1>8. MatchingTypes'
    BY <1>1, <1>3, <1>4 DEF MatchingTypes, InvitedTypes
<1>9. JobsRecorded'
    BY <1>1, <1>2, <1>3, <1>4 DEF JobsRecorded, Matching!Idle
<1> QED BY <1>1, <1>5, <1>6, <1>7, <1>8, <1>9, LessKeeps

\* The job is recorded in its room.
LEMMA SubmitRecordKeeps == ASSUME MatchingInv, Matching!SubmitRecord PROVE MatchingInv'
<1> USE DEF MatchingInv
<1> DEFINE r == doing.r
           new == [pairs[r] EXCEPT !.job = TRUE]
<1>1. /\ UNCHANGED <<waiting, creations, invited, games, outages>> /\ doing.kind = "record"
      /\ doing' = Matching!Idle /\ pairs' = [pairs EXCEPT ![r] = new]
    BY Zenon DEF Matching!SubmitRecord, Matching!chainVars
<1>2. r \in Matching!Rooms
    BY <1>1 DEF MatchingTypes, Matching!Idle, Entering, Submitting
<1>3. pairs[r].state \in {"open", "expired"} /\ pairs[r] \in Matching!Room
    BY <1>1, <1>2, MadeRooms DEF JobsRecorded
<1>4. /\ new \in Matching!Room /\ new.state = pairs[r].state /\ new.a = pairs[r].a /\ new.b = pairs[r].b
      /\ new.job = TRUE /\ new.match = pairs[r].match
    BY <1>3, JobEdited
<1> HIDE DEF new
<1>5. /\ pairs' \in [Matching!Rooms -> {Matching!NoRoom} \cup Matching!Room]
      /\ \A t \in Matching!Rooms : pairs'[t] = IF t = r THEN new ELSE pairs[t]
    BY <1>1, <1>2, <1>4 DEF MatchingTypes
<1>6. \A t \in Matching!Rooms : Ages(t)
    BY <1>3, <1>4, <1>5 DEF Ages
<1>7. doing'.kind = "idle"
    BY <1>1 DEF Matching!Idle
<1>8. \A q \in Pairable : Waits(q)' => Waits(q)
    BY <1>1, <1>7 DEF Waits
<1>9. JobsRecorded'
    BY <1>1, <1>2, <1>3, <1>4, <1>5, <1>7 DEF JobsRecorded
<1> QED BY <1>1, <1>5, <1>6, <1>7, <1>8, <1>9, AgingKeeps DEF MatchingTypes, InvitedTypes, Matching!Pending

\* A room that expires or is deleted, was not recorded when it is deleted.
LEMMA EndingKeeps ==
  ASSUME MatchingInv, NEW r, NEW x \in {"expired", "deleted"},
         UNCHANGED <<creations, games, doing, outages>>,
         pairs' = [pairs EXCEPT ![r] = [pairs[r] EXCEPT !.state = x]],
         pairs[r].state \in {"open", "expired"},
         x = "deleted" => doing = Matching!Idle /\ ~pairs[r].job,
         waiting' \in [Pairable -> Nat],
         \A p \in Pairable : waiting'[p] # 0 => waiting[p] # 0, InvitedTypes'
  PROVE  MatchingInv'
<1> USE DEF MatchingInv
<1> DEFINE new == [pairs[r] EXCEPT !.state = x]
<1>1. CASE r \in Matching!Rooms
    <2>1. pairs[r] \in Matching!Room
        BY <1>1, MadeRooms
    <2>2. /\ new \in Matching!Room /\ new.state = x /\ new.a = pairs[r].a /\ new.b = pairs[r].b
          /\ new.job = pairs[r].job /\ new.match = pairs[r].match
        BY <2>1, StateEdited
    <2> HIDE DEF new
    <2>3. pairs' = [pairs EXCEPT ![r] = new]
        BY DEF new
    <2>4. /\ pairs' \in [Matching!Rooms -> {Matching!NoRoom} \cup Matching!Room]
          /\ \A t \in Matching!Rooms : pairs'[t] = IF t = r THEN new ELSE pairs[t]
        BY <1>1, <2>2, <2>3 DEF MatchingTypes
    <2>5. \A t \in Matching!Rooms : Ages(t)
        BY <2>1, <2>2, <2>4 DEF Ages
    <2>6. \A p \in Pairable : Waits(p)' => Waits(p)
        BY DEF Waits
    <2>7. doing = Matching!Idle => doing.kind = "idle"
        BY DEF Matching!Idle
    <2>8. doing.kind \in {"submit", "record"} => doing.r \in Matching!Rooms
        BY DEF MatchingTypes, Matching!Idle, Entering, Submitting
    <2>9. JobsRecorded'
        <3>1. outages = 0 /\ creations[r] # "none" => x = "expired"
            BY <1>1, <2>7 DEF JobsRecorded
        <3>2. \A t \in Matching!Rooms : pairs'[t] \in Matching!Room /\ pairs'[t].match => pairs'[t].job
            BY <2>1, <2>2, <2>4 DEF JobsRecorded
        <3>3. doing.kind \in {"submit", "record"} => pairs'[doing.r].state \in {"open", "expired"}
            BY <2>2, <2>4, <2>7, <2>8 DEF JobsRecorded
        <3>4. outages = 0 => \A t \in Matching!Rooms : creations[t] # "none" =>
                 /\ pairs'[t].state \in {"open", "expired"}
                 /\ pairs'[t].job \/ (doing.kind = "record" /\ doing.r = t)
            BY <2>2, <2>4, <3>1 DEF JobsRecorded
        <3> QED BY <3>2, <3>3, <3>4 DEF JobsRecorded
    <2> QED BY <2>4, <2>5, <2>6, <2>9, AgingKeeps DEF MatchingTypes, Matching!Pending
<1>2. CASE r \notin Matching!Rooms
    <2>1. pairs' = pairs
        BY <1>2 DEF MatchingTypes
    <2>2. \A t \in Matching!Rooms : Ages(t)
        BY <2>1 DEF Ages
    <2>3. \A p \in Pairable : Waits(p)' => Waits(p)
        BY DEF Waits
    <2>4. JobsRecorded'
        BY <2>1 DEF JobsRecorded
    <2> QED BY <2>1, <2>2, <2>3, <2>4, AgingKeeps DEF MatchingTypes, Matching!Pending
<1> QED BY <1>1, <1>2

\* Invitations of a cancelled room are cancelled with it.
LEMMA CancelledInvites ==
  ASSUME MatchingInv, NEW r, Matching!Cancelled(r) PROVE InvitedTypes'
<1>1. /\ invited \in [Matching!Challenges -> {Matching!NoChallenge} \cup Matching!Challenge]
      /\ invited' = [c \in Matching!Challenges |->
            IF invited[c].status = "accepted" /\ invited[c].room = r
            THEN [invited[c] EXCEPT !.status = "cancelled"] ELSE invited[c]]
    BY DEF MatchingInv, MatchingTypes, InvitedTypes, Matching!Cancelled
<1>2. ASSUME NEW c \in Matching!Challenges PROVE invited'[c] \in {Matching!NoChallenge} \cup Matching!Challenge
    <2>1. CASE invited[c].status = "accepted" /\ invited[c].room = r
        <3>1. invited[c] \in Matching!Challenge
            BY <1>1, <2>1 DEF Matching!NoChallenge
        <3>2. [invited[c] EXCEPT !.status = "cancelled"] \in Matching!Challenge
            BY <3>1 DEF Matching!Challenge
        <3> QED BY <1>1, <2>1, <3>2
    <2>2. CASE ~(invited[c].status = "accepted" /\ invited[c].room = r)
        BY <1>1, <2>2
    <2> QED BY <2>1, <2>2
<1> QED BY <1>1, <1>2 DEF InvitedTypes

\* A ticket is cancelled with its queue row and its room, if it is not submitted.
LEMMA QueueCancelKeeps ==
  ASSUME MatchingInv, NEW p \in Pairable, NEW k, Matching!QueueCancel(p, k) PROVE MatchingInv'
<1> USE DEF MatchingInv
<1>1. /\ UNCHANGED <<creations, games, doing, outages>> /\ doing = Matching!Idle
      /\ waiting' = [waiting EXCEPT ![p] = IF @ = k THEN 0 ELSE @]
    BY DEF Matching!QueueCancel, Matching!chainVars
<1>2. \/ UNCHANGED <<pairs, invited>>
      \/ \E r \in Matching!Rooms : Matching!Exists(r) /\ Matching!MayCancel(r) /\ Matching!Cancelled(r)
    BY DEF Matching!QueueCancel
<1>3. waiting' \in [Pairable -> Nat] /\ \A q \in Pairable : waiting'[q] # 0 => waiting[q] # 0
    BY <1>1 DEF MatchingTypes
<1>4. CASE UNCHANGED <<pairs, invited>>
    <2>1. \A t \in Matching!Rooms : Ages(t)
        BY <1>4 DEF Ages
    <2>2. \A q \in Pairable : Waits(q)' => Waits(q)
        BY <1>1, <1>3 DEF Waits
    <2>3. JobsRecorded'
        BY <1>1, <1>4 DEF JobsRecorded
    <2> QED BY <1>1, <1>3, <1>4, <2>1, <2>2, <2>3, AgingKeeps DEF MatchingTypes, InvitedTypes, Matching!Pending
<1>5. ASSUME NEW r \in Matching!Rooms, Matching!Exists(r), Matching!MayCancel(r), Matching!Cancelled(r)
      PROVE  MatchingInv'
    <2>1. pairs' = [pairs EXCEPT ![r] = [pairs[r] EXCEPT !.state = "deleted"]] /\ ~pairs[r].job
        BY <1>5, Zenon DEF Matching!Cancelled, Matching!MayCancel
    <2>2. InvitedTypes'
        BY <1>5, CancelledInvites
    <2> QED BY <1>1, <1>3, <1>5, <2>1, <2>2, EndingKeeps DEF Matching!Exists
<1> QED BY <1>2, <1>4, <1>5

\* An invitation, or the room it led to, is cancelled by its creator.
LEMMA CancelChallengeKeeps ==
  ASSUME MatchingInv, NEW c \in Matching!Challenges, Matching!CancelChallenge(c) PROVE MatchingInv'
<1> USE DEF MatchingInv
<1>1. UNCHANGED <<waiting, creations, games, doing, outages>> /\ doing = Matching!Idle
    BY DEF Matching!CancelChallenge, Matching!chainVars
<1>2. invited \in [Matching!Challenges -> {Matching!NoChallenge} \cup Matching!Challenge]
    BY DEF MatchingTypes, InvitedTypes
<1>3. CASE /\ invited[c].status = "pending" /\ UNCHANGED pairs
           /\ invited' = [invited EXCEPT ![c] = [invited[c] EXCEPT !.status = "cancelled"]]
    <2>1. invited[c] \in Matching!Challenge
        BY <1>2, <1>3 DEF Matching!NoChallenge
    <2>2. [invited[c] EXCEPT !.status = "cancelled"] \in Matching!Challenge
        BY <2>1 DEF Matching!Challenge
    <2>3. InvitedTypes'
        BY <1>2, <1>3, <2>2 DEF InvitedTypes
    <2> QED BY <1>1, <1>3, <2>3, ElsewhereKeeps DEF MatchingTypes, JobsRecorded, Matching!Pending
<1>4. ASSUME NEW r, Matching!Exists(r), Matching!MayCancel(r), Matching!Cancelled(r)
      PROVE  MatchingInv'
    <2>1. pairs' = [pairs EXCEPT ![r] = [pairs[r] EXCEPT !.state = "deleted"]] /\ ~pairs[r].job
        BY <1>4, Zenon DEF Matching!Cancelled, Matching!MayCancel
    <2>2. InvitedTypes'
        BY <1>4, CancelledInvites
    <2> QED BY <1>1, <1>4, <2>1, <2>2, EndingKeeps DEF Matching!Exists, MatchingTypes
<1>5. \/ /\ invited[c].status = "pending" /\ UNCHANGED pairs
         /\ invited' = [invited EXCEPT ![c] = [invited[c] EXCEPT !.status = "cancelled"]]
      \/ LET r == invited[c].room
         IN  Matching!Exists(r) /\ Matching!MayCancel(r) /\ Matching!Cancelled(r)
    BY Zenon DEF Matching!CancelChallenge
<1> QED BY <1>3, <1>4, <1>5

\* The consents of a room lapse.
LEMMA RoomLapsesKeeps ==
  ASSUME MatchingInv, NEW r \in Matching!Rooms, Matching!RoomLapses(r) PROVE MatchingInv'
<1>1. /\ pairs[r].state = "open"
      /\ pairs' = [pairs EXCEPT ![r] = [pairs[r] EXCEPT !.state = "expired"]]
      /\ UNCHANGED <<waiting, creations, invited, games, doing, outages>>
    BY Zenon DEF Matching!RoomLapses, Matching!chainVars
<1> QED BY <1>1, EndingKeeps DEF MatchingInv, MatchingTypes, InvitedTypes

\* A created match is recorded in its room.
LEMMA RecordMatchKeeps ==
  ASSUME MatchingInv, NEW r \in Matching!Rooms, Matching!RecordMatch(r) PROVE MatchingInv'
<1> USE DEF MatchingInv
<1> DEFINE new == IF Matching!Exists(r) /\ pairs[r].job THEN [pairs[r] EXCEPT !.match = TRUE] ELSE pairs[r]
<1>1. /\ UNCHANGED <<waiting, invited, games, doing, outages>> /\ creations[r] = "saved"
      /\ creations' = [creations EXCEPT ![r] = "succeeded"]
      /\ pairs' = [pairs EXCEPT ![r] = new]
    BY Zenon DEF Matching!RecordMatch, Matching!chainVars
<1>5. \/ new = pairs[r]
      \/ /\ pairs[r] \in Matching!Room /\ new \in Matching!Room /\ new.state = pairs[r].state
         /\ new.a = pairs[r].a /\ new.b = pairs[r].b /\ new.job = pairs[r].job /\ pairs[r].job
         /\ new.match
    <2>1. CASE Matching!Exists(r) /\ pairs[r].job
        <3>1. pairs[r] \in Matching!Room
            BY <2>1, MadeRooms DEF Matching!Exists
        <3> QED BY <2>1, <3>1, MatchEdited
    <2> QED BY <2>1
<1>4. new \in {Matching!NoRoom} \cup Matching!Room
    BY <1>5 DEF MatchingTypes
<1> HIDE DEF new
<1>6. /\ pairs' \in [Matching!Rooms -> {Matching!NoRoom} \cup Matching!Room]
      /\ \A t \in Matching!Rooms : pairs'[t] = IF t = r THEN new ELSE pairs[t]
    BY <1>1, <1>4 DEF MatchingTypes
<1>7. /\ creations' \in [Matching!Rooms -> Submission]
      /\ \A t \in Matching!Rooms : /\ Matching!Pending(t)' => Matching!Pending(t)
                                   /\ creations'[t] = "none" <=> creations[t] = "none"
    BY <1>1 DEF MatchingTypes, Submission, Matching!Pending
<1>8. \A t \in Matching!Rooms : Ages(t)
    BY <1>5, <1>6 DEF Ages
<1>9. \A q \in Pairable : Waits(q)' => Waits(q)
    BY <1>1 DEF Waits
<1>10. doing.kind \in {"submit", "record"} => doing.r \in Matching!Rooms
    BY DEF MatchingTypes, Matching!Idle, Entering, Submitting
<1>11. \A t \in Matching!Rooms : /\ pairs'[t].state = pairs[t].state
                                 /\ pairs[t].job => pairs'[t].job
                                 /\ pairs'[t] = pairs[t] \/ pairs'[t].job
    BY <1>5, <1>6
<1>12. JobsRecorded'
    BY <1>1, <1>6, <1>7, <1>10, <1>11 DEF JobsRecorded
<1> QED BY <1>1, <1>6, <1>7, <1>8, <1>9, <1>12, AgingKeeps DEF MatchingTypes, InvitedTypes

\* The queue row of an admitted player is written.
LEMMA QueueEnteredKeeps == ASSUME MatchingInv, Matching!QueueEntered PROVE MatchingInv'
<1> USE DEF MatchingInv
<1>1. /\ UNCHANGED <<pairs, creations, invited, games, outages>> /\ doing.kind = "enter"
      /\ waiting' = [waiting EXCEPT ![doing.p] = doing.k]
      /\ doing' = [doing EXCEPT !.kind = "pair"]
    BY DEF Matching!QueueEntered, Matching!chainVars
<1>2. doing \in Entering
    BY <1>1 DEF MatchingTypes, Matching!Idle, Submitting
<1>3. doing' \in Entering /\ doing'.p = doing.p /\ doing'.kind = "pair"
    BY <1>1, <1>2 DEF Entering
<1>4. waiting' \in [Pairable -> Nat] /\ \A q \in Pairable : waiting'[q] = waiting[q] \/ q = doing.p
    BY <1>1, <1>2 DEF MatchingTypes, Entering
<1>5. \A q \in Pairable : Waits(q)' => Waits(q)
    BY <1>1, <1>3, <1>4 DEF Waits
<1>6. \A t \in Matching!Rooms : Ages(t)
    BY <1>1 DEF Ages
<1>7. JobsRecorded'
    BY <1>1, <1>3 DEF JobsRecorded
<1> QED BY <1>1, <1>3, <1>4, <1>5, <1>6, <1>7, AgingKeeps DEF MatchingTypes, InvitedTypes, Matching!Pending

\* A queue row lapses.
LEMMA QueueLapsesKeeps ==
  ASSUME MatchingInv, NEW p \in Pairable, Matching!QueueLapses(p) PROVE MatchingInv'
<1> USE DEF MatchingInv
<1>1. /\ UNCHANGED <<pairs, creations, invited, games, doing, outages>>
      /\ waiting' = [waiting EXCEPT ![p] = 0]
    BY DEF Matching!QueueLapses, Matching!chainVars
<1>2. waiting' \in [Pairable -> Nat] /\ \A q \in Pairable : waiting'[q] # 0 => waiting[q] # 0
    BY <1>1 DEF MatchingTypes
<1>3. \A q \in Pairable : Waits(q)' => Waits(q)
    BY <1>1, <1>2 DEF Waits
<1>4. \A t \in Matching!Rooms : Ages(t)
    BY <1>1 DEF Ages
<1>5. JobsRecorded'
    BY <1>1 DEF JobsRecorded
<1> QED BY <1>1, <1>2, <1>3, <1>4, <1>5, AgingKeeps DEF MatchingTypes, InvitedTypes, Matching!Pending

\* The relayer stops and starts again.
LEMMA OutageKeeps == ASSUME MatchingInv, Matching!Crash PROVE MatchingInv'
<1> USE DEF MatchingInv
<1>1. /\ UNCHANGED <<waiting, pairs, invited, games>> /\ doing' = Matching!Idle
      /\ outages' = outages + 1
      /\ creations' = [r \in Matching!Rooms |-> IF creations[r] = "saved" THEN "succeeded" ELSE creations[r]]
    BY DEF Matching!Crash, Matching!chainVars
<1>2. outages' \in Nat /\ outages' # 0
    BY <1>1 DEF MatchingTypes
<1>3. doing'.kind = "idle"
    BY <1>1 DEF Matching!Idle
<1>4. MatchingTypes'
    BY <1>1, <1>2 DEF MatchingTypes, InvitedTypes, Submission
<1>5. JobsRecorded'
    BY <1>1, <1>2, <1>3 DEF JobsRecorded
<1>6. \A p \in Pairable, r \in Matching!Rooms : Preparing(p, r)' => Preparing(p, r)
    BY <1>1 DEF Preparing, Seated, Matching!Seats
<1>7. \A p \in Pairable : Waits(p)' => Waits(p)
    BY <1>1, <1>3 DEF Waits
<1> QED BY <1>2, <1>4, <1>5, <1>6, <1>7, LessKeeps

\* A free player: no room of the player's is prepared, submitted or on its way.
LEMMA AvailableFree ==
  ASSUME MatchingInv, doing = Matching!Idle, NEW P, Matching!Available(P),
         NEW p \in P, Matching!Preparing(p) = {}
  PROVE  /\ \A r \in Matching!Rooms : ~Preparing(p, r)
         /\ outages = 0 => \A r \in Matching!Rooms : ~Engaged(p, r)
<1> USE DEF MatchingInv
<1>1. doing.kind = "idle"
    BY DEF Matching!Idle
<1>2. \A r \in Matching!Rooms : ~Preparing(p, r)
    BY DEF Preparing, Seated, Matching!Preparing
<1>3. outages = 0 => \A r \in Matching!Rooms : ~Engaged(p, r)
    <2> SUFFICES ASSUME outages = 0, NEW r \in Matching!Rooms, Seated(p, r), Matching!Pending(r) PROVE FALSE
        BY <1>1, <1>2 DEF Engaged
    <2>1. pairs[r].state \in {"open", "expired"} /\ pairs[r].job
        BY <1>1 DEF JobsRecorded, Matching!Pending
    <2> QED BY <2>1 DEF Matching!Available, Matching!Exists, Seated
<1> QED BY <1>2, <1>3

\* Two players who are free, or wait, are paired in a new room and wait no more.
LEMMA PairedKeeps ==
  ASSUME MatchingInv, NEW p \in Pairable, NEW q \in Pairable, NEW r \in Matching!Rooms,
         NEW m \in Matching!Room, m.state = "open", m.a = p, m.b = q, ~m.job, ~m.match,
         pairs[r].state = "none", pairs' = [pairs EXCEPT ![r] = m],
         UNCHANGED <<creations, games, outages>>, doing' = Matching!Idle,
         doing.kind \notin {"submit", "record"},
         waiting' = [waiting EXCEPT ![p] = 0, ![q] = 0], InvitedTypes',
         \A t \in Matching!Rooms : ~Preparing(p, t) /\ ~Preparing(q, t),
         outages = 0 => \A t \in Matching!Rooms : ~Engaged(p, t) /\ ~Engaged(q, t)
  PROVE  MatchingInv'
<1> USE DEF MatchingInv
<1>1. /\ pairs' \in [Matching!Rooms -> {Matching!NoRoom} \cup Matching!Room]
      /\ \A t \in Matching!Rooms : pairs'[t] = IF t = r THEN m ELSE pairs[t]
    BY DEF MatchingTypes
<1>2. /\ waiting' \in [Pairable -> Nat] /\ waiting'[p] = 0 /\ waiting'[q] = 0
      /\ \A x \in Pairable : waiting'[x] # 0 => waiting[x] # 0 /\ x \notin {p, q}
    BY DEF MatchingTypes
<1>3. doing'.kind = "idle"
    BY DEF Matching!Idle
<1>4. ASSUME NEW x \in Pairable, NEW t \in Matching!Rooms, t # r
      PROVE  /\ Seated(x, t)' <=> Seated(x, t)
             /\ Preparing(x, t)' <=> Preparing(x, t)
             /\ Engaged(x, t)' => Engaged(x, t)
    <2>1. pairs'[t] = pairs[t]
        BY <1>1, <1>4
    <2>2. (Seated(x, t)' <=> Seated(x, t)) /\ (Preparing(x, t)' <=> Preparing(x, t))
        BY <2>1 DEF Seated, Preparing, Matching!Seats
    <2> QED BY <1>3, <2>2 DEF Engaged, Matching!Pending
<1>5. \A x \in Pairable : Seated(x, r)' => x \in {p, q}
    BY <1>1 DEF Seated, Matching!Seats
<1>6. \A x \in Pairable, t \in Matching!Rooms : Preparing(x, t)' => Seated(x, t)'
    BY DEF Preparing
<1>7. \A x \in Pairable, t \in Matching!Rooms : Engaged(x, t)' => Seated(x, t)'
    BY DEF Engaged
<1>8. \A x \in Pairable : Waits(x)' => Waits(x) /\ x \notin {p, q}
    BY <1>2, <1>3 DEF Waits
<1>9. OnePreparation'
    BY <1>4, <1>5, <1>6, <1>8 DEF OnePreparation
<1>10. OneEngagement'
    BY <1>4, <1>5, <1>7, <1>8 DEF OneEngagement
<1>11. JobsRecorded'
    BY <1>1, <1>3 DEF JobsRecorded
<1>12. MatchingTypes'
    BY <1>1, <1>2 DEF MatchingTypes
<1> QED BY <1>9, <1>10, <1>11, <1>12

\* The pairing transaction of an admitted player.
LEMMA QueuePairedKeeps ==
  ASSUME MatchingInv, Matching!QueuePaired PROVE MatchingInv'
<1> USE DEF MatchingInv
<1>1. /\ UNCHANGED <<creations, invited, games, outages>> /\ doing.kind = "pair" /\ doing' = Matching!Idle
      /\ \/ UNCHANGED <<waiting, pairs>>
         \/ \E q \in Pairable \ {doing.p}, r \in Matching!Rooms :
              /\ waiting[q] # 0 /\ Matching!FreeRoom(r)
              /\ pairs' = [pairs EXCEPT ![r] = Matching!NewRoom(doing.p, q, doing.k, waiting[q])]
              /\ waiting' = [waiting EXCEPT ![doing.p] = 0, ![q] = 0]
    BY DEF Matching!QueuePaired, Matching!chainVars
<1>2. doing \in Entering
    BY <1>1 DEF MatchingTypes, Matching!Idle, Submitting
<1>3. InvitedTypes'
    BY <1>1 DEF MatchingTypes, InvitedTypes
<1>4. doing'.kind = "idle"
    BY <1>1 DEF Matching!Idle
<1>5. CASE UNCHANGED <<waiting, pairs>>
    <2>1. \A t \in Matching!Rooms : Ages(t)
        BY <1>5 DEF Ages
    <2>2. \A q \in Pairable : Waits(q)' => Waits(q)
        BY <1>4, <1>5 DEF Waits
    <2>3. JobsRecorded'
        BY <1>1, <1>4, <1>5 DEF JobsRecorded
    <2> QED BY <1>1, <1>3, <1>4, <1>5, <2>1, <2>2, <2>3, AgingKeeps DEF MatchingTypes, Matching!Pending
<1>6. ASSUME NEW q \in Pairable, NEW r \in Matching!Rooms, waiting[q] # 0, Matching!FreeRoom(r),
             pairs' = [pairs EXCEPT ![r] = Matching!NewRoom(doing.p, q, doing.k, waiting[q])],
             waiting' = [waiting EXCEPT ![doing.p] = 0, ![q] = 0]
      PROVE  MatchingInv'
    <2> DEFINE m == Matching!NewRoom(doing.p, q, doing.k, waiting[q])
               p == doing.p
    <2>1. p \in Pairable /\ doing.k \in Nat /\ waiting[q] \in Nat
        BY <1>2 DEF Entering, MatchingTypes
    <2>2. m \in Matching!Room /\ m.state = "open" /\ m.a = p /\ m.b = q /\ ~m.job /\ ~m.match
        BY <2>1 DEF Matching!NewRoom, Matching!Room
    <2>3. Waits(p) /\ Waits(q)
        BY <1>1, <1>6 DEF Waits
    <2>4. \A t \in Matching!Rooms : ~Preparing(p, t) /\ ~Preparing(q, t)
        BY <2>1, <2>3 DEF OnePreparation
    <2>5. outages = 0 => \A t \in Matching!Rooms : ~Engaged(p, t) /\ ~Engaged(q, t)
        BY <2>1, <2>3 DEF OneEngagement
    <2>6. pairs[r].state = "none" /\ pairs' = [pairs EXCEPT ![r] = m]
        BY <1>6 DEF Matching!FreeRoom
    <2> HIDE DEF m
    <2> QED BY <1>1, <1>3, <1>6, <2>1, <2>2, <2>4, <2>5, <2>6, PairedKeeps
<1> QED BY <1>1, <1>5, <1>6

\* An invitation is accepted, and leads to a room.
LEMMA AcceptChallengeKeeps ==
  ASSUME MatchingConstants, MatchingInv, NEW c \in Matching!Challenges, NEW q \in Pairable,
         Matching!AcceptChallenge(c, q)
  PROVE  MatchingInv'
<1> USE DEF MatchingInv
<1> DEFINE p == invited[c].creator
<1>1. /\ UNCHANGED <<creations, games, doing, outages>> /\ doing = Matching!Idle
      /\ invited[c].status = "pending" /\ Matching!Available({p, q})
      /\ Matching!Preparing(p) \cup Matching!Preparing(q) = {}
      /\ waiting' = [waiting EXCEPT ![p] = 0, ![q] = 0]
    BY DEF Matching!AcceptChallenge, Matching!chainVars, Matching!Unqueued
<1>2. PICK r \in Matching!Rooms :
        /\ Matching!FreeRoom(r)
        /\ pairs' = [pairs EXCEPT ![r] = Matching!NewRoom(p, q, MaxTicket + r, MaxTicket + r)]
        /\ invited' = [invited EXCEPT ![c] = [invited[c] EXCEPT
              !.status = "accepted", !.recipient = q, !.room = r]]
    BY Zenon DEF Matching!AcceptChallenge
<1>3. invited \in [Matching!Challenges -> {Matching!NoChallenge} \cup Matching!Challenge]
    BY DEF MatchingTypes, InvitedTypes
<1>4. invited[c] \in Matching!Challenge
    BY <1>1, <1>3 DEF Matching!NoChallenge
<1>5. p \in Pairable
    BY <1>4 DEF Matching!Challenge
<1>6. InvitedTypes'
    <2>1. r \in 0..MaxPair
        BY DEF Matching!Rooms, MatchingConstants
    <2>2. [invited[c] EXCEPT !.status = "accepted", !.recipient = q, !.room = r] \in Matching!Challenge
        BY <1>4, <2>1 DEF Matching!Challenge
    <2> QED BY <1>2, <1>3, <2>2 DEF InvitedTypes
<1> DEFINE m == Matching!NewRoom(p, q, MaxTicket + r, MaxTicket + r)
<1>7. m \in Matching!Room /\ m.state = "open" /\ m.a = p /\ m.b = q /\ ~m.job /\ ~m.match
    <2>1. MaxTicket + r \in Nat
        BY DEF Matching!Rooms, MatchingConstants
    <2> QED BY <1>5, <2>1 DEF Matching!NewRoom, Matching!Room
<1>8. pairs[r].state = "none" /\ pairs' = [pairs EXCEPT ![r] = m]
    BY <1>2 DEF Matching!FreeRoom
<1>9. /\ \A t \in Matching!Rooms : ~Preparing(p, t) /\ ~Preparing(q, t)
      /\ outages = 0 => \A t \in Matching!Rooms : ~Engaged(p, t) /\ ~Engaged(q, t)
    <2>1. Matching!Preparing(p) = {} /\ Matching!Preparing(q) = {}
        BY <1>1
    <2>2. /\ \A t \in Matching!Rooms : ~Preparing(p, t)
          /\ outages = 0 => \A t \in Matching!Rooms : ~Engaged(p, t)
        BY <1>1, <2>1, AvailableFree
    <2>3. /\ \A t \in Matching!Rooms : ~Preparing(q, t)
          /\ outages = 0 => \A t \in Matching!Rooms : ~Engaged(q, t)
        BY <1>1, <2>1, AvailableFree
    <2> QED BY <2>2, <2>3
<1>10. doing' = Matching!Idle /\ doing.kind = "idle"
    BY <1>1 DEF Matching!Idle
<1> HIDE DEF m, p
<1> QED BY <1>1, <1>5, <1>6, <1>7, <1>8, <1>9, <1>10, PairedKeeps

\* Every step keeps the invariant.
LEMMA MatchingStep ==
  ASSUME MatchingConstants, MatchingInv, [Matching!Next]_(Matching!vars) PROVE MatchingInv'
<1>1. CASE UNCHANGED Matching!vars
    BY <1>1, ElsewhereKeeps DEF Matching!vars, MatchingInv, MatchingTypes, InvitedTypes, JobsRecorded, Matching!Pending
<1>2. CASE \E p \in Pairable, k \in 1..MaxTicket : Matching!Queue(p, k)
    BY <1>2, QueueKeeps DEF MatchingConstants
<1>3. CASE \E p \in Pairable, k \in 1..(MaxTicket + MaxPair) : Matching!QueueCancel(p, k)
    BY <1>3, QueueCancelKeeps
<1>4. CASE \E p \in Pairable, r \in Matching!Rooms : Matching!Consent(p, r)
    BY <1>4, ConsentKeeps
<1>5. CASE \E r \in Matching!Rooms : Matching!Maintain(r)
    BY <1>5, MaintainKeeps
<1>6. CASE \E r \in Matching!Rooms : Matching!Mine(r)
    BY <1>6, MineKeepsMatching
<1>7. CASE \E r \in Matching!Rooms : Matching!ObserveReceipt(r)
    BY <1>7, ObserveReceiptKeeps
<1>8. CASE \E r \in Matching!Rooms : Matching!RecordMatch(r)
    BY <1>8, RecordMatchKeeps
<1>9. CASE \E c \in Matching!Challenges, q \in Pairable : Matching!AcceptChallenge(c, q)
    BY <1>9, AcceptChallengeKeeps
<1>10. CASE \E c \in Matching!Challenges : Matching!CancelChallenge(c)
    BY <1>10, CancelChallengeKeeps
<1>11. CASE \E p \in Pairable : Matching!QueueLapses(p)
    BY <1>11, QueueLapsesKeeps
<1>12. CASE \E r \in Matching!Rooms : Matching!RoomLapses(r)
    BY <1>12, RoomLapsesKeeps
<1>13. CASE \/ \E r \in Matching!Rooms : Matching!MatchEnds(r)
            \/ Matching!Refresh
            \/ \E p \in Pairable, q \in Pairable \cup {Matching!Nobody} : Matching!Invite(p, q)
            \/ \E c \in Matching!Challenges : Matching!DeclineChallenge(c) \/ Matching!ChallengeLapses(c)
    BY <1>13, InvitationsKeep
<1>14. CASE Matching!QueueEntered \/ Matching!QueuePaired \/ Matching!SubmitInsert
            \/ Matching!SubmitRecord \/ Matching!Crash
    BY <1>14, QueueEnteredKeeps, QueuePairedKeeps, SubmitInsertKeeps, SubmitRecordKeeps, OutageKeeps
<1> QED BY <1>1, <1>2, <1>3, <1>4, <1>5, <1>6, <1>7, <1>8, <1>9, <1>10, <1>11, <1>12, <1>13,
           <1>14, Zenon DEF Matching!Next

\* A set with one member at most has at most one.
LEMMA AtMostOne ==
  ASSUME NEW S, \A r, t \in S : r = t PROVE Matching!Cardinality(S) \in 0..1
<1>1. CASE S = {}
    BY <1>1, FS_EmptySet DEF Cardinality, Matching!Cardinality
<1>2. CASE S # {}
    <2>1. PICK r \in S : S = {r}
        BY <1>2
    <2>2. Cardinality({r}) = 1
        BY FS_Singleton
    <2>3. Matching!Cardinality(S) = Cardinality({r})
        BY <2>1 DEF Cardinality, Matching!Cardinality
    <2> QED BY <2>2, <2>3
<1> QED BY <1>1, <1>2

\* What the invariant says of preparations, creations and cancellations.
LEMMA MatchingFacts ==
  ASSUME MatchingInv
  PROVE  Matching!OneRoom /\ Matching!OneCreation /\ Matching!CancelledStaysCancelled
<1> USE DEF MatchingInv
<1>1. Matching!OneRoom
    <2> SUFFICES ASSUME NEW p \in Pairable
                 PROVE  Matching!Cardinality(Matching!Preparing(p)) + (IF waiting[p] = 0 THEN 0 ELSE 1) <= 1
        BY DEF Matching!OneRoom
    <2>1. \A r : r \in Matching!Preparing(p) => r \in Matching!Rooms /\ Preparing(p, r)
        BY DEF Preparing, Seated, Matching!Preparing
    <2>2. CASE Matching!Preparing(p) = {}
        <3>1. Matching!Cardinality(Matching!Preparing(p)) = 0
            BY <2>2, FS_EmptySet DEF Cardinality, Matching!Cardinality
        <3> QED BY <3>1
    <2>3. CASE Matching!Preparing(p) # {}
        <3>1. waiting[p] = 0
            BY <2>1, <2>3 DEF OnePreparation, Waits
        <3>2. \A r, t \in Matching!Preparing(p) : r = t
            BY <2>1 DEF OnePreparation
        <3>3. Matching!Cardinality(Matching!Preparing(p)) \in 0..1
            BY <3>2, AtMostOne
        <3> QED BY <3>1, <3>3
    <2> QED BY <2>2, <2>3
<1>2. Matching!OneCreation
    <2> SUFFICES ASSUME outages = 0, NEW p \in Pairable
                 PROVE  Matching!Cardinality({r \in Matching!Rooms : p \in Matching!Seats(r) /\ Matching!Pending(r)}) <= 1
        BY DEF Matching!OneCreation
    <2> DEFINE S == {r \in Matching!Rooms : p \in Matching!Seats(r) /\ Matching!Pending(r)}
    <2>1. \A r \in S : r \in Matching!Rooms /\ Engaged(p, r)
        BY DEF Engaged, Seated
    <2>2. \A r, t \in S : r = t
        BY <2>1 DEF OneEngagement
    <2> HIDE DEF S
    <2>3. Matching!Cardinality(S) \in 0..1
        BY <2>2, AtMostOne
    <2> QED BY <2>3 DEF S
<1>3. Matching!CancelledStaysCancelled
    BY DEF Matching!CancelledStaysCancelled, Matching!NoFalseCancellation, JobsRecorded
<1> QED BY <1>1, <1>2, <1>3

\* The invariant of matchmaking holds in every reachable state, for every number of
\* players, rooms, tickets, invitations, arenas and stops of the relayer.
THEOREM MatchingInvariance == MatchingConstants => (Matching!Spec => []MatchingInv)
<1> SUFFICES ASSUME MatchingConstants PROVE Matching!Spec => []MatchingInv
    OBVIOUS
<1>1. Matching!Init => MatchingInv
    BY MatchingInit
<1>2. MatchingInv /\ [Matching!Next]_(Matching!vars) => MatchingInv'
    BY MatchingStep
<1> QED BY <1>1, <1>2, PTL DEF Matching!Spec

\* A player is prepared for one match at most and never waits meanwhile; while the
\* relayer has not stopped, a player has one creation on its way and a room reported
\* as cancelled is never created.
THEOREM MatchmakingIsHonest ==
  MatchingConstants =>
    (Matching!Spec => [](Matching!OneRoom /\ Matching!OneCreation /\ Matching!CancelledStaysCancelled))
<1> SUFFICES ASSUME MatchingConstants
             PROVE  Matching!Spec => [](Matching!OneRoom /\ Matching!OneCreation /\ Matching!CancelledStaysCancelled)
    OBVIOUS
<1>1. MatchingInv => Matching!OneRoom /\ Matching!OneCreation /\ Matching!CancelledStaysCancelled
    BY MatchingFacts
<1>2. Matching!Spec => []MatchingInv
    BY MatchingInvariance
<1> QED BY <1>1, <1>2, PTL
=============================================================================
