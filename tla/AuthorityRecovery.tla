-------------------------- MODULE AuthorityRecovery --------------------------
(***************************************************************************)
(* The contract-authority candidate: a controller contract that lets games *)
(* run on the hosted engine while it holds a delegation of the hub, or on  *)
(* the base chain once the delegation is gone, and the worker that asks    *)
(* for the change when the engine fails (shared/authority-recovery.ts,     *)
(* authority-recovery-source.ts and relayer/src/authority-recovery.ts).    *)
(*                                                                         *)
(* The worker acts on what it observed some blocks ago, its journal says   *)
(* which requests were already made, and the contract decides again when a *)
(* request is executed.  Times are abstracted to what the code compares:   *)
(* late (no batch within the hub's interval), expired, unlocked.           *)
(***************************************************************************)
EXTENDS Naturals, FiniteSets

CONSTANTS MaxGen, MaxEpoch,  \* bounds: generations and delegations
          MaxFault,          \* bound: outages, contests, sponsor failures
          MaxMatch           \* bound: matches started on the engine

VARIABLES c,        \* the controller and the hub, as of the latest block
          old,      \* the same as of the block before
          eng,      \* what the engine holds and has not published yet
          up,       \* the engine serves and publishes
          health,   \* the monitor's view: healthy, rate_limited, failing, sustained
          seen,     \* the worker has already acted on the latest block
          w,        \* the worker's run in progress
          journal,  \* the sponsor's journal of requests
          faults, matches

vars == <<c, old, eng, up, health, seen, w, journal, faults, matches>>

Idle == [at |-> "idle"]
Clean == [active |-> 0, draining |-> 0, sealed |-> 0]

Init ==
  /\ c = [exec |-> "Interlude", starting |-> FALSE, normal |-> FALSE, gen |-> 1,
          phase |-> "Active", epoch |-> 1, late |-> FALSE, expired |-> FALSE, unlocked |-> FALSE,
          store |-> Clean]
  /\ old = c /\ eng = Clean /\ up = TRUE /\ health = "healthy"
  /\ seen = FALSE /\ w = Idle /\ journal = {} /\ faults = 0 /\ matches = 0

\* A block that changes the contracts: the worker's last view is one behind.
Block(next) == c' = next /\ old' = c /\ seen' = FALSE
NoBlock == UNCHANGED <<c, old, seen>>

(***************************************************************************)
(* The engine and the hub.                                                 *)
(***************************************************************************)
Running == up /\ c.phase = "Active" /\ c.exec = "Interlude" /\ eng.sealed = 0

StartMatch ==
  /\ Running /\ eng.active = 0 /\ eng.draining = 0 /\ matches < MaxMatch
  /\ eng' = [eng EXCEPT !.active = 1] /\ matches' = matches + 1
  /\ NoBlock /\ UNCHANGED <<up, health, w, journal, faults>>

\* The first match that finishes starts draining the session.
FinishMatch ==
  /\ Running /\ eng.active = 1
  /\ eng' = [eng EXCEPT !.active = 0, !.draining = IF @ = 0 THEN c.epoch ELSE @]
  /\ NoBlock /\ UNCHANGED <<up, health, w, journal, faults, matches>>

SealCompletedSession ==
  /\ Running /\ eng.active = 0 /\ eng.draining = c.epoch
  /\ eng' = [eng EXCEPT !.sealed = c.epoch]
  /\ NoBlock /\ UNCHANGED <<up, health, w, journal, faults, matches>>

PublishBatch ==
  /\ up /\ c.phase = "Active" /\ (c.store # eng \/ c.late)
  /\ Block([c EXCEPT !.store = eng, !.late = FALSE])
  /\ UNCHANGED <<eng, up, health, w, journal, faults, matches>>

\* The hub's interval passes without a batch.
Silence ==
  /\ ~up /\ c.phase = "Active" /\ ~c.late
  /\ Block([c EXCEPT !.late = TRUE])
  /\ UNCHANGED <<eng, up, health, w, journal, faults, matches>>

Fault == faults < MaxFault /\ faults' = faults + 1

Expire ==
  /\ Fault /\ c.phase = "Active" /\ ~c.expired
  /\ Block([c EXCEPT !.expired = TRUE])
  /\ UNCHANGED <<eng, up, health, w, journal, matches>>

Outage == Fault /\ up /\ up' = FALSE /\ NoBlock /\ UNCHANGED <<eng, health, w, journal, matches>>
Restored == Fault /\ ~up /\ up' = TRUE /\ NoBlock /\ UNCHANGED <<eng, health, w, journal, matches>>

Unlock ==
  /\ c.phase = "Exiting" /\ ~c.unlocked
  /\ Block([c EXCEPT !.unlocked = TRUE])
  /\ UNCHANGED <<eng, up, health, w, journal, faults, matches>>

ReleaseStake ==
  /\ c.phase = "Exiting" /\ c.unlocked
  /\ Block([c EXCEPT !.phase = "None"])
  /\ UNCHANGED <<eng, up, health, w, journal, faults, matches>>

Contest ==
  /\ Fault /\ c.phase = "Exiting" /\ ~c.unlocked
  /\ Block([c EXCEPT !.phase = "Challenged"])
  /\ UNCHANGED <<eng, up, health, w, journal, matches>>

ContestEnds ==
  /\ c.phase = "Challenged"
  /\ Block([c EXCEPT !.phase = "Exiting"])
  /\ UNCHANGED <<eng, up, health, w, journal, faults, matches>>

\* Three failed checks over fifteen seconds make an outage sustained.
Monitor ==
  /\ health' = IF up THEN "healthy" ELSE IF health = "healthy" THEN "failing" ELSE "sustained"
  /\ health' # health
  /\ NoBlock /\ UNCHANGED <<eng, up, w, journal, faults, matches>>

RateLimited ==
  /\ Fault /\ health # "rate_limited" /\ health' = "rate_limited"
  /\ NoBlock /\ UNCHANGED <<eng, up, w, journal, matches>>

(***************************************************************************)
(* The controller.                                                         *)
(***************************************************************************)
MayBegin ==
  /\ c.exec # "Monad" /\ ~c.normal /\ c.phase # "Challenged"
  /\ c.exec = "Recovery" \/ c.phase # "Active" \/ c.expired \/ c.late
Begun ==
  IF c.exec = "Recovery" THEN c
  ELSE [c EXCEPT !.exec = "Recovery", !.starting = FALSE,
          !.phase = IF @ = "Active" THEN "Exiting" ELSE @,
          !.unlocked = IF c.phase = "Active" THEN FALSE ELSE @]

Final == c.phase = "None" \/ (c.phase = "Exiting" /\ c.unlocked)
MayFinish == c.exec = "Recovery" /\ Final
\* What was recovered of an unfinished match is cancelled, and the markers of
\* the old generation are left behind.
Finished == [c EXCEPT !.exec = "Monad", !.phase = "None", !.gen = @ + 1, !.store = Clean]

MayClose(e) ==
  /\ c.exec = "Interlude" /\ ~c.starting /\ c.phase = "Active" /\ c.epoch = e
  /\ c.store = [active |-> 0, draining |-> e, sealed |-> e]
Closed == [c EXCEPT !.phase = "Exiting", !.unlocked = FALSE, !.exec = "Returning", !.normal = TRUE]

Opened == [c EXCEPT !.exec = "Interlude", !.starting = TRUE, !.normal = FALSE, !.phase = "Active",
             !.epoch = @ + 1, !.late = FALSE, !.expired = FALSE, !.unlocked = FALSE, !.store = Clean]

\* The administrator's three calls.
RenewCompletedSession ==
  /\ c.exec = "Returning" /\ ~c.starting /\ c.normal /\ Final /\ c.epoch < MaxEpoch
  /\ c.store = [active |-> 0, draining |-> c.epoch, sealed |-> c.epoch]
  /\ Block(Opened) /\ eng' = Clean
  /\ UNCHANGED <<up, health, w, journal, faults, matches>>

ReturnToInterlude ==
  /\ c.exec = "Monad" /\ ~c.starting /\ c.phase = "None" /\ c.epoch < MaxEpoch /\ c.gen < MaxGen
  /\ Block([Opened EXCEPT !.gen = @ + 1]) /\ eng' = Clean
  /\ UNCHANGED <<up, health, w, journal, faults, matches>>

ConfirmInterlude ==
  /\ c.starting /\ c.phase = "Active" /\ ~c.expired /\ up
  /\ Block([c EXCEPT !.exec = "Interlude", !.starting = FALSE])
  /\ UNCHANGED <<eng, up, health, w, journal, faults, matches>>

(***************************************************************************)
(* The worker's policy: what an observation asks for.                      *)
(***************************************************************************)
Execution(o) == IF o.starting THEN "Returning" ELSE o.exec

Decide(o, h) ==
  CASE o.phase = "Challenged" -> "none"
    [] o.phase # "Challenged" /\ Execution(o) = "Monad" -> "none"
    [] o.phase # "Challenged" /\ Execution(o) = "Recovery" ->
         IF o.phase = "None" \/ (o.phase = "Exiting" /\ o.unlocked) THEN "finishRecovery" ELSE "none"
    [] o.phase # "Challenged" /\ Execution(o) = "Returning" /\ o.normal -> "none"
    [] OTHER ->
         IF Execution(o) = "Interlude" /\ o.phase = "Active" /\ o.store.sealed = o.epoch
         THEN "closeCompletedSession"
         ELSE IF o.phase \in {"None", "Exiting"} \/ o.expired \/ (h = "sustained" /\ o.late)
         THEN "beginRecovery" ELSE "none"

\* The source reads one block, the latest or one behind it, but the worker
\* refuses a block older than one it has acted on.
Observable == IF seen THEN {c} ELSE {c, old}

\* The identity of a request in the journal.
Id(o, a) == [act |-> a, gen |-> o.gen, epoch |-> o.epoch]

Observe(o) ==
  /\ w = Idle
  /\ seen' = (seen \/ o = c)
  /\ w' = IF Decide(o, health) = "none" THEN Idle
          ELSE [at |-> "journal", id |-> Id(o, Decide(o, health)), epoch |-> o.epoch]
  /\ UNCHANGED <<c, old, eng, up, health, journal, faults, matches>>

Known(id) == {j \in journal : j.id = id}

\* A request the journal knows is reconciled, never made again.
CheckJournal ==
  /\ w.at = "journal"
  /\ w' = IF Known(w.id) # {} THEN Idle ELSE [w EXCEPT !.at = "fresh"]
  /\ NoBlock /\ UNCHANGED <<eng, up, health, journal, faults, matches>>

SponsorMissing ==
  /\ Fault /\ w.at = "journal" /\ w' = Idle
  /\ NoBlock /\ UNCHANGED <<eng, up, health, journal, matches>>

\* The second observation, then the request.
Enqueue(o) ==
  /\ w.at = "fresh"
  /\ w' = Idle /\ seen' = (seen \/ o = c)
  /\ journal' = IF Id(o, w.id.act) = w.id /\ o.epoch = w.epoch /\ Decide(o, health) = w.id.act
                THEN journal \cup {[id |-> w.id, epoch |-> o.epoch, status |-> "submitted"]} ELSE journal
  /\ UNCHANGED <<c, old, eng, up, health, faults, matches>>

Accepts(j) == CASE j.id.act = "beginRecovery" -> MayBegin
                [] j.id.act = "finishRecovery" -> MayFinish
                [] OTHER -> MayClose(j.epoch)
Outcome(j) == CASE j.id.act = "beginRecovery" -> Begun
                [] j.id.act = "finishRecovery" -> Finished
                [] OTHER -> Closed

Execute(j) ==
  /\ j.status = "submitted" /\ c.gen <= MaxGen
  /\ journal' = (journal \ {j}) \cup {[j EXCEPT !.status = IF Accepts(j) THEN "confirmed" ELSE "failed"]}
  /\ IF Accepts(j) THEN Block(Outcome(j)) ELSE NoBlock
  /\ UNCHANGED <<eng, up, health, w, faults, matches>>

\* An operator inspects a failed request and clears it.
Inspect(j) ==
  /\ j.status = "failed" /\ journal' = journal \ {j}
  /\ NoBlock /\ UNCHANGED <<eng, up, health, w, faults, matches>>

\* The worker restarts and has seen no block.
Crash ==
  /\ Fault /\ w' = Idle /\ seen' = FALSE
  /\ UNCHANGED <<c, old, eng, up, health, journal, matches>>

Engine == StartMatch \/ FinishMatch \/ SealCompletedSession \/ PublishBatch
Hub == Silence \/ Expire \/ Outage \/ Restored \/ Unlock \/ ReleaseStake \/ Contest \/ ContestEnds
Admin == RenewCompletedSession \/ ReturnToInterlude \/ ConfirmInterlude
Worker == \/ \E o \in Observable : Observe(o) \/ Enqueue(o)
          \/ CheckJournal \/ SponsorMissing \/ Crash
Requests == \E j \in journal : Execute(j) \/ Inspect(j)

Next == Engine \/ Hub \/ Admin \/ Worker \/ Requests \/ Monitor \/ RateLimited
Spec == Init /\ [][Next]_vars

\* The worker runs on a timer against a block that does not stay behind, the
\* journal executes what it holds, the hub's windows end, and failed requests
\* are inspected.  Neither the engine nor the administrator owes anything.
RecoveryFairness ==
  /\ WF_vars(Observe(c)) /\ WF_vars(CheckJournal) /\ WF_vars(Enqueue(c)) /\ WF_vars(Requests)
  /\ WF_vars(Monitor) /\ WF_vars(Silence) /\ WF_vars(Unlock) /\ WF_vars(ContestEnds)

(***************************************************************************)
(* Properties.                                                             *)
(***************************************************************************)
RecoveryTypeOK ==
  /\ c.exec \in {"Interlude", "Recovery", "Monad", "Returning"}
  /\ c.phase \in {"None", "Active", "Exiting", "Challenged"}
  /\ health \in {"healthy", "rate_limited", "failing", "sustained"}
  /\ \A j, k \in journal : j.id = k.id => j = k
  /\ c.exec = "Monad" => c.phase = "None"

\* An engine that is gone for good does not keep the games: they end up on the
\* base chain, or wait for the administrator to renew a session that was closed
\* in order.
Gone == ~up
Resumable == c.exec = "Monad" \/ (c.exec = "Returning" /\ c.normal)
GamesResume == <>[]Gone => <>[]Resumable
=============================================================================
