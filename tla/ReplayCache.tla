----------------------------- MODULE ReplayCache -----------------------------
(***************************************************************************)
(* The rooms relayer's replays and archive of one match: the frames it     *)
(* keeps until the indexer retires the replay                              *)
(* (rooms-events-history.ts, recordReplay in interlude-rooms.ts), and the  *)
(* record of the published result on the base chain (publishArchive).      *)
(*                                                                         *)
(* The engine may return to an earlier revision: its next state is marked  *)
(* as a reset.  States are buffered, only the latest one, and written      *)
(* every quarter of a second; retention runs beside the writes.            *)
(***************************************************************************)
EXTENDS Naturals, FiniteSets

CONSTANTS MaxRev,    \* bound: revisions of the match
          MaxReset,  \* bound: returns of the engine to an earlier revision
          MaxHash,   \* bound: corrections of the published result
          MaxFault   \* bound: failed reads, statements and calls

VARIABLES game,      \* the engine's latest state of the match
          heard,     \* the relayer was handed that state
          epoch,     \* the match's epoch, as far as recordReplay knows it
          latest,    \* replayLatest: the state kept while the epoch is read
          buffer, flushing, retaining,
          row,       \* il_replays: the match's availability, or "none"
          frames,    \* il_replay_frames
          index,     \* what the indexer says of the replay
          result,    \* il_results: the published result's hash, 0 before
          recorded, archived, job,
          resets, faults

streamVars == <<game, heard, resets>>
cacheVars == <<epoch, latest, buffer, flushing, retaining, row, frames>>
archiveVars == <<result, recorded, archived, job>>
vars == <<streamVars, cacheVars, index, archiveVars, faults>>

Nothing == [rev |-> 0, branch |-> 0, reset |-> FALSE]

Init ==
  /\ game = [rev |-> 1, branch |-> 0, reset |-> FALSE] /\ heard = FALSE /\ resets = 0
  /\ epoch = "unknown" /\ latest = Nothing /\ buffer = Nothing
  /\ flushing = Nothing /\ retaining = "idle"
  /\ row = "none" /\ frames = {} /\ index = "unknown"
  /\ result = 0 /\ recorded = 0 /\ archived = 0 /\ job = 0
  /\ faults = 0

Fault == faults < MaxFault /\ faults' = faults + 1

(***************************************************************************)
(* The engine, its indexer and the base chain.                             *)
(***************************************************************************)
Play ==
  /\ game.rev < MaxRev /\ result = 0
  /\ game' = [game EXCEPT !.rev = @ + 1, !.reset = FALSE] /\ heard' = FALSE
  /\ UNCHANGED <<cacheVars, index, archiveVars, resets, faults>>

Rollback ==
  /\ resets < MaxReset /\ result = 0 /\ resets' = resets + 1 /\ heard' = FALSE
  /\ \E r \in 1..game.rev : game' = [rev |-> r, branch |-> game.branch + 1, reset |-> TRUE]
  /\ UNCHANGED <<cacheVars, index, archiveVars, faults>>

\* The result is verified and published, or corrected after a challenge.
Publish ==
  /\ result < MaxHash /\ result' = result + 1
  /\ UNCHANGED <<streamVars, cacheVars, index, recorded, archived, job, faults>>

\* Its own events can be rolled back, and a retired replay be listed again.
Index(i) ==
  /\ result > 0 /\ index # i /\ Fault /\ index' = i
  /\ UNCHANGED <<streamVars, cacheVars, archiveVars>>

RecordMatch ==
  /\ job > 0 /\ job' = 0 /\ recorded' = result
  /\ UNCHANGED <<streamVars, cacheVars, index, result, archived, faults>>
RecordFails ==
  /\ job > 0 /\ job' = 0 /\ Fault
  /\ UNCHANGED <<streamVars, cacheVars, index, result, recorded, archived>>

(***************************************************************************)
(* recordReplay: the first state of a match waits for its epoch.           *)
(***************************************************************************)
Record ==
  /\ ~heard /\ heard' = TRUE
  /\ IF epoch = "known"
       THEN buffer' = game /\ UNCHANGED <<epoch, latest>>
       ELSE epoch' = "reading" /\ latest' = game /\ UNCHANGED buffer
  /\ UNCHANGED <<game, resets, flushing, retaining, row, frames, index, archiveVars, faults>>

EpochRead ==
  /\ epoch = "reading" /\ epoch' = "known"
  /\ buffer' = latest /\ latest' = Nothing
  /\ UNCHANGED <<streamVars, flushing, retaining, row, frames, index, archiveVars, faults>>

\* The states heard meanwhile are dropped; the next one reads again.
EpochFails ==
  /\ epoch = "reading" /\ Fault /\ epoch' = "unknown" /\ latest' = Nothing
  /\ UNCHANGED <<streamVars, buffer, flushing, retaining, row, frames, index, archiveVars>>

(***************************************************************************)
(* flush: one transaction for the buffered state.                          *)
(***************************************************************************)
FlushTakes ==
  /\ flushing = Nothing /\ buffer # Nothing /\ flushing' = buffer
  /\ UNCHANGED <<streamVars, epoch, latest, buffer, retaining, row, frames, index, archiveVars, faults>>

\* Mutant: a frame is stored whatever became of the replay.
Unretired == TRUE
Storable == row # "pruned"

Trimmed(s) == IF s.reset THEN {f \in frames : f.rev < s.rev} ELSE frames
\* A revision that is stored already is left as it is.
WithFrame(fs, s) ==
  IF \E f \in fs : f.rev = s.rev THEN fs ELSE fs \union {[rev |-> s.rev, branch |-> s.branch]}

FlushCommits ==
  /\ flushing # Nothing
  /\ frames' = IF Storable THEN WithFrame(Trimmed(flushing), flushing) ELSE frames
  /\ row' = IF row = "none" THEN "recording" ELSE row
  /\ buffer' = IF buffer = flushing THEN Nothing ELSE buffer
  /\ flushing' = Nothing
  /\ UNCHANGED <<streamVars, epoch, latest, retaining, index, archiveVars, faults>>

FlushFails ==
  /\ flushing # Nothing /\ Fault /\ flushing' = Nothing
  /\ UNCHANGED <<streamVars, epoch, latest, buffer, retaining, row, frames, index, archiveVars>>

(***************************************************************************)
(* retain: what the indexer said, applied later.                           *)
(***************************************************************************)
RetainReads ==
  /\ retaining = "idle" /\ row \in {"recording", "available"} /\ result > 0
  /\ index # "unknown" /\ index # row /\ retaining' = index
  /\ UNCHANGED <<streamVars, epoch, latest, buffer, flushing, row, frames, index, archiveVars, faults>>

RetainApplies ==
  /\ retaining # "idle" /\ retaining' = "idle"
  /\ IF retaining = "pruned"
       THEN row' = "pruned" /\ frames' = {}
       ELSE row' = (IF row = "pruned" THEN row ELSE "available") /\ UNCHANGED frames
  /\ UNCHANGED <<streamVars, epoch, latest, buffer, flushing, index, archiveVars, faults>>

RetainFails ==
  /\ retaining # "idle" /\ Fault /\ retaining' = "idle"
  /\ UNCHANGED <<streamVars, epoch, latest, buffer, flushing, row, frames, index, archiveVars>>

(***************************************************************************)
(* publishArchive: the result's record follows the result.                 *)
(***************************************************************************)
Unarchived == result > 0 /\ archived # result

PublishArchive ==
  /\ Unarchived
  /\ IF recorded # result
       THEN job = 0 /\ job' = result /\ UNCHANGED archived
       ELSE archived' = result /\ UNCHANGED job
  /\ UNCHANGED <<streamVars, cacheVars, index, result, recorded, faults>>

Restart ==
  /\ Fault /\ epoch' = "unknown" /\ heard' = FALSE
  /\ latest' = Nothing /\ buffer' = Nothing /\ flushing' = Nothing /\ retaining' = "idle"
  /\ UNCHANGED <<game, resets, row, frames, index, archiveVars>>

Next ==
  \/ Play \/ Rollback \/ Publish \/ \E i \in {"available", "pruned"} : Index(i)
  \/ RecordMatch \/ RecordFails \/ Record \/ EpochRead \/ EpochFails
  \/ FlushTakes \/ FlushCommits \/ FlushFails
  \/ RetainReads \/ RetainApplies \/ RetainFails \/ PublishArchive \/ Restart

Spec == Init /\ [][Next]_vars

\* The timers run, stored calls end, and a state is handed on.
CacheFairness ==
  /\ WF_vars(Record) /\ WF_vars(EpochRead) /\ WF_vars(FlushTakes) /\ WF_vars(FlushCommits)
  /\ WF_vars(RetainReads) /\ WF_vars(RetainApplies)
  /\ WF_vars(PublishArchive) /\ WF_vars(RecordMatch)
FairSpec == Spec /\ CacheFairness

(***************************************************************************)
(* Properties.                                                             *)
(***************************************************************************)
CacheTypeOK ==
  /\ row \in {"none", "recording", "available", "pruned"}
  /\ \A f \in frames : f.rev \in 1..MaxRev /\ f.branch \in 0..MaxReset
  /\ recorded \in 0..result /\ archived \in 0..recorded /\ job \in 0..result

\* "Pruned tombstones stop late/reconnected observers from restoring removed
\* frames": once a replay is retired no write, however late, brings a frame back,
\* and it stays retired although the indexer lists it again.
RetiredStaysEmpty == row = "pruned" => frames = {}

\* The record on the base chain follows every correction of the result.
Corrected(h) == result = h
Archived(h) == archived >= h
ArchiveFollows == \A h \in 1..MaxHash : Corrected(h) ~> Archived(h)
=============================================================================
