----------------------------- MODULE RelayKeeper -----------------------------
(***************************************************************************)
(* What the relayer asks for on its own: the loop that follows new blocks  *)
(* (refresh), keeps the matches it watches and asks for the permissionless *)
(* calls that move them on, and the slower loop that opens their markets   *)
(* and attaches tournament matches (maintenance), both in main.ts.         *)
(*                                                                         *)
(* A pass of either loop goes match by match and may be cut short by a     *)
(* read or a statement that fails.  What happens to a row once it is       *)
(* stored is RelayJournal's subject; here it succeeds or fails.            *)
(***************************************************************************)
EXTENDS Naturals, FiniteSets

CONSTANTS MaxMatch,  \* bound: matches ever created
          Cup,       \* the matches that belong to a tournament
          Recent,    \* how many of the newest matches each pass looks at
          Scan,      \* how many old matches each pass discovers after a restart
          MaxFault,  \* bound: failed requests
          MaxCrash,  \* bound: restarts of the relayer
          MaxEvent   \* bound: events a match lives through

Ids == 1..MaxMatch

VARIABLES chain,     \* the matches on chain, in the order they were created
          fresh,     \* a block the relayer has not seen
          watched,   \* matches: what the relayer last read of each match
          seeded,    \* seededMarkets
          cursor,    \* discoveryCursor
          pass,      \* the pass of refresh in progress
          row,       \* relay_jobs: the row of each call
          faults, crashes

vars == <<chain, fresh, watched, seeded, cursor, pass, row, faults, crashes>>

Unwatched == [status |-> "unknown"]
New == [status |-> "created", late |-> FALSE, due |-> FALSE, events |-> 0,
        rated |-> FALSE, book |-> FALSE, attached |-> FALSE]
Calls == {"cancelUnstarted", "finalizeRating", "resolveEvent", "open", "attach"}
Waiting == [at |-> "idle", todo |-> {}]

Count == Cardinality({i \in Ids : chain[i] # Unwatched})
Exists(i) == i <= Count
Ended(s) == s \in {"finished", "cancelled"}

Init ==
  /\ chain = [i \in Ids |-> Unwatched]
  /\ fresh = TRUE
  /\ watched = [i \in Ids |-> Unwatched] /\ seeded = {} /\ cursor = 1
  /\ pass = Waiting
  /\ row = [c \in Calls \X Ids |-> "none"]
  /\ faults = 0 /\ crashes = 0

(***************************************************************************)
(* The chain.                                                              *)
(***************************************************************************)
OnChain(i, m) == chain' = [chain EXCEPT ![i] = m] /\ fresh' = TRUE
Relayer == <<watched, seeded, cursor, pass, faults, crashes>>

CreateMatch ==
  /\ Count < MaxMatch /\ OnChain(Count + 1, New)
  /\ UNCHANGED <<row, Relayer>>

Reveal(i) ==
  /\ Exists(i) /\ chain[i].status = "created" /\ ~chain[i].late
  /\ OnChain(i, [chain[i] EXCEPT !.status = "active"])
  /\ UNCHANGED <<row, Relayer>>

\* A block in which none of the matches changes.
NewBlock == ~fresh /\ fresh' = TRUE /\ UNCHANGED <<chain, row, Relayer>>

\* Two hundred blocks without both players' reveals.
Unstarted(i) ==
  /\ Exists(i) /\ chain[i].status = "created" /\ ~chain[i].late
  /\ OnChain(i, [chain[i] EXCEPT !.late = TRUE])
  /\ UNCHANGED <<row, Relayer>>

\* The clock of an active match reaches its next event.
EventDue(i) ==
  /\ Exists(i) /\ chain[i].status = "active" /\ ~chain[i].due
  /\ OnChain(i, [chain[i] EXCEPT !.due = TRUE])
  /\ UNCHANGED <<row, Relayer>>

Advanced(m) ==
  LET next == [m EXCEPT !.due = FALSE, !.events = @ + 1]
  IN IF next.events = MaxEvent THEN [next EXCEPT !.status = "finished"] ELSE next

Allowed(c, m) ==
  CASE c = "cancelUnstarted" -> m.status = "created" /\ m.late
    [] c = "finalizeRating"  -> m.status = "finished" /\ ~m.rated
    [] c = "resolveEvent"    -> m.status = "active"
    [] c = "open"            -> ~m.book /\ ~Ended(m.status)
    [] OTHER                 -> ~m.attached /\ m.status # "cancelled"
Effect(c, m) ==
  CASE c = "cancelUnstarted" -> [m EXCEPT !.status = "cancelled"]
    [] c = "finalizeRating"  -> [m EXCEPT !.rated = TRUE]
    [] c = "resolveEvent"    -> IF m.due THEN Advanced(m) ELSE m
    [] c = "open"            -> [m EXCEPT !.book = TRUE]
    [] OTHER                 -> [m EXCEPT !.attached = TRUE]

\* A row ends: made or, if the chain refuses the call, failed.  The next
\* resolveEvent of a match is another row, so the last one need not be kept.
Kept(c) == IF c = "resolveEvent" THEN "none" ELSE "made"
Execute(c, i) ==
  /\ row[<<c, i>>] = "pending"
  /\ IF Allowed(c, chain[i])
       THEN OnChain(i, Effect(c, chain[i])) /\ row' = [row EXCEPT ![<<c, i>>] = Kept(c)]
       ELSE row' = [row EXCEPT ![<<c, i>>] = "failed"] /\ UNCHANGED <<chain, fresh>>
  /\ UNCHANGED Relayer

(***************************************************************************)
(* enqueue.  A call that was already made, or waits, is not stored again;  *)
(* of the calls below only open is stored again after it failed.  The      *)
(* keeper's resolveEvent is stored under the block's number, if no row of  *)
(* the match waits.                                                        *)
(***************************************************************************)
Storable(c, i) ==
  \/ row[<<c, i>>] = "none"
  \/ c = "open" /\ row[<<c, i>>] = "failed"
  \/ c = "resolveEvent" /\ row[<<c, i>>] # "pending"

\* Simulated first: a call that would fail now is refused, and not stored.
Enqueued(i, cs) ==
  [r \in Calls \X Ids |->
     IF r[2] = i /\ r[1] \in cs /\ Storable(r[1], i)
        /\ (r[1] = "resolveEvent" \/ Allowed(r[1], chain[i]))
     THEN "pending" ELSE row[r]]

(***************************************************************************)
(* refresh: the matches of one block.                                      *)
(***************************************************************************)
Followed(m) == m.status \in {"created", "active"} \/ (m.status = "finished" /\ ~m.rated)

Existing == {i \in Ids : watched[i] # Unwatched /\ Followed(watched[i])}
Newest == {i \in 1..Count : i + Recent > Count /\ watched[i] = Unwatched}
Discovered == {i \in 1..Count : cursor <= i /\ i < cursor + Scan}
Fails == faults < MaxFault /\ faults' = faults + 1

RefreshReads ==
  /\ pass.at = "idle" /\ fresh /\ fresh' = FALSE
  /\ cursor' = IF cursor + Scan <= Count THEN cursor + Scan ELSE IF cursor > Count THEN cursor ELSE Count + 1
  /\ pass' = [at |-> "refresh", todo |-> Existing \union Newest \union Discovered]
  /\ UNCHANGED <<chain, watched, seeded, row, faults, crashes>>

\* A read of the discovered matches fails: the block counts as seen and the
\* cursor has moved.
RefreshLoses ==
  /\ pass.at = "idle" /\ fresh /\ Newest \union Discovered # {} /\ Fails
  /\ fresh' = FALSE
  /\ cursor' = IF cursor + Scan <= Count THEN cursor + Scan ELSE IF cursor > Count THEN cursor ELSE Count + 1
  /\ UNCHANGED <<chain, watched, seeded, pass, row, crashes>>

\* A read of the block or of the matches already watched fails.
RefreshFails ==
  /\ pass.at = "idle" /\ fresh /\ Fails
  /\ UNCHANGED <<chain, fresh, watched, seeded, cursor, pass, row, crashes>>

Wanted(m) ==
  (IF m.status = "created" /\ m.late THEN {"cancelUnstarted"} ELSE {}) \union
  (IF m.status = "finished" /\ ~m.rated THEN {"finalizeRating"} ELSE {}) \union
  (IF m.status = "active" /\ m.due THEN {"resolveEvent"} ELSE {})

\* One match: it is shown, and its calls are asked for.  A refused call is
\* left for a later block.
RefreshMatch(i) ==
  /\ pass.at = "refresh" /\ i \in pass.todo
  /\ watched' = [watched EXCEPT ![i] = chain[i]]
  /\ pass' = [pass EXCEPT !.todo = @ \ {i}]
  /\ \/ row' = Enqueued(i, Wanted(chain[i])) /\ UNCHANGED faults
     \/ Wanted(chain[i]) # {} /\ Fails /\ UNCHANGED row
  /\ UNCHANGED <<chain, fresh, seeded, cursor, crashes>>

\* The statement that looks for waiting rows fails and ends the pass.
RefreshStops(i) ==
  /\ pass.at = "refresh" /\ i \in pass.todo /\ "resolveEvent" \in Wanted(chain[i]) /\ Fails
  /\ watched' = [watched EXCEPT ![i] = chain[i]]
  /\ pass' = Waiting
  /\ UNCHANGED <<chain, fresh, seeded, cursor, row, crashes>>

Forgotten(i) == Ended(watched[i].status) /\ i + Recent < Count + 1

RefreshEnds ==
  /\ pass.at = "refresh" /\ pass.todo = {}
  /\ watched' = [i \in Ids |-> IF Forgotten(i) THEN Unwatched ELSE watched[i]]
  /\ pass' = Waiting
  /\ UNCHANGED <<chain, fresh, seeded, cursor, row, faults, crashes>>

(***************************************************************************)
(* maintenance: markets and tournament matches of what is watched.         *)
(***************************************************************************)
Unseeded(i) == watched[i].status \in {"created", "active"} /\ i \notin seeded
Unattached(i) == i \in Cup /\ watched[i] # Unwatched /\ watched[i].status # "cancelled"

Provision(i) ==
  (IF Unseeded(i) /\ ~chain[i].book THEN {"open"} ELSE {}) \union
  (IF Unattached(i) /\ ~chain[i].attached THEN {"attach"} ELSE {})

\* Passes follow one another and take a match at a time; a read that fails ends
\* the pass, which leaves the matches after it for the next one.
MaintainMatch(i) ==
  /\ Unseeded(i) \/ Unattached(i)
  /\ seeded' = IF Unseeded(i) /\ chain[i].book THEN seeded \union {i} ELSE seeded
  /\ \/ row' = Enqueued(i, Provision(i)) /\ UNCHANGED faults
     \/ Provision(i) # {} /\ Fails /\ UNCHANGED row
  /\ UNCHANGED <<chain, fresh, watched, cursor, pass, crashes>>

Restart ==
  /\ crashes < MaxCrash /\ crashes' = crashes + 1
  /\ watched' = [i \in Ids |-> Unwatched] /\ seeded' = {} /\ cursor' = 1
  /\ fresh' = TRUE /\ pass' = Waiting
  /\ UNCHANGED <<chain, row, faults>>

Next ==
  \/ CreateMatch \/ NewBlock \/ RefreshReads \/ RefreshLoses \/ RefreshFails \/ RefreshEnds \/ Restart
  \/ \E i \in Ids :
       \/ Reveal(i) \/ Unstarted(i) \/ EventDue(i)
       \/ RefreshMatch(i) \/ RefreshStops(i) \/ MaintainMatch(i)
       \/ \E c \in Calls : Execute(c, i)

Spec == Init /\ [][Next]_vars

\* The loops run until the process stops; blocks keep coming, stored rows end
\* (RelayJournal) and the clock of an active match goes on.
KeeperFairness ==
  /\ WF_vars(NewBlock) /\ WF_vars(RefreshReads) /\ WF_vars(RefreshEnds)
  /\ \A i \in Ids :
       /\ WF_vars(RefreshMatch(i)) /\ WF_vars(MaintainMatch(i)) /\ WF_vars(EventDue(i))
       /\ \A c \in Calls : WF_vars(Execute(c, i))

FairSpec == Spec /\ KeeperFairness

(***************************************************************************)
(* Properties.                                                             *)
(***************************************************************************)
KeeperTypeOK ==
  /\ \A i \in Ids : watched[i] # Unwatched => chain[i] # Unwatched
  /\ seeded \subseteq {i \in Ids : Exists(i) /\ chain[i].book}
  /\ cursor \in 1..(MaxMatch + 1) /\ pass.todo \subseteq Ids
  /\ row \in [Calls \X Ids -> {"none", "pending", "made", "failed"}]
  /\ faults \in 0..MaxFault /\ crashes \in 0..MaxCrash

\* A match the relayer watches does not stop: while it is in play its events
\* are resolved until it ends, although requests fail, passes are cut short and newer matches push it out of
\* the recent list (refresh's existing matches and its pruning, maintenance).
WatchedLive(i) == watched[i].status = "active" /\ crashes = MaxCrash
Finished(i) == chain[i].status = "finished"
WatchedMatchesEnd == \A i \in Ids : WatchedLive(i) ~> Finished(i)

=============================================================================
