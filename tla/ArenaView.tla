------------------------------ MODULE ArenaView ------------------------------
(***************************************************************************)
(* How a page follows a match (web/components/Arena.tsx, lib/transport.ts, *)
(* lib/presentation.ts) that the relay reads block by block and publishes  *)
(* (relayer/src/main.ts, refresh and GET /matches/:id).  Snapshots reach   *)
(* the page over a socket, by the read a selection starts and by the       *)
(* fifteen second poll; they overtake one another, and the replay loader   *)
(* writes to the same two pieces of page state.                            *)
(***************************************************************************)
EXTENDS Naturals, Sequences, FiniteSets

CONSTANTS Matches,    \* ids of the matches on chain
          Final,      \* the version at which a match is finished
          MaxBlock,   \* blocks mined
          MaxClick,   \* selections and tab changes the user makes
          MaxReplay,  \* replays the user loads
          MaxFail,    \* requests that fail and sockets that drop
          MaxWire     \* messages held by the socket

VARIABLES block,      \* height of the chain
          ver,        \* version of each match at that height
          cache,      \* matchViews: the relay's last published view of each match
          head,       \* head: the height of the relay's last refresh
          wire,       \* messages on the open socket, oldest first
          online,     \* whether the socket is open
          selected,   \* the selected match, 0 for none
          tab,        \* "Live" or "Archive"
          cursor,     \* snapshotCursor
          shown,      \* match: the players, status and version on the page
          court,      \* state: what the court draws
          reads,      \* GET /matches/:id requests of the page
          replay,     \* the running loadReplay
          frames,     \* the match whose frames are loaded, 0 for none
          left        \* bounds: clicks, replays and faults still to come

vars == <<block, ver, cache, head, wire, online, selected, tab, cursor, shown,
          court, reads, replay, frames, left>>

None == [id |-> 0, head |-> 0, ver |-> 0]
Idle == [id |-> 0, stage |-> "idle"]

Init ==
  /\ block = 1 /\ ver = [m \in Matches |-> 0]
  /\ cache = [m \in Matches |-> None] /\ head = 0
  /\ wire = <<>> /\ online = FALSE
  /\ selected = 0 /\ tab = "Live" /\ cursor = None /\ shown = None /\ court = None
  /\ reads = {} /\ replay = Idle /\ frames = 0
  /\ left = [click |-> MaxClick, replay |-> MaxReplay, fail |-> MaxFail]

Snapshot(m) == [id |-> m, head |-> block, ver |-> ver[m]]
Finished(s) == s.ver = Final

-----------------------------------------------------------------------------
(* The chain and the relay. *)

Mine ==
  /\ block < MaxBlock
  /\ \E ms \in SUBSET {m \in Matches : ver[m] < Final} :
       ver' = [m \in Matches |-> IF m \in ms THEN ver[m] + 1 ELSE ver[m]]
  /\ block' = block + 1
  /\ UNCHANGED <<cache, head, wire, online, selected, tab, cursor, shown, court,
                 reads, replay, left, frames>>

(* refresh: everything not yet known to be finished is read at one height. *)
Followed == {m \in Matches : cache[m] = None \/ ~ Finished(cache[m])}

Refresh ==
  /\ block # head
  /\ Len(wire) + Cardinality(Followed) <= MaxWire
  /\ head' = block
  /\ cache' = [m \in Matches |-> IF m \in Followed THEN Snapshot(m) ELSE cache[m]]
  /\ \E order \in [1..Cardinality(Followed) -> Followed] :
       /\ \A i, j \in DOMAIN order : order[i] = order[j] => i = j
       /\ wire' = IF online THEN wire \o [i \in DOMAIN order |-> Snapshot(order[i])]
                            ELSE wire
  /\ UNCHANGED <<block, ver, online, selected, tab, cursor, shown, court, reads,
                 replay, left, frames>>

(* GET /matches/:id: a finished match, or one published within two seconds, is
   answered from the cache; anything else is read at the present height.      *)
Answers(m) ==
  IF cache[m] # None /\ Finished(cache[m]) THEN {cache[m]}
  ELSE {Snapshot(m)} \cup ({cache[m]} \ {None})

Serve ==
  /\ \E r \in reads :
       /\ r.answer = None
       /\ \E s \in Answers(r.id) : reads' = (reads \ {r}) \cup {[r EXCEPT !.answer = s]}
  /\ UNCHANGED <<block, ver, cache, head, wire, online, selected, tab, cursor,
                 shown, court, replay, left, frames>>

-----------------------------------------------------------------------------
(* The page. *)

(* acceptsSnapshot *)
Accepts(s) ==
  \/ cursor = None \/ cursor.id # s.id
  \/ s.head >= cursor.head /\ s.ver >= cursor.ver
       /\ (s.ver > cursor.ver \/ s.head > cursor.head)

Current(s) == s.id = selected /\ tab # "Archive"

ApplyMatch(s) ==
  IF Current(s) /\ Accepts(s)
  THEN cursor' = s /\ shown' = s /\ court' = s
  ELSE UNCHANGED <<cursor, shown, court>>

(* The effect that follows a change of selection or tab. *)
View(m, t) ==
  /\ selected' = m /\ tab' = t
  /\ IF m = selected /\ t = tab
     THEN UNCHANGED <<cursor, reads>>
     ELSE /\ cursor' = None
          /\ reads' = {r \in reads : r.by # "effect"} \cup
               (IF m # 0 /\ t # "Archive"
                THEN {[by |-> "effect", id |-> m, answer |-> None]} ELSE {})

Select(m) ==
  /\ left.click > 0 /\ tab # "Archive"
  /\ View(m, "Live")
  /\ left' = [left EXCEPT !.click = @ - 1]
  /\ UNCHANGED <<block, ver, cache, head, wire, online, shown, court, replay, frames>>

ChangeTab(t) ==
  /\ left.click > 0 /\ t # tab
  /\ View(selected, t)
  /\ left' = [left EXCEPT !.click = @ - 1]
  /\ UNCHANGED <<block, ver, cache, head, wire, online, shown, court, replay, frames>>

MayPoll == selected # 0 /\ tab # "Archive"

(* load, every fifteen seconds and when the socket opens. *)
Polling == {[by |-> "poll", id |-> selected, answer |-> None]}
Poll ==
  /\ MayPoll /\ \A r \in reads : r.by # "poll"
  /\ reads' = reads \cup Polling
  /\ UNCHANGED <<block, ver, cache, head, wire, online, selected, tab, cursor,
                 shown, court, replay, left, frames>>

Receive ==
  /\ \E r \in reads :
       /\ r.answer # None
       /\ ApplyMatch(r.answer)
       /\ reads' = reads \ {r}
  /\ UNCHANGED <<block, ver, cache, head, wire, online, selected, tab, replay, left, frames>>

ReadFails ==
  /\ left.fail > 0
  /\ \E r \in reads : reads' = reads \ {r}
  /\ left' = [left EXCEPT !.fail = @ - 1]
  /\ UNCHANGED <<block, ver, cache, head, wire, online, selected, tab, cursor,
                 shown, court, replay, frames>>

Open ==
  /\ ~ online /\ online' = TRUE
  /\ reads' = IF MayPoll /\ \A r \in reads : r.by # "poll"
              THEN reads \cup Polling ELSE reads
  /\ UNCHANGED <<block, ver, cache, head, wire, selected, tab, cursor, shown,
                 court, replay, left, frames>>

Close ==
  /\ online /\ left.fail > 0
  /\ online' = FALSE /\ wire' = <<>>
  /\ left' = [left EXCEPT !.fail = @ - 1]
  /\ UNCHANGED <<block, ver, cache, head, selected, tab, cursor, shown, court,
                 reads, replay, frames>>

OnMessage ==
  /\ wire # <<>>
  /\ ApplyMatch(Head(wire)) /\ wire' = Tail(wire)
  /\ UNCHANGED <<block, ver, cache, head, online, selected, tab, reads, replay, left, frames>>

(* loadReplay: the tab and the selection first, then two requests, each of
   whose answers is written whatever the page shows by then.               *)
LoadReplay(m) ==
  /\ left.replay > 0 /\ tab = "Archive" /\ replay = Idle /\ ver[m] = Final
  /\ View(m, "Archive") /\ court' = None /\ frames' = 0
  /\ replay' = [id |-> m, stage |-> "match"]
  /\ left' = [left EXCEPT !.replay = @ - 1]
  /\ UNCHANGED <<block, ver, cache, head, wire, online, shown>>

ReplayMatch ==
  /\ replay.stage = "match"
  /\ \E s \in Answers(replay.id) : shown' = s
  /\ replay' = [replay EXCEPT !.stage = "frames"]
  /\ UNCHANGED <<block, ver, cache, head, wire, online, selected, tab, cursor,
                 court, reads, left, frames>>

ReplayFrames ==
  /\ replay.stage = "frames"
  /\ frames' = replay.id
  /\ court' = [id |-> replay.id, head |-> 0, ver |-> 0]
  /\ replay' = Idle
  /\ UNCHANGED <<block, ver, cache, head, wire, online, selected, tab, cursor,
                 shown, reads, left>>

(* The replay's timer shows the frames of the match clock, in the archive only. *)
PlayFrame ==
  /\ frames # 0 /\ tab = "Archive" /\ court.ver < Final
  /\ court' = [id |-> frames, head |-> 0, ver |-> court.ver + 1]
  /\ UNCHANGED <<block, ver, cache, head, wire, online, selected, tab, cursor,
                 shown, reads, replay, frames, left>>

ReplayFails ==
  /\ replay # Idle /\ left.fail > 0
  /\ replay' = Idle
  /\ left' = [left EXCEPT !.fail = @ - 1]
  /\ UNCHANGED <<block, ver, cache, head, wire, online, selected, tab, cursor,
                 shown, court, reads, frames>>

Next ==
  \/ Mine \/ Refresh \/ Serve \/ Poll \/ Receive \/ ReadFails \/ Open \/ Close
  \/ OnMessage \/ ReplayMatch \/ ReplayFrames \/ PlayFrame \/ ReplayFails
  \/ \E m \in Matches : Select(m) \/ LoadReplay(m)
  \/ \E t \in {"Live", "Archive"} : ChangeTab(t)

Spec == Init /\ [][Next]_vars

(* The relay's loop and routes run, the interval fires, the socket is opened
   again two seconds after it closes and delivers, and answers arrive.       *)
ViewFairness ==
  /\ WF_vars(Refresh) /\ WF_vars(Serve) /\ WF_vars(Poll) /\ WF_vars(Receive)
  /\ WF_vars(Open) /\ WF_vars(OnMessage) /\ WF_vars(ReplayMatch) /\ WF_vars(ReplayFrames)

-----------------------------------------------------------------------------
ViewTypeOK ==
  /\ block \in 1..MaxBlock /\ head \in 0..block
  /\ ver \in [Matches -> 0..Final]
  /\ selected \in {0} \cup Matches /\ tab \in {"Live", "Archive"}
  /\ \A s \in {cursor, shown, court} :
       s.id \in {0} \cup Matches /\ s.head \in 0..MaxBlock /\ s.ver \in 0..Final
  /\ \A r \in reads : r.by \in {"effect", "poll"} /\ r.id \in Matches

(* Once a snapshot of the selected match has been applied, the header and the
   court show that match and that snapshot, whichever of the reads started for
   other selections are answered later (Arena.tsx applyMatch).  A replay that
   is still loading is left out: it writes to the page of whatever is selected. *)
ShownIsSelected ==
  left.replay = MaxReplay /\ tab # "Archive" /\ cursor # None =>
    cursor.id = selected /\ shown = cursor /\ court = cursor

(* A spectator who leaves the selection alone ends up with the last state of
   the match on chain, however requests, socket messages and failures fall
   (Arena.tsx load, subscribe and the effect of a selection).  Behaviours in
   which a replay was loaded are left out: see ViewRecovers.                  *)
Unreplayed == left.replay = MaxReplay
Watches(m) == selected = m /\ tab = "Live"
Sees(m) == shown.id = m /\ shown.ver = ver[m] /\ court.id = m /\ court.ver = ver[m]
ViewConverges == \A m \in Matches : []Unreplayed /\ <>[]Watches(m) => <>[]Sees(m)

=============================================================================
