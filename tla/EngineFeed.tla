----------------------------- MODULE EngineFeed ------------------------------
(***************************************************************************)
(* The snapshot cache of one match (shared/engine-feed.ts) between the     *)
(* applied-event stream of the engine node (shared/engine-stream.ts), the  *)
(* receipts of the tab's own commands and full HTTP reads.                 *)
(*                                                                         *)
(* A state of the match is known by its revision, the engine head it was   *)
(* seen at and the life of the node that made it: a restarted node may go  *)
(* back to an earlier revision and make other states from there.  An HTTP  *)
(* read is served at one moment and delivered at a later one.              *)
(***************************************************************************)
EXTENDS Integers, Sequences, FiniteSets

CONSTANTS MaxRev,       \* revisions of the match
          MaxHead,      \* engine blocks
          MaxRestarts,  \* restarts of the node
          MaxFaults,    \* reads, frames and connections that fail
          GapWindow     \* how far ahead a frame may be buffered

VARIABLES
  node,       \* the engine: head, life, and the life that made each revision
  stream,     \* the subscription: connected, and the frames under way
  entry,      \* the cached value, dirty, and the frames waiting behind a gap
  pending,    \* the full read under way
  faults      \* failures so far

vars == <<node, stream, entry, pending, faults>>

Rev == Len(node.log)
Now == [rev |-> Rev, head |-> node.head, life |-> node.log[Rev], reset |-> FALSE]
NoValue == [rev |-> 0, head |-> 0, life |-> 0, reset |-> FALSE]
NoStream == [life |-> 0, frames |-> <<>>]
NoRead == [at |-> "none", from |-> NoValue, got |-> NoValue, again |-> NoValue]

Init ==
  /\ node = [head |-> 1, life |-> 1, log |-> <<1>>]
  /\ stream = NoStream
  /\ faults = 0
  /\ entry = [value |-> NoValue, dirty |-> TRUE, gap |-> {}, buffered |-> FALSE]
  /\ pending = NoRead

(***************************************************************************)
(* The node.                                                               *)
(***************************************************************************)
\* A command is applied: the next revision, in a new block, pushed to the stream.
Apply ==
  /\ Rev < MaxRev /\ node.head < MaxHead
  /\ node' = [node EXCEPT !.head = @ + 1, !.log = Append(@, node.life)]
  /\ stream' = IF stream.life = node.life
               THEN [stream EXCEPT !.frames = Append(@, [rev |-> Rev + 1, head |-> node.head + 1,
                                                          life |-> node.life, reset |-> FALSE])]
               ELSE stream
  /\ UNCHANGED <<entry, pending, faults>>

\* Blocks pass without a command.
Tick ==
  /\ node.head < MaxHead
  /\ node' = [node EXCEPT !.head = @ + 1]
  /\ UNCHANGED <<stream, entry, pending, faults>>

\* A restart keeps a prefix of the match and may lower the head.  What the old
\* process had already written to a socket may still arrive.
Restart ==
  /\ node.life <= MaxRestarts
  /\ \E r \in 1..Rev, h \in 1..node.head :
       node' = [head |-> h, life |-> node.life + 1, log |-> SubSeq(node.log, 1, r)]
  /\ UNCHANGED <<stream, entry, pending, faults>>

\* The subscription handshake, a connection that drops with its frames, and the
\* socket of a restarted node that is found closed.
Invalidated == [entry EXCEPT !.dirty = TRUE, !.gap = {}, !.buffered = FALSE]

Connect ==
  /\ stream = NoStream
  /\ stream' = [stream EXCEPT !.life = node.life]
  /\ entry' = Invalidated
  /\ UNCHANGED <<node, pending, faults>>

Closed ==
  /\ stream' = NoStream
  /\ entry' = Invalidated
  /\ UNCHANGED <<node, pending>>

Drop == stream # NoStream /\ stream.life = node.life /\ faults < MaxFaults
        /\ faults' = faults + 1 /\ Closed

FindClosed == stream # NoStream /\ stream.life < node.life /\ faults' = faults /\ Closed

(***************************************************************************)
(* Frames.                                                                 *)
(***************************************************************************)
\* mergeEngineFrame: the next revision at no lower a head, or a resync; what
\* is ahead of a gap may wait for it.
Old(f) == f.rev <= entry.value.rev
Admitted(v) == v.rev > 1     \* the first revision is the match before it is live
Fits(f, v) == f.rev = v.rev + 1 /\ f.head >= v.head /\ Admitted(v)
Ahead(f) == /\ f.rev > entry.value.rev + 1 /\ f.rev - entry.value.rev <= GapWindow
            /\ f.head >= entry.value.head /\ Admitted(entry.value)

\* The waiting frames that follow one another from v, oldest first.
Last(v, gap) ==
  LET run == {v} \cup {f \in gap : \A r \in (v.rev + 1)..f.rev :
                          \E g \in gap : g.rev = r /\ g.head >= v.head}
  IN  CHOOSE f \in run : \A g \in run : g.rev <= f.rev

\* apply: publish a contiguous frame and those that waited for it; buffer a short
\* forward gap of a clean stream; anything else asks for a full read.
Applied(f) ==
  IF Old(f) THEN entry
  ELSE IF Fits(f, entry.value)
  THEN LET v == Last(f, entry.gap)
           rest == {g \in entry.gap : g.rev > v.rev}
       IN  [value |-> v, gap |-> rest, buffered |-> entry.buffered /\ rest # {},
            dirty |-> entry.dirty /\ ~(entry.buffered /\ rest = {})]
  ELSE IF Ahead(f) /\ (~entry.dirty \/ entry.buffered)
  THEN [entry EXCEPT !.gap = {g \in @ : g.rev # f.rev} \cup {f}, !.buffered = TRUE, !.dirty = TRUE]
  ELSE Invalidated

\* The socket delivers its frames in order.
Deliver ==
  /\ stream.frames # <<>>
  /\ stream' = [stream EXCEPT !.frames = Tail(@)]
  /\ entry' = IF entry.value = NoValue THEN entry ELSE Applied(Head(stream.frames))
  /\ UNCHANGED <<node, pending, faults>>

\* A frame that cannot be decoded, or a result without its Completed event.
DeliverUnreadable ==
  /\ faults < MaxFaults /\ faults' = faults + 1
  /\ stream.frames # <<>> /\ entry.value # NoValue /\ ~Old(Head(stream.frames))
  /\ stream' = [stream EXCEPT !.frames = Tail(@)]
  /\ entry' = Invalidated
  /\ UNCHANGED <<node, pending>>

\* The receipt of the tab's own command, which may overtake the stream.
Receipt ==
  /\ entry.value # NoValue /\ Rev > 1 /\ node.log[Rev] = node.life
  /\ entry' = Applied(Now)
  /\ UNCHANGED <<node, stream, pending, faults>>

(***************************************************************************)
(* Full reads.                                                             *)
(***************************************************************************)
\* read: one request at a time; the value it started from is remembered.
ReadStarts ==
  /\ pending = NoRead
  /\ pending' = [NoRead EXCEPT !.at = "asked", !.from = entry.value]
  /\ UNCHANGED <<node, stream, entry, faults>>

\* The node answers from its state of that moment; the answer is under way.
ReadServed ==
  /\ pending.at \in {"asked", "verify"}
  /\ pending' = IF pending.at = "asked"
                THEN [pending EXCEPT !.at = "served", !.got = Now]
                ELSE [pending EXCEPT !.at = "verified", !.again = Now]
  /\ UNCHANGED <<node, stream, entry, faults>>

ReadFails ==
  /\ pending # NoRead /\ faults < MaxFaults
  /\ pending' = NoRead /\ faults' = faults + 1
  /\ UNCHANGED <<node, stream, entry>>

Published(v) == [value |-> v, dirty |-> FALSE, gap |-> {}, buffered |-> FALSE]

\* Mutant: an older read of a dirty cache is adopted without a second one.
MustVerifyNever(v) == FALSE

\* A read that is behind the cache is adopted only after a discontinuity, and
\* only when a second one agrees.
MustVerify(v) == v.rev < entry.value.rev

\* An older answer of a clean cache makes it suspect: the next read verifies.
Behind(v) == [entry EXCEPT !.dirty = TRUE]

\* The processed time of two states: equal for the same state, either way for
\* states of the same revision that two lives of the node made.
SameTime(v, w) == IF v.life = w.life THEN {TRUE} ELSE BOOLEAN

ReadDelivered ==
  /\ pending.at = "served"
  /\ \E same \in SameTime(pending.got, entry.value) :
     LET v == pending.got
         overtaken == ~entry.dirty /\ entry.value # pending.from /\ v.rev < entry.value.rev
         lowered == entry.value # NoValue /\ v.rev = entry.value.rev /\ v.head < entry.value.head
     IN  IF overtaken \/ (lowered /\ ~same)
         THEN pending' = NoRead /\ UNCHANGED entry
         ELSE IF MustVerify(v)
         THEN IF entry.dirty
              THEN /\ pending' = [pending EXCEPT !.at = "verify", !.from = entry.value]
                   /\ UNCHANGED entry
              ELSE pending' = NoRead /\ entry' = Behind(v)
         ELSE /\ pending' = NoRead
              /\ entry' = Published([v EXCEPT !.reset = lowered \/ v.rev < entry.value.rev])
  /\ UNCHANGED <<node, stream, faults>>

\* The second read: the same revision and time, no push in between, no lower a head.
VerifyDelivered ==
  /\ pending.at = "verified"
  /\ pending' = NoRead
  /\ \E same \in SameTime(pending.again, pending.got) :
     LET v == pending.again
     IN  entry' = IF /\ entry.value = pending.from
                     /\ v.rev = pending.got.rev /\ same
                     /\ v.head >= pending.got.head
                  THEN Published([v EXCEPT !.reset = TRUE])
                  ELSE entry
  /\ UNCHANGED <<node, stream, faults>>

Next ==
  \/ Apply \/ Tick \/ Restart \/ Connect \/ Drop \/ FindClosed
  \/ Deliver \/ DeliverUnreadable \/ Receipt
  \/ ReadStarts \/ ReadServed \/ ReadFails \/ ReadDelivered \/ VerifyDelivered

Spec == Init /\ [][Next]_vars

\* The observer keeps polling (RoomsHub.tsx reads every 500 ms while the match
\* is live), the node makes blocks and answers, the socket delivers.
FeedFairness ==
  /\ WF_vars(Tick) /\ WF_vars(Deliver) /\ WF_vars(FindClosed)
  /\ WF_vars(ReadStarts) /\ WF_vars(ReadServed)
  /\ WF_vars(ReadDelivered) /\ WF_vars(VerifyDelivered)

(***************************************************************************)
(* Properties.                                                             *)
(***************************************************************************)
FeedTypeOK ==
  /\ Rev \in 1..MaxRev /\ node.head \in 1..MaxHead /\ node.life \in 1..MaxRestarts + 1
  /\ entry.value.rev \in 0..MaxRev /\ entry.dirty \in BOOLEAN
  /\ entry.gap # {} => entry.buffered /\ entry.dirty
  /\ Cardinality({f.rev : f \in entry.gap}) = Cardinality(entry.gap)
  /\ pending.at \in {"none", "asked", "served", "verify", "verified"}

\* A reset is never invented: "this ordinary race is not a node restart".  When
\* listeners are shown a lower revision it is flagged as a reset, which stops the
\* command lane (RoomsHub.tsx), and the node has really left the revision the
\* cache held, whatever reads, receipts and pushes overtook each other.
RealReset ==
  entry'.value.rev < entry.value.rev
    => entry'.value.reset /\ (Rev < entry.value.rev \/ node.life > entry.value.life)
ResetIsReal == [][RealReset]_vars

\* Once the node stops changing, the cache comes to hold its state, whatever
\* was lost, reordered, in flight or rolled back.
InStep == entry.value.rev = Rev /\ entry.value.life = node.log[Rev]
FeedConverges == <>[]InStep
=============================================================================
