------------------------------ MODULE InputLane ------------------------------
(***************************************************************************)
(* From a key press to the paddle: the browser's InputController           *)
(* (web/lib/input-controller.ts) signs the direction the player holds, the *)
(* relayer's input intake (relayer/src/inputs.ts) gives each accepted      *)
(* intent the lane's next nonce and supersedes what it has not signed yet, *)
(* and the job runner executes the rows.  Acknowledgement and confirmation *)
(* are independent: the controller goes on sending while older rows wait.  *)
(*                                                                         *)
(* A row is identified by nonce, direction and observed block, as the hash *)
(* of the signed payload is.                                               *)
(***************************************************************************)
EXTENDS Naturals, FiniteSets, Sequences

CONSTANTS Dirs,       \* the directions of a paddle, 0 the one at rest
          MaxMoves,   \* changes of the held direction
          MaxFail,    \* requests that fail and rows that revert
          MaxReset,   \* losses of the playing context
          MaxLate     \* given-up requests that may still arrive

VARIABLES want,    \* the direction the player holds
          active,  \* a match and a live key are selected
          ctl,     \* the controller's fields; nonce 0 stands for null, sent 9 for null
          req,     \* the flush in progress
          late,    \* requests given up on that may still reach the relayer
          rows,    \* the lane's rows in order of insertion
          lane,    \* last sequence, confirmed nonce and the paddle's direction
          head,    \* the block signatures refer to
          faults

vars == <<want, active, ctl, req, late, rows, lane, head, faults>>

NoReq == [at |-> "none"]
Fresh == [nonce |-> 0, seq |-> 1, sent |-> 9, jobs |-> {}]

Init ==
  /\ want = 0 /\ active = TRUE
  /\ ctl = Fresh /\ req = NoReq /\ late = {}
  /\ rows = <<>> /\ lane = [seq |-> 0, nonce |-> 0, dir |-> 0]
  /\ head = 0
  /\ faults = [moves |-> 0, fails |-> 0, resets |-> 0]

(***************************************************************************)
(* The relayer's intake.                                                   *)
(***************************************************************************)
Reserved == {rows[i].nonce : i \in {j \in DOMAIN rows : rows[j].status = "sent"}} \cup {lane.nonce}
NextNonce == 1 + CHOOSE n \in Reserved : \A k \in Reserved : k <= n

Same(i, r) == rows[i].nonce = r.nonce /\ rows[i].dir = r.dir /\ rows[i].head = r.head

\* An intent the lane has moved past: its signer must read the cursor again.
Stale(r) == r.seq <= lane.seq \/ r.nonce # NextNonce

\* A newer intent supersedes what the lane has not signed yet.
\* Mutant: only a row that was already sent is superseded.
SupersedeSent == [i \in DOMAIN rows |-> IF rows[i].status = "sent"
                                        THEN [rows[i] EXCEPT !.status = "superseded"] ELSE rows[i]]
Superseded == [i \in DOMAIN rows |-> IF rows[i].status = "queued"
                                     THEN [rows[i] EXCEPT !.status = "superseded"] ELSE rows[i]]

\* What accept answers: the row it knows, a resync, or a new row.
Accepted(r) ==
  LET known == {i \in DOMAIN rows : Same(i, r)}
  IN IF known # {}
     THEN [rows |-> rows, lane |-> lane, ok |-> TRUE, job |-> CHOOSE i \in known : TRUE,
           status |-> rows[CHOOSE i \in known : TRUE].status]
     ELSE IF Stale(r)
     THEN [rows |-> rows, lane |-> lane, ok |-> FALSE, job |-> 0, status |-> "resync"]
     ELSE [rows |-> Append(Superseded,
                           [nonce |-> r.nonce, dir |-> r.dir, head |-> r.head, seq |-> r.seq, status |-> "queued"]),
           lane |-> [lane EXCEPT !.seq = r.seq], ok |-> TRUE, job |-> Len(rows) + 1, status |-> "accepted"]

(***************************************************************************)
(* The controller.                                                         *)
(***************************************************************************)
\* update: nothing in flight and a direction not yet sent.
MustSend == ctl.sent # want \/ ctl.nonce = 0

Flush ==
  /\ active /\ req = NoReq /\ MustSend
  /\ req' = IF ctl.nonce = 0 THEN [at |-> "state"]
            ELSE [at |-> "post", nonce |-> ctl.nonce, seq |-> ctl.seq, dir |-> want, head |-> head]
  /\ ctl' = IF ctl.nonce = 0 THEN ctl ELSE [ctl EXCEPT !.seq = @ + 1]
  /\ UNCHANGED <<want, active, rows, lane, head, faults, late>>

\* The lane's cursor arrives and the current direction is signed with it.
StateAnswered ==
  /\ req.at = "state"
  /\ req' = [at |-> "post", nonce |-> NextNonce, seq |-> lane.seq + 1, dir |-> want, head |-> head]
  /\ ctl' = [ctl EXCEPT !.nonce = NextNonce, !.seq = lane.seq + 2]
  /\ UNCHANGED <<want, active, rows, lane, head, faults, late>>

PostServed ==
  /\ req.at = "post"
  /\ \E a \in {Accepted(req)} :
       /\ rows' = a.rows /\ lane' = a.lane
       /\ req' = [at |-> "answer", ok |-> a.ok, job |-> a.job, status |-> a.status, dir |-> req.dir,
                  nonce |-> NextNonce, seq |-> a.lane.seq + 1]
  /\ UNCHANGED <<want, active, ctl, head, faults, late>>

Later(a, b) == IF a > b THEN a ELSE b

Answered(c) ==
  CASE ~req.ok -> [c EXCEPT !.sent = 9]
    [] req.ok /\ req.status \in {"failed", "superseded"} -> [c EXCEPT !.nonce = 0, !.sent = 9]
    [] OTHER -> [c EXCEPT !.sent = req.dir, !.jobs = @ \cup {req.job}]

PostAnswered ==
  /\ req.at = "answer"
  /\ ctl' = Answered([ctl EXCEPT !.nonce = req.nonce, !.seq = Later(@, req.seq)])
  /\ req' = NoReq
  /\ UNCHANGED <<want, active, rows, lane, head, faults, late>>

GivenUp == IF req.at = "post" /\ Cardinality(late) < MaxLate THEN late \cup {req} ELSE late

\* A request fails, before or after the relayer acted on it.
FlushFails ==
  /\ req # NoReq /\ faults.fails < MaxFail
  /\ faults' = [faults EXCEPT !.fails = @ + 1]
  /\ ctl' = [ctl EXCEPT !.nonce = 0, !.sent = 9]
  /\ req' = NoReq /\ late' = GivenUp
  /\ UNCHANGED <<want, active, rows, lane, head>>

\* A request nobody waits for any more reaches the relayer, or is lost.
LateServed(r) ==
  /\ late' = late \ {r}
  /\ \/ \E a \in {Accepted(r)} : rows' = a.rows /\ lane' = a.lane
     \/ UNCHANGED <<rows, lane>>
  /\ UNCHANGED <<want, active, ctl, req, head, faults>>

\* waitJob settles a row: success moves the nonce on, failure, or 90 seconds
\* without a receipt, starts over.
WaitEnds(j) ==
  /\ j \in ctl.jobs
  /\ \/ /\ rows[j].status \in {"done", "superseded"}
        /\ ctl' = [ctl EXCEPT !.jobs = @ \ {j},
                     !.nonce = IF rows[j].status = "done" /\ @ # 0 THEN Later(@, rows[j].nonce + 1) ELSE @]
        /\ UNCHANGED faults
     \/ /\ rows[j].status = "failed" \/ faults.fails < MaxFail
        /\ ctl' = [ctl EXCEPT !.jobs = @ \ {j}, !.nonce = 0, !.sent = 9]
        /\ faults' = IF rows[j].status = "failed" THEN faults ELSE [faults EXCEPT !.fails = @ + 1]
  /\ UNCHANGED <<want, active, req, rows, lane, head, late>>

\* reset: the context is gone and whatever is in flight is ignored.
LoseContext ==
  /\ active /\ faults.resets < MaxReset
  /\ active' = FALSE
  /\ faults' = [faults EXCEPT !.resets = @ + 1]
  /\ ctl' = Fresh /\ req' = NoReq /\ late' = GivenUp
  /\ UNCHANGED <<want, rows, lane, head>>

Regain == ~active /\ active' = TRUE /\ UNCHANGED <<want, ctl, req, rows, lane, head, faults, late>>

(***************************************************************************)
(* The player, the job runner and the chain.                               *)
(***************************************************************************)
Press(d) ==
  /\ d # want /\ faults.moves < MaxMoves
  /\ want' = d
  /\ faults' = [faults EXCEPT !.moves = @ + 1]
  /\ UNCHANGED <<active, ctl, req, rows, lane, head, late>>

SignRow(i) ==
  /\ rows[i].status = "queued"
  /\ \A j \in DOMAIN rows : rows[j].status # "sent"
  /\ rows' = [rows EXCEPT ![i].status = "sent"]
  /\ UNCHANGED <<want, active, ctl, req, lane, head, faults, late>>

Confirm(i) ==
  /\ rows[i].status = "sent"
  /\ \/ /\ rows' = [rows EXCEPT ![i].status = "done"]
        /\ lane' = [lane EXCEPT !.nonce = rows[i].nonce, !.dir = rows[i].dir]
        /\ UNCHANGED faults
     \/ /\ faults.fails < MaxFail
        /\ faults' = [faults EXCEPT !.fails = @ + 1]
        /\ rows' = [rows EXCEPT ![i].status = "failed"]
        /\ UNCHANGED lane
  /\ UNCHANGED <<want, active, ctl, req, head, late>>

\* The block moves on once something was signed against it.
Block ==
  /\ \E i \in DOMAIN rows : rows[i].head = head
  /\ head' = head + 1
  /\ UNCHANGED <<want, active, ctl, req, rows, lane, faults, late>>

Jobs == DOMAIN rows

Next ==
  \/ Flush \/ StateAnswered \/ PostServed \/ PostAnswered \/ FlushFails
  \/ LoseContext \/ Regain \/ Block
  \/ \E r \in late : LateServed(r)
  \/ \E d \in Dirs : Press(d)
  \/ \E i \in Jobs : WaitEnds(i) \/ SignRow(i) \/ Confirm(i)

Spec == Init /\ [][Next]_vars

WaitsEnd == \E i \in Jobs : WaitEnds(i)
RowsGoOn == \E i \in Jobs : SignRow(i) \/ Confirm(i)

InputFairness ==
  /\ WF_vars(Flush) /\ WF_vars(StateAnswered) /\ WF_vars(PostServed) /\ WF_vars(PostAnswered)
  /\ WF_vars(WaitsEnd) /\ WF_vars(RowsGoOn)
  /\ WF_vars(Regain) /\ WF_vars(Block)

(***************************************************************************)
(* Properties.                                                             *)
(***************************************************************************)
InputTypeOK ==
  /\ want \in Dirs /\ lane.dir \in Dirs /\ active \in BOOLEAN
  /\ ctl.jobs \subseteq DOMAIN rows
  /\ Cardinality({i \in DOMAIN rows : rows[i].status \in {"queued", "sent"}}) <= 2

\* The direction the player ends up holding is the one the paddle ends up
\* moving in, whatever requests and transactions failed on the way.
Wants(d) == want = d
Moves(d) == lane.dir = d
PaddleFollows == \A d \in Dirs : <>[]Wants(d) => <>[]Moves(d)
=============================================================================
