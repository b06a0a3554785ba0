---------------------------- MODULE FamilySession ----------------------------
(***************************************************************************)
(* The independent arcade in one tab: the family key the owner's passkey   *)
(* grants for two hours, the commands it signs, the one sponsored          *)
(* operation the tab remembers, and disconnecting (web/lib/independent.ts  *)
(* and the actions of IndependentHub.tsx).                                 *)
(*                                                                         *)
(* Two tasks use the remembered operation: the action the player runs, one *)
(* at a time, and the effect that resumes the operation when the page or   *)
(* the key is new.  A task waits for its operation and gives up after a    *)
(* while; the server goes on.                                              *)
(***************************************************************************)
EXTENDS Naturals, FiniteSets

CONSTANTS MaxOp,      \* bound: sponsored operations signed
          MaxClick,   \* bound: actions the player starts
          MaxFault,   \* bound: lost requests, impatient waits, expiries
          MaxReload   \* bound: reloads of the page

VARIABLES chain,   \* ArcadeFamily: the grant's key, its revision, used nonces
          ops,     \* the operations signed in this tab, and what became of them
          family,  \* the key in session storage, 0 if none
          slot,    \* the operation in session storage, 0 if none
          known,   \* the account is remembered
          run,     \* the action in progress
          effect,  \* the resuming effect
          gone,    \* keys the player was told are revoked
          clicks, faults, reloads

vars == <<chain, ops, family, slot, known, run, effect, gone, clicks, faults, reloads>>

Idle == [at |-> "idle"]
Signed == Cardinality({o \in 1..MaxOp : ops[o].kind # "none"})
Unsigned == [kind |-> "none", key |-> 0, rev |-> 0, nonce |-> 0, status |-> "none"]

Init ==
  /\ chain = [key |-> 0, rev |-> 0, nonce |-> 0, owner |-> 0]
  /\ ops = [o \in 1..MaxOp |-> Unsigned]
  /\ family = 0 /\ slot = 0 /\ known = FALSE
  /\ run = Idle /\ effect = Idle /\ gone = {}
  /\ clicks = 0 /\ faults = 0 /\ reloads = 0

Fault == faults < MaxFault /\ faults' = faults + 1

(***************************************************************************)
(* ArcadeFamily and the lobby's command nonces, through the writer.        *)
(***************************************************************************)
Accepts(op) ==
  CASE op.kind = "register" -> op.rev = chain.rev
    [] op.kind = "command"  -> op.key = chain.key /\ op.nonce = chain.nonce
    [] OTHER                -> op.rev = chain.rev /\ op.nonce = chain.owner
Effect(op) ==
  CASE op.kind = "register" -> [chain EXCEPT !.key = op.key, !.nonce = 0]
    [] op.kind = "command"  -> [chain EXCEPT !.nonce = @ + 1]
    [] OTHER                -> [chain EXCEPT !.key = 0, !.rev = @ + 1, !.owner = @ + 1]

Execute(o) ==
  /\ ops[o].status = "queued"
  /\ IF Accepts(ops[o])
       THEN chain' = Effect(ops[o]) /\ ops' = [ops EXCEPT ![o].status = "confirmed"]
       ELSE UNCHANGED chain /\ ops' = [ops EXCEPT ![o].status = "failed"]
  /\ UNCHANGED <<family, slot, known, run, effect, gone, clicks, faults, reloads>>

\* The grant's two hours pass.
Expire ==
  /\ chain.key # 0 /\ Fault /\ chain' = [chain EXCEPT !.key = 0]
  /\ UNCHANGED <<ops, family, slot, known, run, effect, gone, clicks, reloads>>

(***************************************************************************)
(* The action: run, ensure, login, act and disconnect of the hub.  `goal`  *)
(* is what the player asked for, `at` the step it is in.                   *)
(***************************************************************************)
To(step) == run' = [run EXCEPT !.at = step]
Stop == run' = Idle
Storage == <<family, slot, known, gone>>
Others == <<effect, clicks, faults, reloads>>

Click(goal) ==
  /\ run = Idle /\ clicks < MaxClick /\ clicks' = clicks + 1
  /\ goal = "disconnect" => family # 0
  /\ run' = [goal |-> goal, op |-> 0,
             at |-> IF family # 0 THEN "resume" ELSE "passkey"]
  /\ UNCHANGED <<chain, ops, Storage, effect, faults, reloads>>

\* resumeSponsored: nothing to resume, or the remembered operation again.
Resume ==
  /\ run.at \in {"resume", "opening"}
  /\ IF slot = 0
       THEN To(CASE run.at = "opening" -> "open"
                 [] run.goal = "disconnect" -> "passkey"
                 [] OTHER -> "validate")
       ELSE run' = [run EXCEPT !.at = IF @ = "opening" THEN "reopen" ELSE "repost", !.op = slot]
  /\ UNCHANGED <<chain, ops, Storage, Others>>

\* A grant that cannot be read is not a grant that expired: the action ends.
Validate ==
  /\ run.at = "validate" /\ To(IF chain.key = family THEN "act" ELSE "passkey")
  /\ UNCHANGED <<chain, ops, Storage, Others>>
ReadFails ==
  /\ run.at \in {"validate", "act", "open"} /\ Fault /\ Stop
  /\ UNCHANGED <<chain, ops, Storage, effect, clicks, reloads>>

Passkey ==
  /\ run.at = "passkey" /\ known' = TRUE
  /\ To(IF run.goal = "disconnect" THEN "revoke" ELSE "opening")
  /\ UNCHANGED <<chain, ops, family, slot, gone, Others>>
Refuse ==
  /\ run.at = "passkey" /\ Stop
  /\ UNCHANGED <<chain, ops, Storage, Others>>

\* sponsorCall remembers the operation before it is sent, unless another one is
\* remembered.
Sign(op, keep) ==
  /\ Signed < MaxOp
  /\ ops' = [ops EXCEPT ![Signed + 1] = op]
  /\ IF slot # 0 THEN Stop /\ UNCHANGED slot
     ELSE slot' = Signed + 1 /\ run' = [run EXCEPT !.at = keep, !.op = Signed + 1]

\* The key is stored before the grant is registered.
OpenFamily ==
  /\ run.at = "open"
  /\ IF family # 0 /\ chain.key = family
       THEN To("act") /\ UNCHANGED <<ops, slot, family>>
       ELSE /\ family' = Signed + 1
            /\ Sign([Unsigned EXCEPT !.kind = "register", !.key = Signed + 1, !.rev = chain.rev,
                       !.status = "signed"], "register")
  /\ UNCHANGED <<chain, known, gone, Others>>

LobbyCommand ==
  /\ run.at = "act"
  /\ Sign([Unsigned EXCEPT !.kind = "command", !.key = family, !.nonce = chain.nonce,
             !.status = "signed"], "command")
  /\ UNCHANGED <<chain, family, known, gone, Others>>

SignRevoke ==
  /\ run.at = "revoke"
  /\ Sign([Unsigned EXCEPT !.kind = "revoke", !.key = family, !.rev = chain.rev,
             !.nonce = chain.owner, !.status = "signed"], "revoked")
  /\ UNCHANGED <<chain, family, known, gone, Others>>

\* The player's action, with the operation it posts or posts again.
Posting == run.at \in {"reopen", "repost", "register", "command", "revoked"}

Queued(o) == IF ops[o].status = "signed" THEN [ops EXCEPT ![o].status = "queued"] ELSE ops
Post ==
  /\ Posting /\ ops[run.op].status = "signed" /\ ops' = Queued(run.op)
  /\ UNCHANGED <<chain, Storage, run, Others>>

RevokedFor(o) == ops[o].status = "confirmed"

\* Disconnecting erases what the tab holds whether or not it could revoke.
Erased(o) ==
  /\ family' = 0 /\ slot' = 0
  /\ gone' = IF RevokedFor(o) THEN gone \union {family} ELSE gone

\* What follows when the operation has ended, failed, or is not waited for.
Answered(o, ok) ==
  IF run.at = "revoked" THEN Stop
  ELSE IF ~ok THEN Stop
  ELSE To(CASE run.at = "repost" -> "resume" [] run.at = "reopen" -> "opening"
            [] run.at = "register" -> "act" [] OTHER -> "done")

\* The wait ends: whatever the tab remembers by now is forgotten.
Waited ==
  /\ Posting /\ ops[run.op].status \in {"confirmed", "failed"}
  /\ Answered(run.op, ops[run.op].status = "confirmed")
  /\ IF run.at = "revoked" THEN Erased(run.op) ELSE slot' = 0 /\ UNCHANGED <<family, gone>>
  /\ UNCHANGED <<chain, ops, known, Others>>

\* The server refuses what would revert: not accepted, so nothing to remember.
Refused ==
  /\ Posting /\ ops[run.op].status = "signed" /\ ~Accepts(ops[run.op])
  /\ ops' = [ops EXCEPT ![run.op].status = "failed"]
  /\ Answered(run.op, FALSE)
  /\ IF run.at = "revoked" THEN Erased(run.op) ELSE slot' = 0 /\ UNCHANGED <<family, gone>>
  /\ UNCHANGED <<chain, known, Others>>

\* A request is lost, before or after it arrived, or the wait takes too long.
Impatient ==
  /\ Posting /\ Fault
  /\ ops' \in {ops, Queued(run.op)}
  /\ Stop
  /\ IF run.at = "revoked" THEN Erased(run.op) ELSE UNCHANGED <<family, slot, gone>>
  /\ UNCHANGED <<chain, known, effect, clicks, reloads>>

Finish ==
  /\ run.at = "done" /\ Stop
  /\ UNCHANGED <<chain, ops, Storage, Others>>

(***************************************************************************)
(* The effect of a new page or key: the remembered operation is resumed.   *)
(***************************************************************************)
EffectStarts ==
  /\ effect = Idle /\ family # 0 /\ slot # 0
  /\ effect' = [at |-> "wait", op |-> slot] /\ ops' = Queued(slot)
  /\ UNCHANGED <<chain, Storage, run, clicks, faults, reloads>>

EffectEnds ==
  /\ effect # Idle /\ ops[effect.op].status \in {"confirmed", "failed"}
  /\ effect' = Idle /\ slot' = 0
  /\ UNCHANGED <<chain, ops, family, known, run, gone, clicks, faults, reloads>>

EffectFails ==
  /\ effect # Idle /\ Fault /\ effect' = Idle
  /\ UNCHANGED <<chain, ops, Storage, run, clicks, reloads>>

\* Session storage outlives the page.
Reload ==
  /\ reloads < MaxReload /\ reloads' = reloads + 1
  /\ run' = Idle /\ effect' = Idle
  /\ UNCHANGED <<chain, ops, Storage, clicks, faults>>

Next ==
  \/ \E goal \in {"command", "disconnect"} : Click(goal)
  \/ Resume \/ Validate \/ ReadFails \/ Passkey \/ Refuse
  \/ OpenFamily \/ LobbyCommand \/ SignRevoke
  \/ Post \/ Waited \/ Refused \/ Impatient \/ Finish
  \/ EffectStarts \/ EffectEnds \/ EffectFails \/ Reload
  \/ Expire \/ \E o \in 1..MaxOp : Execute(o)

Spec == Init /\ [][Next]_vars

(***************************************************************************)
(* Properties.                                                             *)
(***************************************************************************)
FamilyTypeOK ==
  /\ family \in 0..MaxOp /\ slot \in 0..Signed /\ gone \subseteq 1..MaxOp
  /\ \A o \in 1..MaxOp : ops[o].status \in {"none", "signed", "queued", "confirmed", "failed"}
  /\ chain.key \in 0..MaxOp /\ run.at # "done" => (Posting => run.op \in 1..Signed)

\* A key the player was told is revoked stays revoked, whichever of the tab's
\* operations the server executes afterwards (disconnectFamily's
\* revocationPending, ArcadeFamily's revisions).
RevokedForGood == chain.key \notin gone \/ chain.key = 0

=============================================================================
