------------------------- MODULE IndependentArenas -------------------------
(***************************************************************************)
(* The arenas of the independent arcade: the lobby contract assigns an     *)
(* accepted proposal to a released arena, the arena is delegated to an     *)
(* engine for one match, its result is captured in the published ratings   *)
(* as soon as a batch shows it, possibly corrected by a challenge, and     *)
(* made final when the delegation is released.  The relayer observes each  *)
(* arena and queues the permissionless call that moves it on               *)
(* (relayer/src/independent-service.ts; contracts/src/independent).        *)
(*                                                                         *)
(* Queued calls are executed later, in any order, against the state they   *)
(* then find; a call whose requirements fail reverts and changes nothing.  *)
(* The hub and the engines are external: a delegation is none, active,     *)
(* closing or challenged, and batches publish the match to the base chain. *)
(***************************************************************************)
EXTENDS Naturals, FiniteSets, Sequences

CONSTANTS Matches,       \* proposal numbers, 1..N
          Arenas,        \* arena numbers in the lobby's order
          MaxChallenge,  \* challenges that change a published batch
          MaxQueue,      \* calls the sponsor's queue holds (two hundred)
          Budget         \* entries a rebuild call applies (thirty-two)

VARIABLES proposal,  \* 0 none, 2 accepted, 3 finished
          arenaOf,   \* lobby.arenaOf, 0 when unassigned
          binding,   \* arena.boundMatch: match and epoch, epoch 0 before opening
          hub,       \* delegation status, epochs used, a batch exists, silence and expiry
          live,      \* the engine's result: "playing", "A" or "B"
          pub,       \* the result the arena shows on the base chain
          ledger,    \* PublishedRatings.entries
          gen,       \* generation, buildGeneration and cursor
          applied,   \* results applied to each generation, in order
          ops,       \* calls queued by the relayer
          granted,   \* matches whose players' grants are still the accepted ones
          challenges

vars == <<proposal, arenaOf, binding, hub, live, pub, ledger, gen, applied, ops, granted, challenges>>

Terminal == {"A", "B", "void"}
Gens == 1..(2 * MaxChallenge + 2)
Index(id) == {i \in DOMAIN ledger : ledger[i].id = id}
Entry(id) == ledger[CHOOSE i \in Index(id) : TRUE]
Final(id) == Index(id) # {} /\ Entry(id).final

Init ==
  /\ proposal = [m \in Matches |-> 0]
  /\ arenaOf = [m \in Matches |-> 0]
  /\ binding = [a \in Arenas |-> [id |-> 0, epoch |-> 0]]
  /\ hub = [a \in Arenas |-> [status |-> "none", epoch |-> 0, batch |-> FALSE,
                            silent |-> FALSE, expired |-> FALSE]]
  /\ live = [a \in Arenas |-> "playing"]
  /\ pub = [a \in Arenas |-> "playing"]
  /\ ledger = <<>>
  /\ gen = [now |-> 1, build |-> 0, cursor |-> 0]
  /\ applied = [g \in Gens |-> <<>>]
  /\ ops = {}
  /\ granted = Matches
  /\ challenges = 0

(***************************************************************************)
(* PublishedRatings: publish, reconcile and rebuild.                       *)
(***************************************************************************)
\* What _apply counts of a run of entries: the decided ones, in order.
Counted(entries) ==
  SelectSeq([i \in DOMAIN entries |-> <<entries[i].id, entries[i].latest>>],
            LAMBDA r : r[2] \in {"A", "B"})

Publish(id, r, final) ==
  \E e \in {[id |-> id, first |-> r, latest |-> r, final |-> final]} :
    /\ ledger' = Append(ledger, e)
    /\ applied' = IF gen.build = 0 THEN [applied EXCEPT ![gen.now] = @ \o Counted(<<e>>)] ELSE applied
    /\ UNCHANGED gen

\* A correction starts a generation of its own.
Restarted == [gen EXCEPT !.build = IF @ = 0 THEN gen.now + 1 ELSE @ + 1, !.cursor = 0]

Corrected(e, r, final) == [e EXCEPT !.latest = r, !.final = @ \/ final]

Reconcile(id, r, final) ==
  /\ Entry(id).final => Entry(id).latest = r
  /\ ledger' = [i \in DOMAIN ledger |->
                  IF ledger[i].id = id THEN Corrected(ledger[i], r, final) ELSE ledger[i]]
  /\ gen' = IF Entry(id).latest = r THEN gen ELSE Restarted
  /\ UNCHANGED applied

Rebuild ==
  /\ gen.build > 0
  /\ \E end \in {IF gen.cursor + Budget > Len(ledger) THEN Len(ledger) ELSE gen.cursor + Budget} :
       /\ applied' = [applied EXCEPT ![gen.build] = @ \o Counted(SubSeq(ledger, gen.cursor + 1, end))]
       /\ gen' = IF end = Len(ledger) THEN [now |-> gen.build, build |-> 0, cursor |-> end]
                                      ELSE [gen EXCEPT !.cursor = end]
  /\ UNCHANGED <<proposal, arenaOf, binding, hub, live, pub, ledger, ops, granted, challenges>>

(***************************************************************************)
(* IndependentLobby and IndependentArena, one definition per call.         *)
(***************************************************************************)
ledgerVars == <<ledger, gen, applied>>

\* Mutant: a closed delegation is enough to give the arena to the next match.
FreeWhenClosed(a) == hub[a].status = "none" /\ (binding[a].id # 0 => binding[a].epoch # 0)
\* _idle: never used, cancelled before opening, or its result is final.
Free(a) ==
  /\ hub[a].status = "none"
  /\ \/ binding[a].id = 0
     \/ binding[a].id # 0 /\ binding[a].epoch = 0 /\ proposal[binding[a].id] = 3
     \/ binding[a].id # 0 /\ binding[a].epoch # 0 /\ Final(binding[a].id)

Waiting == {m \in Matches : proposal[m] = 2 /\ arenaOf[m] = 0}

AssignNext ==
  \E m \in Waiting, a \in Arenas :
    /\ m \in granted /\ \A n \in Waiting : m <= n
    /\ Free(a) /\ \A b \in Arenas : Free(b) => a <= b
    /\ binding' = [binding EXCEPT ![a] = [id |-> m, epoch |-> 0]]
    /\ arenaOf' = [arenaOf EXCEPT ![m] = a]
    /\ pub' = [pub EXCEPT ![a] = "playing"] /\ live' = [live EXCEPT ![a] = "playing"]
    /\ UNCHANGED <<proposal, hub, ledgerVars>>

OpenArena(m) ==
  \E a \in {arenaOf[m]} \ {0} :
    /\ binding[a] = [id |-> m, epoch |-> 0] /\ proposal[m] = 2 /\ hub[a].status = "none"
    /\ m \in granted
    /\ hub' = [hub EXCEPT ![a] = [status |-> "active", epoch |-> @.epoch + 1, batch |-> FALSE,
                            silent |-> FALSE, expired |-> FALSE]]
    /\ binding' = [binding EXCEPT ![a].epoch = hub[a].epoch + 1]
    /\ UNCHANGED <<proposal, arenaOf, live, pub, ledgerVars>>

\* capture: publish a result, or reconcile the one already published.
Capture(m) ==
  \E a \in {arenaOf[m]} \ {0} :
  \E final \in {hub[a].status = "none"} :
  \E r \in {IF final /\ pub[a] = "playing" THEN "void" ELSE pub[a]} :
    /\ binding[a].id = m /\ binding[a].epoch > 0
    /\ hub[a].status # "challenged"
    /\ final \/ hub[a].batch
    /\ pub' = [pub EXCEPT ![a] = r]
    /\ \/ /\ Index(m) = {} /\ r \in Terminal
          /\ Publish(m, r, final)
          /\ proposal' = [proposal EXCEPT ![m] = 3]
       \/ /\ Index(m) # {}
          /\ Reconcile(m, r, final)
          /\ UNCHANGED proposal

CaptureResult(m) == Capture(m) /\ UNCHANGED <<arenaOf, binding, hub, live>>

Closing(a) == hub' = [hub EXCEPT ![a].status = "closing"]

CloseArena(m) ==
  /\ Capture(m)
  /\ hub[arenaOf[m]].status = "active"
  /\ pub[arenaOf[m]] \in Terminal \/ hub[arenaOf[m]].expired
  /\ Closing(arenaOf[m])
  /\ UNCHANGED <<arenaOf, binding, live>>

RecoverExpired(m) ==
  \E a \in {arenaOf[m]} \ {0} :
    /\ binding[a].id = m /\ hub[a].status = "active" /\ hub[a].expired
    /\ Closing(a)
    /\ UNCHANGED <<proposal, arenaOf, binding, live, pub, ledgerVars>>

\* The grants of the players lapsed, or 180 seconds passed without an engine.
CancelUnopened(m) ==
  /\ proposal[m] = 2
  /\ \A a \in {arenaOf[m]} \ {0} : binding[a] = [id |-> m, epoch |-> 0] /\ hub[a].status = "none"
  /\ proposal' = [proposal EXCEPT ![m] = 3]
  /\ UNCHANGED <<arenaOf, binding, hub, live, pub, ledgerVars>>

\* hub.releaseStake after the challenge period; hub.forceClose after silence.
ReleaseStake(a) ==
  /\ hub[a].status = "closing"
  /\ hub' = [hub EXCEPT ![a].status = "none"]
  /\ UNCHANGED <<proposal, arenaOf, binding, live, pub, ledgerVars>>

ForceClose(a) ==
  /\ hub[a].status = "active" /\ hub[a].silent
  /\ Closing(a)
  /\ UNCHANGED <<proposal, arenaOf, binding, live, pub, ledgerVars>>

Call(op) ==
  CASE op[1] = "assign"  -> AssignNext
    [] op[1] = "open"    -> OpenArena(op[2])
    [] op[1] = "capture" -> CaptureResult(op[2])
    [] op[1] = "close"   -> CloseArena(op[2])
    [] op[1] = "recover" -> RecoverExpired(op[2])
    [] op[1] = "cancel"  -> CancelUnopened(op[2])
    [] op[1] = "release" -> ReleaseStake(op[2])
    [] op[1] = "force"   -> ForceClose(op[2])

baseVars == <<proposal, arenaOf, binding, hub, live, pub, ledgerVars>>

\* The sponsor executes a queued call, or its simulation retires it.
Execute(op) ==
  /\ op \in ops
  /\ Call(op) \/ (~ENABLED Call(op) /\ UNCHANGED baseVars)
  /\ ops' = ops \ {op}
  /\ UNCHANGED <<granted, challenges>>

(***************************************************************************)
(* The relayer: admission and observeArena queue the next call, which the  *)
(* writer admits only when its simulation succeeds.                        *)
(***************************************************************************)
Queue(op) ==
  /\ op \notin ops /\ Cardinality(ops) < MaxQueue
  /\ ENABLED Call(op)
  /\ ops' = ops \cup {op}
  /\ UNCHANGED <<baseVars, granted, challenges>>

Admission == Waiting # {} /\ \E op \in {<<"assign", 0>>} \cup {<<"cancel", m>> : m \in Waiting} : Queue(op)

\* What observeArena asks for, given what it read of an arena.
Wanted(a) ==
  LET m == binding[a].id
      d == hub[a]
  IN CASE m = 0 \/ d.status = "challenged" -> {}
       [] m # 0 /\ d.status = "none" /\ binding[a].epoch # 0 ->
            IF Final(m) THEN {} ELSE {<<"capture", m>>}
       [] m # 0 /\ d.status = "none" /\ binding[a].epoch = 0 ->
            IF proposal[m] = 2 THEN {<<"open", m>>, <<"cancel", m>>} ELSE {}
       [] m # 0 /\ d.status = "closing" ->
            {<<"release", a>>} \cup (IF Index(m) # {} /\ Entry(m).latest # pub[a] THEN {<<"capture", m>>} ELSE {})
       [] m # 0 /\ d.status = "active" ->
            CASE pub[a] \in Terminal /\ d.batch -> {<<"close", m>>}
              [] d.silent -> {<<"force", a>>}
              [] d.expired -> {<<"recover", m>>}
              [] OTHER -> {}

ObserveArena(a) == \E op \in Wanted(a) : Queue(op)

(***************************************************************************)
(* Players, engines, the hub and its challengers.                          *)
(***************************************************************************)
Accepted == {m \in Matches : proposal[m] = 2}

\* Both players accept a proposal; the lobby has two slots.
Propose ==
  /\ Cardinality(Accepted) < 2
  /\ \E m \in Matches :
       /\ proposal[m] = 0 /\ \A n \in 1..(m - 1) : proposal[n] # 0
       /\ proposal' = [proposal EXCEPT ![m] = 2]
  /\ UNCHANGED <<arenaOf, binding, hub, live, pub, ledgerVars, ops, granted, challenges>>

RevokeGrant ==
  /\ \E m \in granted : proposal[m] = 2 /\ granted' = granted \ {m}
  /\ UNCHANGED <<baseVars, ops, challenges>>

EnginePlays(a) ==
  /\ hub[a].status = "active" /\ live[a] = "playing"
  /\ \E r \in {"A", "B"} : live' = [live EXCEPT ![a] = r]
  /\ UNCHANGED <<proposal, arenaOf, binding, hub, pub, ledgerVars, ops, granted, challenges>>

PublishBatch(a) ==
  /\ hub[a].status = "active" /\ (pub[a] # live[a] \/ ~hub[a].batch \/ hub[a].silent)
  /\ hub' = [hub EXCEPT ![a].batch = TRUE, ![a].silent = FALSE]
  /\ pub' = [pub EXCEPT ![a] = live[a]]
  /\ UNCHANGED <<proposal, arenaOf, binding, live, ledgerVars, ops, granted, challenges>>

\* The hub's batch interval passes; it is longer than the service takes to
\* observe an expired delegation, so no interval starts after the expiry.
Silence(a) ==
  /\ hub[a].status = "active" /\ ~hub[a].silent /\ ~hub[a].expired
  /\ hub' = [hub EXCEPT ![a].silent = TRUE]
  /\ UNCHANGED <<proposal, arenaOf, binding, live, pub, ledgerVars, ops, granted, challenges>>

Expire(a) ==
  /\ hub[a].status = "active" /\ ~hub[a].expired
  /\ hub' = [hub EXCEPT ![a].expired = TRUE]
  /\ UNCHANGED <<proposal, arenaOf, binding, live, pub, ledgerVars, ops, granted, challenges>>

Challenge(a) ==
  /\ challenges < MaxChallenge
  /\ hub[a].status = "closing" /\ hub[a].batch
  /\ hub' = [hub EXCEPT ![a].status = "challenged"]
  /\ challenges' = challenges + 1
  /\ UNCHANGED <<proposal, arenaOf, binding, live, pub, ledgerVars, ops, granted>>

\* The challenged batch stands, or is replaced by what the rules give.
Resolve(a) ==
  /\ hub[a].status = "challenged"
  /\ hub' = [hub EXCEPT ![a].status = "closing"]
  /\ \E r \in {"playing", "A", "B"} : pub' = [pub EXCEPT ![a] = r]
  /\ UNCHANGED <<proposal, arenaOf, binding, live, ledgerVars, ops, granted, challenges>>

\* capture is permissionless: anyone may call it.
AnyoneCaptures(m) == CaptureResult(m) /\ UNCHANGED <<ops, granted, challenges>>

Calls == {<<"assign", 0>>}
         \cup {"open", "capture", "close", "recover", "cancel"} \X Matches
         \cup {"release", "force"} \X Arenas

Next ==
  \/ Admission \/ Rebuild \/ Propose \/ RevokeGrant
  \/ \E op \in Calls : Execute(op)
  \/ \E a \in Arenas : ObserveArena(a) \/ EnginePlays(a) \/ PublishBatch(a) \/ Silence(a)
                        \/ Expire(a) \/ Challenge(a) \/ Resolve(a)
  \/ \E m \in Matches : AnyoneCaptures(m)

Spec == Init /\ [][Next]_vars

\* The service's timers run, the sponsor drains its queue, delegations expire
\* and reviews end.  Nothing is assumed of the engines or of the players.
ArenaFairness ==
  /\ WF_vars(Rebuild)
  /\ \A op \in Calls : WF_vars(Execute(op))
  /\ \A a \in Arenas : WF_vars(ObserveArena(a)) /\ WF_vars(Expire(a)) /\ WF_vars(Resolve(a))

(***************************************************************************)
(* Properties.                                                             *)
(***************************************************************************)
ArenasTypeOK ==
  /\ proposal \in [Matches -> {0, 2, 3}]
  /\ arenaOf \in [Matches -> Arenas \cup {0}]
  /\ pub \in [Arenas -> Terminal \cup {"playing"}]
  /\ gen.build \in {0} \cup Gens /\ gen.now \in Gens
  /\ ops \subseteq Calls

\* The generation players are rated by has counted each decided result of
\* the ledger once, in order, as last corrected: neither a result published
\* during a rebuild nor a correction in the middle of one is missed or
\* counted twice (PublishedRatings publish, reconcile and rebuild).
LedgerCurrent == gen.build = 0 => applied[gen.now] = Counted(ledger)

\* The first captured result, by which IndependentSettlement pays bets, is
\* never replaced by a correction, and a final entry never changes at all.
FirstResultStands ==
  [][\A i \in DOMAIN ledger :
       /\ ledger'[i].first = ledger[i].first
       /\ ledger[i].final => ledger'[i] = ledger[i]]_vars

\* An arena that opened for a match is given to no other before the match's
\* result is final: afterwards capture could no longer correct it.
FinalBeforeReuse ==
  \A m \in Matches :
    (arenaOf[m] # 0 /\ binding[arenaOf[m]].id # m /\ Index(m) # {}) => Final(m)

\* A bound arena is eventually free again, through publication, silence,
\* expiry, challenge or cancellation, whatever its engine does.
Bound(a) == binding[a].id # 0
ArenasReturn == \A a \in Arenas : Bound(a) ~> Free(a)
=============================================================================
