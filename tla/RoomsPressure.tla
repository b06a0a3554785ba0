---------------------------- MODULE RoomsPressure ----------------------------
(***************************************************************************)
(* The pressure bridge of a chaos match: pressure in                       *)
(* relayer/src/rooms-finance.ts, between the betting rounds of the base    *)
(* chain (contracts/src/labs/RoomsMarketAdapter.sol) and the paused engine.*)
(*                                                                         *)
(* Between two rallies the engine waits until the bets of the round are    *)
(* frozen at its closing block and signed over to it.  The reads are       *)
(* separate requests, the base chain may reorganise between any two of     *)
(* them, the worker may stop anywhere, and the process that a release      *)
(* replaces may still be running: two workers share the table il_pressure. *)
(***************************************************************************)
EXTENDS Integers, Sequences, FiniteSets

CONSTANTS Workers,
          MaxRally,
          WindowBlocks,        \* WINDOW_BLOCKS, 40
          ConfirmationBlocks,  \* CONFIRMATION_BLOCKS, 2
          MaxDepth,            \* blocks a reorganisation can replace
          MaxReorgs, MaxRollbacks, MaxStops   \* bounds on faults

VARIABLES
  chain,    \* the canonical blocks: hash, closing block and pause of each round, total paid
  highest,  \* the highest block ever made: what is MaxDepth below it is final
  minted,   \* what was paid in every block ever made, by its hash
  opening,  \* rounds the journal is asked to open
  engine,   \* rally, resumeAt and whether it waits for its pressure
  pub,      \* the pause the base chain has published
  table,    \* il_pressure: the frozen checkpoint of a rally
  signed,   \* every pressure that was signed
  worker,   \* per worker: step and what it has read
  faults    \* reorganisations, engine rollbacks and stops so far

vars == <<chain, highest, minted, opening, engine, pub, table, signed, worker, faults>>

Rallies == 1..MaxRally
None == [resume |-> 0, hash |-> 0, paid |-> 0]
Idle == [at |-> "idle", rally |-> 1, resume |-> 0, src |-> 0, hash |-> 0, paid |-> 0]
NoRound == [close |-> 0, resume |-> 0]

Init ==
  /\ chain = <<[hash |-> 1, rounds |-> [r \in Rallies |-> NoRound], paid |-> 0]>>
  /\ highest = 1 /\ minted = <<0>> /\ opening = {}
  /\ engine = [rally |-> 1, resume |-> 1, paused |-> TRUE]
  /\ pub = [rally |-> 0, resume |-> 0]
  /\ table = [r \in Rallies |-> None] /\ signed = {}
  /\ worker = [w \in Workers |-> Idle]
  /\ faults = [reorgs |-> 0, rollbacks |-> 0, stops |-> 0]

Top == chain[Len(chain)]
Close(r) == Top.rounds[r].close

-----------------------------------------------------------------------------
(* The base chain and the engine. *)

Pause == [rally |-> engine.rally, resume |-> engine.resume]

\* openRound of the published pause.
Opens(r) == r \in opening /\ pub.rally = r /\ Close(r) = 0

\* A block: it may open a round or hold bets of the open one.  Blocks in which
\* no round is opened, open or being confirmed are not counted.
Mine ==
  /\ \/ \E r \in Rallies : Opens(r)
     \/ \E r \in Rallies : Close(r) > 0 /\ Len(chain) < Close(r) + ConfirmationBlocks
  /\ \E bet \in 0..1, r \in {0} \cup {q \in Rallies : Opens(q)} :
       /\ r = 0 => \E q \in Rallies : Close(q) > 0 /\ Len(chain) < Close(q) + ConfirmationBlocks
       /\ bet = 1 => pub.rally # 0 /\ Close(pub.rally) > Len(chain) + 1
       /\ LET number == Len(chain) + 1
              rounds == IF r = 0 THEN Top.rounds
                        ELSE [Top.rounds EXCEPT ![r] = [close |-> number + WindowBlocks, resume |-> pub.resume]]
          IN  chain' = Append(chain, [hash |-> Len(minted) + 1, rounds |-> rounds, paid |-> Top.paid + bet])
       /\ minted' = Append(minted, Top.paid + bet)
       /\ highest' = IF Len(chain) = highest THEN highest + 1 ELSE highest
  /\ UNCHANGED <<opening, engine, pub, table, signed, worker, faults>>

Reorganise ==
  /\ faults.reorgs < MaxReorgs
  /\ \E n \in 1..(Len(chain) - 1) :
       /\ n >= highest - MaxDepth
       /\ chain' = SubSeq(chain, 1, n)
  /\ faults' = [faults EXCEPT !.reorgs = @ + 1]
  /\ UNCHANGED <<highest, minted, opening, engine, pub, table, signed, worker>>

Publish ==
  /\ engine.paused /\ pub # Pause
  /\ pub' = Pause
  /\ UNCHANGED <<chain, highest, minted, opening, engine, table, signed, worker, faults>>

\* The rally is played and the next one waits.
PlayRally ==
  /\ ~engine.paused /\ engine.rally < MaxRally
  /\ engine' = [rally |-> engine.rally + 1, resume |-> engine.resume + 1, paused |-> TRUE]
  /\ UNCHANGED <<chain, highest, minted, opening, pub, table, signed, worker, faults>>

\* A restarted node comes back to the rally with another pause.
RollBack ==
  /\ faults.rollbacks < MaxRollbacks
  /\ engine' = [engine EXCEPT !.resume = @ + 1, !.paused = TRUE]
  /\ faults' = [faults EXCEPT !.rollbacks = @ + 1]
  /\ UNCHANGED <<chain, highest, minted, opening, pub, table, signed, worker>>

-----------------------------------------------------------------------------
(* The worker. *)

Step(w, rec) == worker' = [worker EXCEPT ![w] = rec]

\* checkpointReady: the round of this pause closed and is confirmed.
Ready(r, resume) ==
  Close(r) > 0 /\ Top.rounds[r].resume = resume /\ Len(chain) >= Close(r) + ConfirmationBlocks

\* An observation of the paused engine starts the worker; a round that does not
\* exist is opened, once the base chain shows the very same pause.
Observe(w) ==
  /\ worker[w].at = "idle" /\ engine.paused
  /\ IF Ready(engine.rally, engine.resume)
     THEN /\ Step(w, [Idle EXCEPT !.at = "block", !.rally = engine.rally, !.resume = engine.resume,
                          !.src = Close(engine.rally)])
          /\ UNCHANGED opening
     ELSE /\ Close(engine.rally) = 0 /\ pub = Pause /\ engine.rally \notin opening
          /\ opening' = opening \cup {engine.rally}
          /\ UNCHANGED worker
  /\ UNCHANGED <<chain, highest, minted, engine, pub, table, signed, faults>>

\* The source block a reader asks for; it may be gone after a reorganisation.
Source(w) == worker[w].src
HasSource(w) == Source(w) \in 1..Len(chain)

\* getBlock and the stored row: a frozen round must still have its source.
ReadBlock(w) ==
  /\ worker[w].at = "block"
  /\ LET r == worker[w].rally
         stored == table[r]
         hash == chain[Source(w)].hash
     IN  Step(w, IF ~HasSource(w) THEN Idle
                 ELSE IF stored = None THEN [worker[w] EXCEPT !.at = "paid", !.hash = hash]
                 ELSE IF stored.hash # hash \/ stored.resume # worker[w].resume THEN Idle
                 ELSE [worker[w] EXCEPT !.at = "sign", !.hash = stored.hash, !.paid = stored.paid])
  /\ UNCHANGED <<chain, highest, minted, opening, engine, pub, table, signed, faults>>

\* The totals at the source block.
ReadPaid(w) ==
  /\ worker[w].at = "paid"
  /\ Step(w, IF HasSource(w) THEN [worker[w] EXCEPT !.at = "recheck", !.paid = chain[Source(w)].paid]
             ELSE Idle)
  /\ UNCHANGED <<chain, highest, minted, opening, engine, pub, table, signed, faults>>

\* The source block is read again: it must be the one the totals are of.
SameSource(w) == HasSource(w) /\ chain[Source(w)].hash = worker[w].hash

Recheck(w) ==
  /\ worker[w].at = "recheck"
  /\ Step(w, IF SameSource(w) THEN [worker[w] EXCEPT !.at = "freeze"] ELSE Idle)
  /\ UNCHANGED <<chain, highest, minted, opening, engine, pub, table, signed, faults>>

Computed(w) == [resume |-> worker[w].resume, hash |-> worker[w].hash, paid |-> worker[w].paid]

\* INSERT ... ON CONFLICT DO NOTHING, and the row that is there is the same.
Agrees(w) == table[worker[w].rally] \in {None, Computed(w)}

Freeze(w) ==
  /\ worker[w].at = "freeze"
  /\ table' = IF table[worker[w].rally] = None THEN [table EXCEPT ![worker[w].rally] = Computed(w)] ELSE table
  /\ Step(w, IF Agrees(w) THEN [worker[w] EXCEPT !.at = "sign"] ELSE Idle)
  /\ UNCHANGED <<chain, highest, minted, opening, engine, pub, signed, faults>>

\* Sign and send; the engine takes the pressure of the pause it is in.
Sign(w) ==
  /\ worker[w].at = "sign"
  /\ signed' = signed \cup {[rally |-> worker[w].rally, resume |-> worker[w].resume,
                             hash |-> worker[w].hash, paid |-> worker[w].paid]}
  /\ engine' = IF engine.paused /\ engine.rally = worker[w].rally /\ engine.resume = worker[w].resume
               THEN [engine EXCEPT !.paused = FALSE] ELSE engine
  /\ Step(w, Idle)
  /\ UNCHANGED <<chain, highest, minted, opening, pub, table, faults>>

\* A worker stops, or one of its requests fails.
Stop(w) ==
  /\ worker[w].at # "idle" /\ faults.stops < MaxStops
  /\ Step(w, Idle)
  /\ faults' = [faults EXCEPT !.stops = @ + 1]
  /\ UNCHANGED <<chain, highest, minted, opening, engine, pub, table, signed>>

Works(w) == Observe(w) \/ ReadBlock(w) \/ ReadPaid(w) \/ Recheck(w) \/ Freeze(w) \/ Sign(w)

Next ==
  \/ Mine \/ Reorganise \/ Publish \/ PlayRally \/ RollBack
  \/ \E w \in Workers : Works(w) \/ Stop(w)

Spec == Init /\ [][Next]_vars

\* The chain makes blocks, the engine publishes and the coordinator's cycle
\* observes every match again and again.
PressureFairness ==
  WF_vars(Mine) /\ WF_vars(Publish) /\ \A w \in Workers : WF_vars(Works(w))

-----------------------------------------------------------------------------
(* Properties. *)

PressureTypeOK ==
  /\ engine.rally \in Rallies /\ engine.paused \in BOOLEAN /\ opening \subseteq Rallies
  /\ \A i \in 1..Len(chain) : minted[chain[i].hash] = chain[i].paid
  /\ \A w \in Workers : worker[w].at \in {"idle", "block", "paid", "recheck", "freeze", "sign"}

\* Two different pressures of one rally are never signed, whatever the chain,
\* the engine or the other worker did between the reads.
OneCheckpoint == \A s, t \in signed : s.rally = t.rally => s = t

\* A signed total is what was paid in the very block it names: no pressure
\* mixes the hash of one fork with the bets of another.
PressureIsPaid == \A s \in signed : minted[s.hash] = s.paid

\* A reorganisation no deeper than the confirmations never leaves a match
\* waiting: every pause gets its pressure.
Paused(r) == engine.paused /\ engine.rally = r
PausesEnd == \A r \in Rallies : Paused(r) ~> ~Paused(r)
=============================================================================
