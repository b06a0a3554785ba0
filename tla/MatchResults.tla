---------------------------- MODULE MatchResults ----------------------------
(***************************************************************************)
(* What a results contract (interface IMatchResultV2) promises its market: *)
(* the status of a match only moves forward, a winner is named exactly     *)
(* when the match is decided, a decided or cancelled match never changes   *)
(* again, and bets are possible only while the match is live.  GameV3 is   *)
(* shown to implement this specification; MarketV4 is checked and proved   *)
(* against it.                                                             *)
(*                                                                         *)
(* status: 0 none, 1 waiting for both secrets, 2 live, 3 decided,          *)
(* 4 cancelled.  A winner is the side, "A" or "B".                         *)
(***************************************************************************)
EXTENDS Integers

CONSTANT Matches

VARIABLES status, winner, version,
          window   \* bettingWindow: TRUE when a bet at the current version is allowed

resultVars == <<status, winner, version, window>>

NoWinner == "none"
Sides == {"A", "B"}

ResultsTypeOK ==
    /\ status \in [Matches -> 0..4]
    /\ winner \in [Matches -> Sides \cup {NoWinner}]
    /\ version \in [Matches -> Nat]
    /\ window \in [Matches -> BOOLEAN]

ResultsInit ==
    /\ status = [m \in Matches |-> 0]
    /\ winner = [m \in Matches |-> NoWinner]
    /\ version = [m \in Matches |-> 0]
    /\ window = [m \in Matches |-> FALSE]

\* A step of one match: what the new snapshot says of it.
Snapshot(m, s, w, v, open) ==
    /\ status' = [status EXCEPT ![m] = s]
    /\ winner' = [winner EXCEPT ![m] = w]
    /\ version' = [version EXCEPT ![m] = v]
    /\ window' = [window EXCEPT ![m] = open]

Created(m) == status[m] = 0 /\ Snapshot(m, 1, NoWinner, version[m], FALSE)

Started(m) == /\ status[m] = 1
              /\ \E open \in BOOLEAN : Snapshot(m, 2, NoWinner, version[m] + 1, open)

\* Play: an input or a resolved event publishes one or two snapshots; without
\* one, the window may open or close as blocks pass or the game is paused.
Played(m) ==
    /\ status[m] = 2
    /\ \E k \in 0..2, open \in BOOLEAN : Snapshot(m, 2, NoWinner, version[m] + k, open)

Decided(m) ==
    /\ status[m] = 2
    /\ \E w \in Sides : Snapshot(m, 3, w, version[m] + 1, FALSE)

Cancelled(m) ==
    /\ status[m] \in {1, 2}
    /\ \E k \in 0..1 : Snapshot(m, 4, NoWinner, version[m] + k, FALSE)

\* Pausing the game contract, or a new block, moves every window at once.
WindowsMove ==
    /\ window' \in [Matches -> BOOLEAN]
    /\ \A m \in Matches : window'[m] => status[m] = 2
    /\ UNCHANGED <<status, winner, version>>

ResultStep(m) == Created(m) \/ Started(m) \/ Played(m) \/ Decided(m) \/ Cancelled(m)

ResultsNext == (\E m \in Matches : ResultStep(m)) \/ WindowsMove

ResultsSpec == ResultsInit /\ [][ResultsNext]_resultVars
=============================================================================
