-------------------------- MODULE MCTournamentsV4 ---------------------------
(***************************************************************************)
(* One tournament: a pair for a paid prize, or four players for nothing,   *)
(* whose bracket has two rounds.                                           *)
(***************************************************************************)
EXTENDS TournamentsV4

CONSTANTS p1, p2, p3, p4, c1

MCPayoutIds == ({1, 2} \X Tournaments \X Accounts) \cup ({3} \X Tournaments \X {Treasury})

MCFormats == {<<2, 1, 1>>, <<4, 0, 0>>}

\* Every player has deposited one fee before the tournament is created.
MCInit ==
    /\ CupInit
    /\ balances = [p \in Accounts |-> 1] /\ vaultNonces = [p \in Accounts |-> 0]
    /\ totalBalances = Cardinality(Accounts) /\ vaultFunds = totalBalances /\ deposited = totalBalances
    /\ withdrawals = {} /\ now = 0

MCSpec == MCInit /\ [][Next]_vars

\* Bound: the refunds of a free tournament, which move no money, are not followed.
PaidRefunds == \A t \in Tournaments : tournaments[t].fee = 0 => refunded[t] = {}

\* The players are interchangeable; every checked property is a safety one.
Symmetry == Permutations(Accounts)
=============================================================================
