----------------------------- MODULE MCMarketV4 -----------------------------
(***************************************************************************)
(* A small market: one match between two participants, two bettors, a cost *)
(* function as coarse as the real one is at its smallest unit.             *)
(***************************************************************************)
EXTENDS MarketV4, TLC

CONSTANTS p1, p2, p3, p4, m1

MCPayoutIds == {0} \X Matches \X Accounts

\* Convex, and rounded down: the larger side, plus the liquidity when level.
MCCost(a, b, l) == IF a = b THEN a + l ELSE IF a > b THEN a ELSE b

MCPlayerA == [m \in Matches |-> p3]
MCPlayerB == [m \in Matches |-> p4]

\* The two bettors are interchangeable; every checked property is a safety one.
Symmetry == Permutations({p1, p2})
=============================================================================
