------------------------------ MODULE MarketV4 ------------------------------
(***************************************************************************)
(* contracts/src/v4/MarketV4.sol with the Vault it debits, the             *)
(* NativePayouts it inherits and a results contract that keeps the promise *)
(* of MatchResults.  One action is one transaction, or one signature made  *)
(* by an account.                                                          *)
(*                                                                         *)
(* The LMSR cost function is a parameter: nothing below relies on its      *)
(* shape, because buy() re-checks the collateral after every purchase.     *)
(* setLockout and Book.lockoutUs are abstracted by the results' window,    *)
(* which may open or close at any step of a live match.                    *)
(***************************************************************************)
EXTENDS Vault, NativePayouts, MatchResults

CONSTANTS Cost(_, _, _),   \* IMarketMaker.cost(a, b, liquidity)
          SeedMargin,      \* liquidity / 1e6 + 1e9, in model units
          TradeMargin,     \* liquidity / 1e12 + 1, in model units
          Liquidities,     \* liquidity values inside the maker's domain
          MaxShares,       \* the maker's domain: it reverts above (LMSRV2: 1e27)
          ExtraSeeds,      \* MON an opener may send beyond the seed
          Shares,          \* share amounts inside quote()'s bounds
          CostLimits,      \* limits a bettor may sign
          Bettors,         \* accounts that sign bets
          PlayerA, PlayerB, \* the two participants of each match
          MaxBets,         \* bound: bets ever signed
          MaxVersion       \* bound: match snapshots

ASSUME MarketAssumption ==
    /\ MaxShares \in Nat
    /\ \A a, b \in 0..MaxShares, l \in Liquidities : Cost(a, b, l) \in Nat
    /\ SeedMargin \in Nat /\ TradeMargin \in Nat
    /\ Liquidities \subseteq Nat \ {0} /\ ExtraSeeds \subseteq Nat
    /\ Shares \subseteq Nat /\ CostLimits \subseteq Nat
    /\ Bettors \subseteq Accounts
    /\ MaxBets \in Nat /\ MaxVersion \in Nat
    /\ PayoutIds = {0} \X Matches \X Accounts
    /\ IsFiniteSet(Accounts) /\ IsFiniteSet(Matches)   \* addresses and ids are words

VARIABLES books,         \* MarketV4.books (the field reclaimed is never written)
          positions,     \* MarketV4.positions
          paidBySide,    \* MarketV4.paidBySide, read by the game as pressure
          betNonces,     \* MarketV4.nonces
          bets,          \* bets signed so far; anyone may submit one, twice
          marketPaused,  \* Pausable
          marketFunds    \* native balance of the market contract

marketVars == <<books, positions, paidBySide, betNonces, bets, marketPaused, marketFunds>>
vars == <<vaultVars, payoutVars, resultVars, marketVars>>

Book == [a : 0..MaxShares, b : 0..MaxShares, liquidity : Liquidities \cup {0},
         reserve : Nat, totalPaid : Nat]
Position == [a : Nat, b : Nat, paid : Nat, claimed : BOOLEAN]
Bet == [player : Accounts, match : Matches, side : Sides, shares : Nat, maxCost : Nat,
        version : Nat, nonce : Nat, deadline : 0..MaxTime]

NoBook == [a |-> 0, b |-> 0, liquidity |-> 0, reserve |-> 0, totalPaid |-> 0]
NoPosition == [a |-> 0, b |-> 0, paid |-> 0, claimed |-> FALSE]

\* Type invariant of the market's own storage and of everything it shares.
TypeOK ==
    /\ VaultTypeOK /\ PayoutTypeOK /\ ResultsTypeOK
    /\ books \in [Matches -> Book]
    /\ positions \in [Matches -> [Accounts -> Position]]
    /\ paidBySide \in [Matches -> [Sides -> Nat]]
    /\ betNonces \in [Accounts -> Nat]
    /\ bets \subseteq Bet
    /\ marketPaused \in BOOLEAN
    /\ marketFunds \in Nat

Init ==
    /\ VaultInit /\ PayoutInit /\ ResultsInit
    /\ books = [m \in Matches |-> NoBook]
    /\ positions = [m \in Matches |-> [p \in Accounts |-> NoPosition]]
    /\ paidBySide = [m \in Matches |-> [s \in Sides |-> 0]]
    /\ betNonces = [p \in Accounts |-> 0]
    /\ bets = {}
    /\ marketPaused = FALSE
    /\ marketFunds = 0

-----------------------------------------------------------------------------

SetPaused ==
    /\ marketPaused' = ~marketPaused
    /\ UNCHANGED <<vaultVars, payoutVars, resultVars, books, positions, paidBySide,
                   betNonces, bets, marketFunds>>

\* open: once per match, before it is settled, with the seed the maker asks for.
Open(m, liquidity, value) ==
    /\ ~marketPaused
    /\ status[m] \in {1, 2}
    /\ books[m].liquidity = 0
    /\ value >= Cost(0, 0, liquidity) + SeedMargin
    /\ books' = [books EXCEPT ![m] =
           [a |-> 0, b |-> 0, liquidity |-> liquidity, reserve |-> value, totalPaid |-> 0]]
    /\ marketFunds' = marketFunds + value
    /\ UNCHANGED <<vaultVars, payoutVars, resultVars, positions, paidBySide, betNonces,
                   bets, marketPaused>>

\* The part of a purchase that falls on side x.
On(x, side, shares) == IF side = x THEN shares ELSE 0

\* quote: the cost difference, never negative, plus the per-trade margin.
Quote(bk, side, shares) ==
    LET before == Cost(bk.a, bk.b, bk.liquidity)
        after  == Cost(bk.a + On("A", side, shares), bk.b + On("B", side, shares), bk.liquidity)
    IN  (IF after > before THEN after - before ELSE 0) + TradeMargin

\* A bettor signs what the current snapshot shows, under a cost limit.
SignBet(p, m, side, shares, limit, deadline) ==
    /\ Cardinality(bets) < MaxBets
    /\ bets' = bets \cup
           {[player |-> p, match |-> m, side |-> side, shares |-> shares, maxCost |-> limit,
             version |-> version[m], nonce |-> betNonces[p], deadline |-> deadline]}
    /\ UNCHANGED <<vaultVars, payoutVars, resultVars, books, positions, paidBySide,
                   betNonces, marketPaused, marketFunds>>

\* The book and the position after a purchase.
Bought(bk, side, shares, amount) ==
    [a |-> bk.a + On("A", side, shares), b |-> bk.b + On("B", side, shares),
     liquidity |-> bk.liquidity, reserve |-> bk.reserve + amount,
     totalPaid |-> bk.totalPaid + amount]
Held(pos, side, shares, amount) ==
    [a |-> pos.a + On("A", side, shares), b |-> pos.b + On("B", side, shares),
     paid |-> pos.paid + amount, claimed |-> pos.claimed]

\* The collateral a book must keep after every purchase.
Collateralised(bk) == bk.reserve >= bk.a /\ bk.reserve >= bk.b /\ bk.reserve >= bk.totalPaid

\* Mutant: an accepted bet can be submitted again.
KeepNonce(p) == UNCHANGED betNonces

\* The bettor's nonce, consumed by an accepted bet.
UseNonce(p) == betNonces' = [betNonces EXCEPT ![p] = @ + 1]

\* buy: a signed bet, at the snapshot it was signed for, paid from the vault.
Buy(o) ==
    LET bk == books[o.match]
        amount == Quote(bk, o.side, o.shares)
        after == Bought(bk, o.side, o.shares, amount)
    IN  /\ ~marketPaused
        /\ o.player # PlayerA[o.match] /\ o.player # PlayerB[o.match]
        /\ window[o.match] /\ version[o.match] = o.version
        /\ o.deadline >= now /\ o.nonce = betNonces[o.player]
        /\ bk.liquidity > 0
        /\ after.a <= MaxShares /\ after.b <= MaxShares
        /\ amount <= o.maxCost
        /\ Collateralised(after)
        /\ books' = [books EXCEPT ![o.match] = after]
        /\ positions' = [positions EXCEPT ![o.match][o.player] =
               Held(@, o.side, o.shares, amount)]
        /\ paidBySide' = [paidBySide EXCEPT ![o.match][o.side] = @ + amount]
        /\ UseNonce(o.player)
        /\ Debit(o.player, amount)
        /\ marketFunds' = marketFunds + amount
        /\ UNCHANGED <<payoutVars, resultVars, bets, marketPaused>>

Settled(m) == status[m] \in {3, 4}

\* Mutant: the market counts the losing side as its debt.
OtherSideLiability(m) ==
    IF status[m] = 4 THEN books[m].totalPaid ELSE IF winner[m] = "A" THEN books[m].b ELSE books[m].a

\* What a position is worth once its match is settled; the same choice over a
\* book is what the market owes.
Due(m, bk) == IF winner[m] = "A" THEN bk.a ELSE bk.b
PayoutOf(m, pos) == IF status[m] = 4 THEN pos.paid ELSE Due(m, pos)
Liability(m) == IF status[m] = 4 THEN books[m].totalPaid ELSE Due(m, books[m])

\* The checked subtractions of claim: each would revert on underflow.
ClaimFits(m, pos) ==
    /\ books[m].a >= pos.a /\ books[m].b >= pos.b
    /\ books[m].totalPaid >= pos.paid
    /\ books[m].reserve >= PayoutOf(m, pos)

\* Mutant: a claim leaves the losing shares in the book.
ClaimWinningSide(bk, pos, amount) ==
    [a |-> bk.a - (IF amount = pos.a THEN pos.a ELSE 0),
     b |-> bk.b - (IF amount = pos.b THEN pos.b ELSE 0), liquidity |-> bk.liquidity,
     reserve |-> bk.reserve - amount, totalPaid |-> bk.totalPaid - pos.paid]

\* The book after a claim.
ClaimBook(bk, pos, amount) ==
    [a |-> bk.a - pos.a, b |-> bk.b - pos.b, liquidity |-> bk.liquidity,
     reserve |-> bk.reserve - amount, totalPaid |-> bk.totalPaid - pos.paid]

\* claim: permissionless; pays the position's owner, once, whatever the outcome.
Claim(m, p, accepted) ==
    LET pos == positions[m][p]
        amount == PayoutOf(m, pos)
    IN  /\ Settled(m) /\ ~pos.claimed /\ pos.paid > 0
        /\ ClaimFits(m, pos)
        /\ accepted => marketFunds >= amount
        /\ positions' = [positions EXCEPT ![m][p] = [@ EXCEPT !.claimed = TRUE]]
        /\ books' = [books EXCEPT ![m] = ClaimBook(@, pos, amount)]
        /\ SchedulePayout(<<0, m, p>>, amount, accepted)
        /\ marketFunds' = IF accepted THEN marketFunds - amount ELSE marketFunds
        /\ UNCHANGED <<vaultVars, resultVars, paidBySide, betNonces, bets, marketPaused>>

Retry(id, accepted) ==
    /\ RetryPayout(id, accepted)
    /\ accepted => marketFunds >= payouts[id].amount
    /\ marketFunds' = IF accepted THEN marketFunds - payouts[id].amount ELSE marketFunds
    /\ UNCHANGED <<vaultVars, resultVars, books, positions, paidBySide, betNonces, bets,
                   marketPaused>>

\* Mutant: the treasury takes the whole reserve.
ReclaimAll(m) ==
    /\ Settled(m)
    /\ marketFunds >= books[m].reserve
    /\ books' = [books EXCEPT ![m] = [@ EXCEPT !.reserve = 0]]
    /\ marketFunds' = marketFunds - books[m].reserve
    /\ UNCHANGED <<vaultVars, payoutVars, resultVars, positions, paidBySide, betNonces,
                   bets, marketPaused>>

\* reclaim: the treasury takes what no outstanding position can claim.
Reclaim(m) ==
    /\ Settled(m)
    /\ books[m].reserve >= Liability(m)
    /\ marketFunds >= books[m].reserve - Liability(m)
    /\ books' = [books EXCEPT ![m] = [@ EXCEPT !.reserve = Liability(m)]]
    /\ marketFunds' = marketFunds - (books[m].reserve - Liability(m))
    /\ UNCHANGED <<vaultVars, payoutVars, resultVars, positions, paidBySide, betNonces,
                   bets, marketPaused>>

-----------------------------------------------------------------------------

VaultStep == VaultNext /\ UNCHANGED <<payoutVars, resultVars, marketVars>>

GameStep ==
    /\ ResultsNext
    /\ \A m \in Matches : version'[m] <= MaxVersion
    /\ UNCHANGED <<vaultVars, payoutVars, marketVars>>

OpenStep == \E m \in Matches, l \in Liquidities, extra \in ExtraSeeds :
                Open(m, l, Cost(0, 0, l) + SeedMargin + extra)

SignStep == \E p \in Bettors, m \in Matches, side \in Sides, n \in Shares,
               limit \in CostLimits, d \in now..MaxTime : SignBet(p, m, side, n, limit, d)

BuyStep == \E o \in bets : Buy(o)
ClaimStep == \E m \in Matches, p \in Accounts, ok \in BOOLEAN : Claim(m, p, ok)
RetryStep == \E id \in PayoutIds, ok \in BOOLEAN : Retry(id, ok)
ReclaimStep == \E m \in Matches : Reclaim(m)

Next == \/ VaultStep \/ GameStep \/ SetPaused \/ OpenStep \/ SignStep \/ BuyStep
        \/ ClaimStep \/ RetryStep \/ ReclaimStep

Spec == Init /\ [][Next]_vars

-----------------------------------------------------------------------------
(* Properties. *)

\* Whatever the outcome of a match, its reserve covers what it still owes:
\* both sides and a full refund while it is open, the actual outcome after.
\* A purchase, a claim or a treasury reclaim in any order must preserve it.
Covered ==
    \A m \in Matches :
        /\ status[m] \in 0..2 => Collateralised(books[m])
        /\ Settled(m) => books[m].reserve >= Liability(m)

Unclaimed(m) == {p \in Accounts : ~positions[m][p].claimed}
SumOver(S, f(_)) == SumFunction([x \in S |-> f(x)])

\* The running totals of a book are exactly its unclaimed positions, and the
\* betting pressure the game reads is every accepted cost, claimed or not.
BooksMatchPositions ==
    \A m \in Matches :
        /\ books[m].a = SumOver(Unclaimed(m), LAMBDA p : positions[m][p].a)
        /\ books[m].b = SumOver(Unclaimed(m), LAMBDA p : positions[m][p].b)
        /\ books[m].totalPaid = SumOver(Unclaimed(m), LAMBDA p : positions[m][p].paid)
        /\ SumFunction(paidBySide[m]) = SumOver(Accounts, LAMBDA p : positions[m][p].paid)

\* No MON appears or disappears: the market holds its reserves plus the
\* pending debts, the debts are those recorded, and the vault holds the credit.
Conservation ==
    /\ marketFunds = SumOver(Matches, LAMBDA m : books[m].reserve) + totalPendingPayouts
    /\ totalPendingPayouts =
           SumOver({id \in PayoutIds : payouts[id].status = 1}, LAMBDA id : payouts[id].amount)
    /\ vaultFunds = totalBalances /\ totalBalances = SumFunction(balances)

\* A settled, unclaimed position can always be claimed: no underflow, no
\* colliding payout id and enough MON, after any reclaim and other claims; and
\* a pending debt stays payable.
ClaimNeverBlocked ==
    /\ \A m \in Matches, p \in Accounts :
           (Settled(m) /\ ~positions[m][p].claimed /\ positions[m][p].paid > 0)
               => /\ ClaimFits(m, positions[m][p])
                  /\ payouts[<<0, m, p>>].status = 0
                  /\ marketFunds >= PayoutOf(m, positions[m][p])
    /\ \A id \in PayoutIds :
           payouts[id].status = 1 => /\ marketFunds >= payouts[id].amount
                                     /\ totalPendingPayouts >= payouts[id].amount

\* However often and in whatever order signed orders are submitted, an account
\* is never charged more than the limits it signed, each counted once, and
\* never withdraws more than it signed for.
WithinSignedLimits ==
    /\ \A p \in Accounts :
           SumOver(Matches, LAMBDA m : positions[m][p].paid)
               <= SumOver({o \in bets : o.player = p}, LAMBDA o : o.maxCost)
    /\ deposited - vaultFunds - SumOver(Matches, LAMBDA m : SumFunction(paidBySide[m]))
           <= SumOver(withdrawals, LAMBDA o : o.amount)

\* What one step may do to the recorded debts.
DebtsKept ==
    \A id \in PayoutIds :
        /\ payouts[id].status = 2 => payouts'[id] = payouts[id]
        /\ payouts[id].status = 1 => /\ payouts'[id].status \in {1, 2}
                                     /\ payouts'[id].amount = payouts[id].amount

\* A debt never changes amount and a paid one is never touched again: no retry
\* redirects, resizes or repeats a payment.
PayoutsFixed == [][DebtsKept]_payouts
=============================================================================
