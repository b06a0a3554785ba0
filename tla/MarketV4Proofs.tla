--------------------------- MODULE MarketV4Proofs ---------------------------
(***************************************************************************)
(* Proofs about MarketV4 for every number of accounts and matches, every   *)
(* cost function and every bound: its storage is well typed, its reserves  *)
(* cover what it owes, its books are its positions, no MON appears or      *)
(* disappears, no claim is blocked and no signed limit is exceeded.        *)
(***************************************************************************)
EXTENDS MarketV4, RunningTotals

\* What the market needs to know of the results contract: bets are possible
\* only while the match is live.
WindowOnlyLive == \A m \in Matches : window[m] => status[m] = 2

\* The inductive invariant.  Covered alone is not inductive: a purchase must
\* not reach a settled book, which is what WindowOnlyLive says.
IInv == TypeOK /\ WindowOnlyLive /\ Covered

-----------------------------------------------------------------------------
(* Facts about single steps of the parts. *)

\* A new snapshot of one match keeps the results well typed.
LEMMA SnapshotTypes ==
    ASSUME ResultsTypeOK, NEW m \in Matches, NEW s \in 0..4, NEW w \in Sides \cup {NoWinner},
           NEW v \in Nat, NEW open \in BOOLEAN, Snapshot(m, s, w, v, open)
    PROVE  ResultsTypeOK'
BY DEF ResultsTypeOK, Snapshot

\* So does every step of the results contract.
LEMMA ResultsStepTypes == ResultsTypeOK /\ ResultsNext => ResultsTypeOK'
<1> SUFFICES ASSUME ResultsTypeOK, ResultsNext PROVE ResultsTypeOK'
    OBVIOUS
<1>1. ASSUME NEW m \in Matches, ResultStep(m) PROVE ResultsTypeOK'
    <2>0. version[m] \in Nat
        BY DEF ResultsTypeOK
    <2>1. CASE Created(m)
        <3>1. Snapshot(m, 1, NoWinner, version[m], FALSE)
            BY <2>1 DEF Created
        <3>2. 1 \in 0..4
            OBVIOUS
        <3>3. QED
            BY <2>0, <3>1, <3>2, SnapshotTypes
    <2>2. CASE Started(m)
        <3>1. PICK open \in BOOLEAN : Snapshot(m, 2, NoWinner, version[m] + 1, open)
            BY <2>2 DEF Started
        <3>2. version[m] + 1 \in Nat /\ 2 \in 0..4
            BY <2>0
        <3>3. QED
            BY <3>1, <3>2, SnapshotTypes
    <2>3. CASE Played(m)
        <3>1. PICK k \in 0..2, open \in BOOLEAN : Snapshot(m, 2, NoWinner, version[m] + k, open)
            BY <2>3 DEF Played
        <3>2. version[m] + k \in Nat /\ 2 \in 0..4
            BY <2>0
        <3>3. QED
            BY <3>1, <3>2, SnapshotTypes
    <2>4. CASE Decided(m)
        <3>1. PICK w \in Sides : Snapshot(m, 3, w, version[m] + 1, FALSE)
            BY <2>4 DEF Decided
        <3>2. version[m] + 1 \in Nat /\ 3 \in 0..4
            BY <2>0
        <3>3. QED
            BY <3>1, <3>2, SnapshotTypes
    <2>5. CASE Cancelled(m)
        <3>1. PICK k \in 0..1 : Snapshot(m, 4, NoWinner, version[m] + k, FALSE)
            BY <2>5 DEF Cancelled
        <3>2. version[m] + k \in Nat /\ 4 \in 0..4
            BY <2>0
        <3>3. QED
            BY <3>1, <3>2, SnapshotTypes
    <2>6. QED
        BY <1>1, <2>1, <2>2, <2>3, <2>4, <2>5 DEF ResultStep
<1>2. CASE WindowsMove
    BY <1>2 DEF WindowsMove, ResultsTypeOK
<1>3. QED
    BY <1>1, <1>2 DEF ResultsNext

-----------------------------------------------------------------------------
(* Type correctness. *)

\* The price of a purchase that the maker accepts is a natural number.
LEMMA QuoteType ==
    ASSUME NEW bk \in Book, bk.liquidity > 0, NEW side \in Sides, NEW shares \in Nat,
           bk.a + On("A", side, shares) <= MaxShares, bk.b + On("B", side, shares) <= MaxShares
    PROVE  Quote(bk, side, shares) \in Nat
<1> DEFINE da == On("A", side, shares)
           db == On("B", side, shares)
<1>1. /\ bk.a \in 0..MaxShares /\ bk.b \in 0..MaxShares /\ bk.liquidity \in Liquidities
      /\ MaxShares \in Nat /\ TradeMargin \in Nat
    BY MarketAssumption DEF Book
<1>2. bk.a + da \in 0..MaxShares /\ bk.b + db \in 0..MaxShares
    BY <1>1 DEF On
<1>3. Cost(bk.a, bk.b, bk.liquidity) \in Nat
    BY <1>1, MarketAssumption
<1>4. Cost(bk.a + da, bk.b + db, bk.liquidity) \in Nat
    BY <1>1, <1>2, MarketAssumption
<1>5. QED
    BY <1>1, <1>3, <1>4 DEF Quote

\* The deployed contracts satisfy the invariant.
LEMMA InitInv == Init => IInv
<1> SUFFICES ASSUME Init PROVE IInv
    OBVIOUS
<1>1. TypeOK
    <2>1. VaultTypeOK
        BY VaultAssumption DEF Init, VaultInit, VaultTypeOK
    <2>2. PayoutTypeOK
        BY DEF Init, PayoutInit, PayoutTypeOK, Payout, NoPayout
    <2>3. ResultsTypeOK
        BY DEF Init, ResultsInit, ResultsTypeOK, NoWinner
    <2>4. NoBook \in Book /\ NoPosition \in Position
        BY MarketAssumption DEF NoBook, Book, NoPosition, Position
    <2>5. QED
        BY <2>1, <2>2, <2>3, <2>4 DEF Init, TypeOK
<1>2. WindowOnlyLive
    BY DEF Init, ResultsInit, WindowOnlyLive
<1>3. Covered
    BY DEF Init, ResultsInit, Covered, Settled, Collateralised, NoBook
<1>4. QED
    BY <1>1, <1>2, <1>3 DEF IInv

-----------------------------------------------------------------------------
(* Every step keeps the invariant. *)

\* Vault steps touch no book, position or result.
LEMMA VaultStepInv == IInv /\ VaultStep => IInv'
<1> SUFFICES ASSUME IInv, VaultStep PROVE IInv'
    OBVIOUS
<1>1. VaultTypeOK'
    BY VaultStepTypes DEF IInv, TypeOK, VaultStep
<1>2. UNCHANGED <<payoutVars, resultVars, marketVars>>
    BY DEF VaultStep
<1>3. TypeOK'
    BY <1>1, <1>2 DEF IInv, TypeOK, payoutVars, resultVars, marketVars, PayoutTypeOK, ResultsTypeOK
<1>4. WindowOnlyLive' /\ Covered'
    BY <1>2 DEF IInv, resultVars, marketVars, WindowOnlyLive, Covered, Settled, Liability, Due
<1>5. QED
    BY <1>3, <1>4 DEF IInv

\* A results step moves no book; it may settle one, whose collateral covers
\* every outcome.
LEMMA GameStepInv == IInv /\ GameStep => IInv'
<1> SUFFICES ASSUME IInv, GameStep PROVE IInv'
    OBVIOUS
<1>1. ResultsTypeOK'
    BY ResultsStepTypes DEF IInv, TypeOK, GameStep
<1>2. UNCHANGED <<vaultVars, payoutVars, marketVars>> /\ ResultsNext
    BY DEF GameStep
<1>3. TypeOK'
    BY <1>1, <1>2 DEF IInv, TypeOK, vaultVars, payoutVars, marketVars, VaultTypeOK, PayoutTypeOK
<1> DEFINE Kept(m) == /\ Settled(m) => status'[m] = status[m] /\ winner'[m] = winner[m]
                      /\ window'[m] => status'[m] = 2
<1>4. ASSUME NEW m \in Matches PROVE Kept(m)
    <2>1. ASSUME NEW k \in Matches, ResultStep(k) PROVE Kept(m)
        <3> USE DEF IInv, TypeOK, ResultsTypeOK, WindowOnlyLive, Snapshot, Settled
        <3>1. CASE Created(k)
            BY <3>1 DEF Created
        <3>2. CASE Started(k)
            BY <3>2 DEF Started
        <3>3. CASE Played(k)
            BY <3>3 DEF Played
        <3>4. CASE Decided(k)
            BY <3>4 DEF Decided
        <3>5. CASE Cancelled(k)
            BY <3>5 DEF Cancelled
        <3>6. QED
            BY <2>1, <3>1, <3>2, <3>3, <3>4, <3>5 DEF ResultStep
    <2>2. CASE WindowsMove
        BY <2>2 DEF WindowsMove
    <2>3. QED
        BY <1>2, <2>1, <2>2 DEF ResultsNext
<1>5. WindowOnlyLive'
    BY <1>4 DEF WindowOnlyLive
<1>6. Covered'
    <2>1. books' = books /\ positions' = positions /\ Covered
        BY <1>2 DEF IInv, marketVars
    <2>2. status \in [Matches -> 0..4] /\ status' \in [Matches -> 0..4]
        BY <1>1 DEF IInv, TypeOK, ResultsTypeOK
    <2>3. QED
        BY <1>4, <2>1, <2>2 DEF Covered, Settled, Collateralised, Liability, Due
<1>7. QED
    BY <1>3, <1>5, <1>6 DEF IInv

\* A step that leaves the match results alone need only be checked on books.
LEMMA CoveredByBooks ==
    ASSUME Covered, UNCHANGED resultVars, NEW m \in Matches,
           \A k \in Matches \ {m} : books'[k] = books[k],
           status[m] \in 0..2 => Collateralised(books'[m]),
           Settled(m) => books'[m].reserve >= Liability(m)'
    PROVE  Covered'
BY DEF Covered, resultVars, Settled, Liability, Due, Collateralised

\* open: the seed alone covers an empty book.
LEMMA OpenStepInv == IInv /\ OpenStep => IInv'
<1> SUFFICES ASSUME IInv, NEW m \in Matches, NEW l \in Liquidities, NEW extra \in ExtraSeeds,
                    Open(m, l, Cost(0, 0, l) + SeedMargin + extra)
             PROVE  IInv'
    BY DEF OpenStep
<1> DEFINE value == Cost(0, 0, l) + SeedMargin + extra
<1>1. value \in Nat
    BY MarketAssumption
<1> HIDE DEF value
<1>2. UNCHANGED <<vaultVars, payoutVars, resultVars, positions, paidBySide, betNonces, bets, marketPaused>>
    BY DEF Open
<1> DEFINE bk == [a |-> 0, b |-> 0, liquidity |-> l, reserve |-> value, totalPaid |-> 0]
<1>4. /\ bk \in Book
      /\ bk.a = 0 /\ bk.b = 0 /\ bk.totalPaid = 0 /\ bk.reserve = value
    BY <1>1, MarketAssumption DEF Book
<1>3. books' = [books EXCEPT ![m] = bk]
    BY DEF Open, value
<1>5. marketFunds' = marketFunds + value
    BY DEF Open, value
<1>6. TypeOK'
    BY <1>1, <1>2, <1>3, <1>4, <1>5 DEF IInv, TypeOK, vaultVars, payoutVars, resultVars,
        VaultTypeOK, PayoutTypeOK, ResultsTypeOK
<1>7. Collateralised(books'[m])
    BY <1>1, <1>3, <1>4 DEF IInv, TypeOK, Collateralised
<1>11. ~Settled(m)
    BY DEF Open, Settled
<1>8. Covered'
    BY <1>2, <1>3, <1>7, <1>11, CoveredByBooks DEF IInv, TypeOK
<1>9. WindowOnlyLive'
    BY <1>2 DEF IInv, WindowOnlyLive, resultVars
<1>10. QED
    BY <1>6, <1>8, <1>9 DEF IInv

\* A signature changes no contract.
LEMMA SignStepInv == IInv /\ SignStep => IInv'
<1> SUFFICES ASSUME IInv, NEW p \in Bettors, NEW m \in Matches, NEW side \in Sides, NEW n \in Shares,
                    NEW limit \in CostLimits, NEW d \in now..MaxTime, SignBet(p, m, side, n, limit, d)
             PROVE  IInv'
    BY DEF SignStep
<1>1. UNCHANGED <<vaultVars, payoutVars, resultVars, books, positions, paidBySide, betNonces,
                  marketPaused, marketFunds>>
    BY DEF SignBet
<1>2. bets' \subseteq Bet
    <2> DEFINE o == [player |-> p, match |-> m, side |-> side, shares |-> n, maxCost |-> limit,
                     version |-> version[m], nonce |-> betNonces[p], deadline |-> d]
    <2>1. o \in Bet
        BY MarketAssumption, VaultAssumption DEF IInv, TypeOK, VaultTypeOK, ResultsTypeOK, Bet
    <2>2. bets' = bets \cup {o}
        BY DEF SignBet
    <2> HIDE DEF o
    <2>3. QED
        BY <2>1, <2>2 DEF IInv, TypeOK
<1>3. TypeOK'
    BY <1>1, <1>2 DEF IInv, TypeOK, vaultVars, payoutVars, resultVars, VaultTypeOK, PayoutTypeOK, ResultsTypeOK
<1>4. WindowOnlyLive' /\ Covered'
    BY <1>1 DEF IInv, resultVars, WindowOnlyLive, Covered, Settled, Liability, Due
<1>5. QED
    BY <1>3, <1>4 DEF IInv

\* buy: a purchase is on a live match only, and ends with its collateral check.
LEMMA BuyStepInv == IInv /\ BuyStep => IInv'
<1> SUFFICES ASSUME IInv, NEW o \in bets, Buy(o) PROVE IInv'
    BY DEF BuyStep
<1> DEFINE m == o.match
           bk == books[m]
           amount == Quote(bk, o.side, o.shares)
           after == Bought(bk, o.side, o.shares, amount)
           pos == positions[m][o.player]
<1>1. /\ m \in Matches /\ o.player \in Accounts /\ o.side \in Sides /\ o.shares \in Nat
      /\ bk \in Book /\ pos \in Position
    BY DEF IInv, TypeOK, Bet
<1>2. /\ window[m] /\ bk.liquidity > 0 /\ after.a <= MaxShares /\ after.b <= MaxShares
      /\ Collateralised(after)
      /\ books' = [books EXCEPT ![m] = after]
      /\ positions' = [positions EXCEPT ![m][o.player] = Held(@, o.side, o.shares, amount)]
      /\ paidBySide' = [paidBySide EXCEPT ![m][o.side] = @ + amount]
      /\ betNonces' = [betNonces EXCEPT ![o.player] = @ + 1]
      /\ Debit(o.player, amount)
      /\ marketFunds' = marketFunds + amount
      /\ UNCHANGED <<payoutVars, resultVars, bets, marketPaused>>
    BY DEF Buy, UseNonce
<1>3. amount \in Nat
    <2>1. after.a = bk.a + On("A", o.side, o.shares) /\ after.b = bk.b + On("B", o.side, o.shares)
        BY DEF Bought
    <2>2. QED
        BY <1>1, <1>2, <2>1, QuoteType
<1> HIDE DEF amount
<1>4. after \in Book
    BY <1>1, <1>2, <1>3, MarketAssumption DEF Bought, On, Book
<1>5. Held(pos, o.side, o.shares, amount) \in Position
    BY <1>1, <1>3 DEF Held, On, Position
<1> HIDE DEF after
<1>6. VaultTypeOK'
    BY <1>1, <1>2, <1>3, DebitTypes DEF IInv, TypeOK
<1>7. TypeOK'
    <2>1. books' \in [Matches -> Book]
        BY <1>1, <1>2, <1>4 DEF IInv, TypeOK
    <2>2. positions' \in [Matches -> [Accounts -> Position]]
        BY <1>1, <1>2, <1>5 DEF IInv, TypeOK
    <2>3. paidBySide' \in [Matches -> [Sides -> Nat]]
        BY <1>1, <1>2, <1>3 DEF IInv, TypeOK
    <2>4. betNonces' \in [Accounts -> Nat] /\ marketFunds' \in Nat
        BY <1>1, <1>2, <1>3 DEF IInv, TypeOK
    <2>5. QED
        BY <1>2, <1>6, <2>1, <2>2, <2>3, <2>4
        DEF IInv, TypeOK, payoutVars, resultVars, PayoutTypeOK, ResultsTypeOK
<1>8. ~Settled(m)
    BY <1>1, <1>2 DEF IInv, WindowOnlyLive, Settled
<1>9. Covered'
    BY <1>1, <1>2, <1>8, CoveredByBooks DEF IInv, TypeOK
<1>10. WindowOnlyLive'
    BY <1>2 DEF IInv, WindowOnlyLive, resultVars
<1>11. QED
    BY <1>7, <1>9, <1>10 DEF IInv

\* A claim lowers the reserve and the liability by the same amount.
LEMMA ClaimStepInv == IInv /\ ClaimStep => IInv'
<1> SUFFICES ASSUME IInv, NEW m \in Matches, NEW p \in Accounts, NEW ok \in BOOLEAN, Claim(m, p, ok)
             PROVE  IInv'
    BY DEF ClaimStep
<1> DEFINE bk == books[m]
           pos == positions[m][p]
           amount == PayoutOf(m, pos)
           after == ClaimBook(bk, pos, amount)
<1>1. bk \in Book /\ pos \in Position
    BY DEF IInv, TypeOK
<1>2. /\ Settled(m) /\ ClaimFits(m, pos) /\ (ok => marketFunds >= amount)
      /\ positions' = [positions EXCEPT ![m][p] = [@ EXCEPT !.claimed = TRUE]]
      /\ books' = [books EXCEPT ![m] = ClaimBook(@, pos, amount)]
      /\ SchedulePayout(<<0, m, p>>, amount, ok)
      /\ marketFunds' = IF ok THEN marketFunds - amount ELSE marketFunds
      /\ UNCHANGED <<vaultVars, resultVars, paidBySide, betNonces, bets, marketPaused>>
    BY DEF Claim
<1>3. amount \in Nat
    BY <1>1 DEF PayoutOf, Due, Position
<1>4. after \in Book
    BY <1>1, <1>2, <1>3, MarketAssumption DEF ClaimBook, ClaimFits, Book, Position
<1>5. [pos EXCEPT !.claimed = TRUE] \in Position
    BY <1>1 DEF Position
<1>6. books' = [books EXCEPT ![m] = after]
    BY <1>2
<1>7. Settled(m) => after.reserve >= Liability(m)'
    <2>1. bk.reserve >= Liability(m)
        BY <1>2 DEF IInv, Covered
    <2>2. Liability(m)' = Liability(m) - amount
        BY <1>1, <1>2, <1>6 DEF IInv, TypeOK, Liability, Due, PayoutOf, ClaimBook, Book, Position, resultVars
    <2>3. Liability(m) \in Nat /\ after.reserve = bk.reserve - amount
        BY <1>1 DEF Liability, Due, Book, ClaimBook
    <2> HIDE DEF amount, after
    <2>4. QED
        BY <1>1, <1>3, <2>1, <2>2, <2>3 DEF Book
<1> HIDE DEF after, amount
<1>8. PayoutTypeOK'
    <2>1. <<0, m, p>> \in PayoutIds
        BY MarketAssumption
    <2>2. QED
        BY <1>2, <1>3, <2>1, ScheduleTypes DEF IInv, TypeOK
<1>9. TypeOK'
    <2>1. books' \in [Matches -> Book]
        BY <1>4, <1>6 DEF IInv, TypeOK
    <2>2. positions' \in [Matches -> [Accounts -> Position]]
        BY <1>2, <1>5 DEF IInv, TypeOK
    <2>3. marketFunds' \in Nat
        BY <1>2, <1>3 DEF IInv, TypeOK
    <2>4. QED
        BY <1>2, <1>8, <2>1, <2>2, <2>3 DEF IInv, TypeOK, vaultVars, resultVars, VaultTypeOK, ResultsTypeOK
<1>10. Covered'
    <2>1. books'[m] = after /\ \A k \in Matches \ {m} : books'[k] = books[k]
        BY <1>6 DEF IInv, TypeOK
    <2>2. ~(status[m] \in 0..2)
        BY <1>2 DEF Settled
    <2>3. QED
        BY <1>2, <1>7, <2>1, <2>2, CoveredByBooks DEF IInv
<1>11. WindowOnlyLive'
    BY <1>2 DEF IInv, WindowOnlyLive, resultVars
<1>12. QED
    BY <1>9, <1>10, <1>11 DEF IInv

\* retryPayout moves debts, never a book.
LEMMA RetryStepInv == IInv /\ RetryStep => IInv'
<1> SUFFICES ASSUME IInv, NEW id \in PayoutIds, NEW ok \in BOOLEAN, Retry(id, ok) PROVE IInv'
    BY DEF RetryStep
<1>1. PayoutTypeOK'
    BY RetryTypes DEF IInv, TypeOK, Retry
<1>2. marketFunds' \in Nat
    BY DEF IInv, TypeOK, PayoutTypeOK, Payout, Retry
<1>3. UNCHANGED <<vaultVars, resultVars, books, positions, paidBySide, betNonces, bets, marketPaused>>
    BY DEF Retry
<1>4. TypeOK'
    BY <1>1, <1>2, <1>3 DEF IInv, TypeOK, vaultVars, resultVars, VaultTypeOK, ResultsTypeOK
<1>5. WindowOnlyLive' /\ Covered'
    BY <1>3 DEF IInv, resultVars, WindowOnlyLive, Covered, Settled, Liability, Due
<1>6. QED
    BY <1>4, <1>5 DEF IInv

\* reclaim leaves the reserve at exactly the liability.
LEMMA ReclaimStepInv == IInv /\ ReclaimStep => IInv'
<1> SUFFICES ASSUME IInv, NEW m \in Matches, Reclaim(m) PROVE IInv'
    BY DEF ReclaimStep
<1> DEFINE after == [books[m] EXCEPT !.reserve = Liability(m)]
<1>1. /\ books[m] \in Book /\ Settled(m) /\ books[m].reserve >= Liability(m)
      /\ marketFunds >= books[m].reserve - Liability(m)
      /\ books' = [books EXCEPT ![m] = after]
      /\ marketFunds' = marketFunds - (books[m].reserve - Liability(m))
      /\ UNCHANGED <<vaultVars, payoutVars, resultVars, positions, paidBySide, betNonces, bets, marketPaused>>
    BY DEF IInv, TypeOK, Reclaim
<1>2. Liability(m) \in Nat
    BY <1>1 DEF Liability, Due, Book
<1>3. after \in Book
    BY <1>1, <1>2 DEF Book
<1>4. marketFunds' \in Nat
    BY <1>1, <1>2 DEF IInv, TypeOK, Book
<1>5. Settled(m) => books'[m].reserve >= Liability(m)'
    BY <1>1, <1>2 DEF IInv, TypeOK, Liability, Due, Book, resultVars
<1> HIDE DEF after
<1>6. TypeOK'
    BY <1>1, <1>3, <1>4 DEF IInv, TypeOK, vaultVars, payoutVars, resultVars, VaultTypeOK, PayoutTypeOK, ResultsTypeOK
<1>7. Covered'
    <2>1. \A k \in Matches \ {m} : books'[k] = books[k]
        BY <1>1 DEF IInv, TypeOK
    <2>2. ~(status[m] \in 0..2)
        BY <1>1 DEF Settled
    <2>3. QED
        BY <1>1, <1>5, <2>1, <2>2, CoveredByBooks DEF IInv
<1>8. WindowOnlyLive'
    BY <1>1 DEF IInv, WindowOnlyLive, resultVars
<1>9. QED
    BY <1>6, <1>7, <1>8 DEF IInv

\* Pausing the market, or nothing at all.
LEMMA OtherStepInv == IInv /\ (SetPaused \/ UNCHANGED vars) => IInv'
<1> SUFFICES ASSUME IInv, SetPaused \/ UNCHANGED vars PROVE IInv'
    OBVIOUS
<1>1. /\ UNCHANGED <<vaultVars, payoutVars, resultVars, books, positions, paidBySide, betNonces,
                     bets, marketFunds>>
      /\ marketPaused' \in BOOLEAN
    BY DEF IInv, TypeOK, SetPaused, vars, marketVars
<1>2. TypeOK'
    BY <1>1 DEF IInv, TypeOK, vaultVars, payoutVars, resultVars, VaultTypeOK, PayoutTypeOK, ResultsTypeOK
<1>3. WindowOnlyLive' /\ Covered'
    BY <1>1 DEF IInv, resultVars, WindowOnlyLive, Covered, Settled, Liability, Due
<1>4. QED
    BY <1>2, <1>3 DEF IInv

\* Every step of the specification keeps the invariant.
LEMMA StepInv == IInv /\ [Next]_vars => IInv'
BY VaultStepInv, GameStepInv, OpenStepInv, SignStepInv, BuyStepInv, ClaimStepInv, RetryStepInv,
   ReclaimStepInv, OtherStepInv DEF Next

\* The inductive invariant holds in every reachable state.
THEOREM Invariance == Spec => []IInv
BY InitInv, StepInv, PTL DEF Spec

\* The storage of the market, the vault and the payouts stays well typed, through
\* every interleaving of transactions and signatures.
THEOREM TypeCorrect == Spec => []TypeOK
<1>1. IInv => TypeOK
    BY DEF IInv
<1>2. QED
    BY Invariance, <1>1, PTL

\* MarketV4's reserves cover every outcome of an open match and the actual
\* outcome of a settled one, whatever the cost function, the number of
\* bettors, and the order of purchases, settlements, claims and reclaims.
THEOREM Solvency == Spec => []Covered
<1>1. IInv => Covered
    BY DEF IInv
<1>2. QED
    BY Invariance, <1>1, PTL

-----------------------------------------------------------------------------
(* Payouts. *)

\* A step never resizes, drops or repeats a recorded debt.
LEMMA StepFixed == TypeOK /\ [Next]_vars => [DebtsKept]_payouts
<1> SUFFICES ASSUME TypeOK, [Next]_vars, payouts' # payouts PROVE DebtsKept
    OBVIOUS
<1>0. payouts \in [PayoutIds -> Payout]
    BY DEF TypeOK, PayoutTypeOK
<1>1. CASE ClaimStep
    <2>1. PICK m \in Matches, p \in Accounts, ok \in BOOLEAN :
              SchedulePayout(<<0, m, p>>, PayoutOf(m, positions[m][p]), ok)
        BY <1>1 DEF ClaimStep, Claim
    <2>2. QED
        BY <1>0, <2>1 DEF SchedulePayout, DebtsKept
<1>2. CASE RetryStep
    <2>1. PICK id \in PayoutIds, ok \in BOOLEAN : RetryPayout(id, ok)
        BY <1>2 DEF RetryStep, Retry
    <2>2. QED
        BY <1>0, <2>1 DEF RetryPayout, DebtsKept, Payout
<1>3. QED
    BY <1>1, <1>2 DEF Next, VaultStep, GameStep, SetPaused, OpenStep, Open, SignStep, SignBet,
        BuyStep, Buy, ReclaimStep, Reclaim, vars, payoutVars

\* No step of the market redirects, resizes or repeats a payment: a recorded
\* debt keeps its amount until it is paid, and is then never touched again.
THEOREM DebtsAreFixed == Spec => PayoutsFixed
BY TypeCorrect, StepFixed, PTL DEF Spec, PayoutsFixed

-----------------------------------------------------------------------------
(* Conservation. *)

ReserveSum == SumFunctionOnSet([m \in Matches |-> books[m].reserve], Matches)

\* The three equations of Conservation, as sums over fixed domains.
FundsMatch == marketFunds = ReserveSum + totalPendingPayouts

\* A book that was never opened holds nothing.
FreshBooks == \A m \in Matches : books[m].liquidity = 0 => books[m] = NoBook

Balanced == FreshBooks /\ FundsMatch /\ PendingMatch /\ CreditMatch

\* The payout ids of finitely many accounts and matches are finitely many.
LEMMA PayoutIdsFinite == IsFiniteSet(PayoutIds)
<1> DEFINE Pairs == Matches \X Accounts
           idOf == [mp \in Pairs |-> <<0, mp[1], mp[2]>>]
<1>1. IsFiniteSet(Pairs)
    BY FS_Product, MarketAssumption
<1>2. idOf \in Surjection(Pairs, PayoutIds)
    <2>1. \A mp \in Pairs : idOf[mp] \in PayoutIds
        BY MarketAssumption
    <2>2. ASSUME NEW id \in PayoutIds PROVE \E mp \in Pairs : idOf[mp] = id
        <3>1. PICK m \in Matches, p \in Accounts : id = <<0, m, p>>
            BY MarketAssumption
        <3>2. <<m, p>> \in Pairs /\ idOf[<<m, p>>] = id
            BY <3>1
        <3>3. QED
            BY <3>2
    <2>3. QED
        BY <2>1, <2>2 DEF Surjection
<1> HIDE DEF idOf
<1>3. QED
    BY <1>1, <1>2, FS_Surjection

\* Equal equations: the sums of Conservation are the ones above.
LEMMA ConservationIsBalance ==
    ASSUME TypeOK, FundsMatch, PendingMatch, CreditMatch
    PROVE  Conservation
<1>1. SumFunction([m \in Matches |-> books[m].reserve]) = ReserveSum
    BY DEF SumFunction, ReserveSum
<1>2. SumFunction([id \in Pending |-> payouts[id].amount]) = PendingSum
    BY PayoutIdsFinite, PendingAmounts
<1>3. SumFunction(balances) = SumFunctionOnSet(balances, Accounts)
    BY DEF SumFunction, TypeOK, VaultTypeOK
<1>4. QED
    BY <1>1, <1>2, <1>3 DEF Conservation, SumOver, FundsMatch, PendingMatch, CreditMatch, Pending

\* A step that rewrites one book moves the sum of the reserves by that book.
LEMMA ReserveMoves ==
    ASSUME TypeOK, TypeOK', NEW m \in Matches, \A k \in Matches \ {m} : books'[k] = books[k]
    PROVE  /\ ReserveSum \in Nat
           /\ ReserveSum' = ReserveSum - books[m].reserve + books'[m].reserve
<1> DEFINE g == [k \in Matches |-> books[k].reserve]
           h == [k \in Matches |-> books'[k].reserve]
<1>1. g \in [Matches -> Nat] /\ h \in [Matches -> Nat]
    BY DEF TypeOK, Book
<1>2. g \in [Matches -> Int] /\ h \in [Matches -> Int] /\ \A k \in Matches \ {m} : h[k] = g[k]
    BY <1>1
<1>3. ReserveSum = SumFunctionOnSet(g, Matches) /\ ReserveSum' = SumFunctionOnSet(h, Matches)
    BY DEF ReserveSum
<1>4. g[m] = books[m].reserve /\ h[m] = books'[m].reserve
    OBVIOUS
<1> HIDE DEF g, h
<1>5. SumFunctionOnSet(h, Matches) = SumFunctionOnSet(g, Matches) - g[m] + h[m]
    BY <1>2, MarketAssumption, SumMoves
<1>6. SumFunctionOnSet(g, Matches) \in Nat
    BY <1>1, MarketAssumption, SumOfPart
<1>7. QED
    BY <1>3, <1>4, <1>5, <1>6

\* A transaction that rewrites one book by what enters or leaves the market.
LEMMA FundsMove ==
    ASSUME TypeOK, TypeOK', FundsMatch, NEW m \in Matches,
           \A k \in Matches \ {m} : books'[k] = books[k],
           marketFunds' = marketFunds + (books'[m].reserve - books[m].reserve)
                                      + (totalPendingPayouts' - totalPendingPayouts)
    PROVE  FundsMatch'
<1>1. ReserveSum \in Nat /\ ReserveSum' = ReserveSum - books[m].reserve + books'[m].reserve
    BY ReserveMoves
<1>2. /\ marketFunds \in Int /\ marketFunds' \in Int
      /\ totalPendingPayouts \in Int /\ totalPendingPayouts' \in Int
      /\ books[m].reserve \in Int /\ books'[m].reserve \in Int
    BY DEF TypeOK, PayoutTypeOK, Book
<1> DEFINE was == books[m].reserve
           is == books'[m].reserve
           sum == ReserveSum
           after == ReserveSum'
<1>3. after = sum - was + is /\ sum \in Int /\ was \in Int /\ is \in Int
    BY <1>1, <1>2
<1>4. marketFunds = sum + totalPendingPayouts
    BY DEF FundsMatch
<1>5. marketFunds' = marketFunds + (is - was) + (totalPendingPayouts' - totalPendingPayouts)
    OBVIOUS
<1> HIDE DEF was, is, sum, after
<1>6. marketFunds' = after + totalPendingPayouts'
    <2>1. marketFunds' = (sum + totalPendingPayouts) + (is - was) + (totalPendingPayouts' - totalPendingPayouts)
        BY <1>4, <1>5, Zenon
    <2>2. totalPendingPayouts \in Int /\ totalPendingPayouts' \in Int
        BY <1>2
    <2>3. QED
        BY ONLY <1>3, <2>1, <2>2
<1>7. QED
    BY <1>6 DEF FundsMatch, after

\* Every step keeps the market, its debts and the vault's credit in balance.
LEMMA BalanceKept == IInv /\ IInv' /\ Balanced /\ [Next]_vars => Balanced'
<1> SUFFICES ASSUME IInv, IInv', Balanced, [Next]_vars PROVE Balanced'
    OBVIOUS
<1> USE DEF Balanced
<1>0. TypeOK /\ TypeOK' /\ VaultTypeOK /\ VaultTypeOK' /\ PayoutTypeOK /\ PayoutTypeOK'
    BY DEF IInv, TypeOK
<1>1. ASSUME UNCHANGED <<books, payouts, totalPendingPayouts, marketFunds>>
      PROVE  FreshBooks' /\ FundsMatch' /\ PendingMatch'
    BY <1>1 DEF FreshBooks, FundsMatch, PendingMatch, ReserveSum, PendingSum, Pending, AmountOf
<1>2. ASSUME UNCHANGED payoutVars PROVE PendingMatch'
    BY <1>2 DEF payoutVars, PendingMatch, PendingSum, Pending, AmountOf
<1>3. ASSUME UNCHANGED vaultVars PROVE CreditMatch'
    BY <1>0, <1>3, MarketAssumption, CreditKept
<1>4. ASSUME NEW m \in Matches, \A k \in Matches \ {m} : books'[k] = books[k],
             books'[m].liquidity = 0 => books'[m] = NoBook
      PROVE  FreshBooks'
    BY <1>4 DEF FreshBooks
<1>5. CASE VaultStep
    <2>1. VaultNext /\ UNCHANGED <<payoutVars, marketVars>>
        BY <1>5 DEF VaultStep
    <2>2. CreditMatch'
        BY <1>0, <2>1, MarketAssumption, CreditKept
    <2>3. QED
        BY <1>1, <2>1, <2>2 DEF payoutVars, marketVars
<1>6. CASE GameStep \/ SetPaused \/ SignStep \/ UNCHANGED vars
    <2>1. UNCHANGED <<vaultVars, books, payouts, totalPendingPayouts, marketFunds>>
        BY <1>6 DEF GameStep, SetPaused, SignStep, SignBet, vars, payoutVars, marketVars
    <2>2. QED
        BY <1>1, <1>3, <2>1
<1>7. CASE OpenStep
    <2>1. PICK m \in Matches, l \in Liquidities, extra \in ExtraSeeds :
              Open(m, l, Cost(0, 0, l) + SeedMargin + extra)
        BY <1>7 DEF OpenStep
    <2> DEFINE value == Cost(0, 0, l) + SeedMargin + extra
    <2>2. value \in Int
        BY MarketAssumption
    <2>3. /\ books[m] = NoBook
          /\ books' = [books EXCEPT ![m] = [a |-> 0, b |-> 0, liquidity |-> l, reserve |-> value,
                                             totalPaid |-> 0]]
          /\ marketFunds' = marketFunds + value
          /\ UNCHANGED <<vaultVars, payoutVars>>
        BY <2>1 DEF Open, FreshBooks
    <2> HIDE DEF value
    <2>4. /\ books[m].reserve = 0 /\ books'[m].reserve = value /\ books'[m].liquidity = l
          /\ \A k \in Matches \ {m} : books'[k] = books[k]
        BY <1>0, <2>3 DEF TypeOK, NoBook
    <2>5. l # 0
        BY MarketAssumption
    <2>6. FundsMatch'
        BY <1>0, <2>2, <2>3, <2>4, FundsMove DEF payoutVars, TypeOK, PayoutTypeOK
    <2>7. QED
        BY <1>2, <1>3, <1>4, <2>3, <2>4, <2>5, <2>6
<1>8. CASE BuyStep
    <2>1. PICK o \in bets : Buy(o)
        BY <1>8 DEF BuyStep
    <2> DEFINE m == o.match
               amount == Quote(books[m], o.side, o.shares)
               after == Bought(books[m], o.side, o.shares, amount)
    <2>2. m \in Matches /\ o.player \in Accounts /\ o.side \in Sides /\ o.shares \in Nat
          /\ books[m] \in Book
        BY <1>0 DEF TypeOK, Bet
    <2>3. /\ books[m].liquidity > 0
          /\ after.a <= MaxShares /\ after.b <= MaxShares
          /\ books' = [books EXCEPT ![m] = after]
          /\ Debit(o.player, amount)
          /\ marketFunds' = marketFunds + amount
          /\ UNCHANGED payoutVars
        BY <2>1 DEF Buy
    <2>4. amount \in Nat
        <3>1. /\ books[m].a + On("A", o.side, o.shares) <= MaxShares
              /\ books[m].b + On("B", o.side, o.shares) <= MaxShares
            BY <2>3 DEF Bought
        <3>2. QED
            BY <2>2, <2>3, <3>1, QuoteType
    <2>5. after.reserve = books[m].reserve + amount /\ after.liquidity = books[m].liquidity
        BY DEF Bought
    <2> HIDE DEF amount, after
    <2>6. /\ books'[m] = after /\ \A k \in Matches \ {m} : books'[k] = books[k]
        BY <1>0, <2>2, <2>3 DEF TypeOK
    <2>7. books[m].reserve \in Int /\ books[m].liquidity \in Int
        <3>1. Liquidities \cup {0} \subseteq Int
            BY MarketAssumption
        <3> HIDE DEF m
        <3>2. QED
            BY <2>2, <3>1 DEF Book
    <2> HIDE DEF m
    <2>8. FundsMatch'
        <3>1. marketFunds \in Int /\ totalPendingPayouts \in Int
              /\ totalPendingPayouts' = totalPendingPayouts
            BY <1>0, <2>3 DEF TypeOK, PayoutTypeOK, payoutVars
        <3> DEFINE is == books'[m].reserve
                   was == books[m].reserve
        <3>2. is = was + amount /\ was \in Int
            BY <2>5, <2>6, <2>7
        <3> HIDE DEF is, was
        <3>3. marketFunds' = marketFunds + (is - was) + (totalPendingPayouts' - totalPendingPayouts)
            BY <2>3, <2>4, <3>1, <3>2
        <3>4. QED
            BY <1>0, <2>2, <2>4, <2>6, <3>3, FundsMove DEF is, was
    <2>9. CreditMatch'
        BY <1>0, <2>2, <2>3, <2>4, MarketAssumption, CreditKept
    <2>10. FreshBooks'
        BY <1>4, <2>2, <2>3, <2>5, <2>6, <2>7
    <2>11. QED
        BY <1>2, <2>3, <2>8, <2>9, <2>10
<1>9. CASE ClaimStep
    <2>1. PICK m \in Matches, p \in Accounts, ok \in BOOLEAN : Claim(m, p, ok)
        BY <1>9 DEF ClaimStep
    <2> DEFINE pos == positions[m][p]
               amount == PayoutOf(m, pos)
               after == ClaimBook(books[m], pos, amount)
    <2>2. pos \in Position /\ books[m] \in Book /\ <<0, m, p>> \in PayoutIds
        BY <1>0, MarketAssumption DEF TypeOK
    <2>3. amount \in Nat
        BY <2>2 DEF PayoutOf, Due, Position
    <2>4. /\ pos.paid > 0 /\ books[m].totalPaid >= pos.paid
          /\ books' = [books EXCEPT ![m] = after]
          /\ SchedulePayout(<<0, m, p>>, amount, ok)
          /\ marketFunds' = IF ok THEN marketFunds - amount ELSE marketFunds
          /\ UNCHANGED vaultVars
        BY <1>0, <2>1 DEF Claim, ClaimFits, TypeOK
    <2>5. /\ books'[m] = after /\ \A k \in Matches \ {m} : books'[k] = books[k]
          /\ after.reserve = books[m].reserve - amount /\ after.liquidity = books[m].liquidity
        BY <1>0, <2>4 DEF TypeOK, ClaimBook
    <2>6. books[m].liquidity # 0
        <3>1. books[m] # NoBook
            BY <2>2, <2>4 DEF NoBook, Position
        <3>2. QED
            BY <3>1 DEF FreshBooks
    <2> HIDE DEF pos, amount, after
    <2>7. FreshBooks'
        BY <1>4, <2>5, <2>6
    <2>8. PendingMatch'
        BY <1>0, <2>2, <2>3, <2>4, PayoutIdsFinite, PendingMoves
    <2>9. FundsMatch'
        <3>1. /\ marketFunds \in Int /\ totalPendingPayouts \in Int /\ books[m].reserve \in Int
              /\ totalPendingPayouts' = IF ok THEN totalPendingPayouts ELSE totalPendingPayouts + amount
            BY <1>0, <2>2, <2>4 DEF TypeOK, PayoutTypeOK, Book, SchedulePayout
        <3> DEFINE is == books'[m].reserve
                   was == books[m].reserve
        <3>2. is = was - amount /\ was \in Int
            BY <2>5, <3>1
        <3> HIDE DEF is, was
        <3>3. marketFunds' = marketFunds + (is - was) + (totalPendingPayouts' - totalPendingPayouts)
            BY <2>3, <2>4, <3>1, <3>2
        <3>4. QED
            BY <1>0, <2>3, <2>5, <3>3, FundsMove DEF is, was
    <2>10. QED
        BY <1>3, <2>4, <2>7, <2>8, <2>9
<1>10. CASE RetryStep
    <2>1. PICK id \in PayoutIds, ok \in BOOLEAN : Retry(id, ok)
        BY <1>10 DEF RetryStep
    <2>2. PendingMatch'
        BY <1>0, <2>1, PayoutIdsFinite, PendingMoves DEF Retry
    <2>3. /\ UNCHANGED <<vaultVars, books>>
          /\ marketFunds' = marketFunds + (totalPendingPayouts' - totalPendingPayouts)
        BY <1>0, <2>1 DEF Retry, RetryPayout, TypeOK, PayoutTypeOK, Payout
    <2>4. FundsMatch'
        <3>1. ReserveSum' = ReserveSum
            BY <2>3 DEF ReserveSum
        <3>2. ReserveSum \in Nat
            <4> DEFINE g == [k \in Matches |-> books[k].reserve]
            <4>1. g \in [Matches -> Nat]
                BY <1>0 DEF TypeOK, Book
            <4>2. SumFunctionOnSet(g, Matches) \in Nat
                <5> HIDE DEF g
                <5> QED BY <4>1, MarketAssumption, SumOfPart
            <4>3. QED
                BY <4>2 DEF ReserveSum
        <3>3. QED
            BY <1>0, <2>3, <3>1, <3>2 DEF FundsMatch, TypeOK, PayoutTypeOK
    <2>5. FreshBooks'
        BY <2>3 DEF FreshBooks
    <2>6. QED
        BY <1>3, <2>2, <2>3, <2>4, <2>5
<1>11. CASE ReclaimStep
    <2>1. PICK m \in Matches : Reclaim(m)
        BY <1>11 DEF ReclaimStep
    <2> DEFINE owed == Liability(m)
    <2>2. books[m] \in Book
        BY <1>0 DEF TypeOK
    <2>3. owed \in Nat
        BY <2>2 DEF Liability, Due, Book
    <2>4. /\ books' = [books EXCEPT ![m] = [@ EXCEPT !.reserve = owed]]
          /\ marketFunds' = marketFunds - (books[m].reserve - owed)
          /\ UNCHANGED <<vaultVars, payoutVars>>
        BY <2>1 DEF Reclaim
    <2>5. books[m] = NoBook => owed = 0
        BY DEF Liability, Due, NoBook
    <2> HIDE DEF owed
    <2>6. /\ books'[m] = [books[m] EXCEPT !.reserve = owed]
          /\ \A k \in Matches \ {m} : books'[k] = books[k]
        BY <1>0, <2>4 DEF TypeOK
    <2>7. books'[m].reserve = owed /\ books'[m].liquidity = books[m].liquidity
        BY <2>2, <2>6 DEF Book
    <2>8. FreshBooks'
        <3>1. ASSUME books'[m].liquidity = 0 PROVE books'[m] = NoBook
            <4>1. books[m] = NoBook
                BY <2>7, <3>1 DEF FreshBooks
            <4>2. QED
                BY <2>5, <2>6, <4>1 DEF NoBook
        <3>2. QED
            BY <1>4, <2>6, <3>1
    <2>9. FundsMatch'
        <3>1. marketFunds \in Int /\ totalPendingPayouts \in Int /\ books[m].reserve \in Int
              /\ totalPendingPayouts' = totalPendingPayouts
            BY <1>0, <2>2, <2>4 DEF TypeOK, PayoutTypeOK, Book, payoutVars
        <3>2. QED
            BY <1>0, <2>3, <2>4, <2>6, <2>7, <3>1, FundsMove
    <2>10. QED
        BY <1>2, <1>3, <2>4, <2>8, <2>9
<1>12. QED
    BY <1>5, <1>6, <1>7, <1>8, <1>9, <1>10, <1>11 DEF Next

-----------------------------------------------------------------------------
(* Books and positions. *)

\* The columns of a book that its positions add up to.
Column(f, m) == [p \in Accounts |-> positions[m][p][f]]
Columns == {"a", "b", "totalPaid"}
FieldOf(f) == IF f = "totalPaid" THEN "paid" ELSE f

\* Each running total of a book is the sum of its unclaimed positions, and the
\* pressure of both sides is the sum of all of them.
TotalsMatch ==
    \A m \in Matches, f \in Columns :
        books[m][f] = SumFunctionOnSet(Column(FieldOf(f), m), Unclaimed(m))
PressureMatch ==
    \A m \in Matches :
        SumFunctionOnSet(paidBySide[m], Sides) = SumFunctionOnSet(Column("paid", m), Accounts)

\* Only positions of settled matches are claimed, and only a claim records the
\* payout of a position.
ClaimsSettled == \A m \in Matches, p \in Accounts : positions[m][p].claimed => Settled(m)
ClaimsRecorded ==
    \A m \in Matches, p \in Accounts : payouts[<<0, m, p>>].status # 0 => positions[m][p].claimed

Booked == TotalsMatch /\ PressureMatch /\ ClaimsSettled /\ ClaimsRecorded

\* A settled match stays settled.
LEMMA SettledStays == ResultsTypeOK /\ ResultsNext => \A m \in Matches : Settled(m) => Settled(m)'
<1> SUFFICES ASSUME ResultsTypeOK, ResultsNext, NEW m \in Matches, Settled(m) PROVE Settled(m)'
    OBVIOUS
<1> USE DEF ResultsTypeOK, Settled, Snapshot
<1>1. ASSUME NEW k \in Matches, ResultStep(k) PROVE Settled(m)'
    BY <1>1 DEF ResultStep, Created, Started, Played, Decided, Cancelled
<1>2. CASE WindowsMove
    BY <1>2 DEF WindowsMove
<1>3. QED
    BY <1>1, <1>2 DEF ResultsNext

\* Columns hold natural numbers over finitely many accounts.
LEMMA ColumnType ==
    ASSUME TypeOK, NEW m \in Matches, NEW f \in {"a", "b", "paid"}
    PROVE  /\ Column(f, m) \in [Accounts -> Nat] /\ Column(f, m) \in [Accounts -> Int]
           /\ Unclaimed(m) \in SUBSET Accounts /\ IsFiniteSet(Unclaimed(m)) /\ IsFiniteSet(Accounts)
<1>1. \A p \in Accounts : positions[m][p] \in Position
    BY DEF TypeOK
<1>2. \A p \in Accounts : positions[m][p][f] \in Nat
    BY <1>1 DEF Position
<1>3. Unclaimed(m) \in SUBSET Accounts
    BY DEF Unclaimed
<1>4. QED
    BY <1>2, <1>3, MarketAssumption, FS_Subset DEF Column

\* A step that leaves books, positions, pressure and payouts alone, and keeps
\* settled matches settled, keeps them booked.
LEMMA BookedFrame ==
    ASSUME Booked, UNCHANGED <<books, positions, paidBySide, payouts>>,
           \A m \in Matches : Settled(m) => Settled(m)'
    PROVE  Booked'
<1>1. TotalsMatch'
    BY DEF Booked, TotalsMatch, Column, Unclaimed
<1>2. PressureMatch'
    BY DEF Booked, PressureMatch, Column
<1>3. ClaimsSettled' /\ ClaimsRecorded'
    BY DEF Booked, ClaimsSettled, ClaimsRecorded
<1>4. QED
    BY <1>1, <1>2, <1>3 DEF Booked

\* A match has finitely many sides.
LEMMA SidesFinite == IsFiniteSet(Sides)
<1>1. IsFiniteSet({"A"}) /\ IsFiniteSet({"A"} \cup {"B"})
    BY FS_Singleton, FS_AddElement
<1>2. Sides = {"A"} \cup {"B"}
    BY DEF Sides
<1>3. QED
    BY <1>1, <1>2

\* A purchase adds the same amounts to a book, a position and the pressure.
LEMMA BookedBuy == IInv /\ Booked /\ BuyStep => Booked'
<1> SUFFICES ASSUME IInv, Booked, NEW o \in bets, Buy(o) PROVE Booked'
    BY DEF BuyStep
<1> USE DEF Booked
<1> DEFINE m == o.match
           p == o.player
           bk == books[m]
           amount == Quote(bk, o.side, o.shares)
           da == On("A", o.side, o.shares)
           db == On("B", o.side, o.shares)
           added == [f \in {"a", "b", "paid"} |->
                        IF f = "a" THEN da ELSE IF f = "b" THEN db ELSE amount]
<1>0. TypeOK /\ WindowOnlyLive /\ TotalsMatch /\ PressureMatch /\ ClaimsSettled /\ ClaimsRecorded
    BY DEF IInv
<1>1. /\ m \in Matches /\ p \in Accounts /\ o.side \in Sides /\ o.shares \in Nat /\ bk \in Book
      /\ positions[m][p] \in Position /\ bets' = bets
    BY <1>0 DEF TypeOK, Bet, Buy
<1>2. /\ window[m] /\ bk.liquidity > 0
      /\ bk.a + da <= MaxShares /\ bk.b + db <= MaxShares
      /\ books' = [books EXCEPT ![m] = Bought(bk, o.side, o.shares, amount)]
      /\ positions' = [positions EXCEPT ![m][p] = Held(@, o.side, o.shares, amount)]
      /\ paidBySide' = [paidBySide EXCEPT ![m][o.side] = @ + amount]
      /\ UNCHANGED <<payoutVars, resultVars>>
    BY DEF Buy, Bought
<1>3. amount \in Nat /\ da \in Nat /\ db \in Nat
    BY <1>1, <1>2, QuoteType DEF On
<1>4. /\ books'[m].a = bk.a + da /\ books'[m].b = bk.b + db
      /\ books'[m].totalPaid = bk.totalPaid + amount
      /\ \A k \in Matches \ {m} : books'[k] = books[k]
    BY <1>0, <1>1, <1>2 DEF TypeOK, Bought
<1>5. /\ positions'[m][p] = Held(positions[m][p], o.side, o.shares, amount)
      /\ \A q \in Accounts \ {p} : positions'[m][q] = positions[m][q]
      /\ \A k \in Matches \ {m} : positions'[k] = positions[k]
    BY <1>0, <1>1, <1>2 DEF TypeOK
<1>6. /\ positions'[m][p].a = positions[m][p].a + da
      /\ positions'[m][p].b = positions[m][p].b + db
      /\ positions'[m][p].paid = positions[m][p].paid + amount
      /\ positions'[m][p].claimed = positions[m][p].claimed
    BY <1>5 DEF Held
<1>7. ~positions[m][p].claimed /\ p \in Unclaimed(m)
    <2>1. ~Settled(m)
        BY <1>0, <1>1, <1>2 DEF WindowOnlyLive, Settled
    <2>2. QED
        BY <1>0, <1>1, <2>1 DEF ClaimsSettled, Unclaimed
<1> HIDE DEF amount, da, db, m, p
<1>8. \A k \in Matches : Unclaimed(k)' = Unclaimed(k)
    BY <1>1, <1>5, <1>6 DEF Unclaimed
<1>9. ASSUME NEW f \in {"a", "b", "paid"}, NEW U \in SUBSET Accounts, p \in U
      PROVE  SumFunctionOnSet(Column(f, m)', U) = SumFunctionOnSet(Column(f, m), U) + added[f]
    <2> DEFINE g == Column(f, m)
               h == Column(f, m)'
    <2>1. g \in [Accounts -> Int] /\ IsFiniteSet(U)
        BY <1>0, <1>1, ColumnType, MarketAssumption, FS_Subset
    <2>2. added[f] \in Nat
        BY <1>3
    <2>3. h[p] = g[p] + added[f]
        <3>1. h[p] = positions'[m][p][f] /\ g[p] = positions[m][p][f]
            BY <1>1 DEF Column
        <3>2. QED
            BY <1>6, <3>1
    <2>4. \A q \in Accounts \ {p} : h[q] = g[q]
        BY <1>1, <1>5 DEF Column
    <2>5. h \in [Accounts -> Int]
        <3>1. DOMAIN h = Accounts /\ h = [q \in Accounts |-> h[q]]
            BY DEF Column
        <3>2. g[p] \in Int /\ \A q \in Accounts : g[q] \in Int
            BY <1>1, <2>1
        <3> HIDE DEF g, h, added
        <3>3. \A q \in Accounts : h[q] \in Int
            BY <2>2, <2>3, <2>4, <3>2
        <3>4. QED
            BY <3>1, <3>3
    <2> HIDE DEF g, h, added
    <2>6. SumFunctionOnSet(h, U) = SumFunctionOnSet(g, U) + added[f]
        BY <1>9, <2>1, <2>2, <2>3, <2>4, <2>5, SumAdds
    <2>7. QED
        BY <2>6 DEF g, h
<1>10. TotalsMatch'
    <2> SUFFICES ASSUME NEW k \in Matches, NEW f \in Columns
                 PROVE  books'[k][f] = SumFunctionOnSet(Column(FieldOf(f), k)', Unclaimed(k)')
        BY DEF TotalsMatch
    <2>1. books[k][f] = SumFunctionOnSet(Column(FieldOf(f), k), Unclaimed(k))
        BY <1>0 DEF TotalsMatch
    <2>2. CASE k # m
        <3>1. books'[k] = books[k] /\ Column(FieldOf(f), k)' = Column(FieldOf(f), k)
            BY <1>4, <1>5, <2>2 DEF Column
        <3>2. QED
            BY <1>8, <2>1, <3>1
    <2>3. CASE k = m
        <3>1. books'[m][f] = books[m][f] + added[FieldOf(f)]
            BY <1>4 DEF Columns, FieldOf
        <3>2. FieldOf(f) \in {"a", "b", "paid"} /\ Unclaimed(m) \in SUBSET Accounts
            BY DEF FieldOf, Columns, Unclaimed
        <3>3. SumFunctionOnSet(Column(FieldOf(f), m)', Unclaimed(m))
                  = SumFunctionOnSet(Column(FieldOf(f), m), Unclaimed(m)) + added[FieldOf(f)]
            BY <1>7, <1>9, <3>2
        <3>4. QED
            BY <1>1, <1>8, <2>1, <2>3, <3>1, <3>3, Zenon
    <2>4. QED
        BY <2>2, <2>3
<1>11. PressureMatch'
    <2> SUFFICES ASSUME NEW k \in Matches
                 PROVE  SumFunctionOnSet(paidBySide'[k], Sides) = SumFunctionOnSet(Column("paid", k)', Accounts)
        BY DEF PressureMatch
    <2>1. SumFunctionOnSet(paidBySide[k], Sides) = SumFunctionOnSet(Column("paid", k), Accounts)
        BY <1>0 DEF PressureMatch
    <2>2. CASE k # m
        <3>1. paidBySide'[k] = paidBySide[k] /\ Column("paid", k)' = Column("paid", k)
            BY <1>0, <1>1, <1>2, <1>5, <2>2 DEF Column, TypeOK
        <3>2. QED
            BY <2>1, <3>1
    <2>3. CASE k = m
        <3> DEFINE g == paidBySide[m]
                   h == paidBySide'[m]
        <3>1. /\ h[o.side] = g[o.side] + amount /\ \A s \in Sides \ {o.side} : h[s] = g[s]
              /\ g \in [Sides -> Int] /\ h \in [Sides -> Int] /\ amount \in Int
            BY <1>0, <1>1, <1>2, <1>3 DEF TypeOK
        <3>2. IsFiniteSet(Sides)
            BY SidesFinite
        <3> HIDE DEF g, h
        <3>3. SumFunctionOnSet(h, Sides) = SumFunctionOnSet(g, Sides) + amount
            BY <1>1, <3>1, <3>2, SumAdds
        <3>4. SumFunctionOnSet(Column("paid", m)', Accounts)
                  = SumFunctionOnSet(Column("paid", m), Accounts) + amount
            BY <1>1, <1>9
        <3>5. QED
            BY <2>1, <2>3, <3>3, <3>4, Zenon DEF g, h
    <2>4. QED
        BY <2>2, <2>3
<1>12. ClaimsSettled' /\ ClaimsRecorded'
    <2>1. \A k \in Matches, q \in Accounts : positions'[k][q].claimed = positions[k][q].claimed
        BY <1>1, <1>5, <1>6
    <2>2. QED
        BY <1>0, <1>2, <2>1 DEF ClaimsSettled, ClaimsRecorded, Settled, payoutVars, resultVars
<1>13. QED
    BY <1>10, <1>11, <1>12

\* A claim takes one position out of its book, for good.
LEMMA BookedClaim == IInv /\ Booked /\ ClaimStep => Booked'
<1> SUFFICES ASSUME IInv, Booked, NEW m \in Matches, NEW p \in Accounts, NEW ok \in BOOLEAN, Claim(m, p, ok)
             PROVE  Booked'
    BY DEF ClaimStep
<1> USE DEF Booked
<1> DEFINE pos == positions[m][p]
           amount == PayoutOf(m, pos)
<1>0. TypeOK /\ TotalsMatch /\ PressureMatch /\ ClaimsSettled /\ ClaimsRecorded
    BY DEF IInv
<1>1. pos \in Position /\ books[m] \in Book
    BY <1>0 DEF TypeOK
<1>2. /\ Settled(m) /\ ~pos.claimed
      /\ positions' = [positions EXCEPT ![m][p] = [@ EXCEPT !.claimed = TRUE]]
      /\ books' = [books EXCEPT ![m] = ClaimBook(@, pos, amount)]
      /\ SchedulePayout(<<0, m, p>>, amount, ok)
      /\ UNCHANGED <<resultVars, paidBySide>>
    BY DEF Claim
<1>3. /\ books'[m].a = books[m].a - pos.a /\ books'[m].b = books[m].b - pos.b
      /\ books'[m].totalPaid = books[m].totalPaid - pos.paid
      /\ \A k \in Matches \ {m} : books'[k] = books[k]
    BY <1>0, <1>2 DEF TypeOK, ClaimBook
<1>4. /\ positions'[m][p] = [pos EXCEPT !.claimed = TRUE]
      /\ \A q \in Accounts \ {p} : positions'[m][q] = positions[m][q]
      /\ \A k \in Matches \ {m} : positions'[k] = positions[k]
    BY <1>0, <1>2 DEF TypeOK
<1>5. \A f \in {"a", "b", "paid"} : positions'[m][p][f] = positions[m][p][f]
    BY <1>1, <1>4 DEF Position
<1>6. positions'[m][p].claimed
    BY <1>1, <1>4 DEF Position
<1> HIDE DEF amount
<1>7. \A k \in Matches, f \in {"a", "b", "paid"} : Column(f, k)' = Column(f, k)
    <2> SUFFICES ASSUME NEW k \in Matches, NEW f \in {"a", "b", "paid"}
                 PROVE  Column(f, k)' = Column(f, k)
        OBVIOUS
    <2>1. \A q \in Accounts : positions'[k][q][f] = positions[k][q][f]
        BY <1>4, <1>5
    <2>2. QED
        BY <2>1 DEF Column
<1>8. Unclaimed(m)' = Unclaimed(m) \ {p} /\ p \in Unclaimed(m)
    BY <1>2, <1>4, <1>6 DEF Unclaimed
<1>9. \A k \in Matches \ {m} : Unclaimed(k)' = Unclaimed(k)
    BY <1>4 DEF Unclaimed
<1> HIDE DEF pos
<1>10. TotalsMatch'
    <2> SUFFICES ASSUME NEW k \in Matches, NEW f \in Columns
                 PROVE  books'[k][f] = SumFunctionOnSet(Column(FieldOf(f), k)', Unclaimed(k)')
        BY DEF TotalsMatch
    <2>1. books[k][f] = SumFunctionOnSet(Column(FieldOf(f), k), Unclaimed(k))
        BY <1>0 DEF TotalsMatch
    <2>2. FieldOf(f) \in {"a", "b", "paid"}
        BY DEF FieldOf, Columns
    <2>3. CASE k # m
        BY <1>3, <1>7, <1>9, <2>1, <2>2, <2>3
    <2>4. CASE k = m
        <3> DEFINE g == Column(FieldOf(f), m)
        <3>1. books'[m][f] = books[m][f] - g[p]
            BY <1>3 DEF Columns, FieldOf, Column, pos
        <3>2. g \in [Accounts -> Int] /\ Unclaimed(m) \in SUBSET Accounts /\ IsFiniteSet(Unclaimed(m))
            BY <1>0, <2>2, ColumnType
        <3>3. Column(FieldOf(f), m)' = g
            BY <1>7, <2>2
        <3> HIDE DEF g
        <3>4. SumFunctionOnSet(g, Unclaimed(m) \ {p}) = SumFunctionOnSet(g, Unclaimed(m)) - g[p]
            BY <1>8, <3>2, SumDrops
        <3>5. books[m][f] = SumFunctionOnSet(g, Unclaimed(m))
            BY <2>1, <2>4 DEF g
        <3>6. QED
            BY <1>8, <2>4, <3>1, <3>3, <3>4, <3>5, Zenon
    <2>5. QED
        BY <2>3, <2>4
<1>11. PressureMatch'
    <2>1. \A k \in Matches : Column("paid", k)' = Column("paid", k)
        BY <1>7
    <2>2. QED
        BY <1>0, <1>2, <2>1 DEF PressureMatch
<1>12. ClaimsSettled'
    <2>1. \A k \in Matches : Settled(k)' = Settled(k)
        BY <1>2 DEF Settled, resultVars
    <2>2. \A k \in Matches, q \in Accounts : (k # m \/ q # p) => positions'[k][q] = positions[k][q]
        BY <1>4
    <2>3. QED
        BY <1>0, <1>2, <2>1, <2>2 DEF ClaimsSettled
<1>13. ClaimsRecorded'
    <2>1. \A id \in PayoutIds \ {<<0, m, p>>} : payouts'[id] = payouts[id]
        BY <1>0, <1>2 DEF SchedulePayout, TypeOK, PayoutTypeOK
    <2>2. \A k \in Matches, q \in Accounts :
              k # m \/ q # p => <<0, k, q>> \in PayoutIds \ {<<0, m, p>>} /\ positions'[k][q] = positions[k][q]
        BY <1>4, MarketAssumption
    <2>3. QED
        BY <1>0, <1>6, <2>1, <2>2 DEF ClaimsRecorded
<1>14. QED
    BY <1>10, <1>11, <1>12, <1>13

\* Every step keeps books, positions and payouts in agreement.
LEMMA BookedKept == IInv /\ FreshBooks /\ Booked /\ [Next]_vars => Booked'
<1> SUFFICES ASSUME IInv, FreshBooks, Booked, [Next]_vars PROVE Booked'
    OBVIOUS
<1> USE DEF Booked
<1>0. TypeOK /\ TotalsMatch /\ PressureMatch /\ ClaimsSettled /\ ClaimsRecorded /\ ResultsTypeOK
    BY DEF IInv, TypeOK
<1>1. CASE VaultStep \/ SetPaused \/ SignStep \/ UNCHANGED vars
    <2>1. UNCHANGED <<books, positions, paidBySide, payouts, resultVars>>
        BY <1>1 DEF VaultStep, SetPaused, SignStep, SignBet, vars, payoutVars, marketVars
    <2>2. \A m \in Matches : Settled(m) => Settled(m)'
        BY <2>1 DEF Settled, resultVars
    <2>3. QED
        BY <2>1, <2>2, BookedFrame
<1>2. CASE GameStep
    <2>1. UNCHANGED <<books, positions, paidBySide, payouts>>
        BY <1>2 DEF GameStep, payoutVars, marketVars
    <2>2. QED
        BY <1>0, <1>2, <2>1, BookedFrame, SettledStays DEF GameStep
<1>3. ASSUME UNCHANGED <<positions, paidBySide, payouts, resultVars>>,
             \A m \in Matches, f \in Columns : books'[m][f] = books[m][f]
      PROVE  Booked'
    <2>1. TotalsMatch'
        BY <1>0, <1>3 DEF TotalsMatch, Column, Unclaimed
    <2>2. PressureMatch'
        BY <1>0, <1>3 DEF PressureMatch, Column
    <2>3. ClaimsSettled' /\ ClaimsRecorded'
        BY <1>0, <1>3 DEF ClaimsSettled, ClaimsRecorded, Settled, resultVars
    <2>4. QED
        BY <2>1, <2>2, <2>3
<1>4. CASE OpenStep
    <2>1. PICK m \in Matches, l \in Liquidities, extra \in ExtraSeeds :
              Open(m, l, Cost(0, 0, l) + SeedMargin + extra)
        BY <1>4 DEF OpenStep
    <2> DEFINE value == Cost(0, 0, l) + SeedMargin + extra
    <2>2. /\ books[m] = NoBook
          /\ books' = [books EXCEPT ![m] = [a |-> 0, b |-> 0, liquidity |-> l, reserve |-> value,
                                             totalPaid |-> 0]]
          /\ UNCHANGED <<positions, paidBySide, payouts, resultVars>>
        BY <2>1 DEF Open, FreshBooks, payoutVars
    <2> HIDE DEF value
    <2>3. /\ \A k \in Matches \ {m} : books'[k] = books[k]
          /\ books'[m] = [a |-> 0, b |-> 0, liquidity |-> l, reserve |-> value, totalPaid |-> 0]
        BY <1>0, <2>2 DEF TypeOK
    <2>4. \A f \in Columns : books'[m][f] = books[m][f]
        BY <2>2, <2>3 DEF Columns, NoBook
    <2>5. QED
        BY <1>3, <2>2, <2>3, <2>4
<1>5. CASE ReclaimStep
    <2>1. PICK m \in Matches : Reclaim(m)
        BY <1>5 DEF ReclaimStep
    <2> DEFINE owed == Liability(m)
    <2>2. /\ books' = [books EXCEPT ![m] = [@ EXCEPT !.reserve = owed]]
          /\ UNCHANGED <<positions, paidBySide, payouts, resultVars>>
        BY <2>1 DEF Reclaim, payoutVars
    <2> HIDE DEF owed
    <2>3. /\ \A k \in Matches \ {m} : books'[k] = books[k]
          /\ books'[m] = [books[m] EXCEPT !.reserve = owed] /\ books[m] \in Book
        BY <1>0, <2>2 DEF TypeOK
    <2>4. \A f \in Columns : books'[m][f] = books[m][f]
        BY <2>3 DEF Columns, Book
    <2>5. QED
        BY <1>3, <2>2, <2>3, <2>4
<1>6. CASE RetryStep
    <2>1. PICK id \in PayoutIds, ok \in BOOLEAN : Retry(id, ok)
        BY <1>6 DEF RetryStep
    <2>2. UNCHANGED <<resultVars, books, positions, paidBySide>>
        BY <2>1 DEF Retry
    <2>3. \A x \in PayoutIds : payouts'[x].status # 0 => payouts[x].status # 0
        BY <1>0, <2>1 DEF Retry, RetryPayout, TypeOK, PayoutTypeOK
    <2>4. TotalsMatch'
        BY <1>0, <2>2 DEF TotalsMatch, Column, Unclaimed
    <2>5. PressureMatch'
        BY <1>0, <2>2 DEF PressureMatch, Column
    <2>6. ClaimsSettled'
        BY <1>0, <2>2 DEF ClaimsSettled, Settled, resultVars
    <2>7. ClaimsRecorded'
        BY <1>0, <2>2, <2>3, MarketAssumption DEF ClaimsRecorded
    <2>8. QED
        BY <2>4, <2>5, <2>6, <2>7
<1>7. QED
    BY <1>1, <1>2, <1>4, <1>5, <1>6, BookedBuy, BookedClaim DEF Next

-----------------------------------------------------------------------------
(* Signed limits. *)

\* The orders whose nonce has been consumed, and what they allow.
UsedBets(p) == {o \in bets : o.player = p /\ o.nonce < betNonces[p]}
UsedWithdrawals == {o \in withdrawals : o.nonce < vaultNonces[o.player]}
LimitOf == [o \in Bet |-> o.maxCost]
SignedOf == [o \in Withdrawal |-> o.amount]

PaidBy(p) == [m \in Matches |-> positions[m][p].paid]
Pressure == [m \in Matches |-> SumFunctionOnSet(paidBySide[m], Sides)]

\* What an account paid is within the consumed bets it signed; what left the
\* vault is in the market or within the consumed withdrawals.
BetsWithin ==
    \A p \in Accounts : SumFunctionOnSet(PaidBy(p), Matches) <= SumFunctionOnSet(LimitOf, UsedBets(p))
WithdrawnWithin ==
    deposited <= vaultFunds + SumFunctionOnSet(Pressure, Matches)
                            + SumFunctionOnSet(SignedOf, UsedWithdrawals)
FiniteOrders == IsFiniteSet(bets) /\ IsFiniteSet(withdrawals)

Limited == FiniteOrders /\ BetsWithin /\ WithdrawnWithin

\* The sums of Limited are sums of natural numbers.
LEMMA LimitTypes ==
    ASSUME TypeOK
    PROVE  /\ LimitOf \in [Bet -> Nat] /\ SignedOf \in [Withdrawal -> Nat]
           /\ \A p \in Accounts : PaidBy(p) \in [Matches -> Nat] /\ UsedBets(p) \in SUBSET Bet
           /\ Pressure \in [Matches -> Nat] /\ UsedWithdrawals \in SUBSET Withdrawal
<1>1. \A o \in Bet : o.maxCost \in Nat
    BY DEF Bet
<1>2. \A o \in Withdrawal : o.amount \in Nat
    BY DEF Withdrawal
<1>3. \A m \in Matches, p \in Accounts : positions[m][p].paid \in Nat
    BY DEF TypeOK, Position
<1>4. \A m \in Matches : SumFunctionOnSet(paidBySide[m], Sides) \in Nat
    <2>1. \A m \in Matches : paidBySide[m] \in [Sides -> Nat]
        BY DEF TypeOK
    <2>2. QED
        BY <2>1, SidesFinite, SumOfPart
<1>5. bets \subseteq Bet /\ withdrawals \subseteq Withdrawal
    BY DEF TypeOK, VaultTypeOK
<1>6. QED
    BY <1>1, <1>2, <1>3, <1>4, <1>5 DEF LimitOf, SignedOf, PaidBy, Pressure, UsedBets, UsedWithdrawals

\* Consuming more orders allows no less.
LEMMA MoreOrders ==
    ASSUME NEW S, NEW g \in [S -> Nat], NEW U \in SUBSET S, NEW V \in SUBSET S, U \subseteq V, IsFiniteSet(V)
    PROVE  /\ SumFunctionOnSet(g, U) \in Nat /\ SumFunctionOnSet(g, V) \in Nat
           /\ SumFunctionOnSet(g, U) <= SumFunctionOnSet(g, V)
BY SumOfPart

\* Consuming one more order allows at least its own limit more.
LEMMA OneMoreOrder ==
    ASSUME NEW S, NEW g \in [S -> Nat], NEW U \in SUBSET S, NEW V \in SUBSET S, U \subseteq V,
           IsFiniteSet(V), NEW o \in V, o \notin U
    PROVE  /\ SumFunctionOnSet(g, U) \in Nat /\ SumFunctionOnSet(g, V) \in Nat /\ g[o] \in Nat
           /\ SumFunctionOnSet(g, U) + g[o] <= SumFunctionOnSet(g, V)
<1>1. IsFiniteSet(U) /\ g \in [S -> Int] /\ U \cup {o} \in SUBSET V /\ o \in S \ U
    BY FS_Subset
<1>2. SumFunctionOnSet(g, U \cup {o}) = SumFunctionOnSet(g, U) + g[o]
    BY <1>1, SumGrows
<1>3. /\ SumFunctionOnSet(g, U \cup {o}) <= SumFunctionOnSet(g, V)
      /\ SumFunctionOnSet(g, U) \in Nat /\ SumFunctionOnSet(g, V) \in Nat
    BY <1>1, SumOfPart
<1>4. QED
    BY <1>1, <1>2, <1>3

\* A signature consumes nothing.
LEMMA LimitedSign == TypeOK /\ Limited /\ SignStep => Limited'
<1> SUFFICES ASSUME TypeOK, Limited, NEW p \in Bettors, NEW m \in Matches, NEW side \in Sides, NEW n \in Shares,
                    NEW limit \in CostLimits, NEW d \in now..MaxTime, SignBet(p, m, side, n, limit, d)
             PROVE  Limited'
    BY DEF SignStep
<1> DEFINE order == [player |-> p, match |-> m, side |-> side, shares |-> n, maxCost |-> limit,
                     version |-> version[m], nonce |-> betNonces[p], deadline |-> d]
<1>1. /\ bets' = bets \cup {order}
      /\ UNCHANGED <<withdrawals, vaultNonces, deposited, vaultFunds, positions, paidBySide, betNonces>>
    BY DEF SignBet, vaultVars
<1>2. order.player = p /\ order.nonce = betNonces[p]
    OBVIOUS
<1> HIDE DEF order
<1>3. FiniteOrders'
    BY <1>1, FS_AddElement DEF Limited, FiniteOrders
<1>4. \A q \in Accounts : UsedBets(q)' = UsedBets(q)
    <2>1. ~(betNonces[p] < betNonces[p])
        <3>1. betNonces[p] \in Nat
            BY MarketAssumption DEF TypeOK
        <3>2. QED
            BY <3>1
    <2>2. QED
        BY <1>1, <1>2, <2>1 DEF UsedBets
<1>5. BetsWithin'
    BY <1>1, <1>4 DEF Limited, BetsWithin, PaidBy
<1>6. WithdrawnWithin'
    BY <1>1 DEF Limited, WithdrawnWithin, Pressure, UsedWithdrawals
<1>7. QED
    BY <1>3, <1>5, <1>6 DEF Limited

\* A purchase costs its bettor no more than the order it consumes.
LEMMA LimitedBuy == IInv /\ IInv' /\ Limited /\ BuyStep => Limited'
<1> SUFFICES ASSUME IInv, IInv', Limited, NEW o \in bets, Buy(o) PROVE Limited'
    BY DEF BuyStep
<1> DEFINE m == o.match
           p == o.player
           amount == Quote(books[m], o.side, o.shares)
<1>0. TypeOK /\ TypeOK' /\ FiniteOrders /\ BetsWithin /\ WithdrawnWithin
    BY DEF IInv, Limited
<1>1. /\ m \in Matches /\ p \in Accounts /\ o.side \in Sides /\ o.shares \in Nat /\ books[m] \in Book
      /\ o \in Bet
    BY <1>0 DEF TypeOK, Bet
<1>2. /\ books[m].liquidity > 0 /\ amount <= o.maxCost /\ o.nonce = betNonces[p]
      /\ books[m].a + On("A", o.side, o.shares) <= MaxShares
      /\ books[m].b + On("B", o.side, o.shares) <= MaxShares
      /\ positions' = [positions EXCEPT ![m][p] = Held(@, o.side, o.shares, amount)]
      /\ paidBySide' = [paidBySide EXCEPT ![m][o.side] = @ + amount]
      /\ betNonces' = [betNonces EXCEPT ![p] = @ + 1]
      /\ vaultFunds' = vaultFunds - amount
      /\ UNCHANGED <<bets, deposited, vaultNonces, withdrawals>>
    BY DEF Buy, Bought, UseNonce, Debit
<1>3. amount \in Nat
    BY <1>1, <1>2, QuoteType
<1> HIDE DEF amount, m, p
<1>4. FiniteOrders'
    BY <1>0, <1>2 DEF FiniteOrders
<1>5. BetsWithin'
    <2> SUFFICES ASSUME NEW q \in Accounts
                 PROVE  SumFunctionOnSet(PaidBy(q)', Matches) <= SumFunctionOnSet(LimitOf, UsedBets(q)')
        BY DEF BetsWithin
    <2>1. SumFunctionOnSet(PaidBy(q), Matches) <= SumFunctionOnSet(LimitOf, UsedBets(q))
        BY <1>0 DEF BetsWithin
    <2>2. CASE q # p
        <3>1. PaidBy(q)' = PaidBy(q)
            <4>1. \A k \in Matches : positions'[k][q] = positions[k][q]
                BY <1>0, <1>1, <1>2, <2>2 DEF TypeOK
            <4>2. QED
                BY <4>1 DEF PaidBy
        <3>2. UsedBets(q)' = UsedBets(q)
            BY <1>0, <1>1, <1>2, <2>2 DEF UsedBets, TypeOK
        <3>3. QED
            BY <2>1, <3>1, <3>2
    <2>3. CASE q = p
        <3> DEFINE g == PaidBy(p)
                   h == PaidBy(p)'
                   used == UsedBets(p)
                   more == UsedBets(p)'
        <3>1. g \in [Matches -> Nat] /\ g \in [Matches -> Int] /\ h \in [Matches -> Int]
            <4>1. g \in [Matches -> Nat]
                BY <1>0, <1>1, LimitTypes
            <4>2. \A k \in Matches : positions'[k][p].paid \in Nat
                BY <1>0, <1>1 DEF TypeOK, Position
            <4>3. QED
                BY <4>1, <4>2 DEF PaidBy
        <3>2. /\ positions'[m][p] = Held(positions[m][p], o.side, o.shares, amount)
              /\ \A k \in Matches \ {m} : positions'[k] = positions[k]
            BY <1>0, <1>1, <1>2 DEF TypeOK
        <3>3. h[m] = g[m] + amount /\ \A k \in Matches \ {m} : h[k] = g[k]
            BY <1>1, <3>2 DEF PaidBy, Held
        <3>4. betNonces'[p] = betNonces[p] + 1 /\ betNonces[p] \in Nat
            BY <1>0, <1>1, <1>2 DEF TypeOK
        <3>5. /\ used \in SUBSET Bet /\ more \in SUBSET Bet /\ IsFiniteSet(more)
              /\ used \subseteq more /\ o \in more /\ o \notin used
            <4>1. used \in SUBSET Bet /\ more \in SUBSET Bet
                BY <1>0, <1>1, <1>2 DEF UsedBets, TypeOK
            <4>2. more \subseteq bets
                BY <1>2 DEF UsedBets
            <4>3. IsFiniteSet(more)
                BY <1>0, <4>2, FS_Subset DEF FiniteOrders
            <4>4. \A x \in bets : x.nonce \in Nat
                BY <1>0 DEF TypeOK, Bet
            <4>5. used \subseteq more /\ o \in more /\ o \notin used
                BY <1>2, <3>4, <4>4 DEF UsedBets, p
            <4>6. QED
                BY <4>1, <4>3, <4>5
        <3>6. LimitOf \in [Bet -> Nat] /\ LimitOf[o] = o.maxCost
            BY <1>0, <1>1, LimitTypes DEF LimitOf
        <3> HIDE DEF g, h, used, more
        <3>7. SumFunctionOnSet(h, Matches) = SumFunctionOnSet(g, Matches) + amount
            BY <1>1, <1>3, <3>1, <3>3, MarketAssumption, SumAdds
        <3>8. /\ SumFunctionOnSet(LimitOf, used) \in Nat /\ SumFunctionOnSet(LimitOf, more) \in Nat
              /\ LimitOf[o] \in Nat
              /\ SumFunctionOnSet(LimitOf, used) + LimitOf[o] <= SumFunctionOnSet(LimitOf, more)
            BY <3>5, <3>6, OneMoreOrder
        <3>9. SumFunctionOnSet(g, Matches) \in Nat
            BY <3>1, MarketAssumption, SumOfPart
        <3>10. SumFunctionOnSet(g, Matches) <= SumFunctionOnSet(LimitOf, used)
            BY <2>1, <2>3 DEF g, used
        <3>11. amount <= LimitOf[o]
            BY <1>2, <3>6
        <3>12. SumFunctionOnSet(h, Matches) <= SumFunctionOnSet(LimitOf, more)
            BY ONLY <1>3, <3>7, <3>8, <3>9, <3>10, <3>11
        <3>13. QED
            BY <2>3, <3>12 DEF h, more
    <2>4. QED
        BY <2>2, <2>3
<1>6. WithdrawnWithin'
    <2> DEFINE g == Pressure
               h == Pressure'
               signed == SumFunctionOnSet(SignedOf, UsedWithdrawals)
    <2>1. /\ g \in [Matches -> Nat] /\ g \in [Matches -> Int]
        BY <1>0, LimitTypes
    <2>2. \A k \in Matches \ {m} : paidBySide'[k] = paidBySide[k]
        BY <1>0, <1>1, <1>2 DEF TypeOK
    <2>3. SumFunctionOnSet(paidBySide'[m], Sides) = SumFunctionOnSet(paidBySide[m], Sides) + amount
        <3> DEFINE x == paidBySide[m]
                   y == paidBySide'[m]
        <3>1. /\ y[o.side] = x[o.side] + amount /\ \A s \in Sides \ {o.side} : y[s] = x[s]
              /\ x \in [Sides -> Int] /\ y \in [Sides -> Int] /\ amount \in Int
            BY <1>0, <1>1, <1>2, <1>3 DEF TypeOK
        <3> HIDE DEF x, y
        <3>2. SumFunctionOnSet(y, Sides) = SumFunctionOnSet(x, Sides) + amount
            BY <1>1, <3>1, SidesFinite, SumAdds
        <3>3. QED
            BY <3>2 DEF x, y
    <2>4. h[m] = g[m] + amount /\ \A k \in Matches \ {m} : h[k] = g[k]
        BY <1>1, <2>2, <2>3 DEF Pressure
    <2>5. h \in [Matches -> Int]
        <3>1. h = [k \in Matches |-> h[k]]
            BY DEF Pressure
        <3>2. \A k \in Matches : g[k] \in Int
            BY <2>1
        <3> HIDE DEF g, h
        <3>3. \A k \in Matches : h[k] \in Int
            BY <1>3, <1>1, <2>4, <3>2
        <3>4. QED
            BY <3>1, <3>3
    <2>6. UsedWithdrawals' = UsedWithdrawals
        BY <1>2 DEF UsedWithdrawals
    <2>7. deposited <= vaultFunds + SumFunctionOnSet(g, Matches) + signed
        BY <1>0 DEF WithdrawnWithin
    <2>8. signed \in Nat
        <3>1. IsFiniteSet(UsedWithdrawals)
            BY <1>0, FS_Subset DEF FiniteOrders, UsedWithdrawals
        <3>2. QED
            BY <1>0, <3>1, LimitTypes, SumOfPart
    <2>9. deposited \in Nat /\ vaultFunds \in Nat
        BY <1>0 DEF TypeOK, VaultTypeOK
    <2> HIDE DEF g, h, signed
    <2>10. SumFunctionOnSet(h, Matches) = SumFunctionOnSet(g, Matches) + amount
        BY <1>1, <1>3, <2>1, <2>4, <2>5, MarketAssumption, SumAdds
    <2>11. SumFunctionOnSet(g, Matches) \in Nat
        BY <2>1, MarketAssumption, SumOfPart
    <2>12. vaultFunds' = vaultFunds - amount /\ deposited' = deposited
        BY <1>2
    <2>13. deposited' <= vaultFunds' + SumFunctionOnSet(h, Matches) + signed
        BY ONLY <1>3, <2>7, <2>8, <2>9, <2>10, <2>11, <2>12
    <2>14. QED
        BY <2>6, <2>13 DEF WithdrawnWithin, h, signed
<1>7. QED
    BY <1>4, <1>5, <1>6 DEF Limited

\* Deposits add credit, withdrawals consume what was signed.
LEMMA LimitedVault == TypeOK /\ TypeOK' /\ Limited /\ VaultStep => Limited'
<1> SUFFICES ASSUME TypeOK, TypeOK', Limited, VaultStep PROVE Limited'
    OBVIOUS
<1> DEFINE market == SumFunctionOnSet(Pressure, Matches)
           signed == SumFunctionOnSet(SignedOf, UsedWithdrawals)
           signed2 == SumFunctionOnSet(SignedOf, UsedWithdrawals')
<1>0. VaultTypeOK /\ VaultTypeOK' /\ FiniteOrders /\ BetsWithin /\ WithdrawnWithin
    BY DEF TypeOK, Limited
<1>1. UNCHANGED <<bets, positions, paidBySide, betNonces>> /\ VaultNext
    BY DEF VaultStep, marketVars
<1>2. BetsWithin'
    BY <1>0, <1>1 DEF BetsWithin, PaidBy, UsedBets
<1>3. market \in Nat /\ signed \in Nat /\ deposited \in Nat /\ vaultFunds \in Nat
    <2>1. IsFiniteSet(UsedWithdrawals)
        BY <1>0, FS_Subset DEF FiniteOrders, UsedWithdrawals
    <2>2. QED
        BY <1>0, <2>1, LimitTypes, MarketAssumption, SumOfPart DEF VaultTypeOK
<1>4. deposited <= vaultFunds + market + signed
    BY <1>0 DEF WithdrawnWithin
<1>5. Pressure' = Pressure
    BY <1>1 DEF Pressure
<1>6. (deposited' <= vaultFunds' + market + signed2) => WithdrawnWithin'
    BY <1>5 DEF WithdrawnWithin
<1>7. ASSUME UNCHANGED <<deposited, vaultFunds, vaultNonces, withdrawals>> PROVE Limited'
    BY <1>0, <1>1, <1>2, <1>5, <1>7 DEF Limited, FiniteOrders, WithdrawnWithin, UsedWithdrawals
<1>8. CASE Tick
    BY <1>7, <1>8 DEF Tick
<1>9. CASE \E p \in Accounts, v \in Deposits : DepositFor(p, v)
    <2>1. PICK p \in Accounts, v \in Deposits : DepositFor(p, v)
        BY <1>9
    <2>2. /\ deposited' = deposited + v /\ vaultFunds' = vaultFunds + v /\ v \in Nat
          /\ UNCHANGED <<vaultNonces, withdrawals>>
        BY <2>1, VaultAssumption DEF DepositFor
    <2>3. signed2 = signed /\ FiniteOrders'
        BY <1>0, <1>1, <2>2 DEF UsedWithdrawals, FiniteOrders
    <2> HIDE DEF market, signed, signed2
    <2>4. deposited' <= vaultFunds' + market + signed2
        BY ONLY <1>3, <1>4, <2>2, <2>3
    <2>5. QED
        BY <1>2, <1>6, <2>3, <2>4 DEF Limited
<1>10. CASE \E p \in Accounts, a \in Deposits \ {0}, d \in now..MaxTime : SignWithdrawal(p, a, d)
    <2>1. PICK p \in Accounts, a \in Deposits \ {0}, d \in now..MaxTime : SignWithdrawal(p, a, d)
        BY <1>10
    <2> DEFINE order == [player |-> p, amount |-> a, nonce |-> vaultNonces[p], deadline |-> d]
    <2>2. /\ withdrawals' = withdrawals \cup {order}
          /\ UNCHANGED <<deposited, vaultFunds, vaultNonces>>
        BY <2>1 DEF SignWithdrawal
    <2>3. order.player = p /\ order.nonce = vaultNonces[p] /\ vaultNonces[p] \in Nat
        BY <1>0 DEF VaultTypeOK
    <2> HIDE DEF order
    <2>4. ~(vaultNonces[p] < vaultNonces[p])
        BY <2>3
    <2>5. UsedWithdrawals' = UsedWithdrawals
        BY <2>2, <2>3, <2>4 DEF UsedWithdrawals
    <2>6. FiniteOrders'
        BY <1>0, <1>1, <2>2, FS_AddElement DEF FiniteOrders
    <2>7. QED
        BY <1>2, <1>4, <1>6, <2>2, <2>5, <2>6 DEF Limited
<1>11. CASE \E o \in withdrawals : Withdraw(o)
    <2>1. PICK o \in withdrawals : Withdraw(o)
        BY <1>11
    <2>2. o \in Withdrawal /\ o.player \in Accounts /\ o.amount \in Nat
        BY <1>0 DEF VaultTypeOK, Withdrawal
    <2>3. /\ o.nonce = vaultNonces[o.player]
          /\ vaultNonces' = [vaultNonces EXCEPT ![o.player] = @ + 1]
          /\ vaultFunds' = vaultFunds - o.amount /\ UNCHANGED <<deposited, withdrawals>>
        BY <2>1 DEF Withdraw
    <2>4. /\ UsedWithdrawals \in SUBSET Withdrawal /\ UsedWithdrawals' \in SUBSET Withdrawal
          /\ IsFiniteSet(UsedWithdrawals') /\ UsedWithdrawals \subseteq UsedWithdrawals'
          /\ o \in UsedWithdrawals' /\ o \notin UsedWithdrawals
        <3>1. UsedWithdrawals \in SUBSET Withdrawal /\ UsedWithdrawals' \in SUBSET Withdrawal
            BY LimitTypes, <1>0, <2>3 DEF UsedWithdrawals, VaultTypeOK
        <3>2. UsedWithdrawals' \subseteq withdrawals
            BY <2>3 DEF UsedWithdrawals
        <3>3. IsFiniteSet(UsedWithdrawals')
            BY <1>0, <3>2, FS_Subset DEF FiniteOrders
        <3>4. \A x \in withdrawals : x.nonce \in Nat /\ vaultNonces[x.player] \in Nat /\ x.player \in Accounts
            BY <1>0 DEF VaultTypeOK, Withdrawal
        <3>5. \A x \in withdrawals : vaultNonces'[x.player] =
                  IF x.player = o.player THEN vaultNonces[x.player] + 1 ELSE vaultNonces[x.player]
            BY <1>0, <2>2, <2>3, <3>4 DEF VaultTypeOK
        <3>6. UsedWithdrawals \subseteq UsedWithdrawals' /\ o \in UsedWithdrawals' /\ o \notin UsedWithdrawals
            BY <2>3, <3>4, <3>5 DEF UsedWithdrawals
        <3>7. QED
            BY <3>1, <3>3, <3>6
    <2>5. SignedOf \in [Withdrawal -> Nat] /\ SignedOf[o] = o.amount
        BY <2>2, LimitTypes DEF SignedOf
    <2>6. signed2 \in Nat /\ signed + o.amount <= signed2
        BY <2>4, <2>5, OneMoreOrder
    <2>7. FiniteOrders'
        BY <1>0, <1>1, <2>3 DEF FiniteOrders
    <2> HIDE DEF market, signed, signed2
    <2>8. deposited' <= vaultFunds' + market + signed2
        BY ONLY <1>3, <1>4, <2>2, <2>3, <2>6
    <2>9. QED
        BY <1>2, <1>6, <2>7, <2>8 DEF Limited
<1>12. QED
    BY <1>1, <1>8, <1>9, <1>10, <1>11 DEF VaultNext

\* Every step keeps payments within what was signed.
LEMMA LimitedKept == IInv /\ IInv' /\ Limited /\ [Next]_vars => Limited'
<1> SUFFICES ASSUME IInv, IInv', Limited, [Next]_vars PROVE Limited'
    OBVIOUS
<1>0. TypeOK /\ TypeOK' /\ FiniteOrders /\ BetsWithin /\ WithdrawnWithin
    BY DEF IInv, Limited
<1>1. ASSUME UNCHANGED <<vaultVars, paidBySide, betNonces, bets>>,
             \A m \in Matches, p \in Accounts : positions'[m][p].paid = positions[m][p].paid
      PROVE  Limited'
    <2>1. BetsWithin'
        <3>1. \A p \in Accounts : PaidBy(p)' = PaidBy(p) /\ UsedBets(p)' = UsedBets(p)
            BY <1>1 DEF PaidBy, UsedBets
        <3>2. QED
            BY <1>0, <3>1 DEF BetsWithin
    <2>2. FiniteOrders' /\ WithdrawnWithin'
        BY <1>0, <1>1 DEF FiniteOrders, WithdrawnWithin, Pressure, UsedWithdrawals, vaultVars
    <2>3. QED
        BY <2>1, <2>2 DEF Limited
<1>2. CASE GameStep \/ SetPaused \/ OpenStep \/ RetryStep \/ ReclaimStep \/ UNCHANGED vars
    <2>1. UNCHANGED <<vaultVars, positions, paidBySide, betNonces, bets>>
        BY <1>2 DEF GameStep, SetPaused, OpenStep, Open, RetryStep, Retry, ReclaimStep, Reclaim, vars, marketVars
    <2>2. QED
        BY <1>1, <2>1
<1>3. CASE ClaimStep
    <2>1. PICK m \in Matches, p \in Accounts, ok \in BOOLEAN : Claim(m, p, ok)
        BY <1>3 DEF ClaimStep
    <2>2. /\ positions' = [positions EXCEPT ![m][p] = [@ EXCEPT !.claimed = TRUE]]
          /\ UNCHANGED <<vaultVars, paidBySide, betNonces, bets>>
        BY <2>1 DEF Claim
    <2>3. positions[m][p] \in Position
        BY <1>0 DEF TypeOK
    <2>4. [positions[m][p] EXCEPT !.claimed = TRUE].paid = positions[m][p].paid
        BY <2>3 DEF Position
    <2>5. \A k \in Matches, q \in Accounts : positions'[k][q].paid = positions[k][q].paid
        BY <1>0, <2>2, <2>4 DEF TypeOK
    <2>6. QED
        BY <1>1, <2>2, <2>5
<1>4. QED
    BY <1>0, <1>2, <1>3, LimitedSign, LimitedBuy, LimitedVault DEF Next

-----------------------------------------------------------------------------
(* The theorems. *)

\* The inductive invariant of the accounting: the balance of the contracts,
\* the agreement of books with positions, and the limits of the signed orders.
BInv == IInv /\ Balanced /\ Booked /\ Limited

\* The deployed contracts satisfy it: nothing is booked, owed or credited yet.
LEMMA InitBooks == Init => BInv
<1> SUFFICES ASSUME Init PROVE BInv
    OBVIOUS
<1>1. IInv /\ TypeOK
    BY InitInv DEF IInv
<1>2. Balanced
    <2>1. FreshBooks
        BY DEF Init, FreshBooks
    <2>2. ReserveSum = 0
        <3> DEFINE g == [m \in Matches |-> books[m].reserve]
        <3>1. \A m \in Matches : g[m] = 0
            BY DEF Init, NoBook
        <3> HIDE DEF g
        <3>2. SumFunctionOnSet(g, Matches) = 0
            BY <3>1, MarketAssumption, SumOfZeros
        <3>3. QED
            BY <3>2 DEF g, ReserveSum
    <2>3. Pending = {}
        BY DEF Init, PayoutInit, NoPayout, Pending
    <2>4. PendingSum = 0
        BY <2>3, SumOfNothing DEF PendingSum
    <2>5. SumFunctionOnSet(balances, Accounts) = 0
        <3>1. \A p \in Accounts : balances[p] = 0
            BY DEF Init, VaultInit
        <3>2. QED
            BY <3>1, MarketAssumption, SumOfZeros
    <2>6. QED
        BY <2>1, <2>2, <2>4, <2>5 DEF Balanced, FundsMatch, PendingMatch, CreditMatch, Init, VaultInit, PayoutInit
<1>3. Booked
    <2>1. \A m \in Matches, p \in Accounts : positions[m][p] = NoPosition
        BY DEF Init
    <2>2. ASSUME NEW m \in Matches, NEW f \in {"a", "b", "paid"}, NEW U \in SUBSET Accounts
          PROVE  SumFunctionOnSet(Column(f, m), U) = 0
        <3>1. \A p \in U : Column(f, m)[p] = 0
            BY <2>1 DEF Column, NoPosition
        <3>2. IsFiniteSet(U)
            BY MarketAssumption, FS_Subset
        <3>3. QED
            BY <3>1, <3>2, SumOfZeros
    <2>3. TotalsMatch
        <3> SUFFICES ASSUME NEW m \in Matches, NEW f \in Columns
                     PROVE  books[m][f] = SumFunctionOnSet(Column(FieldOf(f), m), Unclaimed(m))
            BY DEF TotalsMatch
        <3>1. books[m][f] = 0
            BY DEF Init, NoBook, Columns
        <3>2. FieldOf(f) \in {"a", "b", "paid"} /\ Unclaimed(m) \in SUBSET Accounts
            BY DEF FieldOf, Columns, Unclaimed
        <3>3. QED
            BY <2>2, <3>1, <3>2
    <2>4. PressureMatch
        <3>1. ASSUME NEW m \in Matches PROVE SumFunctionOnSet(paidBySide[m], Sides) = 0
            <4>1. \A s \in Sides : paidBySide[m][s] = 0
                BY DEF Init
            <4>2. QED
                BY <4>1, SidesFinite, SumOfZeros
        <3>2. QED
            BY <2>2, <3>1 DEF PressureMatch
    <2>5. ClaimsSettled
        BY <2>1 DEF ClaimsSettled, NoPosition
    <2>6. ClaimsRecorded
        BY MarketAssumption DEF ClaimsRecorded, Init, PayoutInit, NoPayout
    <2>7. QED
        BY <2>3, <2>4, <2>5, <2>6 DEF Booked
<1>4. Limited
    <2>1. bets = {} /\ withdrawals = {} /\ FiniteOrders
        BY FS_EmptySet DEF Init, VaultInit, FiniteOrders
    <2>2. BetsWithin
        <3> SUFFICES ASSUME NEW p \in Accounts
                     PROVE  SumFunctionOnSet(PaidBy(p), Matches) <= SumFunctionOnSet(LimitOf, UsedBets(p))
            BY DEF BetsWithin
        <3>1. UsedBets(p) = {}
            BY <2>1 DEF UsedBets
        <3>2. \A m \in Matches : PaidBy(p)[m] = 0
            BY DEF PaidBy, Init, NoPosition
        <3>3. SumFunctionOnSet(PaidBy(p), Matches) = 0
            BY <3>2, MarketAssumption, SumOfZeros
        <3>4. QED
            BY <3>1, <3>3, SumOfNothing
    <2>3. WithdrawnWithin
        <3>1. UsedWithdrawals = {} /\ deposited = 0 /\ vaultFunds = 0
            BY <2>1 DEF UsedWithdrawals, Init, VaultInit
        <3>2. SumFunctionOnSet(Pressure, Matches) \in Nat
            BY <1>1, LimitTypes, MarketAssumption, SumOfPart
        <3>3. SumFunctionOnSet(SignedOf, UsedWithdrawals) = 0
            BY <3>1, SumOfNothing
        <3>4. QED
            BY <3>1, <3>2, <3>3 DEF WithdrawnWithin
    <2>4. QED
        BY <2>1, <2>2, <2>3 DEF Limited
<1>5. QED
    BY <1>1, <1>2, <1>3, <1>4 DEF BInv

\* Every step keeps it.
LEMMA StepBooks == BInv /\ [Next]_vars => BInv'
<1> SUFFICES ASSUME BInv, [Next]_vars PROVE BInv'
    OBVIOUS
<1>1. IInv' /\ IInv
    BY StepInv DEF BInv
<1>2. QED
    BY <1>1, BalanceKept, BookedKept, LimitedKept DEF BInv, Balanced

\* The accounting invariant holds in every reachable state.
THEOREM Accounting == Spec => []BInv
BY InitBooks, StepBooks, PTL DEF Spec

\* No MON appears or disappears, for every number of accounts and matches and
\* every order of deposits, purchases, claims, refused transfers and reclaims:
\* the market holds its reserves and its pending debts, the vault its credit.
THEOREM FundsConserved == Spec => []Conservation
<1>1. BInv => Conservation
    BY ConservationIsBalance DEF BInv, Balanced, IInv
<1>2. QED
    BY Accounting, <1>1, PTL

\* The totals of a book, in the words of BooksMatchPositions.
LEMMA TotalsAreSums == IInv /\ Booked => BooksMatchPositions
<1> SUFFICES ASSUME IInv, Booked, NEW m \in Matches
             PROVE  /\ books[m].a = SumFunction([p \in Unclaimed(m) |-> positions[m][p].a])
                    /\ books[m].b = SumFunction([p \in Unclaimed(m) |-> positions[m][p].b])
                    /\ books[m].totalPaid = SumFunction([p \in Unclaimed(m) |-> positions[m][p].paid])
                    /\ SumFunction(paidBySide[m]) = SumFunction([p \in Accounts |-> positions[m][p].paid])
    BY DEF BooksMatchPositions, SumOver
<1>0. TypeOK /\ TotalsMatch /\ PressureMatch
    BY DEF IInv, Booked
<1>1. ASSUME NEW f \in {"a", "b", "paid"}, NEW U \in SUBSET Accounts
      PROVE  SumFunction([p \in U |-> positions[m][p][f]]) = SumFunctionOnSet(Column(f, m), U)
    <2> DEFINE g == [p \in U |-> positions[m][p][f]]
    <2>1. SumFunction(g) = SumFunctionOnSet(g, U)
        BY DEF SumFunction
    <2>2. IsFiniteSet(U) /\ \A p \in U : g[p] = Column(f, m)[p]
        BY MarketAssumption, FS_Subset DEF Column
    <2> HIDE DEF g
    <2>3. SumFunctionOnSet(g, U) = SumFunctionOnSet(Column(f, m), U)
        BY <2>2, SumOfSame
    <2>4. QED
        BY <2>1, <2>3 DEF g
<1>2. Unclaimed(m) \in SUBSET Accounts /\ Accounts \in SUBSET Accounts
    BY DEF Unclaimed
<1>3. /\ books[m].a = SumFunctionOnSet(Column("a", m), Unclaimed(m))
      /\ books[m].b = SumFunctionOnSet(Column("b", m), Unclaimed(m))
      /\ books[m].totalPaid = SumFunctionOnSet(Column("paid", m), Unclaimed(m))
    BY <1>0 DEF TotalsMatch, Columns, FieldOf
<1>4. SumFunction(paidBySide[m]) = SumFunctionOnSet(paidBySide[m], Sides)
    BY <1>0 DEF TypeOK, SumFunction
<1>5. SumFunctionOnSet(paidBySide[m], Sides) = SumFunctionOnSet(Column("paid", m), Accounts)
    BY <1>0 DEF PressureMatch
<1>6. QED
    BY <1>1, <1>2, <1>3, <1>4, <1>5

\* The running totals of every book are its unclaimed positions, and the
\* betting pressure counts every accepted cost once.
THEOREM BooksAgree == Spec => []BooksMatchPositions
<1>1. BInv => BooksMatchPositions
    BY TotalsAreSums DEF BInv
<1>2. QED
    BY Accounting, <1>1, PTL

\* A position that may be claimed is covered by its book, and the book by the
\* market's funds.
LEMMA NothingBlocks == BInv => ClaimNeverBlocked
<1> SUFFICES ASSUME BInv PROVE ClaimNeverBlocked
    OBVIOUS
<1>0. /\ TypeOK /\ Covered /\ FundsMatch /\ PendingMatch /\ TotalsMatch /\ ClaimsRecorded
    BY DEF BInv, IInv, Balanced, Booked
<1>1. ReserveSum \in Nat /\ \A m \in Matches : books[m].reserve <= ReserveSum
    <2> DEFINE g == [m \in Matches |-> books[m].reserve]
    <2>1. g \in [Matches -> Nat]
        BY <1>0 DEF TypeOK, Book
    <2>2. \A m \in Matches : g[m] = books[m].reserve
        OBVIOUS
    <2> HIDE DEF g
    <2>3. SumFunctionOnSet(g, Matches) \in Nat /\ \A m \in Matches : g[m] <= SumFunctionOnSet(g, Matches)
        BY <2>1, MarketAssumption, SumOfOne, SumOfPart
    <2>4. QED
        BY <2>2, <2>3 DEF g, ReserveSum
<1>2. \A id \in Pending : payouts[id].amount <= totalPendingPayouts
    <2>1. AmountOf \in [PayoutIds -> Nat] /\ Pending \in SUBSET PayoutIds /\ IsFiniteSet(Pending)
        BY <1>0, PayoutIdsFinite, FS_Subset DEF AmountOf, Pending, TypeOK, PayoutTypeOK, Payout
    <2>2. \A id \in Pending : AmountOf[id] <= SumFunctionOnSet(AmountOf, Pending)
        BY <2>1, SumOfOne
    <2>3. \A id \in Pending : AmountOf[id] = payouts[id].amount
        BY DEF AmountOf, Pending
    <2>4. QED
        BY <1>0, <2>2, <2>3 DEF PendingMatch, PendingSum
<1>3. marketFunds = ReserveSum + totalPendingPayouts /\ totalPendingPayouts \in Nat
    BY <1>0 DEF FundsMatch, TypeOK, PayoutTypeOK
<1>4. ASSUME NEW m \in Matches, NEW p \in Accounts, Settled(m), ~positions[m][p].claimed,
             positions[m][p].paid > 0
      PROVE  /\ ClaimFits(m, positions[m][p])
             /\ payouts[<<0, m, p>>].status = 0
             /\ marketFunds >= PayoutOf(m, positions[m][p])
    <2> DEFINE pos == positions[m][p]
    <2>1. pos \in Position /\ books[m] \in Book
        BY <1>0 DEF TypeOK
    <2>2. payouts[<<0, m, p>>].status = 0
        BY <1>0, <1>4 DEF ClaimsRecorded
    <2>3. ASSUME NEW f \in Columns PROVE positions[m][p][FieldOf(f)] <= books[m][f]
        <3> DEFINE g == Column(FieldOf(f), m)
        <3>1. FieldOf(f) \in {"a", "b", "paid"}
            BY DEF FieldOf, Columns
        <3>2. g \in [Accounts -> Nat] /\ Unclaimed(m) \in SUBSET Accounts /\ IsFiniteSet(Unclaimed(m))
            BY <1>0, <3>1, ColumnType
        <3>3. p \in Unclaimed(m) /\ g[p] = positions[m][p][FieldOf(f)]
            BY <1>4 DEF Unclaimed, Column
        <3> HIDE DEF g
        <3>4. g[p] <= SumFunctionOnSet(g, Unclaimed(m))
            BY <3>2, <3>3, SumOfOne
        <3>5. QED
            BY <1>0, <3>3, <3>4 DEF TotalsMatch, g
    <2>4. pos.a <= books[m].a /\ pos.b <= books[m].b /\ pos.paid <= books[m].totalPaid
        BY <2>3 DEF Columns, FieldOf
    <2>5. books[m].reserve >= Liability(m)
        BY <1>0, <1>4 DEF Covered
    <2>6. PayoutOf(m, pos) <= Liability(m) /\ PayoutOf(m, pos) \in Nat /\ Liability(m) \in Nat
        BY <2>1, <2>4 DEF PayoutOf, Liability, Due, Position, Book
    <2>7. books[m].reserve \in Nat
        BY <2>1 DEF Book
    <2>8. books[m].reserve <= ReserveSum
        BY <1>1
    <2>9. books[m].a >= pos.a /\ books[m].b >= pos.b /\ books[m].totalPaid >= pos.paid
        BY <2>1, <2>4 DEF Position, Book
    <2> HIDE DEF pos
    <2> DEFINE due == PayoutOf(m, pos)
               owed == Liability(m)
               reserve == books[m].reserve
    <2>10. reserve >= due /\ marketFunds >= due
        <3>1. due <= owed /\ due \in Nat /\ owed \in Nat /\ reserve >= owed /\ reserve \in Nat /\ reserve <= ReserveSum
            BY <2>5, <2>6, <2>7, <2>8
        <3> HIDE DEF due, owed, reserve
        <3>2. QED
            BY ONLY <1>1, <1>3, <3>1
    <2>11. QED
        BY <2>2, <2>9, <2>10 DEF ClaimFits, pos
<1>5. ASSUME NEW id \in PayoutIds, payouts[id].status = 1
      PROVE  marketFunds >= payouts[id].amount /\ totalPendingPayouts >= payouts[id].amount
    <2>1. payouts[id].amount <= totalPendingPayouts /\ payouts[id].amount \in Nat
        BY <1>0, <1>2, <1>5 DEF Pending, TypeOK, PayoutTypeOK, Payout
    <2> DEFINE owed == payouts[id].amount
    <2>2. owed <= totalPendingPayouts /\ owed \in Nat
        BY <2>1
    <2> HIDE DEF owed
    <2>3. marketFunds >= owed /\ totalPendingPayouts >= owed
        BY ONLY <1>1, <1>3, <2>2
    <2>4. QED
        BY <2>3 DEF owed
<1>6. QED
    BY <1>4, <1>5 DEF ClaimNeverBlocked

\* Whatever claims, reclaims, refusals and retries came before, a settled
\* position can be claimed and a pending debt paid.
THEOREM ClaimsGoThrough == Spec => []ClaimNeverBlocked
BY Accounting, NothingBlocks, PTL

\* Consumed orders are among the signed ones.
LEMMA LimitsHold == BInv => WithinSignedLimits
<1> SUFFICES ASSUME BInv
             PROVE  /\ \A p \in Accounts :
                           SumFunction([m \in Matches |-> positions[m][p].paid])
                               <= SumFunction([o \in {b \in bets : b.player = p} |-> o.maxCost])
                    /\ deposited - vaultFunds - SumFunction([m \in Matches |-> SumFunction(paidBySide[m])])
                           <= SumFunction([o \in withdrawals |-> o.amount])
    BY DEF WithinSignedLimits, SumOver
<1>0. TypeOK /\ VaultTypeOK /\ FiniteOrders /\ BetsWithin /\ WithdrawnWithin
    BY DEF BInv, IInv, TypeOK, Limited
<1>1. /\ LimitOf \in [Bet -> Nat] /\ SignedOf \in [Withdrawal -> Nat]
      /\ \A p \in Accounts : PaidBy(p) \in [Matches -> Nat] /\ UsedBets(p) \in SUBSET Bet
      /\ Pressure \in [Matches -> Nat] /\ UsedWithdrawals \in SUBSET Withdrawal
    BY <1>0, LimitTypes
<1>2. ASSUME NEW p \in Accounts
      PROVE  SumFunction([m \in Matches |-> positions[m][p].paid])
                 <= SumFunction([o \in {b \in bets : b.player = p} |-> o.maxCost])
    <2> DEFINE own == {b \in bets : b.player = p}
               f == [o \in own |-> o.maxCost]
    <2>1. SumFunction([m \in Matches |-> positions[m][p].paid]) = SumFunctionOnSet(PaidBy(p), Matches)
        BY DEF SumFunction, PaidBy
    <2>2. SumFunction(f) = SumFunctionOnSet(f, own)
        BY DEF SumFunction
    <2>3. own \in SUBSET Bet /\ IsFiniteSet(own) /\ UsedBets(p) \subseteq own
        BY <1>0, FS_Subset DEF FiniteOrders, UsedBets, TypeOK
    <2>4. \A o \in own : f[o] = LimitOf[o]
        BY <2>3 DEF LimitOf
    <2> HIDE DEF own, f
    <2>5. SumFunctionOnSet(f, own) = SumFunctionOnSet(LimitOf, own)
        BY <2>3, <2>4, SumOfSame
    <2>6. /\ SumFunctionOnSet(LimitOf, UsedBets(p)) \in Nat /\ SumFunctionOnSet(LimitOf, own) \in Nat
          /\ SumFunctionOnSet(LimitOf, UsedBets(p)) <= SumFunctionOnSet(LimitOf, own)
        BY <1>1, <2>3, MoreOrders
    <2>7. SumFunctionOnSet(PaidBy(p), Matches) <= SumFunctionOnSet(LimitOf, UsedBets(p))
        BY <1>0 DEF BetsWithin
    <2>8. SumFunctionOnSet(PaidBy(p), Matches) \in Nat
        BY <1>1, MarketAssumption, SumOfPart
    <2>9. SumFunctionOnSet(PaidBy(p), Matches) <= SumFunctionOnSet(LimitOf, own)
        BY ONLY <2>6, <2>7, <2>8
    <2>10. QED
        BY <2>1, <2>2, <2>5, <2>9 DEF f, own
<1>3. deposited - vaultFunds - SumFunction([m \in Matches |-> SumFunction(paidBySide[m])])
          <= SumFunction([o \in withdrawals |-> o.amount])
    <2> DEFINE f == [o \in withdrawals |-> o.amount]
               g == [m \in Matches |-> SumFunction(paidBySide[m])]
    <2>1. g = Pressure
        BY <1>0 DEF Pressure, SumFunction, TypeOK
    <2>2. SumFunction(g) = SumFunctionOnSet(Pressure, Matches)
        BY <1>1, <2>1 DEF SumFunction
    <2>3. SumFunction(f) = SumFunctionOnSet(f, withdrawals)
        BY DEF SumFunction
    <2>4. withdrawals \in SUBSET Withdrawal /\ IsFiniteSet(withdrawals) /\ UsedWithdrawals \subseteq withdrawals
        BY <1>0 DEF VaultTypeOK, FiniteOrders, UsedWithdrawals
    <2>5. \A o \in withdrawals : f[o] = SignedOf[o]
        BY <2>4 DEF SignedOf
    <2> HIDE DEF f, g
    <2>6. SumFunctionOnSet(f, withdrawals) = SumFunctionOnSet(SignedOf, withdrawals)
        BY <2>4, <2>5, SumOfSame
    <2> DEFINE used == SumFunctionOnSet(SignedOf, UsedWithdrawals)
               all == SumFunctionOnSet(SignedOf, withdrawals)
               market == SumFunctionOnSet(Pressure, Matches)
    <2>7. used \in Nat /\ all \in Nat /\ used <= all
        BY <1>1, <2>4, MoreOrders
    <2>8. market \in Nat /\ deposited \in Nat /\ vaultFunds \in Nat
        BY <1>0, <1>1, MarketAssumption, SumOfPart DEF VaultTypeOK
    <2>9. deposited <= vaultFunds + market + used
        BY <1>0 DEF WithdrawnWithin
    <2> HIDE DEF used, all, market
    <2>10. deposited - vaultFunds - market <= all
        BY ONLY <2>7, <2>8, <2>9
    <2>11. QED
        BY <2>2, <2>3, <2>6, <2>10, Zenon DEF all, market, f, g
<1>4. QED
    BY <1>2, <1>3

\* However often and in whatever order signed orders are submitted, nobody pays
\* more than the limits it signed, and the vault pays out no more than the
\* withdrawals that were signed.
THEOREM LimitsAreKept == Spec => []WithinSignedLimits
BY Accounting, LimitsHold, PTL

=============================================================================
