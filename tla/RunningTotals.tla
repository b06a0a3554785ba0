---------------------------- MODULE RunningTotals ---------------------------
(***************************************************************************)
(* Facts about SumFunction and SumFunctionOnSet (community module          *)
(* Functions): what the sum of a function over a finite set is, when the   *)
(* set or the function changes at one place; and, with them, that the two  *)
(* running totals the contracts keep are such sums: the vault's credit     *)
(* (Vault) and the pending payouts (NativePayouts).                        *)
(***************************************************************************)
EXTENDS Integers, Vault, NativePayouts, FiniteSetTheorems, TLAPS

\* The element with which the fold starts.
First(s) == CHOOSE x \in s : TRUE

\* The equation of the recursive function behind a sum over subsets of T.
SumStep(g, f, s) == IF s = {} THEN 0 ELSE g[First(s)] + f[s \ {First(s)}]
SumsOver(g, f, T) == f = [s \in SUBSET T |-> SumStep(g, f, s)]

\* A set of subsets of a finite set has a smallest element: the induction
\* principle that the proofs below use.
LEMMA SmallestSubset ==
    ASSUME NEW T, IsFiniteSet(T), NEW B, B \subseteq SUBSET T, B # {}
    PROVE  \E s \in B : \A r \in B : ~(r \subseteq s /\ r # s)
<1>1. B \subseteq FiniteSubsetsOf(T)
    BY FS_Subset DEF FiniteSubsetsOf
<1>2. PICK s \in B : \A r \in B : <<r, s>> \notin StrictSubsetOrdering(T)
    BY <1>1, FS_StrictSubsetOrderingWellFounded, WFMin
<1>3. QED
    BY <1>2 DEF StrictSubsetOrdering

\* Two functions that satisfy the equation agree on the sets they both sum.
LEMMA SumsAgree ==
    ASSUME NEW g, NEW S, NEW T, IsFiniteSet(S), NEW f, NEW h, SumsOver(g, f, S), SumsOver(g, h, T)
    PROVE  \A s \in (SUBSET S) \cap (SUBSET T) : f[s] = h[s]
<1> DEFINE Differ == {s \in (SUBSET S) \cap (SUBSET T) : f[s] # h[s]}
<1> SUFFICES ASSUME Differ # {} PROVE FALSE
    OBVIOUS
<1>0. Differ \subseteq SUBSET S
    OBVIOUS
<1>1. PICK s \in Differ : \A r \in Differ : ~(r \subseteq s /\ r # s)
    <2> HIDE DEF Differ
    <2> QED BY <1>0, SmallestSubset
<1>2. f[s] = SumStep(g, f, s) /\ h[s] = SumStep(g, h, s)
    <2>1. s \in SUBSET S /\ s \in SUBSET T
        OBVIOUS
    <2>2. QED
        BY <2>1 DEF SumsOver
<1>3. s # {}
    BY <1>2 DEF SumStep
<1>4. First(s) \in s
    BY <1>3 DEF First
<1>5. f[s \ {First(s)}] = h[s \ {First(s)}]
    BY <1>1, <1>4
<1>6. QED
    BY <1>2, <1>5 DEF SumStep

\* The recursive function exists on the subsets of a finite set.
LEMMA SumsExist ==
    ASSUME NEW g, NEW T, IsFiniteSet(T)
    PROVE  \E f : SumsOver(g, f, T)
<1> DEFINE Bad == {s \in SUBSET T : ~\E f : SumsOver(g, f, s)}
<1> SUFFICES ASSUME Bad # {} PROVE FALSE
    OBVIOUS
<1>0. Bad \subseteq SUBSET T
    OBVIOUS
<1>1. PICK s \in Bad : \A r \in Bad : ~(r \subseteq s /\ r # s)
    <2> HIDE DEF Bad
    <2> QED BY <1>0, SmallestSubset
<1> DEFINE fun(r) == CHOOSE f : SumsOver(g, f, r)
           f == [r \in SUBSET s |-> SumStep(g, IF r = {} THEN g ELSE fun(r \ {First(r)}), r)]
<1>2. \A r \in SUBSET s : r # s => SumsOver(g, fun(r), r)
    BY <1>1
<1>3. \A r \in SUBSET s : r # {} => First(r) \in r
    BY DEF First
<1>4. IsFiniteSet(s)
    BY FS_Subset
<1> HIDE DEF fun
<1>5. ASSUME NEW r \in SUBSET s, r # {} PROVE f[r \ {First(r)}] = fun(r \ {First(r)})[r \ {First(r)}]
    <2> DEFINE q == r \ {First(r)}
    <2>1. q \in SUBSET s /\ q # s /\ IsFiniteSet(q)
        BY <1>3, <1>4, <1>5, FS_Subset
    <2>2. fun(q)[q] = SumStep(g, fun(q), q)
        BY <1>2, <2>1 DEF SumsOver
    <2>3. CASE q = {}
        BY <2>1, <2>2, <2>3 DEF SumStep
    <2>4. CASE q # {}
        <3> DEFINE p == q \ {First(q)}
        <3>1. p \in SUBSET q /\ p \in SUBSET s /\ p # s
            BY <1>3, <2>1, <2>4
        <3>2. SumsOver(g, fun(q), q) /\ SumsOver(g, fun(p), p)
            BY <1>2, <2>1, <3>1
        <3>3. p \in (SUBSET q) \cap (SUBSET p)
            BY <3>1
        <3>4. fun(q)[p] = fun(p)[p]
            <4> HIDE DEF p, q
            <4> QED BY <2>1, <3>2, <3>3, SumsAgree
        <3>5. f[q] = SumStep(g, fun(p), q)
            BY <2>1, <2>4
        <3>6. QED
            BY <2>2, <2>4, <3>4, <3>5 DEF SumStep
    <2>5. QED
        BY <2>3, <2>4
<1>6. \A r \in SUBSET s : f[r] = SumStep(g, f, r)
    BY <1>5 DEF SumStep
<1>7. SumsOver(g, f, s)
    <2>1. f = [r \in SUBSET s |-> f[r]]
        OBVIOUS
    <2> HIDE DEF f
    <2>2. QED
        BY <1>6, <2>1 DEF SumsOver
<1>8. QED
    BY <1>7

\* A sum is the value of that function.
LEMMA SumIsFold ==
    ASSUME NEW g, NEW T
    PROVE  SumFunctionOnSet(g, T) = (CHOOSE f : SumsOver(g, f, T))[T]
BY DEF SumFunctionOnSet, FoldFunctionOnSet, MapThenFoldSet, SumsOver, SumStep, First

\* The sum over nothing is 0; any other takes one element and sums the rest.
LEMMA SumUnfolds ==
    ASSUME NEW g, NEW T, IsFiniteSet(T)
    PROVE  SumFunctionOnSet(g, T) =
               IF T = {} THEN 0 ELSE g[First(T)] + SumFunctionOnSet(g, T \ {First(T)})
<1> DEFINE fun(r) == CHOOSE f : SumsOver(g, f, r)
           q == T \ {First(T)}
<1>1. SumsOver(g, fun(T), T) /\ SumsOver(g, fun(q), q) /\ IsFiniteSet(q)
    BY SumsExist, FS_Subset
<1>2. SumFunctionOnSet(g, T) = fun(T)[T] /\ SumFunctionOnSet(g, q) = fun(q)[q]
    BY SumIsFold
<1> HIDE DEF fun
<1>3. fun(T)[T] = SumStep(g, fun(T), T)
    BY <1>1 DEF SumsOver
<1>4. \A s \in (SUBSET T) \cap (SUBSET q) : fun(T)[s] = fun(q)[s]
    <2> HIDE DEF q
    <2> DEFINE f == fun(T)
               h == fun(q)
    <2>1. SumsOver(g, f, T) /\ SumsOver(g, h, q)
        BY <1>1
    <2> HIDE DEF f, h
    <2>2. \A s \in (SUBSET T) \cap (SUBSET q) : f[s] = h[s]
        BY <2>1, SumsAgree
    <2>3. QED
        BY <2>2 DEF f, h
<1>5. QED
    BY <1>2, <1>3, <1>4 DEF SumStep

-----------------------------------------------------------------------------
(* What the other proofs cite.  Each is an induction: a smallest set for    *)
(* which the fact fails would be one element larger than another.          *)

\* A sum of integers is an integer.
LEMMA SumType ==
    ASSUME NEW S, NEW g \in [S -> Int], NEW T \in SUBSET S, IsFiniteSet(T)
    PROVE  SumFunctionOnSet(g, T) \in Int
<1> DEFINE Bad == {s \in SUBSET T : SumFunctionOnSet(g, s) \notin Int}
<1> SUFFICES ASSUME Bad # {} PROVE FALSE
    OBVIOUS
<1>0. Bad \subseteq SUBSET T
    OBVIOUS
<1>1. PICK s \in Bad : \A r \in Bad : ~(r \subseteq s /\ r # s)
    <2> HIDE DEF Bad
    <2> QED BY <1>0, SmallestSubset
<1>2. IsFiniteSet(s)
    BY FS_Subset
<1>3. s # {} /\ First(s) \in s
    BY <1>2, SumUnfolds DEF First
<1>4. SumFunctionOnSet(g, s \ {First(s)}) \in Int
    BY <1>1, <1>3
<1>5. g[First(s)] \in Int
    BY <1>3
<1>6. SumFunctionOnSet(g, s) = g[First(s)] + SumFunctionOnSet(g, s \ {First(s)})
    BY <1>2, <1>3, SumUnfolds
<1>7. QED
    BY <1>4, <1>5, <1>6

\* The order of the summands does not matter: any element may come first.
LEMMA SumTakes ==
    ASSUME NEW S, NEW g \in [S -> Int], NEW T \in SUBSET S, IsFiniteSet(T), NEW x \in T
    PROVE  SumFunctionOnSet(g, T) = g[x] + SumFunctionOnSet(g, T \ {x})
<1> DEFINE Wrong(s) == \E y \in s : SumFunctionOnSet(g, s) # g[y] + SumFunctionOnSet(g, s \ {y})
           Bad == {s \in SUBSET T : Wrong(s)}
<1> SUFFICES ASSUME Bad # {} PROVE FALSE
    OBVIOUS
<1>0. Bad \subseteq SUBSET T
    OBVIOUS
<1>1. PICK s \in Bad : \A r \in Bad : ~(r \subseteq s /\ r # s)
    <2> HIDE DEF Bad
    <2> QED BY <1>0, SmallestSubset
<1>2. PICK y \in s : SumFunctionOnSet(g, s) # g[y] + SumFunctionOnSet(g, s \ {y})
    OBVIOUS
<1> DEFINE f == First(s)
<1>3. f \in s
    BY <1>2 DEF First
<1>4. IsFiniteSet(s) /\ IsFiniteSet(s \ {y}) /\ IsFiniteSet(s \ {f}) /\ IsFiniteSet((s \ {f}) \ {y})
    BY FS_Subset
<1>5. SumFunctionOnSet(g, s) = g[f] + SumFunctionOnSet(g, s \ {f})
    BY <1>3, <1>4, SumUnfolds
<1>6. y # f
    BY <1>2, <1>5
<1>7. ~Wrong(s \ {f}) /\ ~Wrong(s \ {y})
    BY <1>1, <1>2, <1>3
<1>8. /\ SumFunctionOnSet(g, s \ {f}) = g[y] + SumFunctionOnSet(g, (s \ {f}) \ {y})
      /\ SumFunctionOnSet(g, s \ {y}) = g[f] + SumFunctionOnSet(g, (s \ {y}) \ {f})
    BY <1>2, <1>3, <1>6, <1>7
<1>9. (s \ {y}) \ {f} = (s \ {f}) \ {y}
    OBVIOUS
<1>10. /\ SumFunctionOnSet(g, (s \ {f}) \ {y}) \in Int
       /\ g[f] \in Int /\ g[y] \in Int
    BY <1>2, <1>3, <1>4, SumType
<1> DEFINE rest == SumFunctionOnSet(g, (s \ {f}) \ {y})
<1>11. /\ SumFunctionOnSet(g, s) = g[f] + (g[y] + rest)
       /\ g[y] + SumFunctionOnSet(g, s \ {y}) = g[y] + (g[f] + rest)
    BY <1>5, <1>8, <1>9
<1>12. rest \in Int
    BY <1>10
<1> HIDE DEF rest, f, Bad, Wrong
<1>13. QED
    BY <1>2, <1>10, <1>11, <1>12

\* The sum over no element is 0.
LEMMA SumOfNothing == ASSUME NEW g PROVE SumFunctionOnSet(g, {}) = 0
BY SumUnfolds, FS_EmptySet

\* One more element adds its value.
LEMMA SumGrows ==
    ASSUME NEW S, NEW g \in [S -> Int], NEW T \in SUBSET S, IsFiniteSet(T), NEW x \in S \ T
    PROVE  SumFunctionOnSet(g, T \cup {x}) = SumFunctionOnSet(g, T) + g[x]
<1>1. IsFiniteSet(T \cup {x})
    BY FS_AddElement
<1>2. SumFunctionOnSet(g, T \cup {x}) = g[x] + SumFunctionOnSet(g, (T \cup {x}) \ {x})
    BY <1>1, SumTakes
<1>3. (T \cup {x}) \ {x} = T
    OBVIOUS
<1>4. SumFunctionOnSet(g, T \cup {x}) = g[x] + SumFunctionOnSet(g, T)
    BY <1>2, <1>3, Zenon
<1> DEFINE sum == SumFunctionOnSet(g, T)
<1>5. sum \in Int /\ g[x] \in Int
    BY SumType
<1> HIDE DEF sum
<1>6. g[x] + sum = sum + g[x]
    BY <1>5
<1>7. QED
    BY <1>4, <1>6 DEF sum

\* Only the values on the set count.
LEMMA SumOfSame ==
    ASSUME NEW g, NEW h, NEW T, IsFiniteSet(T), \A x \in T : g[x] = h[x]
    PROVE  SumFunctionOnSet(g, T) = SumFunctionOnSet(h, T)
<1> DEFINE Bad == {s \in SUBSET T : SumFunctionOnSet(g, s) # SumFunctionOnSet(h, s)}
<1> SUFFICES ASSUME Bad # {} PROVE FALSE
    OBVIOUS
<1>0. Bad \subseteq SUBSET T
    OBVIOUS
<1>1. PICK s \in Bad : \A r \in Bad : ~(r \subseteq s /\ r # s)
    <2> HIDE DEF Bad
    <2> QED BY <1>0, SmallestSubset
<1>2. IsFiniteSet(s)
    BY FS_Subset
<1>3. s # {} /\ First(s) \in s
    BY <1>2, SumUnfolds DEF First
<1>4. SumFunctionOnSet(g, s \ {First(s)}) = SumFunctionOnSet(h, s \ {First(s)})
    BY <1>1, <1>3
<1>5. /\ SumFunctionOnSet(g, s) = g[First(s)] + SumFunctionOnSet(g, s \ {First(s)})
      /\ SumFunctionOnSet(h, s) = h[First(s)] + SumFunctionOnSet(h, s \ {First(s)})
    BY <1>2, <1>3, SumUnfolds
<1>6. QED
    BY <1>3, <1>4, <1>5

\* A sum follows a change of its function at one element.
LEMMA SumMoves ==
    ASSUME NEW S, NEW g \in [S -> Int], NEW h \in [S -> Int], NEW T \in SUBSET S, IsFiniteSet(T),
           NEW x \in T, \A y \in T \ {x} : h[y] = g[y]
    PROVE  SumFunctionOnSet(h, T) = SumFunctionOnSet(g, T) - g[x] + h[x]
<1>1. IsFiniteSet(T \ {x})
    BY FS_Subset
<1>2. SumFunctionOnSet(h, T \ {x}) = SumFunctionOnSet(g, T \ {x})
    BY <1>1, SumOfSame
<1>3. /\ SumFunctionOnSet(g, T) = g[x] + SumFunctionOnSet(g, T \ {x})
      /\ SumFunctionOnSet(h, T) = h[x] + SumFunctionOnSet(h, T \ {x})
    BY SumTakes
<1>4. SumFunctionOnSet(g, T \ {x}) \in Int /\ g[x] \in Int /\ h[x] \in Int
    BY <1>1, SumType
<1>5. QED
    BY <1>2, <1>3, <1>4

\* A sum of natural numbers is a natural number, at least what it is over a
\* part of its set.
LEMMA SumOfPart ==
    ASSUME NEW S, NEW g \in [S -> Nat], NEW T \in SUBSET S, IsFiniteSet(T), NEW U \in SUBSET T
    PROVE  /\ SumFunctionOnSet(g, U) \in Nat
           /\ SumFunctionOnSet(g, T) \in Nat
           /\ SumFunctionOnSet(g, U) <= SumFunctionOnSet(g, T)
<1> DEFINE Fails(s) == \/ SumFunctionOnSet(g, s) \notin Nat
                       \/ \E r \in SUBSET s : ~(/\ SumFunctionOnSet(g, r) \in Nat
                                                /\ SumFunctionOnSet(g, r) <= SumFunctionOnSet(g, s))
           Bad == {s \in SUBSET T : Fails(s)}
<1> SUFFICES ASSUME Bad # {} PROVE FALSE
    OBVIOUS
<1>0. Bad \subseteq SUBSET T
    OBVIOUS
<1>1. PICK s \in Bad : \A r \in Bad : ~(r \subseteq s /\ r # s)
    <2> HIDE DEF Bad
    <2> QED BY <1>0, SmallestSubset
<1>2. IsFiniteSet(s) /\ g \in [S -> Int]
    BY FS_Subset
<1>3. \A r \in SUBSET s : r # s => ~Fails(r)
    BY <1>1
<1>4. s # {}
    BY SumOfNothing
<1>5. PICK x : x \in s
    BY <1>4
<1>6. SumFunctionOnSet(g, s) = g[x] + SumFunctionOnSet(g, s \ {x})
    BY <1>2, <1>5, SumTakes
<1>7. SumFunctionOnSet(g, s \ {x}) \in Nat /\ g[x] \in Nat
    BY <1>3, <1>5
<1>8. SumFunctionOnSet(g, s) \in Nat
    <2> HIDE DEF Bad
    <2> QED BY <1>6, <1>7
<1>9. PICK r \in SUBSET s : ~(/\ SumFunctionOnSet(g, r) \in Nat
                              /\ SumFunctionOnSet(g, r) <= SumFunctionOnSet(g, s))
    BY <1>8
<1>10. r # s
    BY <1>8, <1>9
<1>11. PICK y \in s : y \notin r
    BY <1>10
<1>12. SumFunctionOnSet(g, s) = g[y] + SumFunctionOnSet(g, s \ {y})
    BY <1>2, <1>11, SumTakes
<1>13. ~Fails(s \ {y}) /\ r \in SUBSET (s \ {y}) /\ g[y] \in Nat
    BY <1>3, <1>11
<1>14. /\ SumFunctionOnSet(g, r) \in Nat /\ SumFunctionOnSet(g, s \ {y}) \in Nat
       /\ SumFunctionOnSet(g, r) <= SumFunctionOnSet(g, s \ {y})
    BY <1>13
<1> HIDE DEF Bad, Fails
<1>15. QED
    BY <1>9, <1>12, <1>13, <1>14

\* No summand exceeds a sum of natural numbers.
LEMMA SumOfOne ==
    ASSUME NEW S, NEW g \in [S -> Nat], NEW T \in SUBSET S, IsFiniteSet(T), NEW x \in T
    PROVE  g[x] <= SumFunctionOnSet(g, T)
<1>1. IsFiniteSet(T \ {x}) /\ g \in [S -> Int]
    BY FS_Subset
<1>2. SumFunctionOnSet(g, T) = g[x] + SumFunctionOnSet(g, T \ {x})
    BY <1>1, SumTakes
<1>3. SumFunctionOnSet(g, T \ {x}) \in Nat /\ g[x] \in Nat
    BY SumOfPart
<1>4. QED
    BY <1>2, <1>3

\* A sum follows a change of its function by d at one element.
LEMMA SumAdds ==
    ASSUME NEW S, NEW g \in [S -> Int], NEW h \in [S -> Int], NEW T \in SUBSET S, IsFiniteSet(T),
           NEW x \in T, NEW d \in Int, h[x] = g[x] + d, \A y \in T \ {x} : h[y] = g[y]
    PROVE  SumFunctionOnSet(h, T) = SumFunctionOnSet(g, T) + d
<1>1. SumFunctionOnSet(h, T) = SumFunctionOnSet(g, T) - g[x] + h[x]
    BY SumMoves
<1>2. SumFunctionOnSet(g, T) \in Int /\ g[x] \in Int
    BY SumType
<1>3. QED
    BY ONLY <1>1, <1>2, h[x] = g[x] + d, d \in Int

\* Leaving one element out takes its value away.
LEMMA SumDrops ==
    ASSUME NEW S, NEW g \in [S -> Int], NEW T \in SUBSET S, IsFiniteSet(T), NEW x \in T
    PROVE  SumFunctionOnSet(g, T \ {x}) = SumFunctionOnSet(g, T) - g[x]
<1>1. SumFunctionOnSet(g, T) = g[x] + SumFunctionOnSet(g, T \ {x})
    BY SumTakes
<1>2. SumFunctionOnSet(g, T \ {x}) \in Int /\ g[x] \in Int
    BY SumType, FS_Subset
<1>3. QED
    BY ONLY <1>1, <1>2

\* A sum of zeros is 0.
LEMMA SumOfZeros ==
    ASSUME NEW g, NEW T, IsFiniteSet(T), \A x \in T : g[x] = 0
    PROVE  SumFunctionOnSet(g, T) = 0
<1> DEFINE Bad == {s \in SUBSET T : SumFunctionOnSet(g, s) # 0}
<1> SUFFICES ASSUME Bad # {} PROVE FALSE
    OBVIOUS
<1>0. Bad \subseteq SUBSET T
    OBVIOUS
<1>1. PICK s \in Bad : \A r \in Bad : ~(r \subseteq s /\ r # s)
    <2> HIDE DEF Bad
    <2> QED BY <1>0, SmallestSubset
<1>2. IsFiniteSet(s)
    BY FS_Subset
<1>3. s # {} /\ First(s) \in s
    BY <1>2, SumUnfolds DEF First
<1>4. SumFunctionOnSet(g, s \ {First(s)}) = 0
    BY <1>1, <1>3
<1>5. SumFunctionOnSet(g, s) = g[First(s)] + SumFunctionOnSet(g, s \ {First(s)})
    BY <1>2, <1>3, SumUnfolds
<1>6. QED
    BY <1>3, <1>4, <1>5

-----------------------------------------------------------------------------
(* Types of the vault and of the payouts. *)

\* A module's debit leaves the vault well typed.
LEMMA DebitTypes ==
    ASSUME VaultTypeOK, NEW p \in Accounts, NEW amount \in Nat, Debit(p, amount)
    PROVE  VaultTypeOK'
BY VaultAssumption DEF VaultTypeOK, Debit

\* So does every transaction or signature of the vault itself.
LEMMA VaultStepTypes == VaultTypeOK /\ VaultNext => VaultTypeOK'
<1> SUFFICES ASSUME VaultTypeOK, VaultNext PROVE VaultTypeOK'
    OBVIOUS
<1> USE VaultAssumption DEF VaultTypeOK
<1>1. CASE Tick
    BY <1>1 DEF Tick
<1>2. CASE \E p \in Accounts, v \in Deposits : DepositFor(p, v)
    BY <1>2 DEF DepositFor
<1>3. CASE \E p \in Accounts, a \in Deposits \ {0}, d \in now..MaxTime : SignWithdrawal(p, a, d)
    BY <1>3 DEF SignWithdrawal, Withdrawal
<1>4. CASE \E o \in withdrawals : Withdraw(o)
    BY <1>4 DEF Withdraw, Withdrawal
<1>5. QED
    BY <1>1, <1>2, <1>3, <1>4 DEF VaultNext

\* Recording a payout and its first attempt keep the debts well typed.
LEMMA ScheduleTypes ==
    ASSUME PayoutTypeOK, NEW id \in PayoutIds, NEW amount \in Nat, NEW accepted \in BOOLEAN,
           SchedulePayout(id, amount, accepted)
    PROVE  PayoutTypeOK'
BY DEF PayoutTypeOK, SchedulePayout, Payout

\* So does a retry of a pending payout.
LEMMA RetryTypes ==
    ASSUME PayoutTypeOK, NEW id \in PayoutIds, NEW accepted \in BOOLEAN,
           RetryPayout(id, accepted)
    PROVE  PayoutTypeOK'
BY PayoutAssumption DEF PayoutTypeOK, RetryPayout, Payout

-----------------------------------------------------------------------------
(* The vault's credit. *)

CreditMatch == vaultFunds = totalBalances /\ totalBalances = SumFunctionOnSet(balances, Accounts)

\* The sum of the balances follows a change of one account's credit.
LEMMA CreditMoves ==
    ASSUME VaultTypeOK, VaultTypeOK', IsFiniteSet(Accounts), NEW p \in Accounts,
           \A q \in Accounts \ {p} : balances'[q] = balances[q]
    PROVE  SumFunctionOnSet(balances', Accounts)
               = SumFunctionOnSet(balances, Accounts) - balances[p] + balances'[p]
<1>1. balances \in [Accounts -> Int] /\ balances' \in [Accounts -> Int]
    BY DEF VaultTypeOK
<1>2. QED
    BY <1>1, SumMoves

\* Credit stays the sum of the balances, held in full by the vault.
LEMMA CreditKept ==
    ASSUME VaultTypeOK, VaultTypeOK', IsFiniteSet(Accounts), CreditMatch,
           \/ VaultNext
           \/ \E p \in Accounts, amount \in Nat : Debit(p, amount)
           \/ UNCHANGED vaultVars
    PROVE  CreditMatch'
<1> USE DEF CreditMatch
<1> DEFINE Before == SumFunctionOnSet(balances, Accounts)
           After == SumFunctionOnSet(balances', Accounts)
<1>0. Before \in Nat /\ totalBalances = Before /\ vaultFunds = Before
    BY DEF VaultTypeOK
<1> SUFFICES totalBalances' = After /\ vaultFunds' = totalBalances'
    OBVIOUS
<1> HIDE DEF Before, After
<1>1. ASSUME NEW p \in Accounts, NEW amount \in Int, balances' = [balances EXCEPT ![p] = @ + amount]
      PROVE  After = Before + amount
    <2>1. balances'[p] = balances[p] + amount /\ \A q \in Accounts \ {p} : balances'[q] = balances[q]
        BY <1>1 DEF VaultTypeOK
    <2>2. After = Before - balances[p] + balances'[p]
        BY <2>1, CreditMoves DEF After, Before
    <2>3. balances[p] \in Int
        BY DEF VaultTypeOK
    <2>4. QED
        BY <1>0, <2>1, <2>2, <2>3
<1>2. CASE Tick \/ UNCHANGED vaultVars
    BY <1>2 DEF Tick, vaultVars, After
<1>3. ASSUME NEW p \in Accounts, NEW v \in Deposits, DepositFor(p, v)
      PROVE  totalBalances' = After /\ vaultFunds' = totalBalances'
    <2>1. v \in Int
        BY VaultAssumption
    <2>2. After = Before + v
        BY <1>1, <1>3, <2>1 DEF DepositFor
    <2>3. QED
        BY <1>0, <1>3, <2>2 DEF DepositFor
<1>4. ASSUME NEW p \in Accounts, NEW a \in Deposits \ {0}, NEW d \in now..MaxTime, SignWithdrawal(p, a, d)
      PROVE  totalBalances' = After /\ vaultFunds' = totalBalances'
    BY <1>4 DEF SignWithdrawal, After
<1>5. ASSUME NEW p \in Accounts, NEW amount \in Nat,
             balances' = [balances EXCEPT ![p] = @ - amount],
             totalBalances' = totalBalances - amount, vaultFunds' = vaultFunds - amount
      PROVE  totalBalances' = After /\ vaultFunds' = totalBalances'
    <2>1. balances[p] \in Int /\ -amount \in Int
        BY DEF VaultTypeOK
    <2>2. balances' = [balances EXCEPT ![p] = @ + (-amount)]
        BY <1>5, <2>1
    <2>3. After = Before + (-amount)
        BY <1>1, <2>1, <2>2
    <2>4. QED
        BY <1>0, <1>5, <2>3
<1>6. ASSUME NEW o \in withdrawals, Withdraw(o)
      PROVE  totalBalances' = After /\ vaultFunds' = totalBalances'
    <2>1. o.player \in Accounts /\ o.amount \in Nat
        BY DEF VaultTypeOK, Withdrawal
    <2>2. QED
        BY <1>5, <1>6, <2>1 DEF Withdraw
<1>7. ASSUME NEW p \in Accounts, NEW amount \in Nat, Debit(p, amount)
      PROVE  totalBalances' = After /\ vaultFunds' = totalBalances'
    BY <1>5, <1>7 DEF Debit
<1>8. QED
    BY <1>2, <1>3, <1>4, <1>6, <1>7 DEF VaultNext

-----------------------------------------------------------------------------
(* The pending payouts. *)

Pending == {id \in PayoutIds : payouts[id].status = 1}
AmountOf == [id \in PayoutIds |-> payouts[id].amount]
PendingSum == SumFunctionOnSet(AmountOf, Pending)
PendingMatch == totalPendingPayouts = PendingSum

\* The sum of the pending amounts is that sum.
LEMMA PendingAmounts ==
    ASSUME IsFiniteSet(PayoutIds)
    PROVE  SumFunction([id \in Pending |-> payouts[id].amount]) = PendingSum
<1> DEFINE g == [id \in Pending |-> payouts[id].amount]
<1>1. IsFiniteSet(Pending) /\ \A id \in Pending : g[id] = AmountOf[id]
    BY FS_Subset DEF Pending, AmountOf
<1>2. SumFunctionOnSet(g, Pending) = SumFunctionOnSet(AmountOf, Pending)
    <2> HIDE DEF g
    <2> QED BY <1>1, SumOfSame
<1>3. QED
    BY <1>2 DEF SumFunction, PendingSum

\* A payout that is recorded, or tried again, moves the pending total by what
\* it adds to or takes from the recorded debts.
LEMMA PendingMoves ==
    ASSUME PayoutTypeOK, PayoutTypeOK', IsFiniteSet(PayoutIds), PendingMatch,
           NEW id \in PayoutIds, NEW ok \in BOOLEAN,
           \/ \E amount \in Nat : SchedulePayout(id, amount, ok)
           \/ RetryPayout(id, ok)
    PROVE  PendingMatch'
<1> DEFINE was == AmountOf
           is == AmountOf'
<1>1. was \in [PayoutIds -> Int] /\ is \in [PayoutIds -> Int]
    BY DEF AmountOf, PayoutTypeOK, Payout
<1>2. \A x \in PayoutIds \ {id} : payouts'[x] = payouts[x]
    BY DEF SchedulePayout, RetryPayout, PayoutTypeOK
<1>3. \A x \in PayoutIds \ {id} : is[x] = was[x]
    BY <1>2 DEF AmountOf
<1>4. /\ Pending \in SUBSET PayoutIds /\ IsFiniteSet(Pending)
      /\ Pending' \in SUBSET PayoutIds /\ IsFiniteSet(Pending')
    BY FS_Subset DEF Pending
<1>5. PendingSum = SumFunctionOnSet(was, Pending) /\ PendingSum' = SumFunctionOnSet(is, Pending')
    BY DEF PendingSum
<1>6. PendingSum \in Int /\ PendingSum = totalPendingPayouts
    BY DEF PendingMatch, PayoutTypeOK
<1>12. was[id] = payouts[id].amount /\ is[id] = payouts'[id].amount
    BY DEF AmountOf
<1> HIDE DEF was, is
<1>7. CASE \E amount \in Nat : SchedulePayout(id, amount, ok)
    <2>1. PICK amount \in Nat : SchedulePayout(id, amount, ok)
        BY <1>7
    <2>2. id \notin Pending /\ payouts'[id].amount = amount /\ payouts'[id].status = IF ok THEN 2 ELSE 1
        BY <2>1 DEF SchedulePayout, PayoutTypeOK, Pending
    <2>3. SumFunctionOnSet(is, Pending) = SumFunctionOnSet(was, Pending)
        <3>1. \A x \in Pending : is[x] = was[x]
            BY <1>3, <1>4, <2>2
        <3>2. QED
            BY <1>4, <3>1, SumOfSame
    <2>4. CASE ok
        <3>1. Pending' = Pending
            BY <1>2, <2>2, <2>4 DEF Pending
        <3>2. QED
            BY <1>5, <1>6, <2>1, <2>3, <2>4, <3>1 DEF PendingMatch, SchedulePayout
    <2>5. CASE ~ok
        <3>1. Pending' = Pending \cup {id}
            BY <1>2, <2>2, <2>5 DEF Pending
        <3>2. SumFunctionOnSet(is, Pending \cup {id}) = SumFunctionOnSet(is, Pending) + is[id]
            <4>1. id \in PayoutIds \ Pending
                BY <2>2
            <4>2. QED
                BY <1>1, <1>4, <4>1, SumGrows
        <3>3. PendingSum' = PendingSum + amount
            BY <1>5, <1>12, <2>2, <2>3, <3>1, <3>2
        <3>4. totalPendingPayouts' = totalPendingPayouts + amount
            BY <2>1, <2>5 DEF SchedulePayout
        <3>5. QED
            BY <1>6, <3>3, <3>4 DEF PendingMatch
    <2>6. QED
        BY <2>4, <2>5
<1>8. CASE RetryPayout(id, ok)
    <2>1. id \in Pending /\ payouts'[id].amount = payouts[id].amount
          /\ payouts'[id].status = IF ok THEN 2 ELSE 1
        BY <1>8 DEF RetryPayout, PayoutTypeOK, Pending
    <2>2. \A x \in PayoutIds : is[x] = was[x]
        BY <1>3, <1>12, <2>1
    <2>3. CASE ~ok
        <3>1. Pending' = Pending
            BY <1>2, <2>1, <2>3 DEF Pending
        <3>2. SumFunctionOnSet(is, Pending) = SumFunctionOnSet(was, Pending)
            BY <1>4, <2>2, SumOfSame
        <3>3. QED
            BY <1>5, <1>6, <1>8, <2>3, <3>1, <3>2 DEF PendingMatch, RetryPayout
    <2>4. CASE ok
        <3>1. Pending' = Pending \ {id}
            BY <1>2, <2>1, <2>4 DEF Pending
        <3>2. SumFunctionOnSet(is, Pending') = SumFunctionOnSet(was, Pending')
            BY <1>4, <2>2, SumOfSame
        <3>3. PendingSum = was[id] + SumFunctionOnSet(was, Pending \ {id})
            BY <1>1, <1>4, <1>5, <2>1, SumTakes
        <3>4. PendingSum' = SumFunctionOnSet(was, Pending \ {id})
            BY <1>5, <3>1, <3>2
        <3>5. totalPendingPayouts' = totalPendingPayouts - was[id]
            BY <1>8, <1>12, <2>4 DEF RetryPayout
        <3>6. PendingSum' \in Int /\ was[id] \in Int
            <4>1. SumFunctionOnSet(was, Pending') \in Int
                BY <1>1, <1>4, SumType
            <4>2. QED
                BY <1>1, <3>1, <3>4, <4>1
        <3>7. QED
            BY <1>6, <3>3, <3>4, <3>5, <3>6 DEF PendingMatch
    <2>5. QED
        BY <2>3, <2>4
<1>9. QED
    BY <1>7, <1>8
=============================================================================
