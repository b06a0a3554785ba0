------------------------------- MODULE Vault --------------------------------
(***************************************************************************)
(* contracts/src/Vault.sol: the betting credit of every account, in native *)
(* MON held by the contract.  Spending needs the owner's EIP-712 signature *)
(* (withdraw) or a call of one of the two sealed modules (debit), which    *)
(* check a signature of their own.                                         *)
(*                                                                         *)
(* A transaction is one action: effects precede the native transfer and    *)
(* debit/withdraw are nonReentrant, so a callee cannot observe a half-made *)
(* step of the same contract.  A rejected transfer reverts the whole       *)
(* transaction, which is the absence of the step; so do an underflow of a  *)
(* checked subtraction and a transfer of more than the contract holds.     *)
(***************************************************************************)
EXTENDS Integers, FiniteSets, Functions

CONSTANTS Accounts,        \* addresses that hold credit
          Deposits,        \* amounts a depositor may send
          MaxDeposited,    \* bound: MON ever deposited
          MaxWithdrawals,  \* bound: withdrawals ever signed
          MaxTime          \* bound: values of block.timestamp

ASSUME VaultAssumption ==
    /\ Deposits \subseteq Nat
    /\ MaxDeposited \in Nat /\ MaxWithdrawals \in Nat /\ MaxTime \in Nat

VARIABLES balances,        \* Vault.balances
          totalBalances,   \* Vault.totalBalances
          vaultFunds,      \* native balance of the Vault contract
          deposited,       \* MON ever deposited (bounds the model)
          vaultNonces,     \* Vault.nonces
          withdrawals,     \* withdrawals signed so far; anyone may submit one, twice
          now              \* block.timestamp

vaultVars == <<balances, totalBalances, vaultFunds, deposited, vaultNonces, withdrawals, now>>

Withdrawal == [player : Accounts, amount : Nat \ {0}, nonce : Nat, deadline : 0..MaxTime]

VaultTypeOK ==
    /\ balances \in [Accounts -> Nat]
    /\ totalBalances \in Nat
    /\ vaultFunds \in Nat
    /\ deposited \in Nat
    /\ vaultNonces \in [Accounts -> Nat]
    /\ withdrawals \subseteq Withdrawal
    /\ now \in 0..MaxTime

\* A deployed vault: both modules registered and sealed, no credit yet.
VaultInit ==
    /\ balances = [p \in Accounts |-> 0]
    /\ totalBalances = 0
    /\ vaultFunds = 0
    /\ deposited = 0
    /\ vaultNonces = [p \in Accounts |-> 0]
    /\ withdrawals = {}
    /\ now = 0

Tick ==
    /\ now < MaxTime
    /\ now' = now + 1
    /\ UNCHANGED <<balances, totalBalances, vaultFunds, deposited, vaultNonces, withdrawals>>

\* depositFor: anyone may credit any account.
DepositFor(p, v) ==
    /\ deposited + v <= MaxDeposited
    /\ balances' = [balances EXCEPT ![p] = @ + v]
    /\ totalBalances' = totalBalances + v
    /\ vaultFunds' = vaultFunds + v
    /\ deposited' = deposited + v
    /\ UNCHANGED <<vaultNonces, withdrawals, now>>

\* Mutant: no check of the account's own credit.
DebitAnyCredit(p, amount) ==
    /\ totalBalances >= amount /\ vaultFunds >= amount
    /\ balances' = [balances EXCEPT ![p] = @ - amount]
    /\ totalBalances' = totalBalances - amount
    /\ vaultFunds' = vaultFunds - amount
    /\ UNCHANGED <<deposited, vaultNonces, withdrawals, now>>

\* debit: a sealed module takes credit and receives the MON.  Called inside a
\* module's own transaction, never alone.
Debit(p, amount) ==
    /\ balances[p] >= amount /\ totalBalances >= amount /\ vaultFunds >= amount
    /\ balances' = [balances EXCEPT ![p] = @ - amount]
    /\ totalBalances' = totalBalances - amount
    /\ vaultFunds' = vaultFunds - amount
    /\ UNCHANGED <<deposited, vaultNonces, withdrawals, now>>

\* The owner signs a withdrawal with the nonce the vault shows now.
SignWithdrawal(p, amount, deadline) ==
    /\ Cardinality(withdrawals) < MaxWithdrawals
    /\ withdrawals' = withdrawals \cup
           {[player |-> p, amount |-> amount, nonce |-> vaultNonces[p], deadline |-> deadline]}
    /\ UNCHANGED <<balances, totalBalances, vaultFunds, deposited, vaultNonces, now>>

\* withdraw: any relayer submits a signed order; the recipient is part of it.
Withdraw(o) ==
    /\ o.deadline >= now
    /\ o.nonce = vaultNonces[o.player]
    /\ balances[o.player] >= o.amount
    /\ totalBalances >= o.amount /\ vaultFunds >= o.amount
    /\ vaultNonces' = [vaultNonces EXCEPT ![o.player] = @ + 1]
    /\ balances' = [balances EXCEPT ![o.player] = @ - o.amount]
    /\ totalBalances' = totalBalances - o.amount
    /\ vaultFunds' = vaultFunds - o.amount
    /\ UNCHANGED <<deposited, withdrawals, now>>

VaultNext ==
    \/ Tick
    \/ \E p \in Accounts, v \in Deposits : DepositFor(p, v)
    \/ \E p \in Accounts, a \in Deposits \ {0}, d \in now..MaxTime : SignWithdrawal(p, a, d)
    \/ \E o \in withdrawals : Withdraw(o)
=============================================================================
