---------------------------- MODULE NativePayouts ---------------------------
(***************************************************************************)
(* contracts/src/v4/NativePayouts.sol: debts with a fixed beneficiary,     *)
(* inherited by MarketV4 and TournamentsV4.  A payout is recorded before   *)
(* the native transfer is attempted; a rejected transfer leaves it pending *)
(* (status 1) until some retry succeeds (status 2).                        *)
(*                                                                         *)
(* A payout id is keccak256(kind, source, recipient): the triple itself.   *)
(* Whether the recipient accepts a transfer is its own choice, made anew   *)
(* at every attempt.                                                       *)
(***************************************************************************)
EXTENDS Integers

CONSTANTS PayoutIds,    \* triples <<kind, sourceId, recipient>>
          MaxAttempts   \* bound on the attempts counter

ASSUME PayoutAssumption == MaxAttempts \in Nat

VARIABLES payouts,               \* NativePayouts.payouts
          totalPendingPayouts    \* NativePayouts.totalPendingPayouts

payoutVars == <<payouts, totalPendingPayouts>>

Payout == [amount : Nat, status : 0..2, attempts : Nat]
NoPayout == [amount |-> 0, status |-> 0, attempts |-> 0]

PayoutTypeOK ==
    /\ payouts \in [PayoutIds -> Payout]
    /\ totalPendingPayouts \in Nat

PayoutInit ==
    /\ payouts = [id \in PayoutIds |-> NoPayout]
    /\ totalPendingPayouts = 0

\* _schedulePayout followed by its _attemptPayout; a zero amount is paid at once.
SchedulePayout(id, amount, accepted) ==
    /\ payouts[id].status = 0
    /\ amount = 0 => accepted
    /\ payouts' = [payouts EXCEPT ![id] =
           [amount |-> amount, status |-> IF accepted THEN 2 ELSE 1, attempts |-> 1]]
    /\ totalPendingPayouts' = IF accepted THEN totalPendingPayouts
                                          ELSE totalPendingPayouts + amount

\* Mutant: a retry that succeeds leaves the debt in the total.
RetryKeepsTotal(id, accepted) ==
    /\ payouts[id].status = 1
    /\ payouts[id].attempts < MaxAttempts
    /\ payouts' = [payouts EXCEPT ![id] =
           [amount |-> @.amount, status |-> IF accepted THEN 2 ELSE 1, attempts |-> @.attempts + 1]]
    /\ UNCHANGED totalPendingPayouts

\* Mutant: a paid debt may be retried.
RetryPaid(id, accepted) ==
    /\ payouts[id].status # 0
    /\ payouts[id].attempts < MaxAttempts
    /\ payouts' = [payouts EXCEPT ![id] =
           [amount |-> @.amount, status |-> IF accepted THEN 2 ELSE 1, attempts |-> @.attempts + 1]]
    /\ UNCHANGED totalPendingPayouts

\* retryPayout: permissionless, only for a pending debt.
RetryPayout(id, accepted) ==
    /\ payouts[id].status = 1
    /\ payouts[id].attempts < MaxAttempts
    /\ accepted => totalPendingPayouts >= payouts[id].amount
    /\ payouts' = [payouts EXCEPT ![id] =
           [amount |-> @.amount, status |-> IF accepted THEN 2 ELSE 1, attempts |-> @.attempts + 1]]
    /\ totalPendingPayouts' = IF accepted THEN totalPendingPayouts - payouts[id].amount
                                          ELSE totalPendingPayouts
=============================================================================
