------------------------- MODULE RelayJournalProofs -------------------------
(***************************************************************************)
(* Proofs about RelayJournal for every set of calls, lanes and directions, *)
(* every limit of the relayer and every bound.                             *)
(***************************************************************************)
EXTENDS RelayJournal, FiniteSetTheorems, WellFoundedInduction, TLAPS

Statuses == Open \cup {"none", "succeeded", "failed", "superseded"}

\* The types the argument needs.
Types ==
    /\ status \in [Rows -> Statuses]
    /\ nonceOf \in [Rows -> Nat \cup {-1}]
    /\ asking \subseteq CallRows
    /\ head \in 1..MaxHead
    /\ chainNonce \in Nat /\ mempool \subseteq Rows
    /\ mined \in [Rows -> {"no", "ok", "reverted"}]
    /\ slot \in [Lanes -> Nat]

\* What the journal says of a row and what the chain did with it: only signed
\* rows are broadcast, the chain has mined exactly the nonces below its own, and
\* a row that ended says how.
Persisted ==
    \A r \in Rows :
        /\ r \in mempool => nonceOf[r] # -1
        /\ status[r] \in {"signed", "sent", "succeeded"} => nonceOf[r] # -1
        /\ status[r] \in {"none", "queued", "superseded"} => nonceOf[r] = -1
        /\ mined[r] # "no" <=> nonceOf[r] # -1 /\ nonceOf[r] < chainNonce
        /\ status[r] = "succeeded" => mined[r] = "ok"
        /\ status[r] = "failed" => mined[r] = IF nonceOf[r] # -1 THEN "reverted" ELSE "no"

\* The signed rows hold the nonces below their number, and the one dispatch has
\* chosen is the next.
Numbered ==
    /\ IsFiniteSet(Signed)
    /\ \A r, x \in Signed : nonceOf[r] = nonceOf[x] => r = x
    /\ {nonceOf[r] : r \in Signed} = 0..(Cardinality(Signed) - 1)
    /\ chainNonce <= Cardinality(Signed)
    /\ dispatching.step = "sign" => dispatching.nonce = Cardinality(Signed)

\* A lane has at most one command in flight and one, newer, that waits; both are
\* newer than what the chain executed, which the journal knows; and while dispatch
\* works on a command nothing of its lane is in flight.
Ordered ==
    /\ \A r, x \in InputRows : r.lane = x.lane =>
           /\ status[r] \in InFlight /\ status[x] \in InFlight => r = x
           /\ status[r] = "queued" /\ status[x] = "queued" => r = x
           /\ status[r] \in InFlight /\ status[x] = "queued" => r.nonce < x.nonce
    /\ \A r \in InputRows : status[r] \in Open /\ mined[r] = "no" => slot[r.lane] < r.nonce
    /\ \A l \in Lanes : slot[l] # 0 => \E r \in LaneRows(l) : mined[r] = "ok" /\ r.nonce = slot[l]
    /\ dispatching.step \in {"estimate", "sign"} /\ dispatching.row \in InputRows =>
           \A x \in LaneRows(dispatching.row.lane) : status[x] \notin InFlight

\* The inductive invariant.
IInv == Types /\ Persisted /\ Numbered /\ Ordered

-----------------------------------------------------------------------------
(* Rows, cursors and nonces. *)

\* A keeper's call is not an input.
LEMMA RowsDiffer == CallRows \cap InputRows = {}
<1> SUFFICES ASSUME NEW r \in CallRows, r \in InputRows PROVE FALSE
    OBVIOUS
<1>1. DOMAIN r = {"call", "head"}
    BY DEF CallRows
<1>2. DOMAIN r = {"lane", "nonce", "dir"}
    BY DEF InputRows
<1>3. QED
    BY <1>1, <1>2

\* An input names its lane and a nonce.
LEMMA InputFields == ASSUME NEW r \in InputRows PROVE r.lane \in Lanes /\ r.nonce \in Nat /\ r \in Rows
BY DEF InputRows, Rows

\* A set of naturals with an upper bound has a largest element.
LEMMA Largest ==
    ASSUME NEW S, S \subseteq Nat, S # {}, NEW b \in Nat, \A n \in S : n <= b
    PROVE  \E n \in S : \A m \in S : n >= m
<1> DEFINE T == {b - n : n \in S}
<1>1. T \subseteq Nat /\ T # {}
    <2>1. ASSUME NEW n \in S PROVE b - n \in Nat
        <3>1. n \in Nat /\ n <= b
            OBVIOUS
        <3>2. QED
            BY ONLY <3>1, b \in Nat
    <2>2. QED
        BY <2>1
<1>2. PICK t \in T : \A u \in T : <<u, t>> \notin OpToRel(<, Nat)
    <2> HIDE DEF T
    <2> QED BY <1>1, NatLessThanWellFounded, WFMin
<1>3. PICK n \in S : t = b - n
    OBVIOUS
<1>4. ASSUME NEW m \in S PROVE n >= m
    <2>1. b - m \in T /\ b - m \in Nat /\ t \in Nat
        BY <1>1
    <2>2. ~(b - m < t)
        BY <1>2, <2>1 DEF OpToRel
    <2>3. QED
        BY <1>3, <2>2
<1>5. QED
    BY <1>4

\* The cursor is past what was seen and past every nonce it looks at.
LEMMA CursorIsNew ==
    ASSUME Types, NEW l \in Lanes, NEW seen \in Nat, NEW x \in LaneRows(l),
           status[x] \in InFlight \cup {"succeeded"}
    PROVE  Cursor(l, seen) > x.nonce
<1> DEFINE used == {seen} \cup {r.nonce : r \in {y \in LaneRows(l) : status[y] \in InFlight \cup {"succeeded"}}}
           b == seen + MaxInput
<1>1. used \subseteq Nat /\ used # {} /\ x.nonce \in used
    BY InputFields DEF LaneRows
<1>2. MaxInput \in Nat /\ b \in Nat
    BY JournalAssumption
<1>3. \A n \in used : n <= b
    BY <1>2 DEF LaneRows, InputRows
<1>4. \E n \in used : \A m \in used : n >= m
    <2> HIDE DEF used, b
    <2> QED BY <1>1, <1>2, <1>3, Largest
<1> DEFINE top == CHOOSE n \in used : \A m \in used : n >= m
<1>5. top \in Nat /\ top >= x.nonce
    <2> HIDE DEF used
    <2> QED BY <1>1, <1>4
<1>6. Cursor(l, seen) = 1 + top
    BY DEF Cursor
<1>7. QED
    <2> HIDE DEF top
    <2> QED BY <1>1, <1>5, <1>6

\* The nonce dispatch chooses is the number of signed rows: a stale count is
\* never above it, and the rows hold every nonce below it.
LEMMA NextNonceIsCount ==
    ASSUME Types, Persisted, Numbered, NEW n, NEW count \in Int, NEW nextNonce \in Nat,
           PendingCount(count), nextNonce <= count, IsNextNonce(n, nextNonce)
    PROVE  n = Cardinality(Signed)
<1> DEFINE N == Cardinality(Signed)
           all == {nextNonce} \cup {nonceOf[r] + 1 : r \in Rows}
<1>1. N \in Nat
    BY FS_CardinalityType DEF Numbered
<1>2. n \in all /\ \A m \in all : n >= m
    BY DEF IsNextNonce
<1>3. \A r \in Rows : nonceOf[r] # -1 => nonceOf[r] \in 0..(N - 1)
    BY DEF Numbered, Signed
<1>4. nextNonce <= N
    <2>1. CASE count = chainNonce
        BY <2>1, <1>1 DEF Numbered, Types
    <2>2. CASE count # chainNonce
        <3>1. count - 1 \in chainNonce..(count - 1)
            BY <2>2 DEF PendingCount, Types
        <3>2. PICK r \in mempool : nonceOf[r] = count - 1
            BY <3>1 DEF PendingCount
        <3>3. count - 1 \in 0..(N - 1)
            BY <3>2, <1>3 DEF Persisted, Types
        <3>4. QED
            BY <3>3, <1>1
    <2>3. QED
        BY <2>1, <2>2
<1>5. n \in Nat /\ n <= N
    BY <1>1, <1>2, <1>3, <1>4 DEF Types
<1>6. n >= N
    <2>1. CASE N = 0
        BY <2>1, <1>5
    <2>2. CASE N # 0
        <3>1. N - 1 \in 0..(N - 1)
            BY <2>2, <1>1
        <3>2. PICK r \in Signed : nonceOf[r] = N - 1
            BY <3>1 DEF Numbered
        <3>3. r \in Rows /\ N \in all
            BY <3>2, <1>1 DEF Signed
        <3>4. QED
            BY <1>2, <3>3
    <2>3. QED
        BY <2>1, <2>2
<1>7. QED
    BY <1>1, <1>5, <1>6

-----------------------------------------------------------------------------
(* What the steps do to the rows. *)

\* A step that moves no row: dispatch may take up an eligible row, choose its
\* nonce or give up, and rows in flight may enter or leave the mempool.
Still ==
    /\ UNCHANGED <<status, nonceOf, chainNonce, mined, slot>>
    /\ \A r \in Rows : r \in mempool' => r \in mempool \/ status[r] \in InFlight
    /\ \/ dispatching' = dispatching
       \/ dispatching' = Idle
       \/ dispatching'.step = "estimate" /\ Eligible(dispatching'.row)
       \/ /\ dispatching.step = "estimate" /\ dispatching'.step = "sign"
          /\ dispatching'.row = dispatching.row /\ dispatching'.nonce = Cardinality(Signed)

\* A row is queued, superseded, failed, marked sent or resolved; no bytes change.
Moved(r, s) ==
    /\ status' = [status EXCEPT ![r] = s]
    /\ UNCHANGED <<nonceOf, chainNonce, mempool, mined, slot>>
    /\ dispatching' \in {dispatching, Idle}

RowStep ==
    \/ \E r \in CallRows : status[r] = "none" /\ Moved(r, "queued")
    \/ \E r \in Rows : status[r] = "queued" /\ Moved(r, "failed")
    \/ \E r \in Rows : status[r] \in InFlight /\ Moved(r, "sent")
    \/ \E r \in Rows : /\ status[r] = "sent" /\ mined[r] # "no"
                       /\ Moved(r, IF mined[r] = "ok" THEN "succeeded" ELSE "failed")

\* A fresh command replaces what waits in its lane.
CommandStep ==
    \E r \in InputRows : \E seen \in 0..slot[r.lane] :
        /\ status[r] = "none" /\ r.nonce = Cursor(r.lane, seen)
        /\ status' = [x \in Rows |-> IF x = r THEN "queued"
                                     ELSE IF x \in LaneRows(r.lane) /\ status[x] = "queued"
                                          THEN "superseded" ELSE status[x]]
        /\ UNCHANGED <<nonceOf, chainNonce, mempool, mined, slot, dispatching>>

\* A waiting row of the lane dispatch works on is signed with the next nonce.
SignStep ==
    \E r \in Rows :
        /\ dispatching.step = "sign" /\ status[r] = "queued"
        /\ r \in InputRows => dispatching.row \in InputRows /\ r.lane = dispatching.row.lane
        /\ status' = [status EXCEPT ![r] = "signed"]
        /\ nonceOf' = [nonceOf EXCEPT ![r] = dispatching.nonce]
        /\ dispatching' = Idle
        /\ UNCHANGED <<chainNonce, mempool, mined, slot>>

\* The next transaction is mined, well or not.
MineStep ==
    \E r \in mempool :
        /\ nonceOf[r] = chainNonce /\ chainNonce' = chainNonce + 1
        /\ mempool' = mempool \ {r}
        /\ \/ mined' = [mined EXCEPT ![r] = "reverted"] /\ slot' = slot
           \/ /\ mined' = [mined EXCEPT ![r] = "ok"]
              /\ \/ r \notin InputRows /\ slot' = slot
                 \/ /\ r \in InputRows /\ r.nonce = slot[r.lane] + 1
                    /\ slot' = [slot EXCEPT ![r.lane] = r.nonce]
        /\ UNCHANGED <<status, nonceOf, dispatching>>

JournalStep == Still \/ RowStep \/ CommandStep \/ SignStep \/ MineStep

\* A step keeps the types of the rows' bookkeeping.
LEMMA TypesStep == Types /\ Numbered /\ [Next]_vars => Types'
<1> SUFFICES ASSUME Types, Numbered, [Next]_vars PROVE Types'
    OBVIOUS
<1> USE JournalAssumption
<1>1. CASE UNCHANGED vars
    BY <1>1 DEF vars, journalVars, processVars, chainVars, Types
<1>2. ASSUME NEW c \in Calls, EnqueueCheck(c) PROVE Types'
    <2>1. RowFor(c) \in CallRows
        BY DEF RowFor, CallRows, Types
    <2>2. QED
        BY <1>2, <2>1 DEF EnqueueCheck, journalVars, chainVars, Types
<1>3. ASSUME NEW r \in asking, EnqueueInsert(r) PROVE Types'
    <2>1. status' \in [Rows -> Statuses]
        BY <1>3 DEF EnqueueInsert, Types, Statuses, Open
    <2>2. QED
        BY <1>3, <2>1 DEF EnqueueInsert, chainVars, Types
<1>4. ASSUME NEW r \in InputRows, NEW seen \in 0..slot[r.lane], AcceptInput(r, seen) PROVE Types'
    <2>1. status' \in [Rows -> Statuses]
        BY <1>4 DEF AcceptInput, Types, Statuses, Open
    <2>2. QED
        BY <1>4, <2>1 DEF AcceptInput, processVars, chainVars, Types
<1>5. CASE DispatchSelect
    BY <1>5 DEF DispatchSelect, journalVars, chainVars, Types
<1>6. ASSUME NEW n \in 0..Cardinality(Rows), DispatchEstimate(n) PROVE Types'
    BY <1>6 DEF DispatchEstimate, journalVars, chainVars, Types
<1>8. CASE DispatchSkip
    BY <1>8 DEF DispatchSkip, journalVars, chainVars, Types
<1>9. CASE DispatchFail
    <2>1. status' \in [Rows -> Statuses]
        BY <1>9 DEF DispatchFail, Types, Statuses, Open
    <2>2. QED
        BY <1>9, <2>1 DEF DispatchFail, chainVars, Types
<1>10. ASSUME NEW r \in Rows, BroadcastSend(r) PROVE Types'
    BY <1>10 DEF BroadcastSend, journalVars, Types
<1>11. ASSUME NEW r \in sending, BroadcastMark(r) PROVE Types'
    <2>1. status' \in [Rows -> Statuses]
        BY <1>11 DEF BroadcastMark, Types, Statuses, Open
    <2>2. QED
        BY <1>11, <2>1 DEF BroadcastMark, chainVars, Types
<1>12. ASSUME NEW r \in Rows, ObserveReceipt(r) PROVE Types'
    <2>1. status' \in [Rows -> Statuses]
        BY <1>12 DEF ObserveReceipt, Types, Statuses, Open
    <2>2. QED
        BY <1>12, <2>1 DEF ObserveReceipt, processVars, chainVars, Types
<1>13. CASE NewHead
    BY <1>13 DEF NewHead, journalVars, processVars, chainVars, Types
<1>14. ASSUME NEW r \in mempool, Mine(r) PROVE Types'
    <2>1. slot' \in [Lanes -> Nat]
        BY <1>14, InputFields DEF Mine, Types
    <2>2. QED
        BY <1>14, <2>1 DEF Mine, journalVars, processVars, Types
<1>15. ASSUME NEW r \in mempool, Drop(r) PROVE Types'
    BY <1>15 DEF Drop, journalVars, processVars, Types
<1>16. ASSUME NEW c \in Calls, OthersCall(c) PROVE Types'
    BY <1>16 DEF OthersCall, journalVars, processVars, Types
<1>17. CASE Restart
    BY <1>17 DEF Restart, journalVars, chainVars, Types
<1>7. ASSUME NEW r \in Rows, DispatchSign(r) PROVE Types'
    <2>0. dispatching.nonce \in Nat
        BY <1>7, FS_CardinalityType DEF DispatchSign, Numbered
    <2>1. status' \in [Rows -> Statuses]
        BY <1>7 DEF DispatchSign, Types, Statuses, Open
    <2>2. QED
        BY <1>7, <2>0, <2>1 DEF DispatchSign, chainVars, Types
<1>18. QED
    BY <1>1, <1>2, <1>3, <1>4, <1>5, <1>6, <1>7, <1>8, <1>9, <1>10, <1>11, <1>12, <1>13, <1>14,
       <1>15, <1>16, <1>17 DEF Next, InputStep, DispatchStep

\* Every step is one of these.
LEMMA StepShapes == IInv /\ [Next]_vars => JournalStep
<1> SUFFICES ASSUME IInv, [Next]_vars PROVE JournalStep
    OBVIOUS
<1>0. Types /\ Persisted /\ Numbered
    BY DEF IInv
<1>1. CASE UNCHANGED vars
    BY <1>1 DEF vars, journalVars, processVars, chainVars, Still, JournalStep
<1>2. ASSUME NEW c \in Calls, EnqueueCheck(c) PROVE JournalStep
    BY <1>2 DEF EnqueueCheck, journalVars, chainVars, Still, JournalStep
<1>3. ASSUME NEW r \in asking, EnqueueInsert(r) PROVE JournalStep
    <2>1. r \in CallRows
        BY <1>0 DEF Types
    <2>2. UNCHANGED <<nonceOf, chainNonce, mempool, mined, slot, dispatching>>
        BY <1>3 DEF EnqueueInsert, chainVars
    <2>3. CASE status[r] = "none"
        BY <1>3, <2>1, <2>2, <2>3 DEF EnqueueInsert, Moved, RowStep, JournalStep
    <2>4. CASE status[r] # "none"
        BY <1>3, <2>2, <2>4 DEF EnqueueInsert, Still, JournalStep
    <2>5. QED
        BY <2>3, <2>4
<1>4. ASSUME NEW r \in InputRows, NEW seen \in 0..slot[r.lane], AcceptInput(r, seen) PROVE JournalStep
    <2>1. /\ status[r] = "none" /\ r.nonce = Cursor(r.lane, seen)
          /\ UNCHANGED <<nonceOf, chainNonce, mempool, mined, slot, dispatching>>
        BY <1>4 DEF AcceptInput, processVars, chainVars
    <2>2. status' = [x \in Rows |-> IF x = r THEN "queued"
                                    ELSE IF x \in LaneRows(r.lane) /\ status[x] = "queued"
                                         THEN "superseded" ELSE status[x]]
        <3>1. LaneRows(r.lane) \subseteq Rows
            BY DEF LaneRows, Rows
        <3>2. QED
            BY <1>4, <3>1 DEF AcceptInput
    <2>3. QED
        BY <2>1, <2>2 DEF CommandStep, JournalStep
<1>5. CASE DispatchSelect
    <2>1. PICK i \in 1..Len(queue) :
              IsNextRow(i) /\ dispatching' = [step |-> "estimate", row |-> queue[i]]
        BY <1>5 DEF DispatchSelect
    <2>2. dispatching'.step = "estimate" /\ Eligible(dispatching'.row)
        BY <2>1 DEF IsNextRow
    <2>3. QED
        BY <1>5, <2>2 DEF DispatchSelect, journalVars, chainVars, Still, JournalStep
<1>6. ASSUME NEW n \in 0..Cardinality(Rows), DispatchEstimate(n) PROVE JournalStep
    <2>1. PICK count \in 0..Cardinality(Rows), nextNonce \in 0..Cardinality(Rows) :
              PendingCount(count) /\ nextNonce <= count /\ IsNextNonce(n, nextNonce)
        BY <1>6 DEF DispatchEstimate
    <2>2. n = Cardinality(Signed)
        BY <1>0, <2>1, NextNonceIsCount
    <2>3. QED
        BY <1>6, <2>2 DEF DispatchEstimate, journalVars, chainVars, Still, JournalStep
<1>7. ASSUME NEW r \in Rows, DispatchSign(r) PROVE JournalStep
    <2>1. status[r] = "queued" /\ (r \in InputRows =>
              dispatching.row \in InputRows /\ r.lane = dispatching.row.lane)
        BY <1>7 DEF DispatchSign, Signable, LaneRows
    <2>2. QED
        BY <1>7, <2>1 DEF DispatchSign, chainVars, SignStep, JournalStep
<1>8. CASE DispatchSkip
    BY <1>8 DEF DispatchSkip, journalVars, chainVars, Still, JournalStep
<1>9. CASE DispatchFail
    <2>1. /\ UNCHANGED <<nonceOf, chainNonce, mempool, mined, slot>> /\ dispatching' = Idle
          /\ IF status[dispatching.row] = "queued"
             THEN status' = [status EXCEPT ![dispatching.row] = "failed"] ELSE status' = status
        BY <1>9 DEF DispatchFail, chainVars
    <2>2. CASE status[dispatching.row] = "queued" /\ dispatching.row \in Rows
        BY <2>1, <2>2 DEF Moved, RowStep, JournalStep
    <2>3. CASE status[dispatching.row] # "queued" \/ dispatching.row \notin Rows
        <3>1. status' = status
            BY <1>0, <2>1, <2>3 DEF Types
        <3>2. QED
            BY <2>1, <3>1 DEF Still, JournalStep
    <2>4. QED
        BY <2>2, <2>3
<1>10. ASSUME NEW r \in Rows, BroadcastSend(r) PROVE JournalStep
    BY <1>10 DEF BroadcastSend, journalVars, Still, JournalStep
<1>11. ASSUME NEW r \in sending, BroadcastMark(r) PROVE JournalStep
    <2>1. /\ UNCHANGED <<nonceOf, chainNonce, mempool, mined, slot, dispatching>>
          /\ status' = [status EXCEPT ![r] = IF @ \in InFlight THEN "sent" ELSE @]
        BY <1>11 DEF BroadcastMark, chainVars
    <2>2. CASE r \in Rows /\ status[r] \in InFlight
        BY <2>1, <2>2 DEF Moved, RowStep, JournalStep
    <2>3. CASE r \notin Rows \/ status[r] \notin InFlight
        <3>1. status' = status
            BY <1>0, <2>1, <2>3 DEF Types
        <3>2. QED
            BY <2>1, <3>1 DEF Still, JournalStep
    <2>4. QED
        BY <2>2, <2>3
<1>12. ASSUME NEW r \in Rows, ObserveReceipt(r) PROVE JournalStep
    BY <1>12 DEF ObserveReceipt, processVars, chainVars, Moved, RowStep, JournalStep
<1>13. CASE NewHead
    BY <1>13 DEF NewHead, journalVars, processVars, chainVars, Still, JournalStep
<1>14. ASSUME NEW r \in mempool, Mine(r) PROVE JournalStep
    <2>1. /\ nonceOf[r] = chainNonce /\ chainNonce' = chainNonce + 1 /\ mempool' = mempool \ {r}
          /\ UNCHANGED <<status, nonceOf, dispatching>>
        BY <1>14 DEF Mine, journalVars, processVars
    <2>2. \/ mined' = [mined EXCEPT ![r] = "reverted"] /\ slot' = slot
          \/ /\ mined' = [mined EXCEPT ![r] = "ok"]
             /\ \/ r \notin InputRows /\ slot' = slot
                \/ /\ r \in InputRows /\ r.nonce = slot[r.lane] + 1
                   /\ slot' = [slot EXCEPT ![r.lane] = r.nonce]
        BY <1>14 DEF Mine, Valid
    <2>3. QED
        BY <2>1, <2>2 DEF MineStep, JournalStep
<1>15. ASSUME NEW r \in mempool, Drop(r) PROVE JournalStep
    BY <1>15 DEF Drop, journalVars, processVars, Still, JournalStep
<1>16. ASSUME NEW c \in Calls, OthersCall(c) PROVE JournalStep
    BY <1>16 DEF OthersCall, journalVars, processVars, Still, JournalStep
<1>17. CASE Restart
    BY <1>17 DEF Restart, journalVars, chainVars, Still, JournalStep
<1>18. QED
    BY <1>1, <1>2, <1>3, <1>4, <1>5, <1>6, <1>7, <1>8, <1>9, <1>10, <1>11, <1>12, <1>13, <1>14,
       <1>15, <1>16, <1>17 DEF Next, InputStep, DispatchStep

-----------------------------------------------------------------------------
(* What the steps keep. *)

\* A step keeps what the journal says true.
LEMMA PersistedStep == IInv /\ Types' /\ JournalStep => Persisted'
<1> SUFFICES ASSUME IInv, Types', JournalStep PROVE Persisted'
    OBVIOUS
<1>0. Types /\ Persisted /\ Numbered
    BY DEF IInv
<1>1. CASE Still
    BY <1>0, <1>1 DEF Still, Persisted, Types, InFlight
<1>2. CASE RowStep
    <2>1. ASSUME NEW r \in Rows, NEW s, Moved(r, s),
                 \/ status[r] = "none" /\ s = "queued"
                 \/ status[r] = "queued" /\ s = "failed"
                 \/ status[r] \in InFlight /\ s = "sent"
                 \/ /\ status[r] = "sent" /\ mined[r] # "no"
                    /\ s = IF mined[r] = "ok" THEN "succeeded" ELSE "failed"
          PROVE  Persisted'
        BY <1>0, <2>1 DEF Moved, Persisted, Types, InFlight
    <2>2. QED
        BY <1>2, <2>1 DEF RowStep, Rows
<1>3. CASE CommandStep
    BY <1>0, <1>3 DEF CommandStep, Persisted, Types
<1>4. CASE SignStep
    <2>1. PICK r \in Rows :
              /\ dispatching.step = "sign" /\ status[r] = "queued"
              /\ status' = [status EXCEPT ![r] = "signed"]
              /\ nonceOf' = [nonceOf EXCEPT ![r] = dispatching.nonce]
              /\ UNCHANGED <<chainNonce, mempool, mined, slot>>
        BY <1>4 DEF SignStep
    <2>2. /\ dispatching.nonce = Cardinality(Signed) /\ Cardinality(Signed) \in Nat
          /\ chainNonce <= Cardinality(Signed)
        BY <1>0, <2>1, FS_CardinalityType DEF Numbered
    <2>3. QED
        BY <1>0, <2>1, <2>2 DEF Persisted, Types
<1>5. CASE MineStep
    <2>1. PICK r \in mempool :
              /\ nonceOf[r] = chainNonce /\ chainNonce' = chainNonce + 1
              /\ mempool' = mempool \ {r}
              /\ \E how \in {"ok", "reverted"} : mined' = [mined EXCEPT ![r] = how]
              /\ UNCHANGED <<status, nonceOf>>
        BY <1>5 DEF MineStep
    <2>2. r \in Rows /\ mined[r] = "no" /\ status[r] \notin {"succeeded", "failed"} /\ nonceOf[r] # -1
        BY <1>0, <2>1 DEF Persisted, Types
    <2>3. \A x \in Rows : nonceOf[x] = nonceOf[r] => x = r
        BY <1>0, <2>2 DEF Numbered, Signed
    <2>4. \A x \in Rows : x # r => (nonceOf[x] < chainNonce' <=> nonceOf[x] < chainNonce)
        BY <1>0, <2>1, <2>3 DEF Types
    <2>5. nonceOf[r] < chainNonce'
        BY <1>0, <2>1 DEF Types
    <2>6. QED
        BY <1>0, <2>1, <2>2, <2>4, <2>5 DEF Persisted, Types
<1>6. QED
    BY <1>1, <1>2, <1>3, <1>4, <1>5 DEF JournalStep

\* A step keeps the nonces in order.
LEMMA NumberedStep == IInv /\ Types' /\ JournalStep => Numbered'
<1> SUFFICES ASSUME IInv, Types', JournalStep PROVE Numbered'
    OBVIOUS
<1>0. Types /\ Persisted /\ Numbered
    BY DEF IInv
<1>1. ASSUME nonceOf' = nonceOf PROVE Signed' = Signed
    BY <1>1 DEF Signed
<1>2. CASE nonceOf' = nonceOf /\ chainNonce' = chainNonce
    <2>1. dispatching'.step = "sign" => dispatching'.nonce = Cardinality(Signed)
        BY <1>0, <1>2 DEF JournalStep, Still, RowStep, Moved, CommandStep, SignStep, MineStep, Idle, Numbered
    <2>2. QED
        BY <1>0, <1>1, <1>2, <2>1 DEF Numbered
<1>3. CASE MineStep
    <2>1. PICK r \in mempool : nonceOf[r] = chainNonce /\ chainNonce' = chainNonce + 1
        BY <1>3 DEF MineStep
    <2>2. nonceOf' = nonceOf /\ dispatching' = dispatching
        BY <1>3 DEF MineStep
    <2>3. r \in Signed /\ nonceOf[r] \in 0..(Cardinality(Signed) - 1) /\ Cardinality(Signed) \in Nat
        BY <1>0, <2>1, FS_CardinalityType DEF Persisted, Numbered, Types, Signed
    <2>4. chainNonce' <= Cardinality(Signed)
        BY <2>1, <2>3
    <2>5. QED
        BY <1>0, <1>1, <2>2, <2>4 DEF Numbered
<1>4. CASE SignStep
    <2>1. PICK r \in Rows :
              /\ dispatching.step = "sign" /\ status[r] = "queued"
              /\ nonceOf' = [nonceOf EXCEPT ![r] = dispatching.nonce]
              /\ dispatching' = Idle /\ chainNonce' = chainNonce
        BY <1>4 DEF SignStep
    <2> DEFINE N == Cardinality(Signed)
    <2>2. dispatching.nonce = N /\ N \in Nat /\ nonceOf[r] = -1
        BY <1>0, <2>1, FS_CardinalityType DEF Numbered, Persisted
    <2>3. Signed' = Signed \cup {r} /\ r \notin Signed
        <3>1. \A x \in Rows : nonceOf'[x] = IF x = r THEN N ELSE nonceOf[x]
            BY <1>0, <2>1, <2>2 DEF Types
        <3>2. N # -1
            BY <2>2
        <3> HIDE DEF N
        <3>3. QED
            BY <2>1, <2>2, <3>1, <3>2 DEF Signed
    <2>4. IsFiniteSet(Signed') /\ Cardinality(Signed') = N + 1
        BY <1>0, <2>3, FS_AddElement DEF Numbered
    <2>5. nonceOf'[r] = N /\ \A x \in Signed : nonceOf'[x] = nonceOf[x] /\ nonceOf[x] \in 0..(N - 1)
        BY <1>0, <2>1, <2>2, <2>3 DEF Numbered, Types, Signed
    <2>6. {nonceOf'[x] : x \in Signed'} = {nonceOf[x] : x \in Signed} \cup {N}
        BY <2>3, <2>5
    <2>7. {nonceOf'[x] : x \in Signed'} = 0..(Cardinality(Signed') - 1)
        <3>1. {nonceOf[x] : x \in Signed} = 0..(N - 1)
            BY <1>0 DEF Numbered
        <3>2. (0..(N - 1)) \cup {N} = 0..N
            BY <2>2
        <3>3. N + 1 - 1 = N
            BY <2>2
        <3>4. QED
            BY <2>4, <2>6, <3>1, <3>2, <3>3
    <2>8. \A x, y \in Signed' : nonceOf'[x] = nonceOf'[y] => x = y
        <3>1. \A x \in Signed : nonceOf'[x] # N
            BY <2>2, <2>5
        <3>2. \A x, y \in Signed : nonceOf'[x] = nonceOf'[y] => x = y
            BY <1>0, <2>5 DEF Numbered
        <3>3. QED
            BY <2>3, <2>5, <3>1, <3>2
    <2>9. chainNonce' <= Cardinality(Signed') /\ dispatching'.step # "sign"
        BY <1>0, <2>1, <2>2, <2>4 DEF Numbered, Idle, Types
    <2>10. QED
        BY <2>4, <2>7, <2>8, <2>9 DEF Numbered
<1>5. QED
    BY <1>2, <1>3, <1>4 DEF JournalStep, Still, RowStep, Moved, CommandStep

\* A step keeps the lanes in order.
LEMMA OrderedStep == IInv /\ Types' /\ JournalStep => Ordered'
<1> SUFFICES ASSUME IInv, Types', JournalStep PROVE Ordered'
    OBVIOUS
<1>0. Types /\ Persisted /\ Numbered /\ Ordered
    BY DEF IInv
<1>a. \A r \in InputRows : r \in Rows /\ r \in LaneRows(r.lane) /\ r.lane \in Lanes /\ r.nonce \in Nat
    BY InputFields DEF LaneRows
<1>b. \A l : LaneRows(l) = {r \in InputRows : r.lane = l}
    BY DEF LaneRows
<1>1. CASE Still
    <2>1. UNCHANGED <<status, mined, slot>>
        BY <1>1 DEF Still
    <2>2. dispatching'.step \in {"estimate", "sign"} /\ dispatching'.row \in InputRows =>
              \A x \in LaneRows(dispatching'.row.lane) : status[x] \notin InFlight
        BY <1>0, <1>1 DEF Still, Ordered, Eligible, Idle
    <2>3. QED
        BY <1>0, <2>1, <2>2 DEF Ordered, LaneRows
<1>2. CASE RowStep
    <2>1. ASSUME NEW r \in Rows, NEW s, Moved(r, s),
                 \/ r \notin InputRows
                 \/ status[r] = "queued" /\ s = "failed"
                 \/ status[r] \in InFlight /\ s = "sent"
                 \/ status[r] = "sent" /\ s \in {"succeeded", "failed"}
          PROVE  Ordered'
        <3>1. /\ UNCHANGED <<mined, slot>> /\ dispatching' \in {dispatching, Idle}
              /\ \A x \in InputRows : status'[x] = IF x = r THEN s ELSE status[x]
            BY <1>0, <1>a, <2>1 DEF Moved, Types
        <3>2. \A x \in InputRows : status'[x] \in InFlight => status[x] \in InFlight
            BY <2>1, <3>1 DEF InFlight
        <3>3. \A x \in InputRows : status'[x] = "queued" => status[x] = "queued"
            BY <2>1, <3>1 DEF InFlight
        <3>4. \A x \in InputRows : status'[x] \in Open => status[x] \in Open
            BY <3>2, <3>3 DEF Open, InFlight
        <3>5. QED
            BY <1>0, <3>1, <3>2, <3>3, <3>4 DEF Ordered, LaneRows, Idle
    <2>2. QED
        BY <1>2, <2>1, RowsDiffer DEF RowStep, Rows
<1>3. CASE CommandStep
    <2>0. PICK r \in InputRows : \E seen \in 0..slot[r.lane] :
              /\ status[r] = "none" /\ r.nonce = Cursor(r.lane, seen)
              /\ status' = [x \in Rows |-> IF x = r THEN "queued"
                                           ELSE IF x \in LaneRows(r.lane) /\ status[x] = "queued"
                                                THEN "superseded" ELSE status[x]]
              /\ UNCHANGED <<nonceOf, mined, slot, dispatching>>
        BY <1>3 DEF CommandStep
    <2>1. PICK seen \in 0..slot[r.lane] :
              /\ status[r] = "none" /\ r.nonce = Cursor(r.lane, seen)
              /\ status' = [x \in Rows |-> IF x = r THEN "queued"
                                           ELSE IF x \in LaneRows(r.lane) /\ status[x] = "queued"
                                                THEN "superseded" ELSE status[x]]
              /\ UNCHANGED <<nonceOf, mined, slot, dispatching>>
        BY <2>0
    <2>2. \A x \in LaneRows(r.lane) : status[x] \in InFlight \cup {"succeeded"} => x.nonce < r.nonce
        <3>1. seen \in Nat /\ r.lane \in Lanes
            BY <1>0, <1>a DEF Types
        <3>2. ASSUME NEW x \in LaneRows(r.lane), status[x] \in InFlight \cup {"succeeded"}
              PROVE  x.nonce < r.nonce
            <4>1. r.nonce > x.nonce
                BY <1>0, <2>1, <3>1, <3>2, CursorIsNew
            <4>2. QED
                BY <1>a, <1>b, <4>1
        <3>3. QED
            BY <3>2
    <2>3. slot[r.lane] < r.nonce
        <3>1. CASE slot[r.lane] = 0
            <4>1. r.nonce \in 1..MaxInput
                BY DEF InputRows
            <4>2. QED
                BY <3>1, <4>1, JournalAssumption
        <3>2. CASE slot[r.lane] # 0
            <4>1. PICK x \in LaneRows(r.lane) : mined[x] = "ok" /\ x.nonce = slot[r.lane]
                BY <1>0, <1>a, <3>2 DEF Ordered
            <4>2. x \in Rows /\ status[x] \in InFlight \cup {"succeeded"}
                BY <1>0, <1>a, <1>b, <4>1 DEF Persisted, Types, Statuses, Open, InFlight
            <4>3. QED
                BY <2>2, <4>1, <4>2
        <3>3. QED
            BY <3>1, <3>2
    <2>4. \A x \in InputRows : /\ status'[x] \in InFlight => status[x] \in InFlight /\ x # r
                               /\ status'[x] = "queued" =>
                                      x = r \/ (status[x] = "queued" /\ x.lane # r.lane)
                               /\ status'[x] \in Open => x = r \/ status[x] \in Open
        BY <1>a, <1>b, <2>1 DEF InFlight, Open
    <2>5. \A x, y \in InputRows : x.lane = y.lane =>
              /\ status'[x] \in InFlight /\ status'[y] \in InFlight => x = y
              /\ status'[x] = "queued" /\ status'[y] = "queued" => x = y
              /\ status'[x] \in InFlight /\ status'[y] = "queued" => x.nonce < y.nonce
        BY <1>0, <1>b, <2>2, <2>4 DEF Ordered
    <2>6. \A x \in InputRows : status'[x] \in Open /\ mined[x] = "no" => slot[x.lane] < x.nonce
        BY <1>0, <2>3, <2>4 DEF Ordered
    <2>7. dispatching.step \in {"estimate", "sign"} /\ dispatching.row \in InputRows =>
              \A x \in LaneRows(dispatching.row.lane) : status'[x] \notin InFlight
        BY <1>0, <1>b, <2>4 DEF Ordered
    <2>8. QED
        BY <1>0, <2>1, <2>5, <2>6, <2>7 DEF Ordered, LaneRows
<1>4. CASE SignStep
    <2>1. PICK r \in Rows :
              /\ dispatching.step = "sign" /\ status[r] = "queued"
              /\ r \in InputRows => dispatching.row \in InputRows /\ r.lane = dispatching.row.lane
              /\ status' = [status EXCEPT ![r] = "signed"]
              /\ dispatching' = Idle
              /\ UNCHANGED <<mined, slot>>
        BY <1>4 DEF SignStep
    <2>2. \A x \in InputRows : status'[x] = IF x = r THEN "signed" ELSE status[x]
        BY <1>0, <1>a, <2>1 DEF Types
    <2>3. r \in InputRows => \A x \in InputRows : x.lane = r.lane => status[x] \notin InFlight
        BY <1>0, <1>b, <2>1 DEF Ordered
    <2>4. \A x, y \in InputRows : x.lane = y.lane =>
              /\ status'[x] \in InFlight /\ status'[y] \in InFlight => x = y
              /\ status'[x] = "queued" /\ status'[y] = "queued" => x = y
              /\ status'[x] \in InFlight /\ status'[y] = "queued" => x.nonce < y.nonce
        <3>1. ASSUME NEW x \in InputRows, NEW y \in InputRows, x.lane = y.lane
              PROVE  /\ status'[x] \in InFlight /\ status'[y] \in InFlight => x = y
                     /\ status'[x] = "queued" /\ status'[y] = "queued" => x = y
                     /\ status'[x] \in InFlight /\ status'[y] = "queued" => x.nonce < y.nonce
            BY <1>0, <2>1, <2>2, <2>3, <3>1 DEF Ordered, InFlight
        <3>2. QED
            BY <3>1
    <2>5. \A x \in InputRows : status'[x] \in Open /\ mined[x] = "no" => slot[x.lane] < x.nonce
        BY <1>0, <2>1, <2>2 DEF Ordered, Open
    <2>6. QED
        BY <1>0, <2>1, <2>4, <2>5 DEF Ordered, LaneRows, Idle
<1>5. CASE MineStep
    <2>1. PICK r \in mempool :
              /\ nonceOf[r] = chainNonce
              /\ \/ mined' = [mined EXCEPT ![r] = "reverted"] /\ slot' = slot
                 \/ /\ mined' = [mined EXCEPT ![r] = "ok"]
                    /\ \/ r \notin InputRows /\ slot' = slot
                       \/ /\ r \in InputRows /\ r.nonce = slot[r.lane] + 1
                          /\ slot' = [slot EXCEPT ![r.lane] = r.nonce]
              /\ UNCHANGED <<status, dispatching>>
        BY <1>5 DEF MineStep
    <2>2. /\ r \in Rows /\ mined[r] = "no" /\ status[r] \in InFlight
        BY <1>0, <2>1 DEF Persisted, Types, Statuses, Open, InFlight
    <2>3. \A x \in Rows : x # r => mined'[x] = mined[x]
        BY <1>0, <2>1 DEF Types
    <2>4. mined'[r] # "no"
        BY <1>0, <2>1, <2>2 DEF Types
    <2>5. \A x \in InputRows : status[x] \in Open /\ mined'[x] = "no" => slot'[x.lane] < x.nonce
        <3>1. ASSUME NEW x \in InputRows, status[x] \in Open, mined'[x] = "no" PROVE slot'[x.lane] < x.nonce
            <4>1. x # r /\ mined[x] = "no" /\ slot[x.lane] < x.nonce
                BY <1>0, <1>a, <2>3, <2>4, <3>1 DEF Ordered
            <4>2. CASE slot'[x.lane] = slot[x.lane]
                BY <4>1, <4>2
            <4>3. CASE slot'[x.lane] # slot[x.lane]
                <5>1. r \in InputRows /\ x.lane = r.lane /\ slot'[x.lane] = r.nonce
                    BY <1>0, <1>a, <2>1, <4>3 DEF Types
                <5>2. status[x] = "queued"
                    BY <1>0, <2>2, <3>1, <4>1, <5>1 DEF Ordered, Open, InFlight
                <5>3. QED
                    BY <1>0, <2>2, <5>1, <5>2 DEF Ordered
            <4>4. QED
                BY <4>2, <4>3
        <3>2. QED
            BY <3>1
    <2>6. \A l \in Lanes : slot'[l] # 0 => \E x \in LaneRows(l) : mined'[x] = "ok" /\ x.nonce = slot'[l]
        <3>1. ASSUME NEW l \in Lanes, slot'[l] # 0
              PROVE  \E x \in LaneRows(l) : mined'[x] = "ok" /\ x.nonce = slot'[l]
            <4>1. CASE slot'[l] = slot[l]
                <5>1. PICK x \in LaneRows(l) : mined[x] = "ok" /\ x.nonce = slot[l]
                    BY <1>0, <3>1, <4>1 DEF Ordered
                <5>2. x # r /\ x \in Rows
                    BY <1>a, <1>b, <2>2, <5>1
                <5>3. QED
                    BY <2>3, <4>1, <5>1, <5>2
            <4>2. CASE slot'[l] # slot[l]
                <5>1. /\ r \in InputRows /\ l = r.lane /\ slot'[l] = r.nonce
                      /\ mined' = [mined EXCEPT ![r] = "ok"]
                    BY <1>0, <1>a, <2>1, <4>2 DEF Types
                <5>2. mined'[r] = "ok" /\ r \in LaneRows(l)
                    BY <1>0, <1>a, <2>2, <5>1 DEF Types
                <5>3. QED
                    BY <5>1, <5>2
            <4>3. QED
                BY <4>1, <4>2
        <3>2. QED
            BY <3>1
    <2>7. QED
        BY <1>0, <2>1, <2>5, <2>6 DEF Ordered, LaneRows
<1>6. QED
    BY <1>1, <1>2, <1>3, <1>4, <1>5 DEF JournalStep

-----------------------------------------------------------------------------
(* The theorems. *)

\* The journal starts empty, which is consistent.
LEMMA StartsConsistent == Init => IInv
<1> SUFFICES ASSUME Init PROVE IInv
    OBVIOUS
<1> USE JournalAssumption
<1>1. Types
    BY DEF Init, Types, Statuses, Open
<1>2. Persisted
    BY DEF Init, Persisted
<1>3. Signed = {}
    BY DEF Init, Signed
<1>4. Numbered
    <2>1. IsFiniteSet(Signed) /\ Cardinality(Signed) = 0
        BY <1>3, FS_EmptySet
    <2>2. {nonceOf[r] : r \in Signed} = 0..(Cardinality(Signed) - 1)
        BY <1>3, <2>1
    <2>3. QED
        BY <1>3, <2>1, <2>2 DEF Init, Numbered, Idle
<1>5. Ordered
    BY DEF Init, Ordered, Open, InFlight, Idle, InputRows, Rows
<1>6. QED
    BY <1>1, <1>2, <1>4, <1>5 DEF IInv

\* The inductive invariant is one.
THEOREM JournalInvariance == Spec => []IInv
<1>1. Init => IInv
    BY StartsConsistent
<1>2. IInv /\ [Next]_vars => IInv'
    <2> SUFFICES ASSUME IInv, [Next]_vars PROVE IInv'
        OBVIOUS
    <2>1. Types'
        BY TypesStep DEF IInv
    <2>2. JournalStep
        BY StepShapes
    <2>3. Persisted' /\ Numbered' /\ Ordered'
        BY <2>1, <2>2, PersistedStep, NumberedStep, OrderedStep
    <2>4. QED
        BY <2>1, <2>3 DEF IInv
<1>3. QED
    BY <1>1, <1>2, PTL DEF Spec

\* The sponsor's nonces are handed out in order, one to a row and without a gap
\* (dispatch's max(nextNonce, reserved + 1)).
THEOREM NoncesAreInOrder == Spec => []NoncesInOrder
<1>1. IInv => NoncesInOrder
    BY DEF IInv, Numbered, NoncesInOrder
<1>2. QED
    BY <1>1, JournalInvariance, PTL

\* What the journal says of a row is what the chain did with it.
THEOREM JournalTellsTheTruth == Spec => []JournalIsTrue
<1>1. IInv => JournalIsTrue
    BY DEF IInv, Types, Persisted, JournalIsTrue, Signed
<1>2. QED
    BY <1>1, JournalInvariance, PTL

\* A set with at most one element counts at most one.
LEMMA AtMostOne == ASSUME NEW S, \A x, y \in S : x = y PROVE Cardinality(S) <= 1
<1>1. CASE S = {}
    BY <1>1, FS_EmptySet
<1>2. CASE S # {}
    <2>1. PICK x : S = {x}
        BY <1>2
    <2>2. QED
        BY <2>1, FS_Singleton
<1>3. QED
    BY <1>1, <1>2

\* A lane has one transaction in flight and one command waiting, and neither
\* repeats an input the chain has executed.
THEOREM LanesAreInOrder == Spec => []LanesInOrder
<1>1. IInv => LanesInOrder
    <2> SUFFICES ASSUME IInv, NEW l \in Lanes
                 PROVE  /\ Cardinality({r \in LaneRows(l) : status[r] \in InFlight}) <= 1
                        /\ Cardinality({r \in LaneRows(l) : status[r] = "queued"}) <= 1
                        /\ \A r \in LaneRows(l) : (status[r] \in Open /\ mined[r] = "no") => r.nonce > slot[l]
        BY DEF LanesInOrder
    <2>1. /\ \A x, y \in {r \in LaneRows(l) : status[r] \in InFlight} : x = y
          /\ \A x, y \in {r \in LaneRows(l) : status[r] = "queued"} : x = y
        BY DEF IInv, Ordered, LaneRows
    <2>2. \A r \in LaneRows(l) : (status[r] \in Open /\ mined[r] = "no") => r.nonce > slot[l]
        BY InputFields DEF IInv, Ordered, LaneRows, Types
    <2>3. QED
        BY <2>1, <2>2, AtMostOne
<1>2. QED
    BY <1>1, JournalInvariance, PTL
=============================================================================
