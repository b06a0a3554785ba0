------------------------ MODULE TournamentsV4Proofs -------------------------
(***************************************************************************)
(* Proofs about TournamentsV4 for every number of accounts, tournaments    *)
(* and matches, every format and every bound: the contract holds exactly   *)
(* what it owes, a played result stands, winners advance through the       *)
(* bracket and the best seeds meet last.                                   *)
(***************************************************************************)
EXTENDS TournamentsV4, RunningTotals, SequenceTheorems

-----------------------------------------------------------------------------
(* Money. *)

\* The prize is what the tournament owes, before it is created and before anyone
\* is refunded too.
Paid(t) ==
    /\ tournaments[t].prize = Owed(t)
    /\ tournaments[t].status = 0 => entered[t] = {}
    /\ tournaments[t].status # 4 => refunded[t] = {}

PrizeSum == SumFunctionOnSet([t \in Tournaments |-> tournaments[t].prize], Tournaments)
FundsMatch == cupFunds = PrizeSum + totalPendingPayouts

Money == (\A t \in Tournaments : Paid(t)) /\ FundsMatch /\ PendingMatch

-----------------------------------------------------------------------------
(* The bracket. *)

\* A match names its tournament and two of its entrants, one of whom wins it, and
\* was made by now.
GameOK(m) ==
    /\ games[m].status # 0 =>
           games[m].cup \in Tournaments /\ games[m].players \subseteq entered[games[m].cup]
    /\ games[m].status = 0 => games[m].players = {}
    /\ games[m].status = 3 => games[m].winner \in games[m].players
    /\ games[m].created <= now

\* The bracket of a round halves with it, and the rounds to come have no matches.
RoundOK(t) ==
    LET cup == tournaments[t] IN
    /\ cup.status = 0 => cup.round = 0
    /\ cup.status # 0 => \E f \in Formats : f[1] = cup.capacity
    /\ cup.status = 1 => cup.round = 0
    /\ cup.roundStarted <= now
    /\ \A s \in Slots : roundMatches[t][s] # 0 => cup.status > 1 /\ s[1] <= cup.round
    /\ cup.status = 2 => /\ cup.round \in 0..4 /\ Len(cup.bracket) \in {2, 4, 8, 16, 32}
                         /\ Width(cup.round) * Len(cup.bracket) = 2 * cup.capacity

\* The places of the present round are held by the winners of the one before.
PlacesOK(t) ==
    LET cup == tournaments[t] IN
    cup.status = 2 /\ cup.round > 0 =>
        \A i \in 1..Len(cup.bracket) :
            LET s == <<cup.round - 1, i - 1>>  m == roundMatches[t][s] IN
            /\ s \in Slots /\ m # 0
            /\ games[m].status = 3 /\ games[m].winner = cup.bracket[i]
            /\ games[m].created <= cup.roundStarted

\* An attached match was made in its round, between the winners of the two
\* matches that feed its place.
AttachedOK(t, s) ==
    roundMatches[t][s] # 0 =>
        LET m == roundMatches[t][s] IN
        /\ games[m].status # 0 /\ games[m].cup = t
        /\ s[1] > 0 =>
               LET f0 == <<s[1] - 1, 2 * s[2]>>  f1 == <<s[1] - 1, 2 * s[2] + 1>> IN
               /\ f0 \in Slots /\ f1 \in Slots
               /\ \A f \in {f0, f1} :
                      /\ roundMatches[t][f] # 0
                      /\ games[roundMatches[t][f]].status = 3
                      /\ games[roundMatches[t][f]].created <= games[m].created
               /\ games[m].players = {games[roundMatches[t][f0]].winner,
                                      games[roundMatches[t][f1]].winner}

\* The winner of a finished tournament won the match of its last round.
FinalOK(t) ==
    tournaments[t].status = 3 =>
        LET s == <<tournaments[t].round, 0>>  m == roundMatches[t][s] IN
        /\ s \in Slots /\ m # 0 /\ games[m].status = 3
        /\ tournaments[t].winner = games[m].winner

\* The match attached to a slot of the present round is between the pair there.
PairsOK(t) ==
    LET cup == tournaments[t] IN
    cup.status = 2 =>
        \A s \in Slots :
            s[1] = cup.round /\ roundMatches[t][s] # 0 =>
                games[roundMatches[t][s]].players
                    = {cup.bracket[2 * s[2] + 1], cup.bracket[2 * s[2] + 2]}

\* Place i of a bracket is held by a player of block i of the first one, where a
\* block has w places.
Placed(bracket, order, seeds, w) ==
    \A i \in 1..Len(bracket) :
        \E k \in (w * (i - 1) + 1)..(w * i) : bracket[i] = order[seeds[k]]

\* The first bracket was the ranking of the entrants in the order of the seeds.
SeedsOK(t) ==
    LET cup == tournaments[t] IN
    cup.status = 2 =>
        /\ ranking[t] \in [1..cup.capacity -> Accounts]
        /\ \A i, j \in 1..cup.capacity : ranking[t][i] = ranking[t][j] => i = j
        /\ \E w \in {1, 2, 4, 8, 16} :
               /\ w * Len(cup.bracket) = cup.capacity
               /\ Placed(cup.bracket, ranking[t], Seeds(cup.capacity), w)

CupOK(t) == RoundOK(t) /\ PlacesOK(t) /\ FinalOK(t) /\ PairsOK(t) /\ SeedsOK(t)

Bracket ==
    /\ \A m \in MatchIds : GameOK(m)
    /\ \A t \in Tournaments : CupOK(t)
    /\ \A t \in Tournaments, s \in Slots : AttachedOK(t, s)

IInv == TypeOK /\ Money /\ Bracket

-----------------------------------------------------------------------------
(* Records of a tournament, and what each operation makes of one. *)

\* Nothing of the round changes.
SameRound(c, d) ==
    /\ d.roundStarted = c.roundStarted /\ d.capacity = c.capacity /\ d.round = c.round
    /\ d.winner = c.winner /\ d.bracket = c.bracket

\* Nothing of the money changes.
SameMoney(c, d) == d.fee = c.fee /\ d.prize = c.prize /\ d.seedPrize = c.seedPrize

\* create writes every field of its tournament.
Opened(closesAt, capacity, fee, seed) ==
    [NoTournament EXCEPT !.status = 1, !.closesAt = closesAt, !.capacity = capacity,
                         !.fee = fee, !.prize = seed, !.seedPrize = seed]

\* A tournament just created is well typed.
LEMMA OpenedCup ==
    ASSUME NEW closesAt \in 0..MaxTime, NEW capacity \in Nat, NEW fee \in Nat, NEW seed \in Nat,
           NEW d, d = Opened(closesAt, capacity, fee, seed)
    PROVE  /\ d \in Cup /\ d.status = 1 /\ d.capacity = capacity /\ d.round = 0
           /\ d.roundStarted = 0 /\ d.fee = fee /\ d.prize = seed /\ d.seedPrize = seed
<1>1. d = [status |-> 1, closesAt |-> closesAt, roundStarted |-> 0, capacity |-> capacity, fee |-> fee,
           prize |-> seed, seedPrize |-> seed, round |-> 0, winner |-> Nobody, bracket |-> <<>>]
    BY Zenon DEF Opened, NoTournament
<1>2. 0 \in 0..MaxTime /\ <<>> \in Seq(Accounts)
    BY VaultAssumption, EmptySeq
<1>3. QED
    BY ONLY <1>1, <1>2, closesAt \in 0..MaxTime, capacity \in Nat, fee \in Nat, seed \in Nat DEF Cup

\* A fee paid in or out changes the prize alone.
LEMMA RepricedCup ==
    ASSUME NEW c \in Cup, NEW v \in Nat, NEW d, d = [c EXCEPT !.prize = v]
    PROVE  /\ d \in Cup /\ d.status = c.status /\ SameRound(c, d)
           /\ d.prize = v /\ d.fee = c.fee /\ d.seedPrize = c.seedPrize
BY DEF Cup, SameRound

\* What start, advance and cancel make of a tournament.
Started(c, b, n) == [c EXCEPT !.bracket = b, !.status = 2, !.roundStarted = n]
Advanced(c, b, k, n) == [c EXCEPT !.bracket = b, !.round = k, !.roundStarted = n]
Won(c, w) == [c EXCEPT !.status = 3, !.winner = w, !.prize = 0]
Cancelled(c, v) == [c EXCEPT !.status = 4, !.prize = v, !.seedPrize = 0]

\* start fills the bracket.
LEMMA StartedCup ==
    ASSUME NEW c \in Cup, NEW b \in Seq(Accounts), NEW n \in 0..MaxTime,
           NEW d, d = Started(c, b, n)
    PROVE  /\ d \in Cup /\ d.status = 2 /\ SameMoney(c, d)
           /\ d.bracket = b /\ d.roundStarted = n /\ d.capacity = c.capacity /\ d.round = c.round
<1>1. ASSUME NEW v \in 0..4, d = [c EXCEPT !.bracket = b, !.status = v, !.roundStarted = n]
      PROVE  /\ d \in Cup /\ d.status = v /\ SameMoney(c, d)
             /\ d.bracket = b /\ d.roundStarted = n /\ d.capacity = c.capacity /\ d.round = c.round
    BY <1>1 DEF Cup, SameMoney
<1>2. 2 \in 0..4
    OBVIOUS
<1>3. QED
    BY <1>1, <1>2 DEF Started

\* advance opens the next round.
LEMMA AdvancedCup ==
    ASSUME NEW c \in Cup, NEW b \in Seq(Accounts), NEW n \in 0..MaxTime, NEW k \in Nat,
           NEW d, d = Advanced(c, b, k, n)
    PROVE  /\ d \in Cup /\ d.status = c.status /\ SameMoney(c, d)
           /\ d.bracket = b /\ d.roundStarted = n /\ d.capacity = c.capacity /\ d.round = k
BY DEF Advanced, Cup, SameMoney

\* advance pays the prize of the last round.
LEMMA WonCup ==
    ASSUME NEW c \in Cup, NEW w \in Accounts \cup {Nobody},
           NEW d, d = Won(c, w)
    PROVE  /\ d \in Cup /\ d.status = 3 /\ d.winner = w /\ d.prize = 0
           /\ d.roundStarted = c.roundStarted /\ d.capacity = c.capacity /\ d.round = c.round
<1>1. ASSUME NEW v \in 0..4, NEW n \in Nat, d = [c EXCEPT !.status = v, !.winner = w, !.prize = n]
      PROVE  /\ d \in Cup /\ d.status = v /\ d.winner = w /\ d.prize = n
             /\ d.roundStarted = c.roundStarted /\ d.capacity = c.capacity /\ d.round = c.round
    BY <1>1 DEF Cup
<1>2. 3 \in 0..4 /\ 0 \in Nat
    OBVIOUS
<1>3. QED
    BY <1>1, <1>2 DEF Won

\* cancel keeps the fees.
LEMMA CancelledCup ==
    ASSUME NEW c \in Cup, NEW v \in Nat,
           NEW d, d = Cancelled(c, v)
    PROVE  /\ d \in Cup /\ d.status = 4 /\ SameRound(c, d) /\ d.fee = c.fee /\ d.prize = v
<1>1. ASSUME NEW k \in 0..4, NEW n \in Nat, d = [c EXCEPT !.status = k, !.prize = v, !.seedPrize = n]
      PROVE  d \in Cup /\ d.status = k /\ SameRound(c, d) /\ d.fee = c.fee /\ d.prize = v
    BY <1>1 DEF Cup, SameRound
<1>2. 4 \in 0..4 /\ 0 \in Nat
    OBVIOUS
<1>3. QED
    BY <1>1, <1>2 DEF Cancelled

\* A step that rewrites one tournament keeps the others.
LEMMA PutTypes ==
    ASSUME TypeOK, NEW t \in Tournaments, NEW c \in Cup, Put(t, c)
    PROVE  /\ tournaments' \in [Tournaments -> Cup]
           /\ tournaments'[t] = c
           /\ \A u \in Tournaments \ {t} : tournaments'[u] = tournaments[u]
BY DEF TypeOK, Put

\* The fields of a tournament.
LEMMA CupFields ==
    ASSUME TypeOK, NEW t \in Tournaments
    PROVE  /\ tournaments[t] \in Cup
           /\ tournaments[t].status \in 0..4 /\ tournaments[t].round \in Nat
           /\ tournaments[t].capacity \in Nat /\ tournaments[t].roundStarted \in 0..MaxTime
           /\ tournaments[t].fee \in Nat /\ tournaments[t].prize \in Nat
           /\ tournaments[t].seedPrize \in Nat /\ tournaments[t].winner \in Accounts \cup {Nobody}
           /\ tournaments[t].bracket \in Seq(Accounts) /\ Len(tournaments[t].bracket) \in Nat
<1>1. tournaments[t] \in Cup
    BY DEF TypeOK
<1>2. tournaments[t].bracket \in Seq(Accounts)
    BY <1>1 DEF Cup
<1>3. Len(tournaments[t].bracket) \in Nat
    BY <1>2, LenProperties
<1>4. QED
    BY <1>1, <1>2, <1>3 DEF Cup

\* The funds and the clock.
LEMMA FundFields ==
    ASSUME TypeOK
    PROVE  cupFunds \in Nat /\ totalPendingPayouts \in Nat /\ now \in Nat /\ now \in 0..MaxTime
BY VaultAssumption DEF TypeOK, VaultTypeOK, PayoutTypeOK

\* A format is a capacity with its fee and its prize.
LEMMA FormatFields ==
    ASSUME NEW f \in Formats
    PROVE  f[1] \in {2, 4, 8, 16, 32} /\ f[2] \in Nat /\ f[3] \in Nat
BY TournamentAssumption

\* A bracket of 2 to 32 places halves evenly.
LEMMA Halves ==
    ASSUME NEW n \in {2, 4, 8, 16, 32}
    PROVE  n \div 2 \in {1, 2, 4, 8, 16} /\ n = 2 * (n \div 2)
<1>1. 2 \div 2 = 1 /\ 4 \div 2 = 2 /\ 8 \div 2 = 4 /\ 16 \div 2 = 8 /\ 32 \div 2 = 16
    OBVIOUS
<1>2. QED
    BY <1>1

\* The places of the present round are places of the bracket, and the next round,
\* if there is one, has half of them.
LEMMA PlacesOfRound ==
    ASSUME TypeOK, NEW t \in Tournaments, RoundOK(t), tournaments[t].status = 2
    PROVE  LET cup == tournaments[t]  half == Len(cup.bracket) \div 2 IN
           /\ half \in {1, 2, 4, 8, 16} /\ Len(cup.bracket) = 2 * half
           /\ \A i \in 0..(half - 1) : <<cup.round, i>> \in Slots
           /\ half # 1 => /\ cup.round + 1 \in 0..4
                          /\ Width(cup.round + 1) * half = 2 * cup.capacity
<1> DEFINE cup == tournaments[t]
           half == Len(cup.bracket) \div 2
           w == Width(cup.round)
<1>1. /\ cup.round \in 0..4 /\ Len(cup.bracket) \in {2, 4, 8, 16, 32} /\ cup.capacity \in Nat
      /\ w * Len(cup.bracket) = 2 * cup.capacity
    BY CupFields DEF RoundOK
<1>2. PICK f \in Formats : f[1] = cup.capacity
    BY DEF RoundOK
<1>3. cup.capacity \in {2, 4, 8, 16, 32}
    BY <1>2, FormatFields
<1>4. half \in {1, 2, 4, 8, 16} /\ Len(cup.bracket) = 2 * half
    BY <1>1, Halves
<1>5. w \in {2, 4, 8, 16, 32} /\ w = (IF cup.round = 0 THEN 2 ELSE IF cup.round = 1 THEN 4
          ELSE IF cup.round = 2 THEN 8 ELSE IF cup.round = 3 THEN 16 ELSE 32)
    BY <1>1 DEF Width
<1> HIDE DEF half, w, cup
<1>6. w * half = cup.capacity
    <2>1. w * (2 * half) = 2 * cup.capacity
        BY <1>1, <1>4
    <2>2. QED
        BY <2>1, <1>3, <1>4, <1>5
<1>7. ASSUME NEW i \in 0..(half - 1) PROVE <<cup.round, i>> \in Slots
    <2>1. i \in 0..15 /\ i + 1 <= half
        BY <1>4
    <2>2. w * (i + 1) <= w * half
        BY <1>4, <1>5, <2>1
    <2>3. QED
        BY <1>1, <1>2, <1>6, <2>1, <2>2 DEF Slots, w
<1>8. half # 1 => cup.round + 1 \in 0..4 /\ Width(cup.round + 1) * half = 2 * cup.capacity
    <2> SUFFICES ASSUME half # 1 PROVE cup.round + 1 \in 0..4 /\ Width(cup.round + 1) * half = 2 * cup.capacity
        OBVIOUS
    <2>1. cup.round # 4
        BY <1>3, <1>4, <1>5, <1>6
    <2>2. cup.round + 1 \in 1..4
        BY <1>1, <2>1
    <2>3. Width(cup.round + 1) = 2 * w
        BY <1>1, <1>5, <2>1 DEF Width
    <2>4. QED
        BY <1>3, <1>4, <1>5, <1>6, <2>2, <2>3
<1>9. QED
    BY <1>4, <1>7, <1>8 DEF half, w, cup

-----------------------------------------------------------------------------
(* What a step must do to keep the money and the bracket. *)

\* The payout ids of finitely many tournaments and accounts are finitely many.
LEMMA PayoutIdsFinite == IsFiniteSet(PayoutIds)
<1> DEFINE Triples == {1, 2, 3} \X (Tournaments \X (Accounts \cup {Treasury}))
           idOf == [x \in Triples |-> <<x[1], x[2][1], x[2][2]>>]
           Ids == {idOf[x] : x \in Triples}
<1>1. IsFiniteSet({1, 2, 3}) /\ IsFiniteSet(Tournaments) /\ IsFiniteSet(Accounts \cup {Treasury})
    <2>1. IsFiniteSet({1, 2, 3})
        <3>1. IsFiniteSet({} \cup {1})
            BY FS_EmptySet, FS_AddElement
        <3>2. IsFiniteSet(({} \cup {1}) \cup {2})
            BY <3>1, FS_AddElement
        <3>3. IsFiniteSet((({} \cup {1}) \cup {2}) \cup {3})
            BY <3>2, FS_AddElement
        <3>4. {1, 2, 3} = (({} \cup {1}) \cup {2}) \cup {3}
            OBVIOUS
        <3>5. QED
            BY <3>3, <3>4
    <2>2. IsFiniteSet(Accounts \cup {Treasury})
        BY FS_AddElement, TournamentAssumption
    <2>3. QED
        BY <2>1, <2>2, TournamentAssumption
<1>2. IsFiniteSet(Triples)
    BY <1>1, FS_Product
<1>3. IsFiniteSet(Ids)
    <2>1. idOf \in Surjection(Triples, Ids)
        BY DEF Surjection
    <2> HIDE DEF idOf, Triples
    <2>2. QED
        BY <1>2, <2>1, FS_Surjection
<1>4. PayoutIds \subseteq Ids
    <2>1. ASSUME NEW id \in PayoutIds PROVE \E x \in Triples : id = idOf[x]
        <3>1. PICK k \in {1, 2, 3}, t \in Tournaments, p \in Accounts \cup {Treasury} : id = <<k, t, p>>
            BY TournamentAssumption
        <3>2. <<k, <<t, p>>>> \in Triples /\ idOf[<<k, <<t, p>>>>] = id
            BY <3>1
        <3>3. QED
            BY <3>2
    <2>2. QED
        BY <2>1
<1>5. QED
    BY <1>3, <1>4, FS_Subset

\* The entrants are finitely many.
LEMMA EntrantsFinite ==
    ASSUME TypeOK, NEW t \in Tournaments, NEW S \in SUBSET entered[t]
    PROVE  IsFiniteSet(S) /\ Cardinality(S) \in Nat
BY TournamentAssumption, FS_Subset, FS_CardinalityType DEF TypeOK

\* The prizes are a sum of naturals, which a step that rewrites one tournament
\* moves by that prize.
LEMMA PrizesMove ==
    ASSUME TypeOK, TypeOK', NEW t \in Tournaments,
           \A u \in Tournaments \ {t} : tournaments'[u] = tournaments[u]
    PROVE  /\ PrizeSum \in Nat
           /\ PrizeSum' = PrizeSum - tournaments[t].prize + tournaments'[t].prize
<1> DEFINE g == [u \in Tournaments |-> tournaments[u].prize]
           h == [u \in Tournaments |-> tournaments'[u].prize]
<1>1. g \in [Tournaments -> Nat] /\ h \in [Tournaments -> Nat]
    BY CupFields DEF TypeOK, Cup
<1>2. g \in [Tournaments -> Int] /\ h \in [Tournaments -> Int] /\ \A u \in Tournaments \ {t} : h[u] = g[u]
    BY <1>1
<1>3. PrizeSum = SumFunctionOnSet(g, Tournaments) /\ PrizeSum' = SumFunctionOnSet(h, Tournaments)
    BY DEF PrizeSum
<1>4. g[t] = tournaments[t].prize /\ h[t] = tournaments'[t].prize
    OBVIOUS
<1> HIDE DEF g, h
<1>5. SumFunctionOnSet(h, Tournaments) = SumFunctionOnSet(g, Tournaments) - g[t] + h[t]
    BY <1>2, TournamentAssumption, SumMoves
<1>6. SumFunctionOnSet(g, Tournaments) \in Nat
    BY <1>1, TournamentAssumption, SumOfPart
<1>7. QED
    BY <1>3, <1>4, <1>5, <1>6

\* A step that rewrites one tournament, and moves the funds by its prize and by
\* the pending payouts.
LEMMA MoneyMoves ==
    ASSUME TypeOK, TypeOK', Money, NEW t \in Tournaments,
           \A u \in Tournaments \ {t} : /\ tournaments'[u] = tournaments[u]
                                        /\ entered'[u] = entered[u] /\ refunded'[u] = refunded[u],
           Paid(t)', PendingMatch',
           cupFunds' = cupFunds + (tournaments'[t].prize - tournaments[t].prize)
                                + (totalPendingPayouts' - totalPendingPayouts)
    PROVE  Money'
<1>1. PrizeSum \in Nat /\ PrizeSum' = PrizeSum - tournaments[t].prize + tournaments'[t].prize
    BY PrizesMove
<1>2. /\ cupFunds \in Int /\ totalPendingPayouts \in Int /\ totalPendingPayouts' \in Int
      /\ tournaments[t].prize \in Int
    BY CupFields DEF TypeOK, PayoutTypeOK
<1>3. tournaments'[t].prize \in Int
    BY DEF TypeOK, Cup
<1> DEFINE was == tournaments[t].prize
           is == tournaments'[t].prize
           sum == PrizeSum
           after == PrizeSum'
<1>4. after = sum - was + is /\ sum \in Int /\ was \in Int /\ is \in Int
    BY <1>1, <1>2, <1>3
<1>5. cupFunds = sum + totalPendingPayouts
    BY DEF Money, FundsMatch
<1>6. cupFunds' = cupFunds + (is - was) + (totalPendingPayouts' - totalPendingPayouts)
    OBVIOUS
<1> HIDE DEF was, is, sum, after
<1>7. cupFunds' = after + totalPendingPayouts'
    BY ONLY <1>2, <1>4, <1>5, <1>6
<1>8. FundsMatch'
    BY <1>7 DEF FundsMatch, after
<1>9. ASSUME NEW u \in Tournaments PROVE Paid(u)'
    BY <1>9 DEF Money, Paid, Owed
<1>10. QED
    BY <1>8, <1>9 DEF Money

\* A step that moves no money.
LEMMA MoneyKept ==
    ASSUME TypeOK, TypeOK', Money,
           UNCHANGED <<tournaments, entered, refunded, cupFunds, payoutVars>>
    PROVE  Money'
<1>1. PrizeSum' = PrizeSum
    BY DEF PrizeSum
<1>2. PendingMatch'
    BY DEF Money, PendingMatch, PendingSum, Pending, AmountOf, payoutVars
<1>3. \A u \in Tournaments : Paid(u)'
    BY DEF Money, Paid, Owed
<1>4. QED
    BY <1>1, <1>2, <1>3 DEF Money, FundsMatch, payoutVars

\* The rounds of a tournament go on as they are, or it is called off.
RoundKept(t) ==
    /\ SameRound(tournaments[t], tournaments'[t])
    /\ \/ tournaments'[t].status = tournaments[t].status
       \/ tournaments[t].status \in {1, 2} /\ tournaments'[t].status = 4
    /\ entered[t] \subseteq entered'[t] /\ ranking'[t] = ranking[t]

\* A decided match stays as it is, and a match keeps its pair and its tournament.
GamesKept ==
    \A m \in MatchIds :
        /\ games[m].status = 3 => games'[m] = games[m]
        /\ games[m].status # 0 => /\ games'[m].status # 0 /\ games'[m].cup = games[m].cup
                                  /\ games'[m].players = games[m].players
                                  /\ games'[m].created = games[m].created

\* A round that goes on, or is called off, keeps its bracket.
LEMMA RoundStays ==
    ASSUME TypeOK, TypeOK', Bracket, now' >= now, GamesKept,
           NEW t \in Tournaments, roundMatches'[t] = roundMatches[t], RoundKept(t)
    PROVE  CupOK(t)'
<1>1. RoundOK(t) /\ PlacesOK(t) /\ FinalOK(t) /\ PairsOK(t) /\ SeedsOK(t)
    BY DEF Bracket, CupOK
<1>2. now \in Nat /\ now' \in Nat /\ tournaments[t].roundStarted \in Nat
    BY CupFields, VaultAssumption DEF TypeOK, VaultTypeOK
<1>3. RoundOK(t)'
    BY <1>1, <1>2 DEF RoundOK, RoundKept, SameRound
<1>4. \A s \in Slots : roundMatches[t][s] # 0 => roundMatches[t][s] \in MatchIds
    BY DEF TypeOK
<1>5. PlacesOK(t)'
    <2>1. ASSUME NEW s \in Slots, roundMatches[t][s] # 0, games[roundMatches[t][s]].status = 3
          PROVE  games'[roundMatches[t][s]] = games[roundMatches[t][s]]
        BY <1>4, <2>1 DEF GamesKept
    <2>2. QED
        BY <1>1, <2>1 DEF PlacesOK, RoundKept, SameRound
<1>6. FinalOK(t)'
    BY <1>1, <1>4 DEF FinalOK, RoundKept, SameRound, GamesKept
<1>7. PairsOK(t)'
    <2>1. ASSUME NEW s \in Slots, roundMatches[t][s] # 0
          PROVE  games'[roundMatches[t][s]].players = games[roundMatches[t][s]].players
        <3>1. AttachedOK(t, s)
            BY DEF Bracket
        <3>2. QED
            BY <1>4, <2>1, <3>1 DEF AttachedOK, GamesKept
    <2>2. QED
        BY <1>1, <2>1 DEF PairsOK, RoundKept, SameRound
<1>8. SeedsOK(t)'
    BY <1>1 DEF SeedsOK, Placed, RoundKept, SameRound
<1>9. QED
    BY <1>3, <1>5, <1>6, <1>7, <1>8 DEF CupOK

\* A slot that no match is attached to now keeps what is known of it.
LEMMA AttachedStays ==
    ASSUME TypeOK, Bracket, GamesKept, NEW t \in Tournaments, NEW s \in Slots,
           \A r \in Slots : roundMatches[t][r] # 0 /\ games[roundMatches[t][r]].status = 3
                              => roundMatches'[t][r] = roundMatches[t][r],
           roundMatches'[t][s] = roundMatches[t][s]
    PROVE  AttachedOK(t, s)'
<1> SUFFICES ASSUME roundMatches[t][s] # 0 PROVE AttachedOK(t, s)'
    BY DEF AttachedOK
<1>1. AttachedOK(t, s)
    BY DEF Bracket
<1>2. PICK m \in MatchIds : roundMatches[t][s] = m
    BY DEF TypeOK
<1>3. games[m].status # 0 /\ games[m].cup = t
    BY <1>1, <1>2 DEF AttachedOK
<1>4. games'[m].status # 0 /\ games'[m].cup = t /\ games'[m].players = games[m].players
      /\ games'[m].created = games[m].created
    BY <1>3 DEF GamesKept
<1>5. ASSUME s[1] > 0
      PROVE  LET f0 == <<s[1] - 1, 2 * s[2]>>  f1 == <<s[1] - 1, 2 * s[2] + 1>> IN
             /\ f0 \in Slots /\ f1 \in Slots
             /\ \A f \in {f0, f1} :
                    /\ roundMatches'[t][f] # 0
                    /\ games'[roundMatches'[t][f]].status = 3
                    /\ games'[roundMatches'[t][f]].created <= games'[m].created
             /\ games'[m].players = {games'[roundMatches'[t][f0]].winner,
                                     games'[roundMatches'[t][f1]].winner}
    <2> DEFINE f0 == <<s[1] - 1, 2 * s[2]>>
               f1 == <<s[1] - 1, 2 * s[2] + 1>>
    <2>1. /\ f0 \in Slots /\ f1 \in Slots
          /\ \A f \in {f0, f1} : /\ roundMatches[t][f] # 0
                                 /\ games[roundMatches[t][f]].status = 3
                                 /\ games[roundMatches[t][f]].created <= games[m].created
          /\ games[m].players = {games[roundMatches[t][f0]].winner, games[roundMatches[t][f1]].winner}
        BY <1>1, <1>2, <1>5 DEF AttachedOK
    <2> HIDE DEF f0, f1
    <2>2. ASSUME NEW f \in {f0, f1}
          PROVE  /\ roundMatches'[t][f] = roundMatches[t][f]
                 /\ games'[roundMatches[t][f]] = games[roundMatches[t][f]]
        <3>1. f \in Slots /\ roundMatches[t][f] # 0 /\ games[roundMatches[t][f]].status = 3
            BY <2>1
        <3>2. roundMatches[t][f] \in MatchIds
            BY <3>1 DEF TypeOK
        <3>3. QED
            BY <3>1, <3>2 DEF GamesKept
    <2>3. \A f \in {f0, f1} : /\ roundMatches'[t][f] # 0
                              /\ games'[roundMatches'[t][f]].status = 3
                              /\ games'[roundMatches'[t][f]].created <= games'[m].created
        BY <1>4, <2>1, <2>2
    <2>4. games'[m].players = {games'[roundMatches'[t][f0]].winner, games'[roundMatches'[t][f1]].winner}
        BY <1>4, <2>1, <2>2
    <2>5. QED
        BY <2>1, <2>3, <2>4 DEF f0, f1
<1>6. QED
    BY <1>2, <1>4, <1>5 DEF AttachedOK

\* A step that leaves the games alone keeps what is known of them.
LEMMA GamesStay ==
    ASSUME TypeOK, Bracket, now' \in Nat, now' >= now, games' = games,
           \A t \in Tournaments : entered[t] \subseteq entered'[t]
    PROVE  GamesKept /\ \A m \in MatchIds : GameOK(m)'
<1>1. GamesKept
    BY DEF GamesKept
<1>2. ASSUME NEW m \in MatchIds PROVE GameOK(m)'
    <2>1. GameOK(m) /\ games[m].created \in Nat /\ now \in Nat
        BY VaultAssumption DEF Bracket, TypeOK, Game, VaultTypeOK
    <2>2. games[m].created <= now'
        BY <2>1 DEF GameOK
    <2>3. QED
        BY <2>1, <2>2 DEF GameOK
<1>3. QED
    BY <1>1, <1>2

\* A step that leaves the rounds and the matches alone.
LEMMA BracketKept ==
    ASSUME TypeOK, TypeOK', Bracket, now' >= now, roundMatches' = roundMatches, games' = games,
           \A t \in Tournaments : RoundKept(t)
    PROVE  Bracket'
<1>1. GamesKept /\ \A m \in MatchIds : GameOK(m)'
    <2>1. now' \in Nat
        BY VaultAssumption DEF TypeOK, VaultTypeOK
    <2>2. QED
        BY <2>1, GamesStay DEF RoundKept
<1>2. \A t \in Tournaments : CupOK(t)'
    BY <1>1, RoundStays
<1>3. \A t \in Tournaments, s \in Slots : AttachedOK(t, s)'
    BY <1>1, AttachedStays
<1>4. QED
    BY <1>1, <1>2, <1>3 DEF Bracket

-----------------------------------------------------------------------------
(* Registration. *)

\* Transactions and signatures of the vault do not reach the tournaments.
LEMMA VaultStepInv == IInv /\ VaultStep => IInv'
<1> SUFFICES ASSUME IInv, VaultStep PROVE IInv'
    OBVIOUS
<1> USE DEF IInv, entryVars
<1>1. VaultTypeOK' /\ now' >= now
    <2>1. VaultTypeOK'
        BY VaultStepTypes DEF VaultStep, TypeOK
    <2>2. now \in Nat
        BY VaultAssumption DEF TypeOK, VaultTypeOK
    <2>3. now' >= now
        BY <2>2 DEF VaultStep, VaultNext, Tick, DepositFor, SignWithdrawal, Withdraw
    <2>4. QED
        BY <2>1, <2>3
<1>2. UNCHANGED <<tournaments, entryVars, roundMatches, usedMatches, cupFunds, games, ranking, payoutVars>>
    BY DEF VaultStep, cupVars
<1>3. TypeOK'
    BY <1>1, <1>2 DEF TypeOK, payoutVars, PayoutTypeOK
<1>4. \A t \in Tournaments : RoundKept(t)
    BY <1>2 DEF RoundKept, SameRound
<1>5. Money' /\ Bracket'
    BY <1>1, <1>2, <1>3, <1>4, MoneyKept, BracketKept
<1>6. QED
    BY <1>3, <1>5

\* create opens a tournament that owes its seed.
LEMMA CreateInv ==
    ASSUME IInv, NEW t \in Tournaments, NEW closesAt \in 1..MaxTime, NEW f \in Formats,
           Create(t, closesAt, f[1], f[2], f[3])
    PROVE  IInv'
<1> USE DEF IInv, entryVars
<1>0. closesAt \in 0..MaxTime
    BY VaultAssumption
<1>1. PICK capacity \in Nat, fee \in Nat, seed \in Nat :
          capacity = f[1] /\ fee = f[2] /\ seed = f[3]
    BY FormatFields
<1>2. PICK d : d = Opened(closesAt, capacity, fee, seed)
    OBVIOUS
<1>3. /\ d \in Cup /\ d.status = 1 /\ d.capacity = capacity /\ d.round = 0
      /\ d.roundStarted = 0 /\ d.fee = fee /\ d.prize = seed /\ d.seedPrize = seed
    <2>1. d \in Cup /\ d.status = 1
        BY <1>0, <1>2, OpenedCup
    <2>2. d.capacity = capacity
        BY <1>0, <1>2, OpenedCup
    <2>3. d.round = 0
        BY <1>0, <1>2, OpenedCup
    <2>4. d.roundStarted = 0
        BY <1>0, <1>2, OpenedCup
    <2>5. d.fee = fee /\ d.prize = seed
        BY <1>0, <1>2, OpenedCup
    <2>6. d.seedPrize = seed
        BY <1>0, <1>2, OpenedCup
    <2>7. QED
        BY <2>1, <2>2, <2>3, <2>4, <2>5, <2>6
<1>4. /\ tournaments[t].status = 0 /\ Put(t, d) /\ cupFunds' = cupFunds + seed
      /\ UNCHANGED <<vaultVars, payoutVars, entryVars, roundMatches, usedMatches, games, ranking>>
    BY <1>1, <1>2 DEF Create, Opened
<1>5. /\ tournaments' \in [Tournaments -> Cup]
      /\ tournaments'[t] = d
      /\ \A u \in Tournaments \ {t} : tournaments'[u] = tournaments[u]
    BY <1>3, <1>4, PutTypes
<1>6. TypeOK'
    <2>1. cupFunds' \in Nat
        BY <1>1, <1>4, FundFields
    <2>2. QED
        BY <1>4, <1>5, <2>1 DEF TypeOK, vaultVars, payoutVars, VaultTypeOK, PayoutTypeOK
<1>7. Money'
    <2>1. Paid(t)
        BY DEF Money
    <2>2. entered[t] = {} /\ refunded[t] = {} /\ tournaments[t].prize = 0
        BY <1>4, <2>1 DEF Paid, Owed
    <2>3. Owed(t)' = seed
        <3>1. Cardinality({}) = 0
            BY FS_EmptySet
        <3>2. seed + fee * 0 = seed
            BY <1>1
        <3>3. QED
            BY <1>3, <1>4, <1>5, <2>2, <3>1, <3>2 DEF Owed
    <2>4. Paid(t)'
        BY <1>3, <1>4, <1>5, <2>2, <2>3 DEF Paid
    <2>5. PendingMatch'
        BY <1>4 DEF Money, PendingMatch, PendingSum, Pending, AmountOf, payoutVars
    <2>6. cupFunds' = cupFunds + (tournaments'[t].prize - tournaments[t].prize)
                               + (totalPendingPayouts' - totalPendingPayouts)
        BY <1>1, <1>3, <1>4, <1>5, <2>2, FundFields DEF payoutVars
    <2>7. QED
        BY <1>4, <1>5, <1>6, <2>4, <2>5, <2>6, MoneyMoves
<1>8. Bracket'
    <2>1. now \in Nat /\ now' = now
        BY <1>4, VaultAssumption DEF TypeOK, VaultTypeOK, vaultVars
    <2>2. GamesKept /\ \A m \in MatchIds : GameOK(m)'
        BY <1>4, <2>1, GamesStay
    <2>3. CupOK(t)'
        <3>1. \A s \in Slots : roundMatches[t][s] = 0
            BY <1>4 DEF Bracket, CupOK, RoundOK
        <3>2. RoundOK(t)'
            BY <1>1, <1>3, <1>4, <1>5, <2>1, <3>1 DEF RoundOK
        <3>3. PlacesOK(t)' /\ FinalOK(t)' /\ PairsOK(t)' /\ SeedsOK(t)'
            BY <1>3, <1>5 DEF PlacesOK, FinalOK, PairsOK, SeedsOK
        <3>4. QED
            BY <3>2, <3>3 DEF CupOK
    <2>4. ASSUME NEW u \in Tournaments \ {t} PROVE CupOK(u)'
        <3>1. RoundKept(u)
            BY <1>4, <1>5 DEF RoundKept, SameRound
        <3>2. QED
            BY <1>4, <1>6, <2>1, <2>2, <3>1, RoundStays
    <2>5. \A u \in Tournaments, s \in Slots : AttachedOK(u, s)'
        BY <1>4, <2>2, AttachedStays
    <2>6. QED
        BY <2>2, <2>3, <2>4, <2>5 DEF Bracket
<1>9. QED
    BY <1>6, <1>7, <1>8

\* A signed entry changes nothing yet.
LEMMA SignEntryInv ==
    ASSUME IInv, NEW p \in Accounts, NEW t \in Tournaments, NEW d \in Deadlines, SignEntry(p, t, d)
    PROVE  IInv'
<1> USE DEF IInv, entryVars
<1>1. UNCHANGED <<tournaments, entered, refunded, entryNonces, roundMatches, usedMatches, cupFunds,
                games, ranking, vaultVars, payoutVars>>
    BY DEF SignEntry
<1>2. entries' \subseteq Entry
    <2>1. entryNonces[p] \in Nat /\ d \in 0..MaxTime
        BY TournamentAssumption DEF TypeOK
    <2>2. QED
        BY <2>1 DEF SignEntry, Entry, TypeOK
<1>3. TypeOK'
    BY <1>1, <1>2 DEF TypeOK, vaultVars, payoutVars, VaultTypeOK, PayoutTypeOK
<1>4. \A u \in Tournaments : RoundKept(u)
    BY <1>1 DEF RoundKept, SameRound
<1>5. now' >= now
    BY <1>1, VaultAssumption DEF vaultVars, TypeOK, VaultTypeOK
<1>6. Money' /\ Bracket'
    BY <1>1, <1>3, <1>4, <1>5, MoneyKept, BracketKept
<1>7. QED
    BY <1>3, <1>6

\* An entry adds its fee to the prize.
LEMMA EnterInv ==
    ASSUME IInv, NEW o \in entries, Enter(o)
    PROVE  IInv'
<1> USE DEF IInv, entryVars
<1>1. PICK t \in Tournaments, p \in Accounts : t = o.cup /\ p = o.player
    BY DEF TypeOK, Entry
<1>2. tournaments[t] \in Cup
    BY CupFields
<1>3. PICK fee \in Nat, prize \in Nat, seed \in Nat :
          fee = tournaments[t].fee /\ prize = tournaments[t].prize /\ seed = tournaments[t].seedPrize
    BY CupFields
<1>4. PICK d : d = [tournaments[t] EXCEPT !.prize = prize + fee]
    OBVIOUS
<1>5. /\ d \in Cup /\ d.status = tournaments[t].status /\ SameRound(tournaments[t], d)
      /\ d.prize = prize + fee /\ d.fee = fee /\ d.seedPrize = seed
    <2>1. prize + fee \in Nat
        OBVIOUS
    <2>2. QED
        BY <1>2, <1>3, <1>4, <2>1, RepricedCup
<1>6. /\ tournaments[t].status = 1 /\ p \notin entered[t] /\ Put(t, d)
      /\ entryNonces' = [entryNonces EXCEPT ![p] = @ + 1]
      /\ entered' = [entered EXCEPT ![t] = @ \cup {p}]
      /\ IF fee > 0 THEN Debit(p, fee) ELSE UNCHANGED vaultVars
      /\ cupFunds' = cupFunds + fee
      /\ UNCHANGED <<payoutVars, refunded, entries, roundMatches, usedMatches, games, ranking>>
    BY <1>1, <1>3, <1>4 DEF Enter
<1>7. VaultTypeOK' /\ now' = now
    <2>1. CASE fee > 0
        BY <1>6, <2>1, DebitTypes DEF Debit, TypeOK
    <2>2. CASE ~(fee > 0)
        BY <1>6, <2>2 DEF vaultVars, VaultTypeOK, TypeOK
    <2>3. QED
        BY <2>1, <2>2
<1>8. /\ tournaments' \in [Tournaments -> Cup]
      /\ tournaments'[t] = d
      /\ \A u \in Tournaments \ {t} : tournaments'[u] = tournaments[u]
    BY <1>5, <1>6, PutTypes
<1>9. TypeOK'
    <2>1. entryNonces' \in [Accounts -> Nat] /\ entered' \in [Tournaments -> SUBSET Accounts]
        BY <1>6 DEF TypeOK
    <2>2. cupFunds' \in Nat
        BY <1>6 DEF TypeOK
    <2>3. QED
        BY <1>6, <1>7, <1>8, <2>1, <2>2 DEF TypeOK, payoutVars, PayoutTypeOK
<1>10. Money'
    <2>1. /\ Paid(t) /\ refunded[t] = {} /\ prize = seed + fee * Cardinality(entered[t])
        <3>1. Paid(t)
            BY DEF Money
        <3>2. QED
            BY <1>3, <1>6, <3>1 DEF Paid, Owed
    <2>2. /\ entered'[t] = entered[t] \cup {p}
          /\ Cardinality(entered'[t]) = Cardinality(entered[t]) + 1 /\ Cardinality(entered[t]) \in Nat
        <3>1. entered'[t] = entered[t] \cup {p}
            BY <1>6 DEF TypeOK
        <3>2. IsFiniteSet(entered[t]) /\ Cardinality(entered[t]) \in Nat
            BY EntrantsFinite
        <3>3. QED
            BY <1>6, <3>1, <3>2, FS_AddElement
    <2>3. prize + fee = seed + fee * Cardinality(entered'[t])
        <3> DEFINE n == Cardinality(entered[t])
        <3>1. n \in Nat /\ prize = seed + fee * n /\ Cardinality(entered'[t]) = n + 1
            BY <2>1, <2>2
        <3> HIDE DEF n
        <3>2. fee * (n + 1) = fee * n + fee /\ fee * n \in Nat
            BY <3>1
        <3>3. QED
            BY <3>1, <3>2
    <2>4. Paid(t)'
        BY <1>5, <1>6, <1>8, <2>1, <2>3 DEF Paid, Owed
    <2>5. PendingMatch'
        BY <1>6 DEF Money, PendingMatch, PendingSum, Pending, AmountOf, payoutVars
    <2>6. cupFunds' = cupFunds + (tournaments'[t].prize - tournaments[t].prize)
                               + (totalPendingPayouts' - totalPendingPayouts)
        BY <1>3, <1>5, <1>6, <1>8, FundFields DEF payoutVars
    <2>7. \A u \in Tournaments \ {t} : entered'[u] = entered[u] /\ refunded'[u] = refunded[u]
        BY <1>6 DEF TypeOK
    <2>8. QED
        BY <1>8, <1>9, <2>4, <2>5, <2>6, <2>7, MoneyMoves
<1>11. Bracket'
    <2>1. \A u \in Tournaments : RoundKept(u)
        BY <1>5, <1>6, <1>8 DEF RoundKept, SameRound, TypeOK
    <2>2. now' >= now
        BY <1>7, VaultAssumption DEF TypeOK, VaultTypeOK
    <2>3. QED
        BY <1>6, <1>9, <2>1, <2>2, BracketKept
<1>12. QED
    BY <1>9, <1>10, <1>11

\* start makes the first bracket.
LEMMA StartInv ==
    ASSUME IInv, NEW t \in Tournaments, NEW sorted \in SetToSeqs(entered[t]), Start(t, sorted)
    PROVE  IInv'
<1> USE DEF IInv, entryVars
<1>1. tournaments[t] \in Cup
    BY CupFields
<1>2. PICK capacity, seeds :
          /\ capacity \in {2, 4, 8, 16, 32} /\ capacity \in Nat
          /\ capacity = tournaments[t].capacity /\ seeds = Seeds(capacity)
    <2>1. \E f \in Formats : f[1] = tournaments[t].capacity
        BY DEF Bracket, CupOK, RoundOK, Start
    <2>2. QED
        BY <2>1, FormatFields
<1>20. /\ sorted \in [1..capacity -> Accounts] /\ sorted \in Seq(Accounts)
       /\ \A i, j \in 1..capacity : sorted[i] = sorted[j] => i = j
    <2>1. Cardinality(entered[t]) = capacity /\ entered[t] \subseteq Accounts
        BY <1>2 DEF Start, TypeOK
    <2>2. sorted \in [1..capacity -> Accounts] /\ \A i, j \in 1..capacity : i # j => sorted[i] # sorted[j]
        BY <2>1 DEF SetToSeqs
    <2>3. QED
        BY <1>2, <2>2, IsASeq
<1>21. seeds \in [1..capacity -> 1..capacity]
    BY <1>2, SeedsAssumption DEF Spread
<1>3. PICK b : b \in Seq(Accounts) /\ Len(b) = capacity /\ b = [i \in 1..capacity |-> sorted[seeds[i]]]
    <2> DEFINE b == [i \in 1..capacity |-> sorted[seeds[i]]]
    <2>1. b \in [1..capacity -> Accounts]
        BY <1>20, <1>21
    <2>2. b \in Seq(Accounts)
        BY <1>2, <2>1, IsASeq
    <2>3. Len(b) = capacity
        BY <1>2, <2>1, <2>2, LenProperties
    <2>4. QED
        BY <2>2, <2>3
<1>4. PICK d : d = Started(tournaments[t], b, now)
    OBVIOUS
<1>5. /\ d \in Cup /\ d.status = 2 /\ SameMoney(tournaments[t], d) /\ d.bracket = b
      /\ d.roundStarted = now /\ d.capacity = capacity /\ d.round = tournaments[t].round
    <2>1. now \in 0..MaxTime
        BY DEF TypeOK, VaultTypeOK
    <2>2. /\ d \in Cup /\ d.status = 2 /\ SameMoney(tournaments[t], d)
          /\ d.bracket = b /\ d.roundStarted = now /\ d.capacity = tournaments[t].capacity
          /\ d.round = tournaments[t].round
        <3> DEFINE c == tournaments[t]
                   n == now
        <3>1. c \in Cup /\ b \in Seq(Accounts) /\ n \in 0..MaxTime
              /\ d = Started(c, b, n)
            BY <1>1, <1>3, <1>4, <2>1
        <3> HIDE DEF c, n
        <3>2. d \in Cup /\ d.status = 2 /\ SameMoney(c, d)
            BY <3>1, StartedCup
        <3>3. d.bracket = b /\ d.roundStarted = n
            BY <3>1, StartedCup
        <3>4. d.capacity = c.capacity /\ d.round = c.round
            BY <3>1, StartedCup
        <3>5. QED
            BY <3>2, <3>3, <3>4 DEF c, n
    <2>3. QED
        BY <1>2, <2>2
<1>6. /\ tournaments[t].status = 1 /\ Put(t, d)
      /\ ranking' = [ranking EXCEPT ![t] = sorted]
      /\ UNCHANGED <<vaultVars, payoutVars, entryVars, roundMatches, usedMatches, cupFunds, games>>
    BY <1>2, <1>3, <1>4 DEF Start, Started
<1>7. /\ tournaments' \in [Tournaments -> Cup]
      /\ tournaments'[t] = d
      /\ \A u \in Tournaments \ {t} : tournaments'[u] = tournaments[u]
    BY <1>5, <1>6, PutTypes
<1>8. TypeOK'
    <2>1. ranking' \in [Tournaments -> Seq(Accounts)]
        BY <1>6, <1>20 DEF TypeOK
    <2>2. QED
        BY <1>6, <1>7, <2>1 DEF TypeOK, vaultVars, payoutVars, VaultTypeOK, PayoutTypeOK
<1>9. now \in Nat /\ now' = now
    BY <1>6, VaultAssumption DEF TypeOK, VaultTypeOK, vaultVars
<1>10. Money'
    <2>1. Paid(t)
        BY DEF Money
    <2>2. Paid(t)'
        BY <1>5, <1>6, <1>7, <2>1 DEF Paid, Owed, SameMoney
    <2>3. PendingMatch'
        BY <1>6 DEF Money, PendingMatch, PendingSum, Pending, AmountOf, payoutVars
    <2>4. tournaments'[t].prize = tournaments[t].prize /\ tournaments[t].prize \in Nat
        BY <1>5, <1>7, CupFields DEF SameMoney
    <2>5. cupFunds' = cupFunds + (tournaments'[t].prize - tournaments[t].prize)
                               + (totalPendingPayouts' - totalPendingPayouts)
        BY <1>6, <2>4, FundFields DEF payoutVars
    <2>6. QED
        BY <1>6, <1>7, <1>8, <2>2, <2>3, <2>5, MoneyMoves
<1>11. Bracket'
    <2>1. GamesKept /\ \A m \in MatchIds : GameOK(m)'
        BY <1>6, <1>9, GamesStay
    <2>2. CupOK(t)'
        <3>1. /\ tournaments[t].round = 0 /\ \E f \in Formats : f[1] = capacity
              /\ \A s \in Slots : roundMatches[t][s] = 0
            BY <1>2, <1>6 DEF Bracket, CupOK, RoundOK
        <3>2. Width(0) * capacity = 2 * capacity
            BY DEF Width
        <3>3. /\ tournaments'[t].status = 2 /\ tournaments'[t].round = 0
              /\ tournaments'[t].capacity = capacity /\ tournaments'[t].roundStarted = now
              /\ Len(tournaments'[t].bracket) = capacity
            BY <1>3, <1>5, <1>7, <3>1
        <3>6. RoundOK(t)'
            BY <1>2, <1>6, <1>9, <3>1, <3>2, <3>3 DEF RoundOK
        <3>4. PlacesOK(t)' /\ FinalOK(t)' /\ PairsOK(t)'
            BY <1>5, <1>6, <1>7, <3>1 DEF PlacesOK, FinalOK, PairsOK
        <3>7. SeedsOK(t)'
            <4>1. ranking'[t] = sorted
                BY <1>6 DEF TypeOK
            <4>2. ASSUME NEW i \in 1..Len(b)
                  PROVE  i \in (1 * (i - 1) + 1)..(1 * i) /\ b[i] = sorted[seeds[i]]
                BY <1>2, <1>3
            <4>3. Placed(b, sorted, seeds, 1)
                BY <4>2 DEF Placed
            <4>4. 1 \in {1, 2, 4, 8, 16} /\ 1 * Len(b) = capacity
                BY <1>2, <1>3
            <4>5. tournaments'[t].capacity = capacity /\ tournaments'[t].bracket = b
                BY <1>5, <1>7
            <4>6. QED
                BY <1>2, <1>20, <4>1, <4>3, <4>4, <4>5 DEF SeedsOK
        <3>5. QED
            BY <3>4, <3>6, <3>7 DEF CupOK
    <2>3. ASSUME NEW u \in Tournaments \ {t} PROVE CupOK(u)'
        <3>1. RoundKept(u)
            BY <1>6, <1>7 DEF RoundKept, SameRound, TypeOK
        <3>2. QED
            BY <1>6, <1>8, <1>9, <2>1, <3>1, RoundStays
    <2>4. \A u \in Tournaments, s \in Slots : AttachedOK(u, s)'
        BY <1>6, <2>1, AttachedStays
    <2>5. QED
        BY <2>1, <2>2, <2>3, <2>4 DEF Bracket
<1>12. QED
    BY <1>8, <1>10, <1>11

-----------------------------------------------------------------------------
(* Matches and rounds. *)

\* A step of the game contract that leaves the tournaments alone.
LEMMA GamesMove ==
    ASSUME IInv, TypeOK', GamesKept, \A m \in MatchIds : GameOK(m)', UNCHANGED cupVars,
           UNCHANGED <<vaultVars, payoutVars>>
    PROVE  IInv'
<1> USE DEF IInv, entryVars
<1>1. UNCHANGED <<tournaments, entered, refunded, roundMatches, cupFunds, ranking>> /\ now' >= now
    <2>1. now' = now /\ now \in Nat
        BY VaultAssumption DEF TypeOK, VaultTypeOK, vaultVars
    <2>2. QED
        BY <2>1 DEF cupVars
<1>2. Money'
    BY <1>1, MoneyKept
<1>3. \A t \in Tournaments : RoundKept(t)
    BY <1>1 DEF RoundKept, SameRound
<1>4. Bracket'
    BY <1>1, <1>3, RoundStays, AttachedStays DEF Bracket
<1>5. QED
    BY <1>2, <1>4

\* A new match is nobody's result yet.
LEMMA CreateMatchInv ==
    ASSUME IInv, NEW m \in MatchIds, NEW pair \in SUBSET Accounts, NEW t \in Tournaments,
           CreateMatch(m, pair, t)
    PROVE  IInv'
<1> USE DEF IInv, entryVars
<1>1. PICK g : g = [NoGame EXCEPT !.status = 1, !.players = pair, !.cup = t, !.created = now]
    OBVIOUS
<1>2. /\ games[m].status = 0 /\ pair \subseteq entered[t] /\ games' = [games EXCEPT ![m] = g]
      /\ UNCHANGED <<vaultVars, payoutVars, cupVars>>
    BY <1>1 DEF CreateMatch
<1>3. g = [status |-> 1, players |-> pair, winner |-> Nobody, cup |-> t, created |-> now]
    BY <1>1, Zenon DEF NoGame
<1>4. /\ g.status = 1 /\ g.players = pair /\ g.cup = t /\ g.created = now
      /\ g \in Game /\ now \in Nat /\ now' = now
    BY <1>2, <1>3, VaultAssumption DEF Game, TypeOK, VaultTypeOK, vaultVars
<1>5. games'[m] = g /\ \A k \in MatchIds \ {m} : games'[k] = games[k]
    BY <1>2 DEF TypeOK
<1>6. TypeOK'
    <2>1. games' \in [MatchIds -> Game]
        BY <1>2, <1>4 DEF TypeOK
    <2>2. QED
        BY <1>2, <2>1 DEF TypeOK, vaultVars, payoutVars, cupVars, VaultTypeOK, PayoutTypeOK
<1>7. GamesKept
    BY <1>2, <1>5 DEF GamesKept
<1>8. \A k \in MatchIds : GameOK(k)'
    <2>1. entered' = entered
        BY <1>2 DEF cupVars
    <2>2. GameOK(m)'
        BY <1>2, <1>4, <1>5, <2>1 DEF GameOK
    <2>3. ASSUME NEW k \in MatchIds \ {m} PROVE GameOK(k)'
        <3>1. GameOK(k)
            BY DEF Bracket
        <3>2. QED
            BY <1>4, <1>5, <2>1, <3>1 DEF GameOK
    <2>4. QED
        BY <2>2, <2>3
<1>9. QED
    BY <1>2, <1>6, <1>7, <1>8, GamesMove

\* A match that ends keeps its pair and its tournament.
LEMMA EndMatchInv ==
    ASSUME IInv, NEW m \in MatchIds, NEW status \in {3, 4}, NEW winner \in Accounts \cup {Nobody},
           status = 3 => winner \in games[m].players, EndMatch(m, status, winner)
    PROVE  IInv'
<1> USE DEF IInv, entryVars
<1>1. PICK g \in Game : g = games[m]
    BY DEF TypeOK
<1>2. PICK h : h = [g EXCEPT !.status = status, !.winner = winner]
    OBVIOUS
<1>3. /\ g.status = 1 /\ games' = [games EXCEPT ![m] = h]
      /\ UNCHANGED <<vaultVars, payoutVars, cupVars>>
    BY <1>1, <1>2 DEF EndMatch, TypeOK
<1>4. /\ h \in Game /\ h.status = status /\ h.cup = g.cup /\ h.players = g.players
      /\ h.created = g.created /\ h.winner = winner
    BY <1>2 DEF Game
<1>5. games'[m] = h /\ \A k \in MatchIds \ {m} : games'[k] = games[k]
    BY <1>3 DEF TypeOK
<1>6. TypeOK'
    <2>1. games' \in [MatchIds -> Game]
        BY <1>3, <1>4 DEF TypeOK
    <2>2. QED
        BY <1>3, <2>1 DEF TypeOK, vaultVars, payoutVars, cupVars, VaultTypeOK, PayoutTypeOK
<1>7. GamesKept
    BY <1>1, <1>3, <1>4, <1>5 DEF GamesKept
<1>8. \A k \in MatchIds : GameOK(k)'
    <2>1. entered' = entered /\ now' = now
        BY <1>3 DEF cupVars, vaultVars
    <2>2. GameOK(m)'
        <3>1. GameOK(m)
            BY DEF Bracket
        <3>2. QED
            BY <1>1, <1>3, <1>4, <1>5, <2>1, <3>1 DEF GameOK
    <2>3. ASSUME NEW k \in MatchIds \ {m} PROVE GameOK(k)'
        <3>1. GameOK(k)
            BY DEF Bracket
        <3>2. QED
            BY <1>5, <2>1, <3>1 DEF GameOK
    <2>4. QED
        BY <2>2, <2>3
<1>9. QED
    BY <1>3, <1>6, <1>7, <1>8, GamesMove

\* attach puts a match of the pair, made in this round, in a slot of the round.
LEMMA AttachInv ==
    ASSUME IInv, NEW t \in Tournaments, NEW m \in MatchIds,
           NEW slot \in 0..(Len(tournaments[t].bracket) \div 2 - 1), Attach(t, slot, m)
    PROVE  IInv'
<1> USE DEF IInv, entryVars
<1> DEFINE cup == tournaments[t]
           pair == {cup.bracket[2 * slot + 1], cup.bracket[2 * slot + 2]}
<1>0. PICK here : here = <<cup.round, slot>>
    OBVIOUS
<1>1. /\ cup.status = 2
      /\ roundMatches[t][here] # 0 => games[roundMatches[t][here]].status = 4
      /\ games[m].cup = t /\ games[m].created >= cup.roundStarted /\ games[m].players = pair
      /\ roundMatches' = [roundMatches EXCEPT ![t][here] = m]
      /\ usedMatches' = usedMatches \cup {m}
      /\ UNCHANGED <<vaultVars, payoutVars, tournaments, entryVars, cupFunds, games, ranking>>
    BY <1>0 DEF Attach
<1>2. RoundOK(t) /\ PlacesOK(t) /\ PairsOK(t) /\ SeedsOK(t) /\ GameOK(m) /\ m # 0
    BY TournamentAssumption DEF Bracket, CupOK
<1>3. /\ here \in Slots /\ cup.round \in Nat /\ slot \in Nat
      /\ 2 * slot + 1 \in 1..Len(cup.bracket) /\ 2 * slot + 2 \in 1..Len(cup.bracket)
    <2> DEFINE half == Len(cup.bracket) \div 2
    <2>1. /\ half \in {1, 2, 4, 8, 16} /\ Len(cup.bracket) = 2 * half
          /\ \A i \in 0..(half - 1) : <<cup.round, i>> \in Slots
        BY <1>1, <1>2, PlacesOfRound
    <2>2. slot \in 0..(half - 1) /\ cup.round \in Nat
        BY CupFields
    <2> HIDE DEF half
    <2>3. slot \in Nat /\ slot + 1 <= half
        BY <2>1, <2>2
    <2>4. QED
        BY <1>0, <2>1, <2>2, <2>3
<1>4. /\ roundMatches'[t][here] = m
      /\ \A s \in Slots \ {here} : roundMatches'[t][s] = roundMatches[t][s]
      /\ \A u \in Tournaments \ {t} : roundMatches'[u] = roundMatches[u]
    BY <1>1, <1>3 DEF TypeOK
<1>5. now \in Nat /\ now' = now
    BY <1>1, VaultAssumption DEF TypeOK, VaultTypeOK, vaultVars
<1>6. TypeOK'
    <2>1. roundMatches' \in [Tournaments -> [Slots -> MatchIds \cup {0}]]
        BY <1>1 DEF TypeOK
    <2>2. QED
        BY <1>1, <2>1 DEF TypeOK, vaultVars, payoutVars, VaultTypeOK, PayoutTypeOK
<1>7. Money'
    BY <1>1, <1>6, MoneyKept
<1>8. GamesKept /\ \A k \in MatchIds : GameOK(k)'
    BY <1>1, <1>5, GamesStay
<1>9. AttachedOK(t, here)'
    <2>1. games[m].status # 0
        BY <1>1, <1>2 DEF GameOK
    <2>2. ASSUME cup.round > 0
          PROVE  LET f0 == <<cup.round - 1, 2 * slot>>  f1 == <<cup.round - 1, 2 * slot + 1>> IN
                 /\ f0 \in Slots /\ f1 \in Slots
                 /\ \A f \in {f0, f1} : /\ roundMatches'[t][f] # 0
                                        /\ games[roundMatches'[t][f]].status = 3
                                        /\ games[roundMatches'[t][f]].created <= games[m].created
                 /\ games[m].players = {games[roundMatches'[t][f0]].winner,
                                        games[roundMatches'[t][f1]].winner}
        <3> DEFINE f0 == <<cup.round - 1, 2 * slot>>
                   f1 == <<cup.round - 1, 2 * slot + 1>>
        <3>1. ASSUME NEW i \in 1..Len(cup.bracket), NEW f, f = <<cup.round - 1, i - 1>>
              PROVE  /\ f \in Slots /\ roundMatches'[t][f] # 0
                     /\ games[roundMatches'[t][f]].status = 3
                     /\ games[roundMatches'[t][f]].winner = cup.bracket[i]
                     /\ games[roundMatches'[t][f]].created <= games[m].created
            <4>1. /\ f \in Slots /\ roundMatches[t][f] # 0
                  /\ games[roundMatches[t][f]].status = 3
                  /\ games[roundMatches[t][f]].winner = cup.bracket[i]
                  /\ games[roundMatches[t][f]].created <= cup.roundStarted
                BY <1>1, <1>2, <2>2, <3>1 DEF PlacesOK
            <4>2. roundMatches'[t][f] = roundMatches[t][f]
                BY <1>0, <1>3, <1>4, <3>1, <4>1
            <4>3. /\ games[roundMatches[t][f]].created \in Nat /\ cup.roundStarted \in Nat
                  /\ games[m].created \in Nat
                BY <4>1, CupFields, VaultAssumption DEF TypeOK, Game
            <4>4. QED
                BY <1>1, <4>1, <4>2, <4>3
        <3>2. f0 = <<cup.round - 1, (2 * slot + 1) - 1>> /\ f1 = <<cup.round - 1, (2 * slot + 2) - 1>>
            BY <1>3
        <3> HIDE DEF f0, f1
        <3>3. /\ f0 \in Slots /\ roundMatches'[t][f0] # 0
              /\ games[roundMatches'[t][f0]].status = 3
              /\ games[roundMatches'[t][f0]].winner = cup.bracket[2 * slot + 1]
              /\ games[roundMatches'[t][f0]].created <= games[m].created
            BY <1>3, <3>1, <3>2
        <3>4. /\ f1 \in Slots /\ roundMatches'[t][f1] # 0
              /\ games[roundMatches'[t][f1]].status = 3
              /\ games[roundMatches'[t][f1]].winner = cup.bracket[2 * slot + 2]
              /\ games[roundMatches'[t][f1]].created <= games[m].created
            BY <1>3, <3>1, <3>2
        <3>5. games[m].players = {games[roundMatches'[t][f0]].winner,
                                  games[roundMatches'[t][f1]].winner}
            BY <1>1, <3>3, <3>4
        <3>6. QED
            BY <3>3, <3>4, <3>5 DEF f0, f1
    <2>3. QED
        BY <1>0, <1>1, <1>4, <2>1, <2>2 DEF AttachedOK
<1>10. ASSUME NEW u \in Tournaments, NEW s \in Slots, u # t \/ s # here PROVE AttachedOK(u, s)'
    BY <1>1, <1>4, <1>8, <1>10, AttachedStays
<1>11. CupOK(t)'
    <2>1. RoundOK(t)'
        BY <1>0, <1>1, <1>2, <1>3, <1>4, <1>5 DEF RoundOK
    <2>2. PlacesOK(t)'
        <3>1. ASSUME NEW i \in Nat PROVE <<cup.round - 1, i>> # here
            BY <1>0, <1>3
        <3>2. QED
            BY <1>1, <1>2, <1>4, <3>1 DEF PlacesOK
    <2>3. FinalOK(t)' /\ SeedsOK(t)'
        BY <1>1, <1>2 DEF FinalOK, SeedsOK
    <2>4. PairsOK(t)'
        <3>1. here[1] = cup.round /\ here[2] = slot
            BY <1>0
        <3>2. ASSUME NEW s \in Slots, s[1] = cup.round, roundMatches'[t][s] # 0
              PROVE  games[roundMatches'[t][s]].players = {cup.bracket[2 * s[2] + 1], cup.bracket[2 * s[2] + 2]}
            <4>1. CASE s = here
                BY <1>1, <1>4, <3>1, <4>1
            <4>2. CASE s # here
                BY <1>1, <1>2, <1>4, <3>2, <4>2 DEF PairsOK
            <4>3. QED
                BY <4>1, <4>2
        <3>3. QED
            BY <1>1, <3>2 DEF PairsOK
    <2>5. QED
        BY <2>1, <2>2, <2>3, <2>4 DEF CupOK
<1>12. ASSUME NEW u \in Tournaments \ {t} PROVE CupOK(u)'
    <2>1. RoundKept(u)
        BY <1>1 DEF RoundKept, SameRound
    <2>2. QED
        BY <1>4, <1>5, <1>6, <1>8, <2>1, RoundStays
<1>13. Bracket'
    <2>1. \A u \in Tournaments : CupOK(u)'
        BY <1>11, <1>12
    <2>2. ASSUME NEW u \in Tournaments, NEW s \in Slots PROVE AttachedOK(u, s)'
        <3>1. CASE u = t /\ s = here
            BY <1>9, <3>1
        <3>2. CASE u # t \/ s # here
            BY <1>10, <3>2
        <3>3. QED
            BY <3>1, <3>2
    <2>3. QED
        BY <1>8, <2>1, <2>2 DEF Bracket
<1>14. QED
    BY <1>6, <1>7, <1>13

\* The winners of a complete round are accounts, each of the pair of its own match.
LEMMA WinnersFound ==
    ASSUME TypeOK, Bracket, NEW t \in Tournaments, tournaments[t].status = 2,
           \A i \in DOMAIN Winners(t) : Winners(t)[i] # Nobody
    PROVE  LET half == Len(tournaments[t].bracket) \div 2 IN
           /\ Winners(t) \in Seq(Accounts) /\ Len(Winners(t)) = half
           /\ \A i \in 1..half :
                  LET s == <<tournaments[t].round, i - 1>>  m == roundMatches[t][s] IN
                  /\ s \in Slots /\ m \in MatchIds /\ m # 0
                  /\ games[m].status = 3 /\ games[m].winner = Winners(t)[i]
                  /\ Winners(t)[i] \in {tournaments[t].bracket[2 * i - 1], tournaments[t].bracket[2 * i]}
<1> DEFINE half == Len(tournaments[t].bracket) \div 2
           slotOf(i) == <<tournaments[t].round, i - 1>>
           m(i) == roundMatches[t][slotOf(i)]
           w == Winners(t)
           bracket == tournaments[t].bracket
<1>1. half \in {1, 2, 4, 8, 16} /\ \A i \in 0..(half - 1) : <<tournaments[t].round, i>> \in Slots
    BY PlacesOfRound DEF Bracket, CupOK
<1>2. w = [i \in 1..half |-> IF m(i) = 0 \/ games[m(i)].status # 3 THEN Nobody ELSE games[m(i)].winner]
    BY DEF Winners
<1>3. \A i \in DOMAIN w : w[i] # Nobody
    OBVIOUS
<1> HIDE DEF half, w, m
<1>4. DOMAIN w = 1..half
    BY <1>2
<1>5. ASSUME NEW i \in 1..half
      PROVE  /\ slotOf(i) \in Slots /\ m(i) \in MatchIds /\ m(i) # 0
             /\ games[m(i)].status = 3 /\ games[m(i)].winner = w[i] /\ w[i] \in Accounts
             /\ w[i] \in {bracket[2 * i - 1], bracket[2 * i]}
    <2>1. i - 1 \in 0..(half - 1)
        BY <1>1
    <2>2. slotOf(i) \in Slots
        BY <1>1, <2>1
    <2>3. m(i) \in MatchIds \cup {0}
        BY <2>2 DEF TypeOK, m
    <2>4. w[i] = (IF m(i) = 0 \/ games[m(i)].status # 3 THEN Nobody ELSE games[m(i)].winner) /\ w[i] # Nobody
        BY <1>2, <1>3, <1>4
    <2>5. m(i) # 0 /\ games[m(i)].status = 3 /\ games[m(i)].winner = w[i]
        BY <2>4
    <2>6. games[m(i)].winner \in Accounts \cup {Nobody}
        BY <2>3, <2>5 DEF TypeOK, Game
    <2>7. w[i] \in {bracket[2 * i - 1], bracket[2 * i]}
        <3>1. GameOK(m(i)) /\ PairsOK(t) /\ m(i) \in MatchIds
            BY <2>3, <2>5 DEF Bracket, CupOK
        <3>2. w[i] \in games[m(i)].players
            BY <2>5, <3>1 DEF GameOK
        <3>3. games[m(i)].players = {bracket[2 * (i - 1) + 1], bracket[2 * (i - 1) + 2]}
            BY <2>2, <2>5, <3>1 DEF PairsOK, m
        <3>4. 2 * (i - 1) + 1 = 2 * i - 1 /\ 2 * (i - 1) + 2 = 2 * i
            BY <1>1
        <3>5. QED
            BY <3>2, <3>3, <3>4
    <2>8. QED
        BY <2>2, <2>3, <2>4, <2>5, <2>6, <2>7
<1>6. w \in [1..half -> Accounts] /\ half \in Nat
    <2>1. \A i \in 1..half : w[i] \in Accounts
        BY <1>5
    <2>2. w = [i \in 1..half |-> w[i]]
        BY <1>2
    <2>3. QED
        BY <1>1, <2>1, <2>2
<1>7. w \in Seq(Accounts)
    BY <1>6, IsASeq
<1>8. Len(w) = half
    BY <1>4, <1>6, <1>7, LenProperties
<1>9. QED
    BY <1>5, <1>7, <1>8 DEF half, w, m

\* When the pairs of a bracket leave one player each, its blocks double.
LEMMA PlacedNext ==
    ASSUME NEW b, NEW c, NEW half \in Nat, Len(b) = 2 * half, Len(c) = half,
           NEW order, NEW seeds, NEW w \in Nat, Placed(b, order, seeds, w),
           \A i \in 1..half : c[i] \in {b[2 * i - 1], b[2 * i]}
    PROVE  Placed(c, order, seeds, 2 * w)
<1> SUFFICES ASSUME NEW i \in 1..half
             PROVE  \E k \in ((2 * w) * (i - 1) + 1)..((2 * w) * i) : c[i] = order[seeds[k]]
    BY DEF Placed
<1>1. PICK x \in Nat : x = w * (i - 1)
    OBVIOUS
<1>2. /\ w * ((2 * i - 1) - 1) = 2 * x /\ w * (2 * i - 1) = 2 * x + w
      /\ w * (2 * i) = 2 * x + 2 * w
      /\ (2 * w) * (i - 1) = 2 * x /\ (2 * w) * i = 2 * x + 2 * w
    BY <1>1
<1>3. 2 * i - 1 \in 1..Len(b) /\ 2 * i \in 1..Len(b)
    OBVIOUS
<1>4. CASE c[i] = b[2 * i - 1]
    <2>1. PICK k \in (w * ((2 * i - 1) - 1) + 1)..(w * (2 * i - 1)) : b[2 * i - 1] = order[seeds[k]]
        BY <1>3 DEF Placed
    <2>2. k \in (2 * x + 1)..(2 * x + w)
        BY <1>2
    <2>3. k \in (2 * x + 1)..(2 * x + 2 * w)
        BY <2>2
    <2>4. QED
        BY <1>2, <1>4, <2>1, <2>3
<1>5. CASE c[i] = b[2 * i]
    <2>1. PICK k \in (w * (2 * i - 1) + 1)..(w * (2 * i)) : b[2 * i] = order[seeds[k]]
        BY <1>3 DEF Placed
    <2>2. k \in (2 * x + w + 1)..(2 * x + 2 * w)
        BY <1>2
    <2>3. k \in (2 * x + 1)..(2 * x + 2 * w)
        BY <2>2
    <2>4. QED
        BY <1>2, <1>5, <2>1, <2>3
<1>6. QED
    BY <1>4, <1>5

\* advance carries the winners of the round into the next one, or pays the last.
LEMMA AdvanceInv ==
    ASSUME IInv, NEW t \in Tournaments, NEW accepted \in BOOLEAN, Advance(t, accepted)
    PROVE  IInv'
<1> USE DEF IInv, entryVars
<1> DEFINE cup == tournaments[t]
           half == Len(tournaments[t].bracket) \div 2
<1>1. PICK w : w = Winners(t)
    OBVIOUS
<1>2. /\ cup.status = 2 /\ \A i \in DOMAIN w : w[i] # Nobody
      /\ UNCHANGED <<vaultVars, entryVars, roundMatches, usedMatches, games, ranking>>
    BY <1>1 DEF Advance
<1>3. RoundOK(t) /\ SeedsOK(t)
    BY DEF Bracket, CupOK
<1>4. /\ w \in Seq(Accounts) /\ Len(w) = half
      /\ \A i \in 1..half : /\ <<cup.round, i - 1>> \in Slots
                            /\ roundMatches[t][<<cup.round, i - 1>>] \in MatchIds
                            /\ roundMatches[t][<<cup.round, i - 1>>] # 0
                            /\ games[roundMatches[t][<<cup.round, i - 1>>]].status = 3
                            /\ games[roundMatches[t][<<cup.round, i - 1>>]].winner = w[i]
                            /\ w[i] \in {cup.bracket[2 * i - 1], cup.bracket[2 * i]}
    BY <1>1, <1>2, WinnersFound
<1>5. /\ half \in {1, 2, 4, 8, 16} /\ Len(cup.bracket) = 2 * half
      /\ half # 1 => cup.round + 1 \in 0..4 /\ Width(cup.round + 1) * half = 2 * cup.capacity
    BY <1>2, <1>3, PlacesOfRound
<1> HIDE DEF half
<1>6. now \in Nat /\ now \in 0..MaxTime /\ now' = now
    BY <1>2, VaultAssumption DEF TypeOK, VaultTypeOK, vaultVars
<1>7. GamesKept /\ \A m \in MatchIds : GameOK(m)'
    BY <1>2, <1>6, GamesStay
<1>8. \A u \in Tournaments, s \in Slots : AttachedOK(u, s)'
    BY <1>2, <1>7, AttachedStays
<1>9. cup \in Cup
    BY CupFields
<1>10. /\ cup.round \in Nat /\ cup.roundStarted <= now /\ \E f \in Formats : f[1] = cup.capacity
       /\ \A s \in Slots : roundMatches[t][s] # 0 => s \in (0..4) \X (0..15) /\ s[1] <= cup.round
    BY <1>2, <1>3, CupFields DEF RoundOK, Slots
<1>11. Paid(t) /\ refunded[t] = {}
    BY <1>2 DEF Money, Paid
<1>12. ASSUME TypeOK', \A u \in Tournaments \ {t} : tournaments'[u] = tournaments[u],
              CupOK(t)'
       PROVE  Bracket'
    <2>1. ASSUME NEW u \in Tournaments \ {t} PROVE CupOK(u)'
        <3>1. RoundKept(u)
            BY <1>2, <1>12 DEF RoundKept, SameRound
        <3>2. QED
            BY <1>2, <1>6, <1>7, <1>12, <3>1, RoundStays
    <2>2. \A u \in Tournaments : CupOK(u)'
        BY <1>12, <2>1
    <2>3. QED
        BY <1>7, <1>8, <2>2 DEF Bracket
<1>13. CASE half = 1
    <2>1. PICK v \in Accounts : v = w[1]
        <3>1. 1 \in 1..Len(w)
            BY <1>4, <1>13
        <3>2. QED
            BY <1>4, <3>1, ElementOfSeq
    <2>2. PICK d : d = Won(cup, v)
        OBVIOUS
    <2>3. PICK prize \in Nat : prize = cup.prize
        BY CupFields
    <2>4. /\ Put(t, d) /\ SchedulePayout(<<1, t, v>>, prize, accepted)
          /\ accepted => cupFunds >= prize
          /\ cupFunds' = IF accepted THEN cupFunds - prize ELSE cupFunds
        BY <1>1, <1>4, <1>13, <2>1, <2>2, <2>3 DEF Advance, Won
    <2>5. /\ d \in Cup /\ d.status = 3 /\ d.winner = v /\ d.prize = 0
          /\ d.roundStarted = cup.roundStarted /\ d.capacity = cup.capacity /\ d.round = cup.round
        <3>1. d \in Cup /\ d.status = 3 /\ d.winner = v /\ d.prize = 0
            BY <1>9, <2>2, WonCup
        <3>2. d.roundStarted = cup.roundStarted /\ d.capacity = cup.capacity /\ d.round = cup.round
            BY <1>9, <2>2, WonCup
        <3>3. QED
            BY <3>1, <3>2
    <2>6. /\ tournaments' \in [Tournaments -> Cup]
          /\ tournaments'[t] = d
          /\ \A u \in Tournaments \ {t} : tournaments'[u] = tournaments[u]
        BY <2>4, <2>5, PutTypes
    <2>7. <<1, t, v>> \in PayoutIds
        BY TournamentAssumption
    <2>8. PayoutTypeOK'
        BY <2>4, <2>7, ScheduleTypes DEF TypeOK
    <2>9. TypeOK'
        <3>1. cupFunds' \in Nat
            BY <2>4 DEF TypeOK
        <3>2. QED
            BY <1>2, <2>6, <2>8, <3>1 DEF TypeOK, vaultVars, VaultTypeOK
    <2>10. Money'
        <3>1. PendingMatch'
            BY <2>4, <2>7, <2>8, PendingMoves, PayoutIdsFinite DEF Money, TypeOK
        <3>2. Paid(t)'
            BY <1>2, <1>11, <2>5, <2>6 DEF Paid, Owed
        <3>3. cupFunds' = cupFunds + (tournaments'[t].prize - tournaments[t].prize)
                                   + (totalPendingPayouts' - totalPendingPayouts)
            BY <2>3, <2>4, <2>5, <2>6, FundFields DEF SchedulePayout
        <3>4. QED
            BY <1>2, <2>6, <2>9, <3>1, <3>2, <3>3, MoneyMoves
    <2>11. CupOK(t)'
        <3>1. RoundOK(t)'
            BY <1>2, <1>6, <1>10, <2>5, <2>6 DEF RoundOK
        <3>2. PlacesOK(t)' /\ PairsOK(t)' /\ SeedsOK(t)'
            BY <2>5, <2>6 DEF PlacesOK, PairsOK, SeedsOK
        <3>3. 1 \in 1..half /\ 1 - 1 = 0
            BY <1>13
        <3>6. PICK s : s = <<cup.round, 0>>
            OBVIOUS
        <3>7. /\ s \in Slots /\ roundMatches[t][s] # 0
              /\ games[roundMatches[t][s]].status = 3 /\ games[roundMatches[t][s]].winner = v
            BY <1>4, <2>1, <3>3, <3>6
        <3>8. <<tournaments'[t].round, 0>> = s /\ tournaments'[t].winner = v
            BY <2>5, <2>6, <3>6
        <3>4. FinalOK(t)'
            BY <1>2, <3>7, <3>8 DEF FinalOK
        <3>5. QED
            BY <3>1, <3>2, <3>4 DEF CupOK
    <2>12. QED
        BY <1>12, <2>6, <2>9, <2>10, <2>11
<1>14. CASE half # 1
    <2>1. PICK d : d = Advanced(cup, w, cup.round + 1, now)
        OBVIOUS
    <2>2. Put(t, d) /\ UNCHANGED <<payoutVars, cupFunds>>
        BY <1>1, <1>4, <1>14, <2>1 DEF Advance, Advanced
    <2>3. /\ d \in Cup /\ d.status = 2 /\ SameMoney(cup, d)
          /\ d.bracket = w /\ d.roundStarted = now /\ d.capacity = cup.capacity
          /\ d.round = cup.round + 1
        <3>1. cup.round + 1 \in Nat
            BY <1>10
        <3>2. d \in Cup /\ d.status = cup.status /\ SameMoney(cup, d)
            BY <1>4, <1>6, <1>9, <2>1, <3>1, AdvancedCup
        <3>3. d.bracket = w /\ d.roundStarted = now
            BY <1>4, <1>6, <1>9, <2>1, <3>1, AdvancedCup
        <3>4. d.capacity = cup.capacity /\ d.round = cup.round + 1
            BY <1>4, <1>6, <1>9, <2>1, <3>1, AdvancedCup
        <3>5. QED
            BY <1>2, <3>2, <3>3, <3>4
    <2>4. /\ tournaments' \in [Tournaments -> Cup]
          /\ tournaments'[t] = d
          /\ \A u \in Tournaments \ {t} : tournaments'[u] = tournaments[u]
        BY <2>2, <2>3, PutTypes
    <2>5. TypeOK'
        BY <1>2, <2>2, <2>4 DEF TypeOK, vaultVars, payoutVars, VaultTypeOK, PayoutTypeOK
    <2>6. Money'
        <3>1. PendingMatch'
            BY <2>2 DEF Money, PendingMatch, PendingSum, Pending, AmountOf, payoutVars
        <3>2. Paid(t)'
            BY <1>2, <1>11, <2>3, <2>4 DEF Paid, Owed, SameMoney
        <3>3. tournaments'[t].prize = tournaments[t].prize /\ tournaments[t].prize \in Nat
            BY <2>3, <2>4, CupFields DEF SameMoney
        <3>4. cupFunds' = cupFunds + (tournaments'[t].prize - tournaments[t].prize)
                                   + (totalPendingPayouts' - totalPendingPayouts)
            BY <2>2, <3>3, FundFields DEF payoutVars
        <3>5. QED
            BY <1>2, <2>4, <2>5, <3>1, <3>2, <3>4, MoneyMoves
    <2>7. CupOK(t)'
        <3>1. /\ tournaments'[t].status = 2 /\ tournaments'[t].bracket = w
              /\ tournaments'[t].roundStarted = now /\ tournaments'[t].capacity = cup.capacity
              /\ tournaments'[t].round = cup.round + 1
            BY <2>3, <2>4
        <3>2. RoundOK(t)'
            <4>1. half \in {2, 4, 8, 16}
                BY <1>5, <1>14
            <4>2. \A s \in Slots : roundMatches[t][s] # 0 => s[1] <= cup.round + 1
                BY <1>10
            <4>3. /\ tournaments'[t].round \in 0..4 /\ Len(tournaments'[t].bracket) \in {2, 4, 8, 16, 32}
                  /\ Width(tournaments'[t].round) * Len(tournaments'[t].bracket)
                         = 2 * tournaments'[t].capacity
                BY <1>4, <1>5, <1>14, <3>1, <4>1
            <4>4. /\ \E f \in Formats : f[1] = tournaments'[t].capacity
                  /\ tournaments'[t].roundStarted <= now'
                BY <1>6, <1>10, <3>1
            <4>5. \A s \in Slots : roundMatches'[t][s] # 0 => s[1] <= tournaments'[t].round
                BY <1>2, <3>1, <4>2
            <4>6. QED
                BY <3>1, <4>3, <4>4, <4>5 DEF RoundOK
        <3>3. PlacesOK(t)'
            <4>1. cup.round + 1 - 1 = cup.round
                BY <1>10
            <4>2. ASSUME NEW m \in MatchIds PROVE games[m].created <= now
                BY DEF Bracket, GameOK
            <4>3. ASSUME NEW i \in 1..Len(w), NEW s, s = <<cup.round, i - 1>>
                  PROVE  /\ s \in Slots /\ roundMatches'[t][s] # 0
                         /\ games'[roundMatches'[t][s]].status = 3
                         /\ games'[roundMatches'[t][s]].winner = w[i]
                         /\ games'[roundMatches'[t][s]].created <= now
                BY <1>2, <1>4, <4>2, <4>3
            <4>4. tournaments'[t].round - 1 = cup.round
                BY <1>10, <3>1, <4>1
            <4>5. QED
                BY <3>1, <4>3, <4>4 DEF PlacesOK
        <3>4. FinalOK(t)'
            BY <3>1 DEF FinalOK
        <3>6. PairsOK(t)'
            <4>1. \A s \in Slots : roundMatches[t][s] # 0 => s[1] # cup.round + 1
                BY <1>10
            <4>2. QED
                BY <1>2, <3>1, <4>1 DEF PairsOK
        <3>7. SeedsOK(t)'
            <4>1. PICK v \in {1, 2, 4, 8, 16} :
                      /\ v * Len(cup.bracket) = cup.capacity
                      /\ Placed(cup.bracket, ranking[t], Seeds(cup.capacity), v)
                BY <1>2, <1>3 DEF SeedsOK
            <4>2. Placed(w, ranking[t], Seeds(cup.capacity), 2 * v)
                <5>1. half \in Nat /\ Len(cup.bracket) = 2 * half /\ Len(w) = half
                    BY <1>4, <1>5
                <5>2. \A i \in 1..half : w[i] \in {cup.bracket[2 * i - 1], cup.bracket[2 * i]}
                    BY <1>4
                <5>3. v \in Nat
                    BY <4>1
                <5>4. QED
                    BY <4>1, <5>1, <5>2, <5>3, PlacedNext
            <4>3. cup.capacity \in {2, 4, 8, 16, 32}
                BY <1>10, FormatFields
            <4>4. v * (2 * half) = cup.capacity /\ half \in {2, 4, 8, 16}
                BY <1>5, <1>14, <4>1
            <4>5. 2 * v \in {1, 2, 4, 8, 16} /\ (2 * v) * half = cup.capacity
                BY ONLY <4>3, <4>4, v \in {1, 2, 4, 8, 16}
            <4>6. /\ ranking[t] \in [1..cup.capacity -> Accounts]
                  /\ \A i, j \in 1..cup.capacity : ranking[t][i] = ranking[t][j] => i = j
                BY <1>2, <1>3 DEF SeedsOK
            <4>7. QED
                BY <1>2, <1>4, <3>1, <4>2, <4>5, <4>6 DEF SeedsOK
        <3>5. QED
            BY <3>2, <3>3, <3>4, <3>6, <3>7 DEF CupOK
    <2>8. QED
        BY <1>12, <2>4, <2>5, <2>6, <2>7
<1>15. QED
    BY <1>13, <1>14

-----------------------------------------------------------------------------
(* Cancellation and payments. *)

\* cancel returns the seed, and leaves a fee of every entrant.
LEMMA CancelInv ==
    ASSUME IInv, NEW t \in Tournaments, NEW accepted \in BOOLEAN, Cancel(t, accepted)
    PROVE  IInv'
<1> USE DEF IInv, entryVars
<1>1. tournaments[t] \in Cup
    BY CupFields
<1>2. PICK fee \in Nat, prize \in Nat, seed \in Nat :
          fee = tournaments[t].fee /\ prize = tournaments[t].prize /\ seed = tournaments[t].seedPrize
    BY CupFields
<1>3. PICK d : d = Cancelled(tournaments[t], prize - seed)
    OBVIOUS
<1>4. /\ tournaments[t].status \in {1, 2} /\ prize >= seed /\ Put(t, d)
      /\ SchedulePayout(<<3, t, Treasury>>, seed, accepted)
      /\ accepted => cupFunds >= seed
      /\ cupFunds' = IF accepted THEN cupFunds - seed ELSE cupFunds
      /\ UNCHANGED <<vaultVars, entryVars, roundMatches, usedMatches, games, ranking>>
    BY <1>2, <1>3 DEF Cancel, Cancellable, Cancelled
<1>5. /\ d \in Cup /\ d.status = 4 /\ SameRound(tournaments[t], d)
      /\ d.fee = fee /\ d.prize = prize - seed
    <2>1. prize - seed \in Nat
        BY <1>4
    <2>2. d \in Cup /\ d.status = 4 /\ SameRound(tournaments[t], d)
        BY <1>1, <1>3, <2>1, CancelledCup
    <2>3. d.fee = tournaments[t].fee /\ d.prize = prize - seed
        BY <1>1, <1>3, <2>1, CancelledCup
    <2>4. QED
        BY <1>2, <2>2, <2>3
<1>6. /\ tournaments' \in [Tournaments -> Cup]
      /\ tournaments'[t] = d
      /\ \A u \in Tournaments \ {t} : tournaments'[u] = tournaments[u]
    BY <1>4, <1>5, PutTypes
<1>7. <<3, t, Treasury>> \in PayoutIds
    BY TournamentAssumption
<1>8. PayoutTypeOK'
    BY <1>4, <1>7, ScheduleTypes DEF TypeOK
<1>9. TypeOK'
    <2>1. cupFunds' \in Nat
        BY <1>4 DEF TypeOK
    <2>2. QED
        BY <1>4, <1>6, <1>8, <2>1 DEF TypeOK, vaultVars, VaultTypeOK
<1>10. Money'
    <2>1. refunded[t] = {} /\ prize = seed + fee * Cardinality(entered[t])
        <3>1. Paid(t)
            BY DEF Money
        <3>2. QED
            BY <1>2, <1>4, <3>1 DEF Paid, Owed
    <2>2. prize - seed = fee * Cardinality(entered[t] \ refunded[t])
        <3> DEFINE n == Cardinality(entered[t])
        <3>1. n \in Nat /\ prize = seed + fee * n /\ entered[t] \ refunded[t] = entered[t]
            BY <2>1, EntrantsFinite
        <3>2. Cardinality(entered[t] \ refunded[t]) = n
            BY <3>1
        <3> HIDE DEF n
        <3>3. fee * n \in Nat
            BY <3>1
        <3>4. QED
            BY <3>1, <3>2, <3>3
    <2>3. Paid(t)'
        BY <1>4, <1>5, <1>6, <2>2 DEF Paid, Owed
    <2>4. PendingMatch'
        BY <1>4, <1>7, <1>8, PendingMoves, PayoutIdsFinite DEF Money, TypeOK
    <2>5. cupFunds' = cupFunds + (tournaments'[t].prize - tournaments[t].prize)
                               + (totalPendingPayouts' - totalPendingPayouts)
        BY <1>2, <1>4, <1>5, <1>6, FundFields DEF SchedulePayout
    <2>6. QED
        BY <1>4, <1>6, <1>9, <2>3, <2>4, <2>5, MoneyMoves
<1>11. Bracket'
    <2>1. \A u \in Tournaments : RoundKept(u)
        BY <1>4, <1>5, <1>6 DEF RoundKept, SameRound
    <2>2. now' >= now
        BY <1>4, VaultAssumption DEF TypeOK, VaultTypeOK, vaultVars
    <2>3. QED
        BY <1>4, <1>9, <2>1, <2>2, BracketKept
<1>12. QED
    BY <1>9, <1>10, <1>11

\* A refund takes one fee from the prize and one entrant from those owed.
LEMMA RefundInv ==
    ASSUME IInv, NEW t \in Tournaments, NEW p \in Accounts, NEW accepted \in BOOLEAN,
           Refund(t, p, accepted)
    PROVE  IInv'
<1> USE DEF IInv, entryVars
<1>1. tournaments[t] \in Cup
    BY CupFields
<1>2. PICK fee \in Nat, prize \in Nat :
          fee = tournaments[t].fee /\ prize = tournaments[t].prize
    BY CupFields
<1>3. PICK d : d = [tournaments[t] EXCEPT !.prize = prize - fee]
    OBVIOUS
<1>4. /\ tournaments[t].status = 4 /\ p \in entered[t] \ refunded[t] /\ prize >= fee
      /\ refunded' = [refunded EXCEPT ![t] = @ \cup {p}] /\ Put(t, d)
      /\ SchedulePayout(<<2, t, p>>, fee, accepted)
      /\ accepted => cupFunds >= fee
      /\ cupFunds' = IF accepted THEN cupFunds - fee ELSE cupFunds
      /\ UNCHANGED <<vaultVars, entered, entryNonces, entries, roundMatches, usedMatches, games, ranking>>
    BY <1>2, <1>3 DEF Refund
<1>5. /\ d \in Cup /\ d.status = 4 /\ SameRound(tournaments[t], d)
      /\ d.fee = fee /\ d.prize = prize - fee
    <2>1. prize - fee \in Nat
        BY <1>4
    <2>2. QED
        BY <1>1, <1>2, <1>3, <1>4, <2>1, RepricedCup
<1>6. /\ tournaments' \in [Tournaments -> Cup]
      /\ tournaments'[t] = d
      /\ \A u \in Tournaments \ {t} : tournaments'[u] = tournaments[u]
    BY <1>4, <1>5, PutTypes
<1>7. <<2, t, p>> \in PayoutIds
    BY TournamentAssumption
<1>8. PayoutTypeOK'
    BY <1>4, <1>7, ScheduleTypes DEF TypeOK
<1>9. TypeOK'
    <2>1. cupFunds' \in Nat /\ refunded' \in [Tournaments -> SUBSET Accounts]
        BY <1>4 DEF TypeOK
    <2>2. QED
        BY <1>4, <1>6, <1>8, <2>1 DEF TypeOK, vaultVars, VaultTypeOK
<1>10. Money'
    <2>1. Paid(t) /\ prize = fee * Cardinality(entered[t] \ refunded[t])
        <3>1. Paid(t)
            BY DEF Money
        <3>2. QED
            BY <1>2, <1>4, <3>1 DEF Paid, Owed
    <2>2. prize - fee = fee * Cardinality(entered[t] \ refunded'[t])
        <3> DEFINE S == entered[t] \ refunded[t]
                   n == Cardinality(S)
                   k == Cardinality(S \ {p})
        <3>1. IsFiniteSet(S) /\ n \in Nat
            BY EntrantsFinite
        <3>2. k = n - 1 /\ IsFiniteSet(S \ {p}) /\ k \in Nat
            BY <1>4, <3>1, FS_RemoveElement, FS_CardinalityType
        <3>3. refunded'[t] = refunded[t] \cup {p}
            BY <1>4 DEF TypeOK
        <3>4. entered[t] \ refunded'[t] = S \ {p}
            BY <3>3
        <3>5. prize = fee * n
            BY <2>1
        <3>6. Cardinality(entered[t] \ refunded'[t]) = k
            BY <3>4
        <3> HIDE DEF S, n, k
        <3>7. n = k + 1
            BY <3>1, <3>2
        <3>8. fee * (k + 1) = fee * k + fee /\ fee * k \in Nat
            BY <3>2
        <3>9. QED
            BY <3>5, <3>6, <3>7, <3>8
    <2>3. Paid(t)'
        BY <1>4, <1>5, <1>6, <2>1, <2>2 DEF Paid, Owed
    <2>4. PendingMatch'
        BY <1>4, <1>7, <1>8, PendingMoves, PayoutIdsFinite DEF Money, TypeOK
    <2>5. cupFunds' = cupFunds + (tournaments'[t].prize - tournaments[t].prize)
                               + (totalPendingPayouts' - totalPendingPayouts)
        BY <1>2, <1>4, <1>5, <1>6, FundFields DEF SchedulePayout
    <2>6. \A u \in Tournaments \ {t} : entered'[u] = entered[u] /\ refunded'[u] = refunded[u]
        BY <1>4 DEF TypeOK
    <2>7. QED
        BY <1>6, <1>9, <2>3, <2>4, <2>5, <2>6, MoneyMoves
<1>11. Bracket'
    <2>1. \A u \in Tournaments : RoundKept(u)
        BY <1>4, <1>5, <1>6 DEF RoundKept, SameRound
    <2>2. now' >= now
        BY <1>4, VaultAssumption DEF TypeOK, VaultTypeOK, vaultVars
    <2>3. QED
        BY <1>4, <1>9, <2>1, <2>2, BracketKept
<1>12. QED
    BY <1>9, <1>10, <1>11

\* A retry pays a debt from the funds held for it.
LEMMA RetryInv ==
    ASSUME IInv, NEW id \in PayoutIds, NEW accepted \in BOOLEAN, Retry(id, accepted)
    PROVE  IInv'
<1> USE DEF IInv, entryVars
<1>1. PICK amount \in Nat : amount = payouts[id].amount
    BY DEF TypeOK, PayoutTypeOK, Payout
<1>2. /\ RetryPayout(id, accepted)
      /\ accepted => cupFunds >= amount /\ totalPendingPayouts' = totalPendingPayouts - amount
      /\ ~accepted => totalPendingPayouts' = totalPendingPayouts
      /\ cupFunds' = IF accepted THEN cupFunds - amount ELSE cupFunds
      /\ UNCHANGED <<vaultVars, tournaments, entryVars, roundMatches, usedMatches, games, ranking>>
    BY <1>1 DEF Retry, RetryPayout
<1>3. PayoutTypeOK'
    BY <1>2, RetryTypes DEF TypeOK
<1>4. TypeOK'
    <2>1. cupFunds' \in Nat
        BY <1>2 DEF TypeOK
    <2>2. QED
        BY <1>2, <1>3, <2>1 DEF TypeOK, vaultVars, VaultTypeOK
<1>5. Money'
    <2>1. PrizeSum' = PrizeSum
        BY <1>2 DEF PrizeSum
    <2>2. PendingMatch'
        BY <1>2, <1>3, PendingMoves, PayoutIdsFinite DEF Money, TypeOK
    <2>3. \A t \in Tournaments : Paid(t)'
        BY <1>2 DEF Money, Paid, Owed
    <2>4. PrizeSum \in Int /\ cupFunds = PrizeSum + totalPendingPayouts
        <3> DEFINE g == [t \in Tournaments |-> tournaments[t].prize]
        <3>1. g \in [Tournaments -> Int]
            BY CupFields
        <3>2. PrizeSum = SumFunctionOnSet(g, Tournaments)
            BY DEF PrizeSum
        <3> HIDE DEF g
        <3>3. PrizeSum \in Int
            BY <3>1, <3>2, TournamentAssumption, SumType
        <3>4. QED
            BY <3>3 DEF Money, FundsMatch
    <2>5. cupFunds' = PrizeSum + totalPendingPayouts'
        BY <1>2, <2>4 DEF TypeOK, PayoutTypeOK
    <2>6. QED
        BY <2>1, <2>2, <2>3, <2>5 DEF Money, FundsMatch
<1>6. Bracket'
    <2>1. \A t \in Tournaments : RoundKept(t)
        BY <1>2 DEF RoundKept, SameRound
    <2>2. now' >= now
        BY <1>2, VaultAssumption DEF TypeOK, VaultTypeOK, vaultVars
    <2>3. QED
        BY <1>2, <1>4, <2>1, <2>2, BracketKept
<1>7. QED
    BY <1>4, <1>5, <1>6

-----------------------------------------------------------------------------
(* The theorems. *)

\* No tournament, no match, no money.
LEMMA InitInv == Init => IInv
<1> SUFFICES ASSUME Init PROVE IInv
    OBVIOUS
<1> USE DEF Init, CupInit
<1>1. TypeOK
    <2>1. VaultTypeOK
        BY VaultAssumption DEF VaultInit, VaultTypeOK
    <2>2. PayoutTypeOK
        BY DEF PayoutInit, PayoutTypeOK, NoPayout, Payout
    <2>3. NoTournament \in Cup
        <3>1. 0 \in 0..MaxTime /\ <<>> \in Seq(Accounts)
            BY VaultAssumption, EmptySeq
        <3>2. QED
            BY <3>1 DEF NoTournament, Cup
    <2>4. tournaments \in [Tournaments -> Cup]
        BY <2>3
    <2>5. NoGame \in Game
        <3>1. 0 \in 0..MaxTime
            BY VaultAssumption
        <3>2. QED
            BY <3>1 DEF NoGame, Game
    <2>6. /\ entered \in [Tournaments -> SUBSET Accounts] /\ refunded \in [Tournaments -> SUBSET Accounts]
          /\ roundMatches \in [Tournaments -> [Slots -> MatchIds \cup {0}]]
          /\ entryNonces \in [Accounts -> Nat] /\ entries \subseteq Entry /\ cupFunds \in Nat
        OBVIOUS
    <2>7. games \in [MatchIds -> Game] /\ usedMatches \subseteq MatchIds
        BY <2>5
    <2>8. ranking \in [Tournaments -> Seq(Accounts)]
        BY EmptySeq
    <2>9. QED
        BY <2>1, <2>2, <2>4, <2>6, <2>7, <2>8 DEF TypeOK
<1>2. \A t \in Tournaments : /\ tournaments[t].status = 0 /\ tournaments[t].prize = 0
                             /\ tournaments[t].round = 0 /\ tournaments[t].roundStarted = 0
                             /\ entered[t] = {} /\ refunded[t] = {}
                             /\ \A s \in Slots : roundMatches[t][s] = 0
    BY DEF NoTournament
<1>3. Money
    <2>1. PrizeSum = 0
        <3> DEFINE g == [t \in Tournaments |-> tournaments[t].prize]
        <3>1. \A t \in Tournaments : g[t] = 0
            BY <1>2
        <3>2. PrizeSum = SumFunctionOnSet(g, Tournaments)
            BY DEF PrizeSum
        <3> HIDE DEF g
        <3>3. QED
            BY <3>1, <3>2, TournamentAssumption, SumOfZeros
    <2>2. PendingMatch
        <3>1. Pending = {}
            BY DEF Pending, PayoutInit, NoPayout
        <3>2. QED
            BY <3>1, SumOfNothing DEF PendingMatch, PendingSum, PayoutInit
    <2>3. \A t \in Tournaments : Paid(t)
        BY <1>2 DEF Paid, Owed
    <2>4. QED
        BY <2>1, <2>2, <2>3 DEF Money, FundsMatch, PayoutInit
<1>4. Bracket
    <2>1. now = 0
        BY DEF VaultInit
    <2>2. \A m \in MatchIds : GameOK(m)
        BY <2>1 DEF GameOK, NoGame
    <2>3. \A t \in Tournaments : CupOK(t)
        BY <1>2, <2>1 DEF CupOK, RoundOK, PlacesOK, FinalOK, PairsOK, SeedsOK
    <2>4. \A t \in Tournaments, s \in Slots : AttachedOK(t, s)
        BY <1>2 DEF AttachedOK
    <2>5. QED
        BY <2>2, <2>3, <2>4 DEF Bracket
<1>5. QED
    BY <1>1, <1>3, <1>4 DEF IInv

\* Every step keeps the invariant.
LEMMA StepInv == IInv /\ [Next]_vars => IInv'
<1> SUFFICES ASSUME IInv, [Next]_vars PROVE IInv'
    OBVIOUS
<1>1. CASE VaultStep
    BY <1>1, VaultStepInv
<1>2. CASE EntryStep
    <2>1. ASSUME NEW t \in Tournaments, NEW c \in 1..MaxTime, NEW f \in Formats,
                 Create(t, c, f[1], f[2], f[3])
          PROVE  IInv'
        BY <2>1, CreateInv
    <2>2. ASSUME NEW p \in Accounts, NEW t \in Tournaments, NEW d \in Deadlines, SignEntry(p, t, d)
          PROVE  IInv'
        BY <2>2, SignEntryInv
    <2>3. ASSUME NEW o \in entries, Enter(o) PROVE IInv'
        BY <2>3, EnterInv
    <2>4. ASSUME NEW t \in Tournaments, NEW sorted \in SetToSeqs(entered[t]), Start(t, sorted) PROVE IInv'
        BY <2>4, StartInv
    <2>5. QED
        BY <1>2, <2>1, <2>2, <2>3, <2>4 DEF EntryStep
<1>3. CASE MatchStep
    <2>1. ASSUME NEW m \in MatchIds, NEW pair \in kSubset(2, Accounts), NEW t \in Tournaments,
                 CreateMatch(m, pair, t)
          PROVE  IInv'
        <3>1. pair \in SUBSET Accounts
            BY DEF kSubset
        <3>2. QED
            BY <2>1, <3>1, CreateMatchInv
    <2>2. ASSUME NEW m \in MatchIds, NEW w \in games[m].players, EndMatch(m, 3, w) PROVE IInv'
        <3>1. w \in Accounts
            BY DEF IInv, TypeOK, Game
        <3>2. QED
            BY <2>2, <3>1, EndMatchInv
    <2>3. ASSUME NEW m \in MatchIds, EndMatch(m, 4, Nobody) PROVE IInv'
        BY <2>3, EndMatchInv
    <2>4. QED
        BY <1>3, <2>1, <2>2, <2>3 DEF MatchStep
<1>4. CASE RoundStep
    <2>1. ASSUME NEW t \in Tournaments, NEW slot \in 0..(Len(tournaments[t].bracket) \div 2 - 1),
                 NEW m \in MatchIds, Attach(t, slot, m)
          PROVE  IInv'
        BY <2>1, AttachInv
    <2>2. ASSUME NEW t \in Tournaments, NEW ok \in BOOLEAN, Advance(t, ok) PROVE IInv'
        BY <2>2, AdvanceInv
    <2>3. QED
        BY <1>4, <2>1, <2>2 DEF RoundStep
<1>5. CASE PayStep
    <2>1. ASSUME NEW t \in Tournaments, NEW ok \in BOOLEAN, Cancel(t, ok) PROVE IInv'
        BY <2>1, CancelInv
    <2>2. ASSUME NEW t \in Tournaments, NEW p \in Accounts, NEW ok \in BOOLEAN, Refund(t, p, ok)
          PROVE  IInv'
        BY <2>2, RefundInv
    <2>3. ASSUME NEW id \in PayoutIds, NEW ok \in BOOLEAN, Retry(id, ok) PROVE IInv'
        BY <2>3, RetryInv
    <2>4. QED
        BY <1>5, <2>1, <2>2, <2>3 DEF PayStep
<1>6. CASE UNCHANGED vars
    <2>1. UNCHANGED <<vaultVars, payoutVars, cupVars, games>>
        BY <1>6 DEF vars
    <2>2. TypeOK' /\ GamesKept /\ \A m \in MatchIds : GameOK(m)'
        <3>1. /\ UNCHANGED <<vaultVars, payoutVars, games>>
              /\ UNCHANGED <<tournaments, entered, refunded, entryNonces, entries, roundMatches,
                             usedMatches, cupFunds, ranking>>
            BY <2>1 DEF cupVars, entryVars
        <3>2. TypeOK'
            BY <3>1 DEF IInv, TypeOK, vaultVars, payoutVars, VaultTypeOK, PayoutTypeOK
        <3>3. now' = now /\ now' \in Nat
            BY <3>1, VaultAssumption DEF vaultVars, IInv, TypeOK, VaultTypeOK
        <3>4. QED
            BY <3>1, <3>2, <3>3, GamesStay DEF IInv
    <2>3. QED
        BY <2>1, <2>2, GamesMove
<1>7. QED
    BY <1>1, <1>2, <1>3, <1>4, <1>5, <1>6 DEF Next

\* In every reachable state the funds are exactly what the tournaments owe, and
\* the matches attached to a bracket lead from its first round to its winner.
THEOREM CupInvariance == Spec => []IInv
<1>1. Init => IInv
    BY InitInv
<1>2. IInv /\ [Next]_vars => IInv'
    BY StepInv
<1>3. QED
    BY <1>1, <1>2, PTL DEF Spec

\* The state of the tournaments keeps its types.
THEOREM TypeCorrect == Spec => []TypeOK
BY CupInvariance, PTL DEF IInv

\* Whatever is entered, won, cancelled, refunded, rejected and retried, in
\* whatever order, the prize of a tournament is what it owes and the contract
\* holds every prize and every pending debt.
THEOREM PrizesAreCovered == Spec => []PrizesCovered
<1>1. IInv => PrizesCovered
    <2> SUFFICES ASSUME IInv PROVE PrizesCovered
        OBVIOUS
    <2>1. \A t \in Tournaments : tournaments[t].prize = Owed(t)
        BY DEF IInv, Money, Paid
    <2>2. SumOver(Tournaments, LAMBDA t : tournaments[t].prize) = PrizeSum
        BY DEF SumOver, SumFunction, PrizeSum
    <2>3. cupFunds = SumOver(Tournaments, LAMBDA t : tournaments[t].prize) + totalPendingPayouts
        BY <2>2 DEF IInv, Money, FundsMatch
    <2>4. SumOver({id \in PayoutIds : payouts[id].status = 1}, LAMBDA id : payouts[id].amount)
              = PendingSum
        BY PendingAmounts, PayoutIdsFinite DEF SumOver, Pending
    <2>5. QED
        BY <2>1, <2>3, <2>4 DEF PrizesCovered, IInv, Money, PendingMatch
<1>2. QED
    BY <1>1, CupInvariance, PTL

\* In every round after the first, the two players of an attached match are the
\* winners of the two decided matches below it, and the winner of a tournament
\* won the match of its last round.
THEOREM WinnersAdvance == Spec => []BracketIsATree
<1>1. IInv => BracketIsATree
    <2> SUFFICES ASSUME IInv, NEW t \in Tournaments
                 PROVE  /\ \A s \in Slots :
                               roundMatches[t][<<s[1], s[2]>>] # 0 =>
                                   LET m == roundMatches[t][<<s[1], s[2]>>]
                                       feeders == {roundMatches[t][<<s[1] - 1, 2 * s[2] + i>>] : i \in {0, 1}} IN
                                   /\ games[m].players \subseteq entered[t]
                                   /\ s[1] > 0 =>
                                          /\ \A f \in feeders : /\ f # 0 /\ games[f].status = 3
                                                                /\ games[f].created <= games[m].created
                                          /\ games[m].players = {games[f].winner : f \in feeders}
                        /\ tournaments[t].status = 3 =>
                               LET final == roundMatches[t][<<tournaments[t].round, 0>>] IN
                               final # 0 /\ tournaments[t].winner = games[final].winner
        BY DEF BracketIsATree
    <2>1. ASSUME NEW s \in Slots, roundMatches[t][s] # 0
          PROVE  LET m == roundMatches[t][s]
                     feeders == {roundMatches[t][<<s[1] - 1, 2 * s[2] + i>>] : i \in {0, 1}} IN
                 /\ games[m].players \subseteq entered[t]
                 /\ s[1] > 0 =>
                        /\ \A f \in feeders : /\ f # 0 /\ games[f].status = 3
                                              /\ games[f].created <= games[m].created
                        /\ games[m].players = {games[f].winner : f \in feeders}
        <3>1. PICK m \in MatchIds : m = roundMatches[t][s]
            BY <2>1 DEF IInv, TypeOK
        <3>2. AttachedOK(t, s) /\ GameOK(m)
            BY DEF IInv, Bracket
        <3>3. games[m].players \subseteq entered[t]
            BY <2>1, <3>1, <3>2 DEF AttachedOK, GameOK
        <3>4. ASSUME s[1] > 0,
                     NEW feeders, feeders = {roundMatches[t][<<s[1] - 1, 2 * s[2] + i>>] : i \in {0, 1}}
              PROVE  /\ \A f \in feeders : /\ f # 0 /\ games[f].status = 3
                                           /\ games[f].created <= games[m].created
                     /\ games[m].players = {games[f].winner : f \in feeders}
            <4>1. PICK f0, f1 : /\ f0 = roundMatches[t][<<s[1] - 1, 2 * s[2]>>]
                                /\ f1 = roundMatches[t][<<s[1] - 1, 2 * s[2] + 1>>]
                OBVIOUS
            <4>2. s[2] \in Nat
                BY DEF Slots
            <4>3. 2 * s[2] + 0 = 2 * s[2]
                BY <4>2
            <4>4. feeders = {f0, f1}
                BY <3>4, <4>1, <4>3
            <4>5. /\ f0 # 0 /\ games[f0].status = 3 /\ games[f0].created <= games[m].created
                  /\ f1 # 0 /\ games[f1].status = 3 /\ games[f1].created <= games[m].created
                  /\ games[m].players = {games[f0].winner, games[f1].winner}
                BY <2>1, <3>1, <3>2, <3>4, <4>1 DEF AttachedOK
            <4>6. QED
                BY <4>4, <4>5
        <3>5. QED
            BY <3>1, <3>3, <3>4
    <2>2. \A s \in Slots : <<s[1], s[2]>> = s
        BY DEF Slots
    <2>3. FinalOK(t)
        BY DEF IInv, Bracket, CupOK
    <2>4. QED
        BY <2>1, <2>2, <2>3 DEF FinalOK
<1>2. QED
    BY <1>1, CupInvariance, PTL

-----------------------------------------------------------------------------
(* Seeds. *)

\* The rank of a seed is the seed.
LEMMA RankOfSeed ==
    ASSUME NEW t, NEW n \in Nat, NEW r \in 1..n, ranking[t] \in [1..n -> Accounts],
           \A i, j \in 1..n : ranking[t][i] = ranking[t][j] => i = j
    PROVE  Rank(t, ranking[t][r]) = r
<1>1. DOMAIN ranking[t] = 1..n
    OBVIOUS
<1>2. \A i \in 1..n : ranking[t][i] = ranking[t][r] <=> i = r
    OBVIOUS
<1>3. Rank(t, ranking[t][r]) = CHOOSE i \in 1..n : ranking[t][i] = ranking[t][r]
    BY <1>1 DEF Rank
<1>4. QED
    BY <1>2, <1>3

\* The blocks of a bracket are apart.
LEMMA BlocksApart ==
    ASSUME NEW w \in Nat, NEW i \in Nat, NEW j \in Nat, i > 0, j > 0,
           NEW k \in (w * (i - 1) + 1)..(w * i), NEW l \in (w * (j - 1) + 1)..(w * j), k = l
    PROVE  i = j
<1>1. ASSUME NEW a \in Nat, NEW b \in Nat, a > 0, b > 0, a < b PROVE w * a <= w * (b - 1)
    <2>1. PICK d \in Nat : b - 1 = a + d
        <3>1. b - 1 - a \in Nat /\ b - 1 = a + (b - 1 - a)
            BY <1>1
        <3>2. QED
            BY <3>1
    <2>2. w * (a + d) = w * a + w * d /\ w * d \in Nat /\ w * a \in Nat
        OBVIOUS
    <2>3. QED
        BY <2>1, <2>2
<1>2. ~(i < j)
    <2> SUFFICES ASSUME i < j PROVE FALSE
        OBVIOUS
    <2>1. w * i <= w * (j - 1)
        BY <1>1
    <2>2. QED
        BY <2>1
<1>3. ~(j < i)
    <2> SUFFICES ASSUME j < i PROVE FALSE
        OBVIOUS
    <2>1. w * j <= w * (i - 1)
        BY <1>1
    <2>2. QED
        BY <2>1
<1>4. QED
    BY <1>2, <1>3

\* A bracket whose places are held by players of their blocks keeps the seeds apart.
LEMMA SeedsApart ==
    ASSUME IInv, NEW t \in Tournaments, tournaments[t].status = 2
    PROVE  LET bracket == tournaments[t].bracket  half == Len(bracket) \div 2 IN
           /\ Cardinality(ToSet(bracket)) = Len(bracket)
           /\ \A s \in 1..half : Rank(t, bracket[2 * s - 1]) > half \/ Rank(t, bracket[2 * s]) > half
<1>1. PICK n, b, seeds : /\ n = tournaments[t].capacity /\ b = tournaments[t].bracket
                         /\ seeds = Seeds(n)
    OBVIOUS
<1>2. CupOK(t)
    BY DEF IInv, Bracket
<1>3. n \in {2, 4, 8, 16, 32} /\ n \in Nat
    <2>1. \E f \in Formats : f[1] = n
        BY <1>1, <1>2 DEF CupOK, RoundOK
    <2>2. QED
        BY <2>1, FormatFields
<1>4. PICK half \in {1, 2, 4, 8, 16} : half = Len(b) \div 2 /\ Len(b) = 2 * half
    <2>1. TypeOK /\ RoundOK(t)
        BY <1>2 DEF IInv, CupOK
    <2>2. QED
        BY <1>1, <2>1, PlacesOfRound
<1>5. /\ ranking[t] \in [1..n -> Accounts]
      /\ \A i, j \in 1..n : ranking[t][i] = ranking[t][j] => i = j
      /\ \E w \in {1, 2, 4, 8, 16} : w * Len(b) = n /\ Placed(b, ranking[t], seeds, w)
    BY <1>1, <1>2 DEF CupOK, SeedsOK
<1>6. PICK w \in {1, 2, 4, 8, 16} : w * Len(b) = n /\ Placed(b, ranking[t], seeds, w)
    BY <1>5
<1>7. Spread(seeds, n)
    BY <1>1, <1>3, SeedsAssumption
<1>8. b \in Seq(Accounts) /\ Len(b) \in Nat
    BY <1>1, CupFields DEF IInv
<1>9. ASSUME NEW i \in 1..Len(b)
      PROVE  \E k \in 1..n : /\ k \in (w * (i - 1) + 1)..(w * i) /\ b[i] = ranking[t][seeds[k]]
                             /\ seeds[k] \in 1..n /\ Rank(t, b[i]) = seeds[k]
    <2>1. PICK k \in (w * (i - 1) + 1)..(w * i) : b[i] = ranking[t][seeds[k]]
        BY <1>6 DEF Placed
    <2>2. k \in 1..n
        <3>1. i - 1 \in Nat /\ i <= Len(b) /\ i \in Nat
            BY <1>8
        <3>2. w * (i - 1) \in Nat /\ w * i <= w * Len(b) /\ w * i \in Nat
            BY <1>8, <3>1
        <3>3. QED
            BY <1>3, <1>6, <2>1, <3>2
    <2>3. seeds[k] \in 1..n
        BY <1>7, <2>2 DEF Spread
    <2>4. Rank(t, ranking[t][seeds[k]]) = seeds[k]
        BY <1>3, <1>5, <2>3, RankOfSeed
    <2>5. QED
        BY <2>1, <2>2, <2>3, <2>4
<1>10. Cardinality(ToSet(b)) = Len(b)
    <2>1. ASSUME NEW i \in 1..Len(b), NEW j \in 1..Len(b), b[i] = b[j] PROVE i = j
        <3>1. PICK k \in 1..n : /\ k \in (w * (i - 1) + 1)..(w * i) /\ b[i] = ranking[t][seeds[k]]
                                /\ seeds[k] \in 1..n
            BY <1>9
        <3>2. PICK l \in 1..n : /\ l \in (w * (j - 1) + 1)..(w * j) /\ b[j] = ranking[t][seeds[l]]
                                /\ seeds[l] \in 1..n
            BY <1>9
        <3>3. seeds[k] = seeds[l]
            BY <1>5, <2>1, <3>1, <3>2
        <3>4. k = l
            BY <1>7, <3>3 DEF Spread
        <3>5. i \in Nat /\ j \in Nat /\ i > 0 /\ j > 0 /\ w \in Nat
            BY <1>8
        <3>6. QED
            BY <3>1, <3>2, <3>4, <3>5, BlocksApart
    <2>2. DOMAIN b = 1..Len(b)
        BY <1>8, LenProperties
    <2>3. b \in Bijection(1..Len(b), ToSet(b))
        <3>1. b \in [1..Len(b) -> ToSet(b)]
            <4>1. b = [i \in 1..Len(b) |-> b[i]]
                BY <1>8, <2>2, LenProperties
            <4>2. \A i \in 1..Len(b) : b[i] \in ToSet(b)
                BY <2>2 DEF ToSet
            <4>3. QED
                BY <4>1, <4>2
        <3>2. \A x \in ToSet(b) : \E i \in 1..Len(b) : b[i] = x
            BY <2>2 DEF ToSet
        <3>3. QED
            BY <2>1, <3>1, <3>2 DEF Bijection, Injection, Surjection, IsInjective
    <2>4. IsFiniteSet(1..Len(b)) /\ Cardinality(1..Len(b)) = Len(b)
        <3>1. PICK m \in Int : m = Len(b)
            BY <1>8
        <3>2. m > 0
            BY <1>4, <3>1
        <3>3. IsFiniteSet(1..m) /\ Cardinality(1..m) = IF 1 > m THEN 0 ELSE m - 1 + 1
            BY FS_Interval
        <3>4. QED
            BY <3>1, <3>2, <3>3
    <2>5. QED
        BY <2>3, <2>4, FS_Bijection DEF ExistsBijection
<1>11. ASSUME NEW s \in 1..half PROVE Rank(t, b[2 * s - 1]) > half \/ Rank(t, b[2 * s]) > half
    <2>1. 2 * s - 1 \in 1..Len(b) /\ 2 * s \in 1..Len(b) /\ s \in Nat
        BY <1>4
    <2>2. PICK k \in 1..n : /\ k \in (w * ((2 * s - 1) - 1) + 1)..(w * (2 * s - 1))
                            /\ Rank(t, b[2 * s - 1]) = seeds[k]
        BY <1>9, <2>1
    <2>3. PICK l \in 1..n : /\ l \in (w * (2 * s - 1) + 1)..(w * (2 * s))
                            /\ Rank(t, b[2 * s]) = seeds[l]
        BY <1>9, <2>1
    <2>4. PICK m \in {2, 4, 8, 16, 32} : m = 2 * w
        BY <1>6
    <2>5. n \div m = half
        <3>1. m * half = n
            BY <1>4, <1>6, <2>4
        <3>2. QED
            BY <1>3, <1>4, <2>4, <3>1
    <2>6. /\ k \in (m * (s - 1) + 1)..(m * s) /\ l \in (m * (s - 1) + 1)..(m * s) /\ k # l
        <3>1. PICK x \in Nat : x = w * (s - 1)
            BY <2>1
        <3>2. /\ w * ((2 * s - 1) - 1) = 2 * x /\ w * (2 * s - 1) = 2 * x + w
              /\ w * (2 * s) = 2 * x + 2 * w /\ m * (s - 1) = 2 * x /\ m * s = 2 * x + 2 * w
            BY <2>1, <2>4, <3>1
        <3>3. k \in (2 * x + 1)..(2 * x + w) /\ l \in (2 * x + w + 1)..(2 * x + 2 * w)
            BY <2>2, <2>3, <3>2
        <3>4. k \in (2 * x + 1)..(2 * x + 2 * w) /\ l \in (2 * x + 1)..(2 * x + 2 * w) /\ k # l
            BY <3>3
        <3>5. QED
            BY <3>2, <3>4
    <2>7. seeds[k] > half \/ seeds[l] > half
        BY <1>7, <2>5, <2>6 DEF Spread
    <2>8. QED
        BY <2>2, <2>3, <2>7
<1>12. QED
    BY <1>1, <1>4, <1>10, <1>11

\* Winners advance through the bracket, and no pair of a round is made of two of
\* its best seeds.
THEOREM BracketStaysFair == Spec => []BracketIsFair
<1>1. IInv => SeedsKeptApart
    BY SeedsApart DEF SeedsKeptApart
<1>2. QED
    BY <1>1, CupInvariance, WinnersAdvance, PTL DEF BracketIsFair

-----------------------------------------------------------------------------
(* What a step may do to an end. *)

\* A step that rewrites a tournament not yet ended, and attaches nothing.
LEMMA OthersEndsKept ==
    ASSUME TypeOK, NEW t \in Tournaments, NEW c, Put(t, c), tournaments[t].status \in 0..2,
           roundMatches' = roundMatches
    PROVE  EndsKept
<1>1. \A u \in Tournaments \ {t} : tournaments'[u] = tournaments[u]
    BY DEF Put, TypeOK
<1>2. QED
    BY <1>1 DEF EndsKept

\* A step that leaves the tournaments and what is attached alone.
LEMMA NoEndTouched ==
    ASSUME UNCHANGED <<tournaments, roundMatches>>
    PROVE  EndsKept
BY DEF EndsKept

\* A finished tournament is never cancelled, a cancelled one never won, and no
\* played result is replaced by another match.
THEOREM ResultsAreFinal == Spec => ResultsStand
<1>1. IInv /\ [Next]_vars => [EndsKept]_vars
    <2> SUFFICES ASSUME IInv, Next PROVE EndsKept
        OBVIOUS
    <2>0. TypeOK
        BY DEF IInv
    <2>1. CASE VaultStep
        BY <2>1, NoEndTouched DEF VaultStep, cupVars
    <2>2. CASE EntryStep
        <3>1. ASSUME NEW t \in Tournaments, NEW c \in 1..MaxTime, NEW f \in Formats,
                     Create(t, c, f[1], f[2], f[3])
              PROVE  EndsKept
            <4>1. tournaments[t].status \in 0..2 /\ roundMatches' = roundMatches
                  /\ \E d : Put(t, d)
                BY <3>1 DEF Create
            <4>2. QED
                BY <2>0, <4>1, OthersEndsKept
        <3>2. ASSUME NEW p \in Accounts, NEW t \in Tournaments, NEW d \in Deadlines, SignEntry(p, t, d)
              PROVE  EndsKept
            BY <3>2, NoEndTouched DEF SignEntry
        <3>3. ASSUME NEW o \in entries, Enter(o) PROVE EndsKept
            <4>1. PICK t \in Tournaments : t = o.cup
                BY <2>0 DEF TypeOK, Entry
            <4>2. tournaments[t].status \in 0..2 /\ roundMatches' = roundMatches
                  /\ \E d : Put(t, d)
                BY <3>3, <4>1 DEF Enter
            <4>3. QED
                BY <2>0, <4>2, OthersEndsKept
        <3>4. ASSUME NEW t \in Tournaments, NEW sorted \in SetToSeqs(entered[t]), Start(t, sorted)
              PROVE  EndsKept
            <4>1. tournaments[t].status \in 0..2 /\ roundMatches' = roundMatches
                  /\ \E d : Put(t, d)
                BY <3>4 DEF Start
            <4>2. QED
                BY <2>0, <4>1, OthersEndsKept
        <3>5. QED
            BY <2>2, <3>1, <3>2, <3>3, <3>4 DEF EntryStep
    <2>3. CASE MatchStep
        BY <2>3, NoEndTouched DEF MatchStep, CreateMatch, EndMatch, cupVars
    <2>4. CASE RoundStep
        <3>1. ASSUME NEW t \in Tournaments, NEW slot \in 0..(Len(tournaments[t].bracket) \div 2 - 1),
                     NEW m \in MatchIds, Attach(t, slot, m)
              PROVE  EndsKept
            <4>1. PICK here : here = <<tournaments[t].round, slot>>
                OBVIOUS
            <4>2. /\ roundMatches[t][here] # 0 => games[roundMatches[t][here]].status = 4
                  /\ roundMatches' = [roundMatches EXCEPT ![t][here] = m]
                  /\ tournaments' = tournaments
                BY <3>1, <4>1 DEF Attach
            <4>3. ASSUME NEW u \in Tournaments, NEW s \in Slots,
                         roundMatches[u][s] # 0, games[roundMatches[u][s]].status = 3
                  PROVE  roundMatches'[u][s] = roundMatches[u][s]
                <5>1. u # t \/ s # here
                    BY <4>2, <4>3
                <5>2. QED
                    BY <2>0, <4>2, <5>1 DEF TypeOK
            <4>4. QED
                BY <4>2, <4>3 DEF EndsKept
        <3>2. ASSUME NEW t \in Tournaments, NEW ok \in BOOLEAN, Advance(t, ok) PROVE EndsKept
            <4>1. tournaments[t].status \in 0..2 /\ roundMatches' = roundMatches
                  /\ \E d : Put(t, d)
                BY <3>2 DEF Advance
            <4>2. QED
                BY <2>0, <4>1, OthersEndsKept
        <3>3. QED
            BY <2>4, <3>1, <3>2 DEF RoundStep
    <2>5. CASE PayStep
        <3>1. ASSUME NEW t \in Tournaments, NEW ok \in BOOLEAN, Cancel(t, ok) PROVE EndsKept
            <4>1. tournaments[t].status \in 0..2 /\ roundMatches' = roundMatches
                  /\ \E d : Put(t, d)
                BY <3>1 DEF Cancel, Cancellable
            <4>2. QED
                BY <2>0, <4>1, OthersEndsKept
        <3>2. ASSUME NEW t \in Tournaments, NEW p \in Accounts, NEW ok \in BOOLEAN, Refund(t, p, ok)
              PROVE  EndsKept
            <4>1. tournaments[t] \in Cup
                BY <2>0, CupFields
            <4>2. PICK v \in Nat : v = tournaments[t].prize - tournaments[t].fee
                BY <2>0, <3>2, CupFields DEF Refund
            <4>3. PICK d : d = [tournaments[t] EXCEPT !.prize = v]
                OBVIOUS
            <4>4. d.status = tournaments[t].status
                BY <4>1, <4>3, RepricedCup
            <4>5. tournaments[t].status = 4 /\ Put(t, d) /\ roundMatches' = roundMatches
                BY <3>2, <4>2, <4>3 DEF Refund
            <4>6. /\ tournaments'[t].status = 4
                  /\ \A u \in Tournaments \ {t} : tournaments'[u] = tournaments[u]
                BY <2>0, <4>4, <4>5 DEF Put, TypeOK
            <4>7. QED
                BY <4>5, <4>6 DEF EndsKept
        <3>3. ASSUME NEW id \in PayoutIds, NEW ok \in BOOLEAN, Retry(id, ok) PROVE EndsKept
            BY <3>3, NoEndTouched DEF Retry
        <3>4. QED
            BY <2>5, <3>1, <3>2, <3>3 DEF PayStep
    <2>6. QED
        BY <2>1, <2>2, <2>3, <2>4, <2>5 DEF Next
<1>2. QED
    BY <1>1, CupInvariance, PTL DEF Spec, ResultsStand
=============================================================================
