---------------------------- MODULE TournamentsV4 ---------------------------
(***************************************************************************)
(* contracts/src/v4/TournamentsV4.sol with the Vault it debits, the        *)
(* NativePayouts it inherits and the matches of the game contract it       *)
(* reads.  One action is one transaction, or one signature.                *)
(*                                                                         *)
(* start() ranks the entrants by rating, then address; ratings move with   *)
(* every match, so the ranking is any order of the entrants.  now stands   *)
(* for block.timestamp and block.number: both only ever advance together.  *)
(***************************************************************************)
EXTENDS Vault, NativePayouts, Sequences, SequencesExt

CONSTANTS Tournaments,
          MatchIds,        \* GameV3 match ids, from 1 up
          Treasury,
          Nobody,          \* address(0)
          Formats,         \* capacity, fee and seed prize of a tournament, as triples
          MaxOpen,         \* 30 days
          RoundLimit,      \* 12000 blocks
          Deadlines,       \* deadlines a player may sign
          MaxEntries       \* bound: entries ever signed

ASSUME TournamentAssumption ==
    /\ Formats \subseteq {2, 4, 8, 16, 32} \X Nat \X Nat
    /\ MaxOpen \in Nat /\ RoundLimit \in Nat /\ MaxEntries \in Nat
    /\ MatchIds \subseteq Nat \ {0} /\ Deadlines \subseteq 0..MaxTime
    /\ Treasury \notin Accounts /\ Nobody \notin Accounts
    /\ IsFiniteSet(Tournaments) /\ IsFiniteSet(Accounts)
    /\ PayoutIds = ({1, 2} \X Tournaments \X Accounts) \cup ({3} \X Tournaments \X {Treasury})

VARIABLES tournaments,   \* TournamentsV4.tournaments (the field settled is never written)
          entered,       \* entered, and Tournament.entrants
          refunded,
          roundMatches,  \* the match attached to <<round, slot>>; 0 if none
          usedMatches,
          entryNonces,   \* TournamentsV4.nonces
          entries,       \* entries signed so far; anyone may submit one, twice
          cupFunds,      \* native balance of the contract
          games,         \* GameV3.matches, as getMatch and result show them
          ranking        \* history: the order start() seeded by

entryVars == <<entered, refunded, entryNonces, entries>>
cupVars == <<tournaments, entryVars, roundMatches, usedMatches, cupFunds, ranking>>
vars == <<vaultVars, payoutVars, cupVars, games>>

\* The entrants whose matches lead to one match of a round, itself included.
Width(round) == <<2, 4, 8, 16, 32>>[round + 1]

\* Rounds and places of the largest bracket; the code's key is 32 * round + slot.
Slots == {s \in (0..4) \X (0..15) : \E f \in Formats : Width(s[1]) * (s[2] + 1) <= f[1]}

NoTournament == [status |-> 0, closesAt |-> 0, roundStarted |-> 0, capacity |-> 0, fee |-> 0,
                 prize |-> 0, seedPrize |-> 0, round |-> 0, winner |-> Nobody, bracket |-> <<>>]
NoGame == [status |-> 0, players |-> {}, winner |-> Nobody, cup |-> Nobody, created |-> 0]

CupInit ==
    /\ PayoutInit
    /\ tournaments = [t \in Tournaments |-> NoTournament]
    /\ entered = [t \in Tournaments |-> {}] /\ refunded = [t \in Tournaments |-> {}]
    /\ roundMatches = [t \in Tournaments |-> [s \in Slots |-> 0]]
    /\ usedMatches = {}
    /\ entryNonces = [p \in Accounts |-> 0] /\ entries = {}
    /\ cupFunds = 0
    /\ games = [m \in MatchIds |-> NoGame]
    /\ ranking = [t \in Tournaments |-> <<>>]

Init == VaultInit /\ CupInit

-----------------------------------------------------------------------------
(* Registration. *)

Put(t, cup) == tournaments' = [tournaments EXCEPT ![t] = cup]

Create(t, closesAt, capacity, fee, seed) ==
    /\ tournaments[t].status = 0
    /\ closesAt > now /\ closesAt <= now + MaxOpen
    /\ Put(t, [NoTournament EXCEPT !.status = 1, !.closesAt = closesAt, !.capacity = capacity,
                                   !.fee = fee, !.prize = seed, !.seedPrize = seed])
    /\ cupFunds' = cupFunds + seed
    /\ UNCHANGED <<vaultVars, payoutVars, entryVars, roundMatches, usedMatches, games, ranking>>

\* A player signs an entry with the nonce the contract shows now.
SignEntry(p, t, deadline) ==
    /\ Cardinality(entries) < MaxEntries
    /\ entries' = entries \cup
           {[player |-> p, cup |-> t, nonce |-> entryNonces[p], deadline |-> deadline]}
    /\ UNCHANGED <<vaultVars, payoutVars, tournaments, entered, refunded, entryNonces,
                   roundMatches, usedMatches, cupFunds, games, ranking>>

\* enter: a signed entry, paid from the vault.
Enter(o) ==
    LET t == o.cup  cup == tournaments[t] IN
    /\ cup.status = 1 /\ now < cup.closesAt
    /\ Cardinality(entered[t]) < cup.capacity /\ o.player \notin entered[t]
    /\ o.deadline >= now /\ o.nonce = entryNonces[o.player]
    /\ entryNonces' = [entryNonces EXCEPT ![o.player] = @ + 1]
    /\ entered' = [entered EXCEPT ![t] = @ \cup {o.player}]
    /\ Put(t, [cup EXCEPT !.prize = @ + cup.fee])
    /\ IF cup.fee > 0 THEN Debit(o.player, cup.fee) ELSE UNCHANGED vaultVars
    /\ cupFunds' = cupFunds + cup.fee
    /\ UNCHANGED <<payoutVars, refunded, entries, roundMatches, usedMatches, games, ranking>>

\* One pass of the seeding loop, in place, from the last of the n seeds to the first.
Double(seeds, n) ==
    FoldLeft(LAMBDA s, k : [s EXCEPT ![2 * k - 1] = s[k], ![2 * k] = 2 * n + 1 - s[k]],
             seeds, [i \in 1..n |-> n + 1 - i])

\* The seed of every place of the bracket: 1 4 2 3 for four entrants.
Seeds(capacity) ==
    LET seeds[n \in 2..capacity] ==
            IF n = 2 THEN [i \in 1..capacity |-> IF i <= 2 THEN i ELSE 0]
                     ELSE Double(seeds[n \div 2], n \div 2)
    IN  seeds[capacity]

\* Every seed has one place, and any two seeds of a block of n places include one
\* that is not among the capacity/n best.
Spread(seeds, capacity) ==
    /\ seeds \in [1..capacity -> 1..capacity]
    /\ \A i, j \in 1..capacity : seeds[i] = seeds[j] => i = j
    /\ \A n \in {2, 4, 8, 16, 32} : \A block \in 1..(capacity \div n) :
           \A i, j \in (n * (block - 1) + 1)..(n * block) :
               i # j => seeds[i] > capacity \div n \/ seeds[j] > capacity \div n

\* What the seeding computes, which has no parameter but the capacity: TLC
\* evaluates it for every capacity there is.
ASSUME SeedsAssumption ==
    \A capacity \in {2, 4, 8, 16, 32} : Spread(Seeds(capacity), capacity)

\* start: a full tournament, ranked and seeded.
Start(t, sorted) ==
    LET cup == tournaments[t]  seeds == Seeds(cup.capacity) IN
    /\ cup.status = 1 /\ Cardinality(entered[t]) = cup.capacity
    /\ Put(t, [cup EXCEPT !.bracket = [i \in 1..cup.capacity |-> sorted[seeds[i]]],
                          !.status = 2, !.roundStarted = now])
    /\ ranking' = [ranking EXCEPT ![t] = sorted]
    /\ UNCHANGED <<vaultVars, payoutVars, entryVars, roundMatches, usedMatches, cupFunds, games>>

-----------------------------------------------------------------------------
(* The matches of the game contract. *)

\* createMatch: two free players agree on a match of a tournament, whose id the
\* game does not check.  The model makes only those that could matter, between
\* entrants of a full tournament that has not ended: attach refuses every other.
CreateMatch(m, pair, t) ==
    /\ games[m].status = 0 /\ \A k \in MatchIds : k < m => games[k].status # 0
    /\ pair \subseteq entered[t] /\ Cardinality(entered[t]) = tournaments[t].capacity
    /\ tournaments[t].status \in {1, 2}
    /\ \A k \in MatchIds : games[k].status \in {1, 2} => games[k].players \cap pair = {}
    /\ games' = [games EXCEPT ![m] = [NoGame EXCEPT !.status = 1, !.players = pair,
                                                    !.cup = t, !.created = now]]
    /\ UNCHANGED <<vaultVars, payoutVars, cupVars>>

\* A match is decided (by play or by a concession) or cancelled.
EndMatch(m, status, winner) ==
    /\ games[m].status = 1
    /\ games' = [games EXCEPT ![m].status = status, ![m].winner = winner]
    /\ UNCHANGED <<vaultVars, payoutVars, cupVars>>

-----------------------------------------------------------------------------
(* Rounds. *)

\* Mutant: the key leaves out the round.
WinnersOfFirst(t) ==
    [i \in 1..(Len(tournaments[t].bracket) \div 2) |->
        LET m == roundMatches[t][<<0, i - 1>>] IN
        IF m = 0 \/ games[m].status # 3 THEN Nobody ELSE games[m].winner]

\* The winners of the current round; nobody where it is not decided.
Winners(t) ==
    LET cup == tournaments[t] IN
    [i \in 1..(Len(cup.bracket) \div 2) |->
        LET m == roundMatches[t][<<cup.round, i - 1>>] IN
        IF m = 0 \/ games[m].status # 3 THEN Nobody ELSE games[m].winner]

\* Mutant: a decided match may be replaced too.
AttachOverDecided(t, slot, m) ==
    LET cup == tournaments[t]
        pair == {cup.bracket[2 * slot + 1], cup.bracket[2 * slot + 2]} IN
    /\ cup.status = 2
    /\ m \notin usedMatches /\ games[m].cup = t /\ games[m].created >= cup.roundStarted
    /\ games[m].players = pair
    /\ roundMatches' = [roundMatches EXCEPT ![t][<<cup.round, slot>>] = m]
    /\ usedMatches' = usedMatches \cup {m}
    /\ UNCHANGED <<vaultVars, payoutVars, tournaments, entryVars, cupFunds, games, ranking>>

\* attach: a match of the pair, made in this round, not yet used; only a
\* cancelled one is replaced.
Attach(t, slot, m) ==
    LET cup == tournaments[t]
        previous == roundMatches[t][<<cup.round, slot>>]
        pair == {cup.bracket[2 * slot + 1], cup.bracket[2 * slot + 2]} IN
    /\ cup.status = 2
    /\ previous # 0 => games[previous].status = 4
    /\ m \notin usedMatches /\ games[m].cup = t /\ games[m].created >= cup.roundStarted
    /\ games[m].players = pair
    /\ roundMatches' = [roundMatches EXCEPT ![t][<<cup.round, slot>>] = m]
    /\ usedMatches' = usedMatches \cup {m}
    /\ UNCHANGED <<vaultVars, payoutVars, tournaments, entryVars, cupFunds, games, ranking>>

\* advance: a complete round becomes the next bracket, or the prize is paid.
Advance(t, accepted) ==
    LET cup == tournaments[t]  winners == Winners(t) IN
    /\ cup.status = 2
    /\ \A i \in DOMAIN winners : winners[i] # Nobody
    /\ IF Len(winners) = 1
       THEN /\ Put(t, [cup EXCEPT !.status = 3, !.winner = winners[1], !.prize = 0])
            /\ SchedulePayout(<<1, t, winners[1]>>, cup.prize, accepted)
            /\ accepted => cupFunds >= cup.prize
            /\ cupFunds' = IF accepted THEN cupFunds - cup.prize ELSE cupFunds
       ELSE /\ Put(t, [cup EXCEPT !.bracket = winners, !.round = @ + 1, !.roundStarted = now])
            /\ accepted /\ UNCHANGED <<payoutVars, cupFunds>>
    /\ UNCHANGED <<vaultVars, entryVars, roundMatches, usedMatches, games, ranking>>

-----------------------------------------------------------------------------
(* Cancellation and payments. *)

\* The tournament did not fill in time, or a round took too long.
Cancellable(t) ==
    LET cup == tournaments[t] IN
    \/ cup.status = 1 /\ now >= cup.closesAt /\ Cardinality(entered[t]) < cup.capacity
    \/ cup.status = 2 /\ now > cup.roundStarted + RoundLimit

\* Mutant: the treasury's seed stays in the prize.
CancelKeepsSeed(t, accepted) ==
    LET cup == tournaments[t]  seed == cup.seedPrize IN
    /\ Cancellable(t)
    /\ Put(t, [cup EXCEPT !.status = 4, !.seedPrize = 0])
    /\ SchedulePayout(<<3, t, Treasury>>, seed, accepted)
    /\ cupFunds' = IF accepted THEN cupFunds - seed ELSE cupFunds
    /\ UNCHANGED <<vaultVars, entryVars, roundMatches, usedMatches, games, ranking>>

\* cancel: the seed goes back to the treasury, the fees wait for their refunds.
Cancel(t, accepted) ==
    LET cup == tournaments[t]  seed == cup.seedPrize IN
    /\ Cancellable(t)
    /\ cup.prize >= seed
    /\ Put(t, [cup EXCEPT !.status = 4, !.prize = @ - seed, !.seedPrize = 0])
    /\ SchedulePayout(<<3, t, Treasury>>, seed, accepted)
    /\ accepted => cupFunds >= seed
    /\ cupFunds' = IF accepted THEN cupFunds - seed ELSE cupFunds
    /\ UNCHANGED <<vaultVars, entryVars, roundMatches, usedMatches, games, ranking>>

\* refund: permissionless, once to each entrant of a cancelled tournament.
Refund(t, p, accepted) ==
    LET cup == tournaments[t] IN
    /\ cup.status = 4 /\ p \in entered[t] /\ p \notin refunded[t]
    /\ cup.prize >= cup.fee
    /\ refunded' = [refunded EXCEPT ![t] = @ \cup {p}]
    /\ Put(t, [cup EXCEPT !.prize = @ - cup.fee])
    /\ SchedulePayout(<<2, t, p>>, cup.fee, accepted)
    /\ accepted => cupFunds >= cup.fee
    /\ cupFunds' = IF accepted THEN cupFunds - cup.fee ELSE cupFunds
    /\ UNCHANGED <<vaultVars, entered, entryNonces, entries, roundMatches, usedMatches, games, ranking>>

Retry(id, accepted) ==
    /\ RetryPayout(id, accepted)
    /\ accepted => cupFunds >= payouts[id].amount
    /\ cupFunds' = IF accepted THEN cupFunds - payouts[id].amount ELSE cupFunds
    /\ UNCHANGED <<vaultVars, tournaments, entryVars, roundMatches, usedMatches, games, ranking>>

-----------------------------------------------------------------------------

VaultStep == VaultNext /\ UNCHANGED <<payoutVars, cupVars, games>>

EntryStep ==
    \/ \E t \in Tournaments, c \in 1..MaxTime, f \in Formats : Create(t, c, f[1], f[2], f[3])
    \/ \E p \in Accounts, t \in Tournaments, d \in Deadlines : SignEntry(p, t, d)
    \/ \E o \in entries : Enter(o)
    \/ \E t \in Tournaments : \E sorted \in SetToSeqs(entered[t]) : Start(t, sorted)

MatchStep ==
    \/ \E m \in MatchIds, pair \in kSubset(2, Accounts), t \in Tournaments : CreateMatch(m, pair, t)
    \/ \E m \in MatchIds : \E w \in games[m].players : EndMatch(m, 3, w)
    \/ \E m \in MatchIds : EndMatch(m, 4, Nobody)

RoundStep ==
    \/ \E t \in Tournaments : \E slot \in 0..(Len(tournaments[t].bracket) \div 2 - 1), m \in MatchIds :
           Attach(t, slot, m)
    \/ \E t \in Tournaments, ok \in BOOLEAN : Advance(t, ok)

PayStep ==
    \/ \E t \in Tournaments, ok \in BOOLEAN : Cancel(t, ok)
    \/ \E t \in Tournaments, p \in Accounts, ok \in BOOLEAN : Refund(t, p, ok)
    \/ \E id \in PayoutIds, ok \in BOOLEAN : Retry(id, ok)

Next == VaultStep \/ EntryStep \/ MatchStep \/ RoundStep \/ PayStep

Spec == Init /\ [][Next]_vars

-----------------------------------------------------------------------------
(* Properties. *)

Cup == [status : 0..4, closesAt : 0..MaxTime, roundStarted : 0..MaxTime, capacity : Nat,
        fee : Nat, prize : Nat, seedPrize : Nat, round : Nat,
        winner : Accounts \cup {Nobody}, bracket : Seq(Accounts)]
Game == [status : {0, 1, 3, 4}, players : SUBSET Accounts, winner : Accounts \cup {Nobody}, cup : Tournaments \cup {Nobody}, created : 0..MaxTime]
Entry == [player : Accounts, cup : Tournaments, nonce : Nat, deadline : 0..MaxTime]

\* Type invariant of the tournaments and of what they share.
TypeOK ==
    /\ VaultTypeOK /\ PayoutTypeOK
    /\ tournaments \in [Tournaments -> Cup]
    /\ entered \in [Tournaments -> SUBSET Accounts] /\ refunded \in [Tournaments -> SUBSET Accounts]
    /\ roundMatches \in [Tournaments -> [Slots -> MatchIds \cup {0}]]
    /\ usedMatches \subseteq MatchIds
    /\ entryNonces \in [Accounts -> Nat] /\ entries \subseteq Entry
    /\ cupFunds \in Nat
    /\ games \in [MatchIds -> Game]
    /\ ranking \in [Tournaments -> Seq(Accounts)]

SumOver(S, f(_)) == SumFunction([x \in S |-> f(x)])

\* What tournament t must still hold, by what happened to it: the seed and a fee
\* of every entrant, or the fees not yet refunded, or nothing.
Owed(t) ==
    LET cup == tournaments[t] IN
    CASE cup.status \in {1, 2} -> cup.seedPrize + cup.fee * Cardinality(entered[t])
      [] cup.status = 4 -> cup.fee * Cardinality(entered[t] \ refunded[t])
      [] OTHER -> 0

\* The prize of a tournament is exactly what it owes and the contract holds
\* every prize and every pending debt: whichever of prize, seed and refunds are
\* paid, rejected or retried, and in whatever order, nobody's money pays another.
PrizesCovered ==
    /\ \A t \in Tournaments : tournaments[t].prize = Owed(t)
    /\ cupFunds = SumOver(Tournaments, LAMBDA t : tournaments[t].prize) + totalPendingPayouts
    /\ totalPendingPayouts =
           SumOver({id \in PayoutIds : payouts[id].status = 1}, LAMBDA id : payouts[id].amount)

\* Every attached match of a later round is played, after them, by the winners of
\* the two matches that feed its place, and the winner of the tournament won the
\* last one: no cancelled, replaced, outdated or foreign match, in whatever order
\* they are made, ended and attached, carries anyone a round forward.
BracketIsATree ==
    \A t \in Tournaments :
        LET At(r, i) == roundMatches[t][<<r, i>>] IN
        /\ \A s \in Slots :
               At(s[1], s[2]) # 0 =>
                   LET m == At(s[1], s[2])
                       feeders == {At(s[1] - 1, 2 * s[2] + i) : i \in {0, 1}} IN
                   /\ games[m].players \subseteq entered[t]
                   /\ s[1] > 0 =>
                          /\ \A f \in feeders : /\ f # 0 /\ games[f].status = 3
                                                /\ games[f].created <= games[m].created
                          /\ games[m].players = {games[f].winner : f \in feeders}
        /\ tournaments[t].status = 3 =>
               LET final == At(tournaments[t].round, 0) IN
               final # 0 /\ tournaments[t].winner = games[final].winner

Rank(t, p) == CHOOSE i \in DOMAIN ranking[t] : ranking[t][i] = p

\* No pair of a round with n players is made of two of its n/2 best seeds, so
\* the best two can only meet in the final, whatever upsets happen on the way.
SeedsKeptApart ==
    \A t \in Tournaments :
        LET cup == tournaments[t]  half == Len(cup.bracket) \div 2 IN
        cup.status = 2 =>
            /\ Cardinality(ToSet(cup.bracket)) = Len(cup.bracket)
            /\ \A s \in 1..half : \/ Rank(t, cup.bracket[2 * s - 1]) > half
                                  \/ Rank(t, cup.bracket[2 * s]) > half

\* Winners advance through the bracket, and the seeds meet as late as they can.
BracketIsFair == BracketIsATree /\ SeedsKeptApart

\* What one step may do to a tournament's end: it has one, and a decided match
\* that is attached stays the result of its slot.
EndsKept ==
    \A t \in Tournaments :
        /\ tournaments[t].status = 3 => tournaments'[t] = tournaments[t]
        /\ tournaments[t].status = 4 => tournaments'[t].status = 4
        /\ \A s \in Slots :
               LET m == roundMatches[t][s] IN
               m # 0 /\ games[m].status = 3 => roundMatches'[t][s] = m

\* A finished tournament is never cancelled, a cancelled one never won, and no
\* played result is replaced by another match.
ResultsStand == [][EndsKept]_vars
=============================================================================
