---------------------------- MODULE RoomsProofs ----------------------------
(***************************************************************************)
(* Proofs about the rooms' lobby (RoomsLobby) and about the components it  *)
(* stands on, which share no state with it: the engine's lifecycle         *)
(* (RoomsEngine), the replay cache (ReplayCache), the rooms' sessions      *)
(* (RoomsSessions), the snapshot cache (EngineFeed), a player's tab        *)
(* (RoomsClient) and the page's front desk (RoomsDesk).  Everything is     *)
(* proved for every set of players, rooms, tickets and matches and for     *)
(* every bound.                                                            *)
(***************************************************************************)
EXTENDS RoomsLobby, FiniteSetTheorems, FunctionTheorems, SequenceTheorems, WellFoundedInduction, TLAPS

-----------------------------------------------------------------------------
(* Filters.  What Chosen leaves of a list is read off through the function *)
(* that gives the place of each of its elements.                           *)

\* h tells from which place of the list each chosen element comes.
IsPick(h, s, places) ==
    /\ Chosen(s, places) = [k \in 1..Cardinality(places) |-> s[h[k]]]
    /\ h \in [1..Cardinality(places) -> places]
    /\ \A k, l \in 1..Cardinality(places) : h[k] = h[l] => k = l
    /\ \A i \in places : \E k \in 1..Cardinality(places) : h[k] = i

\* A filter picks every place once: the rank of a place among the places is a
\* bijection.
LEMMA ChosenPicks ==
    ASSUME NEW s, NEW n \in Nat, NEW places \in SUBSET (1..n)
    PROVE  /\ Cardinality(places) \in Nat
           /\ \E h : IsPick(h, s, places)
<1> DEFINE Before(i) == {j \in places : j <= i}
           rank == [i \in places |-> Cardinality(Before(i))]
           size == Cardinality(places)
           h == [k \in 1..size |-> CHOOSE i \in places : Cardinality(Before(i)) = k]
<1>1. IsFiniteSet(places) /\ size \in Nat
    <2>1. IsFiniteSet(1..n)
        BY FS_Interval
    <2> QED BY <2>1, FS_Subset, FS_CardinalityType
<1>2. \A i \in places : IsFiniteSet(Before(i)) /\ Cardinality(Before(i)) \in 1..size
    <2> TAKE i \in places
    <2>1. Before(i) \in SUBSET places
        OBVIOUS
    <2>2. IsFiniteSet(Before(i)) /\ Cardinality(Before(i)) <= size
        BY <1>1, <2>1, FS_Subset
    <2>3. Cardinality(Before(i)) \in Nat
        BY <2>2, FS_CardinalityType
    <2>4. Before(i) # {}
        OBVIOUS
    <2>5. Cardinality(Before(i)) # 0
        <3> HIDE DEF Before
        <3> QED BY <2>2, <2>4, FS_EmptySet
    <2> HIDE DEF Before
    <2> QED BY <2>2, <2>3, <2>5, <1>1
<1>3. \A i, j \in places : i < j => Cardinality(Before(i)) # Cardinality(Before(j))
    <2> SUFFICES ASSUME NEW i \in places, NEW j \in places, i < j
                 PROVE  Cardinality(Before(i)) # Cardinality(Before(j))
        OBVIOUS
    <2>0. i \in Int /\ j \in Int /\ \A x \in places : x \in Int
        OBVIOUS
    <2>1. Before(i) \in SUBSET Before(j) /\ j \in Before(j) /\ j \notin Before(i)
        <3>1. \A x \in places : x <= i => x <= j
            BY <2>0
        <3>2. Before(i) \in SUBSET Before(j)
            BY <3>1
        <3>3. j \in Before(j)
            BY <2>0
        <3>4. j \notin Before(i)
            BY <2>0
        <3> QED BY <3>2, <3>3, <3>4
    <2> HIDE DEF Before
    <2>2. IsFiniteSet(Before(j))
        BY <1>2
    <2> QED BY <2>1, <2>2, FS_Subset
<1>4. \A i, j \in places : Cardinality(Before(i)) = Cardinality(Before(j)) => i = j
    <2> SUFFICES ASSUME NEW i \in places, NEW j \in places, i # j
                 PROVE  Cardinality(Before(i)) # Cardinality(Before(j))
        OBVIOUS
    <2>1. i < j \/ j < i
        OBVIOUS
    <2> HIDE DEF Before
    <2> QED BY <1>3, <2>1
<1>5. rank \in Injection(places, 1..size)
    <2> HIDE DEF Before
    <2> QED BY <1>2, <1>4 DEF Injection, IsInjective
<1>6. rank \in Surjection(places, 1..size)
    <2>1. IsFiniteSet(1..size) /\ Cardinality(1..size) = size
        BY <1>1, FS_Interval
    <2> HIDE DEF rank
    <2> QED BY <1>5, <2>1, FS_Injection
<1>7. \A k \in 1..size : \E i \in places : Cardinality(Before(i)) = k
    <2> HIDE DEF Before
    <2> QED BY <1>6 DEF Surjection
<1>8. \A k \in 1..size : h[k] \in places /\ Cardinality(Before(h[k])) = k
    <2> HIDE DEF Before
    <2> QED BY <1>7
<1>9. IsPick(h, s, places)
    <2>0. Chosen(s, places) = [k \in 1..size |-> s[h[k]]]
        BY DEF Chosen
    <2>1. h \in [1..size -> places]
        BY <1>8
    <2>2. \A i \in places : \E k \in 1..size : h[k] = i
        <3> TAKE i \in places
        <3>1. Cardinality(Before(i)) \in 1..size
            BY <1>2
        <3> WITNESS Cardinality(Before(i)) \in 1..size
        <3> HIDE DEF Before, h
        <3> QED BY <1>4, <1>8, <3>1
    <2> HIDE DEF Before, h
    <2> QED BY <1>8, <2>0, <2>1, <2>2 DEF IsPick
<1> QED BY <1>1, <1>9

-----------------------------------------------------------------------------
(* Lists of members. *)

Persons == Players \cup {Nobody}
Seat == [player : Persons, away : BOOLEAN]

\* Nobody is twice in the list; who is in it.
Once(members) == \A i, j \in DOMAIN members : members[i].player = members[j].player => i = j
Sitters(members) == {members[i].player : i \in DOMAIN members}
Lists == {members \in Seq(Seat) : Once(members)}

\* What is chosen of a list is a list, of the players at the chosen places.
LEMMA ChosenFacts ==
    ASSUME NEW members \in Lists, NEW places \in SUBSET DOMAIN members
    PROVE  /\ Chosen(members, places) \in Lists
           /\ Sitters(Chosen(members, places)) = {members[i].player : i \in places}
<1> DEFINE left == Chosen(members, places)
           size == Cardinality(places)
<1>1. members \in Seq(Seat) /\ Once(members) /\ DOMAIN members = 1..Len(members) /\ Len(members) \in Nat
    BY DEF Lists
<1>2. PICK h : IsPick(h, members, places)
    BY <1>1, ChosenPicks
<1>3. size \in Nat
    BY <1>1, ChosenPicks
<1>4. left = [k \in 1..size |-> members[h[k]]] /\ \A k \in 1..size : h[k] \in places
    BY <1>2 DEF IsPick
<1>5. left \in Seq(Seat)
    <2>1. \A k \in 1..size : members[h[k]] \in Seat
        BY <1>1, <1>4
    <2> HIDE DEF left, size
    <2> QED BY <1>3, <1>4, <2>1, IsASeq
<1>6. Once(left)
    <2> SUFFICES ASSUME NEW k \in 1..size, NEW l \in 1..size, left[k].player = left[l].player
                 PROVE  k = l
        BY <1>4 DEF Once
    <2>1. h[k] = h[l]
        BY <1>1, <1>4 DEF Once
    <2> QED BY <1>2, <2>1 DEF IsPick
<1>7. Sitters(left) = {members[i].player : i \in places}
    <2>1. \A p \in Sitters(left) : p \in {members[i].player : i \in places}
        BY <1>4 DEF Sitters
    <2>2. ASSUME NEW i \in places PROVE members[i].player \in Sitters(left)
        <3>1. PICK k \in 1..size : h[k] = i
            BY <1>2 DEF IsPick
        <3> QED BY <1>4, <3>1 DEF Sitters
    <2> QED BY <2>1, <2>2
<1> QED BY <1>5, <1>6, <1>7 DEF Lists

\* Leaving players out leaves the others once.
LEMMA WithoutFacts ==
    ASSUME NEW members \in Lists, NEW who
    PROVE  /\ Without(members, who) \in Lists
           /\ Sitters(Without(members, who)) = Sitters(members) \ who
<1> DEFINE places == {i \in DOMAIN members : members[i].player \notin who}
<1>1. Chosen(members, places) \in Lists /\ Sitters(Chosen(members, places)) = {members[i].player : i \in places}
    BY ChosenFacts
<1>2. {members[i].player : i \in places} = Sitters(members) \ who
    BY DEF Sitters
<1> QED BY <1>1, <1>2 DEF Without

\* The members that are one player.
LEMMA OfFacts ==
    ASSUME NEW members \in Lists, NEW p
    PROVE  /\ Of(members, p) \in Lists
           /\ Sitters(Of(members, p)) = Sitters(members) \cap {p}
<1> DEFINE places == {i \in DOMAIN members : members[i].player = p}
<1>1. Chosen(members, places) \in Lists /\ Sitters(Chosen(members, places)) = {members[i].player : i \in places}
    BY ChosenFacts
<1>2. {members[i].player : i \in places} = Sitters(members) \cap {p}
    BY DEF Sitters
<1> QED BY <1>1, <1>2 DEF Of

\* Marking players away moves nobody.
LEMMA AwayFacts ==
    ASSUME NEW members \in Lists, NEW who
    PROVE  SetAway(members, who) \in Lists /\ Sitters(SetAway(members, who)) = Sitters(members)
<1> DEFINE out == SetAway(members, who)
<1>1. members \in Seq(Seat) /\ Once(members) /\ DOMAIN members = 1..Len(members) /\ Len(members) \in Nat
    BY DEF Lists
<1>2. \A i \in DOMAIN members : members[i] \in Seat
    BY <1>1
<1>3. \A i \in DOMAIN members : out[i] \in Seat /\ out[i].player = members[i].player
    BY <1>2 DEF SetAway, Seat
<1>4. DOMAIN out = DOMAIN members
    BY DEF SetAway
<1>5. out \in Seq(Seat)
    <2>1. out = [i \in 1..Len(members) |-> out[i]]
        BY <1>1 DEF SetAway
    <2> HIDE DEF out
    <2> QED BY <1>1, <1>3, <2>1, IsASeq
<1> HIDE DEF out
<1>6. Once(out) /\ Sitters(out) = Sitters(members)
    BY <1>1, <1>3, <1>4 DEF Once, Sitters
<1> QED BY <1>5, <1>6 DEF Lists, out

\* Two lists without a player in common, one behind the other.
LEMMA ConcatFacts ==
    ASSUME NEW one \in Lists, NEW two \in Lists, Sitters(one) \cap Sitters(two) = {}
    PROVE  one \o two \in Lists /\ Sitters(one \o two) = Sitters(one) \cup Sitters(two)
<1> DEFINE both == one \o two
<1>1. /\ one \in Seq(Seat) /\ Once(one) /\ DOMAIN one = 1..Len(one) /\ Len(one) \in Nat
      /\ two \in Seq(Seat) /\ Once(two) /\ DOMAIN two = 1..Len(two) /\ Len(two) \in Nat
    BY DEF Lists
<1>2. /\ both \in Seq(Seat) /\ Len(both) = Len(one) + Len(two)
      /\ \A i \in 1..Len(one) + Len(two) :
            both[i] = IF i <= Len(one) THEN one[i] ELSE two[i - Len(one)]
    BY <1>1, ConcatProperties
<1>3. DOMAIN both = 1..Len(one) + Len(two)
    BY <1>2
<1> HIDE DEF both
<1>10. \A i \in 1..Len(one) : i \in 1..Len(one) + Len(two) /\ both[i] = one[i]
    BY <1>1, <1>2
<1>11. \A i \in 1..Len(one) + Len(two) : i > Len(one) => i - Len(one) \in 1..Len(two) /\ both[i] = two[i - Len(one)]
    BY <1>1, <1>2
<1>4. Once(both)
    <2> SUFFICES ASSUME NEW i \in 1..Len(one) + Len(two), NEW j \in 1..Len(one) + Len(two),
                        both[i].player = both[j].player
                 PROVE  i = j
        BY <1>3 DEF Once
    <2>1. CASE i <= Len(one) /\ j <= Len(one)
        BY <1>1, <1>10, <2>1 DEF Once
    <2>2. CASE i > Len(one) /\ j > Len(one)
        <3> DEFINE k == i - Len(one)
                   l == j - Len(one)
        <3>1. k \in DOMAIN two /\ l \in DOMAIN two /\ two[k].player = two[l].player
            BY <1>1, <1>11, <2>2
        <3>2. k = l
            <4> HIDE DEF k, l
            <4> QED BY <1>1, <3>1 DEF Once
        <3> QED BY <1>1, <3>2
    <2>3. CASE i <= Len(one) /\ j > Len(one)
        <3> DEFINE l == j - Len(one)
        <3>1. i \in DOMAIN one /\ both[i] = one[i] /\ l \in DOMAIN two /\ both[j] = two[l]
            BY <1>1, <1>10, <1>11, <2>3
        <3> HIDE DEF l
        <3> QED BY <3>1 DEF Sitters
    <2>4. CASE i > Len(one) /\ j <= Len(one)
        <3> DEFINE k == i - Len(one)
        <3>1. j \in DOMAIN one /\ both[j] = one[j] /\ k \in DOMAIN two /\ both[i] = two[k]
            BY <1>1, <1>10, <1>11, <2>4
        <3> HIDE DEF k
        <3> QED BY <3>1 DEF Sitters
    <2> QED BY <1>1, <2>1, <2>2, <2>3, <2>4
<1>5. Sitters(both) = Sitters(one) \cup Sitters(two)
    <2>1. ASSUME NEW p \in Sitters(both) PROVE p \in Sitters(one) \cup Sitters(two)
        <3>1. PICK i \in 1..Len(one) + Len(two) : both[i].player = p
            BY <1>3 DEF Sitters
        <3>2. CASE i <= Len(one)
            BY <1>1, <1>10, <3>1, <3>2 DEF Sitters
        <3>3. CASE i > Len(one)
            BY <1>1, <1>11, <3>1, <3>3 DEF Sitters
        <3> QED BY <1>1, <3>2, <3>3
    <2>2. ASSUME NEW p \in Sitters(one) PROVE p \in Sitters(both)
        <3>1. PICK i \in 1..Len(one) : one[i].player = p
            BY <1>1 DEF Sitters
        <3>2. i \in 1..Len(one) + Len(two) /\ both[i] = one[i]
            BY <1>1, <1>2
        <3> QED BY <1>3, <3>1, <3>2 DEF Sitters
    <2>3. ASSUME NEW p \in Sitters(two) PROVE p \in Sitters(both)
        <3>1. PICK i \in 1..Len(two) : two[i].player = p
            BY <1>1 DEF Sitters
        <3>2. Len(one) + i \in 1..Len(one) + Len(two) /\ both[Len(one) + i] = two[i]
            BY <1>1, <1>2
        <3> QED BY <1>3, <3>1, <3>2 DEF Sitters
    <2> QED BY <2>1, <2>2, <2>3
<1> QED BY <1>2, <1>4, <1>5 DEF Lists, both

\* A list of no members and a list of one.
LEMMA SmallLists ==
    /\ <<>> \in Lists /\ Sitters(<<>>) = {}
    /\ \A p \in Persons : <<Member(p)>> \in Lists /\ Sitters(<<Member(p)>>) = {p}
<1>1. <<>> \in Lists /\ Sitters(<<>>) = {}
    BY DEF Lists, Once, Sitters
<1>2. ASSUME NEW p \in Persons PROVE <<Member(p)>> \in Lists /\ Sitters(<<Member(p)>>) = {p}
    <2>1. Member(p) \in Seat /\ Member(p).player = p
        BY DEF Member, Seat
    <2>2. <<Member(p)>> \in Seq(Seat) /\ DOMAIN <<Member(p)>> = {1} /\ <<Member(p)>>[1] = Member(p)
        BY <2>1
    <2> QED BY <2>1, <2>2 DEF Lists, Once, Sitters
<1> QED BY <1>1, <1>2

\* One more player, at the end or in front.
LEMMA AppendFacts ==
    ASSUME NEW members \in Lists, NEW p \in Persons, p \notin Sitters(members)
    PROVE  /\ Append(members, Member(p)) \in Lists /\ <<Member(p)>> \o members \in Lists
           /\ Sitters(Append(members, Member(p))) = Sitters(members) \cup {p}
           /\ Sitters(<<Member(p)>> \o members) = Sitters(members) \cup {p}
<1>1. Member(p) \in Seat
    BY DEF Member, Seat
<1>3. <<Member(p)>> \in Lists /\ Sitters(<<Member(p)>>) = {p}
    BY SmallLists
<1>4. members \in Seq(Seat)
    BY DEF Lists
<1>5. Append(members, Member(p)) = members \o <<Member(p)>>
    BY <1>1, <1>4, AppendIsConcat
<1> QED BY <1>3, <1>5, ConcatFacts

\* The loser goes behind everyone, and nobody else moves.
LEMMA RotateFacts ==
    ASSUME NEW members \in Lists, NEW t, NEW winner
    PROVE  /\ RotateMembers(members, t, winner) \in Lists
           /\ Sitters(RotateMembers(members, t, winner)) = Sitters(members)
<1> DEFINE loser == IF winner = offers[t].a THEN offers[t].b ELSE offers[t].a
           rest == Without(members, {loser})
           last == Of(members, loser)
<1>1. rest \in Lists /\ Sitters(rest) = Sitters(members) \ {loser}
    BY WithoutFacts
<1>2. last \in Lists /\ Sitters(last) = Sitters(members) \cap {loser}
    BY OfFacts
<1>3. RotateMembers(members, t, winner) = rest \o last
    BY DEF RotateMembers
<1> HIDE DEF rest, last, loser
<1>4. Sitters(rest) \cap Sitters(last) = {}
    BY <1>1, <1>2
<1>5. rest \o last \in Lists /\ Sitters(rest \o last) = Sitters(rest) \cup Sitters(last)
    BY <1>1, <1>2, <1>4, ConcatFacts
<1> QED BY <1>1, <1>2, <1>3, <1>5

\* A function onto a set makes it finite.
LEMMA FiniteImage ==
    ASSUME NEW S, IsFiniteSet(S), NEW T, NEW f, f \in [S -> T], \A y \in T : \E x \in S : f[x] = y
    PROVE  IsFiniteSet(T)
<1>1. f \in Surjection(S, T)
    BY DEF Surjection
<1> QED BY <1>1, FS_Surjection

\* Players seated again: everybody who sat there and everybody restored, once.
LEMMA RestoredFacts ==
    ASSUME NEW members \in Lists, NEW who \in SUBSET Persons, IsFiniteSet(who),
           NEW line \in Restored(members, who)
    PROVE  line \in Lists /\ Sitters(line) = Sitters(members) \cup who
<1> DEFINE back == [i \in DOMAIN members |-> [members[i] EXCEPT !.away = @ /\ members[i].player \notin who]]
           lost == who \ {m.player : m \in ToSet(members)}
           pool == ToSet(back) \cup {Member(p) : p \in lost}
           size == Cardinality(pool)
<1>1. members \in Seq(Seat) /\ Once(members) /\ DOMAIN members = 1..Len(members) /\ Len(members) \in Nat
    BY DEF Lists
<1>2. \A i \in DOMAIN members : members[i] \in Seat
    BY <1>1
<1>3. \A i \in DOMAIN members : back[i] \in Seat /\ back[i].player = members[i].player
    BY <1>2 DEF Seat
<1>4. lost = who \ Sitters(members)
    BY DEF ToSet, Sitters
<1>5. DOMAIN back = 1..Len(members)
    BY <1>1
<1>6. line \in [1..size -> pool] /\ \A i, j \in 1..size : i # j => line[i] # line[j]
    BY DEF Restored, SetToSeqs
<1>7. ToSet(back) = {back[i] : i \in 1..Len(members)}
    BY <1>5 DEF ToSet
<1>8. IsFiniteSet(pool) /\ size \in Nat
    <2>1. IsFiniteSet(1..Len(members))
        BY <1>1, FS_Interval
    <2>2. IsFiniteSet(ToSet(back))
        <3>1. back \in [1..Len(members) -> ToSet(back)]
            BY <1>1, <1>5, <1>7
        <3>2. \A y \in ToSet(back) : \E i \in 1..Len(members) : back[i] = y
            BY <1>7
        <3> HIDE DEF back
        <3> QED BY <2>1, <3>1, <3>2, FiniteImage
    <2>3. IsFiniteSet(lost)
        BY FS_Subset
    <2>4. IsFiniteSet({Member(p) : p \in lost})
        <3> DEFINE f == [p \in lost |-> Member(p)]
                   image == {Member(p) : p \in lost}
        <3>1. f \in [lost -> image] /\ \A y \in image : \E p \in lost : f[p] = y
            OBVIOUS
        <3> HIDE DEF f, image, lost
        <3>2. IsFiniteSet(image)
            BY <2>3, <3>1, FiniteImage
        <3> QED BY <3>2 DEF image
    <2> HIDE DEF back, lost
    <2> QED BY <2>2, <2>4, FS_Union, FS_CardinalityType
<1>9. \A m \in pool : m \in Seat /\ m.player \in Sitters(members) \cup who
    <2>1. \A p \in lost : Member(p) \in Seat /\ Member(p).player = p /\ p \in who
        BY DEF Member, Seat
    <2>2. \A i \in 1..Len(members) : back[i] \in Seat /\ back[i].player \in Sitters(members)
        BY <1>1, <1>3 DEF Sitters
    <2> HIDE DEF back, lost
    <2> QED BY <1>7, <2>1, <2>2
<1>10. \A m, n \in pool : m.player = n.player => m = n
    <2>1. \A p \in lost : Member(p).player = p /\ p \notin Sitters(members)
        BY <1>4 DEF Member
    <2>2. \A i \in 1..Len(members) : back[i].player \in Sitters(members)
        BY <1>1, <1>3 DEF Sitters
    <2>3. \A i, j \in 1..Len(members) : back[i].player = back[j].player => back[i] = back[j]
        BY <1>1, <1>3 DEF Once
    <2> HIDE DEF back, lost
    <2> QED BY <1>7, <2>1, <2>2, <2>3
<1>11. \A p \in Sitters(members) \cup who : \E m \in pool : m.player = p
    <2> TAKE p \in Sitters(members) \cup who
    <2>1. CASE p \in Sitters(members)
        <3>1. PICK i \in 1..Len(members) : members[i].player = p
            BY <1>1, <2>1 DEF Sitters
        <3>2. back[i] \in pool /\ back[i].player = p
            BY <1>1, <1>3, <1>7, <3>1
        <3> QED BY <3>2
    <2>2. CASE p \notin Sitters(members)
        <3>1. p \in lost
            BY <1>4, <2>2
        <3>2. Member(p) \in pool /\ Member(p).player = p
            BY <3>1 DEF Member
        <3> QED BY <3>2
    <2> QED BY <2>1, <2>2
<1> HIDE DEF pool
<1>12. line \in Seq(Seat) /\ Len(line) = size /\ DOMAIN line = 1..size
    <2>1. line = [i \in 1..size |-> line[i]] /\ \A i \in 1..size : line[i] \in Seat
        BY <1>6, <1>9
    <2> HIDE DEF size
    <2> QED BY <1>8, <2>1, IsASeq
<1>13. Once(line)
    BY <1>6, <1>10, <1>12 DEF Once
<1>14. \A m \in pool : \E i \in 1..size : line[i] = m
    <2>1. line \in Injection(1..size, pool)
        BY <1>6 DEF Injection, IsInjective
    <2>2. IsFiniteSet(1..size) /\ Cardinality(1..size) = size
        BY <1>8, FS_Interval
    <2>3. line \in Surjection(1..size, pool)
        BY <1>8, <2>1, <2>2, FS_Injection
    <2> QED BY <2>3 DEF Surjection
<1>15. Sitters(line) = Sitters(members) \cup who
    <2>1. \A p \in Sitters(line) : p \in Sitters(members) \cup who
        BY <1>6, <1>9, <1>12 DEF Sitters
    <2>2. ASSUME NEW p \in Sitters(members) \cup who PROVE p \in Sitters(line)
        <3>1. PICK m \in pool : m.player = p
            BY <1>11
        <3>2. PICK i \in 1..size : line[i] = m
            BY <1>14
        <3> QED BY <1>12, <3>1, <3>2 DEF Sitters
    <2> QED BY <2>1, <2>2
<1> QED BY <1>12, <1>13, <1>15 DEF Lists

\* The next pair, when there is one, are two members.
LEMMA NextPairFacts ==
    ASSUME NEW members \in Lists, NEW winner, NEW eligible,
           NextPair(members, winner, eligible) # <<>>
    PROVE  LET pair == NextPair(members, winner, eligible)
           IN  pair[1] \in Sitters(members) /\ pair[2] \in Sitters(members) /\ pair[1] # pair[2]
<1> DEFINE places == {i \in DOMAIN members : ~members[i].away /\ members[i].player \in eligible}
           line == Chosen(members, places)
           kept == Of(line, winner) \o Without(line, {winner})
<1>1. line \in Lists /\ Sitters(line) = {members[i].player : i \in places}
    BY ChosenFacts
<1>2. kept \in Lists /\ Sitters(kept) \subseteq Sitters(members)
    <2>1. /\ Of(line, winner) \in Lists /\ Sitters(Of(line, winner)) = Sitters(line) \cap {winner}
          /\ Without(line, {winner}) \in Lists /\ Sitters(Without(line, {winner})) = Sitters(line) \ {winner}
        BY <1>1, OfFacts, WithoutFacts
    <2>2. Sitters(line) \subseteq Sitters(members)
        BY <1>1 DEF Sitters
    <2> HIDE DEF line
    <2>3. Sitters(Of(line, winner)) \cap Sitters(Without(line, {winner})) = {}
        BY <2>1
    <2>4. kept \in Lists /\ Sitters(kept) = Sitters(Of(line, winner)) \cup Sitters(Without(line, {winner}))
        BY <2>1, <2>3, ConcatFacts
    <2> QED BY <2>1, <2>2, <2>4
<1>3. NextPair(members, winner, eligible) = IF Len(kept) < 2 THEN <<>> ELSE <<kept[1].player, kept[2].player>>
    BY DEF NextPair
<1> HIDE DEF kept
<1>4. kept \in Seq(Seat) /\ DOMAIN kept = 1..Len(kept) /\ Len(kept) \in Nat /\ Once(kept)
    BY <1>2 DEF Lists
<1>5. Len(kept) >= 2
    BY <1>3, <1>4
<1>6. NextPair(members, winner, eligible) = <<kept[1].player, kept[2].player>>
    BY <1>3, <1>4, <1>5
<1>7. 1 \in DOMAIN kept /\ 2 \in DOMAIN kept
    BY <1>4, <1>5
<1>8. kept[1].player \in Sitters(kept) /\ kept[2].player \in Sitters(kept) /\ kept[1].player # kept[2].player
    BY <1>4, <1>7 DEF Sitters, Once
<1> QED BY <1>2, <1>6, <1>8

-----------------------------------------------------------------------------
(* The queue. *)

Lines == {q \in Seq(Players) : \A i, j \in DOMAIN q : q[i] = q[j] => i = j}

\* Who leaves the queue leaves the others in it once.
LEMMA UnlessFacts ==
    ASSUME NEW line \in Lines, NEW who
    PROVE  Unless(line, who) \in Lines /\ ToSet(Unless(line, who)) = ToSet(line) \ who
<1> DEFINE places == {i \in DOMAIN line : line[i] \notin who}
           left == Unless(line, who)
           size == Cardinality(places)
<1>1. /\ line \in Seq(Players) /\ DOMAIN line = 1..Len(line) /\ Len(line) \in Nat
      /\ \A i, j \in DOMAIN line : line[i] = line[j] => i = j
    BY DEF Lines
<1>2. places \in SUBSET (1..Len(line))
    BY <1>1
<1>3. PICK h : IsPick(h, line, places)
    <2> HIDE DEF places
    <2> QED BY <1>1, <1>2, ChosenPicks
<1>4. size \in Nat
    <2> HIDE DEF places
    <2> QED BY <1>1, <1>2, ChosenPicks
<1>5. left = [k \in 1..size |-> line[h[k]]]
    BY <1>3 DEF Unless, IsPick
<1>6. \A k \in 1..size : h[k] \in DOMAIN line /\ line[h[k]] \notin who
    BY <1>3 DEF IsPick
<1>7. left \in Seq(Players)
    <2>1. \A k \in 1..size : line[h[k]] \in Players
        BY <1>1, <1>6
    <2> HIDE DEF left, places
    <2> QED BY <1>4, <1>5, <2>1, IsASeq
<1>8. \A k, l \in DOMAIN left : left[k] = left[l] => k = l
    <2> SUFFICES ASSUME NEW k \in 1..size, NEW l \in 1..size, left[k] = left[l]
                 PROVE  k = l
        BY <1>5
    <2>1. h[k] = h[l]
        BY <1>1, <1>5, <1>6
    <2> QED BY <1>3, <2>1 DEF IsPick
<1>9. ToSet(left) = ToSet(line) \ who
    <2>1. \A p \in ToSet(left) : p \in ToSet(line) \ who
        BY <1>5, <1>6 DEF ToSet
    <2>2. ASSUME NEW p \in ToSet(line) \ who PROVE p \in ToSet(left)
        <3>1. PICK i \in DOMAIN line : line[i] = p
            BY DEF ToSet
        <3>2. i \in places
            BY <3>1
        <3>3. PICK k \in 1..size : h[k] = i
            BY <1>3, <3>2 DEF IsPick
        <3> QED BY <1>5, <3>1, <3>3 DEF ToSet
    <2> QED BY <2>1, <2>2
<1> QED BY <1>7, <1>8, <1>9 DEF Lines

\* A player who was not in the queue goes to its end.
LEMMA QueueFacts ==
    ASSUME NEW line \in Lines, NEW p \in Players, p \notin ToSet(line)
    PROVE  Append(line, p) \in Lines /\ ToSet(Append(line, p)) = ToSet(line) \cup {p}
<1>1. /\ line \in Seq(Players) /\ DOMAIN line = 1..Len(line) /\ Len(line) \in Nat
      /\ \A i, j \in DOMAIN line : line[i] = line[j] => i = j
    BY DEF Lines
<1> DEFINE longer == Append(line, p)
<1>2. /\ longer \in Seq(Players) /\ DOMAIN longer = 1..Len(line) + 1
      /\ \A i \in 1..Len(line) : longer[i] = line[i]
      /\ longer[Len(line) + 1] = p
    BY <1>1
<1> HIDE DEF longer
<1>3. \A i \in 1..Len(line) : longer[i] # p /\ i \in 1..Len(line) + 1 /\ i # Len(line) + 1
    BY <1>1, <1>2 DEF ToSet
<1>4. \A i \in 1..Len(line) + 1 : i \in 1..Len(line) \/ i = Len(line) + 1
    BY <1>1
<1>5. \A i, j \in DOMAIN longer : longer[i] = longer[j] => i = j
    BY <1>1, <1>2, <1>3, <1>4
<1>6. ToSet(longer) = ToSet(line) \cup {p}
    BY <1>1, <1>2, <1>3, <1>4 DEF ToSet
<1> QED BY <1>2, <1>5, <1>6 DEF Lines, longer

-----------------------------------------------------------------------------
(* One seat. *)

Room == [status : {"none", "open", "closed"}, kind : {"group", "duel", "ranked"},
         members : Lists, winner : Persons, offer : Tickets \cup {NoTicket}]
Offer == [room : RoomIds \cup {0}, a : Persons, b : Persons,
          status : {"none", "offered", "submitted", "active", "complete", "cancelled"},
          accepted : SUBSET Persons]
Match == [phase : 0..4, acc : SUBSET Persons, winner : Persons]
Result == [state : {"none", "pending", "recorded"}, phase : 0..4, winner : Persons]
Audit == [ticket : Tickets \cup {NoTicket}, phase : 0..4]
Invitation == [room : RoomIds, from : Players, to : Players]

\* The types the argument needs.
Types ==
    /\ rooms \in [RoomIds -> Room]
    /\ queue \in Lines
    /\ invites \subseteq Invitation
    /\ offers \in [Tickets -> Offer]
    /\ age \in [Tickets -> 0..4]
    /\ results \in [Tickets -> Result]
    /\ audit \in Audit /\ (audit # NoAudit => audit.ticket \in Tickets)
    /\ engine \in [Tickets -> Match]
    /\ rollbacks \in Nat

\* Only an open room has members, and one that is invited to is open.
MembersWhereOpen ==
    /\ \A r \in RoomIds : rooms[r].status # "open" => rooms[r].members = <<>>
    /\ \A i \in invites : rooms[i.room].status = "open"

\* Rooms, and the queue, have no player in common.
Apart ==
    /\ \A r, s \in RoomIds : r # s => Sitters(rooms[r].members) \cap Sitters(rooms[s].members) = {}
    /\ \A r \in RoomIds : Sitters(rooms[r].members) \cap ToSet(queue) = {}

SeatInv == Types /\ MembersWhereOpen /\ Apart

\* Who sits in a room.
LEMMA SeatsAreSitters ==
    \A r : Seats(r) = Sitters(rooms[r].members)
BY DEF Seats, Sitters, ToSet

\* An available player is in no room and not in the queue.
LEMMA AvailableFacts ==
    ASSUME SeatInv, NEW p, Available(p)
    PROVE  p \notin ToSet(queue) /\ \A r \in RoomIds : p \notin Sitters(rooms[r].members)
<1>1. p \notin ToSet(queue) /\ \A r \in RoomIds : rooms[r].status = "open" => p \notin Sitters(rooms[r].members)
    BY SeatsAreSitters DEF Available, Occupied, OpenRooms
<1>2. \A r \in RoomIds : rooms[r].status # "open" => Sitters(rooms[r].members) = {}
    BY SmallLists DEF SeatInv, MembersWhereOpen
<1> QED BY <1>1, <1>2

\* The occupied room is open and the player sits in it.
LEMMA OccupantFacts ==
    ASSUME NEW p, Occupied(p) # {}
    PROVE  Occupant(p) \in RoomIds /\ rooms[Occupant(p)].status = "open" /\ p \in Sitters(rooms[Occupant(p)].members)
<1>1. Occupant(p) \in Occupied(p)
    BY DEF Occupant
<1> QED BY <1>1, SeatsAreSitters DEF Occupied, OpenRooms

\* The list of one open room changes and only available players are new to it.
LEMMA OneListChanges ==
    ASSUME SeatInv, NEW r \in RoomIds, rooms[r].status = "open", NEW list \in Lists,
           NEW new, \A p \in new : Available(p),
           Sitters(list) \subseteq Sitters(rooms[r].members) \cup new,
           rooms' = [rooms EXCEPT ![r].members = list], queue' = queue, invites' \subseteq invites
    PROVE  /\ rooms' \in [RoomIds -> Room] /\ queue' \in Lines /\ invites' \subseteq Invitation
           /\ MembersWhereOpen' /\ Apart'
<1>1. rooms \in [RoomIds -> Room] /\ queue \in Lines /\ invites \subseteq Invitation
    BY DEF SeatInv, Types
<1>2. rooms'[r] = [rooms[r] EXCEPT !.members = list] /\ \A s \in RoomIds : s # r => rooms'[s] = rooms[s]
    BY <1>1
<1>3. rooms'[r] \in Room /\ rooms'[r].members = list /\ rooms'[r].status = "open"
    BY <1>1, <1>2 DEF Room
<1>4. rooms' \in [RoomIds -> Room]
    BY <1>1, <1>2, <1>3
<1>5. MembersWhereOpen'
    <2>1. \A s \in RoomIds : rooms'[s].status # "open" => rooms'[s].members = <<>>
        BY <1>2, <1>3 DEF SeatInv, MembersWhereOpen
    <2>2. ASSUME NEW i \in invites' PROVE rooms'[i.room].status = "open"
        <3>1. i \in invites /\ i.room \in RoomIds
            BY <1>1 DEF Invitation
        <3> QED BY <1>2, <1>3, <3>1 DEF SeatInv, MembersWhereOpen
    <2> QED BY <2>1, <2>2 DEF MembersWhereOpen
<1>6. \A p \in new : p \notin ToSet(queue) /\ \A s \in RoomIds : p \notin Sitters(rooms[s].members)
    BY AvailableFacts
<1>7. Apart'
    <2>1. \A s \in RoomIds : s # r => Sitters(rooms'[s].members) \cap Sitters(list) = {}
        BY <1>2, <1>6 DEF SeatInv, Apart
    <2>2. Sitters(list) \cap ToSet(queue) = {}
        BY <1>6 DEF SeatInv, Apart
    <2> QED BY <1>2, <1>3, <2>1, <2>2 DEF SeatInv, Apart
<1> QED BY <1>1, <1>4, <1>5, <1>7

\* The same when nobody is new to it.
LEMMA NobodyNew ==
    ASSUME SeatInv, NEW r \in RoomIds, rooms[r].status = "open", NEW list \in Lists,
           Sitters(list) \subseteq Sitters(rooms[r].members),
           rooms' = [rooms EXCEPT ![r].members = list], queue' = queue, invites' \subseteq invites
    PROVE  /\ rooms' \in [RoomIds -> Room] /\ queue' \in Lines /\ invites' \subseteq Invitation
           /\ MembersWhereOpen' /\ Apart'
<1> DEFINE new == {}
<1>1. (\A p \in new : Available(p)) /\ Sitters(list) \subseteq Sitters(rooms[r].members) \cup new
    OBVIOUS
<1> HIDE DEF new
<1> QED BY <1>1, OneListChanges

\* What a new room is.
LEMMA NewRoomIs ==
    \A p, kind : NewRoom(p, kind) = [status |-> "open", kind |-> kind, members |-> <<Member(p)>>,
                                     winner |-> Nobody, offer |-> NoTicket]
<1> TAKE p, kind
<1> DEFINE m == <<Member(p)>>
<1>1. NewRoom(p, kind) = [NoRoom EXCEPT !.status = "open", !.kind = kind, !.members = m]
    BY DEF NewRoom
<1> HIDE DEF m
<1>2. NewRoom(p, kind) = [status |-> "open", kind |-> kind, members |-> m,
                          winner |-> Nobody, offer |-> NoTicket]
    BY <1>1 DEF NoRoom
<1> QED BY <1>2 DEF m

\* A new room with one available player.
LEMMA OneRoomMore ==
    ASSUME SeatInv, NEW r \in NextRooms(1), NEW p \in Players, Available(p), NEW kind \in {"group", "duel"},
           rooms' = [rooms EXCEPT ![r] = NewRoom(p, kind)], queue' = queue,
           NEW who \in SUBSET Players, Invite(r, p, who)
    PROVE  /\ rooms' \in [RoomIds -> Room] /\ queue' \in Lines /\ invites' \subseteq Invitation
           /\ MembersWhereOpen' /\ Apart'
<1>1. rooms \in [RoomIds -> Room] /\ queue \in Lines /\ invites \subseteq Invitation
    BY DEF SeatInv, Types
<1>2. r \in RoomIds /\ r \notin Rooms
    BY DEF NextRooms
<1>3. rooms'[r] = NewRoom(p, kind) /\ \A s \in RoomIds : s # r => rooms'[s] = rooms[s]
    BY <1>1, <1>2
<1>4. NewRoom(p, kind) = [status |-> "open", kind |-> kind, members |-> <<Member(p)>>,
                          winner |-> Nobody, offer |-> NoTicket]
    BY NewRoomIs
<1>5. p \in Persons /\ Nobody \in Persons
    BY DEF Persons
<1>6. <<Member(p)>> \in Lists /\ Sitters(<<Member(p)>>) = {p}
    BY <1>5, SmallLists
<1>7. NewRoom(p, kind) \in Room
    BY <1>4, <1>5, <1>6 DEF Room
<1>8. rooms' \in [RoomIds -> Room]
    BY <1>1, <1>2, <1>3, <1>7
<1>9. \A i \in invites' : i \in Invitation /\ (i \in invites \/ i.room = r)
    <2>1. \A q \in who : [room |-> r, from |-> p, to |-> q] \in Invitation
        BY <1>2 DEF Invitation
    <2> QED BY <1>1, <2>1 DEF Invite
<1>10. MembersWhereOpen'
    <2>1. \A s \in RoomIds : rooms'[s].status # "open" => rooms'[s].members = <<>>
        BY <1>3, <1>4 DEF SeatInv, MembersWhereOpen
    <2>2. ASSUME NEW i \in invites' PROVE rooms'[i.room].status = "open"
        <3>1. i.room \in RoomIds /\ (i \in invites \/ i.room = r)
            BY <1>9 DEF Invitation
        <3> QED BY <1>3, <1>4, <3>1 DEF SeatInv, MembersWhereOpen
    <2> QED BY <2>1, <2>2 DEF MembersWhereOpen
<1>11. Apart'
    <2>1. rooms'[r].members = <<Member(p)>>
        BY <1>3, <1>4
    <2>2. \A s \in RoomIds : p \notin Sitters(rooms[s].members)
        BY AvailableFacts
    <2>3. p \notin ToSet(queue)
        BY AvailableFacts
    <2> QED BY <1>3, <1>6, <2>1, <2>2, <2>3 DEF SeatInv, Apart
<1> QED BY <1>1, <1>8, <1>9, <1>10, <1>11

\* The requests of the players keep everyone on one seat.
LEMMA RouteKeepsSeats ==
    ASSUME SeatInv, NEW p \in Players, Route(p)
    PROVE  SeatInv'
<1> USE DEF Lobby, engineVars, Answered
<1>0. /\ rooms \in [RoomIds -> Room] /\ queue \in Lines /\ invites \subseteq Invitation
      /\ offers \in [Tickets -> Offer] /\ p \in Persons
    BY DEF SeatInv, Types, Persons
<1> DEFINE Rest == UNCHANGED <<age, results, audit, engine, rollbacks>>
           Doc == /\ rooms' \in [RoomIds -> Room] /\ queue' \in Lines /\ invites' \subseteq Invitation
                  /\ offers' \in [Tickets -> Offer] /\ MembersWhereOpen' /\ Apart'
<1>1. ASSUME Doc, Rest PROVE SeatInv'
    <2>1. Types'
        BY <1>1 DEF SeatInv, Types
    <2> QED BY <1>1, <2>1 DEF SeatInv
<1>2. ASSUME UNCHANGED <<rooms, queue>>, invites' \subseteq invites PROVE MembersWhereOpen' /\ Apart'
    BY <1>2 DEF SeatInv, MembersWhereOpen, Apart
<1>3. \A r \in RoomIds : rooms[r] \in Room /\ rooms[r].members \in Lists
    BY <1>0 DEF Room
<1>4. CASE Queue(p)
    <2>1. Append(queue, p) \in Lines /\ ToSet(Append(queue, p)) = ToSet(queue) \cup {p}
        BY <1>0, <1>4, QueueFacts DEF Queue, Available
    <2>2. \A r \in RoomIds : p \notin Sitters(rooms[r].members)
        BY <1>4, AvailableFacts DEF Queue
    <2>3. Doc
        BY <1>0, <1>4, <2>1, <2>2 DEF Queue, SeatInv, MembersWhereOpen, Apart
    <2> HIDE DEF Doc
    <2> QED BY <1>1, <1>4, <2>3 DEF Queue
<1>5. CASE CancelQueue(p)
    <2>1. queue' \in Lines /\ ToSet(queue') \subseteq ToSet(queue)
        BY <1>0, <1>5, UnlessFacts DEF CancelQueue
    <2>2. Doc
        BY <1>0, <1>5, <2>1 DEF CancelQueue, SeatInv, MembersWhereOpen, Apart
    <2> HIDE DEF Doc
    <2> QED BY <1>1, <1>5, <2>2 DEF CancelQueue
<1>6. ASSUME NEW r \in RoomIds, NEW who \in SUBSET Players, CreateRoom(p, r, who) PROVE SeatInv'
    <2>1. Doc
        BY <1>0, <1>6, OneRoomMore DEF CreateRoom
    <2> HIDE DEF Doc
    <2> QED BY <1>1, <1>6, <2>1 DEF CreateRoom
<1>7. ASSUME NEW r \in RoomIds, NEW q \in Players, CreateDuel(p, r, q) PROVE SeatInv'
    <2>1. {q} \in SUBSET Players
        OBVIOUS
    <2>2. Doc
        BY <1>0, <1>7, <2>1, OneRoomMore DEF CreateDuel
    <2> HIDE DEF Doc
    <2> QED BY <1>1, <1>7, <2>2 DEF CreateDuel
<1>8. ASSUME NEW i \in invites, NEW before \in BOOLEAN, MeetDuel(p, i, before) PROVE SeatInv'
    <2> DEFINE r == i.room
               old == rooms[r].members
               list == IF before THEN <<Member(p)>> \o old ELSE Append(old, Member(p))
    <2>1. r \in RoomIds /\ rooms[r].status = "open" /\ old \in Lists
        BY <1>0, <1>3 DEF Invitation, SeatInv, MembersWhereOpen
    <2>2. p \notin Sitters(old)
        BY <1>8, <2>1, AvailableFacts DEF MeetDuel
    <2>3. list \in Lists /\ Sitters(list) = Sitters(old) \cup {p}
        <3> HIDE DEF old
        <3> QED BY <1>0, <2>1, <2>2, AppendFacts
    <2>4. rooms' = [rooms EXCEPT ![r].members = list]
        BY <1>8 DEF MeetDuel
    <2>5. queue' = queue /\ invites' \subseteq invites /\ offers' = offers /\ Available(p)
        BY <1>8 DEF MeetDuel
    <2>6. Doc
        <3> HIDE DEF list, r
        <3>1. Sitters(list) \subseteq Sitters(rooms[r].members) \cup {p} /\ \A x \in {p} : Available(x)
            BY <2>3, <2>5
        <3> QED BY <1>0, <2>1, <2>3, <2>4, <2>5, <3>1, OneListChanges
    <2> HIDE DEF Doc
    <2> QED BY <1>1, <1>8, <2>6 DEF MeetDuel
<1>9. ASSUME NEW i \in invites, Decline(i) PROVE SeatInv'
    BY <1>0, <1>1, <1>2, <1>9 DEF Decline
<1>10. ASSUME NEW r \in RoomIds, Join(p, r) PROVE SeatInv'
    <2> DEFINE old == rooms[r].members
               list == Append(old, Member(p))
    <2>1. rooms[r].status = "open" /\ old \in Lists
        BY <1>3, <1>10 DEF Join, OpenRooms
    <2>2. p \notin Sitters(old)
        BY <1>10, AvailableFacts DEF Join
    <2>3. list \in Lists /\ Sitters(list) = Sitters(old) \cup {p}
        <3> HIDE DEF old
        <3> QED BY <1>0, <2>1, <2>2, AppendFacts
    <2>4. rooms' = [rooms EXCEPT ![r].members = list]
        BY <1>10 DEF Join
    <2>5. queue' = queue /\ invites' \subseteq invites /\ offers' = offers /\ Available(p)
        BY <1>10 DEF Join
    <2>6. Doc
        <3> HIDE DEF list
        <3>1. Sitters(list) \subseteq Sitters(rooms[r].members) \cup {p} /\ \A x \in {p} : Available(x)
            BY <2>3, <2>5
        <3> QED BY <1>0, <2>1, <2>3, <2>4, <2>5, <3>1, OneListChanges
    <2> HIDE DEF Doc
    <2> QED BY <1>1, <1>10, <2>6 DEF Join
<1>11. ASSUME NEW q \in Players, InviteToRoom(p, q) PROVE SeatInv'
    <2> DEFINE r == Occupant(p)
    <2>1. r \in RoomIds /\ rooms[r].status = "open"
        BY <1>11, OccupantFacts DEF InviteToRoom
    <2>2. UNCHANGED <<rooms, queue, offers>> /\ Invite(r, p, {q})
        BY <1>11 DEF InviteToRoom
    <2> HIDE DEF r
    <2>3. \A i \in invites' : i \in Invitation /\ (i \in invites \/ i.room = r)
        <3>1. [room |-> r, from |-> p, to |-> q] \in Invitation
            BY <2>1 DEF Invitation
        <3> QED BY <1>0, <2>2, <3>1 DEF Invite
    <2>4. MembersWhereOpen'
        BY <2>1, <2>2, <2>3 DEF SeatInv, MembersWhereOpen
    <2>5. Doc
        BY <1>0, <2>2, <2>3, <2>4 DEF SeatInv, Apart
    <2> HIDE DEF Doc
    <2> QED BY <1>1, <1>11, <2>5 DEF InviteToRoom
<1>12. CASE Rejoin(p)
    <2> DEFINE r == Occupant(p)
               old == rooms[r].members
               list == Append(Without(old, {p}), Member(p))
    <2>1. r \in RoomIds /\ rooms[r].status = "open" /\ p \in Sitters(old) /\ old \in Lists
        BY <1>3, <1>12, OccupantFacts DEF Rejoin
    <2>2. rooms' = [rooms EXCEPT ![r].members = list]
        BY <1>12 DEF Rejoin
    <2>3. list \in Lists /\ Sitters(list) = Sitters(old)
        <3> HIDE DEF old
        <3>1. Without(old, {p}) \in Lists /\ Sitters(Without(old, {p})) = Sitters(old) \ {p}
            BY <2>1, WithoutFacts
        <3>2. list \in Lists /\ Sitters(list) = Sitters(Without(old, {p})) \cup {p}
            BY <1>0, <3>1, AppendFacts
        <3> QED BY <2>1, <3>1, <3>2
    <2>4. queue' = queue /\ invites' = invites /\ offers' = offers
        BY <1>12 DEF Rejoin
    <2>5. Doc
        <3> HIDE DEF list, r
        <3> QED BY <1>0, <2>1, <2>2, <2>3, <2>4, NobodyNew
    <2> HIDE DEF Doc
    <2> QED BY <1>1, <1>12, <2>5 DEF Rejoin
<1>13. CASE LeaveFreely(p)
    <2> DEFINE r == Occupant(p)
               list == Without(rooms[r].members, {p})
    <2>1. r \in RoomIds /\ rooms[r].status = "open" /\ rooms[r].members \in Lists
        BY <1>3, <1>13, OccupantFacts DEF LeaveFreely
    <2>2. rooms' = [rooms EXCEPT ![r].members = list]
        BY <1>13 DEF LeaveFreely, LeaveRoom
    <2>3. list \in Lists /\ Sitters(list) \subseteq Sitters(rooms[r].members)
        BY <2>1, WithoutFacts
    <2>4. queue' = queue /\ invites' = invites /\ offers' = offers
        BY <1>13 DEF LeaveFreely
    <2>5. Doc
        <3> HIDE DEF list, r
        <3> QED BY <1>0, <2>1, <2>2, <2>3, <2>4, NobodyNew
    <2> HIDE DEF Doc
    <2> QED BY <1>1, <1>13, <2>5 DEF LeaveFreely
<1>14. ASSUME NEW t \in Tickets, NEW phase \in Readings(t), Accept(p, t, phase) \/ Confirm(p, t, phase)
       PROVE  SeatInv'
    <2>1. UNCHANGED <<rooms, queue, invites>> /\ Rest
        BY <1>14 DEF Accept, Confirm
    <2>2. Pair(t) \subseteq Persons /\ offers[t].accepted \subseteq Persons
        BY <1>0 DEF Pair, Offer
    <2>3. offers' \in [Tickets -> Offer]
        <3>1. PICK seen \in SUBSET Persons : offers' = [offers EXCEPT ![t].accepted = seen]
            <4>1. CASE Accept(p, t, phase)
                <5>1. CASE phase = 2
                    BY <2>2, <4>1, <5>1 DEF Accept
                <5>2. CASE phase # 2
                    BY <2>2, <4>1, <5>2 DEF Accept
                <5> QED BY <5>1, <5>2
            <4>2. CASE Confirm(p, t, phase)
                <5>1. offers[t].accepted \cup {p} \in SUBSET Persons
                    BY <1>0, <2>2
                <5> QED BY <2>2, <4>2, <5>1 DEF Confirm
            <4> QED BY <1>14, <4>1, <4>2
        <3> QED BY <1>0, <3>1 DEF Offer
    <2>4. MembersWhereOpen' /\ Apart'
        BY <1>2, <2>1
    <2>5. Doc
        BY <1>0, <2>1, <2>3, <2>4
    <2> HIDE DEF Doc
    <2> QED BY <1>1, <2>1, <2>5
<1>15. ASSUME NEW t \in Tickets, NEW phase \in Readings(t), Back(p, t, phase) \/ Leave(p, t, phase)
       PROVE  SeatInv'
    <2> DEFINE r == Occupant(p)
    <2>1. Occupied(p) # {}
        BY <1>15 DEF Back, Leave, Verified
    <2>2. r \in RoomIds /\ rooms[r].status = "open" /\ rooms[r].members \in Lists
        BY <1>3, <2>1, OccupantFacts
    <2>3. PICK list \in Lists : /\ rooms' = [rooms EXCEPT ![r].members = list]
                                /\ Sitters(list) \subseteq Sitters(rooms[r].members)
        <3>1. CASE Back(p, t, phase)
            BY <2>2, <3>1, AwayFacts DEF Back
        <3>2. CASE Leave(p, t, phase)
            BY <2>2, <3>2, WithoutFacts DEF Leave, LeaveRoom
        <3> QED BY <1>15, <3>1, <3>2
    <2>4. PICK status \in {"none", "offered", "submitted", "active", "complete", "cancelled"} :
              offers' = [offers EXCEPT ![t].status = status]
        <3>1. offers[t].status \in {"none", "offered", "submitted", "active", "complete", "cancelled"}
            BY <1>0 DEF Offer
        <3> QED BY <1>15, <3>1 DEF Back, Leave
    <2>5. offers' \in [Tickets -> Offer]
        BY <1>0, <2>4 DEF Offer
    <2>6. UNCHANGED <<queue, invites>> /\ Rest
        BY <1>15 DEF Back, Leave
    <2>7. Doc
        <3> HIDE DEF r
        <3> QED BY <2>2, <2>3, <2>5, <2>6, NobodyNew
    <2> HIDE DEF Doc
    <2> QED BY <1>1, <2>6, <2>7
<1> HIDE DEF Doc, Rest, Lobby, engineVars, Answered
<1> QED BY <1>4, <1>5, <1>6, <1>7, <1>8, <1>9, <1>10, <1>11, <1>12, <1>13, <1>14, <1>15 DEF Route

\* Nobody sits on an empty list, and no other list has nobody.
LEMMA EmptyList ==
    ASSUME NEW members \in Lists, Sitters(members) = {}
    PROVE  members = <<>>
<1>1. members \in Seq(Seat) /\ DOMAIN members = 1..Len(members) /\ Len(members) \in Nat
    BY DEF Lists
<1>2. \A i \in DOMAIN members : members[i].player \in Sitters(members)
    BY DEF Sitters
<1>3. DOMAIN members = {}
    BY <1>2
<1>4. Len(members) = 0
    <2>1. Len(members) > 0 => 1 \in 1..Len(members)
        BY <1>1
    <2> QED BY <1>1, <1>3, <2>1
<1> QED BY <1>1, <1>4, EmptySeq

\* The pairs a cycle takes from the queue: two players each, nobody in two of
\* them, for rooms that are new.
LEMMA MadeFacts ==
    ASSUME NEW line \in Lines, NEW made \in Matchings(line)
    PROVE  /\ DOMAIN made \subseteq RoomIds \ Rooms
           /\ \A r \in DOMAIN made :
                /\ ToSet(made[r]) = {made[r][1], made[r][2]} /\ made[r][1] # made[r][2]
                /\ made[r][1] \in ToSet(line) /\ made[r][2] \in ToSet(line)
           /\ \A r, s \in DOMAIN made : r # s => ToSet(made[r]) \cap ToSet(made[s]) = {}
<1> DEFINE free == NextRooms(Len(line) \div 2)
           places == {ij \in (DOMAIN line) \X (DOMAIN line) : /\ ij[1] < ij[2]
                                                         /\ ~Blocked(line[ij[1]], line[ij[2]])}
           pairs == {<<line[ij[1]], line[ij[2]]>> : ij \in places}
<1>1. PICK D \in SUBSET free : /\ made \in [D -> pairs]
                               /\ \A r, s \in D : r # s => ToSet(made[r]) \cap ToSet(made[s]) = {}
    BY DEF Matchings
<1>2. line \in Seq(Players) /\ DOMAIN line = 1..Len(line) /\ Len(line) \in Nat
      /\ \A i, j \in DOMAIN line : line[i] = line[j] => i = j
    BY DEF Lines
<1>3. ASSUME NEW pair \in pairs
      PROVE  /\ ToSet(pair) = {pair[1], pair[2]} /\ pair[1] # pair[2]
             /\ pair[1] \in ToSet(line) /\ pair[2] \in ToSet(line)
    <2>1. PICK ij \in places : pair = <<line[ij[1]], line[ij[2]]>>
        OBVIOUS
    <2>2. ij[1] \in DOMAIN line /\ ij[2] \in DOMAIN line /\ ij[1] < ij[2]
        OBVIOUS
    <2>3. ij[1] # ij[2]
        BY <1>2, <2>2
    <2>4. line[ij[1]] # line[ij[2]]
        BY <1>2, <2>2, <2>3
    <2>5. DOMAIN pair = {1, 2} /\ pair[1] = line[ij[1]] /\ pair[2] = line[ij[2]]
        BY <2>1
    <2> QED BY <2>2, <2>4, <2>5 DEF ToSet
<1>4. free \subseteq RoomIds \ Rooms
    BY DEF NextRooms
<1> HIDE DEF pairs, free
<1>5. DOMAIN made = D /\ \A r \in D : made[r] \in pairs
    BY <1>1
<1> QED BY <1>1, <1>3, <1>4, <1>5

\* What a cycle observes of a room moves nobody in it.
LEMMA ObservedRoomFacts ==
    ASSUME SeatInv, NEW r \in RoomIds, NEW snap
    PROVE  LET room == ObservedRoom(rooms[r], snap)
           IN  /\ room \in Room /\ room.status = rooms[r].status /\ room.offer = rooms[r].offer
               /\ Sitters(room.members) = Sitters(rooms[r].members)
<1> DEFINE old == rooms[r]
           t == old.offer
           winner == IF snap[t] = 3 THEN engine[t].winner ELSE Nobody
           room == ObservedRoom(old, snap)
<1>1. old \in Room /\ old.members \in Lists /\ t \in Tickets \cup {NoTicket}
    BY DEF SeatInv, Types, Room
<1>2. ASSUME NEW list \in Lists, Sitters(list) = Sitters(old.members), NEW w \in Persons,
             room = [old EXCEPT !.winner = w, !.members = list]
      PROVE  /\ room \in Room /\ room.status = old.status /\ room.offer = t
             /\ Sitters(room.members) = Sitters(old.members)
    <2> HIDE DEF old, room
    <2> QED BY <1>1, <1>2 DEF Room
<1>3. ASSUME NEW list \in Lists, Sitters(list) = Sitters(old.members),
             room = [old EXCEPT !.members = list]
      PROVE  /\ room \in Room /\ room.status = old.status /\ room.offer = t
             /\ Sitters(room.members) = Sitters(old.members)
    <2> HIDE DEF old, room
    <2> QED BY <1>1, <1>3 DEF Room
<1>4. CASE t = NoTicket
    BY <1>1, <1>4 DEF ObservedRoom
<1>5. CASE t # NoTicket /\ Ended(t, snap[t])
    <2> DEFINE list == IF snap[t] = 3 THEN RotateMembers(old.members, t, winner)
                       ELSE IF age[t] >= 1 THEN SetAway(old.members, Pair(t) \ offers[t].accepted) ELSE old.members
    <2>1. room = [old EXCEPT !.winner = winner, !.members = list]
        <3>1. room = [old EXCEPT !.winner = winner,
                     !.members = IF snap[t] = 3 THEN RotateMembers(@, t, winner)
                         ELSE IF age[t] >= 1 THEN SetAway(@, Pair(t) \ offers[t].accepted) ELSE @]
            <4>1. t # NoTicket /\ Ended(t, snap[t]) /\ ~Unstarted(t, snap[t])
                BY <1>5 DEF Ended, Unstarted
            <4> QED BY <4>1, Zenon DEF ObservedRoom
        <3> HIDE DEF old, t, winner, room
        <3> QED BY <3>1 DEF list
    <2>2. list \in Lists /\ Sitters(list) = Sitters(old.members)
        <3> HIDE DEF old, t, winner
        <3> QED BY <1>1, RotateFacts, AwayFacts
    <2>3. winner \in Persons
        BY <1>1, <1>5 DEF SeatInv, Types, Match, Persons
    <2> HIDE DEF list, winner
    <2> QED BY <1>2, <2>1, <2>2, <2>3
<1>6. CASE t # NoTicket /\ ~Ended(t, snap[t]) /\ Unstarted(t, snap[t])
    <2> DEFINE list == SetAway(old.members, Pair(t))
    <2>1. room = [old EXCEPT !.members = list]
        BY <1>6 DEF ObservedRoom
    <2>2. list \in Lists /\ Sitters(list) = Sitters(old.members)
        <3> HIDE DEF old, t
        <3> QED BY <1>1, AwayFacts
    <2> HIDE DEF list
    <2> QED BY <1>3, <2>1, <2>2
<1>7. CASE t # NoTicket /\ ~Ended(t, snap[t]) /\ ~Unstarted(t, snap[t])
    <2>1. room = old
        BY <1>7 DEF ObservedRoom
    <2> QED BY <1>1, <2>1
<1> QED BY <1>4, <1>5, <1>6, <1>7

\* The rooms after a sweep: who sits where, and which ticket each room has.
LEMMA SweptFacts ==
    ASSUME SeatInv, NEW snap, NEW closed \in SUBSET Quiet,
           NEW line \in Lines, ToSet(line) \subseteq ToSet(queue), NEW made \in Matchings(line),
           NEW r \in RoomIds
    PROVE  LET room == Swept(snap, made, closed)[r] IN
           /\ room \in Room
           /\ room.status = IF r \in closed THEN "closed" ELSE IF r \in DOMAIN made THEN "open" ELSE rooms[r].status
           /\ Sitters(room.members) = IF r \in closed THEN {} ELSE IF r \in DOMAIN made THEN ToSet(made[r])
                                      ELSE Sitters(rooms[r].members)
           /\ room.offer = IF r \in DOMAIN made THEN NoTicket ELSE rooms[r].offer
<1> DEFINE room == Swept(snap, made, closed)[r]
<1>1. rooms[r] \in Room /\ ToSet(line) \subseteq Players
    <2>1. ToSet(queue) \subseteq Players
        BY DEF SeatInv, Types, Lines, ToSet
    <2> QED BY <2>1 DEF SeatInv, Types
<1>2. r \in closed => r \notin DOMAIN made
    BY MadeFacts DEF Quiet, OpenRooms, Rooms
<1>3. CASE r \in closed
    <2> DEFINE none == <<>>
    <2>1. room = [rooms[r] EXCEPT !.status = "closed", !.members = none]
        BY <1>3 DEF Swept
    <2>2. none \in Lists /\ Sitters(none) = {}
        BY SmallLists
    <2> DEFINE old == rooms[r]
    <2>3. old \in Room /\ room = [old EXCEPT !.status = "closed", !.members = none]
        BY <1>1, <2>1
    <2> HIDE DEF none, room, old
    <2>4. room \in Room
        BY <2>2, <2>3 DEF Room
    <2>5. room.status = "closed" /\ room.members = none /\ room.offer = old.offer
        BY <2>3 DEF Room
    <2> QED BY <1>2, <1>3, <2>2, <2>4, <2>5 DEF old, room
<1>4. CASE r \notin closed /\ r \in DOMAIN made
    <2> DEFINE p == made[r][1]
               q == made[r][2]
               list == Append(<<Member(p)>>, Member(q))
    <2>1. ToSet(made[r]) = {p, q} /\ p # q /\ p \in Persons /\ q \in Persons
        BY <1>1, <1>4, MadeFacts DEF Persons
    <2>2. room = [NewRoom(p, "ranked") EXCEPT !.members = Append(@, Member(q))]
        BY <1>4 DEF Swept
    <2>3. NewRoom(p, "ranked") = [status |-> "open", kind |-> "ranked", members |-> <<Member(p)>>,
                                  winner |-> Nobody, offer |-> NoTicket]
        BY NewRoomIs
    <2>4. list \in Lists /\ Sitters(list) = {p, q}
        <3> HIDE DEF p, q
        <3>1. <<Member(p)>> \in Lists /\ Sitters(<<Member(p)>>) = {p}
            BY <2>1, SmallLists
        <3>2. list \in Lists /\ Sitters(list) = {p} \cup {q}
            BY <2>1, <3>1, AppendFacts
        <3> QED BY <3>2
    <2> DEFINE one == <<Member(p)>>
    <2>5. room = [[status |-> "open", kind |-> "ranked", members |-> one,
                   winner |-> Nobody, offer |-> NoTicket] EXCEPT !.members = Append(@, Member(q))]
        BY <2>2, <2>3
    <2>6. list = Append(one, Member(q))
        OBVIOUS
    <2> HIDE DEF one, room, p, q, list
    <2>7. room = [status |-> "open", kind |-> "ranked", members |-> list,
                   winner |-> Nobody, offer |-> NoTicket]
        BY <2>5, <2>6
    <2>8. room \in Room
        <3>1. Nobody \in Persons
            BY DEF Persons
        <3> QED BY <2>4, <2>7, <3>1 DEF Room
    <2> QED BY <1>4, <2>1, <2>4, <2>7, <2>8 DEF room
<1>5. CASE r \notin closed /\ r \notin DOMAIN made
    <2>1. room = ObservedRoom(rooms[r], snap)
        BY <1>5 DEF Swept
    <2> QED BY <1>5, <2>1, ObservedRoomFacts
<1> QED BY <1>3, <1>4, <1>5

\* What a cycle observes of an offer.
LEMMA ObservedOfferFacts ==
    ASSUME SeatInv, NEW t \in Tickets, NEW phase
    PROVE  LET seen == ObservedOffer(t, phase) IN
           /\ seen \in Offer /\ seen.room = offers[t].room /\ seen.a = offers[t].a /\ seen.b = offers[t].b
           /\ seen.status = IF phase = 2 THEN "active"
                            ELSE IF Ended(t, phase) THEN IF phase = 3 THEN "complete" ELSE "cancelled"
                            ELSE IF Unstarted(t, phase) THEN "cancelled" ELSE offers[t].status
<1> DEFINE old == offers[t]
<1>1. old \in Offer /\ Pair(t) \in SUBSET Persons
    BY DEF SeatInv, Types, Offer, Pair
<1>2. CASE phase = 2
    <2> DEFINE both == Pair(t)
    <2>0. phase = 2 /\ ~Ended(t, phase) /\ ~Unstarted(t, phase)
        BY <1>2 DEF Ended, Unstarted
    <2>1. ObservedOffer(t, phase) = [old EXCEPT !.accepted = both, !.status = "active"]
        BY <2>0, Zenon DEF ObservedOffer
    <2>2. both \in SUBSET Persons
        BY <1>1
    <2> HIDE DEF both, old
    <2>3. ObservedOffer(t, phase) \in Offer
        BY <1>1, <2>1, <2>2 DEF Offer
    <2>4. ObservedOffer(t, phase).room = old.room /\ ObservedOffer(t, phase).a = old.a
          /\ ObservedOffer(t, phase).b = old.b /\ ObservedOffer(t, phase).status = "active"
        BY <1>1, <2>1 DEF Offer
    <2> QED BY <1>2, <2>3, <2>4 DEF old
<1>3. CASE phase # 2 /\ Ended(t, phase)
    <2> DEFINE status == IF phase = 3 THEN "complete" ELSE "cancelled"
    <2>1. phase # 2 /\ Ended(t, phase) /\ ~Unstarted(t, phase)
        BY <1>3 DEF Ended, Unstarted
    <2>2. ObservedOffer(t, phase) = [old EXCEPT !.status = status]
        BY <2>1, Zenon DEF ObservedOffer
    <2> HIDE DEF old
    <2> QED BY <1>1, <2>1, <2>2 DEF Offer, old
<1>4. CASE phase # 2 /\ ~Ended(t, phase) /\ Unstarted(t, phase)
    <2>1. ObservedOffer(t, phase) = [old EXCEPT !.accepted = {}, !.status = "cancelled"]
        BY <1>4 DEF ObservedOffer
    <2> HIDE DEF old
    <2> QED BY <1>1, <1>4, <2>1 DEF Offer, old
<1>5. CASE phase # 2 /\ ~Ended(t, phase) /\ ~Unstarted(t, phase)
    BY <1>1, <1>5 DEF ObservedOffer
<1> QED BY <1>2, <1>3, <1>4, <1>5

\* Numbers of a set that have as many numbers of it before them are the same.
LEMMA PlaceFacts ==
    ASSUME NEW S \in SUBSET Nat, NEW x \in S, NEW y \in S,
           Cardinality({z \in S : z <= x}) = Cardinality({z \in S : z <= y})
    PROVE  x = y
<1> DEFINE Before(w) == {z \in S : z <= w}
<1>1. \A w \in S : IsFiniteSet(Before(w))
    <2> TAKE w \in S
    <2>1. IsFiniteSet(0..w)
        BY FS_Interval
    <2>2. \A z \in S : z <= w => z \in 0..w
        <3>1. \A z \in S : z \in Nat
            OBVIOUS
        <3> QED BY <3>1
    <2>3. Before(w) \in SUBSET (0..w)
        BY <2>2
    <2> HIDE DEF Before
    <2> QED BY <2>1, <2>3, FS_Subset
<1>2. ASSUME NEW u \in S, NEW w \in S, u < w PROVE Cardinality(Before(u)) # Cardinality(Before(w))
    <2>1. \A z \in S : z <= u => z <= w
        BY <1>2
    <2>2. Before(u) \in SUBSET Before(w)
        BY <2>1
    <2>3. w \in Before(w) /\ w \notin Before(u)
        BY <1>2
    <2> HIDE DEF Before
    <2> QED BY <1>1, <2>2, <2>3, FS_Subset
<1>3. x < y \/ y < x \/ x = y
    OBVIOUS
<1>4. Cardinality(Before(x)) = Cardinality(Before(y))
    OBVIOUS
<1> HIDE DEF Before
<1> QED BY <1>2, <1>3, <1>4

\* The offers a cycle signs: each for a room that may have one and has a next
\* pair, with a ticket that is still free; no room and no ticket twice.
LEMMA SignedFacts ==
    ASSUME NEW swept, NEW seen, NEW known \in SUBSET RoomIds, NEW eligible,
           NEW s \in Signed(swept, seen, known, eligible)
    PROVE  /\ s[1] \in known /\ s[2] \in Tickets /\ s = <<s[1], s[2]>>
           /\ MayOffer(swept[s[1]], seen, eligible) /\ offers[s[2]].status = "none"
           /\ \A u \in Signed(swept, seen, known, eligible) : u[1] = s[1] \/ u[2] = s[2] => u = s
<1> DEFINE signed == Signed(swept, seen, known, eligible)
           free == {t \in Tickets : offers[t].status = "none"}
           ready == {r \in known : MayOffer(swept[r], seen, eligible)}
           Place(x, set) == Cardinality({y \in set : y <= x})
<1>1. \A u \in signed : u \in ready \X free /\ Place(u[1], ready) = Place(u[2], free)
    BY DEF Signed
<1>2. ready \in SUBSET Nat /\ free \in SUBSET Nat
    BY LobbyConstants
<1>3. ASSUME NEW u \in signed, u[1] = s[1] \/ u[2] = s[2] PROVE u = s
    <2>1. Place(u[1], ready) = Place(s[1], ready) /\ Place(u[2], free) = Place(s[2], free)
        <3> HIDE DEF Place, ready, free
        <3>1. Place(u[1], ready) = Place(u[2], free) /\ Place(s[1], ready) = Place(s[2], free)
            BY <1>1
        <3> QED BY <1>3, <3>1
    <2>2. u[1] \in ready /\ s[1] \in ready /\ u[2] \in free /\ s[2] \in free
          /\ u = <<u[1], u[2]>> /\ s = <<s[1], s[2]>>
        <3> HIDE DEF Place, ready, free
        <3> QED BY <1>1
    <2> HIDE DEF ready, free
    <2>3. u[1] = s[1]
        BY <1>2, <2>1, <2>2, PlaceFacts
    <2>4. u[2] = s[2]
        BY <1>2, <2>1, <2>2, PlaceFacts
    <2> QED BY <2>2, <2>3, <2>4
<1>4. s[1] \in known /\ s[2] \in Tickets /\ s = <<s[1], s[2]>>
      /\ MayOffer(swept[s[1]], seen, eligible) /\ offers[s[2]].status = "none"
    <2>1. s[1] \in ready /\ s[2] \in free /\ s = <<s[1], s[2]>>
        <3> HIDE DEF Place, ready, free
        <3> QED BY <1>1
    <2> QED BY <2>1
<1> QED BY <1>3, <1>4

\* A new ticket: signed for the next pair of a room.
IsNew(t, signed) ==
    \E r \in RoomIds :
        /\ <<r, t>> \in signed /\ rooms'[r].offer = t
        /\ offers'[t].status = "offered" /\ offers'[t].room = r
        /\ age'[t] = 0 /\ engine'[t] = NoMatch /\ results'[t] = NoResult

\* A ticket that is of no more use: no room has it, and nothing is kept of it.
IsDead(t) ==
    /\ offers'[t] = [NoOffer EXCEPT !.status = "cancelled"] /\ age'[t] = 4
    /\ engine'[t] = NoMatch /\ results'[t] = NoResult
    /\ \A r \in RoomIds : rooms'[r].offer # t
    /\ audit.ticket # t /\ ~Live(t)

\* A ticket that is kept as it was seen, a cycle later.
IsKept(t, snap) ==
    /\ offers'[t] = ObservedOffer(t, snap[t])
    /\ age'[t] = IF age[t] = 2 THEN 3 ELSE age[t]
    /\ engine'[t] = engine[t]
    /\ results'[t] = IF snap[t] \in {3, 4} /\ results[t].state = "none"
                     THEN [NoResult EXCEPT !.state = "pending"] ELSE results[t]

\* Who a cycle pairs from the queue, the tickets as it sees them, and the offers it signs.
Taken(made) == UNION {ToSet(made[r]) : r \in DOMAIN made}
SeenNow(snap) == [t \in Tickets |-> ObservedOffer(t, snap[t])]
SignedNow(snap, made, closed, eligible) ==
    Signed(Swept(snap, made, closed), SeenNow(snap), Rooms \cup DOMAIN made, eligible)

\* What a cycle does to each room and to each ticket.
LEMMA CycleEffects ==
    ASSUME SeatInv, NEW snap, NEW closed \in SUBSET Quiet,
           NEW line \in Lines, ToSet(line) \subseteq ToSet(queue), NEW made \in Matchings(line),
           NEW eligible, MaintenanceCycle(snap, made, line, eligible, closed)
    PROVE  /\ rooms' \in [RoomIds -> Room] /\ offers' \in [Tickets -> Offer]
           /\ \A r \in RoomIds :
                /\ rooms'[r].status = Swept(snap, made, closed)[r].status /\ rooms'[r].members = Swept(snap, made, closed)[r].members
                /\ \/ rooms'[r].offer = Swept(snap, made, closed)[r].offer
                   \/ <<r, rooms'[r].offer>> \in SignedNow(snap, made, closed, eligible)
           /\ queue' = Unless(line, Taken(made))
           /\ \A t \in Tickets : IsNew(t, SignedNow(snap, made, closed, eligible)) \/ IsDead(t) \/ IsKept(t, snap)
           /\ UNCHANGED <<invites, audit, rollbacks>>
<1> DEFINE swept == Swept(snap, made, closed)
           seen == [t \in Tickets |-> ObservedOffer(t, snap[t])]
           signed == SignedNow(snap, made, closed, eligible)
<1>0. /\ swept = Swept(snap, made, closed) /\ signed = SignedNow(snap, made, closed, eligible)
      /\ seen = [t \in Tickets |-> ObservedOffer(t, snap[t])]
      /\ signed = Signed(swept, seen, Rooms \cup DOMAIN made, eligible)
    BY DEF SignedNow, SeenNow
<1> USE <1>0
<1> HIDE DEF swept, seen, signed
<1> DEFINE new == {s[2] : s \in signed}
           offered == [r \in RoomIds |->
               IF \E s \in signed : s[1] = r
               THEN [swept[r] EXCEPT !.offer = (CHOOSE s \in signed : s[1] = r)[2]] ELSE swept[r]]
           dead == {t \in Tickets \ new : Spent(t, offered)}
           Ticket(r) == LET pair == NextPair(swept[r].members, swept[r].winner, eligible) IN
               [NoOffer EXCEPT !.room = r, !.status = "offered", !.a = pair[1], !.b = pair[2]]
           Fresh(f, value) == [t \in Tickets |-> IF t \in dead \cup new THEN value ELSE f[t]]
           known == Rooms \cup DOMAIN made
<1>1. /\ rooms' = offered
      /\ offers' = [t \in Tickets |->
             IF t \in new THEN Ticket((CHOOSE s \in signed : s[2] = t)[1])
             ELSE IF t \in dead THEN [NoOffer EXCEPT !.status = "cancelled"] ELSE seen[t]]
      /\ queue' = Unless(line, UNION {ToSet(made[r]) : r \in DOMAIN made})
      /\ age' = [t \in Tickets |-> IF t \in new THEN 0 ELSE IF t \in dead THEN 4
                                  ELSE IF age[t] = 2 THEN 3 ELSE age[t]]
      /\ engine' = Fresh(engine, NoMatch)
      /\ results' = Fresh([t \in Tickets |-> IF snap[t] \in {3, 4} /\ results[t].state = "none"
                               THEN [NoResult EXCEPT !.state = "pending"] ELSE results[t]], NoResult)
      /\ UNCHANGED <<invites, audit, rollbacks>>
    <2>1. CycleSaves(swept, seen, signed, snap, made, line, eligible)
        BY DEF MaintenanceCycle
    <2> QED BY <2>1, Zenon DEF CycleSaves
<1>2. known \in SUBSET RoomIds
    BY MadeFacts DEF Rooms
<1>3. \A r \in RoomIds : swept[r] \in Room
    BY SweptFacts
<1>4. \A s \in signed : /\ s[1] \in RoomIds /\ s[2] \in Tickets /\ s = <<s[1], s[2]>>
                        /\ MayOffer(swept[s[1]], seen, eligible)
                        /\ \A u \in signed : u[1] = s[1] \/ u[2] = s[2] => u = s
    <2>1. signed = Signed(swept, seen, known, eligible)
        OBVIOUS
    <2> HIDE DEF known
    <2>2. \A s \in signed :
             /\ s[1] \in known /\ s[2] \in Tickets /\ s = <<s[1], s[2]>>
             /\ MayOffer(swept[s[1]], seen, eligible) /\ offers[s[2]].status = "none"
             /\ \A u \in signed : u[1] = s[1] \/ u[2] = s[2] => u = s
        <3>1. \A s \in Signed(swept, seen, known, eligible) :
             /\ s[1] \in known /\ s[2] \in Tickets /\ s = <<s[1], s[2]>>
             /\ MayOffer(swept[s[1]], seen, eligible) /\ offers[s[2]].status = "none"
             /\ \A u \in Signed(swept, seen, known, eligible) : u[1] = s[1] \/ u[2] = s[2] => u = s
            BY <1>2, SignedFacts
        <3> QED BY <2>1, <3>1
    <2> QED BY <1>2, <2>2
<1>5. ASSUME NEW s \in signed
      PROVE  /\ (CHOOSE u \in signed : u[1] = s[1]) = s
             /\ (CHOOSE u \in signed : u[2] = s[2]) = s
    BY <1>4
<1>6. ASSUME NEW s \in signed
      PROVE  rooms'[s[1]] = [swept[s[1]] EXCEPT !.offer = s[2]]
    <2> DEFINE r == s[1]
    <2>1. r \in RoomIds /\ (\E u \in signed : u[1] = r) /\ (CHOOSE u \in signed : u[1] = r) = s
        BY <1>4, <1>5
    <2> HIDE DEF r
    <2>2. rooms'[r] = [swept[r] EXCEPT !.offer = s[2]]
        BY <1>1, <2>1
    <2> QED BY <2>2 DEF r
<1>7. ASSUME NEW r \in RoomIds, ~\E s \in signed : s[1] = r
      PROVE  rooms'[r] = swept[r]
    BY <1>1, <1>7
<1>8. ASSUME NEW r \in RoomIds
      PROVE  /\ rooms'[r] \in Room
             /\ rooms'[r].status = swept[r].status /\ rooms'[r].members = swept[r].members
             /\ rooms'[r].offer = swept[r].offer \/ <<r, rooms'[r].offer>> \in signed
    <2>1. CASE \E s \in signed : s[1] = r
        <3>1. PICK s \in signed : s[1] = r
            BY <2>1
        <3>2. rooms'[r] = [swept[r] EXCEPT !.offer = s[2]] /\ s[2] \in Tickets /\ s = <<r, s[2]>>
            BY <1>4, <1>6, <3>1
        <3>3. swept[r] \in Room
            BY <1>3
        <3>4. rooms'[r] \in Room /\ rooms'[r].status = swept[r].status /\ rooms'[r].members = swept[r].members
              /\ rooms'[r].offer = s[2]
            BY <3>2, <3>3 DEF Room
        <3> QED BY <3>2, <3>4
    <2>2. CASE ~\E s \in signed : s[1] = r
        BY <1>3, <1>7, <2>2
    <2> QED BY <2>1, <2>2
<1>9. rooms' \in [RoomIds -> Room]
    <2>1. rooms' = [r \in RoomIds |-> rooms'[r]]
        BY <1>1
    <2> HIDE DEF offered
    <2> QED BY <1>8, <2>1
<1>10. ASSUME NEW r \in RoomIds, MayOffer(swept[r], seen, eligible)
       PROVE  Ticket(r) \in Offer /\ Ticket(r).status = "offered" /\ Ticket(r).room = r
    <2> DEFINE pair == NextPair(swept[r].members, swept[r].winner, eligible)
               a == pair[1]
               b == pair[2]
    <2>1. pair # <<>>
        BY <1>10 DEF MayOffer
    <2>2. swept[r].members \in Lists
        BY <1>3 DEF Room
    <2>3. a \in Sitters(swept[r].members) /\ b \in Sitters(swept[r].members)
        BY <2>1, <2>2, NextPairFacts
    <2>4. a \in Persons /\ b \in Persons
        <3> DEFINE list == swept[r].members
        <3>1. \A i \in DOMAIN list : list[i] \in Seat
            <4>1. list \in Seq(Seat)
                BY <2>2 DEF Lists
            <4> HIDE DEF list
            <4> QED BY <4>1
        <3>2. \A p \in Sitters(list) : p \in Persons
            <4> HIDE DEF list
            <4> QED BY <3>1 DEF Sitters, Seat
        <3>3. a \in Sitters(list) /\ b \in Sitters(list)
            BY <2>3
        <3> HIDE DEF a, b, list
        <3> QED BY <3>2, <3>3
    <2>5. Ticket(r) = [room |-> r, a |-> a, b |-> b, status |-> "offered", accepted |-> {}]
        <3>1. Ticket(r) = [NoOffer EXCEPT !.room = r, !.status = "offered", !.a = a, !.b = b]
            OBVIOUS
        <3> HIDE DEF a, b, Ticket
        <3> QED BY <3>1 DEF NoOffer
    <2> HIDE DEF a, b, Ticket
    <2> QED BY <2>4, <2>5 DEF Offer
<1>11. ASSUME NEW t \in new
       PROVE  offers'[t] \in Offer /\ IsNew(t, signed)
    <2>1. PICK s \in signed : s[2] = t
        OBVIOUS
    <2> DEFINE r == s[1]
    <2>2. r \in RoomIds /\ t \in Tickets /\ s = <<r, t>> /\ MayOffer(swept[r], seen, eligible)
          /\ (CHOOSE u \in signed : u[2] = t) = s
        BY <1>4, <1>5, <2>1
    <2> HIDE DEF r
    <2>3. offers'[t] = Ticket(s[1])
        BY <1>1, <2>2
    <2>4. rooms'[r].offer = t
        <3>1. rooms'[r] = [swept[r] EXCEPT !.offer = t] /\ swept[r] \in Room
            BY <1>3, <1>6, <2>1, <2>2 DEF r
        <3> QED BY <3>1 DEF Room
    <2>5. age'[t] = 0 /\ engine'[t] = NoMatch /\ results'[t] = NoResult
        <3> HIDE DEF new, dead
        <3> QED BY <1>1, <2>2
    <2>6. Ticket(r) \in Offer /\ Ticket(r).status = "offered" /\ Ticket(r).room = r
        BY <1>10, <2>2
    <2>7. <<r, t>> \in signed
        BY <2>2
    <2> HIDE DEF Ticket, new, dead
    <2> QED BY <2>2, <2>3, <2>4, <2>5, <2>6, <2>7 DEF IsNew, r
<1>12. ASSUME NEW t \in dead
       PROVE  offers'[t] \in Offer /\ IsDead(t)
    <2>1. t \in Tickets /\ t \notin new /\ Spent(t, offered)
        OBVIOUS
    <2>2. \A r \in RoomIds : rooms'[r].offer # t
        <3> HIDE DEF offered
        <3> QED BY <1>1, <2>1 DEF Spent
    <2>3. audit.ticket # t /\ ~Live(t)
        BY <2>1 DEF Spent
    <2>4. /\ offers'[t] = [NoOffer EXCEPT !.status = "cancelled"] /\ age'[t] = 4
          /\ engine'[t] = NoMatch /\ results'[t] = NoResult
        <3> HIDE DEF new, dead
        <3> QED BY <1>1, <2>1
    <2>5. [NoOffer EXCEPT !.status = "cancelled"] \in Offer
        BY DEF NoOffer, Offer, Persons
    <2> HIDE DEF new, dead
    <2> QED BY <2>2, <2>3, <2>4, <2>5 DEF IsDead
<1>13. ASSUME NEW t \in Tickets, t \notin new, t \notin dead
       PROVE  offers'[t] \in Offer /\ IsKept(t, snap)
    <2>1. ObservedOffer(t, snap[t]) \in Offer
        BY ObservedOfferFacts
    <2> HIDE DEF new, dead
    <2>2. offers'[t] = seen[t] /\ seen[t] = ObservedOffer(t, snap[t])
        BY <1>1, <1>13
    <2>3. age'[t] = IF age[t] = 2 THEN 3 ELSE age[t]
        BY <1>1, <1>13
    <2>4. engine'[t] = engine[t]
        BY <1>1, <1>13
    <2>5. results'[t] = IF snap[t] \in {3, 4} /\ results[t].state = "none"
                     THEN [NoResult EXCEPT !.state = "pending"] ELSE results[t]
        BY <1>1, <1>13
    <2> QED BY <2>1, <2>2, <2>3, <2>4, <2>5 DEF IsKept
<1>14. \A t \in Tickets : offers'[t] \in Offer /\ (IsNew(t, signed) \/ IsDead(t) \/ IsKept(t, snap))
    <2> HIDE DEF new, dead
    <2> QED BY <1>11, <1>12, <1>13
<1>15. offers' \in [Tickets -> Offer]
    <2>1. DOMAIN offers' = Tickets /\ offers' = [t \in Tickets |-> offers'[t]]
        <3> HIDE DEF new, dead, Ticket
        <3> QED BY <1>1
    <2> QED BY <1>14, <2>1
<1>16. queue' = Unless(line, Taken(made))
    BY <1>1 DEF Taken
<1> HIDE DEF new, dead, offered, Ticket, Fresh, known
<1> QED BY <1>1, <1>8, <1>9, <1>14, <1>15, <1>16

\* The players in the queue are some of those who were in it.
LEMMA UnlessSome ==
    ASSUME NEW line \in Lines, NEW gone
    PROVE  Unless(line, gone) \in Lines /\ ToSet(Unless(line, gone)) \subseteq ToSet(line)
BY UnlessFacts

\* A cycle keeps everyone on one seat: who is paired from the queue leaves it,
\* and everybody else stays where they are.
LEMMA CycleKeepsSeats ==
    ASSUME SeatInv, NEW snap, NEW closed \in SUBSET Quiet,
           NEW line \in Lines, ToSet(line) \subseteq ToSet(queue), NEW made \in Matchings(line),
           NEW eligible, MaintenanceCycle(snap, made, line, eligible, closed)
    PROVE  SeatInv'
<1> DEFINE swept == Swept(snap, made, closed)
           signed == SignedNow(snap, made, closed, eligible)
           taken == Taken(made)
           in(r) == IF r \in closed THEN {} ELSE IF r \in DOMAIN made THEN ToSet(made[r])
                    ELSE Sitters(rooms[r].members)
<1>1. /\ rooms' \in [RoomIds -> Room] /\ offers' \in [Tickets -> Offer]
      /\ \A r \in RoomIds : rooms'[r].status = swept[r].status /\ rooms'[r].members = swept[r].members
      /\ queue' = Unless(line, taken)
      /\ \A t \in Tickets : IsNew(t, signed) \/ IsDead(t) \/ IsKept(t, snap)
      /\ UNCHANGED <<invites, audit, rollbacks>>
    BY CycleEffects
<1>2. \A r \in RoomIds :
          /\ swept[r].status = IF r \in closed THEN "closed" ELSE IF r \in DOMAIN made THEN "open" ELSE rooms[r].status
          /\ Sitters(swept[r].members) = in(r) /\ swept[r].members \in Lists
    <2> TAKE r \in RoomIds
    <2>1. swept[r] \in Room
        BY SweptFacts
    <2>2. swept[r].status = IF r \in closed THEN "closed" ELSE IF r \in DOMAIN made THEN "open" ELSE rooms[r].status
        BY SweptFacts
    <2>3. Sitters(swept[r].members) = in(r)
        BY SweptFacts
    <2> QED BY <2>1, <2>2, <2>3 DEF Room
<1>3. closed \subseteq RoomIds /\ \A r \in closed : rooms[r].status = "open" /\ \A i \in invites : i.room # r
    BY DEF Quiet, OpenRooms
<1>4. /\ DOMAIN made \subseteq RoomIds \ Rooms
      /\ \A r \in DOMAIN made : ToSet(made[r]) \subseteq ToSet(line)
      /\ \A r, s \in DOMAIN made : r # s => ToSet(made[r]) \cap ToSet(made[s]) = {}
    BY MadeFacts
<1> HIDE DEF swept, signed
<1>5. queue' \in Lines /\ ToSet(queue') = ToSet(line) \ taken
    <2> HIDE DEF taken
    <2> QED BY <1>1, UnlessFacts
<1>6. Apart'
    <2>1. \A r \in RoomIds : Sitters(rooms'[r].members) = in(r)
        BY <1>1, <1>2
    <2>2. \A r, s \in RoomIds : r # s => Sitters(rooms[r].members) \cap Sitters(rooms[s].members) = {}
        BY DEF SeatInv, Apart
    <2>3. \A r \in RoomIds : Sitters(rooms[r].members) \cap ToSet(line) = {}
        BY DEF SeatInv, Apart
    <2>4. \A r \in RoomIds : in(r) \subseteq taken \/ (in(r) \cap ToSet(line) = {})
        BY <2>3 DEF Taken
    <2>5. \A r, s \in RoomIds : r # s => in(r) \cap in(s) = {}
        BY <1>4, <2>2, <2>3
    <2>6. \A r \in RoomIds : in(r) \cap ToSet(queue') = {}
        BY <1>5, <2>4
    <2> HIDE DEF in
    <2> QED BY <2>1, <2>5, <2>6 DEF Apart
<1>7. MembersWhereOpen'
    <2>1. ASSUME NEW r \in RoomIds, rooms'[r].status # "open" PROVE rooms'[r].members = <<>>
        <3>1. in(r) = {}
            <4>1. r \notin closed => r \notin DOMAIN made /\ rooms[r].status # "open"
                BY <1>1, <1>2, <2>1
            <4>2. rooms[r].status # "open" => Sitters(rooms[r].members) = {}
                BY SmallLists DEF SeatInv, MembersWhereOpen
            <4> QED BY <4>1, <4>2
        <3> HIDE DEF in
        <3> QED BY <1>1, <1>2, <3>1, EmptyList
    <2>2. ASSUME NEW i \in invites PROVE rooms'[i.room].status = "open"
        <3>1. i.room \in RoomIds /\ rooms[i.room].status = "open"
            BY DEF SeatInv, Types, MembersWhereOpen, Invitation
        <3>2. i.room \notin closed
            BY <1>3
        <3> QED BY <1>1, <1>2, <3>1, <3>2
    <2> QED BY <1>1, <2>1, <2>2 DEF MembersWhereOpen
<1>8. Types'
    <2>1. \A t \in Tickets : age'[t] \in 0..4 /\ engine'[t] \in Match /\ results'[t] \in Result
        <3> TAKE t \in Tickets
        <3>1. age[t] \in 0..4 /\ engine[t] \in Match /\ results[t] \in Result
            BY DEF SeatInv, Types
        <3>2. /\ NoMatch \in Match /\ NoResult \in Result
              /\ [NoResult EXCEPT !.state = "pending"] \in Result
            BY DEF NoMatch, NoResult, Match, Result, Persons
        <3>3. CASE IsNew(t, signed)
            BY <3>2, <3>3 DEF IsNew
        <3>4. CASE IsDead(t)
            BY <3>2, <3>4 DEF IsDead
        <3>5. CASE IsKept(t, snap)
            BY <3>1, <3>2, <3>5 DEF IsKept
        <3> QED BY <1>1, <3>3, <3>4, <3>5
    <2>2. /\ DOMAIN age' = Tickets /\ age' = [t \in Tickets |-> age'[t]]
          /\ DOMAIN engine' = Tickets /\ engine' = [t \in Tickets |-> engine'[t]]
          /\ DOMAIN results' = Tickets /\ results' = [t \in Tickets |-> results'[t]]
        <3>1. DOMAIN age' = Tickets /\ age' = [t \in Tickets |-> age'[t]]
            BY ZenonT(60) DEF MaintenanceCycle, CycleSaves
        <3>2. DOMAIN engine' = Tickets /\ engine' = [t \in Tickets |-> engine'[t]]
            BY ZenonT(60) DEF MaintenanceCycle, CycleSaves
        <3>3. DOMAIN results' = Tickets /\ results' = [t \in Tickets |-> results'[t]]
            BY ZenonT(60) DEF MaintenanceCycle, CycleSaves
        <3> QED BY <3>1, <3>2, <3>3
    <2>3. age' \in [Tickets -> 0..4] /\ engine' \in [Tickets -> Match] /\ results' \in [Tickets -> Result]
        BY <2>1, <2>2
    <2> QED BY <1>1, <1>5, <2>3 DEF SeatInv, Types
<1> QED BY <1>6, <1>7, <1>8 DEF SeatInv

\* The transaction of a cycle.
LEMMA CommitKeepsSeats ==
    ASSUME SeatInv, Commit
    PROVE  SeatInv'
<1>1. PICK snap \in Snapshots(Watched), gone \in SUBSET ToSet(queue),
           eligible \in {e \in SUBSET Players : Cardinality(e) # 1}, closed \in SUBSET Quiet :
           \E made \in Matchings(Unless(queue, gone)) :
               MaintenanceCycle(snap, made, Unless(queue, gone), eligible, closed)
    BY DEF Commit
<1>2. Unless(queue, gone) \in Lines /\ ToSet(Unless(queue, gone)) \subseteq ToSet(queue)
    BY UnlessSome DEF SeatInv, Types
<1> QED BY <1>1, <1>2, CycleKeepsSeats

\* A contested match that is restored takes its players from wherever they are
\* to its room, and everybody else stays where they are.
LEMMA RestoreKeepsSeats ==
    ASSUME SeatInv, RestoreContestedMatch
    PROVE  SeatInv'
<1> DEFINE t == audit.ticket
           r == offers[t].room
           who == Pair(t)
<1>1. /\ rooms \in [RoomIds -> Room] /\ queue \in Lines /\ invites \subseteq Invitation
      /\ offers \in [Tickets -> Offer] /\ results \in [Tickets -> Result]
    BY DEF SeatInv, Types
<1>2. t \in Tickets /\ who \in SUBSET Persons /\ IsFiniteSet(who)
    <2>1. t \in Tickets
        BY DEF SeatInv, Types, RestoreContestedMatch
    <2>2. IsFiniteSet({offers[t].a, offers[t].b})
        <3>1. IsFiniteSet({offers[t].a})
            BY FS_Singleton
        <3>2. IsFiniteSet({offers[t].a} \cup {offers[t].b})
            BY <3>1, FS_AddElement
        <3>3. {offers[t].a, offers[t].b} = {offers[t].a} \cup {offers[t].b}
            OBVIOUS
        <3> QED BY <3>2, <3>3
    <2> HIDE DEF t
    <2>3. who \in SUBSET Persons
        BY <1>1, <2>1 DEF Pair, Offer
    <2> QED BY <2>1, <2>2, <2>3 DEF Pair
<1>3. audit' = NoAudit /\ results' = [results EXCEPT ![t] = NoResult]
      /\ UNCHANGED <<invites, age, engine, rollbacks>>
    BY DEF RestoreContestedMatch, engineVars
<1>4. \A s \in RoomIds : rooms[s] \in Room /\ rooms[s].members \in Lists
    BY <1>1 DEF Room
<1>5. /\ \A s \in RoomIds : rooms[s].status # "open" => rooms[s].members = <<>>
      /\ \A i \in invites : i.room \in RoomIds /\ rooms[i.room].status = "open"
      /\ \A s, u \in RoomIds : s # u => Sitters(rooms[s].members) \cap Sitters(rooms[u].members) = {}
      /\ \A s \in RoomIds : Sitters(rooms[s].members) \cap ToSet(queue) = {}
    BY <1>1 DEF SeatInv, MembersWhereOpen, Apart, Invitation
<1>6. Nobody \in Persons /\ NoResult \in Result /\ NoAudit \in Audit
    BY DEF Persons, NoResult, Result, NoAudit, Audit
<1>7. CASE audit.phase \in {1, 2}
    <2> DEFINE clash(s) == rooms[s].offer # NoTicket /\ Pair(rooms[s].offer) \cap who # {}
    <2>1. /\ \E line \in Restored(rooms[r].members, who) :
                 rooms' = [s \in RoomIds |->
                     IF s \notin Rooms THEN rooms[s]
                     ELSE IF s # r THEN [rooms[s] EXCEPT !.members = Without(@, who)]
                     ELSE [rooms[r] EXCEPT !.winner = Nobody, !.members = line, !.offer = t,
                                           !.status = "open"]]
          /\ offers' = [u \in Tickets |->
                 IF u = t THEN [offers[t] EXCEPT !.status =
                                   IF audit.phase = 2 THEN "active" ELSE "submitted"]
                 ELSE IF \E s \in Rooms \ {r} : rooms[s].offer = u /\ clash(s)
                      THEN [offers[u] EXCEPT !.status = "cancelled"] ELSE offers[u]]
          /\ queue' = Unless(queue, who)
        BY <1>7, Zenon DEF RestoreContestedMatch
    <2> HIDE DEF r, who, clash, t
    <2>2. PICK line \in Restored(rooms[r].members, who) :
              rooms' = [s \in RoomIds |->
                  IF s \notin Rooms THEN rooms[s]
                  ELSE IF s # r THEN [rooms[s] EXCEPT !.members = Without(@, who)]
                  ELSE [rooms[r] EXCEPT !.winner = Nobody, !.members = line, !.offer = t,
                                        !.status = "open"]]
        BY <2>1
    <2>3. ASSUME NEW s \in RoomIds, s \notin Rooms
          PROVE  rooms'[s] = rooms[s]
        BY <2>2, <2>3
    <2>4. ASSUME NEW s \in RoomIds, s \in Rooms, s # r
          PROVE  /\ rooms'[s] \in Room /\ rooms'[s].status = rooms[s].status
                 /\ Sitters(rooms'[s].members) = Sitters(rooms[s].members) \ who
                 /\ rooms'[s].members = Without(rooms[s].members, who)
        <3> DEFINE list == Without(rooms[s].members, who)
        <3>1. rooms'[s] = [rooms[s] EXCEPT !.members = list]
            BY <2>2, <2>4
        <3>2. list \in Lists /\ Sitters(list) = Sitters(rooms[s].members) \ who
            BY <1>4, WithoutFacts
        <3>3. rooms[s] \in Room
            BY <1>4
        <3>4. rooms'[s] \in Room /\ rooms'[s].status = rooms[s].status /\ rooms'[s].members = list
            <4> HIDE DEF list
            <4> QED BY <3>1, <3>2, <3>3 DEF Room
        <3> QED BY <3>2, <3>4
    <2>5. ASSUME NEW s \in RoomIds, s \in Rooms, s = r
          PROVE  /\ rooms'[s] \in Room /\ rooms'[s].status = "open"
                 /\ Sitters(rooms'[s].members) = Sitters(rooms[s].members) \cup who
        <3>1. rooms'[s] = [rooms[s] EXCEPT !.winner = Nobody, !.members = line, !.offer = t, !.status = "open"]
            BY <2>2, <2>5
        <3>2. line \in Lists /\ Sitters(line) = Sitters(rooms[s].members) \cup who
            BY <1>2, <1>4, <2>2, <2>5, RestoredFacts
        <3>3. rooms[s] \in Room
            BY <1>4
        <3> QED BY <1>2, <1>6, <3>1, <3>2, <3>3 DEF Room
    <2>6. rooms' \in [RoomIds -> Room]
        <3>1. \A s \in RoomIds : rooms'[s] \in Room
            BY <1>4, <2>3, <2>4, <2>5
        <3> QED BY <2>2, <3>1
    <2>7. queue' \in Lines /\ ToSet(queue') = ToSet(queue) \ who
        BY <1>1, <2>1, UnlessFacts
    <2>8. offers' \in [Tickets -> Offer]
        <3>1. ASSUME NEW u \in Tickets PROVE offers'[u] \in Offer
            <4>1. offers[u] \in Offer
                BY <1>1
            <4>2. offers'[u] = IF u = t THEN [offers[t] EXCEPT !.status =
                                   IF audit.phase = 2 THEN "active" ELSE "submitted"]
                 ELSE IF \E s \in Rooms \ {r} : rooms[s].offer = u /\ clash(s)
                      THEN [offers[u] EXCEPT !.status = "cancelled"] ELSE offers[u]
                BY <2>1
            <4> QED BY <4>1, <4>2 DEF Offer
        <3> QED BY <2>1, <3>1
    <2>9. ASSUME NEW s \in RoomIds
          PROVE  \/ Sitters(rooms'[s].members) = Sitters(rooms[s].members) \cup who /\ s = r
                 \/ Sitters(rooms'[s].members) = Sitters(rooms[s].members) \ who
        <3>1. CASE s \notin Rooms
            <4>1. rooms[s].members = <<>>
                BY <1>5, <3>1 DEF Rooms
            <4> QED BY <2>3, <3>1, <4>1, SmallLists
        <3> QED BY <2>4, <2>5, <3>1
    <2>10. Apart'
        <3>1. \A s, u \in RoomIds : s # u => Sitters(rooms'[s].members) \cap Sitters(rooms'[u].members) = {}
            <4> TAKE s \in RoomIds, u \in RoomIds
            <4>1. s # u => Sitters(rooms[s].members) \cap Sitters(rooms[u].members) = {}
                BY <1>5
            <4> QED BY <2>9, <4>1
        <3>2. \A s \in RoomIds : Sitters(rooms'[s].members) \cap ToSet(queue') = {}
            BY <1>5, <2>7, <2>9
        <3> QED BY <3>1, <3>2 DEF Apart
    <2>11. MembersWhereOpen'
        <3>1. ASSUME NEW s \in RoomIds, rooms'[s].status # "open" PROVE rooms'[s].members = <<>>
            <4>1. CASE s \notin Rooms
                BY <1>5, <2>3, <3>1, <4>1
            <4>2. CASE s \in Rooms /\ s # r
                <5>1. rooms[s].members = <<>>
                    BY <1>5, <2>4, <3>1, <4>2
                <5>2. rooms'[s].members \in Lists /\ Sitters(rooms'[s].members) = {}
                    <6>1. Sitters(rooms'[s].members) = Sitters(rooms[s].members) \ who
                        BY <2>4, <4>2
                    <6>2. rooms'[s] \in Room
                        BY <2>4, <4>2
                    <6> QED BY <5>1, <6>1, <6>2, SmallLists DEF Room
                <5> QED BY <5>2, EmptyList
            <4> QED BY <2>5, <3>1, <4>1, <4>2
        <3>2. \A i \in invites' : rooms'[i.room].status = "open"
            BY <1>3, <1>5, <2>3, <2>4, <2>5
        <3> QED BY <3>1, <3>2 DEF MembersWhereOpen
    <2>12. Types'
        BY <1>3, <1>6, <2>6, <2>7, <2>8 DEF SeatInv, Types
    <2> QED BY <2>10, <2>11, <2>12 DEF SeatInv
<1>8. CASE audit.phase \notin {1, 2}
    <2>1. /\ rooms' = [rooms EXCEPT ![r].winner = Nobody,
                 ![r].status = IF rooms[r].offer = t THEN "open" ELSE @]
          /\ offers' = [offers EXCEPT ![t].status = IF rooms[r].offer = t THEN "cancelled" ELSE @]
          /\ queue' = queue
        BY <1>8, Zenon DEF RestoreContestedMatch
    <2> HIDE DEF r, who, t
    <2>2. ASSUME NEW s \in RoomIds
          PROVE  /\ rooms'[s] \in Room /\ rooms'[s].members = rooms[s].members
                 /\ rooms'[s].status = rooms[s].status \/ rooms'[s].status = "open"
        <3> DEFINE status == IF rooms[r].offer = t THEN "open" ELSE rooms[r].status
        <3>1. CASE s # r
            BY <1>1, <1>4, <2>1, <3>1
        <3>2. CASE s = r
            <4>1. rooms'[s] = [rooms[s] EXCEPT !.winner = Nobody, !.status = status]
                BY <1>1, <2>1, <3>2
            <4>2. rooms[s] \in Room /\ (status = rooms[s].status \/ status = "open")
                BY <1>4, <3>2
            <4> HIDE DEF status
            <4> QED BY <1>6, <4>1, <4>2 DEF Room
        <3> QED BY <3>1, <3>2
    <2>3. rooms' \in [RoomIds -> Room]
        BY <1>1, <2>1, <2>2
    <2>4. offers' \in [Tickets -> Offer]
        <3> DEFINE status == IF rooms[r].offer = t THEN "cancelled" ELSE offers[t].status
        <3>1. offers' = [offers EXCEPT ![t] = [offers[t] EXCEPT !.status = status]]
            BY <2>1
        <3>2. t \in Tickets => offers[t] \in Offer /\ status \in {"cancelled", offers[t].status}
            BY <1>1, <1>2
        <3> HIDE DEF status
        <3>3. t \in Tickets => [offers[t] EXCEPT !.status = status] \in Offer
            BY <3>2 DEF Offer
        <3> QED BY <1>1, <3>1, <3>3
    <2>5. Types'
        BY <1>1, <1>3, <1>6, <2>1, <2>3, <2>4 DEF SeatInv, Types
    <2>6. MembersWhereOpen'
        BY <1>3, <1>5, <2>2 DEF MembersWhereOpen
    <2>7. Apart'
        BY <1>5, <2>1, <2>2 DEF Apart
    <2> QED BY <2>5, <2>6, <2>7 DEF SeatInv
<1> QED BY <1>7, <1>8

\* Nothing else moves a player: the engine, the history, time.
LEMMA OthersKeepSeats ==
    ASSUME SeatInv, UNCHANGED <<rooms, queue, offers>>, invites' \subseteq invites,
           age' \in [Tickets -> 0..4], results' \in [Tickets -> Result],
           audit' \in Audit, audit' # NoAudit => audit'.ticket \in Tickets,
           engine' \in [Tickets -> Match], rollbacks' \in Nat
    PROVE  SeatInv'
<1>1. Types'
    BY DEF SeatInv, Types
<1>2. MembersWhereOpen' /\ Apart'
    BY DEF SeatInv, MembersWhereOpen, Apart
<1> QED BY <1>1, <1>2 DEF SeatInv

\* A match of the engine is one, whatever a step makes of it.
LEMMA GameKeepsSeats ==
    ASSUME SeatInv, Game
    PROVE  SeatInv'
<1>1. engine \in [Tickets -> Match] /\ offers \in [Tickets -> Offer] /\ rollbacks \in Nat
    BY DEF SeatInv, Types
<1>2. \A t \in Tickets : /\ engine[t] \in Match /\ Pair(t) \in SUBSET Persons
                         /\ offers[t].a \in Persons
    BY <1>1 DEF Pair, Offer
<1>3. NoMatch \in Match /\ Players \subseteq Persons /\ Nobody \in Persons
    BY DEF NoMatch, Match, Persons
<1>4. ASSUME UNCHANGED <<docVars, age, results, audit>>, engine' \in [Tickets -> Match], rollbacks' \in Nat
      PROVE  SeatInv'
    BY <1>4, OthersKeepSeats DEF docVars, SeatInv, Types
<1>5. ASSUME NEW t \in Tickets, NEW phase \in 0..4, NEW acc \in SUBSET Persons,
             Engine(t, [engine[t] EXCEPT !.phase = phase, !.acc = acc])
      PROVE  SeatInv'
    <2>1. [engine[t] EXCEPT !.phase = phase, !.acc = acc] \in Match
        BY <1>2 DEF Match
    <2> QED BY <1>1, <1>4, <1>5, <2>1 DEF Engine
<1>6. ASSUME NEW t \in Tickets, NEW p \in Players, AcceptMatch(p, t) PROVE SeatInv'
    <2>1. CASE engine[t].phase = 0
        <3> DEFINE phase == 1
                   acc == {p}
        <3>1. phase \in 0..4 /\ acc \in SUBSET Persons
            BY <1>3
        <3>2. Engine(t, [engine[t] EXCEPT !.phase = phase, !.acc = acc])
            BY <1>6, <2>1 DEF AcceptMatch
        <3> HIDE DEF phase, acc
        <3> QED BY <1>5, <3>1, <3>2
    <2>2. CASE engine[t].phase # 0
        <3> DEFINE phase == 2
                   acc == Pair(t)
        <3>1. phase \in 0..4 /\ acc \in SUBSET Persons
            BY <1>2
        <3>2. Engine(t, [engine[t] EXCEPT !.phase = phase, !.acc = acc])
            BY <1>6, <2>2 DEF AcceptMatch
        <3> HIDE DEF phase, acc
        <3> QED BY <1>5, <3>1, <3>2
    <2> QED BY <2>1, <2>2
<1>7. ASSUME NEW t \in Tickets, CancelMatch(t) PROVE SeatInv'
    <2>1. [engine[t] EXCEPT !.phase = 4] \in Match
        BY <1>2 DEF Match
    <2> QED BY <1>1, <1>4, <1>7, <2>1 DEF CancelMatch, Engine
<1>8. ASSUME NEW t \in Tickets, NEW w \in Pair(t) \cup {Nobody}, FinishMatch(t, w) PROVE SeatInv'
    <2>1. w \in Persons
        BY <1>2, <1>3
    <2>2. [engine[t] EXCEPT !.phase = IF w = Nobody THEN 4 ELSE 3, !.winner = w] \in Match
        <3> DEFINE old == engine[t]
                   phase == IF w = Nobody THEN 4 ELSE 3
        <3>1. phase \in 0..4 /\ old \in Match
            BY <1>2
        <3> HIDE DEF old, phase
        <3>2. [old EXCEPT !.phase = phase, !.winner = w] \in Match
            BY <2>1, <3>1 DEF Match
        <3> QED BY <3>2 DEF old, phase
    <2> QED BY <1>1, <1>4, <1>8, <2>2 DEF FinishMatch, Engine
<1>9. ASSUME NEW t \in Tickets, NEW phase \in 0..2, Rollback(t, phase) PROVE SeatInv'
    <2> DEFINE acc == IF phase = 0 THEN {} ELSE IF phase = 1 THEN {offers[t].a} ELSE Pair(t)
               again == [NoMatch EXCEPT !.phase = phase, !.acc = acc]
    <2>1. acc \in SUBSET Persons
        BY <1>2
    <2>2. again \in Match
        <3>1. \A m \in Match, n \in 0..4, set \in SUBSET Persons : [m EXCEPT !.phase = n, !.acc = set] \in Match
            BY DEF Match
        <3>2. phase \in 0..4
            OBVIOUS
        <3> HIDE DEF acc
        <3> QED BY <1>3, <2>1, <3>1, <3>2
    <2>3. engine' = [u \in Tickets |-> IF u = t THEN again
              ELSE IF Pair(u) \cap Pair(t) # {} /\ Live(u) THEN NoMatch ELSE engine[u]]
        BY <1>9 DEF Rollback
    <2>4. engine' \in [Tickets -> Match]
        <3> HIDE DEF again
        <3> QED BY <1>1, <1>3, <2>2, <2>3
    <2> QED BY <1>1, <1>4, <1>9, <2>4 DEF Rollback
<1> QED BY <1>6, <1>7, <1>8, <1>9 DEF Game

\* Every step keeps everyone on one seat.
LEMMA StepKeepsSeats ==
    ASSUME SeatInv, [Next]_vars
    PROVE  SeatInv'
<1>0. /\ age \in [Tickets -> 0..4] /\ results \in [Tickets -> Result] /\ engine \in [Tickets -> Match]
      /\ audit \in Audit /\ rollbacks \in Nat /\ (audit # NoAudit => audit.ticket \in Tickets)
    BY DEF SeatInv, Types
<1>1. CASE \E p \in Players : Route(p)
    BY <1>1, RouteKeepsSeats
<1>2. CASE Commit
    BY <1>2, CommitKeepsSeats
<1>3. CASE RestoreContestedMatch
    BY <1>3, RestoreKeepsSeats
<1>4. ASSUME NEW t \in Tickets, RecordResult(t) PROVE SeatInv'
    <2>1. engine[t] \in Match
        BY <1>0
    <2>2. [state |-> "recorded", phase |-> engine[t].phase, winner |-> engine[t].winner] \in Result
        BY <2>1 DEF Match, Result
    <2>3. results' \in [Tickets -> Result]
        BY <1>0, <1>4, <2>2 DEF RecordResult
    <2> QED BY <1>0, <1>4, <2>3, OthersKeepSeats DEF RecordResult, docVars, engineVars
<1>5. ASSUME NEW t \in Tickets, Contest(t) PROVE SeatInv'
    <2>1. [ticket |-> t, phase |-> engine[t].phase] \in Audit
        BY <1>0 DEF Match, Audit
    <2> QED BY <1>0, <1>5, <2>1, OthersKeepSeats DEF Contest, docVars, engineVars
<1>6. CASE Game
    BY <1>6, GameKeepsSeats
<1>7. ASSUME NEW t \in Tickets, GrowOlder(t) PROVE SeatInv'
    <2>1. age' \in [Tickets -> 0..4]
        BY <1>0, <1>7 DEF GrowOlder
    <2> QED BY <1>0, <1>7, <2>1, OthersKeepSeats DEF GrowOlder, docVars, engineVars
<1>8. ASSUME NEW i \in invites, InvitationExpires(i) PROVE SeatInv'
    BY <1>0, <1>8, OthersKeepSeats DEF InvitationExpires, Lobby, engineVars
<1>9. CASE UNCHANGED vars
    BY <1>0, <1>9, OthersKeepSeats DEF vars, docVars, engineVars
<1> QED BY <1>1, <1>2, <1>3, <1>4, <1>5, <1>6, <1>7, <1>8, <1>9 DEF Next, Maintenance, Time

\* At first nobody is anywhere.
LEMMA InitSeats ==
    ASSUME Init
    PROVE  SeatInv
<1>1. Nobody \in Persons /\ <<>> \in Lists /\ Sitters(<<>>) = {}
    BY SmallLists DEF Persons
<1>2. NoRoom \in Room /\ NoRoom.members = <<>>
    <2> DEFINE none == <<>>
    <2>1. NoRoom = [status |-> "none", kind |-> "group", members |-> none,
                    winner |-> Nobody, offer |-> NoTicket] /\ none \in Lists
        BY <1>1 DEF NoRoom
    <2> HIDE DEF none
    <2>2. NoRoom \in Room /\ NoRoom.members = none
        BY <1>1, <2>1 DEF Room
    <2> QED BY <2>2 DEF none
<1>3. NoOffer \in Offer
    BY <1>1 DEF NoOffer, Offer
<1>4. NoMatch \in Match /\ NoResult \in Result /\ NoAudit \in Audit
    BY <1>1 DEF NoMatch, Match, NoResult, Result, NoAudit, Audit
<1>5. <<>> \in Lines /\ ToSet(<<>>) = {}
    BY DEF Lines, ToSet
<1>6. Types
    BY <1>2, <1>3, <1>4, <1>5 DEF Init, Types
<1>7. \A r \in RoomIds : rooms[r].members = <<>>
    BY <1>2 DEF Init
<1>8. MembersWhereOpen
    BY <1>7 DEF Init, MembersWhereOpen
<1>9. Apart
    BY <1>1, <1>5, <1>7 DEF Init, Apart
<1> QED BY <1>6, <1>8, <1>9 DEF SeatInv

\* A set without two elements has none or one.
LEMMA AtMostOne ==
    ASSUME NEW S, \A x, y \in S : x = y
    PROVE  IF S = {} THEN Cardinality(S) = 0 ELSE Cardinality(S) = 1
<1>1. CASE S = {}
    BY <1>1, FS_EmptySet
<1>2. CASE S # {}
    <2>1. PICK x \in S : TRUE
        BY <1>2
    <2>2. S = {x}
        BY <2>1
    <2> QED BY <1>2, <2>2, FS_Singleton
<1> QED BY <1>1, <1>2

\* Then nobody sits twice.
LEMMA SeatsAreOne ==
    ASSUME SeatInv
    PROVE  OneSeat
<1> SUFFICES ASSUME NEW p \in Players
             PROVE  Cardinality({ri \in RoomIds \X (1..Cardinality(Players) + 1) :
                        /\ ri[1] \in OpenRooms /\ ri[2] \in DOMAIN rooms[ri[1]].members
                        /\ rooms[ri[1]].members[ri[2]].player = p})
                    + Cardinality({i \in DOMAIN queue : queue[i] = p}) <= 1
    BY DEF OneSeat
<1> DEFINE seats == {ri \in RoomIds \X (1..Cardinality(Players) + 1) :
                        /\ ri[1] \in OpenRooms /\ ri[2] \in DOMAIN rooms[ri[1]].members
                        /\ rooms[ri[1]].members[ri[2]].player = p}
           places == {i \in DOMAIN queue : queue[i] = p}
<1>1. \A r \in RoomIds : Once(rooms[r].members)
    BY DEF SeatInv, Types, Room, Lists
<1>2. \A x \in seats : /\ x = <<x[1], x[2]>> /\ x[1] \in RoomIds /\ x[2] \in DOMAIN rooms[x[1]].members
                       /\ rooms[x[1]].members[x[2]].player = p
    OBVIOUS
<1>3. \A x \in seats : p \in Sitters(rooms[x[1]].members)
    <2> HIDE DEF seats
    <2> QED BY <1>2 DEF Sitters
<1>4. \A x, y \in seats : x = y
    <2> HIDE DEF seats
    <2> SUFFICES ASSUME NEW x \in seats, NEW y \in seats PROVE x = y
        OBVIOUS
    <2>1. x[1] = y[1]
        BY <1>2, <1>3 DEF SeatInv, Apart
    <2>2. x[2] = y[2]
        BY <1>1, <1>2, <2>1 DEF Once
    <2> QED BY <1>2, <2>1, <2>2
<1>5. \A i, j \in places : i = j
    BY DEF SeatInv, Types, Lines
<1>6. seats = {} \/ places = {}
    <2>1. places # {} => p \in ToSet(queue)
        BY DEF ToSet
    <2> HIDE DEF seats, places
    <2> QED BY <1>2, <1>3, <2>1 DEF SeatInv, Apart
<1> HIDE DEF seats, places
<1>7. /\ IF seats = {} THEN Cardinality(seats) = 0 ELSE Cardinality(seats) = 1
      /\ IF places = {} THEN Cardinality(places) = 0 ELSE Cardinality(places) = 1
    BY <1>4, <1>5, AtMostOne
<1>8. Cardinality(seats) + Cardinality(places) <= 1
    BY <1>6, <1>7
<1> QED BY <1>8 DEF seats, places

\* The types of the lobby, and that members sit where they may.
THEOREM SeatsKept == Spec => []SeatInv
<1>1. Init => SeatInv
    BY InitSeats
<1>2. SeatInv /\ [Next]_vars => SeatInv'
    BY StepKeepsSeats
<1> QED BY <1>1, <1>2, PTL DEF Spec

\* Nobody sits in two rooms, twice in one, or in a room and in the queue,
\* whatever a recovery or a cycle does between two requests of a player.
THEOREM OneSeatForEach == Spec => []OneSeat
<1>1. SeatInv => OneSeat
    BY SeatsAreOne
<1> QED BY <1>1, SeatsKept, PTL

-----------------------------------------------------------------------------
(* A match that is played is watched, when a cycle commits within three     *)
(* seconds of its reads and no history has been contested.                  *)

\* A summary that was saved is the engine's; a ticket that may still be redeemed,
\* or that is played, is the offer of a room; an offer is complete only when the
\* match was, and one that was given up while it is played has just expired.
Followed(t) ==
    /\ results[t].state # "none" => engine[t].phase \in {3, 4}
    /\ results[t].state = "recorded" =>
           results[t].phase = engine[t].phase /\ results[t].winner = engine[t].winner
    /\ engine[t].phase = 2 \/ (engine[t].phase \in {0, 1} /\ age[t] = 0) =>
           \E r \in RoomIds : rooms[r].offer = t
    /\ offers[t].status = "complete" => engine[t].phase = 3
    /\ offers[t].status = "cancelled" /\ engine[t].phase = 2 => age[t] \in 0..2

OffersInRooms == \A r \in RoomIds : rooms[r].status = "none" => rooms[r].offer = NoTicket

Watching ==
    rollbacks = 0 => /\ audit = NoAudit /\ OffersInRooms
                     /\ \A t \in Tickets : Followed(t)

\* A reading of a ticket whose expiry is old is what the engine says now.
LEMMA ReadingFacts ==
    ASSUME PromptCycles, SeatInv, NEW t \in Tickets, NEW phase \in Readings(t)
    PROVE  phase = engine[t].phase \/ (phase \in {0, 1, 2} /\ age[t] \in {0, 1})
<1>1. age[t] \in 0..4
    BY DEF SeatInv, Types
<1> QED BY <1>1 DEF Readings

\* What the requests of the players leave of rooms and tickets.
LEMMA RouteEffects ==
    ASSUME SeatInv, NEW p \in Players, Route(p)
    PROVE  /\ UNCHANGED <<age, results, audit, engine, rollbacks>>
           /\ \A r \in RoomIds :
                \/ rooms'[r].offer = rooms[r].offer /\ rooms'[r].status = rooms[r].status
                \/ rooms[r].status = "none" /\ rooms'[r].status = "open" /\ rooms'[r].offer = NoTicket
           /\ \A t \in Tickets :
                \/ offers'[t].status = offers[t].status
                \/ offers'[t].status = "cancelled" /\ \E phase \in Readings(t) : phase \notin {1, 2}
<1> DEFINE Quietly == UNCHANGED <<age, results, audit, engine, rollbacks>>
           SameRoom(r) == rooms'[r].offer = rooms[r].offer /\ rooms'[r].status = rooms[r].status
           NewlyMade(r) == rooms[r].status = "none" /\ rooms'[r].status = "open" /\ rooms'[r].offer = NoTicket
           Given(t) == \/ offers'[t].status = offers[t].status
                       \/ offers'[t].status = "cancelled" /\ \E phase \in Readings(t) : phase \notin {1, 2}
           Goal == Quietly /\ (\A r \in RoomIds : SameRoom(r) \/ NewlyMade(r)) /\ (\A t \in Tickets : Given(t))
<1> USE DEF Lobby, engineVars, Answered
<1>1. rooms \in [RoomIds -> Room] /\ offers \in [Tickets -> Offer]
    BY DEF SeatInv, Types
<1>2. ASSUME NEW r, NEW list, rooms' = [rooms EXCEPT ![r].members = list]
      PROVE  \A s \in RoomIds : SameRoom(s)
    BY <1>1, <1>2 DEF Room
<1>3. ASSUME NEW r \in NextRooms(1), NEW kind, rooms' = [rooms EXCEPT ![r] = NewRoom(p, kind)]
      PROVE  \A s \in RoomIds : SameRoom(s) \/ NewlyMade(s)
    <2>1. r \in RoomIds /\ rooms[r].status = "none"
        BY DEF NextRooms, Rooms
    <2>2. NewRoom(p, kind).status = "open" /\ NewRoom(p, kind).offer = NoTicket
        BY NewRoomIs
    <2>3. rooms'[r] = NewRoom(p, kind) /\ \A s \in RoomIds : s # r => rooms'[s] = rooms[s]
        BY <1>1, <1>3, <2>1
    <2> QED BY <2>1, <2>2, <2>3
<1>4. CASE Queue(p) \/ CancelQueue(p)
    BY <1>4 DEF Queue, CancelQueue
<1>5. CASE Rejoin(p)
    BY <1>2, <1>5 DEF Rejoin
<1>6. CASE LeaveFreely(p)
    BY <1>2, <1>6 DEF LeaveFreely, LeaveRoom
<1>7. ASSUME NEW r \in RoomIds, Join(p, r) PROVE Goal
    BY <1>2, <1>7 DEF Join
<1>8. ASSUME NEW r \in RoomIds, NEW who \in SUBSET Players, CreateRoom(p, r, who) PROVE Goal
    BY <1>3, <1>8 DEF CreateRoom
<1>9. ASSUME NEW r \in RoomIds, NEW q \in Players, CreateDuel(p, r, q) PROVE Goal
    BY <1>3, <1>9 DEF CreateDuel
<1>10. ASSUME NEW q \in Players, InviteToRoom(p, q) PROVE Goal
    BY <1>10 DEF InviteToRoom
<1>11. ASSUME NEW i \in invites, NEW before \in BOOLEAN, MeetDuel(p, i, before) PROVE Goal
    <2> DEFINE r == i.room
               old == rooms[r].members
               list == IF before THEN <<Member(p)>> \o old ELSE Append(old, Member(p))
    <2>1. rooms' = [rooms EXCEPT ![r].members = list]
        BY <1>11 DEF MeetDuel
    <2>2. \A s \in RoomIds : SameRoom(s)
        <3> HIDE DEF r, list
        <3> QED BY <1>2, <2>1
    <2> QED BY <1>11, <2>2 DEF MeetDuel
<1>12. ASSUME NEW i \in invites, Decline(i) PROVE Goal
    BY <1>12 DEF Decline
<1>13. ASSUME NEW t \in Tickets, NEW phase \in Readings(t), Accept(p, t, phase) \/ Confirm(p, t, phase)
       PROVE  Goal
    <2>1. UNCHANGED rooms /\ Quietly
        BY <1>13 DEF Accept, Confirm
    <2>2. \E set : offers' = [offers EXCEPT ![t].accepted = set]
        BY <1>13 DEF Accept, Confirm
    <2>3. \A u \in Tickets : offers'[u].status = offers[u].status
        BY <1>1, <2>2 DEF Offer
    <2> QED BY <2>1, <2>3
<1>14. ASSUME NEW t \in Tickets, NEW phase \in Readings(t), Back(p, t, phase) \/ Leave(p, t, phase)
       PROVE  Goal
    <2>1. Quietly /\ phase \notin {1, 2}
        BY <1>14 DEF Back, Leave
    <2>2. \E r, list : rooms' = [rooms EXCEPT ![r].members = list]
        BY <1>14 DEF Back, Leave, LeaveRoom
    <2>3. \A u \in Tickets : offers'[u].status = offers[u].status \/ (u = t /\ offers'[u].status = "cancelled")
        BY <1>1, <1>14 DEF Back, Leave, Offer
    <2>4. \A s \in RoomIds : SameRoom(s)
        <3> HIDE DEF SameRoom
        <3> QED BY <1>2, <2>2
    <2> QED BY <2>1, <2>3, <2>4
<1> HIDE DEF Lobby, engineVars, Answered
<1>15. Goal
    <2> HIDE DEF Goal
    <2>1. (Queue(p) \/ CancelQueue(p) => Goal) /\ (Rejoin(p) => Goal) /\ (LeaveFreely(p) => Goal)
        BY <1>4, <1>5, <1>6 DEF Goal
    <2> QED BY <2>1, <1>7, <1>8, <1>9, <1>10, <1>11, <1>12, <1>13, <1>14 DEF Route
<1> QED BY <1>15

\* The requests of the players keep a played match watched: an offer is given up
\* on a reading that shows no match, which is recent when there is one.
LEMMA RouteKeepsWatching ==
    ASSUME PromptCycles, SeatInv, Watching, NEW p \in Players, Route(p)
    PROVE  Watching'
<1>1. UNCHANGED <<age, results, audit, engine, rollbacks>>
    BY RouteEffects
<1> SUFFICES ASSUME rollbacks = 0
             PROVE  audit' = NoAudit /\ OffersInRooms' /\ \A t \in Tickets : Followed(t)'
    BY <1>1 DEF Watching
<1>2. audit = NoAudit /\ OffersInRooms /\ \A t \in Tickets : Followed(t)
    BY DEF Watching
<1>3. \A r \in RoomIds :
          \/ rooms'[r].offer = rooms[r].offer /\ rooms'[r].status = rooms[r].status
          \/ rooms[r].status = "none" /\ rooms'[r].status = "open" /\ rooms'[r].offer = NoTicket
    BY RouteEffects
<1>4. OffersInRooms'
    BY <1>2, <1>3 DEF OffersInRooms
<1>5. ASSUME NEW t \in Tickets PROVE Followed(t)'
    <2>1. Followed(t)
        BY <1>2
    <2>2. \/ offers'[t].status = offers[t].status
          \/ offers'[t].status = "cancelled" /\ \E phase \in Readings(t) : phase \notin {1, 2}
        BY RouteEffects
    <2>3. t # NoTicket
        BY LobbyConstants
    <2>4. \A r \in RoomIds : rooms[r].offer = t => rooms'[r].offer = t
        BY <1>2, <1>3, <2>3 DEF OffersInRooms
    <2>5. offers'[t].status = "complete" => engine[t].phase = 3
        BY <2>1, <2>2 DEF Followed
    <2>6. offers'[t].status = "cancelled" /\ engine[t].phase = 2 => age[t] \in 0..2
        <3>1. CASE offers'[t].status = offers[t].status
            BY <2>1, <3>1 DEF Followed
        <3>2. CASE \E phase \in Readings(t) : phase \notin {1, 2}
            <4>1. PICK phase \in Readings(t) : phase \notin {1, 2}
                BY <3>2
            <4>2. phase = engine[t].phase \/ age[t] \in {0, 1}
                BY ReadingFacts
            <4> QED BY <4>1, <4>2
        <3> QED BY <2>2, <3>1, <3>2
    <2> QED BY <1>1, <2>1, <2>4, <2>5, <2>6 DEF Followed
<1> QED BY <1>1, <1>2, <1>4, <1>5

\* What a cycle has read: of a watched ticket one of its readings, of another
\* ticket nothing.
LEMMA SnapshotFacts ==
    ASSUME NEW snap \in Snapshots(Watched), NEW t \in Tickets
    PROVE  IF t \in Watched THEN snap[t] \in Readings(t) ELSE snap[t] = 9
<1>1. PICK f \in [Watched -> 0..4] : /\ \A u \in Watched : f[u] \in Readings(u)
                                     /\ snap = [u \in Tickets |-> IF u \in Watched THEN f[u] ELSE 9]
    BY DEF Snapshots
<1> QED BY <1>1

\* A ticket that is played, or may still be redeemed, is not over for a cycle,
\* as long as it is fresh or its match is known to be on.
LEMMA NotOverYet ==
    ASSUME PromptCycles, SeatInv, Watching, rollbacks = 0, NEW snap \in Snapshots(Watched),
           NEW t \in Tickets, engine[t].phase = 2 \/ (engine[t].phase \in {0, 1} /\ age[t] = 0)
    PROVE  /\ ObservedOffer(t, snap[t]).status # "complete"
           /\ ObservedOffer(t, snap[t]).status = "cancelled" => age[t] \in {0, 1}
<1>1. OffersInRooms /\ Followed(t)
    BY DEF Watching
<1>2. t # NoTicket /\ age[t] \in 0..4
    BY LobbyConstants DEF SeatInv, Types
<1>3. snap[t] \in {0, 1, 2, 9} /\ (t \in Watched /\ age[t] \notin {0, 1} => snap[t] = engine[t].phase)
    BY SnapshotFacts, ReadingFacts
<1>4. offers[t].status # "complete"
    BY <1>1 DEF Followed
<1>5. age[t] \notin {0, 1} => t \in Watched /\ engine[t].phase = 2
    <2> SUFFICES ASSUME age[t] \notin {0, 1} PROVE t \in Watched /\ engine[t].phase = 2
        OBVIOUS
    <2>1. engine[t].phase = 2
        OBVIOUS
    <2>2. PICK r \in RoomIds : rooms[r].offer = t
        BY <1>1, <2>1 DEF Followed
    <2>3. r \in Rooms
        BY <1>1, <1>2, <2>2 DEF OffersInRooms, Rooms
    <2>4. offers[t].status = "cancelled" => age[t] < 4
        BY <1>1, <1>2, <2>1 DEF Followed
    <2> QED BY <1>4, <2>1, <2>2, <2>3, <2>4 DEF Watched
<1>6. ~Ended(t, snap[t])
    BY <1>3 DEF Ended
<1>7. ObservedOffer(t, snap[t]).status = IF snap[t] = 2 THEN "active"
                            ELSE IF Unstarted(t, snap[t]) THEN "cancelled" ELSE offers[t].status
    BY <1>6, ObservedOfferFacts
<1> QED BY <1>3, <1>4, <1>5, <1>7

\* A cycle replaces a room's ticket only when no match of it is played and it can
\* no longer be redeemed.
LEMMA CycleReplaces ==
    ASSUME PromptCycles, SeatInv, Watching, rollbacks = 0, NEW snap \in Snapshots(Watched),
           NEW closed \in SUBSET Quiet,
           NEW line \in Lines, ToSet(line) \subseteq ToSet(queue), NEW made \in Matchings(line),
           NEW eligible, MaintenanceCycle(snap, made, line, eligible, closed),
           NEW r \in RoomIds, rooms[r].offer \in Tickets, rooms'[r].offer # rooms[r].offer
    PROVE  LET t == rooms[r].offer
           IN  engine[t].phase # 2 /\ ~(engine[t].phase \in {0, 1} /\ age[t] = 0)
<1> DEFINE t == rooms[r].offer
           swept == Swept(snap, made, closed)
           signed == SignedNow(snap, made, closed, eligible)
           known == Rooms \cup DOMAIN made
<1>1. OffersInRooms /\ t \in Tickets /\ t # NoTicket
    BY LobbyConstants DEF Watching
<1>2. r \in Rooms /\ r \notin DOMAIN made
    BY <1>1, MadeFacts DEF OffersInRooms, Rooms
<1>3. swept[r].offer = t
    BY <1>2, SweptFacts
<1>4. <<r, rooms'[r].offer>> \in signed
    <2>1. rooms'[r].offer = swept[r].offer \/ <<r, rooms'[r].offer>> \in signed
        BY CycleEffects
    <2> HIDE DEF swept, signed
    <2> QED BY <1>3, <2>1
<1>5. MayOffer(swept[r], SeenNow(snap), eligible)
    <2> DEFINE s == <<r, rooms'[r].offer>>
    <2>1. known \in SUBSET RoomIds
        BY MadeFacts DEF Rooms
    <2>2. s \in Signed(swept, SeenNow(snap), known, eligible) /\ s[1] = r
        BY <1>4 DEF SignedNow
    <2> HIDE DEF s, swept, known
    <2>3. MayOffer(swept[s[1]], SeenNow(snap), eligible)
        BY <2>1, <2>2, SignedFacts
    <2> QED BY <2>2, <2>3
<1>6. SeenNow(snap)[t].status \in Over /\ (SeenNow(snap)[t].status = "cancelled" => age[t] >= 2)
    <2> HIDE DEF swept
    <2> QED BY <1>1, <1>3, <1>5 DEF MayOffer
<1>7. SeenNow(snap)[t] = ObservedOffer(t, snap[t])
    BY <1>1 DEF SeenNow
<1> HIDE DEF t
<1>8. ASSUME engine[t].phase = 2 \/ (engine[t].phase \in {0, 1} /\ age[t] = 0) PROVE FALSE
    <2>1. /\ ObservedOffer(t, snap[t]).status # "complete"
          /\ ObservedOffer(t, snap[t]).status = "cancelled" => age[t] \in {0, 1}
        BY <1>1, <1>8, NotOverYet
    <2> QED BY <1>6, <1>7, <2>1 DEF Over
<1> QED BY <1>8 DEF t

\* A cycle keeps a played match watched: the tickets it signs have their rooms,
\* and the others keep theirs as long as they are needed.
LEMMA CycleKeepsWatching ==
    ASSUME PromptCycles, SeatInv, Watching, NEW snap \in Snapshots(Watched),
           NEW closed \in SUBSET Quiet,
           NEW line \in Lines, ToSet(line) \subseteq ToSet(queue), NEW made \in Matchings(line),
           NEW eligible, MaintenanceCycle(snap, made, line, eligible, closed)
    PROVE  Watching'
<1> DEFINE swept == Swept(snap, made, closed)
           signed == SignedNow(snap, made, closed, eligible)
<1>1. /\ \A r \in RoomIds :
             /\ rooms'[r].status = swept[r].status
             /\ rooms'[r].offer = swept[r].offer \/ <<r, rooms'[r].offer>> \in signed
      /\ \A t \in Tickets : IsNew(t, signed) \/ IsDead(t) \/ IsKept(t, snap)
      /\ UNCHANGED <<audit, rollbacks>>
    BY CycleEffects
<1> SUFFICES ASSUME rollbacks = 0
             PROVE  audit' = NoAudit /\ OffersInRooms' /\ \A t \in Tickets : Followed(t)'
    BY <1>1 DEF Watching
<1>2. audit = NoAudit /\ OffersInRooms /\ \A t \in Tickets : Followed(t)
    BY DEF Watching
<1>3. OffersInRooms'
    <2> SUFFICES ASSUME NEW r \in RoomIds, rooms'[r].status = "none"
                 PROVE  rooms'[r].offer = NoTicket
        BY DEF OffersInRooms
    <2>1. r \notin closed /\ r \notin DOMAIN made /\ rooms[r].status = "none" /\ swept[r].offer = rooms[r].offer
        <3>1. /\ swept[r].status = IF r \in closed THEN "closed" ELSE IF r \in DOMAIN made THEN "open" ELSE rooms[r].status
              /\ swept[r].offer = IF r \in DOMAIN made THEN NoTicket ELSE rooms[r].offer
            BY SweptFacts
        <3>2. swept[r].status = "none"
            BY <1>1
        <3> HIDE DEF swept
        <3> QED BY <3>1, <3>2
    <2>2. r \notin Rooms \cup DOMAIN made
        BY <2>1 DEF Rooms
    <2>3. <<r, rooms'[r].offer>> \notin signed
        <3> DEFINE s == <<r, rooms'[r].offer>>
                   known == Rooms \cup DOMAIN made
        <3>1. known \in SUBSET RoomIds /\ s[1] = r /\ r \notin known
            BY <2>2, MadeFacts DEF Rooms
        <3>2. s \in signed => s \in Signed(swept, SeenNow(snap), known, eligible)
            BY DEF SignedNow
        <3> HIDE DEF s, swept, known, signed
        <3>3. s \notin signed
            BY <3>1, <3>2, SignedFacts
        <3> QED BY <3>3 DEF s
    <2> QED BY <1>1, <1>2, <2>1, <2>3 DEF OffersInRooms
<1> HIDE DEF swept, signed
<1>4. ASSUME NEW t \in Tickets, IsNew(t, signed) PROVE Followed(t)'
    <2>1. /\ \E r \in RoomIds : rooms'[r].offer = t
          /\ offers'[t].status = "offered" /\ engine'[t] = NoMatch /\ results'[t] = NoResult
        BY <1>4 DEF IsNew
    <2> QED BY <2>1 DEF Followed, NoMatch, NoResult
<1>5. ASSUME NEW t \in Tickets, IsDead(t) PROVE Followed(t)'
    <2>1. offers'[t].status = "cancelled" /\ age'[t] = 4 /\ engine'[t] = NoMatch /\ results'[t] = NoResult
        BY <1>5 DEF IsDead, NoOffer
    <2> QED BY <2>1 DEF Followed, NoMatch, NoResult
<1>6. ASSUME NEW t \in Tickets, IsKept(t, snap) PROVE Followed(t)'
    <2> DEFINE seen == ObservedOffer(t, snap[t])
    <2>1. Followed(t) /\ age[t] \in 0..4 /\ t # NoTicket
        BY <1>2, LobbyConstants DEF SeatInv, Types
    <2>2. /\ offers'[t] = seen /\ age'[t] = IF age[t] = 2 THEN 3 ELSE age[t]
          /\ engine'[t] = engine[t]
          /\ results'[t] = IF snap[t] \in {3, 4} /\ results[t].state = "none"
                     THEN [NoResult EXCEPT !.state = "pending"] ELSE results[t]
        BY <1>6 DEF IsKept
    <2>3. snap[t] \in {3, 4} => engine[t].phase = snap[t]
        BY SnapshotFacts, ReadingFacts
    <2>4. seen.status = IF snap[t] = 2 THEN "active"
                        ELSE IF Ended(t, snap[t]) THEN IF snap[t] = 3 THEN "complete" ELSE "cancelled"
                        ELSE IF Unstarted(t, snap[t]) THEN "cancelled" ELSE offers[t].status
        BY ObservedOfferFacts
    <2> HIDE DEF seen
    <2>5. results'[t].state # "none" => engine'[t].phase \in {3, 4}
        BY <2>1, <2>2, <2>3 DEF Followed, NoResult
    <2>6. results'[t].state = "recorded" =>
              results'[t].phase = engine'[t].phase /\ results'[t].winner = engine'[t].winner
        BY <2>1, <2>2 DEF Followed, NoResult
    <2>7. engine'[t].phase = 2 \/ (engine'[t].phase \in {0, 1} /\ age'[t] = 0) =>
              \E r \in RoomIds : rooms'[r].offer = t
        <3> SUFFICES ASSUME engine[t].phase = 2 \/ (engine[t].phase \in {0, 1} /\ age[t] = 0)
                     PROVE  \E r \in RoomIds : rooms'[r].offer = t
            BY <2>1, <2>2
        <3>1. PICK r \in RoomIds : rooms[r].offer = t
            BY <2>1 DEF Followed
        <3>2. rooms'[r].offer = t
            BY <3>1, CycleReplaces
        <3> QED BY <3>2
    <2>8. offers'[t].status = "complete" => engine'[t].phase = 3
        BY <2>1, <2>2, <2>3, <2>4 DEF Followed, Ended
    <2>9. offers'[t].status = "cancelled" /\ engine'[t].phase = 2 => age'[t] \in 0..2
        <3>1. engine[t].phase = 2 /\ seen.status = "cancelled" => age[t] \in {0, 1}
            BY NotOverYet DEF seen
        <3> QED BY <2>1, <2>2, <3>1
    <2> QED BY <2>5, <2>6, <2>7, <2>8, <2>9 DEF Followed
<1> QED BY <1>1, <1>2, <1>3, <1>4, <1>5, <1>6

\* The engine keeps a played match watched: a match begins with a ticket that is
\* fresh, and what is over stays as it was.
LEMMA GameKeepsWatching ==
    ASSUME SeatInv, Watching, Game
    PROVE  Watching'
<1>1. rollbacks \in Nat /\ engine \in [Tickets -> Match]
    BY DEF SeatInv, Types
<1>2. ASSUME NEW t \in Tickets, NEW phase \in 0..2, Rollback(t, phase) PROVE Watching'
    <2>1. rollbacks' # 0
        BY <1>1, <1>2 DEF Rollback
    <2> QED BY <2>1 DEF Watching
<1>3. ASSUME NEW t \in Tickets, NEW match, Engine(t, match),
             \/ engine[t].phase \in {0, 1} /\ age[t] = 0 /\ match.phase \in {1, 2}
             \/ engine[t].phase = 1 /\ match.phase = 4
             \/ engine[t].phase = 2 /\ match.phase \in {3, 4}
      PROVE  Watching'
    <2>1. UNCHANGED <<rooms, offers, age, results, audit, rollbacks>>
          /\ engine' = [engine EXCEPT ![t] = match]
        BY <1>3 DEF Engine, docVars
    <2> SUFFICES ASSUME rollbacks = 0
                 PROVE  audit' = NoAudit /\ OffersInRooms' /\ \A u \in Tickets : Followed(u)'
        BY <2>1 DEF Watching
    <2>2. audit = NoAudit /\ OffersInRooms /\ \A u \in Tickets : Followed(u)
        BY DEF Watching
    <2>3. ASSUME NEW u \in Tickets PROVE Followed(u)'
        <3>1. CASE u # t
            <4>1. engine'[u] = engine[u] /\ Followed(u)
                BY <1>1, <2>1, <2>2, <3>1
            <4> QED BY <2>1, <4>1 DEF Followed
        <3>2. CASE u = t
            <4>1. engine'[t] = match /\ Followed(t)
                BY <1>1, <2>1, <2>2
            <4> QED BY <1>3, <2>1, <3>2, <4>1 DEF Followed
        <3> QED BY <3>1, <3>2
    <2> QED BY <2>1, <2>2, <2>3 DEF OffersInRooms
<1>4. ASSUME NEW t \in Tickets, NEW p \in Players, AcceptMatch(p, t) PROVE Watching'
    <2>1. PICK phase \in {1, 2} : \E acc \in {{p}, Pair(t)} :
                /\ engine[t].phase \in {0, 1} /\ age[t] = 0
                /\ Engine(t, [engine[t] EXCEPT !.phase = phase, !.acc = acc])
        BY <1>4 DEF AcceptMatch
    <2>3. PICK acc \in {{p}, Pair(t)} :
                /\ engine[t].phase \in {0, 1} /\ age[t] = 0
                /\ Engine(t, [engine[t] EXCEPT !.phase = phase, !.acc = acc])
        BY <2>1
    <2>2. [engine[t] EXCEPT !.phase = phase, !.acc = acc].phase = phase
        BY <1>1 DEF Match
    <2> QED BY <1>3, <2>3, <2>2
<1>5. ASSUME NEW t \in Tickets, CancelMatch(t) PROVE Watching'
    <2>1. [engine[t] EXCEPT !.phase = 4].phase = 4
        BY <1>1 DEF Match
    <2> QED BY <1>3, <1>5, <2>1 DEF CancelMatch
<1>6. ASSUME NEW t \in Tickets, NEW w, FinishMatch(t, w) PROVE Watching'
    <2>1. PICK phase \in {3, 4} : Engine(t, [engine[t] EXCEPT !.phase = phase, !.winner = w])
        BY <1>6 DEF FinishMatch
    <2>2. [engine[t] EXCEPT !.phase = phase, !.winner = w].phase = phase
        BY <1>1 DEF Match
    <2> QED BY <1>3, <1>6, <2>1, <2>2 DEF FinishMatch
<1> QED BY <1>2, <1>4, <1>5, <1>6 DEF Game

\* Every step keeps a played match watched.
LEMMA StepKeepsWatching ==
    ASSUME PromptCycles, SeatInv, Watching, [Next]_vars
    PROVE  Watching'
<1>0. age \in [Tickets -> 0..4] /\ results \in [Tickets -> Result] /\ rollbacks \in Nat
    BY DEF SeatInv, Types
<1>1. CASE \E p \in Players : Route(p)
    BY <1>1, RouteKeepsWatching
<1>2. CASE Commit
    <2>1. PICK snap \in Snapshots(Watched), gone \in SUBSET ToSet(queue),
               eligible \in {e \in SUBSET Players : Cardinality(e) # 1}, closed \in SUBSET Quiet :
               \E made \in Matchings(Unless(queue, gone)) :
                   MaintenanceCycle(snap, made, Unless(queue, gone), eligible, closed)
        BY <1>2 DEF Commit
    <2>2. Unless(queue, gone) \in Lines /\ ToSet(Unless(queue, gone)) \subseteq ToSet(queue)
        BY UnlessSome DEF SeatInv, Types
    <2> QED BY <2>1, <2>2, CycleKeepsWatching
<1>3. CASE RestoreContestedMatch
    BY <1>3 DEF RestoreContestedMatch, Watching, engineVars
<1>4. ASSUME NEW t \in Tickets, RecordResult(t) PROVE Watching'
    <2>1. /\ results[t].state = "pending"
          /\ results' = [results EXCEPT ![t] =
                 [state |-> "recorded", phase |-> engine[t].phase, winner |-> engine[t].winner]]
          /\ UNCHANGED <<rooms, offers, age, audit, engine, rollbacks>>
        BY <1>4 DEF RecordResult, docVars, engineVars
    <2>2. ASSUME NEW u \in Tickets, Followed(u) PROVE Followed(u)'
        <3>1. CASE u # t
            <4>1. results'[u] = results[u]
                BY <1>0, <2>1, <3>1
            <4> QED BY <2>1, <2>2, <4>1 DEF Followed
        <3>2. CASE u = t
            <4>1. results'[t] = [state |-> "recorded", phase |-> engine[t].phase, winner |-> engine[t].winner]
                BY <1>0, <2>1
            <4> QED BY <2>1, <2>2, <3>2, <4>1 DEF Followed
        <3> QED BY <3>1, <3>2
    <2> QED BY <2>1, <2>2 DEF Watching, OffersInRooms
<1>5. ASSUME NEW t \in Tickets, Contest(t) PROVE Watching'
    <2>1. ~Followed(t) /\ rollbacks' = rollbacks
        BY <1>5 DEF Contest, Followed, engineVars
    <2> QED BY <2>1 DEF Watching
<1>6. CASE Game
    BY <1>6, GameKeepsWatching
<1>7. ASSUME NEW t \in Tickets, GrowOlder(t) PROVE Watching'
    <2>1. age[t] \in {0, 1, 3} /\ age' = [age EXCEPT ![t] = @ + 1]
          /\ UNCHANGED <<rooms, offers, results, audit, engine, rollbacks>>
        BY <1>7 DEF GrowOlder, docVars, engineVars
    <2>2. ASSUME NEW u \in Tickets, Followed(u) PROVE Followed(u)'
        <3>1. CASE u # t
            <4>1. age'[u] = age[u]
                BY <1>0, <2>1, <3>1
            <4> QED BY <2>1, <2>2, <4>1 DEF Followed
        <3>2. CASE u = t
            <4>1. age'[t] = age[t] + 1
                BY <1>0, <2>1
            <4>2. age'[t] # 0 /\ (age[t] \in 0..2 => age'[t] \in 0..2)
                BY <2>1, <4>1
            <4> QED BY <2>1, <2>2, <3>2, <4>2 DEF Followed
        <3> QED BY <3>1, <3>2
    <2> QED BY <2>1, <2>2 DEF Watching, OffersInRooms
<1>8. ASSUME UNCHANGED <<rooms, offers, age, results, audit, engine, rollbacks>> PROVE Watching'
    BY <1>8 DEF Watching, OffersInRooms, Followed
<1>9. ASSUME NEW i \in invites, InvitationExpires(i) PROVE Watching'
    BY <1>8, <1>9 DEF InvitationExpires, Lobby, engineVars
<1>10. CASE UNCHANGED vars
    BY <1>8, <1>10 DEF vars, docVars, engineVars
<1> QED BY <1>1, <1>2, <1>3, <1>4, <1>5, <1>6, <1>7, <1>9, <1>10 DEF Next, Maintenance, Time

\* At first nothing is played.
LEMMA InitWatching ==
    ASSUME Init
    PROVE  Watching
BY DEF Init, Watching, OffersInRooms, Followed, NoRoom, NoOffer, NoMatch, NoResult

\* Then every match that is played is watched.
LEMMA WatchedWhilePlayed ==
    ASSUME SeatInv, Watching
    PROVE  PlayIsWatched
<1> SUFFICES ASSUME rollbacks = 0, NEW t \in Tickets, engine[t].phase = 2
             PROVE  t \in Watched
    BY DEF PlayIsWatched
<1>1. OffersInRooms /\ Followed(t) /\ t # NoTicket /\ age[t] \in 0..4
    BY LobbyConstants DEF Watching, SeatInv, Types
<1>2. PICK r \in RoomIds : rooms[r].offer = t
    BY <1>1 DEF Followed
<1>3. r \in Rooms
    BY <1>1, <1>2 DEF OffersInRooms, Rooms
<1>4. offers[t].status # "complete" /\ (offers[t].status = "cancelled" => age[t] < 4)
    BY <1>1 DEF Followed
<1> QED BY <1>2, <1>3, <1>4 DEF Watched

\* A step replaces a room's ticket only when no match of it is played and it can
\* no longer be redeemed.
LEMMA StepOutlives ==
    ASSUME PromptCycles, SeatInv, Watching, [Next]_vars
    PROVE  TicketsOutlived
<1> SUFFICES ASSUME rollbacks = 0, NEW r \in RoomIds, rooms[r].offer # NoTicket,
                    rooms'[r].offer # rooms[r].offer
             PROVE  LET t == rooms[r].offer
                    IN  engine[t].phase # 2 /\ (age[t] >= 1 \/ engine[t].phase >= 3)
    BY DEF TicketsOutlived
<1> DEFINE t == rooms[r].offer
<1>1. t \in Tickets /\ age[t] \in 0..4 /\ engine[t].phase \in 0..4
    BY DEF SeatInv, Types, Room, Match
<1>2. audit = NoAudit /\ OffersInRooms
    BY DEF Watching
<1>3. ASSUME NEW p \in Players, Route(p) PROVE FALSE
    <2>1. \/ rooms'[r].offer = rooms[r].offer /\ rooms'[r].status = rooms[r].status
          \/ rooms[r].status = "none" /\ rooms'[r].status = "open" /\ rooms'[r].offer = NoTicket
        BY <1>3, RouteEffects
    <2> QED BY <1>2, <2>1 DEF OffersInRooms
<1>4. ~RestoreContestedMatch
    BY <1>2 DEF RestoreContestedMatch
<1>5. rooms' # rooms
    OBVIOUS
<1>6. Commit
    <2>1. ~(Game \/ Time \/ (\E u \in Tickets : RecordResult(u) \/ Contest(u)) \/ UNCHANGED vars)
        BY <1>5 DEF Game, Time, AcceptMatch, CancelMatch, FinishMatch, Rollback, Engine, RecordResult, Contest,
                    GrowOlder, InvitationExpires, docVars, vars
    <2> QED BY <1>3, <1>4, <2>1 DEF Next, Maintenance
<1>7. PICK snap \in Snapshots(Watched), gone \in SUBSET ToSet(queue),
           eligible \in {e \in SUBSET Players : Cardinality(e) # 1}, closed \in SUBSET Quiet :
           \E made \in Matchings(Unless(queue, gone)) :
               MaintenanceCycle(snap, made, Unless(queue, gone), eligible, closed)
    BY <1>6 DEF Commit
<1>8. Unless(queue, gone) \in Lines /\ ToSet(Unless(queue, gone)) \subseteq ToSet(queue)
    BY UnlessSome DEF SeatInv, Types
<1>9. engine[t].phase # 2 /\ ~(engine[t].phase \in {0, 1} /\ age[t] = 0)
    BY <1>1, <1>7, <1>8, CycleReplaces
<1> HIDE DEF t
<1>10. engine[t].phase # 2 /\ (age[t] >= 1 \/ engine[t].phase >= 3)
    BY <1>1, <1>9
<1> QED BY <1>10 DEF t

\* The invariant of the matches that are played.
LEMMA WatchingKept == PromptCycles => (Spec => [](SeatInv /\ Watching))
<1> SUFFICES ASSUME PromptCycles PROVE Spec => [](SeatInv /\ Watching)
    OBVIOUS
<1>1. Init => SeatInv /\ Watching
    BY InitSeats, InitWatching
<1>2. SeatInv /\ Watching /\ [Next]_vars => SeatInv' /\ Watching'
    BY StepKeepsSeats, StepKeepsWatching
<1> QED BY <1>1, <1>2, PTL DEF Spec

\* A match being played is one that the coordinator still looks at, although its
\* ticket may have been given up here on evidence read before the consents, as
\* long as a cycle commits within three seconds of its reads.
THEOREM PlayAlwaysWatched == PromptCycles => (Spec => []PlayIsWatched)
<1>1. SeatInv /\ Watching => PlayIsWatched
    BY WatchedWhilePlayed
<1> QED BY <1>1, WatchingKept, PTL

\* A room's ticket is replaced only when it can no longer be redeemed and no match
\* of it is being played, as long as a cycle commits within three seconds of its
\* reads.
THEOREM TicketsOutliveMatches == PromptCycles => (Spec => [][TicketsOutlived]_vars)
<1> SUFFICES ASSUME PromptCycles PROVE Spec => [][TicketsOutlived]_vars
    OBVIOUS
<1>1. SeatInv /\ Watching /\ [Next]_vars => [TicketsOutlived]_vars
    BY StepOutlives
<1>2. Spec => [](SeatInv /\ Watching)
    BY WatchingKept
<1> QED BY <1>1, <1>2, PTL DEF Spec

-----------------------------------------------------------------------------
CONSTANTS Duels, MaxTerm, MaxCommand, MaxDeath
VARIABLES delegation, hosted, passes, commands, writing, memory, lifeStage, minute,
          closeStep, filed, hostAsk, madeSessions, deaths

Hosted == INSTANCE RoomsEngine WITH Matches <- Duels, MaxEpoch <- MaxTerm,
            MaxJobs <- MaxCommand, MaxCrashes <- MaxDeath, hub <- delegation, node <- hosted,
            ticket <- passes, jobs <- commands, op <- writing, mem <- memory,
            stage <- lifeStage, waited <- minute, cyc <- closeStep, txs <- filed,
            prov <- hostAsk, created <- madeSessions, crashes <- deaths

-----------------------------------------------------------------------------
(* The engine's lifecycle (RoomsEngine). *)

HubRows == [epoch : Nat, status : 0..2, due : BOOLEAN, unlocked : BOOLEAN, final : SUBSET Duels]
NodeRows == [epoch : Nat, nonce : Nat, live : SUBSET Duels, over : SUBSET Duels, diffs : BOOLEAN]
Command == [epoch : Nat, nonce : Nat, match : Duels, act : {"tick", "other"},
            status : {"pending", "observed", "failed", "quarantined", "obsolete"},
            sent : BOOLEAN, exec : {"none", "ok", "reverted"}]
Memory == [last : Nat, closing : Nat, seen : SUBSET Duels]
Filing == [status : {"none", "pending", "confirmed"}, mined : BOOLEAN]

HostedTypes ==
  /\ delegation \in HubRows /\ hosted \in NodeRows /\ memory \in Memory
  /\ commands \in Seq(Command) /\ filed \in [Hosted!Kinds -> Filing]
  /\ writing \in [pc : {"idle", "sign", "send"}, match : Duels \cup {0}, act : {"tick", "other"},
                  nonce : Nat, job : Nat]
  /\ writing.pc = "sign" => writing.match \in Duels
  /\ minute \in BOOLEAN /\ madeSessions \in Nat
  /\ delegation.epoch > 0 /\ hosted.epoch <= delegation.epoch

Executed(j) == commands[j].exec # "none"

\* The nonce the writer read belongs to nobody, and a command that was not executed
\* is looked for first.
Numbered ==
  /\ memory.seen # {} => memory.last = hosted.epoch
  /\ writing.pc = "sign" => /\ memory.last = hosted.epoch /\ writing.nonce = hosted.nonce
                            /\ \A j \in DOMAIN commands : commands[j].epoch = hosted.epoch => Executed(j)
  /\ \A j \in DOMAIN commands :
       /\ commands[j].epoch <= hosted.epoch
       /\ Executed(j) /\ commands[j].epoch = hosted.epoch => commands[j].nonce < hosted.nonce
       /\ commands[j].status \in {"observed", "failed"} => Executed(j)

\* A command that the closing put aside.
Shelved ==
  \E j \in DOMAIN commands : /\ commands[j].epoch = hosted.epoch
                             /\ commands[j].status \in {"quarantined", "obsolete"}
\* From the second check of a closing on, the arena of the epoch stands still.
Ending == \/ closeStep = "checked" \/ filed["close"].status = "pending"
          \/ delegation.status # 1 \/ ~Hosted!Synced \/ Shelved
Still ==
  /\ hosted.live = {} /\ passes = {} /\ writing.pc # "sign"
  /\ memory.closing # 0 \/ memory.seen = {}
  /\ (lifeStage = "draining" /\ minute) \/ delegation.status # 1 \/ ~Hosted!Synced
Closing ==
  /\ Ending => Still
  /\ filed["close"].status = "pending" \/ delegation.status # 1 => ~hosted.diffs
  /\ lifeStage = "draining" /\ minute => passes = {}
  /\ closeStep # "idle" =>
       /\ lifeStage = "draining" /\ minute /\ memory.closing = delegation.epoch /\ Hosted!Synced
       /\ delegation.status = 1 /\ Hosted!NoTxPending /\ hosted.live = {}
  /\ (delegation.status = 2 /\ delegation.unlocked) \/ delegation.status = 0 \/ ~Hosted!Synced
       => memory.seen = {}

\* The stage follows the hub.
Phased ==
  /\ ~Hosted!Synced => delegation.status = 1 /\ lifeStage \in {"renewing", "starting"}
  /\ filed["close"].mined => delegation.status # 1
  /\ filed["close"].status = "confirmed" => filed["close"].mined
  /\ filed["close"].status = "pending" => lifeStage = "draining"
  /\ delegation.status = 2 => lifeStage \in {"draining", "challenge", "finalizing"}
  /\ delegation.status = 0 => lifeStage \in {"draining", "challenge", "finalizing", "renewing"}
  /\ lifeStage = "renewing" /\ delegation.status = 0 => hosted.over \subseteq delegation.final
  /\ filed["renew"].status = "pending" => lifeStage = "renewing" /\ delegation.status = 0
  /\ hostAsk \in {"none", "rejected"} => madeSessions = 0
  /\ madeSessions <= 1

HostedInv == HostedTypes /\ Numbered /\ Closing /\ Phased /\ Hosted!NonceOwnedOnce

\* The coordinator starts on an engine that is new and loaded.
LEMMA HostedInit == Hosted!Init => HostedInv
<1> SUFFICES ASSUME Hosted!Init PROVE HostedInv
    OBVIOUS
<1> USE DEF Hosted!Init
<1>1. HostedTypes
    <2>1. delegation \in HubRows /\ hosted \in NodeRows /\ memory \in Memory
        BY DEF HubRows, NodeRows, Memory, Hosted!Fresh
    <2>2. filed \in [Hosted!Kinds -> Filing]
        BY DEF Filing, Hosted!NoTx
    <2>3. commands \in Seq(Command)
        <3> HIDE DEF Command
        <3> QED OBVIOUS
    <2>4. writing \in [pc : {"idle", "sign", "send"}, match : Duels \cup {0}, act : {"tick", "other"},
                       nonce : Nat, job : Nat]
          /\ writing.pc = "idle"
        BY DEF Hosted!NoOp
    <2>5. minute \in BOOLEAN
        BY Zenon
    <2>6. madeSessions \in Nat /\ delegation.epoch > 0 /\ hosted.epoch <= delegation.epoch
        OBVIOUS
    <2> QED BY <2>1, <2>2, <2>3, <2>4, <2>5, <2>6 DEF HostedTypes
<1>2. Numbered
    BY DEF Numbered, Hosted!Fresh, Hosted!NoOp
<1>3. Closing
    BY DEF Closing, Ending, Shelved, Hosted!Synced, Hosted!NoTx, Hosted!Kinds, Hosted!NoTxPending
<1>4. Phased
    BY DEF Phased, Hosted!Synced, Hosted!NoTx, Hosted!Kinds
<1> QED BY <1>1, <1>2, <1>3, <1>4 DEF HostedInv, Hosted!NonceOwnedOnce

-----------------------------------------------------------------------------
\* What an edit of some rows leaves in place.
LEMMA CommandsEdited ==
    ASSUME NEW s \in Seq(Command), NEW t, t = [j \in DOMAIN s |-> t[j]],
           \A j \in DOMAIN s : t[j] \in Command
    PROVE  t \in Seq(Command) /\ DOMAIN t = DOMAIN s
<1>1. DOMAIN s = 1..Len(s) /\ Len(s) \in Nat
    OBVIOUS
<1>2. t \in [1..Len(s) -> Command]
    <2> HIDE DEF Command
    <2> QED BY <1>1
<1>3. t \in Seq(Command)
    <2> HIDE DEF Command
    <2> QED BY <1>1, <1>2, SMT
<1>4. DOMAIN t = DOMAIN s
    BY <1>2, <1>1
<1> QED BY <1>3, <1>4

\* A new status of one of the operator's transactions.
LEMMA FilingEdited ==
    ASSUME NEW f \in [Hosted!Kinds -> Filing], NEW k \in Hosted!Kinds,
           NEW st \in {"none", "pending", "confirmed"}
    PROVE  /\ [f EXCEPT ![k].status = st] \in [Hosted!Kinds -> Filing]
           /\ \A x \in Hosted!Kinds : /\ x # k => [f EXCEPT ![k].status = st][x] = f[x]
                                     /\ [f EXCEPT ![k].status = st][k].status = st
                                     /\ [f EXCEPT ![k].status = st][k].mined = f[k].mined
BY DEF Filing

\* A ticket is signed only while nothing has begun to close.
LEMMA OnSignTicket == ASSUME HostedInv, NEW m \in Duels, Hosted!SignTicket(m) PROVE HostedInv'
<1> USE DEF HostedInv, Hosted!SignTicket, Hosted!writerVars, Hosted!lifeVars, Hosted!Life,
            Hosted!Kept, Hosted!Cycle, Hosted!Enter, Hosted!Submit, Hosted!Synced,
            Hosted!NoTxPending, Hosted!Kinds
<1>1. HostedTypes'
    BY DEF HostedTypes, HubRows, NodeRows, Memory, Filing
<1>2. Numbered'
    BY DEF HostedTypes, HubRows, NodeRows, Memory, Filing, Numbered, Executed, Closing, Ending,
           Still, Shelved
<1>3. Shelved' => Shelved
    BY DEF HostedTypes, HubRows, NodeRows, Memory, Filing, Shelved, Numbered
<1>4. Closing'
    BY <1>3 DEF HostedTypes, HubRows, NodeRows, Memory, Filing, Closing, Ending, Still, Phased
<1>5. Phased'
    BY DEF HostedTypes, HubRows, NodeRows, Memory, Filing, Phased, Closing
<1>6. Hosted!NonceOwnedOnce'
    BY DEF Hosted!NonceOwnedOnce
<1> QED BY <1>1, <1>2, <1>4, <1>5, <1>6

\* A ticket runs out.
LEMMA OnTicketExpires ==
    ASSUME HostedInv, NEW m \in Duels, Hosted!TicketExpires(m)
    PROVE  HostedInv'
<1> USE DEF HostedInv, Hosted!TicketExpires, Hosted!writerVars, Hosted!lifeVars, Hosted!Life,
            Hosted!Kept, Hosted!Cycle, Hosted!Enter, Hosted!Submit, Hosted!Synced,
            Hosted!NoTxPending, Hosted!Kinds
<1>1. HostedTypes'
    BY DEF HostedTypes, HubRows, NodeRows, Memory, Filing
<1>2. Numbered'
    BY DEF HostedTypes, HubRows, NodeRows, Memory, Filing, Numbered, Executed, Closing, Ending,
           Still, Shelved
<1>3. Shelved' => Shelved
    BY DEF HostedTypes, HubRows, NodeRows, Memory, Filing, Shelved, Numbered
<1>4. Closing'
    BY <1>3 DEF HostedTypes, HubRows, NodeRows, Memory, Filing, Closing, Ending, Still, Phased
<1>5. Phased'
    BY DEF HostedTypes, HubRows, NodeRows, Memory, Filing, Phased, Closing
<1>6. Hosted!NonceOwnedOnce'
    BY DEF Hosted!NonceOwnedOnce
<1> QED BY <1>1, <1>2, <1>4, <1>5, <1>6

\* The players create the match of their ticket: the arena is not ending then.
LEMMA OnRedeem == ASSUME HostedInv, NEW m \in Duels, Hosted!Redeem(m) PROVE HostedInv'
<1> USE DEF HostedInv, Hosted!Redeem, Hosted!writerVars, Hosted!lifeVars, Hosted!Life,
            Hosted!Kept, Hosted!Cycle, Hosted!Enter, Hosted!Submit, Hosted!Synced,
            Hosted!NoTxPending, Hosted!Kinds
<1>1. HostedTypes'
    BY DEF HostedTypes, HubRows, NodeRows, Memory, Filing
<1>2. Numbered'
    BY DEF HostedTypes, HubRows, NodeRows, Memory, Filing, Numbered, Executed, Closing, Ending,
           Still, Shelved
<1>3. Shelved' => Shelved
    BY DEF HostedTypes, HubRows, NodeRows, Memory, Filing, Shelved, Numbered
<1>4. Closing'
    BY <1>3 DEF HostedTypes, HubRows, NodeRows, Memory, Filing, Closing, Ending, Still, Phased
<1>5. Phased'
    BY DEF HostedTypes, HubRows, NodeRows, Memory, Filing, Phased, Closing
<1>6. Hosted!NonceOwnedOnce'
    BY DEF Hosted!NonceOwnedOnce
<1> QED BY <1>1, <1>2, <1>4, <1>5, <1>6

\* A match ends on the engine.
LEMMA OnMatchEnds == ASSUME HostedInv, NEW m \in Duels, Hosted!MatchEnds(m) PROVE HostedInv'
<1> USE DEF HostedInv, Hosted!MatchEnds, Hosted!writerVars, Hosted!lifeVars, Hosted!Life,
            Hosted!Kept, Hosted!Cycle, Hosted!Enter, Hosted!Submit, Hosted!Synced,
            Hosted!NoTxPending, Hosted!Kinds
<1>1. HostedTypes'
    BY DEF HostedTypes, HubRows, NodeRows, Memory, Filing
<1>2. Numbered'
    BY DEF HostedTypes, HubRows, NodeRows, Memory, Filing, Numbered, Executed, Closing, Ending,
           Still, Shelved
<1>3. Shelved' => Shelved
    BY DEF HostedTypes, HubRows, NodeRows, Memory, Filing, Shelved, Numbered
<1>4. Closing'
    BY <1>3 DEF HostedTypes, HubRows, NodeRows, Memory, Filing, Closing, Ending, Still, Phased
<1>5. Phased'
    BY DEF HostedTypes, HubRows, NodeRows, Memory, Filing, Phased, Closing, Ending, Still
<1>6. Hosted!NonceOwnedOnce'
    BY DEF Hosted!NonceOwnedOnce
<1> QED BY <1>1, <1>2, <1>4, <1>5, <1>6

\* The engine publishes its changes while its delegation is active.
LEMMA OnPublish == ASSUME HostedInv, Hosted!Publish PROVE HostedInv'
<1> USE DEF HostedInv, Hosted!Publish, Hosted!writerVars, Hosted!lifeVars, Hosted!Life,
            Hosted!Kept, Hosted!Cycle, Hosted!Enter, Hosted!Submit, Hosted!Synced,
            Hosted!NoTxPending, Hosted!Kinds
<1>1. HostedTypes'
    BY DEF HostedTypes, HubRows, NodeRows, Memory, Filing
<1>2. Numbered'
    BY DEF HostedTypes, HubRows, NodeRows, Memory, Filing, Numbered, Executed, Closing, Ending,
           Still, Shelved
<1>3. Shelved' => Shelved
    BY DEF HostedTypes, HubRows, NodeRows, Memory, Filing, Shelved, Numbered
<1>4. Closing'
    BY <1>3 DEF HostedTypes, HubRows, NodeRows, Memory, Filing, Closing, Ending, Still, Phased
<1>5. Phased'
    BY DEF HostedTypes, HubRows, NodeRows, Memory, Filing, Phased, Closing
<1>6. Hosted!NonceOwnedOnce'
    BY DEF Hosted!NonceOwnedOnce
<1> QED BY <1>1, <1>2, <1>4, <1>5, <1>6

\* The host loads the renewed delegation, whose epoch knows no match and no command.
LEMMA OnNodeLoads == ASSUME HostedInv, Hosted!NodeLoads PROVE HostedInv'
<1> USE DEF HostedInv, Hosted!NodeLoads, Hosted!writerVars, Hosted!lifeVars, Hosted!Life,
            Hosted!Kept, Hosted!Cycle, Hosted!Enter, Hosted!Submit, Hosted!Synced,
            Hosted!NoTxPending, Hosted!Kinds
<1>0. PICK fresh \in {0, hosted.nonce} :
        hosted' = [hosted EXCEPT !.epoch = delegation.epoch, !.nonce = fresh, !.diffs = FALSE]
    OBVIOUS
<1> HIDE DEF Hosted!NodeLoads
<1>a. /\ hosted' \in NodeRows /\ hosted'.epoch = delegation.epoch /\ hosted'.diffs = FALSE
      /\ hosted'.live = hosted.live /\ hosted'.over = hosted.over
    <2>1. hosted \in NodeRows /\ delegation.epoch \in Nat /\ fresh \in Nat
        BY DEF HostedTypes, NodeRows, HubRows
    <2> QED BY <1>0, <2>1 DEF NodeRows
<1>b. /\ hosted.epoch < delegation.epoch
      /\ UNCHANGED <<delegation, commands, passes, writing, memory, lifeStage, minute, closeStep, filed,
                     hostAsk, madeSessions>>
    BY DEF Hosted!NodeLoads, HostedTypes, NodeRows, HubRows
<1>1. HostedTypes'
    BY <1>a, <1>b DEF HostedTypes, HubRows
<1>c. \A j \in DOMAIN commands : commands[j] \in Command /\ commands[j].epoch < hosted'.epoch
    <2> SUFFICES ASSUME NEW j \in DOMAIN commands
                 PROVE  commands[j] \in Command /\ commands[j].epoch < hosted'.epoch
        OBVIOUS
    <2>1. commands[j] \in Command
        <3> HIDE DEF Command
        <3> QED BY DEF HostedTypes
    <2>2. commands[j].epoch <= hosted.epoch
        BY DEF Numbered
    <2> QED BY <1>a, <1>b, <2>1, <2>2 DEF HostedTypes, HubRows, NodeRows, Command
<1>d. Still /\ memory.seen = {}
    BY <1>b DEF Closing, Ending, HostedTypes, HubRows, NodeRows
<1>2. Numbered'
    BY <1>a, <1>b, <1>c, <1>d DEF Numbered, Executed, Still, HubRows, NodeRows, Command
<1>e. delegation.status = 1 /\ filed["close"].status # "pending" /\ closeStep = "idle"
    <2>1. ~Hosted!Synced
        BY DEF Hosted!NodeLoads
    <2> QED BY <2>1 DEF Phased, Closing
<1>f. Hosted!Synced' /\ ~Shelved'
    <2>1. ~Shelved'
        BY <1>c, <1>a, <1>b DEF Shelved, Command, HubRows
    <2> QED BY <1>a, <1>b, <2>1
<1>g. ~Ending'
    BY <1>b, <1>e, <1>f DEF Ending
<1>4. Closing'
    BY <1>a, <1>b, <1>d, <1>e, <1>f, <1>g DEF Closing, Still
<1>5. Phased'
    BY <1>a, <1>b DEF HostedTypes, HubRows, NodeRows, Memory, Filing, Phased, Closing
<1>6. Hosted!NonceOwnedOnce'
    BY <1>b DEF Hosted!NonceOwnedOnce
<1> QED BY <1>1, <1>2, <1>4, <1>5, <1>6

\* A maintenance cycle notes the engine's epoch and its matches.
LEMMA OnObserve == ASSUME HostedInv, Hosted!Observe PROVE HostedInv'
<1> USE DEF HostedInv, Hosted!Observe, Hosted!writerVars, Hosted!lifeVars, Hosted!Life,
            Hosted!Kept, Hosted!Cycle, Hosted!Enter, Hosted!Submit, Hosted!Synced,
            Hosted!NoTxPending, Hosted!Kinds, Hosted!Observed
<1>1. HostedTypes'
    BY DEF HostedTypes, HubRows, NodeRows, Memory, Filing
<1>2. Numbered'
    BY DEF HostedTypes, HubRows, NodeRows, Memory, Filing, Numbered, Executed, Closing, Ending,
           Still, Shelved
<1>3. Shelved' => Shelved
    BY DEF HostedTypes, HubRows, NodeRows, Memory, Filing, Shelved, Numbered
<1>4. Closing'
    BY <1>3 DEF HostedTypes, HubRows, NodeRows, Memory, Filing, Closing, Ending, Still, Phased
<1>5. Phased'
    BY DEF HostedTypes, HubRows, NodeRows, Memory, Filing, Phased, Closing
<1>6. Hosted!NonceOwnedOnce'
    BY DEF Hosted!NonceOwnedOnce
<1> QED BY <1>1, <1>2, <1>4, <1>5, <1>6

\* A nonce is read only when every command of the epoch was executed.
LEMMA OnStartTick ==
    ASSUME HostedInv, NEW m \in Duels, NEW act \in {"tick", "other"}, Hosted!StartTick(m, act)
    PROVE  HostedInv'
<1> USE DEF HostedInv, Hosted!StartTick, Hosted!writerVars, Hosted!lifeVars, Hosted!Life,
            Hosted!Kept, Hosted!Cycle, Hosted!Enter, Hosted!Submit, Hosted!Synced,
            Hosted!NoTxPending, Hosted!Kinds, Hosted!NoOp, Hosted!PendingJobs, Hosted!Pending
<1>1. HostedTypes'
    BY DEF HostedTypes, HubRows, NodeRows, Memory, Filing
<1>a. ~Shelved
    BY DEF Closing, Ending, Still
<1>b. \A j \in DOMAIN commands : commands[j].epoch = hosted.epoch => Executed(j)
    <2> SUFFICES ASSUME NEW j \in DOMAIN commands, commands[j].epoch = hosted.epoch
                 PROVE  Executed(j)
        OBVIOUS
    <2>1. commands[j] \in Command
        BY DEF HostedTypes
    <2>2. commands[j].status \notin {"quarantined", "obsolete"}
        BY <1>a DEF Shelved
    <2> QED BY <2>1, <2>2 DEF Command, Numbered
<1>2. Numbered'
    BY <1>b DEF HostedTypes, Numbered, Executed, Memory
<1>3. Shelved' => Shelved
    BY DEF HostedTypes, HubRows, NodeRows, Memory, Filing, Shelved, Numbered
<1>4. Closing'
    BY <1>3 DEF HostedTypes, HubRows, NodeRows, Memory, Filing, Closing, Ending, Still, Phased
<1>5. Phased'
    BY DEF HostedTypes, HubRows, NodeRows, Memory, Filing, Phased, Closing
<1>6. Hosted!NonceOwnedOnce'
    BY DEF Hosted!NonceOwnedOnce
<1> QED BY <1>1, <1>2, <1>4, <1>5, <1>6

\* A pending command is sent again with the bytes that were kept.
LEMMA OnStartResend == ASSUME HostedInv, Hosted!StartResend PROVE HostedInv'
<1> USE DEF HostedInv, Hosted!StartResend, Hosted!writerVars, Hosted!lifeVars, Hosted!Life,
            Hosted!Kept, Hosted!Cycle, Hosted!Enter, Hosted!Submit, Hosted!Synced,
            Hosted!NoTxPending, Hosted!Kinds, Hosted!NoOp, Hosted!PendingJobs, Hosted!Pending
<1>0. PICK j \in DOMAIN commands : writing' = [Hosted!NoOp EXCEPT !.pc = "send", !.job = j]
    OBVIOUS
<1>a. j \in Nat
    BY DEF HostedTypes
<1>1. HostedTypes'
    BY <1>0, <1>a DEF HostedTypes
<1>2. Numbered'
    BY DEF HostedTypes, HubRows, NodeRows, Memory, Filing, Numbered, Executed, Closing, Ending,
           Still, Shelved
<1>3. Shelved' => Shelved
    BY DEF HostedTypes, HubRows, NodeRows, Memory, Filing, Shelved, Numbered
<1>4. Closing'
    BY <1>3 DEF HostedTypes, HubRows, NodeRows, Memory, Filing, Closing, Ending, Still, Phased
<1>5. Phased'
    BY DEF HostedTypes, HubRows, NodeRows, Memory, Filing, Phased, Closing
<1>6. Hosted!NonceOwnedOnce'
    BY DEF Hosted!NonceOwnedOnce
<1> QED BY <1>1, <1>2, <1>4, <1>5, <1>6

\* A mined transaction of the operator's is settled.
LEMMA OnSettleTx ==
    ASSUME HostedInv, NEW k \in Hosted!Kinds, Hosted!SettleTx(k)
    PROVE  HostedInv'
<1> USE DEF HostedInv, Hosted!SettleTx, Hosted!writerVars, Hosted!lifeVars, Hosted!Life,
            Hosted!Kept, Hosted!Cycle, Hosted!Enter, Hosted!Submit, Hosted!Synced,
            Hosted!NoTxPending, Hosted!Kinds
<1>1. HostedTypes'
    BY DEF HostedTypes, HubRows, NodeRows, Memory, Filing
<1>2. Numbered'
    BY DEF HostedTypes, HubRows, NodeRows, Memory, Filing, Numbered, Executed, Closing, Ending,
           Still, Shelved
<1>3. Shelved' => Shelved
    BY DEF HostedTypes, HubRows, NodeRows, Memory, Filing, Shelved, Numbered
<1>4. Closing'
    BY <1>3 DEF HostedTypes, HubRows, NodeRows, Memory, Filing, Closing, Ending, Still, Phased
<1>5. Phased'
    BY DEF HostedTypes, HubRows, NodeRows, Memory, Filing, Phased, Closing
<1>6. Hosted!NonceOwnedOnce'
    BY DEF Hosted!NonceOwnedOnce
<1> QED BY <1>1, <1>2, <1>4, <1>5, <1>6

\* More than an hour is left: the writer is free.
LEMMA OnStayPlaying == ASSUME HostedInv, Hosted!StayPlaying PROVE HostedInv'
<1> USE DEF HostedInv, Hosted!StayPlaying, Hosted!writerVars, Hosted!lifeVars, Hosted!Life,
            Hosted!Kept, Hosted!Cycle, Hosted!Enter, Hosted!Submit, Hosted!Synced,
            Hosted!NoTxPending, Hosted!Kinds, Hosted!Ready
<1>1. HostedTypes'
    BY DEF HostedTypes, HubRows, NodeRows, Memory, Filing
<1>2. Numbered'
    BY DEF HostedTypes, HubRows, NodeRows, Memory, Filing, Numbered, Executed, Closing, Ending,
           Still, Shelved
<1>3. Shelved' => Shelved
    BY DEF HostedTypes, HubRows, NodeRows, Memory, Filing, Shelved, Numbered
<1>4. Closing'
    BY <1>3 DEF HostedTypes, HubRows, NodeRows, Memory, Filing, Closing, Ending, Still, Phased
<1>5. Phased'
    BY DEF HostedTypes, HubRows, NodeRows, Memory, Filing, Phased, Closing
<1>6. Hosted!NonceOwnedOnce'
    BY DEF Hosted!NonceOwnedOnce
<1> QED BY <1>1, <1>2, <1>4, <1>5, <1>6

\* The last hour begins.
LEMMA OnStartDraining == ASSUME HostedInv, Hosted!StartDraining PROVE HostedInv'
<1> USE DEF HostedInv, Hosted!StartDraining, Hosted!writerVars, Hosted!lifeVars, Hosted!Life,
            Hosted!Kept, Hosted!Cycle, Hosted!Enter, Hosted!Submit, Hosted!Synced,
            Hosted!NoTxPending, Hosted!Kinds
<1>1. HostedTypes'
    BY DEF HostedTypes, HubRows, NodeRows, Memory, Filing
<1>2. Numbered'
    BY DEF HostedTypes, HubRows, NodeRows, Memory, Filing, Numbered, Executed, Closing, Ending,
           Still, Shelved
<1>3. Shelved' => Shelved
    BY DEF HostedTypes, HubRows, NodeRows, Memory, Filing, Shelved, Numbered
<1>4. Closing'
    BY <1>3 DEF HostedTypes, HubRows, NodeRows, Memory, Filing, Closing, Ending, Still, Phased
<1>5. Phased'
    BY DEF HostedTypes, HubRows, NodeRows, Memory, Filing, Phased, Closing
<1>6. Hosted!NonceOwnedOnce'
    BY DEF Hosted!NonceOwnedOnce
<1> QED BY <1>1, <1>2, <1>4, <1>5, <1>6

\* The first check of a closing: nothing is played, signed or unpublished.
LEMMA OnFenceWriter == ASSUME HostedInv, Hosted!FenceWriter PROVE HostedInv'
<1> USE DEF HostedInv, Hosted!FenceWriter, Hosted!writerVars, Hosted!lifeVars, Hosted!Life,
            Hosted!Kept, Hosted!Cycle, Hosted!Enter, Hosted!Submit, Hosted!Synced,
            Hosted!NoTxPending, Hosted!Kinds, Hosted!Drained
<1>1. HostedTypes'
    BY DEF HostedTypes, HubRows, NodeRows, Memory, Filing
<1>2. Numbered'
    BY DEF HostedTypes, HubRows, NodeRows, Memory, Filing, Numbered, Executed, Closing, Ending,
           Still, Shelved
<1>3. Shelved' => Shelved
    BY DEF HostedTypes, HubRows, NodeRows, Memory, Filing, Shelved, Numbered
<1>4. Closing'
    BY <1>3 DEF HostedTypes, HubRows, NodeRows, Memory, Filing, Closing, Ending, Still, Phased
<1>5. Phased'
    BY DEF HostedTypes, HubRows, NodeRows, Memory, Filing, Phased, Closing
<1>6. Hosted!NonceOwnedOnce'
    BY DEF Hosted!NonceOwnedOnce
<1> QED BY <1>1, <1>2, <1>4, <1>5, <1>6

\* The closing is submitted after the second check.
LEMMA OnCloseEngine == ASSUME HostedInv, Hosted!CloseEngine PROVE HostedInv'
<1> USE DEF HostedInv, Hosted!CloseEngine, Hosted!writerVars, Hosted!lifeVars, Hosted!Life,
            Hosted!Kept, Hosted!Cycle, Hosted!Enter, Hosted!Submit, Hosted!Synced,
            Hosted!NoTxPending, Hosted!Kinds, Hosted!Drained, Hosted!PendingJobs, Hosted!Pending
<1>0. /\ filed' \in [Hosted!Kinds -> Filing]
      /\ \A x \in Hosted!Kinds : x # "close" => filed'[x] = filed[x]
      /\ filed'["close"].mined = filed["close"].mined
      /\ filed'["close"].status \in {filed["close"].status, "pending"}
    <2>1. CASE filed' = filed
        BY <2>1 DEF HostedTypes
    <2>2. CASE filed' = [filed EXCEPT !["close"].status = IF @ = "none" THEN "pending" ELSE @]
        BY <2>2 DEF HostedTypes, Filing
    <2> QED BY <2>1, <2>2
<1>1. HostedTypes'
    BY <1>0 DEF HostedTypes
<1>2. Numbered'
    BY DEF HostedTypes, HubRows, NodeRows, Memory, Filing, Numbered, Executed, Closing, Ending,
           Still, Shelved
<1>3. Shelved' => Shelved
    BY DEF HostedTypes, HubRows, NodeRows, Memory, Filing, Shelved, Numbered
<1>4. Closing'
    BY <1>0, <1>3 DEF HostedTypes, HubRows, NodeRows, Memory, Filing, Closing, Ending, Still,
                      Phased
<1>5. Phased'
    BY <1>0 DEF HostedTypes, HubRows, NodeRows, Memory, Filing, Phased, Closing
<1>6. Hosted!NonceOwnedOnce'
    BY DEF Hosted!NonceOwnedOnce
<1> QED BY <1>1, <1>2, <1>4, <1>5, <1>6

\* The challenge window is waited for.
LEMMA OnChallenge == ASSUME HostedInv, Hosted!Challenge PROVE HostedInv'
<1> USE DEF HostedInv, Hosted!Challenge, Hosted!writerVars, Hosted!lifeVars, Hosted!Life,
            Hosted!Kept, Hosted!Cycle, Hosted!Enter, Hosted!Submit, Hosted!Synced,
            Hosted!NoTxPending, Hosted!Kinds
<1>0. /\ filed' \in [Hosted!Kinds -> Filing]
      /\ \A x \in Hosted!Kinds : x # "release" => filed'[x] = filed[x]
    <2>1. CASE filed' = filed
        BY <2>1 DEF HostedTypes
    <2>2. CASE filed' = [filed EXCEPT !["release"].status = IF @ = "none" THEN "pending" ELSE @]
        BY <2>2 DEF HostedTypes, Filing
    <2> QED BY <2>1, <2>2
<1>1. HostedTypes'
    BY <1>0 DEF HostedTypes
<1>2. Numbered'
    BY DEF HostedTypes, HubRows, NodeRows, Memory, Filing, Numbered, Executed, Closing, Ending,
           Still, Shelved
<1>3. Shelved' => Shelved
    BY DEF HostedTypes, HubRows, NodeRows, Memory, Filing, Shelved, Numbered
<1>4. Closing'
    BY <1>0, <1>3 DEF HostedTypes, HubRows, NodeRows, Memory, Filing, Closing, Ending, Still,
                      Phased
<1>5. Phased'
    BY <1>0 DEF HostedTypes, HubRows, NodeRows, Memory, Filing, Phased, Closing
<1>6. Hosted!NonceOwnedOnce'
    BY DEF Hosted!NonceOwnedOnce
<1> QED BY <1>1, <1>2, <1>4, <1>5, <1>6

\* The renewal is submitted once every result is final.
LEMMA OnRenewEngine == ASSUME HostedInv, Hosted!RenewEngine PROVE HostedInv'
<1> USE DEF HostedInv, Hosted!RenewEngine, Hosted!writerVars, Hosted!lifeVars, Hosted!Life,
            Hosted!Kept, Hosted!Cycle, Hosted!Enter, Hosted!Submit, Hosted!Synced,
            Hosted!NoTxPending, Hosted!Kinds
<1>1. HostedTypes'
    BY DEF HostedTypes, HubRows, NodeRows, Memory, Filing
<1>2. Numbered'
    BY DEF HostedTypes, HubRows, NodeRows, Memory, Filing, Numbered, Executed, Closing, Ending,
           Still, Shelved
<1>3. Shelved' => Shelved
    BY DEF HostedTypes, HubRows, NodeRows, Memory, Filing, Shelved, Numbered
<1>4. Closing'
    BY <1>3 DEF HostedTypes, HubRows, NodeRows, Memory, Filing, Closing, Ending, Still, Phased
<1>5. Phased'
    BY DEF HostedTypes, HubRows, NodeRows, Memory, Filing, Phased, Closing
<1>6. Hosted!NonceOwnedOnce'
    BY DEF Hosted!NonceOwnedOnce
<1> QED BY <1>1, <1>2, <1>4, <1>5, <1>6

\* The renewed engine is loaded, or asked for.
LEMMA OnStartEngine == ASSUME HostedInv, Hosted!StartEngine PROVE HostedInv'
<1> USE DEF HostedInv, Hosted!StartEngine, Hosted!writerVars, Hosted!lifeVars, Hosted!Life,
            Hosted!Kept, Hosted!Cycle, Hosted!Enter, Hosted!Submit, Hosted!Synced,
            Hosted!NoTxPending, Hosted!Kinds, Hosted!Ready
<1>1. HostedTypes'
    BY DEF HostedTypes, HubRows, NodeRows, Memory, Filing
<1>2. Numbered'
    BY DEF HostedTypes, HubRows, NodeRows, Memory, Filing, Numbered, Executed, Closing, Ending,
           Still, Shelved
<1>3. Shelved' => Shelved
    BY DEF HostedTypes, HubRows, NodeRows, Memory, Filing, Shelved, Numbered
<1>4. Closing'
    BY <1>3 DEF HostedTypes, HubRows, NodeRows, Memory, Filing, Closing, Ending, Still, Phased
<1>5. Phased'
    BY DEF HostedTypes, HubRows, NodeRows, Memory, Filing, Phased, Closing
<1>6. Hosted!NonceOwnedOnce'
    BY DEF Hosted!NonceOwnedOnce
<1> QED BY <1>1, <1>2, <1>4, <1>5, <1>6

\* A session is asked of the host once.
LEMMA OnCreateSession ==
    ASSUME HostedInv, NEW made \in BOOLEAN, NEW s \in {"sending", "uncertain", "rejected", "confirmed"}, Hosted!CreateSession(made, s)
    PROVE  HostedInv'
<1> USE DEF HostedInv, Hosted!CreateSession, Hosted!writerVars, Hosted!lifeVars, Hosted!Life,
            Hosted!Kept, Hosted!Cycle, Hosted!Enter, Hosted!Submit, Hosted!Synced,
            Hosted!NoTxPending, Hosted!Kinds, Hosted!Requesting
<1>0. madeSessions' \in Nat
    BY DEF HostedTypes
<1>1. HostedTypes'
    BY <1>0 DEF HostedTypes
<1>2. Numbered'
    BY DEF HostedTypes, HubRows, NodeRows, Memory, Filing, Numbered, Executed, Closing, Ending,
           Still, Shelved
<1>3. Shelved' => Shelved
    BY DEF HostedTypes, HubRows, NodeRows, Memory, Filing, Shelved, Numbered
<1>4. Closing'
    BY <1>3 DEF HostedTypes, HubRows, NodeRows, Memory, Filing, Closing, Ending, Still, Phased
<1>5. Phased'
    BY DEF HostedTypes, HubRows, NodeRows, Memory, Filing, Phased, Closing
<1>6. Hosted!NonceOwnedOnce'
    BY DEF Hosted!NonceOwnedOnce
<1> QED BY <1>1, <1>2, <1>4, <1>5, <1>6

\* Afterwards the host is only asked what became of it.
LEMMA OnLookupSession ==
    ASSUME HostedInv, NEW s \in {"uncertain", "confirmed", "intervention"}, Hosted!LookupSession(s)
    PROVE  HostedInv'
<1> USE DEF HostedInv, Hosted!LookupSession, Hosted!writerVars, Hosted!lifeVars, Hosted!Life,
            Hosted!Kept, Hosted!Cycle, Hosted!Enter, Hosted!Submit, Hosted!Synced,
            Hosted!NoTxPending, Hosted!Kinds, Hosted!Requesting
<1>1. HostedTypes'
    BY DEF HostedTypes, HubRows, NodeRows, Memory, Filing
<1>2. Numbered'
    BY DEF HostedTypes, HubRows, NodeRows, Memory, Filing, Numbered, Executed, Closing, Ending,
           Still, Shelved
<1>3. Shelved' => Shelved
    BY DEF HostedTypes, HubRows, NodeRows, Memory, Filing, Shelved, Numbered
<1>4. Closing'
    BY <1>3 DEF HostedTypes, HubRows, NodeRows, Memory, Filing, Closing, Ending, Still, Phased
<1>5. Phased'
    BY DEF HostedTypes, HubRows, NodeRows, Memory, Filing, Phased, Closing
<1>6. Hosted!NonceOwnedOnce'
    BY DEF Hosted!NonceOwnedOnce
<1> QED BY <1>1, <1>2, <1>4, <1>5, <1>6

\* A row of the hub stays one when it is closed or renewed.
LEMMA HubMoves ==
    ASSUME NEW h \in HubRows, NEW n,
           \/ n = [h EXCEPT !.status = 2, !.unlocked = FALSE]
           \/ n = [h EXCEPT !.epoch = @ + 1, !.status = 1, !.due = FALSE]
    PROVE  n \in HubRows
<1>1. h.epoch \in Nat /\ h.epoch + 1 \in Nat /\ h.final \in SUBSET Duels /\ 1 \in 0..2 /\ 2 \in 0..2
    BY DEF HubRows
<1>2. h.due \in BOOLEAN /\ h.unlocked \in BOOLEAN
    BY Zenon DEF HubRows
<1>3. CASE n = [h EXCEPT !.status = 2, !.unlocked = FALSE]
    <2>1. n = [epoch |-> h.epoch, status |-> 2, due |-> h.due, unlocked |-> FALSE, final |-> h.final]
        BY <1>3 DEF HubRows
    <2> QED BY <1>1, <1>2, <2>1, Zenon DEF HubRows
<1>4. CASE n = [h EXCEPT !.epoch = @ + 1, !.status = 1, !.due = FALSE]
    <2>1. n = [epoch |-> h.epoch + 1, status |-> 1, due |-> FALSE, unlocked |-> h.unlocked, final |-> h.final]
        BY <1>4 DEF HubRows
    <2> QED BY <1>1, <1>2, <2>1, Zenon DEF HubRows
<1> QED BY <1>3, <1>4

\* The operator's transactions, as Monad executes them.
LEMMA OnMine == ASSUME HostedInv, NEW k \in Hosted!Kinds, Hosted!Mine(k) PROVE HostedInv'
<1> USE DEF HostedInv
<1>0. /\ filed[k].status = "pending" /\ ~filed[k].mined
      /\ filed' = IF k = "renew" THEN [x \in Hosted!Kinds |-> Hosted!NoTx]
                 ELSE [filed EXCEPT ![k].mined = TRUE]
      /\ IF k = "renew" THEN hostAsk' = "none" /\ madeSessions' = 0
         ELSE UNCHANGED <<hostAsk, madeSessions>>
      /\ UNCHANGED <<hosted, passes, commands, writing, memory, lifeStage, minute, closeStep>>
    BY DEF Hosted!Mine, Hosted!writerVars, Hosted!Kept
<1>a. \/ k = "close" /\ delegation.status = 1
           /\ delegation' = [delegation EXCEPT !.status = 2, !.unlocked = FALSE]
      \/ k = "release" /\ delegation.status = 2 /\ delegation.unlocked
           /\ delegation' = [delegation EXCEPT !.status = 0]
      \/ k = "final" /\ \E m \in hosted.over \ delegation.final :
                           delegation' = [delegation EXCEPT !.final = @ \cup {m}]
      \/ k = "renew" /\ delegation.status = 0
           /\ delegation' = [delegation EXCEPT !.epoch = @ + 1, !.status = 1, !.due = FALSE]
    BY DEF Hosted!Mine, Hosted!Kinds
<1>b. CASE k # "renew"
    <2>1. /\ filed' \in [Hosted!Kinds -> Filing]
          /\ \A x \in Hosted!Kinds : filed'[x].status = filed[x].status
          /\ \A x \in Hosted!Kinds : x # k => filed'[x].mined = filed[x].mined
        BY <1>0, <1>b DEF HostedTypes, Filing
    <2>2. /\ delegation' \in HubRows /\ delegation'.epoch = delegation.epoch
          /\ delegation.final \subseteq delegation'.final
          /\ k # "close" /\ k # "release" => delegation'.status = delegation.status
                                            /\ delegation'.unlocked = delegation.unlocked
          /\ k = "close" => delegation.status = 1 /\ delegation'.status = 2 /\ ~delegation'.unlocked
          /\ k = "release" => delegation.status = 2 /\ delegation'.status = 0 /\ delegation.unlocked
        <3>1. delegation \in HubRows /\ hosted.over \subseteq Duels
            BY DEF HostedTypes, NodeRows
        <3>2. CASE k = "final"
            <4>1. PICK m \in Duels : delegation' = [delegation EXCEPT !.final = @ \cup {m}]
                BY <1>a, <3>1, <3>2
            <4> QED BY <3>1, <3>2, <4>1 DEF HubRows
        <3>3. CASE k # "final"
            <4>1. CASE k = "close"
                <5>1. delegation' = [delegation EXCEPT !.status = 2, !.unlocked = FALSE] /\ delegation.status = 1
                    BY <1>a, <4>1
                <5>2. delegation' \in HubRows
                    BY <3>1, <5>1, HubMoves
                <5> QED BY <3>1, <4>1, <5>1, <5>2 DEF HubRows
            <4>2. CASE k = "release"
                <5>1. /\ delegation' = [delegation EXCEPT !.status = 0]
                      /\ delegation.status = 2 /\ delegation.unlocked
                    BY <1>a, <4>2
                <5> QED BY <3>1, <4>2, <5>1 DEF HubRows
            <4> QED BY <4>1, <4>2, <1>b, <3>3 DEF Hosted!Kinds
        <3> QED BY <3>2, <3>3
    <2>3. UNCHANGED <<hostAsk, madeSessions>>
        BY <1>0, <1>b
    <2>4. HostedTypes'
        BY <1>0, <2>1, <2>2, <2>3 DEF HostedTypes
    <2>5. Numbered' /\ Shelved' = Shelved
        BY <1>0 DEF Numbered, Shelved, Executed
    <2>6. closeStep # "idle" => FALSE
        BY <1>0 DEF Closing, Hosted!NoTxPending
    <2>7. (Ending => Still)'
        BY <1>0, <2>1, <2>2, <2>5, <2>6 DEF
        Closing, Ending, Still, Hosted!Synced, Hosted!Kinds, Phased
    <2>8. Closing'
        BY <1>0, <2>1, <2>2, <2>6, <2>7 DEF
        Closing, Ending, Still, Hosted!Synced, Hosted!Kinds, Phased
    <2>9. Phased'
        BY <1>0, <2>1, <2>2, <2>3 DEF Phased, Hosted!Synced, Hosted!Kinds, HubRows, HostedTypes
    <2> QED BY <1>0, <2>4, <2>5, <2>8, <2>9 DEF Hosted!NonceOwnedOnce
<1>c. CASE k = "renew"
    <2>1. /\ filed' \in [Hosted!Kinds -> Filing]
          /\ \A x \in Hosted!Kinds : filed'[x].status = "none" /\ filed'[x].mined = FALSE
        BY <1>0, <1>c DEF Filing, Hosted!NoTx
    <2>2. /\ delegation' \in HubRows /\ delegation'.epoch = delegation.epoch + 1
          /\ delegation.status = 0 /\ delegation'.status = 1
        <3>1. delegation \in HubRows /\ delegation' = [delegation EXCEPT !.epoch = @ + 1, !.status = 1, !.due = FALSE]
            BY <1>a, <1>c DEF HostedTypes
        <3>2. delegation.status = 0
            BY <1>a, <1>c
        <3>3. delegation' \in HubRows
            BY <3>1, HubMoves
        <3> QED BY <3>1, <3>2, <3>3 DEF HubRows
    <2>3. hostAsk' = "none" /\ madeSessions' = 0
        BY <1>0, <1>c
    <2>4. HostedTypes'
        BY <1>0, <2>1, <2>2, <2>3 DEF HostedTypes, HubRows, NodeRows
    <2>5. Numbered' /\ Shelved' = Shelved
        BY <1>0 DEF Numbered, Shelved, Executed
    <2>6. closeStep # "idle" => FALSE
        BY <1>0 DEF Closing, Hosted!NoTxPending
    <2>7. ~Hosted!Synced' /\ Still /\ memory.seen = {} /\ lifeStage = "renewing"
        BY <1>0, <1>c, <2>2 DEF
        Closing, Ending, Hosted!Synced, HostedTypes, HubRows, NodeRows, Phased
    <2>8. Closing'
        BY <1>0, <2>1, <2>2, <2>6, <2>7 DEF Closing, Still, Hosted!Synced, Hosted!Kinds
    <2>9. Phased'
        BY <1>0, <2>1, <2>2, <2>3, <2>7 DEF Phased, Hosted!Synced, Hosted!Kinds
    <2> QED BY <1>0, <2>4, <2>5, <2>8, <2>9 DEF Hosted!NonceOwnedOnce
<1> QED BY <1>b, <1>c

\* The delegation's last hour begins.
LEMMA OnDue == ASSUME HostedInv, Hosted!Due PROVE HostedInv'
<1> USE DEF HostedInv, Hosted!Due, Hosted!writerVars, Hosted!lifeVars, Hosted!Life, Hosted!Kept,
            Hosted!Cycle, Hosted!Enter, Hosted!Submit, Hosted!Synced, Hosted!NoTxPending,
            Hosted!Kinds
<1>1. HostedTypes'
    BY DEF HostedTypes, HubRows, NodeRows, Memory, Filing
<1>2. Numbered'
    BY DEF HostedTypes, HubRows, NodeRows, Memory, Filing, Numbered, Executed, Closing, Ending,
           Still, Shelved
<1>3. Shelved' => Shelved
    BY DEF HostedTypes, HubRows, NodeRows, Memory, Filing, Shelved, Numbered
<1>4. Closing'
    BY <1>3 DEF HostedTypes, HubRows, NodeRows, Memory, Filing, Closing, Ending, Still, Phased
<1>5. Phased'
    BY DEF HostedTypes, HubRows, NodeRows, Memory, Filing, Phased, Closing
<1>6. Hosted!NonceOwnedOnce'
    BY DEF Hosted!NonceOwnedOnce
<1> QED BY <1>1, <1>2, <1>4, <1>5, <1>6

\* The challenge window ends: what the writer saw of the epoch is older.
LEMMA OnUnlock == ASSUME HostedInv, Hosted!Unlock PROVE HostedInv'
<1> USE DEF HostedInv, Hosted!Unlock, Hosted!writerVars, Hosted!lifeVars, Hosted!Life,
            Hosted!Kept, Hosted!Cycle, Hosted!Enter, Hosted!Submit, Hosted!Synced,
            Hosted!NoTxPending, Hosted!Kinds, Hosted!Observed
<1>1. HostedTypes'
    BY DEF HostedTypes, HubRows, NodeRows, Memory, Filing
<1>2. Numbered'
    BY DEF HostedTypes, HubRows, NodeRows, Memory, Filing, Numbered, Executed, Closing, Ending,
           Still, Shelved
<1>3. Shelved' => Shelved
    BY DEF HostedTypes, HubRows, NodeRows, Memory, Filing, Shelved, Numbered
<1>4. Closing'
    BY <1>3 DEF HostedTypes, HubRows, NodeRows, Memory, Filing, Closing, Ending, Still, Phased
<1>5. Phased'
    BY DEF HostedTypes, HubRows, NodeRows, Memory, Filing, Phased, Closing
<1>6. Hosted!NonceOwnedOnce'
    BY DEF Hosted!NonceOwnedOnce
<1> QED BY <1>1, <1>2, <1>4, <1>5, <1>6

\* A minute passes.
LEMMA OnWaitMinute == ASSUME HostedInv, Hosted!WaitMinute PROVE HostedInv'
<1> USE DEF HostedInv, Hosted!WaitMinute, Hosted!writerVars, Hosted!lifeVars, Hosted!Life,
            Hosted!Kept, Hosted!Cycle, Hosted!Enter, Hosted!Submit, Hosted!Synced,
            Hosted!NoTxPending, Hosted!Kinds, Hosted!Observed
<1>1. HostedTypes'
    BY DEF HostedTypes, HubRows, NodeRows, Memory, Filing
<1>2. Numbered'
    BY DEF HostedTypes, HubRows, NodeRows, Memory, Filing, Numbered, Executed, Closing, Ending,
           Still, Shelved
<1>3. Shelved' => Shelved
    BY DEF HostedTypes, HubRows, NodeRows, Memory, Filing, Shelved, Numbered
<1>4. Closing'
    BY <1>3 DEF HostedTypes, HubRows, NodeRows, Memory, Filing, Closing, Ending, Still, Phased
<1>5. Phased'
    BY DEF HostedTypes, HubRows, NodeRows, Memory, Filing, Phased, Closing
<1>6. Hosted!NonceOwnedOnce'
    BY DEF Hosted!NonceOwnedOnce
<1> QED BY <1>1, <1>2, <1>4, <1>5, <1>6

\* The process stops: what it was doing and its fence are forgotten.
LEMMA OnCrash == ASSUME HostedInv, Hosted!Crash PROVE HostedInv'
<1> USE DEF HostedInv, Hosted!Crash, Hosted!writerVars, Hosted!lifeVars, Hosted!Life,
            Hosted!Kept, Hosted!Cycle, Hosted!Enter, Hosted!Submit, Hosted!Synced,
            Hosted!NoTxPending, Hosted!Kinds, Hosted!NoOp, Hosted!Fresh
<1>1. HostedTypes'
    BY DEF HostedTypes, HubRows, NodeRows, Memory, Filing
<1>2. Numbered'
    BY DEF HostedTypes, HubRows, NodeRows, Memory, Filing, Numbered, Executed, Closing, Ending,
           Still, Shelved
<1>3. Shelved' => Shelved
    BY DEF HostedTypes, HubRows, NodeRows, Memory, Filing, Shelved, Numbered
<1>4. Closing'
    BY <1>3 DEF HostedTypes, HubRows, NodeRows, Memory, Filing, Closing, Ending, Still, Phased
<1>5. Phased'
    BY DEF HostedTypes, HubRows, NodeRows, Memory, Filing, Phased, Closing
<1>6. Hosted!NonceOwnedOnce'
    BY DEF Hosted!NonceOwnedOnce
<1> QED BY <1>1, <1>2, <1>4, <1>5, <1>6

-----------------------------------------------------------------------------
\* t is the journal with the status of some rows, or that they were sent, changed.
Rewritten(t) ==
  /\ t \in Seq(Command) /\ DOMAIN t = DOMAIN commands
  /\ \A j \in DOMAIN commands :
       /\ t[j].epoch = commands[j].epoch /\ t[j].nonce = commands[j].nonce
       /\ t[j].exec = commands[j].exec
       /\ t[j].status \in {"observed", "failed"} => commands[j].exec # "none"

\* Every row of the journal is a command.
LEMMA CommandRows == ASSUME HostedInv, NEW j \in DOMAIN commands PROVE commands[j] \in Command
<1> HIDE DEF Command
<1> QED BY DEF HostedInv, HostedTypes

\* What the status of a row becomes when its receipt is read.
LEMMA Receipts ==
    ASSUME HostedInv, NEW j \in DOMAIN commands, NEW n,
           n = [commands[j] EXCEPT !.status = Hosted!Outcome(j)]
    PROVE  n.status \in {"observed", "failed"}
BY CommandRows DEF Command, Hosted!Outcome

\* Such an edit, row by row.
LEMMA EditIs ==
    ASSUME HostedInv, NEW t, t = [j \in DOMAIN commands |-> t[j]],
           \A j \in DOMAIN commands :
             \/ t[j] = commands[j]
             \/ t[j] = [commands[j] EXCEPT !.sent = TRUE]
             \/ t[j] = [commands[j] EXCEPT !.status = "quarantined"]
             \/ t[j] = [commands[j] EXCEPT !.status = "obsolete"]
             \/ Executed(j) /\ t[j] = [commands[j] EXCEPT !.status = Hosted!Outcome(j)]
    PROVE  Rewritten(t)
<1>1. \A j \in DOMAIN commands :
        /\ t[j] \in Command
        /\ t[j].epoch = commands[j].epoch /\ t[j].nonce = commands[j].nonce
        /\ t[j].exec = commands[j].exec
        /\ t[j].status \in {"observed", "failed"} => commands[j].exec # "none"
    <2> SUFFICES ASSUME NEW j \in DOMAIN commands
                 PROVE  /\ t[j] \in Command
                        /\ t[j].epoch = commands[j].epoch /\ t[j].nonce = commands[j].nonce
                        /\ t[j].exec = commands[j].exec
                        /\ t[j].status \in {"observed", "failed"} => commands[j].exec # "none"
        OBVIOUS
    <2>1. commands[j] \in Command
        <3> HIDE DEF Command
        <3> QED BY DEF HostedInv, HostedTypes
    <2>2. commands[j].status \in {"observed", "failed"} => commands[j].exec # "none"
        BY DEF HostedInv, Numbered, Executed
    <2>3. Hosted!Outcome(j) \in {"observed", "failed"}
        BY DEF Hosted!Outcome
    <2> QED BY <2>1, <2>2, <2>3 DEF Command, Executed
<1>2. commands \in Seq(Command)
    BY DEF HostedInv, HostedTypes
<1> QED BY <1>1, <1>2, CommandsEdited DEF Rewritten

\* It takes no nonce from its command and gives none away.
LEMMA EditKeeps ==
    ASSUME HostedInv, Rewritten(commands'), UNCHANGED <<hosted, memory>>,
           writing'.pc = "sign" => writing' = writing
    PROVE  Numbered' /\ Hosted!NonceOwnedOnce' /\ commands' \in Seq(Command)
<1>1. Numbered'
    BY DEF HostedInv, Numbered, Executed, Rewritten
<1>2. Hosted!NonceOwnedOnce'
    BY DEF HostedInv, Hosted!NonceOwnedOnce, Rewritten
<1> QED BY <1>1, <1>2 DEF Rewritten

\* The bytes that were kept are sent.
LEMMA OnSendJob == ASSUME HostedInv, Hosted!SendJob PROVE HostedInv'
<1>1. /\ commands' = [commands EXCEPT ![writing.job].sent = TRUE]
      /\ UNCHANGED <<delegation, hosted, passes, writing, memory, lifeStage, minute, closeStep,
                     filed, hostAsk, madeSessions>>
    BY DEF Hosted!SendJob, Hosted!lifeVars
<1>2. commands' = [j \in DOMAIN commands |-> commands'[j]]
    BY <1>1
<1>3. \A j \in DOMAIN commands : \/ commands'[j] = commands[j]
                                 \/ commands'[j] = [commands[j] EXCEPT !.sent = TRUE]
    BY <1>1
<1>4. Rewritten(commands')
    BY <1>2, <1>3, EditIs
<1>5. Shelved' => Shelved
    <2>1. \A j \in DOMAIN commands : commands'[j].status = commands[j].status
        BY <1>3, CommandRows DEF Command
    <2> QED BY <1>1, <1>4, <2>1 DEF Shelved, Rewritten
<1>6. Numbered' /\ Hosted!NonceOwnedOnce' /\ commands' \in Seq(Command)
    BY <1>1, <1>4, EditKeeps
<1> QED BY <1>1, <1>5, <1>6 DEF HostedInv, HostedTypes, Closing, Ending, Still, Phased,
           Hosted!Synced, Hosted!NoTxPending

\* A command ends with its receipt, or stays pending without one.
LEMMA OnEndTick == ASSUME HostedInv, Hosted!EndTick PROVE HostedInv'
<1>1. /\ writing' = Hosted!NoOp
      /\ commands' = IF Hosted!Receipt(writing.job)
                     THEN [commands EXCEPT ![writing.job].status = Hosted!Outcome(writing.job)]
                     ELSE commands
      /\ UNCHANGED <<delegation, hosted, passes, memory, lifeStage, minute, closeStep,
                     filed, hostAsk, madeSessions>>
    BY DEF Hosted!EndTick, Hosted!lifeVars
<1>2. commands' = [j \in DOMAIN commands |-> commands'[j]]
    BY <1>1 DEF HostedInv, HostedTypes
<1>3. \A j \in DOMAIN commands :
        \/ commands'[j] = commands[j]
        \/ Executed(j) /\ commands'[j] = [commands[j] EXCEPT !.status = Hosted!Outcome(j)]
    BY <1>1 DEF Hosted!Receipt, Executed
<1>4. Rewritten(commands')
    BY <1>2, <1>3, EditIs
<1>5. Shelved' => Shelved
    <2>1. \A j \in DOMAIN commands :
            commands'[j].status \in {commands[j].status, "observed", "failed"}
        BY <1>3, Receipts
    <2> QED BY <1>1, <1>4, <2>1 DEF Shelved, Rewritten
<1>7. /\ writing' \in [pc : {"idle", "sign", "send"}, match : Duels \cup {0}, act : {"tick", "other"},
                       nonce : Nat, job : Nat]
      /\ writing'.pc = "idle"
    BY <1>1 DEF Hosted!NoOp
<1>6. Numbered' /\ Hosted!NonceOwnedOnce' /\ commands' \in Seq(Command)
    BY <1>1, <1>4, <1>7, EditKeeps
<1> QED BY <1>1, <1>5, <1>6, <1>7 DEF HostedInv, HostedTypes, Closing, Ending, Still, Phased,
           Hosted!Synced, Hosted!NoTxPending

\* What reconcileEngineJobs makes of a row.
LEMMA ReconciledRows ==
    ASSUME HostedInv
    PROVE  /\ DOMAIN Hosted!Reconciled = DOMAIN commands
           /\ \A j \in DOMAIN commands :
                \/ Hosted!Reconciled[j] = commands[j]
                \/ Executed(j) /\ Hosted!Reconciled[j] = [commands[j] EXCEPT !.status = Hosted!Outcome(j)]
BY DEF Hosted!Reconciled, Hosted!Receipt, Executed

\* Receipts are looked for on a timer of their own.
LEMMA OnReconcile == ASSUME HostedInv, Hosted!ReconcileEngineJobs PROVE HostedInv'
<1>1. /\ commands' = Hosted!Reconciled
      /\ UNCHANGED <<delegation, hosted, passes, writing, memory, lifeStage, minute, closeStep,
                     filed, hostAsk, madeSessions>>
    BY DEF Hosted!ReconcileEngineJobs, Hosted!lifeVars
<1>2. commands' = [j \in DOMAIN commands |-> commands'[j]]
    BY <1>1 DEF Hosted!Reconciled
<1>3. \A j \in DOMAIN commands :
        \/ commands'[j] = commands[j]
        \/ Executed(j) /\ commands'[j] = [commands[j] EXCEPT !.status = Hosted!Outcome(j)]
    BY <1>1, ReconciledRows
<1>4. Rewritten(commands')
    BY <1>2, <1>3, EditIs
<1>5. Shelved' => Shelved
    <2>1. \A j \in DOMAIN commands :
            commands'[j].status \in {commands[j].status, "observed", "failed"}
        BY <1>3, Receipts
    <2> QED BY <1>1, <1>4, <2>1 DEF Shelved, Rewritten
<1>6. Numbered' /\ Hosted!NonceOwnedOnce' /\ commands' \in Seq(Command)
    BY <1>1, <1>4, EditKeeps
<1> QED BY <1>1, <1>5, <1>6 DEF HostedInv, HostedTypes, Closing, Ending, Still, Phased,
           Hosted!Synced, Hosted!NoTxPending

\* The commands on matches that are over are put aside while the arena ends.
LEMMA OnQuarantine == ASSUME HostedInv, Hosted!QuarantineTicks PROVE HostedInv'
<1>1. /\ closeStep = "fenced" /\ writing.pc = "idle"
      /\ closeStep' \in {"idle", "checked"}
      /\ closeStep' = "idle" \/ closeStep' = "checked"
      /\ UNCHANGED <<delegation, hosted, passes, writing, memory, lifeStage, minute,
                     filed, hostAsk, madeSessions>>
    BY DEF Hosted!QuarantineTicks, Hosted!Kept
<1>2. \/ commands' = Hosted!Reconciled
      \/ /\ commands' = [j \in DOMAIN commands |->
                           IF Hosted!Reconciled[j].status = "pending"
                           THEN [commands[j] EXCEPT !.status = "quarantined"] ELSE Hosted!Reconciled[j]]
         /\ closeStep' = "checked"
    <2>1. CASE \A j \in DOMAIN commands :
                 Hosted!Reconciled[j].status = "pending" => Hosted!Terminal(j) /\ ~hosted.diffs
        <3> DEFINE t == [j \in DOMAIN commands |->
                           IF Hosted!Reconciled[j].status = "pending"
                           THEN [commands[j] EXCEPT !.status = "quarantined"] ELSE Hosted!Reconciled[j]]
        <3>1. commands' = t
            BY <2>1 DEF Hosted!QuarantineTicks
        <3>2. \A j \in DOMAIN commands : t[j].status # "pending"
            <4> SUFFICES ASSUME NEW j \in DOMAIN commands PROVE t[j].status # "pending"
                OBVIOUS
            <4>1. commands[j] \in Command
                <5> HIDE DEF Command
                <5> QED BY DEF HostedInv, HostedTypes
            <4> QED BY <4>1 DEF Command
        <3>3. closeStep' = "checked"
            BY <3>1, <3>2 DEF Hosted!QuarantineTicks
        <3> QED BY <3>1, <3>3
    <2> QED BY <2>1 DEF Hosted!QuarantineTicks
<1>3. commands' = [j \in DOMAIN commands |-> commands'[j]]
    BY <1>2 DEF Hosted!Reconciled
<1>4. \A j \in DOMAIN commands :
        \/ commands'[j] = commands[j]
        \/ commands'[j] = [commands[j] EXCEPT !.status = "quarantined"] /\ closeStep' = "checked"
        \/ Executed(j) /\ commands'[j] = [commands[j] EXCEPT !.status = Hosted!Outcome(j)]
    BY <1>2, ReconciledRows
<1>5. Rewritten(commands')
    BY <1>3, <1>4, EditIs
<1>6. Shelved' => Shelved \/ closeStep' = "checked"
    <2>1. \A j \in DOMAIN commands :
            \/ commands'[j].status \in {commands[j].status, "observed", "failed"}
            \/ closeStep' = "checked"
        BY <1>4, Receipts
    <2> QED BY <1>1, <1>5, <2>1 DEF Shelved, Rewritten
<1>7. Numbered' /\ Hosted!NonceOwnedOnce' /\ commands' \in Seq(Command)
    BY <1>1, <1>5, EditKeeps
<1>8. HostedTypes'
    BY <1>1, <1>7 DEF HostedInv, HostedTypes
<1>9. /\ lifeStage = "draining" /\ minute /\ memory.closing = delegation.epoch /\ Hosted!Synced
      /\ delegation.status = 1 /\ Hosted!NoTxPending /\ hosted.live = {} /\ passes = {}
      /\ memory.closing # 0
    BY <1>1 DEF HostedInv, Closing, HostedTypes, HubRows
<1>10. Closing'
    BY <1>1, <1>6, <1>9 DEF HostedInv, Closing, Ending, Still, Hosted!Synced, Hosted!NoTxPending
<1>11. Phased'
    BY <1>1 DEF HostedInv, Phased, Hosted!Synced
<1> QED BY <1>7, <1>8, <1>10, <1>11 DEF HostedInv

\* The commands put aside are obsolete once the epoch is released.
LEMMA OnFinalize == ASSUME HostedInv, Hosted!FinalizeResults PROVE HostedInv'
<1>1. /\ closeStep = "idle" /\ Hosted!NoTxPending /\ delegation.status = 0
      /\ lifeStage \notin {"playing", "renewing"} /\ commands' = Hosted!Obsolete
      /\ UNCHANGED <<delegation, hosted, passes, writing, memory, closeStep, hostAsk, madeSessions>>
    BY DEF Hosted!FinalizeResults, Hosted!Kept, Hosted!Cycle
<1>2. /\ filed' \in [Hosted!Kinds -> Filing] /\ filed'["close"] = filed["close"]
      /\ lifeStage' \in {"renewing", "finalizing"} /\ minute' \in BOOLEAN
      /\ lifeStage' = "renewing" => hosted.over \subseteq delegation.final
      /\ filed'["renew"].status = "pending" => lifeStage' = "renewing"
    <2>1. CASE hosted.over \subseteq delegation.final
        <3>1. /\ lifeStage' = "renewing" /\ minute' = (IF lifeStage' = lifeStage THEN minute ELSE FALSE)
              /\ filed' = [filed EXCEPT !["renew"].status = IF @ = "none" THEN "pending" ELSE @]
            BY <2>1 DEF Hosted!FinalizeResults, Hosted!Enter, Hosted!Submit
        <3> QED BY <2>1, <3>1 DEF HostedInv, HostedTypes, Filing, Hosted!Kinds
    <2>2. CASE ~(hosted.over \subseteq delegation.final)
        <3>1. /\ lifeStage' = "finalizing" /\ minute' = (IF lifeStage' = lifeStage THEN minute ELSE FALSE)
              /\ filed' = [filed EXCEPT !["final"] = [Hosted!NoTx EXCEPT !.status = "pending"]]
            BY <2>2 DEF Hosted!FinalizeResults, Hosted!Enter
        <3>2. [Hosted!NoTx EXCEPT !.status = "pending"] \in Filing
            BY DEF Hosted!NoTx, Filing
        <3>3. filed["renew"].status # "pending"
            BY <1>1 DEF Hosted!NoTxPending, Hosted!Kinds
        <3> QED BY <2>2, <3>1, <3>2, <3>3 DEF HostedInv, HostedTypes, Hosted!Kinds
    <2> QED BY <2>1, <2>2
<1>3. commands' = [j \in DOMAIN commands |-> commands'[j]]
    BY <1>1 DEF Hosted!Obsolete
<1>4. \A j \in DOMAIN commands :
        \/ commands'[j] = commands[j]
        \/ /\ commands[j].status = "quarantined"
           /\ commands'[j] = [commands[j] EXCEPT !.status = "obsolete"]
    BY <1>1 DEF Hosted!Obsolete
<1>5. Rewritten(commands')
    BY <1>3, <1>4, EditIs
<1>6. Shelved' => Shelved
    <2>1. \A j \in DOMAIN commands : commands'[j].status = commands[j].status
                                     \/ commands[j].status = "quarantined"
        BY <1>4
    <2> QED BY <1>1, <1>5, <2>1 DEF Shelved, Rewritten
<1>7. Numbered' /\ Hosted!NonceOwnedOnce' /\ commands' \in Seq(Command)
    BY <1>1, <1>5, EditKeeps
<1>8. HostedTypes'
    BY <1>1, <1>2, <1>7 DEF HostedInv, HostedTypes
<1>9. Closing'
    BY <1>1, <1>2, <1>6 DEF HostedInv, Closing, Ending, Still, Hosted!Synced
<1>10. Phased'
    BY <1>1, <1>2 DEF HostedInv, Phased, Hosted!Synced, Hosted!NoTxPending, Hosted!Kinds
<1> QED BY <1>7, <1>8, <1>9, <1>10 DEF HostedInv

\* The row is written under the nonce that was read, which no other row has.
LEMMA OnJournalJob == ASSUME HostedInv, Hosted!JournalJob PROVE HostedInv'
<1> DEFINE new == [epoch |-> memory.last, nonce |-> writing.nonce, match |-> writing.match,
                   act |-> writing.act, status |-> "pending", sent |-> FALSE, exec |-> "none"]
<1>1. /\ writing.pc = "sign" /\ commands' = Append(commands, new)
      /\ writing' = [writing EXCEPT !.pc = "send", !.job = Len(commands) + 1]
      /\ UNCHANGED <<delegation, hosted, passes, memory, lifeStage, minute, closeStep,
                     filed, hostAsk, madeSessions>>
    BY DEF Hosted!JournalJob, Hosted!lifeVars
<1>2. new \in Command /\ new.epoch = hosted.epoch /\ new.nonce = hosted.nonce
      /\ new.status = "pending" /\ new.exec = "none"
    BY <1>1 DEF HostedInv, HostedTypes, Memory, Command, Numbered
<1>3. commands \in Seq(Command) /\ Len(commands) \in Nat
    BY DEF HostedInv, HostedTypes
<1>4. /\ commands' \in Seq(Command) /\ DOMAIN commands' = DOMAIN commands \cup {Len(commands) + 1}
      /\ \A j \in DOMAIN commands : commands'[j] = commands[j] /\ j # Len(commands) + 1
      /\ commands'[Len(commands) + 1] = new
    <2> HIDE DEF new, Command
    <2> QED BY <1>1, <1>2, <1>3
<1> HIDE DEF new
<1>5. /\ writing' \in [pc : {"idle", "sign", "send"}, match : Duels \cup {0}, act : {"tick", "other"},
                       nonce : Nat, job : Nat]
      /\ writing'.pc = "send"
    <2>1. /\ writing' = [pc |-> "send", match |-> writing.match, act |-> writing.act,
                         nonce |-> writing.nonce, job |-> Len(commands) + 1]
          /\ writing.match \in Duels \cup {0} /\ writing.act \in {"tick", "other"}
          /\ writing.nonce \in Nat
        BY <1>1 DEF HostedInv, HostedTypes
    <2> QED BY <2>1, <1>3
<1>6. HostedTypes'
    BY <1>1, <1>4, <1>5 DEF HostedInv, HostedTypes
<1>7. Numbered'
    BY <1>1, <1>2, <1>4, <1>5 DEF HostedInv, Numbered, Executed, HostedTypes, NodeRows
<1>8. Hosted!NonceOwnedOnce'
    <2>1. \A j \in DOMAIN commands :
            commands[j].epoch = hosted.epoch => commands[j].nonce # hosted.nonce
        BY <1>1 DEF HostedInv, Numbered, Executed, HostedTypes, NodeRows
    <2> QED BY <1>2, <1>4, <2>1 DEF HostedInv, Hosted!NonceOwnedOnce
<1>9. Shelved' => Shelved
    BY <1>1, <1>2, <1>4 DEF Shelved
<1>10. Closing'
    BY <1>1, <1>5, <1>9 DEF HostedInv, Closing, Ending, Still, Hosted!Synced, Hosted!NoTxPending
<1>11. Phased'
    BY <1>1 DEF HostedInv, Phased, Hosted!Synced
<1> QED BY <1>6, <1>7, <1>8, <1>10, <1>11 DEF HostedInv

\* The engine executes the command whose turn it is, and its count passes it.
LEMMA OnExecution ==
    ASSUME HostedInv, NEW j \in DOMAIN commands, Hosted!Execute(j) PROVE HostedInv'
<1> DEFINE live == commands[j].match \in hosted.live
           new == [commands[j] EXCEPT !.exec = IF live THEN "ok" ELSE "reverted"]
<1>1. /\ commands[j].exec = "none" /\ commands[j].epoch = hosted.epoch
      /\ commands[j].nonce = hosted.nonce
      /\ commands' = [commands EXCEPT ![j] = new]
      /\ UNCHANGED <<delegation, passes, writing, memory, lifeStage, minute, closeStep,
                     filed, hostAsk, madeSessions>>
    BY DEF Hosted!Execute, Hosted!lifeVars
<1>2. \E ends \in BOOLEAN :
        /\ hosted' = [hosted EXCEPT !.nonce = @ + 1, !.diffs = @ \/ live,
                        !.live = IF ends THEN @ \ {commands[j].match} ELSE @,
                        !.over = IF ends THEN @ \cup {commands[j].match} ELSE @]
        /\ (live \/ ends = FALSE)
    BY Zenon DEF Hosted!Execute
<1>3. commands[j] \in Command /\ commands \in Seq(Command) /\ hosted \in NodeRows
    <2> HIDE DEF Command
    <2> QED BY DEF HostedInv, HostedTypes
<1>4. \E l \in SUBSET hosted.live : \E o \in SUBSET Duels : \E d \in BOOLEAN :
        /\ hosted' = [hosted EXCEPT !.nonce = @ + 1, !.diffs = d, !.live = l, !.over = o]
        /\ live \/ (o = hosted.over /\ d = hosted.diffs)
    <2>1. PICK ends \in BOOLEAN :
            /\ hosted' = [hosted EXCEPT !.nonce = @ + 1, !.diffs = @ \/ live,
                            !.live = IF ends THEN @ \ {commands[j].match} ELSE @,
                            !.over = IF ends THEN @ \cup {commands[j].match} ELSE @]
            /\ (live \/ ends = FALSE)
        BY <1>2
    <2> DEFINE l == IF ends THEN hosted.live \ {commands[j].match} ELSE hosted.live
               o == IF ends THEN hosted.over \cup {commands[j].match} ELSE hosted.over
               d == hosted.diffs \/ live
    <2>2. hosted' = [hosted EXCEPT !.nonce = @ + 1, !.diffs = d, !.live = l, !.over = o]
        BY <2>1, Zenon
    <2>3. l \in SUBSET hosted.live /\ o \in SUBSET Duels
        BY <1>3 DEF NodeRows, Command
    <2>4. d \in BOOLEAN
        OBVIOUS
    <2>5. hosted.diffs \in BOOLEAN
        BY <1>3, Zenon DEF NodeRows
    <2>6. live \/ (o = hosted.over /\ d = hosted.diffs)
        BY <2>1, <2>5, Zenon
    <2> HIDE DEF l, o, d
    <2> QED BY <2>2, <2>3, <2>4, <2>6
<1>5. /\ hosted' \in NodeRows /\ hosted'.nonce = hosted.nonce + 1 /\ hosted'.epoch = hosted.epoch
      /\ hosted'.live \subseteq hosted.live
      /\ ~live => hosted'.over = hosted.over /\ hosted'.diffs = hosted.diffs
    <2>1. PICK l \in SUBSET hosted.live : \E o \in SUBSET Duels : \E d \in BOOLEAN :
            /\ hosted' = [hosted EXCEPT !.nonce = @ + 1, !.diffs = d, !.live = l, !.over = o]
            /\ live \/ (o = hosted.over /\ d = hosted.diffs)
        BY <1>4
    <2>2. PICK o \in SUBSET Duels, d \in BOOLEAN :
            /\ hosted' = [hosted EXCEPT !.nonce = @ + 1, !.diffs = d, !.live = l, !.over = o]
            /\ live \/ (o = hosted.over /\ d = hosted.diffs)
        BY <2>1
    <2>3. /\ hosted' = [epoch |-> hosted.epoch, nonce |-> hosted.nonce + 1, live |-> l, over |-> o,
                        diffs |-> d]
        BY <1>3, <2>2 DEF NodeRows
    <2>4. hosted.epoch \in Nat /\ hosted.nonce + 1 \in Nat /\ l \in SUBSET Duels
        BY <1>3, <2>1 DEF NodeRows
    <2>5. hosted' \in NodeRows
        BY <2>2, <2>3, <2>4, Zenon DEF NodeRows
    <2>6. hosted'.nonce = hosted.nonce + 1 /\ hosted'.epoch = hosted.epoch
        BY <2>3
    <2>7. hosted'.live \subseteq hosted.live
        BY <2>3
    <2>8. ~live => hosted'.over = hosted.over /\ hosted'.diffs = hosted.diffs
        BY <2>2, <2>3, Zenon
    <2> QED BY <2>5, <2>6, <2>7, <2>8
<1>6. /\ new \in Command /\ new.epoch = commands[j].epoch /\ new.nonce = commands[j].nonce
      /\ new.exec # "none" /\ new.status = commands[j].status
    BY <1>3 DEF Command
<1>7. live => ~Ending
    BY DEF HostedInv, Closing, Still
<1>8. writing.pc # "sign"
    BY <1>1 DEF HostedInv, Numbered, Executed
<1> HIDE DEF new, live
<1>9. /\ commands' \in Seq(Command) /\ DOMAIN commands' = DOMAIN commands
      /\ commands'[j] = new /\ \A i \in DOMAIN commands : i # j => commands'[i] = commands[i]
    <2> HIDE DEF Command
    <2> QED BY <1>1, <1>3, <1>6
<1>10. HostedTypes'
    BY <1>1, <1>5, <1>9 DEF HostedInv, HostedTypes
<1>11. Numbered'
    <2>1. \A i \in DOMAIN commands : commands[i].nonce \in Nat
        <3> SUFFICES ASSUME NEW i \in DOMAIN commands PROVE commands[i].nonce \in Nat
            OBVIOUS
        <3>1. commands[i] \in Command
            BY <1>3
        <3> QED BY <3>1 DEF Command
    <2>2. hosted.nonce \in Nat
        BY <1>3 DEF NodeRows
    <2>3. \A i \in DOMAIN commands :
            /\ commands'[i].epoch <= hosted'.epoch
            /\ Executed(i)' /\ commands'[i].epoch = hosted'.epoch => commands'[i].nonce < hosted'.nonce
            /\ commands'[i].status \in {"observed", "failed"} => Executed(i)'
        <3> SUFFICES ASSUME NEW i \in DOMAIN commands
                     PROVE  /\ commands'[i].epoch <= hosted'.epoch
                            /\ Executed(i)' /\ commands'[i].epoch = hosted'.epoch
                                 => commands'[i].nonce < hosted'.nonce
                            /\ commands'[i].status \in {"observed", "failed"} => Executed(i)'
            OBVIOUS
        <3>1. CASE i = j
            BY <1>1, <1>5, <1>6, <1>9, <2>1, <2>2, <3>1 DEF HostedInv, Numbered, Executed
        <3>2. CASE i # j
            BY <1>1, <1>5, <1>9, <2>1, <2>2, <3>2 DEF HostedInv, Numbered, Executed
        <3> QED BY <3>1, <3>2
    <2> QED BY <1>1, <1>5, <1>8, <1>9, <2>3 DEF HostedInv, Numbered
<1>12. Hosted!NonceOwnedOnce'
    BY <1>6, <1>9 DEF HostedInv, Hosted!NonceOwnedOnce
<1>13. Shelved' => Shelved
    BY <1>5, <1>6, <1>9 DEF Shelved
<1>14. Ending' => Ending
    BY <1>1, <1>5, <1>13 DEF Ending, Hosted!Synced
<1>15. Closing'
    BY <1>1, <1>5, <1>7, <1>14 DEF
        HostedInv, Closing, Ending, Still, Hosted!Synced, Hosted!NoTxPending
<1>16. Phased'
    BY <1>1, <1>5, <1>7 DEF HostedInv, Phased, Hosted!Synced, Ending
<1> QED BY <1>10, <1>11, <1>12, <1>15, <1>16 DEF HostedInv

-----------------------------------------------------------------------------
\* The host's engine and its writer: one step.
LEMMA HostedStep == HostedInv /\ [Hosted!Next]_(Hosted!vars) => HostedInv'
<1> SUFFICES ASSUME HostedInv, [Hosted!Next]_(Hosted!vars) PROVE HostedInv'
    OBVIOUS
<1>1. CASE UNCHANGED Hosted!vars
    BY <1>1 DEF Hosted!vars, Hosted!writerVars, Hosted!lifeVars, HostedInv, HostedTypes, Numbered,
       Executed, Closing, Ending, Still, Shelved, Phased, Hosted!Synced, Hosted!NoTxPending,
       Hosted!NonceOwnedOnce
<1>2. CASE Hosted!Writer
    BY <1>2, OnObserve, OnStartResend, OnJournalJob, OnSendJob, OnEndTick, OnReconcile, OnStartTick
       DEF Hosted!Writer
<1>3. CASE Hosted!Lifecycle
    <2>1. CASE \E k \in Hosted!Kinds : Hosted!SettleTx(k)
        BY <2>1, OnSettleTx
    <2>2. CASE \E made \in BOOLEAN, s \in {"sending", "uncertain", "rejected", "confirmed"} :
                 Hosted!CreateSession(made, s)
        BY <2>2, OnCreateSession
    <2>3. CASE \E s \in {"uncertain", "confirmed", "intervention"} : Hosted!LookupSession(s)
        BY <2>3, OnLookupSession
    <2> QED BY <1>3, <2>1, <2>2, <2>3, OnStayPlaying, OnStartDraining, OnFenceWriter, OnQuarantine,
               OnCloseEngine, OnChallenge, OnFinalize, OnRenewEngine, OnStartEngine, Zenon
            DEF Hosted!Lifecycle
<1>4. CASE Hosted!World
    BY <1>4, OnPublish, OnNodeLoads, OnDue, OnUnlock, OnWaitMinute, OnCrash, OnSignTicket,
       OnTicketExpires, OnRedeem, OnMatchEnds, OnExecution, OnMine, Zenon DEF Hosted!World
<1> QED BY <1>1, <1>2, <1>3, <1>4 DEF Hosted!Next

\* What the invariant says of nonces, of the closing and of the host.
LEMMA HostedFacts ==
  HostedInv => Hosted!NonceOwnedOnce /\ Hosted!CreatedOnce /\ Hosted!ClosedClean
<1> SUFFICES ASSUME HostedInv PROVE Hosted!CreatedOnce /\ Hosted!ClosedClean
    BY DEF HostedInv
<1> QED BY DEF HostedInv, Phased, Closing, Ending, Still, Hosted!CreatedOnce, Hosted!ClosedClean

\* Only a mined renewal ends an epoch, and by then its results are final.
LEMMA EpochEndsFact == HostedInv /\ [Hosted!Next]_(Hosted!vars) => Hosted!EpochEnds
<1> SUFFICES ASSUME HostedInv, [Hosted!Next]_(Hosted!vars), delegation'.epoch # delegation.epoch
             PROVE  hosted.over \subseteq delegation.final
    BY DEF Hosted!EpochEnds
<1>1. Hosted!Mine("renew")
    <2>1. ASSUME NEW k \in Hosted!Kinds, Hosted!Mine(k) PROVE k = "renew"
        <3>1. \/ k = "close" /\ delegation' = [delegation EXCEPT !.status = 2, !.unlocked = FALSE]
              \/ k = "release" /\ delegation' = [delegation EXCEPT !.status = 0]
              \/ k = "final" /\ \E m \in hosted.over \ delegation.final :
                                   delegation' = [delegation EXCEPT !.final = @ \cup {m}]
              \/ k = "renew"
            BY <2>1 DEF Hosted!Mine, Hosted!Kinds
        <3> QED BY <3>1 DEF HostedInv, HostedTypes, HubRows
    <2>2. CASE Hosted!Writer
        BY <2>2, Zenon DEF Hosted!Writer, Hosted!Observe, Hosted!StartResend, Hosted!JournalJob,
           Hosted!SendJob, Hosted!EndTick, Hosted!ReconcileEngineJobs, Hosted!StartTick
    <2>3. CASE Hosted!Lifecycle
        BY <2>3, Zenon DEF Hosted!Lifecycle, Hosted!Life, Hosted!StayPlaying,
                           Hosted!StartDraining,
           Hosted!FenceWriter, Hosted!QuarantineTicks, Hosted!CloseEngine, Hosted!Challenge,
           Hosted!FinalizeResults, Hosted!RenewEngine, Hosted!StartEngine, Hosted!SettleTx,
           Hosted!CreateSession, Hosted!LookupSession
    <2>4. ASSUME Hosted!World, ~\E k \in Hosted!Kinds : Hosted!Mine(k)
          PROVE  delegation'.epoch = delegation.epoch
        <3>1. Hosted!Due \/ Hosted!Unlock => delegation'.epoch = delegation.epoch
            BY DEF Hosted!Due, Hosted!Unlock, HostedInv, HostedTypes, HubRows
        <3>2. CASE ~(Hosted!Due \/ Hosted!Unlock)
            BY <2>4, <3>2, Zenon DEF
        Hosted!World, Hosted!Publish, Hosted!NodeLoads, Hosted!WaitMinute,
               Hosted!Crash, Hosted!SignTicket, Hosted!TicketExpires, Hosted!Redeem, Hosted!MatchEnds,
               Hosted!Execute
        <3> QED BY <3>1, <3>2
    <2>5. UNCHANGED Hosted!vars => delegation'.epoch = delegation.epoch
        BY DEF Hosted!vars
    <2> QED BY <2>1, <2>2, <2>3, <2>4, <2>5 DEF Hosted!Next
<1> QED BY <1>1 DEF Hosted!Mine, HostedInv, Phased

HostedSpec == Hosted!Init /\ [][Hosted!Next]_(Hosted!vars)

\* The inductive invariant of the engine's lifecycle.
THEOREM HostedInvariance == HostedSpec => []HostedInv
BY HostedInit, HostedStep, PTL DEF HostedSpec

\* A nonce of the engine has one command and the host is asked for one session; a
\* delegation is closed only with everything published; an epoch ends only when its
\* results are final (engine-jobs.ts, rooms-lifecycle.ts).
THEOREM ClosingIsClean ==
  HostedSpec => /\ [](Hosted!NonceOwnedOnce /\ Hosted!CreatedOnce /\ Hosted!ClosedClean)
                /\ [][Hosted!EpochEnds]_(Hosted!vars)
<1>1. HostedInv /\ [Hosted!Next]_(Hosted!vars) => [Hosted!EpochEnds]_(Hosted!vars)
    BY EpochEndsFact
<1> QED BY HostedInvariance, HostedFacts, <1>1, PTL DEF HostedSpec

-----------------------------------------------------------------------------
CONSTANTS MaxState, MaxReturn, MaxCorrection, MaxMishap
VARIABLES contest, handed, contestTerm, newest, kept, storing, retiring, available, frameRows,
          listing, published, onChain, archivedAs, archiving, returns, mishaps

Cache == INSTANCE ReplayCache WITH MaxRev <- MaxState, MaxReset <- MaxReturn,
           MaxHash <- MaxCorrection, MaxFault <- MaxMishap, game <- contest, heard <- handed,
           epoch <- contestTerm, latest <- newest, buffer <- kept, flushing <- storing,
           retaining <- retiring, row <- available, frames <- frameRows, index <- listing,
           result <- published, recorded <- onChain, archived <- archivedAs, job <- archiving,
           resets <- returns, faults <- mishaps

-----------------------------------------------------------------------------
(* The replay cache (ReplayCache). *)

(* Nothing is kept of a match before its first state. *)
LEMMA CacheInit == Cache!Init => Cache!RetiredStaysEmpty
BY DEF Cache!Init, Cache!RetiredStaysEmpty

(* Only retain retires a replay, and it empties it; a write that comes after *)
(* finds the tombstone.                                                      *)
LEMMA CacheStep == Cache!RetiredStaysEmpty /\ [Cache!Next]_(Cache!vars) => Cache!RetiredStaysEmpty'
<1> SUFFICES ASSUME Cache!RetiredStaysEmpty, [Cache!Next]_(Cache!vars) PROVE Cache!RetiredStaysEmpty'
    OBVIOUS
<1>1. CASE Cache!FlushCommits
    BY <1>1 DEF Cache!FlushCommits, Cache!Storable, Cache!RetiredStaysEmpty
<1>2. CASE Cache!RetainApplies
    BY <1>2 DEF Cache!RetainApplies, Cache!RetiredStaysEmpty
<1>3. CASE ~Cache!FlushCommits /\ ~Cache!RetainApplies
    <2>1. available' = available /\ frameRows' = frameRows
        BY <1>3, Zenon DEF Cache!Next, Cache!Play, Cache!Rollback, Cache!Publish, Cache!Index,
           Cache!RecordMatch, Cache!RecordFails, Cache!Record, Cache!EpochRead, Cache!EpochFails,
           Cache!FlushTakes, Cache!FlushFails, Cache!RetainReads, Cache!RetainFails,
           Cache!PublishArchive, Cache!Restart, Cache!vars, Cache!cacheVars
    <2> QED BY <2>1 DEF Cache!RetiredStaysEmpty
<1> QED BY <1>1, <1>2, <1>3

CacheSpec == Cache!Init /\ [][Cache!Next]_(Cache!vars)

(* A retired replay has no frames, whatever was in flight when it was retired *)
(* (rooms-events-history.ts).                                                 *)
THEOREM RetiredReplaysStayEmpty == CacheSpec => []Cache!RetiredStaysEmpty
BY CacheInit, CacheStep, PTL DEF CacheSpec

-----------------------------------------------------------------------------
CONSTANTS Callers, OperationIds, MaxTerms, MaxChallenge, MaxOpened, MaxRevision, MaxUnread
VARIABLES sessionTerm, termCache, termReading, challenges, openChallenges, posts, openSessions,
          requests, answers, took, documentRev, subscribed, visiting, unread

Login == INSTANCE RoomsSessions WITH Players <- Callers, Ops <- OperationIds,
           MaxEpoch <- MaxTerms, MaxNonce <- MaxChallenge, MaxOpen <- MaxOpened,
           MaxRev <- MaxRevision, MaxFail <- MaxUnread, hub <- sessionTerm, cache <- termCache,
           reading <- termReading, issued <- challenges, nonces <- openChallenges,
           logins <- posts, sessions <- openSessions, reqs <- requests, ops <- answers,
           effects <- took, rev <- documentRev, sockets <- subscribed, walk <- visiting,
           fails <- unread

-----------------------------------------------------------------------------
(* The rooms' sessions (RoomsSessions). *)

(* The row of an operation and what took effect are written together. *)
AnswersWritten ==
  /\ answers \in [OperationIds -> {1, 2, Login!None}]
  /\ took \in [OperationIds -> Seq({1, 2})]
  /\ \A r \in requests : r.op \in OperationIds /\ r.body \in {1, 2}
  /\ \A o \in OperationIds :
       took[o] = IF answers[o] = Login!None THEN <<>> ELSE <<answers[o]>>

(* A challenge that opened a session is no longer open, and is never issued again. *)
ChallengesSpentOnce ==
  /\ challenges \in Nat
  /\ \A n \in openChallenges : n.id \in Nat /\ n.id < challenges
  /\ \A l \in posts : l.nonce \in Nat /\ l.nonce < challenges
  /\ \A s \in openSessions : /\ s.nonce \in Nat /\ s.nonce < challenges
                             /\ \A n \in openChallenges : n.id # s.nonce
LoginInv == AnswersWritten /\ ChallengesSpentOnce /\ Login!ChallengeOnce

(* Nobody has logged in yet. *)
LEMMA LoginInit == Login!Init => LoginInv
BY DEF Login!Init, LoginInv, AnswersWritten, ChallengesSpentOnce, Login!ChallengeOnce

(* An operation's row and its effect are written under one lock: a repetition *)
(* that comes later finds the row.                                            *)
LEMMA AnswersKept == LoginInv /\ [Login!Next]_(Login!vars) => AnswersWritten'
<1> SUFFICES ASSUME LoginInv, [Login!Next]_(Login!vars) PROVE AnswersWritten'
    OBVIOUS
<1> USE DEF LoginInv
<1>1. ASSUME NEW r \in requests, Login!Transact(r) PROVE AnswersWritten'
    <2>1. r.op \in OperationIds /\ r.body \in {1, 2} /\ requests' = requests \ {r}
        BY <1>1 DEF AnswersWritten, Login!Transact
    <2>2. CASE Login!Known(r.op)
        BY <1>1, <2>1, <2>2 DEF AnswersWritten, Login!Transact, Login!None
    <2>3. CASE ~Login!Known(r.op)
        <3>1. /\ answers' = [answers EXCEPT ![r.op] = r.body]
              /\ took' = [took EXCEPT ![r.op] = Append(took[r.op], r.body)]
            BY <1>1, <2>3 DEF Login!Transact
        <3>2. took[r.op] = <<>>
            BY <2>1, <2>3 DEF AnswersWritten, Login!Known
        <3>3. Append(took[r.op], r.body) = <<r.body>> /\ <<r.body>> \in Seq({1, 2})
            BY <2>1, <3>2
        <3>4. took' = [took EXCEPT ![r.op] = <<r.body>>]
            BY <3>1, <3>3
        <3> QED BY <2>1, <3>1, <3>3, <3>4 DEF AnswersWritten, Login!None
    <2> QED BY <2>2, <2>3
<1>2. ASSUME NEW s \in openSessions, NEW o \in OperationIds, NEW b \in {1, 2}, Login!Request(s, o, b)
      PROVE  AnswersWritten'
    BY <1>2 DEF AnswersWritten, Login!Request, Login!None
<1>3. ASSUME UNCHANGED <<requests, answers, took>> PROVE AnswersWritten'
    BY <1>3 DEF AnswersWritten, Login!None
<1>4. CASE /\ ~\E r \in requests : Login!Transact(r)
           /\ ~\E s \in openSessions, o \in OperationIds, b \in {1, 2} : Login!Request(s, o, b)
    <2>1. UNCHANGED <<requests, answers, took>>
        BY <1>4, Zenon DEF Login!Next, Login!Challenge, Login!Revoke, Login!Age,
                           Login!StartReading,
           Login!EndReading, Login!ReadingFails, Login!ChallengeExpires, Login!LoginVerified,
           Login!LoginEnds, Login!SessionEnds, Login!Subscribe, Login!StartNotify, Login!Visit,
           Login!VisitUnavailable, Login!vars, Login!opVars
    <2> QED BY <2>1, <1>3
<1> QED BY <1>1, <1>2, <1>4

(* The DELETE of a challenge lets one of its posts through. *)
LEMMA ChallengesSpent ==
  LoginInv /\ [Login!Next]_(Login!vars) => ChallengesSpentOnce' /\ Login!ChallengeOnce'
<1> SUFFICES ASSUME LoginInv, [Login!Next]_(Login!vars) PROVE ChallengesSpentOnce' /\ Login!ChallengeOnce'
    OBVIOUS
<1> USE DEF LoginInv, ChallengesSpentOnce, Login!ChallengeOnce
<1>1. ASSUME NEW p \in Callers, Login!Challenge(p) PROVE ChallengesSpentOnce' /\ Login!ChallengeOnce'
    <2>1. /\ challenges' = challenges + 1
          /\ openChallenges' = openChallenges \cup {[id |-> challenges, player |-> p]}
          /\ posts' = posts /\ openSessions' = openSessions
        BY <1>1, Zenon DEF Login!Challenge
    <2> QED BY <2>1
<1>2. ASSUME NEW n \in openChallenges, Login!ChallengeExpires(n) PROVE ChallengesSpentOnce' /\ Login!ChallengeOnce'
    BY <1>2 DEF Login!ChallengeExpires
<1>3. ASSUME NEW n \in openChallenges, NEW t \in {1, 2}, Login!LoginVerified(n, t)
      PROVE  ChallengesSpentOnce' /\ Login!ChallengeOnce'
    BY <1>3 DEF Login!LoginVerified
<1>4. ASSUME NEW l \in posts, Login!LoginEnds(l) PROVE ChallengesSpentOnce' /\ Login!ChallengeOnce'
    BY <1>4 DEF Login!LoginEnds, Login!Used
<1>5. ASSUME NEW s \in openSessions, Login!SessionEnds(s) PROVE ChallengesSpentOnce' /\ Login!ChallengeOnce'
    BY <1>5 DEF Login!SessionEnds
<1>6. ASSUME UNCHANGED <<challenges, openChallenges, posts, openSessions>>
      PROVE  ChallengesSpentOnce' /\ Login!ChallengeOnce'
    BY <1>6
<1>7. CASE /\ ~\E p \in Callers : Login!Challenge(p)
           /\ ~\E n \in openChallenges : Login!ChallengeExpires(n) \/ \E t \in {1, 2} : Login!LoginVerified(n, t)
           /\ ~\E l \in posts : Login!LoginEnds(l)
           /\ ~\E s \in openSessions : Login!SessionEnds(s)
    <2>1. UNCHANGED <<challenges, openChallenges, posts, openSessions>>
        BY <1>7, Zenon DEF Login!Next, Login!Revoke, Login!Age, Login!StartReading,
           Login!EndReading, Login!ReadingFails, Login!Request, Login!Transact, Login!Subscribe,
           Login!StartNotify, Login!Visit, Login!VisitUnavailable, Login!vars, Login!loginVars
    <2> QED BY <2>1, <1>6
<1> QED BY <1>1, <1>2, <1>3, <1>4, <1>5, <1>7

LoginSpec == Login!Init /\ [][Login!Next]_(Login!vars)

(* The inductive invariant of the sessions. *)
THEOREM LoginInvariance == LoginSpec => []LoginInv
<1>1. LoginInv /\ [Login!Next]_(Login!vars) => LoginInv'
    BY AnswersKept, ChallengesSpent DEF LoginInv
<1> QED BY LoginInit, <1>1, PTL DEF LoginSpec

(* What the invariant says of operations and of challenges. *)
LEMMA LoginFacts == LoginInv => Login!OperationOnce /\ Login!ChallengeOnce
<1> SUFFICES ASSUME LoginInv, NEW o \in OperationIds
             PROVE  Len(took[o]) <= 1 /\ (answers[o] # Login!None => took[o] = <<answers[o]>>)
    BY DEF LoginInv, Login!OperationOnce
<1>1. took[o] = IF answers[o] = Login!None THEN <<>> ELSE <<answers[o]>>
    BY DEF LoginInv, AnswersWritten
<1>2. CASE answers[o] = Login!None
    <2>1. took[o] = <<>>
        BY <1>1, <1>2, Zenon
    <2>2. Len(took[o]) = 0
        BY <2>1
    <2> QED BY <2>2, <1>2
<1>3. CASE answers[o] # Login!None
    <2>1. took[o] = <<answers[o]>>
        BY <1>1, <1>3, Zenon
    <2> HIDE DEF Login!None
    <2>2. Len(took[o]) = 1
        BY <2>1
    <2> QED BY <2>1, <2>2
<1> QED BY <1>2, <1>3

(* A repeated request takes effect once and a challenge opens one session *)
(* (rooms-http.ts, rooms-auth.ts).                                        *)
THEOREM RequestsTakeEffectOnce == LoginSpec => [](Login!OperationOnce /\ Login!ChallengeOnce)
BY LoginInvariance, LoginFacts, PTL

-----------------------------------------------------------------------------
CONSTANTS MaxNumber, MaxBlock, MaxLife, MaxLost, Window
VARIABLES engineNode, subscription, cached, fullRead, lost

Feed == INSTANCE EngineFeed WITH MaxRev <- MaxNumber, MaxHead <- MaxBlock,
          MaxRestarts <- MaxLife, MaxFaults <- MaxLost, GapWindow <- Window, node <- engineNode,
          stream <- subscription, entry <- cached, pending <- fullRead, faults <- lost

-----------------------------------------------------------------------------
(* The snapshot cache (EngineFeed). *)

States == [rev : Nat, head : Nat, life : Nat, reset : BOOLEAN]
NodeStates == [head : Nat, life : Nat, log : Seq(Nat)]

(* A state was made by the present process or by an earlier one, and the *)
(* present one has not gone back behind what it made itself.             *)
Seen(v) == /\ v \in States /\ v.life <= engineNode.life
           /\ v.life = engineNode.life => v.rev <= Feed!Rev

Entries == [value : States, dirty : BOOLEAN, gap : SUBSET States, buffered : BOOLEAN]
NodeKept ==
  /\ engineNode \in NodeStates /\ Feed!Rev > 0 /\ engineNode.life > 0
  /\ \A i \in DOMAIN engineNode.log : engineNode.log[i] <= engineNode.life
StreamKept ==
  /\ subscription \in [life : Nat, frames : Seq(States)]
  /\ \A i \in DOMAIN subscription.frames : Seen(subscription.frames[i])
EntryKept(e) ==
  /\ e \in Entries
  /\ \E n \in Nat : \A g \in e.gap : g.rev <= n
  /\ Seen(e.value) /\ \A g \in e.gap : Seen(g)

(* A second read that is behind the cache was made by a later process. *)
ReadKept ==
  /\ fullRead \in [at : {"none", "asked", "served", "verify", "verified"}, from : States,
                   got : States, again : States]
  /\ Seen(fullRead.from) /\ Seen(fullRead.got) /\ Seen(fullRead.again)
  /\ fullRead.at = "verified" /\ fullRead.again.rev < fullRead.from.rev
       => fullRead.from.life < engineNode.life
FeedInv == NodeKept /\ StreamKept /\ EntryKept(cached) /\ ReadKept

(* The cache and the stream begin empty. *)
LEMMA FeedInit == Feed!Init => FeedInv
<1> SUFFICES ASSUME Feed!Init PROVE FeedInv
    OBVIOUS
<1> USE DEF Feed!Init, Feed!NoStream, Feed!NoRead
<1>1. Feed!NoValue \in States /\ Feed!NoValue.life = 0 /\ Feed!NoValue.rev = 0
    BY DEF States, Feed!NoValue
<1>2. engineNode \in NodeStates /\ Feed!Rev = 1 /\ engineNode.life = 1
      /\ engineNode.log[1] = 1 /\ DOMAIN engineNode.log = {1}
    BY DEF NodeStates, Feed!Rev
<1>3. Seen(Feed!NoValue)
    BY <1>1, <1>2 DEF Seen
<1>4. StreamKept
    <2> HIDE DEF States, Feed!NoValue
    <2> QED BY DEF StreamKept
<1>5. ReadKept
    <2> HIDE DEF States, Feed!NoValue
    <2> QED BY <1>1, <1>3 DEF ReadKept
<1>6. EntryKept(cached)
    <2> HIDE DEF States, Feed!NoValue
    <2> QED BY <1>1, <1>3 DEF EntryKept, Entries
<1> QED BY <1>2, <1>4, <1>5, <1>6 DEF FeedInv, NodeKept

(* The revision that the node is at was made by it or by an earlier process. *)
LEMMA NowSeen == NodeKept => Seen(Feed!Now)
<1> SUFFICES ASSUME NodeKept PROVE Seen(Feed!Now)
    OBVIOUS
<1>1. Feed!Rev \in Nat /\ Feed!Rev \in DOMAIN engineNode.log /\ engineNode.log[Feed!Rev] \in Nat
    BY DEF NodeKept, NodeStates, Feed!Rev
<1>2. engineNode.head \in Nat /\ engineNode.log[Feed!Rev] <= engineNode.life
    BY <1>1 DEF NodeKept, NodeStates
<1>3. /\ Feed!Now = [rev |-> Feed!Rev, head |-> engineNode.head, life |-> engineNode.log[Feed!Rev],
                     reset |-> FALSE]
    BY DEF Feed!Now
<1>4. Feed!Now \in States
    BY <1>1, <1>2, <1>3, Zenon DEF States
<1> QED BY <1>1, <1>2, <1>3, <1>4 DEF Seen

(* What the node makes or forgets leaves what was seen of it true. *)
LEMMA SeenStays ==
    ASSUME NodeKept, NodeKept',
           \/ engineNode'.life > engineNode.life
           \/ engineNode'.life = engineNode.life /\ Feed!Rev' >= Feed!Rev,
           NEW v, Seen(v)
    PROVE  Seen(v)'
<1>1. v.life \in Nat /\ v.rev \in Nat /\ v.life <= engineNode.life
    BY DEF Seen, States
<1>2. engineNode.life \in Nat /\ engineNode'.life \in Nat
    BY DEF NodeKept, NodeStates
<1>3. Feed!Rev \in Nat /\ Feed!Rev' \in Nat
    BY DEF NodeKept, NodeStates, Feed!Rev
<1> QED BY <1>1, <1>2, <1>3 DEF Seen

(* The newest of the frames that follow one another from a frame: it exists, *)
(* and it is the frame or one of those that waited.                          *)
LEMMA NewestOne ==
    ASSUME NEW S, S \subseteq Nat, S # {}, NEW n \in Nat, \A x \in S : x <= n
    PROVE  \E x \in S : \A y \in S : y <= x
<1> DEFINE T == {n - x : x \in S}
<1>1. T \subseteq Nat /\ T # {}
    <2>1. \A x \in S : n - x \in Nat
        OBVIOUS
    <2> QED BY <2>1, Zenon
<1>2. PICK t \in T : \A y \in T : <<y, t>> \notin OpToRel(<, Nat)
    BY <1>1, NatLessThanWellFounded, WFMin, Zenon
<1>3. PICK x \in S : t = n - x
    OBVIOUS
<1>4. ASSUME NEW y \in S PROVE y <= x
    <2>1. n - y \in T /\ n - y \in Nat /\ t \in Nat
        OBVIOUS
    <2>2. ~(n - y < t)
        BY <1>2, <2>1 DEF OpToRel
    <2> QED BY <1>3, <2>2
<1> QED BY <1>4

\* The last state of the run that follows a frame.
LEMMA LastFact ==
    ASSUME EntryKept(cached), NEW f \in States
    PROVE  LET v == Feed!Last(f, cached.gap)
           IN  (v = f \/ v \in cached.gap) /\ v.rev >= f.rev
<1> DEFINE run == {f} \cup {h \in cached.gap : \A r \in (f.rev + 1)..h.rev :
                               \E g \in cached.gap : g.rev = r /\ g.head >= f.head}
           R == {h.rev : h \in run}
<1>1. run \subseteq States /\ f \in run
    BY DEF EntryKept, Entries
<1>2. R \subseteq Nat /\ R # {}
    <2> HIDE DEF run
    <2> QED BY <1>1 DEF States
<1>3. PICK n \in Nat : \A g \in cached.gap : g.rev <= n
    BY DEF EntryKept
<1>4. f.rev \in Nat /\ \A g \in cached.gap : g.rev \in Nat
    BY DEF EntryKept, States, Entries
<1>5. \E m \in Nat : \A x \in R : x <= m
    <2>1. \A x \in R : x <= n + f.rev
        <3> SUFFICES ASSUME NEW h \in run PROVE h.rev <= n + f.rev
            OBVIOUS
        <3>1. h = f \/ h \in cached.gap
            OBVIOUS
        <3> HIDE DEF run
        <3>2. CASE h = f
            BY <3>2, <1>3, <1>4
        <3>3. CASE h \in cached.gap
            <4>1. h.rev <= n /\ h.rev \in Nat
                BY <3>3, <1>3, <1>4
            <4> QED BY <4>1, <1>3, <1>4
        <3> QED BY <3>1, <3>2, <3>3
    <2> QED BY <2>1, <1>3, <1>4
<1>6. \E x \in R : \A y \in R : y <= x
    <2> HIDE DEF R
    <2> QED BY <1>2, <1>5, NewestOne
<1>7. \E h \in run : \A g \in run : g.rev <= h.rev
    <2> HIDE DEF run
    <2> QED BY <1>6
<1>8. Feed!Last(f, cached.gap) = CHOOSE h \in run : \A g \in run : g.rev <= h.rev
    BY Zenon DEF Feed!Last
<1>9. /\ Feed!Last(f, cached.gap) \in run
      /\ \A g \in run : g.rev <= Feed!Last(f, cached.gap).rev
    <2> HIDE DEF run
    <2> QED BY <1>7, <1>8
<1> QED BY <1>1, <1>9

(* An entry whose frames and flags are replaced. *)
LEMMA EntryEdited ==
    ASSUME NEW e \in Entries, NEW t, NEW g \in SUBSET States, NEW d \in BOOLEAN, NEW b \in BOOLEAN,
           \/ t = [e EXCEPT !.gap = g, !.buffered = b, !.dirty = d]
           \/ t = [e EXCEPT !.dirty = d, !.gap = g, !.buffered = b]
    PROVE  t \in Entries /\ t.value = e.value /\ t.gap = g
<1> HIDE DEF States
<1>1. t \in Entries
    BY Zenon DEF Entries
<1>2. t.value = e.value /\ t.gap = g
    BY DEF Entries
<1> QED BY <1>1, <1>2

(* A cache that asks for a full read keeps its state. *)
LEMMA InvalidatedFact ==
    ASSUME EntryKept(cached)
    PROVE  EntryKept(Feed!Invalidated) /\ Feed!Invalidated.value = cached.value
<1>1. cached \in Entries /\ {} \in SUBSET States
    BY DEF EntryKept
<1>2. Feed!Invalidated = [cached EXCEPT !.dirty = TRUE, !.gap = {}, !.buffered = FALSE]
    BY DEF Feed!Invalidated
<1>3. /\ Feed!Invalidated \in Entries /\ Feed!Invalidated.value = cached.value
      /\ Feed!Invalidated.gap = {}
    <2> HIDE DEF Entries, States
    <2> QED BY <1>1, <1>2, EntryEdited, Zenon
<1> QED BY <1>3 DEF EntryKept

(* A frame publishes what follows the cached state, waits or asks for a read: *)
(* the cache moves forward and holds what was seen of the node.               *)
LEMMA AppliedFact ==
    ASSUME EntryKept(cached), NEW f, Seen(f)
    PROVE  EntryKept(Feed!Applied(f)) /\ Feed!Applied(f).value.rev >= cached.value.rev
<1>0. f \in States /\ f.rev \in Nat /\ cached \in Entries /\ cached.value \in States
      /\ cached.value.rev \in Nat /\ cached.gap \in SUBSET States
    BY DEF EntryKept, Seen, States, Entries
<1> DEFINE v == Feed!Last(f, cached.gap)
           rest == {g \in cached.gap : g.rev > v.rev}
           joined == {g \in cached.gap : g.rev # f.rev} \cup {f}
           A == [value |-> v, gap |-> rest, buffered |-> cached.buffered /\ rest # {},
                 dirty |-> cached.dirty /\ ~(cached.buffered /\ rest = {})]
           B == [cached EXCEPT !.gap = joined, !.buffered = TRUE, !.dirty = TRUE]
<1>1. \/ Feed!Applied(f) = cached
      \/ Feed!Applied(f) = A /\ Feed!Fits(f, cached.value)
      \/ Feed!Applied(f) = B
      \/ Feed!Applied(f) = Feed!Invalidated
    BY Zenon DEF Feed!Applied
<1>2. (v = f \/ v \in cached.gap) /\ v.rev >= f.rev
    BY <1>0, LastFact
<1> HIDE DEF v
<1>3. CASE Feed!Applied(f) = A /\ Feed!Fits(f, cached.value)
    <2>1. v \in States /\ Seen(v) /\ v.rev \in Nat
        BY <1>0, <1>2 DEF EntryKept, States, Entries
    <2>2. f.rev = cached.value.rev + 1
        BY <1>3 DEF Feed!Fits
    <2>3. A.value = v /\ A.gap = rest /\ A.value.rev >= cached.value.rev
        BY <2>1, <2>2, <1>0, <1>2
    <2>4. rest \subseteq cached.gap
        OBVIOUS
    <2>5. A \in Entries
        <3>1. (cached.buffered /\ rest # {}) \in BOOLEAN
              /\ (cached.dirty /\ ~(cached.buffered /\ rest = {})) \in BOOLEAN
            BY Zenon
        <3>2. rest \in SUBSET States
            BY <2>4, <1>0
        <3> HIDE DEF rest, States
        <3> QED BY <2>1, <3>1, <3>2, Zenon DEF Entries
    <2>6. \E n \in Nat : \A g \in rest : g.rev <= n
        BY <2>4 DEF EntryKept
    <2> HIDE DEF A, rest
    <2> QED BY <1>3, <2>1, <2>3, <2>4, <2>5, <2>6 DEF EntryKept
<1>4. CASE Feed!Applied(f) = B
    <2>2. joined \subseteq States /\ \A g \in joined : g = f \/ g \in cached.gap
        BY <1>0
    <2>3. \E n \in Nat : \A g \in joined : g.rev <= n
        <3>1. PICK n \in Nat : \A g \in cached.gap : g.rev <= n
            BY DEF EntryKept
        <3>2. \A g \in cached.gap : g.rev \in Nat
            BY <1>0 DEF States
        <3>3. \A g \in joined : g.rev <= n + f.rev
            <4> SUFFICES ASSUME NEW g \in joined PROVE g.rev <= n + f.rev
                OBVIOUS
            <4>1. CASE g = f
                BY <4>1, <3>1, <1>0
            <4>2. CASE g \in cached.gap
                <5>1. g.rev <= n /\ g.rev \in Nat
                    BY <4>2, <3>1, <3>2
                <5> QED BY <5>1, <3>1, <1>0
            <4> QED BY <4>1, <4>2, <2>2
        <3> QED BY <3>1, <3>3, <1>0
    <2> HIDE DEF joined
    <2>4. B \in Entries /\ B.value = cached.value /\ B.gap = joined
        <3>1. joined \in SUBSET States
            BY <2>2
        <3> QED BY <3>1, <1>0, EntryEdited, Zenon
    <2>6. Seen(B.value) /\ \A g \in B.gap : Seen(g)
        BY <2>2, <2>4 DEF EntryKept
    <2> HIDE DEF B
    <2> QED BY <1>0, <1>4, <2>3, <2>4, <2>6 DEF EntryKept
<1>5. CASE Feed!Applied(f) = Feed!Invalidated
    BY <1>0, <1>5, InvalidatedFact
<1>6. CASE Feed!Applied(f) = cached
    BY <1>0, <1>6
<1> QED BY <1>1, <1>3, <1>4, <1>5, <1>6

(* What the stream, the cache and the read hold stays true of the node, as long *)
(* as the node has only gone on or restarted.                                   *)
NodeMoves == \/ engineNode'.life > engineNode.life
             \/ engineNode'.life = engineNode.life /\ Feed!Rev' >= Feed!Rev

(* The cache under a moving node. *)
LEMMA EntryStays ==
    ASSUME NodeKept, NodeKept', NodeMoves, EntryKept(cached), cached' = cached
    PROVE  EntryKept(cached)'
<1>1. Seen(cached.value)' /\ \A g \in cached.gap : Seen(g)'
    BY SeenStays DEF EntryKept, NodeMoves
<1> QED BY <1>1 DEF EntryKept

(* The read under way, under a moving node. *)
LEMMA ReadStays ==
    ASSUME NodeKept, NodeKept', NodeMoves, ReadKept, fullRead' = fullRead
    PROVE  ReadKept'
<1>1. Seen(fullRead.from)' /\ Seen(fullRead.got)' /\ Seen(fullRead.again)'
    BY SeenStays DEF ReadKept, NodeMoves
<1>2. engineNode'.life >= engineNode.life /\ engineNode.life \in Nat /\ engineNode'.life \in Nat
    BY DEF NodeMoves, NodeKept, NodeStates
<1>3. fullRead.from.life \in Nat
    BY DEF ReadKept, Seen, States
<1> QED BY <1>1, <1>2, <1>3 DEF ReadKept

(* The stream under a moving node. *)
LEMMA StreamStays ==
    ASSUME NodeKept, NodeKept', NodeMoves, StreamKept, subscription' = subscription
    PROVE  StreamKept'
<1>1. \A i \in DOMAIN subscription.frames : Seen(subscription.frames[i])'
    BY SeenStays DEF StreamKept, NodeMoves
<1> QED BY <1>1 DEF StreamKept

(* A node that stands still has not moved back. *)
LEMMA NodeStands ==
    ASSUME NodeKept, engineNode' = engineNode
    PROVE  NodeKept' /\ NodeMoves /\ Feed!Rev' = Feed!Rev /\ \A v : Seen(v) => Seen(v)'
<1>1. Feed!Rev' = Feed!Rev /\ Feed!Rev \in Nat
    BY DEF Feed!Rev, NodeKept, NodeStates
<1> QED BY <1>1 DEF NodeKept, NodeMoves, Seen

(* A command makes the next revision and is pushed to the present subscription. *)
LEMMA OnApply == ASSUME FeedInv, Feed!Apply PROVE FeedInv'
<1>0. PICK new, log :
        /\ new = [rev |-> Feed!Rev + 1, head |-> engineNode.head + 1, life |-> engineNode.life,
                  reset |-> FALSE]
        /\ log = Append(engineNode.log, engineNode.life)
    OBVIOUS
<1>1. /\ engineNode' = [engineNode EXCEPT !.head = @ + 1, !.log = log]
      /\ subscription' = IF subscription.life = engineNode.life
                         THEN [subscription EXCEPT !.frames = Append(subscription.frames, new)]
                         ELSE subscription
      /\ cached' = cached /\ fullRead' = fullRead
    BY <1>0, Zenon DEF Feed!Apply
<1>2. /\ engineNode.head \in Nat /\ engineNode.life \in Nat /\ engineNode.log \in Seq(Nat)
      /\ Feed!Rev = Len(engineNode.log) /\ Feed!Rev \in Nat /\ engineNode \in NodeStates
    BY DEF FeedInv, NodeKept, NodeStates, Feed!Rev
<1>3. log \in Seq(Nat) /\ Len(log) = Feed!Rev + 1
      /\ \A i \in DOMAIN log : log[i] <= engineNode.life
    BY <1>0, <1>2 DEF FeedInv, NodeKept
<1>4. /\ engineNode' \in NodeStates /\ engineNode'.life = engineNode.life
      /\ engineNode'.log = log
    <2>1. engineNode' = [head |-> engineNode.head + 1, life |-> engineNode.life, log |-> log]
        BY <1>1, <1>2 DEF NodeStates
    <2>2. engineNode.head + 1 \in Nat
        BY <1>2
    <2> QED BY <1>2, <1>3, <2>1, <2>2 DEF NodeStates
<1>5. Feed!Rev' = Feed!Rev + 1
    BY <1>3, <1>4 DEF Feed!Rev
<1>6. NodeKept' /\ NodeMoves
    BY <1>2, <1>3, <1>4, <1>5 DEF FeedInv, NodeKept, NodeMoves
<1>7. Seen(new)'
    <2>1. new \in States
        <3>1. FALSE \in BOOLEAN
            BY Zenon
        <3>2. Feed!Rev + 1 \in Nat /\ engineNode.head + 1 \in Nat
            BY <1>2
        <3> QED BY <1>0, <1>2, <3>1, <3>2, Zenon DEF States
    <2>2. new.rev = Feed!Rev + 1 /\ new.life = engineNode.life
        BY <1>0
    <2> QED BY <2>1, <2>2, <1>2, <1>4, <1>5 DEF Seen
<1>8. EntryKept(cached)' /\ ReadKept'
    BY <1>1, <1>6, EntryStays, ReadStays DEF FeedInv
<1>9. StreamKept'
    <2>1. CASE subscription' = subscription
        BY <1>6, <2>1, StreamStays DEF FeedInv
    <2>2. CASE subscription' = [subscription EXCEPT !.frames = Append(subscription.frames, new)]
        <3>1. \A v : Seen(v) => Seen(v)'
            BY <1>6, SeenStays DEF NodeMoves, FeedInv
        <3>2. new \in States
            BY <1>7 DEF Seen
        <3>3. subscription.frames \in Seq(States) /\ subscription.life \in Nat
              /\ subscription \in [life : Nat, frames : Seq(States)]
            BY DEF FeedInv, StreamKept
        <3>4. Append(subscription.frames, new) \in Seq(States)
            <4> HIDE DEF States
            <4> QED BY <3>2, <3>3
        <3>5. subscription' \in [life : Nat, frames : Seq(States)]
              /\ subscription'.frames = Append(subscription.frames, new)
            <4> HIDE DEF States
            <4> QED BY <2>2, <3>3, <3>4
        <3>6. \A i \in DOMAIN subscription'.frames :
                \/ subscription'.frames[i] = new
                \/ /\ i \in DOMAIN subscription.frames
                   /\ subscription'.frames[i] = subscription.frames[i]
            <4> HIDE DEF States
            <4> QED BY <3>2, <3>3, <3>5
        <3>7. (\A i \in DOMAIN subscription.frames : Seen(subscription.frames[i]))'
            <4>1. ASSUME NEW i \in DOMAIN subscription'.frames, NEW f, f = subscription'.frames[i]
                  PROVE  Seen(f)'
                <5>1. f = new \/ Seen(f)
                    BY <3>6, <4>1 DEF FeedInv, StreamKept
                <5> QED BY <1>7, <3>1, <5>1
            <4> QED BY <4>1, Zenon
        <3> QED BY <3>5, <3>7 DEF StreamKept
    <2> QED BY <1>1, <2>1, <2>2
<1> QED BY <1>6, <1>8, <1>9 DEF FeedInv

(* A restarted node keeps a prefix of the match. *)
LEMMA OnRestart == ASSUME FeedInv, Feed!Restart PROVE FeedInv'
<1>1. PICK r \in 1..Feed!Rev, h \in 1..engineNode.head :
         engineNode' = [head |-> h, life |-> engineNode.life + 1,
                        log |-> SubSeq(engineNode.log, 1, r)]
    BY DEF Feed!Restart
<1>2. /\ engineNode.head \in Nat /\ engineNode.life \in Nat /\ engineNode.log \in Seq(Nat)
      /\ Feed!Rev = Len(engineNode.log) /\ Feed!Rev \in Nat
    BY DEF FeedInv, NodeKept, NodeStates, Feed!Rev
<1> DEFINE log == SubSeq(engineNode.log, 1, r)
<1>3. log \in Seq(Nat) /\ Len(log) = r /\ \A i \in DOMAIN log : log[i] = engineNode.log[i]
                                                           /\ i \in DOMAIN engineNode.log
    BY <1>2
<1>4. \A i \in DOMAIN log : log[i] <= engineNode.life + 1
    <2> SUFFICES ASSUME NEW i \in DOMAIN log PROVE log[i] <= engineNode.life + 1
        OBVIOUS
    <2>1. engineNode.log[i] <= engineNode.life /\ log[i] = engineNode.log[i]
          /\ engineNode.log[i] \in Nat
        BY <1>2, <1>3 DEF FeedInv, NodeKept
    <2> HIDE DEF log
    <2> QED BY <1>2, <2>1
<1> HIDE DEF log
<1>5. /\ engineNode'.life = engineNode.life + 1 /\ engineNode'.log = log /\ Feed!Rev' = r
      /\ engineNode' \in NodeStates
    <2>1. engineNode' = [head |-> h, life |-> engineNode.life + 1, log |-> log]
        BY <1>1 DEF log
    <2>2. h \in Nat /\ engineNode.life + 1 \in Nat
        BY <1>2
    <2>3. engineNode' \in NodeStates
        BY <1>3, <2>1, <2>2, Zenon DEF NodeStates
    <2> QED BY <1>3, <2>1, <2>3 DEF Feed!Rev
<1>6. NodeKept' /\ NodeMoves
    <2>1. r > 0 /\ engineNode.life + 1 > 0 /\ engineNode.life + 1 > engineNode.life
        BY <1>2
    <2>2. NodeKept'
        BY <1>4, <1>5, <2>1 DEF NodeKept
    <2> QED BY <1>5, <2>1, <2>2 DEF NodeMoves
<1> QED BY <1>6, EntryStays, ReadStays, StreamStays DEF FeedInv, Feed!Restart

(* Blocks pass. *)
LEMMA OnTick == ASSUME FeedInv, Feed!Tick PROVE FeedInv'
<1>1. engineNode' = [engineNode EXCEPT !.head = @ + 1] /\ engineNode \in NodeStates
    BY DEF Feed!Tick, FeedInv, NodeKept
<1>2. /\ engineNode' \in NodeStates /\ engineNode'.life = engineNode.life
      /\ engineNode'.log = engineNode.log
    BY <1>1 DEF NodeStates
<1>3. Feed!Rev' = Feed!Rev /\ Feed!Rev \in Nat
    BY <1>1, <1>2 DEF Feed!Rev, NodeStates
<1>4. NodeKept' /\ NodeMoves
    BY <1>2, <1>3 DEF FeedInv, NodeKept, NodeMoves
<1> QED BY <1>4, EntryStays, ReadStays, StreamStays DEF FeedInv, Feed!Tick

(* The first frame is taken off the stream. *)
LEMMA StreamShortened ==
    ASSUME NodeKept, engineNode' = engineNode, StreamKept, subscription.frames # <<>>,
           subscription' = [subscription EXCEPT !.frames = Tail(@)]
    PROVE  StreamKept' /\ Seen(Head(subscription.frames))
<1>1. subscription \in [life : Nat, frames : Seq(States)] /\ subscription.frames \in Seq(States)
    BY DEF StreamKept
<1>2. /\ Tail(subscription.frames) \in Seq(States)
      /\ \A i \in DOMAIN Tail(subscription.frames) :
           i + 1 \in DOMAIN subscription.frames
             /\ Tail(subscription.frames)[i] = subscription.frames[i + 1]
      /\ 1 \in DOMAIN subscription.frames /\ Head(subscription.frames) = subscription.frames[1]
    <2> HIDE DEF States
    <2> QED BY <1>1
<1>3. subscription' \in [life : Nat, frames : Seq(States)]
      /\ subscription'.frames = Tail(subscription.frames)
    <2> HIDE DEF States
    <2> QED BY <1>1, <1>2
<1>4. \A v : Seen(v) => Seen(v)'
    BY NodeStands
<1>5. (\A i \in DOMAIN subscription.frames : Seen(subscription.frames[i]))'
    <2>1. ASSUME NEW i \in DOMAIN subscription'.frames, NEW f, f = subscription'.frames[i]
          PROVE  Seen(f)'
        <3>1. Seen(f)
            BY <1>2, <1>3, <2>1 DEF StreamKept
        <3> QED BY <1>4, <3>1
    <2> QED BY <2>1, Zenon
<1> QED BY <1>2, <1>3, <1>5 DEF StreamKept

(* An entry that was seen of the node, which stands still. *)
LEMMA EntryMoves ==
    ASSUME NodeKept, engineNode' = engineNode, NEW e, EntryKept(e), cached' = e
    PROVE  EntryKept(cached)'
<1>1. \A v : Seen(v) => Seen(v)'
    BY NodeStands
<1>2. Seen(e.value)' /\ \A g \in e.gap : Seen(g)'
    BY <1>1 DEF EntryKept
<1> QED BY <1>2 DEF EntryKept

(* The stream is opened, lost or read, and the tab's own receipts are applied. *)
LEMMA OnStream ==
    ASSUME FeedInv,
           Feed!Connect \/ Feed!Drop \/ Feed!FindClosed \/ Feed!Deliver
             \/ Feed!DeliverUnreadable \/ Feed!Receipt
    PROVE  FeedInv' /\ cached'.value.rev >= cached.value.rev
<1>1. engineNode' = engineNode /\ fullRead' = fullRead
    BY Zenon DEF Feed!Connect, Feed!Drop, Feed!FindClosed, Feed!Closed, Feed!Deliver,
       Feed!DeliverUnreadable, Feed!Receipt
<1>2. NodeKept' /\ ReadKept' /\ \A v : Seen(v) => Seen(v)'
    BY <1>1, NodeStands, ReadStays DEF FeedInv
<1>3. cached.value.rev \in Nat
    BY DEF FeedInv, EntryKept, Entries, States
<1>4. StreamKept' /\ (Feed!Deliver => Seen(Head(subscription.frames)))
    <2>1. CASE subscription' = subscription /\ ~Feed!Deliver
        BY <1>1, <1>2, <2>1, NodeStands, StreamStays DEF FeedInv
    <2>2. CASE subscription' = Feed!NoStream /\ ~Feed!Deliver
        <3>1. Feed!NoStream \in [life : Nat, frames : Seq(States)] /\ Feed!NoStream.frames = <<>>
            <4> HIDE DEF States
            <4> QED BY DEF Feed!NoStream
        <3> QED BY <2>2, <3>1 DEF StreamKept
    <2>3. CASE subscription' = [subscription EXCEPT !.life = engineNode.life] /\ ~Feed!Deliver
        <3>1. subscription' \in [life : Nat, frames : Seq(States)]
              /\ subscription'.frames = subscription.frames
            <4> HIDE DEF States
            <4> QED BY <2>3 DEF FeedInv, StreamKept, NodeKept, NodeStates
        <3>2. (\A i \in DOMAIN subscription.frames : Seen(subscription.frames[i]))'
            <4>1. ASSUME NEW i \in DOMAIN subscription'.frames, NEW f, f = subscription'.frames[i]
                  PROVE  Seen(f)'
                BY <1>2, <3>1, <4>1 DEF FeedInv, StreamKept
            <4> QED BY <4>1, Zenon
        <3> QED BY <2>3, <3>1, <3>2 DEF StreamKept
    <2>4. CASE subscription.frames # <<>> /\ subscription' = [subscription EXCEPT !.frames = Tail(@)]
        BY <1>1, <2>4, StreamShortened DEF FeedInv
    <2> QED BY <2>1, <2>2, <2>3, <2>4, Zenon DEF
        Feed!Connect, Feed!Drop, Feed!FindClosed, Feed!Closed,
           Feed!Deliver, Feed!DeliverUnreadable, Feed!Receipt
<1>5. \E e : cached' = e /\ EntryKept(e) /\ e.value.rev >= cached.value.rev
    <2>1. CASE cached' = cached
        BY <1>3, <2>1 DEF FeedInv
    <2>2. CASE cached' = Feed!Invalidated
        BY <1>3, <2>2, InvalidatedFact DEF FeedInv
    <2>3. CASE Feed!Deliver /\ cached' = Feed!Applied(Head(subscription.frames))
        BY <1>4, <2>3, AppliedFact DEF FeedInv
    <2>4. CASE cached' = Feed!Applied(Feed!Now)
        BY <2>4, NowSeen, AppliedFact DEF FeedInv
    <2> QED BY <2>1, <2>2, <2>3, <2>4, Zenon DEF
        Feed!Connect, Feed!Drop, Feed!FindClosed, Feed!Closed,
           Feed!Deliver, Feed!DeliverUnreadable, Feed!Receipt
<1>6. EntryKept(cached)' /\ cached'.value.rev >= cached.value.rev
    BY <1>1, <1>5, EntryMoves DEF FeedInv
<1> QED BY <1>2, <1>4, <1>6 DEF FeedInv


ReadRows == [at : {"none", "asked", "served", "verify", "verified"}, from : States,
             got : States, again : States]

Edit(p, v, t) == \/ t = [p EXCEPT !.at = "asked", !.from = v]
                 \/ t = [p EXCEPT !.at = "served", !.got = v]
                 \/ t = [p EXCEPT !.at = "verified", !.again = v]
                 \/ t = [p EXCEPT !.at = "verify", !.from = v]

Edited(p, v, t) ==
  /\ t \in ReadRows
  /\ t.from = v \/ t.from = p.from
  /\ t.got = v \/ t.got = p.got
  /\ t.again = v \/ t.again = p.again
  /\ t.at = "verified" => t.from = p.from /\ t.again = v

(* A read in which some answers are replaced. *)
LEMMA ReadEdited ==
    ASSUME NEW p \in ReadRows, NEW v \in States, NEW t, Edit(p, v, t)
    PROVE  Edited(p, v, t)
<1> HIDE DEF States
<1>1. t \in ReadRows
    BY Zenon DEF ReadRows, Edit
<1> QED BY <1>1 DEF ReadRows, Edit, Edited

(* No read is under way. *)
LEMMA NoReadKept ==
    ASSUME NodeKept PROVE /\ Feed!NoRead \in ReadRows /\ Feed!NoRead.at = "none"
                          /\ Seen(Feed!NoRead.from) /\ Seen(Feed!NoRead.got)
                          /\ Seen(Feed!NoRead.again)
<1>1. Feed!NoValue \in States /\ Feed!NoValue.life = 0 /\ Feed!NoValue.rev = 0
    BY DEF States, Feed!NoValue
<1>2. Seen(Feed!NoValue)
    BY <1>1 DEF Seen, NodeKept, NodeStates, Feed!Rev
<1>3. /\ Feed!NoRead \in ReadRows /\ Feed!NoRead.at = "none" /\ Feed!NoRead.from = Feed!NoValue
      /\ Feed!NoRead.got = Feed!NoValue /\ Feed!NoRead.again = Feed!NoValue
    <2> HIDE DEF States, Feed!NoValue
    <2> QED BY <1>1 DEF Feed!NoRead, ReadRows
<1> QED BY <1>2, <1>3

(* A read that is started, answered or fails: a second answer that is behind the *)
(* cached state was given by a later process.                                    *)
LEMMA OnRead ==
    ASSUME FeedInv, Feed!ReadStarts \/ Feed!ReadServed \/ Feed!ReadFails
    PROVE  FeedInv' /\ cached' = cached
<1>1. engineNode' = engineNode /\ subscription' = subscription /\ cached' = cached
    BY Zenon DEF Feed!ReadStarts, Feed!ReadServed, Feed!ReadFails
<1>2. NodeKept' /\ StreamKept' /\ EntryKept(cached)' /\ \A v : Seen(v) => Seen(v)'
    BY <1>1, NodeStands, StreamStays, EntryStays DEF FeedInv
<1>3. /\ fullRead \in ReadRows /\ Seen(fullRead.from) /\ Seen(fullRead.got) /\ Seen(fullRead.again)
      /\ Seen(cached.value) /\ Seen(Feed!Now) /\ Feed!Now \in States /\ cached.value \in States
    BY NowSeen DEF FeedInv, ReadKept, ReadRows, EntryKept, Seen
<1>4. /\ fullRead' \in ReadRows
      /\ Seen(fullRead'.from) /\ Seen(fullRead'.got) /\ Seen(fullRead'.again)
      /\ fullRead'.at = "verified" => fullRead'.again = Feed!Now
    <2>1. CASE fullRead' = Feed!NoRead
        BY <2>1, NoReadKept DEF FeedInv
    <2>2. CASE fullRead' = [Feed!NoRead EXCEPT !.at = "asked", !.from = cached.value]
        <3>1. /\ fullRead' \in ReadRows
              /\ fullRead'.from = cached.value \/ fullRead'.from = Feed!NoRead.from
              /\ fullRead'.got = cached.value \/ fullRead'.got = Feed!NoRead.got
              /\ fullRead'.again = cached.value \/ fullRead'.again = Feed!NoRead.again
            <4>1. Edit(Feed!NoRead, cached.value, fullRead')
                BY <2>2, Zenon DEF Edit
            <4>2. Feed!NoRead \in ReadRows
                BY NoReadKept DEF FeedInv
            <4>3. Edited(Feed!NoRead, cached.value, fullRead')
                BY <1>3, <4>1, <4>2, ReadEdited, Zenon
            <4> QED BY <4>3, Zenon DEF Edited
        <3>2. fullRead'.at = "asked"
            BY <2>2 DEF Feed!NoRead
        <3> QED BY <1>3, <3>1, <3>2, NoReadKept DEF FeedInv
    <2>3. CASE \/ fullRead' = [fullRead EXCEPT !.at = "served", !.got = Feed!Now]
               \/ fullRead' = [fullRead EXCEPT !.at = "verified", !.again = Feed!Now]
        <3>1. /\ fullRead' \in ReadRows
              /\ fullRead'.from = Feed!Now \/ fullRead'.from = fullRead.from
              /\ fullRead'.got = Feed!Now \/ fullRead'.got = fullRead.got
              /\ fullRead'.again = Feed!Now \/ fullRead'.again = fullRead.again
              /\ fullRead'.at = "verified" => fullRead'.again = Feed!Now
            <4>1. Edit(fullRead, Feed!Now, fullRead')
                BY <2>3, Zenon DEF Edit
            <4>2. Edited(fullRead, Feed!Now, fullRead')
                BY <1>3, <4>1, ReadEdited, Zenon
            <4> QED BY <4>2, Zenon DEF Edited
        <3> HIDE DEF Feed!Now
        <3> QED BY <1>3, <3>1
    <2> QED BY <2>1, <2>2, <2>3, Zenon DEF Feed!ReadStarts, Feed!ReadServed, Feed!ReadFails
<1>5. ASSUME fullRead'.at = "verified", fullRead'.again.rev < fullRead'.from.rev
      PROVE  fullRead'.from.life < engineNode.life
    <2>1. fullRead'.again.rev = Feed!Rev
        BY <1>4, <1>5 DEF Feed!Now
    <2>2. Feed!Rev \in Nat /\ engineNode.life \in Nat
        BY DEF FeedInv, NodeKept, NodeStates, Feed!Rev
    <2> QED BY <1>4, <1>5, <2>1, <2>2 DEF Seen, States
<1>6. Seen(fullRead.from)' /\ Seen(fullRead.got)' /\ Seen(fullRead.again)'
    <2>1. PICK a, b, c : a = fullRead'.from /\ b = fullRead'.got /\ c = fullRead'.again
        OBVIOUS
    <2>2. Seen(a)' /\ Seen(b)' /\ Seen(c)'
        BY <1>2, <1>4, <2>1
    <2> QED BY <2>1, <2>2
<1>7. ReadKept'
    BY <1>1, <1>4, <1>5, <1>6 DEF ReadKept, ReadRows
<1> QED BY <1>1, <1>2, <1>7 DEF FeedInv

(* What a full read publishes: its state, flagged or not, and nothing that waits. *)
LEMMA PublishedKept ==
    ASSUME NEW v, Seen(v), NEW flag \in BOOLEAN
    PROVE  LET w == [v EXCEPT !.reset = flag]
           IN  EntryKept(Feed!Published(w)) /\ Feed!Published(w).value.rev = v.rev
<1> DEFINE w == [v EXCEPT !.reset = flag]
<1>1. v \in States
    BY DEF Seen
<1>2. w \in States
    BY <1>1, Zenon DEF States
<1>3. w.life = v.life /\ w.rev = v.rev
    BY <1>1 DEF States
<1> HIDE DEF w
<1>4. Seen(w)
    BY <1>2, <1>3 DEF Seen
<1>5. Feed!Published(w) = [value |-> w, dirty |-> FALSE, gap |-> {}, buffered |-> FALSE]
    BY DEF Feed!Published
<1>6. Feed!Published(w) \in Entries
    <2>1. {} \in SUBSET States /\ FALSE \in BOOLEAN
        BY Zenon
    <2> HIDE DEF States
    <2> QED BY <1>2, <1>5, <2>1 DEF Entries
<1>7. Feed!Published(w).value = w /\ Feed!Published(w).gap = {}
    BY <1>5
<1> QED BY <1>3, <1>4, <1>6, <1>7 DEF EntryKept, w

(* A flagged state says that it is one. *)
LEMMA PublishedFlag ==
    ASSUME NEW v \in States PROVE Feed!Published([v EXCEPT !.reset = TRUE]).value.reset
<1>1. [v EXCEPT !.reset = TRUE].reset
    BY Zenon DEF States
<1>2. Feed!Published([v EXCEPT !.reset = TRUE]).value = [v EXCEPT !.reset = TRUE]
    BY DEF Feed!Published
<1> QED BY <1>1, <1>2, Zenon

(* A first answer never takes the cache back: it is dropped, makes the cache *)
(* suspect or asks for a second one.                                          *)
LEMMA OnReadDelivered ==
    ASSUME FeedInv, Feed!ReadDelivered
    PROVE  FeedInv' /\ cached'.value.rev >= cached.value.rev
<1>1. engineNode' = engineNode /\ subscription' = subscription
    BY Zenon DEF Feed!ReadDelivered
<1>2. NodeKept' /\ StreamKept' /\ \A v : Seen(v) => Seen(v)'
    BY <1>1, NodeStands, StreamStays DEF FeedInv
<1>3. /\ fullRead \in ReadRows /\ Seen(fullRead.from) /\ Seen(fullRead.got) /\ Seen(fullRead.again)
      /\ Seen(cached.value) /\ cached.value \in States /\ cached.value.rev \in Nat
      /\ fullRead.got.rev \in Nat /\ cached \in Entries
    BY DEF FeedInv, ReadKept, ReadRows, EntryKept, Seen, States
<1>4. \/ cached' = cached
      \/ cached' = Feed!Behind(fullRead.got)
      \/ /\ ~Feed!MustVerify(fullRead.got)
         /\ \E flag \in BOOLEAN : cached' = Feed!Published([fullRead.got EXCEPT !.reset = flag])
    BY Zenon DEF Feed!ReadDelivered
<1>5. fullRead' = Feed!NoRead \/ fullRead' = [fullRead EXCEPT !.at = "verify", !.from = cached.value]
    BY Zenon DEF Feed!ReadDelivered
<1>6. \E e : cached' = e /\ EntryKept(e) /\ e.value.rev >= cached.value.rev
    <2>1. CASE cached' = cached
        BY <1>3, <2>1 DEF FeedInv
    <2>2. CASE cached' = Feed!Behind(fullRead.got)
        <3>1. Feed!Behind(fullRead.got) = [cached EXCEPT !.dirty = TRUE]
            BY DEF Feed!Behind
        <3>2. Feed!Behind(fullRead.got) \in Entries
            <4> HIDE DEF States
            <4> QED BY <1>3, <3>1, Zenon DEF Entries
        <3>3. /\ Feed!Behind(fullRead.got).value = cached.value
              /\ Feed!Behind(fullRead.got).gap = cached.gap
            <4> HIDE DEF States
            <4> QED BY <1>3, <3>1 DEF Entries
        <3>4. EntryKept(cached) /\ cached.value.rev >= cached.value.rev
            BY <1>3 DEF FeedInv
        <3> QED BY <2>2, <3>2, <3>3, <3>4 DEF EntryKept
    <2>3. ASSUME NEW flag \in BOOLEAN, ~Feed!MustVerify(fullRead.got),
                 cached' = Feed!Published([fullRead.got EXCEPT !.reset = flag])
          PROVE  \E e : cached' = e /\ EntryKept(e) /\ e.value.rev >= cached.value.rev
        <3>1. EntryKept(cached') /\ cached'.value.rev = fullRead.got.rev
            <4>1. PICK v : v = fullRead.got
                OBVIOUS
            <4> QED BY <1>3, <2>3, <4>1, PublishedKept
        <3>2. fullRead.got.rev >= cached.value.rev
            BY <1>3, <2>3 DEF Feed!MustVerify
        <3> QED BY <3>1, <3>2
    <2> QED BY <1>4, <2>1, <2>2, <2>3
<1>7. EntryKept(cached)' /\ cached'.value.rev >= cached.value.rev
    BY <1>1, <1>6, EntryMoves DEF FeedInv
<1>8. /\ fullRead' \in ReadRows /\ fullRead'.at # "verified"
      /\ Seen(fullRead'.from) /\ Seen(fullRead'.got) /\ Seen(fullRead'.again)
    <2>1. CASE fullRead' = Feed!NoRead
        BY <2>1, NoReadKept DEF FeedInv
    <2>2. CASE fullRead' = [fullRead EXCEPT !.at = "verify", !.from = cached.value]
        <3>1. Edit(fullRead, cached.value, fullRead')
            BY <2>2, Zenon DEF Edit
        <3>2. Edited(fullRead, cached.value, fullRead')
            BY <1>3, <3>1, ReadEdited, Zenon
        <3>3. fullRead'.at = "verify"
            <4> HIDE DEF States
            <4> QED BY <2>2, <1>3 DEF ReadRows
        <3> QED BY <1>3, <3>2, <3>3 DEF Edited
    <2> QED BY <1>5, <2>1, <2>2
<1>9. ReadKept'
    <2>1. PICK a, b, c : a = fullRead'.from /\ b = fullRead'.got /\ c = fullRead'.again
        OBVIOUS
    <2>2. Seen(a)' /\ Seen(b)' /\ Seen(c)'
        BY <1>2, <1>8, <2>1
    <2> QED BY <1>8, <2>1, <2>2 DEF ReadKept, ReadRows
<1> QED BY <1>2, <1>7, <1>9 DEF FeedInv

(* A second answer that agrees with the first may take the cache back, and then *)
(* the node has left what the cache held.                                        *)
LEMMA OnVerifyDelivered ==
    ASSUME FeedInv, Feed!VerifyDelivered
    PROVE  FeedInv' /\ Feed!RealReset
<1>1. engineNode' = engineNode /\ subscription' = subscription /\ fullRead' = Feed!NoRead
    BY Zenon DEF Feed!VerifyDelivered
<1>2. NodeKept' /\ StreamKept' /\ \A v : Seen(v) => Seen(v)'
    BY <1>1, NodeStands, StreamStays DEF FeedInv
<1>3. /\ Seen(fullRead.again) /\ fullRead.again \in States /\ cached.value.rev \in Nat
      /\ Seen(cached.value) /\ fullRead.at = "verified"
    BY DEF FeedInv, ReadKept, EntryKept, Entries, Seen, States, Feed!VerifyDelivered
<1>4. \/ cached' = cached
      \/ /\ cached' = Feed!Published([fullRead.again EXCEPT !.reset = TRUE])
         /\ cached.value = fullRead.from
    BY Zenon DEF Feed!VerifyDelivered
<1>5. /\ EntryKept(cached')
      /\ cached' # cached => cached'.value.rev = fullRead.again.rev /\ cached'.value.reset
    <2>1. CASE cached' = cached
        BY <2>1 DEF FeedInv
    <2>2. CASE cached' = Feed!Published([fullRead.again EXCEPT !.reset = TRUE])
        <3>1. PICK v : v = fullRead.again
            OBVIOUS
        <3>2. TRUE \in BOOLEAN
            BY Zenon
        <3> QED BY <1>3, <2>2, <3>1, <3>2, PublishedKept, PublishedFlag
    <2> QED BY <1>4, <2>1, <2>2
<1>6. EntryKept(cached)'
    BY <1>1, <1>5, EntryMoves DEF FeedInv
<1>7. ReadKept'
    <2>1. PICK p : p = Feed!NoRead
        OBVIOUS
    <2>2. p \in ReadRows /\ p.at = "none" /\ Seen(p.from) /\ Seen(p.got) /\ Seen(p.again)
        BY <2>1, NoReadKept DEF FeedInv
    <2>3. Seen(p.from)' /\ Seen(p.got)' /\ Seen(p.again)' /\ fullRead' = p
        BY <1>1, <1>2, <2>1, <2>2
    <2> QED BY <2>2, <2>3 DEF ReadKept, ReadRows
<1>8. Feed!RealReset
    <2> SUFFICES ASSUME cached'.value.rev < cached.value.rev
                 PROVE  cached'.value.reset /\ engineNode.life > cached.value.life
        BY DEF Feed!RealReset
    <2>1. cached' # cached
        BY <1>3
    <2>2. fullRead.again.rev < fullRead.from.rev
        BY <1>4, <1>5, <2>1
    <2>3. fullRead.from.life < engineNode.life
        BY <1>3, <2>2 DEF FeedInv, ReadKept
    <2>4. engineNode.life \in Nat /\ cached.value.life \in Nat
        BY <1>3 DEF FeedInv, NodeKept, NodeStates, Seen, States
    <2> QED BY <1>4, <1>5, <2>1, <2>3, <2>4
<1> QED BY <1>2, <1>6, <1>7, <1>8 DEF FeedInv

(* One step of the cache, and what it may show of an earlier revision. *)
LEMMA FeedStep == FeedInv /\ [Feed!Next]_(Feed!vars) => FeedInv' /\ Feed!RealReset
<1> SUFFICES ASSUME FeedInv, [Feed!Next]_(Feed!vars)
             PROVE  FeedInv' /\ Feed!RealReset
    OBVIOUS
<1>1. cached.value.rev \in Nat
    BY DEF FeedInv, EntryKept, Entries, States
<1>2. CASE UNCHANGED Feed!vars
    <2>1. FeedInv' /\ cached' = cached
        BY <1>2 DEF Feed!vars, FeedInv, NodeKept, StreamKept, EntryKept, ReadKept, Seen, Feed!Rev
    <2> QED BY <1>1, <2>1 DEF Feed!RealReset
<1>3. CASE Feed!Apply \/ Feed!Restart \/ Feed!Tick
    <2>1. cached' = cached
        BY <1>3, Zenon DEF Feed!Apply, Feed!Restart, Feed!Tick
    <2> QED BY <1>1, <1>3, <2>1, OnApply, OnRestart, OnTick DEF Feed!RealReset
<1>4. ASSUME FeedInv', cached'.value.rev >= cached.value.rev PROVE Feed!RealReset
    <2>1. cached'.value.rev \in Nat
        BY <1>4 DEF FeedInv, EntryKept, Entries, States
    <2> QED BY <1>1, <1>4, <2>1 DEF Feed!RealReset
<1>5. CASE \/ Feed!Connect \/ Feed!Drop \/ Feed!FindClosed \/ Feed!Deliver
           \/ Feed!DeliverUnreadable \/ Feed!Receipt
    BY <1>4, <1>5, OnStream
<1>6. CASE Feed!ReadStarts \/ Feed!ReadServed \/ Feed!ReadFails
    <2>1. FeedInv' /\ cached' = cached
        BY <1>6, OnRead
    <2> QED BY <1>1, <2>1 DEF Feed!RealReset
<1>7. CASE Feed!ReadDelivered
    BY <1>4, <1>7, OnReadDelivered
<1>8. CASE Feed!VerifyDelivered
    BY <1>8, OnVerifyDelivered
<1> QED BY <1>2, <1>3, <1>5, <1>6, <1>7, <1>8, Zenon DEF Feed!Next

FeedSpec == Feed!Init /\ [][Feed!Next]_(Feed!vars)

(* The inductive invariant of the cache: what it holds was seen of the node. *)
THEOREM FeedInvariance == FeedSpec => []FeedInv
BY FeedInit, FeedStep, PTL DEF FeedSpec

(* Listeners are shown an earlier revision only as a reset, and only when the *)
(* node has really left the revision the cache held (engine-feed.ts).         *)
THEOREM ResetsAreReal == FeedSpec => [][Feed!RealReset]_(Feed!vars)
<1>1. FeedInv /\ [Feed!Next]_(Feed!vars) => [Feed!RealReset]_(Feed!vars)
    BY FeedStep
<1> QED BY FeedInvariance, <1>1, PTL DEF FeedSpec

-----------------------------------------------------------------------------
CONSTANTS MaxTabKey, MaxDelegation, MaxSigned, MayRekey
VARIABLES duel, arena, flying, signedOnes, uncertain, settledOnes, tabKey, consentRow, pageState,
          compact, sending, booting

Tab == INSTANCE RoomsClient WITH MaxKey <- MaxTabKey, MaxEpoch <- MaxDelegation,
         MaxSent <- MaxSigned, FreshKeys <- MayRekey, offer <- duel, engine <- arena,
         wire <- flying, sent <- signedOnes, row <- uncertain, resolved <- settledOnes,
         key <- tabKey, accepted <- consentRow, tab <- pageState, sess <- compact,
         out <- sending, boot <- booting

-----------------------------------------------------------------------------
(* The tab of a player (RoomsClient). *)

Signable == [key : Tab!Keys, nonce : Nat, act : Tab!Acts]
JournalRows == [cmd : Signable, epoch : Nat]
Answers == [cmd : Signable, ok : BOOLEAN]
Duel == [status : {"offered", "cancelled"}, ready : SUBSET Tab!Sides,
         launch : {"none", "counting", "over"}, accepted : SUBSET Tab!Sides, expired : BOOLEAN]
Arena == [epoch : Nat, count : [Tab!Keys -> Nat], bound : Nat, consents : SUBSET Tab!Sides,
          phase : Nat, receipts : SUBSET Answers]
TabKey == [id : Nat, used : Nat, expired : BOOLEAN, account : BOOLEAN]
PageState == [open : BOOLEAN, ready : BOOLEAN, blocked : BOOLEAN, renew : BOOLEAN,
              launched : BOOLEAN, issue : BOOLEAN]
Compact == [epoch : Nat, nonce : Int, registered : BOOLEAN, failed : BOOLEAN]
Sending == [act : Tab!Acts \cup {"none"}, at : {"idle", "bind", "sign", "wait"},
            cmd : Signable \cup {Tab!None.cmd}]
Booting == [by : {"none", "mount", "restore", "recover", "login"},
            at : {"idle", "commands", "resend", "session", "install", "refresh"},
            cancelled : BOOLEAN]

PageTyped ==
  /\ duel \in Duel
  /\ tabKey \in TabKey
  /\ pageState \in PageState
  /\ compact \in Compact
  /\ sending \in Sending
  /\ booting \in Booting
ChainTyped ==
  /\ arena \in Arena
  /\ uncertain \in JournalRows \cup {Tab!None}
  /\ flying \subseteq Signable
  /\ signedOnes \subseteq [cmd : Signable, epoch : Nat, to : Nat]

(* The nonce of a command has been consumed. *)
Consumed(c) == c.nonce < arena.count[c.key]
ByLaunch(c) == c.act = "accept" => Tab!LaunchReady
Present(e) == e.to = e.epoch /\ e.to = arena.epoch
Uncertain == uncertain # Tab!None /\ uncertain.epoch = arena.epoch

Bounded ==
  /\ \A e \in signedOnes : e.epoch <= arena.epoch /\ e.to <= arena.epoch /\ e.cmd.key <= tabKey.used
  /\ uncertain # Tab!None => uncertain.epoch <= arena.epoch
  /\ compact.epoch <= arena.epoch /\ compact.nonce >= -1
  /\ \A x \in arena.receipts : Consumed(x.cmd)
  /\ MaxTabKey \in Nat /\ tabKey.id <= tabKey.used /\ tabKey.used <= MaxTabKey
  /\ sending.at # "idle" => sending.act # "none"
  /\ pageState.ready \/ booting.at = "install" \/ sending.at # "idle" => tabKey.id # 0
  /\ sending.at \in {"sign", "wait"} => ~compact.failed

(* What went out under the present epoch was consumed or is the journal's uncertain *)
(* command, and the session's nonce is past it.                                     *)
NoncesFollow ==
  /\ \A e \in signedOnes : Present(e) =>
       Consumed(e.cmd) \/ (uncertain.cmd = e.cmd /\ uncertain.epoch = arena.epoch)
  /\ compact.epoch = arena.epoch /\ compact.nonce # -1 /\ ~compact.failed =>
       \A e \in signedOnes : Present(e) /\ e.cmd.key = tabKey.id =>
         IF sending.at = "wait" THEN e.cmd.nonce <= compact.nonce ELSE e.cmd.nonce < compact.nonce
(* An acceptance was signed after the introduction. *)
Introduced ==
  /\ \A c \in flying : ByLaunch(c)
  /\ Uncertain => ByLaunch(uncertain.cmd)
  /\ sending.act = "accept" => Tab!LaunchReady
  /\ Tab!ConsentAfterIntro
ClientInv == PageTyped /\ ChainTyped /\ Bounded /\ NoncesFollow /\ Introduced /\ Tab!NonceSignedOnce

(* A page with or without a registered key. *)
LEMMA ClientInit == MaxTabKey \in Nat \ {0} /\ Tab!Init => ClientInv
<1> SUFFICES ASSUME MaxTabKey \in Nat \ {0}, Tab!Init PROVE ClientInv
    OBVIOUS
<1>1. PICK k \in 0..1 :
        /\ arena = [epoch |-> 1, count |-> [j \in Tab!Keys |-> IF j = k THEN 1 ELSE 0], bound |-> k,
                    consents |-> {}, phase |-> 0, receipts |-> {}]
        /\ tabKey = [id |-> k, used |-> k, expired |-> FALSE, account |-> k # 0]
    BY Zenon DEF Tab!Init
<1>2. /\ duel = Tab!NewOffer /\ flying = {} /\ signedOnes = {} /\ uncertain = Tab!None
      /\ pageState = Tab!Closed /\ compact = Tab!NoSession /\ sending = Tab!Quiet /\ booting = Tab!Still
    BY Zenon DEF Tab!Init
<1>3. ChainTyped
    <2>1. [j \in Tab!Keys |-> IF j = k THEN 1 ELSE 0] \in [Tab!Keys -> Nat]
        BY <1>1
    <2> HIDE DEF Signable
    <2> QED BY <1>1, <1>2, <2>1 DEF ChainTyped, Arena
<1>4. PageTyped
    <2>1. tabKey \in TabKey
        <3>1. (k # 0) \in BOOLEAN /\ FALSE \in BOOLEAN
            BY Zenon
        <3>2. k \in Nat
            BY <1>1
        <3> QED BY <1>1, <3>1, <3>2, Zenon DEF TabKey
    <2>2. duel \in Duel /\ compact \in Compact /\ booting \in Booting
        BY <1>2 DEF Duel, Compact, Booting, Tab!NewOffer, Tab!NoSession, Tab!Still
    <2>3. sending \in Sending
        <3> HIDE DEF Signable
        <3> QED BY <1>2 DEF Sending, Tab!Quiet
    <2>4. pageState \in PageState
        BY <1>2, Zenon DEF PageState, Tab!Closed
    <2> QED BY <2>1, <2>2, <2>3, <2>4 DEF PageTyped
<1>5. Bounded
    BY <1>1, <1>2 DEF Bounded, Tab!NoSession, Tab!Quiet, Tab!Closed, Tab!Still
<1>6. NoncesFollow /\ Introduced /\ Tab!NonceSignedOnce
    BY <1>1, <1>2 DEF NoncesFollow, Introduced, Uncertain, Tab!NonceSignedOnce,
                      Tab!ConsentAfterIntro,
       Tab!Quiet
<1> QED BY <1>3, <1>4, <1>5, <1>6 DEF ClientInv

(* A step of the page: the engine stands still, nothing is signed, a row is resolved *)
(* only when its nonce was consumed, and the session goes on, is lost or starts anew. *)
PageMoves ==
  /\ PageTyped'
  /\ arena' = arena /\ signedOnes' = signedOnes
  /\ \A c \in flying' : c \in flying \/ (Uncertain /\ c = uncertain.cmd)
  /\ \/ uncertain' = uncertain
     \/ uncertain' = Tab!None /\ (Uncertain => Consumed(uncertain.cmd))
  /\ tabKey'.used >= tabKey.used /\ tabKey'.id <= tabKey'.used /\ tabKey'.used <= MaxTabKey
  /\ tabKey'.id = tabKey.id \/ compact'.nonce = -1 \/ tabKey'.id > tabKey.used
  /\ compact'.epoch <= arena.epoch
  /\ \/ compact'.nonce = -1 \/ (compact'.failed /\ compact'.nonce = compact.nonce)
     \/ /\ compact'.epoch = compact.epoch /\ compact'.nonce = compact.nonce
        /\ compact.failed => compact'.failed
        /\ sending.at = "wait" => sending'.at = "wait"
     \/ /\ compact'.epoch = compact.epoch /\ compact'.nonce = compact.nonce + 1
        /\ compact.failed => compact'.failed
        /\ sending.at = "wait" /\ compact.nonce # -1
  /\ Tab!LaunchReady => Tab!LaunchReady'
  /\ sending'.act = "accept" => Tab!LaunchReady'
  /\ sending'.at # "idle" => sending'.act # "none"
  /\ pageState'.ready \/ booting'.at = "install" \/ sending'.at # "idle" => tabKey'.id # 0
  /\ sending'.at \in {"sign", "wait"} => ~compact'.failed

(* What such a step leaves in place. *)
LEMMA PageKept == ASSUME ClientInv, PageMoves PROVE ClientInv'
<1>1. PageTyped' /\ arena' = arena /\ signedOnes' = signedOnes
    BY DEF PageMoves
<1>2. /\ arena.epoch \in Nat /\ compact.nonce \in Int /\ compact.epoch \in Nat
      /\ compact'.nonce \in Int /\ compact'.epoch \in Nat
      /\ tabKey.id \in Nat /\ tabKey.used \in Nat /\ tabKey'.id \in Nat /\ tabKey'.used \in Nat
    BY <1>1 DEF ClientInv, PageTyped, ChainTyped, Arena, Compact, TabKey
<1>3. \A e \in signedOnes : e.cmd.nonce \in Nat /\ e.cmd.key \in Nat /\ e.cmd.key # 0 /\ e.cmd \in Signable
    BY DEF ClientInv, ChainTyped, Signable, Tab!Keys
<1>4. ChainTyped'
    <2> HIDE DEF Signable
    <2>1. uncertain # Tab!None => uncertain.cmd \in Signable
        BY DEF ClientInv, ChainTyped, JournalRows
    <2> QED BY <1>1, <2>1 DEF ClientInv, ChainTyped, PageMoves, Uncertain
<1>5. Bounded'
    BY <1>1, <1>2, <1>3 DEF ClientInv, Bounded, PageMoves, Consumed
<1>6. NoncesFollow'
    <2>1. ASSUME NEW e \in signedOnes, Present(e)
          PROVE  Consumed(e.cmd) \/ (uncertain'.cmd = e.cmd /\ uncertain'.epoch = arena.epoch)
        <3>1. CASE uncertain' = uncertain
            BY <2>1, <3>1 DEF ClientInv, NoncesFollow
        <3>2. CASE uncertain.cmd = e.cmd /\ uncertain.epoch = arena.epoch /\ uncertain' # uncertain
            <4>1. Tab!None.cmd.key = 0
                BY DEF Tab!None
            <4>2. Uncertain
                BY <1>3, <3>2, <4>1 DEF Uncertain
            <4> QED BY <3>2, <4>2 DEF PageMoves
        <3> QED BY <2>1, <3>1, <3>2 DEF ClientInv, NoncesFollow
    <2>2. ASSUME compact'.epoch = arena.epoch, compact'.nonce # -1, ~compact'.failed,
                 NEW e \in signedOnes, Present(e), e.cmd.key = tabKey'.id
          PROVE  IF sending'.at = "wait" THEN e.cmd.nonce <= compact'.nonce
                                         ELSE e.cmd.nonce < compact'.nonce
        <3>1. tabKey'.id = tabKey.id
            BY <1>2, <1>3, <2>2 DEF PageMoves, ClientInv, Bounded
        <3>2. compact.epoch = arena.epoch /\ compact.nonce # -1 /\ ~compact.failed
            BY <1>2, <2>2 DEF PageMoves
        <3>3. IF sending.at = "wait" THEN e.cmd.nonce <= compact.nonce ELSE e.cmd.nonce < compact.nonce
            BY <2>2, <3>1, <3>2 DEF ClientInv, NoncesFollow
        <3>4. \/ compact'.nonce = compact.nonce /\ (sending.at = "wait" => sending'.at = "wait")
              \/ compact'.nonce = compact.nonce + 1 /\ sending.at = "wait"
            BY <2>2 DEF PageMoves
        <3>5. e.cmd.nonce \in Nat
            BY <1>3
        <3> QED BY <1>2, <3>3, <3>4, <3>5
    <2>3. \A e \in signedOnes : Present(e)' <=> Present(e)
        BY <1>1 DEF Present
    <2>4. \A e \in signedOnes : Consumed(e.cmd)' <=> Consumed(e.cmd)
        BY <1>1 DEF Consumed
    <2> QED BY <1>1, <2>1, <2>2, <2>3, <2>4 DEF NoncesFollow
<1>7. Introduced'
    <2>1. \A c : ByLaunch(c) => ByLaunch(c)'
        BY DEF ByLaunch, PageMoves
    <2>2. Uncertain' => Uncertain /\ uncertain' = uncertain
        BY <1>1 DEF PageMoves, Uncertain
    <2>3. (\A c \in flying : ByLaunch(c))'
        <3>1. ASSUME NEW c \in flying' PROVE ByLaunch(c)'
            BY <2>1 DEF PageMoves, ClientInv, Introduced
        <3> QED BY <3>1
    <2>4. (Uncertain => ByLaunch(uncertain.cmd))'
        <3> SUFFICES ASSUME Uncertain', NEW c, c = uncertain'.cmd PROVE ByLaunch(c)'
            OBVIOUS
        <3> QED BY <2>1, <2>2 DEF ClientInv, Introduced
    <2>5. Tab!ConsentAfterIntro'
        BY <1>1 DEF PageMoves, ClientInv, Introduced, Tab!ConsentAfterIntro
    <2> QED BY <2>3, <2>4, <2>5 DEF Introduced, PageMoves
<1>8. Tab!NonceSignedOnce'
    BY <1>1 DEF ClientInv, Tab!NonceSignedOnce, Tab!Replaced
<1> QED BY <1>1, <1>4, <1>5, <1>6, <1>7, <1>8 DEF ClientInv

(* What a page starts with. *)
LEMMA Starts ==
  /\ Tab!NewOffer \in Duel /\ Tab!NoSession \in Compact /\ Tab!Still \in Booting
  /\ Tab!Quiet \in Sending /\ Tab!Closed \in PageState
  /\ Tab!NoSession.nonce = -1 /\ Tab!NoSession.epoch = 0 /\ ~Tab!NoSession.failed
  /\ Tab!Still.at = "idle" /\ Tab!Quiet.at = "idle" /\ Tab!Quiet.act = "none"
<1>1. Tab!NewOffer \in Duel /\ Tab!NoSession \in Compact /\ Tab!Still \in Booting
    BY DEF Duel, Compact, Booting, Tab!NewOffer, Tab!NoSession, Tab!Still
<1>2. Tab!Quiet \in Sending
    <2> HIDE DEF Signable
    <2> QED BY DEF Sending, Tab!Quiet
<1>3. Tab!Closed \in PageState
    BY Zenon DEF PageState, Tab!Closed
<1> QED BY <1>1, <1>2, <1>3 DEF Tab!NoSession, Tab!Still, Tab!Quiet

(* A player who is ready takes nothing back, and an introduction that is over stays so. *)
LEMMA PreparedFact ==
    ASSUME duel \in Duel, NEW p \in Tab!Sides, duel' = Tab!Prepared(p)
    PROVE  duel' \in Duel /\ (Tab!LaunchReady => Tab!LaunchReady')
<1> DEFINE ready == duel.ready \cup duel.accepted \cup {p}
           launch == IF ready = Tab!Sides /\ duel.launch = "none" THEN "counting" ELSE duel.launch
<1>1. duel' = [duel EXCEPT !.ready = ready, !.launch = launch]
    BY Zenon DEF Tab!Prepared
<1>2. ready \subseteq Tab!Sides /\ launch \in {"none", "counting", "over"} /\ duel.ready \subseteq ready
      /\ (duel.launch = "over" => launch = "over")
    BY DEF Duel
<1> HIDE DEF ready, launch
<1>3. duel' \in Duel
    BY <1>1, <1>2, Zenon DEF Duel
<1>4. duel'.ready = ready /\ duel'.launch = launch
    BY <1>1 DEF Duel
<1>5. Tab!LaunchReady => Tab!LaunchReady'
    BY <1>2, <1>4 DEF Tab!LaunchReady
<1> QED BY <1>3, <1>5

(* A queue that fails holds nothing, and sends nothing more before a new session. *)
LEMMA FailsFact ==
    ASSUME PageTyped, NEW b \in BOOLEAN, Tab!Fails(b)
    PROVE  /\ pageState' \in PageState /\ pageState'.ready = pageState.ready
           /\ compact' \in Compact /\ compact'.nonce = compact.nonce /\ compact'.epoch = compact.epoch
           /\ compact'.nonce = -1 \/ compact'.failed
           /\ sending' \in Sending /\ sending'.at = "idle" /\ sending'.act = "none"
<1>1. sending' = Tab!Quiet
    BY Zenon DEF Tab!Fails
<1>2. pageState' \in PageState
    BY Zenon DEF Tab!Fails, PageTyped, PageState
<1>3. pageState'.ready = pageState.ready
    BY DEF Tab!Fails, PageTyped, PageState
<1>4. \/ compact' = compact /\ compact.nonce = -1
      \/ compact' = [compact EXCEPT !.failed = TRUE]
    BY Zenon DEF Tab!Fails
<1>5. compact' \in Compact
    BY <1>4, Zenon DEF PageTyped, Compact
<1>6. compact'.nonce = compact.nonce /\ compact'.epoch = compact.epoch
    BY <1>4 DEF PageTyped, Compact
<1>7. compact'.nonce = -1 \/ compact'.failed
    <2>1. compact' = [compact EXCEPT !.failed = TRUE] => compact'.failed
        BY Zenon DEF PageTyped, Compact
    <2> QED BY <1>4, <2>1, Zenon
<1> QED BY <1>1, <1>2, <1>3, <1>5, <1>6, <1>7, Starts

(* A command that enters the queue. *)
LEMMA BeginFact ==
    ASSUME NEW act \in Tab!Acts, Tab!Begin(act)
    PROVE  /\ sending' \in Sending /\ sending'.at = "bind" /\ sending'.act = act
<1>1. sending' = [act |-> act, at |-> "bind", cmd |-> Tab!None.cmd]
    BY DEF Tab!Begin
<1>2. act \in Tab!Acts \cup {"none"} /\ "bind" \in {"idle", "bind", "sign", "wait"}
      /\ Tab!None.cmd \in Signable \cup {Tab!None.cmd}
    <2> HIDE DEF Signable, Tab!Acts, Tab!None
    <2> QED OBVIOUS
<1>3. sending' \in Sending
    BY <1>1, <1>2, Zenon DEF Sending
<1> QED BY <1>1, <1>3

(* The countdown ends. *)
LEMMA OnCountdownOver == ASSUME ClientInv, Tab!CountdownOver PROVE PageMoves
<1> USE DEF Tab!CountdownOver, Tab!server, Tab!chain, Tab!saved, Tab!page
<1>1. duel' \in Duel
    <2> HIDE DEF Signable, Tab!Still, Tab!Quiet, Tab!NoSession, Tab!Closed
    <2> QED BY Starts, Zenon DEF ClientInv, PageTyped, Duel, Tab!Acts, Tab!Sides
<1>2. tabKey' = tabKey /\ tabKey' \in TabKey
    BY Zenon DEF ClientInv, PageTyped
<1>3. pageState' = pageState /\ pageState' \in PageState
    BY Zenon DEF ClientInv, PageTyped
<1>4. compact' = compact /\ compact' \in Compact
    BY Zenon DEF ClientInv, PageTyped
<1>5. sending' = sending /\ sending' \in Sending
    BY Zenon DEF ClientInv, PageTyped
<1>6. booting' = booting /\ booting' \in Booting
    BY Zenon DEF ClientInv, PageTyped
<1>7. PageTyped'
    BY <1>1, <1>2, <1>3, <1>4, <1>5, <1>6 DEF PageTyped
<1> USE DEF ClientInv, PageTyped, TabKey, Compact, Bounded
<1>8. /\ arena' = arena /\ signedOnes' = signedOnes
      /\ \A c \in flying' : c \in flying \/ (Uncertain /\ c = uncertain.cmd)
      /\ \/ uncertain' = uncertain
         \/ uncertain' = Tab!None /\ (Uncertain => Consumed(uncertain.cmd))
    BY DEF Uncertain, Consumed
<1>9. /\ tabKey'.used >= tabKey.used /\ tabKey'.id <= tabKey'.used /\ tabKey'.used <= MaxTabKey
      /\ tabKey'.id = tabKey.id \/ compact'.nonce = -1 \/ tabKey'.id > tabKey.used
    OBVIOUS
<1>10. /\ compact'.epoch <= arena.epoch
       /\ \/ compact'.nonce = -1 \/ (compact'.failed /\ compact'.nonce = compact.nonce)
          \/ /\ compact'.epoch = compact.epoch /\ compact'.nonce = compact.nonce
             /\ compact.failed => compact'.failed
             /\ sending.at = "wait" => sending'.at = "wait"
          \/ /\ compact'.epoch = compact.epoch /\ compact'.nonce = compact.nonce + 1
             /\ compact.failed => compact'.failed
             /\ sending.at = "wait" /\ compact.nonce # -1
    BY DEF ChainTyped, Arena, Sending
<1>11. /\ Tab!LaunchReady => Tab!LaunchReady'
       /\ sending'.act = "accept" => Tab!LaunchReady'
       /\ sending'.at # "idle" => sending'.act # "none"
    BY DEF Introduced, Tab!LaunchReady, Sending, Duel
<1>12. /\ pageState'.ready \/ booting'.at = "install" \/ sending'.at # "idle" => tabKey'.id # 0
       /\ sending'.at \in {"sign", "wait"} => ~compact'.failed
    BY DEF Sending, Booting, PageState
<1> QED BY <1>7, <1>8, <1>9, <1>10, <1>11, <1>12 DEF PageMoves

(* The ticket runs out. *)
LEMMA OnOfferExpires == ASSUME ClientInv, Tab!OfferExpires PROVE PageMoves
<1> USE DEF Tab!OfferExpires, Tab!Open, Tab!server, Tab!chain, Tab!saved, Tab!page
<1>1. duel' \in Duel
    <2> HIDE DEF Signable, Tab!Still, Tab!Quiet, Tab!NoSession, Tab!Closed
    <2> QED BY Starts, Zenon DEF ClientInv, PageTyped, Duel, Tab!Acts, Tab!Sides
<1>2. tabKey' = tabKey /\ tabKey' \in TabKey
    BY Zenon DEF ClientInv, PageTyped
<1>3. pageState' = pageState /\ pageState' \in PageState
    BY Zenon DEF ClientInv, PageTyped
<1>4. compact' = compact /\ compact' \in Compact
    BY Zenon DEF ClientInv, PageTyped
<1>5. sending' = sending /\ sending' \in Sending
    BY Zenon DEF ClientInv, PageTyped
<1>6. booting' = booting /\ booting' \in Booting
    BY Zenon DEF ClientInv, PageTyped
<1>7. PageTyped'
    BY <1>1, <1>2, <1>3, <1>4, <1>5, <1>6 DEF PageTyped
<1> USE DEF ClientInv, PageTyped, TabKey, Compact, Bounded
<1>8. /\ arena' = arena /\ signedOnes' = signedOnes
      /\ \A c \in flying' : c \in flying \/ (Uncertain /\ c = uncertain.cmd)
      /\ \/ uncertain' = uncertain
         \/ uncertain' = Tab!None /\ (Uncertain => Consumed(uncertain.cmd))
    BY DEF Uncertain, Consumed
<1>9. /\ tabKey'.used >= tabKey.used /\ tabKey'.id <= tabKey'.used /\ tabKey'.used <= MaxTabKey
      /\ tabKey'.id = tabKey.id \/ compact'.nonce = -1 \/ tabKey'.id > tabKey.used
    OBVIOUS
<1>10. /\ compact'.epoch <= arena.epoch
       /\ \/ compact'.nonce = -1 \/ (compact'.failed /\ compact'.nonce = compact.nonce)
          \/ /\ compact'.epoch = compact.epoch /\ compact'.nonce = compact.nonce
             /\ compact.failed => compact'.failed
             /\ sending.at = "wait" => sending'.at = "wait"
          \/ /\ compact'.epoch = compact.epoch /\ compact'.nonce = compact.nonce + 1
             /\ compact.failed => compact'.failed
             /\ sending.at = "wait" /\ compact.nonce # -1
    BY DEF ChainTyped, Arena, Sending
<1>11. /\ Tab!LaunchReady => Tab!LaunchReady'
       /\ sending'.act = "accept" => Tab!LaunchReady'
       /\ sending'.at # "idle" => sending'.act # "none"
    BY DEF Introduced, Tab!LaunchReady, Sending, Duel
<1>12. /\ pageState'.ready \/ booting'.at = "install" \/ sending'.at # "idle" => tabKey'.id # 0
       /\ sending'.at \in {"sign", "wait"} => ~compact'.failed
    BY DEF Sending, Booting, PageState
<1> QED BY <1>7, <1>8, <1>9, <1>10, <1>11, <1>12 DEF PageMoves

(* A request never arrives. *)
LEMMA OnDropped == ASSUME ClientInv, Tab!Dropped PROVE PageMoves
<1> USE DEF Tab!Dropped, Tab!server, Tab!chain, Tab!saved, Tab!page
<1>1. duel' = duel /\ duel' \in Duel
    BY Zenon DEF ClientInv, PageTyped
<1>2. tabKey' = tabKey /\ tabKey' \in TabKey
    BY Zenon DEF ClientInv, PageTyped
<1>3. pageState' = pageState /\ pageState' \in PageState
    BY Zenon DEF ClientInv, PageTyped
<1>4. compact' = compact /\ compact' \in Compact
    BY Zenon DEF ClientInv, PageTyped
<1>5. sending' = sending /\ sending' \in Sending
    BY Zenon DEF ClientInv, PageTyped
<1>6. booting' = booting /\ booting' \in Booting
    BY Zenon DEF ClientInv, PageTyped
<1>7. PageTyped'
    BY <1>1, <1>2, <1>3, <1>4, <1>5, <1>6 DEF PageTyped
<1> USE DEF ClientInv, PageTyped, TabKey, Compact, Bounded
<1>8. /\ arena' = arena /\ signedOnes' = signedOnes
      /\ \A c \in flying' : c \in flying \/ (Uncertain /\ c = uncertain.cmd)
      /\ \/ uncertain' = uncertain
         \/ uncertain' = Tab!None /\ (Uncertain => Consumed(uncertain.cmd))
    BY DEF Uncertain, Consumed
<1>9. /\ tabKey'.used >= tabKey.used /\ tabKey'.id <= tabKey'.used /\ tabKey'.used <= MaxTabKey
      /\ tabKey'.id = tabKey.id \/ compact'.nonce = -1 \/ tabKey'.id > tabKey.used
    OBVIOUS
<1>10. /\ compact'.epoch <= arena.epoch
       /\ \/ compact'.nonce = -1 \/ (compact'.failed /\ compact'.nonce = compact.nonce)
          \/ /\ compact'.epoch = compact.epoch /\ compact'.nonce = compact.nonce
             /\ compact.failed => compact'.failed
             /\ sending.at = "wait" => sending'.at = "wait"
          \/ /\ compact'.epoch = compact.epoch /\ compact'.nonce = compact.nonce + 1
             /\ compact.failed => compact'.failed
             /\ sending.at = "wait" /\ compact.nonce # -1
    BY DEF ChainTyped, Arena, Sending
<1>11. /\ Tab!LaunchReady => Tab!LaunchReady'
       /\ sending'.act = "accept" => Tab!LaunchReady'
       /\ sending'.at # "idle" => sending'.act # "none"
    BY DEF Introduced, Tab!LaunchReady, Sending, Duel
<1>12. /\ pageState'.ready \/ booting'.at = "install" \/ sending'.at # "idle" => tabKey'.id # 0
       /\ sending'.at \in {"sign", "wait"} => ~compact'.failed
    BY DEF Sending, Booting, PageState
<1> QED BY <1>7, <1>8, <1>9, <1>10, <1>11, <1>12 DEF PageMoves

(* Two hours pass. *)
LEMMA OnSessionExpires == ASSUME ClientInv, Tab!SessionExpires PROVE PageMoves
<1> USE DEF Tab!SessionExpires, Tab!server, Tab!chain, Tab!saved, Tab!page
<1>1. duel' = duel /\ duel' \in Duel
    BY Zenon DEF ClientInv, PageTyped
<1>2. tabKey' \in TabKey
    <2> HIDE DEF Signable, Tab!Still, Tab!Quiet, Tab!NoSession, Tab!Closed
    <2> QED BY Starts, Zenon DEF ClientInv, PageTyped, TabKey, Tab!Acts, Tab!Sides
<1>3. pageState' = pageState /\ pageState' \in PageState
    BY Zenon DEF ClientInv, PageTyped
<1>4. compact' = compact /\ compact' \in Compact
    BY Zenon DEF ClientInv, PageTyped
<1>5. sending' = sending /\ sending' \in Sending
    BY Zenon DEF ClientInv, PageTyped
<1>6. booting' = booting /\ booting' \in Booting
    BY Zenon DEF ClientInv, PageTyped
<1>7. PageTyped'
    BY <1>1, <1>2, <1>3, <1>4, <1>5, <1>6 DEF PageTyped
<1> USE DEF ClientInv, PageTyped, TabKey, Compact, Bounded
<1>8. /\ arena' = arena /\ signedOnes' = signedOnes
      /\ \A c \in flying' : c \in flying \/ (Uncertain /\ c = uncertain.cmd)
      /\ \/ uncertain' = uncertain
         \/ uncertain' = Tab!None /\ (Uncertain => Consumed(uncertain.cmd))
    BY DEF Uncertain, Consumed
<1>9. /\ tabKey'.used >= tabKey.used /\ tabKey'.id <= tabKey'.used /\ tabKey'.used <= MaxTabKey
      /\ tabKey'.id = tabKey.id \/ compact'.nonce = -1 \/ tabKey'.id > tabKey.used
    OBVIOUS
<1>10. /\ compact'.epoch <= arena.epoch
       /\ \/ compact'.nonce = -1 \/ (compact'.failed /\ compact'.nonce = compact.nonce)
          \/ /\ compact'.epoch = compact.epoch /\ compact'.nonce = compact.nonce
             /\ compact.failed => compact'.failed
             /\ sending.at = "wait" => sending'.at = "wait"
          \/ /\ compact'.epoch = compact.epoch /\ compact'.nonce = compact.nonce + 1
             /\ compact.failed => compact'.failed
             /\ sending.at = "wait" /\ compact.nonce # -1
    BY DEF ChainTyped, Arena, Sending
<1>11. /\ Tab!LaunchReady => Tab!LaunchReady'
       /\ sending'.act = "accept" => Tab!LaunchReady'
       /\ sending'.at # "idle" => sending'.act # "none"
    BY DEF Introduced, Tab!LaunchReady, Sending, Duel
<1>12. /\ pageState'.ready \/ booting'.at = "install" \/ sending'.at # "idle" => tabKey'.id # 0
       /\ sending'.at \in {"sign", "wait"} => ~compact'.failed
    BY DEF Sending, Booting, PageState
<1> QED BY <1>7, <1>8, <1>9, <1>10, <1>11, <1>12 DEF PageMoves

(* The page is loaded. *)
LEMMA OnMount == ASSUME ClientInv, Tab!Mount PROVE PageMoves
<1> USE DEF Tab!Mount, Tab!Closed, Tab!Still, Tab!NoSession, Tab!Quiet, Tab!server, Tab!chain,
            Tab!saved, Tab!page
<1>1. duel' = duel /\ duel' \in Duel
    BY Zenon DEF ClientInv, PageTyped
<1>2. tabKey' = tabKey /\ tabKey' \in TabKey
    BY Zenon DEF ClientInv, PageTyped
<1>3. pageState' \in PageState
    <2> HIDE DEF Signable, Tab!Still, Tab!Quiet, Tab!NoSession, Tab!Closed
    <2> QED BY Starts, Zenon DEF ClientInv, PageTyped, PageState, Tab!Acts, Tab!Sides
<1>4. compact' \in Compact
    <2> HIDE DEF Signable, Tab!Still, Tab!Quiet, Tab!NoSession, Tab!Closed
    <2> QED BY Starts, Zenon DEF ClientInv, PageTyped, Compact, Tab!Acts, Tab!Sides
<1>5. sending' \in Sending
    <2> HIDE DEF Signable, Tab!Still, Tab!Quiet, Tab!NoSession, Tab!Closed
    <2> QED BY Starts, Zenon DEF ClientInv, PageTyped, Sending, Tab!Acts, Tab!Sides
<1>6. booting' \in Booting
    <2> HIDE DEF Signable, Tab!Still, Tab!Quiet, Tab!NoSession, Tab!Closed
    <2> QED BY Starts, Zenon DEF ClientInv, PageTyped, Booting, Tab!Acts, Tab!Sides
<1>7. PageTyped'
    BY <1>1, <1>2, <1>3, <1>4, <1>5, <1>6 DEF PageTyped
<1> USE DEF ClientInv, PageTyped, TabKey, Compact, Bounded
<1>8. /\ arena' = arena /\ signedOnes' = signedOnes
      /\ \A c \in flying' : c \in flying \/ (Uncertain /\ c = uncertain.cmd)
      /\ \/ uncertain' = uncertain
         \/ uncertain' = Tab!None /\ (Uncertain => Consumed(uncertain.cmd))
    BY DEF Uncertain, Consumed
<1>9. /\ tabKey'.used >= tabKey.used /\ tabKey'.id <= tabKey'.used /\ tabKey'.used <= MaxTabKey
      /\ tabKey'.id = tabKey.id \/ compact'.nonce = -1 \/ tabKey'.id > tabKey.used
    OBVIOUS
<1>10. /\ compact'.epoch <= arena.epoch
       /\ \/ compact'.nonce = -1 \/ (compact'.failed /\ compact'.nonce = compact.nonce)
          \/ /\ compact'.epoch = compact.epoch /\ compact'.nonce = compact.nonce
             /\ compact.failed => compact'.failed
             /\ sending.at = "wait" => sending'.at = "wait"
          \/ /\ compact'.epoch = compact.epoch /\ compact'.nonce = compact.nonce + 1
             /\ compact.failed => compact'.failed
             /\ sending.at = "wait" /\ compact.nonce # -1
    BY DEF ChainTyped, Arena, Sending
<1>11. /\ Tab!LaunchReady => Tab!LaunchReady'
       /\ sending'.act = "accept" => Tab!LaunchReady'
       /\ sending'.at # "idle" => sending'.act # "none"
    BY DEF Introduced, Tab!LaunchReady, Sending, Duel
<1>12. /\ pageState'.ready \/ booting'.at = "install" \/ sending'.at # "idle" => tabKey'.id # 0
       /\ sending'.at \in {"sign", "wait"} => ~compact'.failed
    BY DEF Sending, Booting, PageState
<1> QED BY <1>7, <1>8, <1>9, <1>10, <1>11, <1>12 DEF PageMoves

(* The page is closed or reloaded. *)
LEMMA OnReload == ASSUME ClientInv, Tab!Reload PROVE PageMoves
<1> USE DEF Tab!Reload, Tab!Closed, Tab!Still, Tab!NoSession, Tab!Quiet, Tab!server, Tab!chain,
            Tab!saved, Tab!page
<1>1. duel' = duel /\ duel' \in Duel
    BY Zenon DEF ClientInv, PageTyped
<1>2. tabKey' = tabKey /\ tabKey' \in TabKey
    BY Zenon DEF ClientInv, PageTyped
<1>3. pageState' \in PageState
    <2> HIDE DEF Signable, Tab!Still, Tab!Quiet, Tab!NoSession, Tab!Closed
    <2> QED BY Starts, Zenon DEF ClientInv, PageTyped, PageState, Tab!Acts, Tab!Sides
<1>4. compact' \in Compact
    <2> HIDE DEF Signable, Tab!Still, Tab!Quiet, Tab!NoSession, Tab!Closed
    <2> QED BY Starts, Zenon DEF ClientInv, PageTyped, Compact, Tab!Acts, Tab!Sides
<1>5. sending' \in Sending
    <2> HIDE DEF Signable, Tab!Still, Tab!Quiet, Tab!NoSession, Tab!Closed
    <2> QED BY Starts, Zenon DEF ClientInv, PageTyped, Sending, Tab!Acts, Tab!Sides
<1>6. booting' \in Booting
    <2> HIDE DEF Signable, Tab!Still, Tab!Quiet, Tab!NoSession, Tab!Closed
    <2> QED BY Starts, Zenon DEF ClientInv, PageTyped, Booting, Tab!Acts, Tab!Sides
<1>7. PageTyped'
    BY <1>1, <1>2, <1>3, <1>4, <1>5, <1>6 DEF PageTyped
<1> USE DEF ClientInv, PageTyped, TabKey, Compact, Bounded
<1>8. /\ arena' = arena /\ signedOnes' = signedOnes
      /\ \A c \in flying' : c \in flying \/ (Uncertain /\ c = uncertain.cmd)
      /\ \/ uncertain' = uncertain
         \/ uncertain' = Tab!None /\ (Uncertain => Consumed(uncertain.cmd))
    BY DEF Uncertain, Consumed
<1>9. /\ tabKey'.used >= tabKey.used /\ tabKey'.id <= tabKey'.used /\ tabKey'.used <= MaxTabKey
      /\ tabKey'.id = tabKey.id \/ compact'.nonce = -1 \/ tabKey'.id > tabKey.used
    OBVIOUS
<1>10. /\ compact'.epoch <= arena.epoch
       /\ \/ compact'.nonce = -1 \/ (compact'.failed /\ compact'.nonce = compact.nonce)
          \/ /\ compact'.epoch = compact.epoch /\ compact'.nonce = compact.nonce
             /\ compact.failed => compact'.failed
             /\ sending.at = "wait" => sending'.at = "wait"
          \/ /\ compact'.epoch = compact.epoch /\ compact'.nonce = compact.nonce + 1
             /\ compact.failed => compact'.failed
             /\ sending.at = "wait" /\ compact.nonce # -1
    BY DEF ChainTyped, Arena, Sending
<1>11. /\ Tab!LaunchReady => Tab!LaunchReady'
       /\ sending'.act = "accept" => Tab!LaunchReady'
       /\ sending'.at # "idle" => sending'.act # "none"
    BY DEF Introduced, Tab!LaunchReady, Sending, Duel
<1>12. /\ pageState'.ready \/ booting'.at = "install" \/ sending'.at # "idle" => tabKey'.id # 0
       /\ sending'.at \in {"sign", "wait"} => ~compact'.failed
    BY DEF Sending, Booting, PageState
<1> QED BY <1>7, <1>8, <1>9, <1>10, <1>11, <1>12 DEF PageMoves

(* The account is restored. *)
LEMMA OnStartRestore == ASSUME ClientInv, Tab!StartRestore PROVE PageMoves
<1> USE DEF Tab!StartRestore, Tab!Still, Tab!server, Tab!chain, Tab!saved, Tab!page
<1>1. duel' = duel /\ duel' \in Duel
    BY Zenon DEF ClientInv, PageTyped
<1>2. tabKey' = tabKey /\ tabKey' \in TabKey
    BY Zenon DEF ClientInv, PageTyped
<1>3. pageState' = pageState /\ pageState' \in PageState
    BY Zenon DEF ClientInv, PageTyped
<1>4. compact' = compact /\ compact' \in Compact
    BY Zenon DEF ClientInv, PageTyped
<1>5. sending' = sending /\ sending' \in Sending
    BY Zenon DEF ClientInv, PageTyped
<1>6. booting' \in Booting
    <2> HIDE DEF Signable, Tab!Still, Tab!Quiet, Tab!NoSession, Tab!Closed
    <2> QED BY Starts, Zenon DEF ClientInv, PageTyped, Booting, Tab!Acts, Tab!Sides
<1>7. PageTyped'
    BY <1>1, <1>2, <1>3, <1>4, <1>5, <1>6 DEF PageTyped
<1> USE DEF ClientInv, PageTyped, TabKey, Compact, Bounded
<1>8. /\ arena' = arena /\ signedOnes' = signedOnes
      /\ \A c \in flying' : c \in flying \/ (Uncertain /\ c = uncertain.cmd)
      /\ \/ uncertain' = uncertain
         \/ uncertain' = Tab!None /\ (Uncertain => Consumed(uncertain.cmd))
    BY DEF Uncertain, Consumed
<1>9. /\ tabKey'.used >= tabKey.used /\ tabKey'.id <= tabKey'.used /\ tabKey'.used <= MaxTabKey
      /\ tabKey'.id = tabKey.id \/ compact'.nonce = -1 \/ tabKey'.id > tabKey.used
    OBVIOUS
<1>10. /\ compact'.epoch <= arena.epoch
       /\ \/ compact'.nonce = -1 \/ (compact'.failed /\ compact'.nonce = compact.nonce)
          \/ /\ compact'.epoch = compact.epoch /\ compact'.nonce = compact.nonce
             /\ compact.failed => compact'.failed
             /\ sending.at = "wait" => sending'.at = "wait"
          \/ /\ compact'.epoch = compact.epoch /\ compact'.nonce = compact.nonce + 1
             /\ compact.failed => compact'.failed
             /\ sending.at = "wait" /\ compact.nonce # -1
    BY DEF ChainTyped, Arena, Sending
<1>11. /\ Tab!LaunchReady => Tab!LaunchReady'
       /\ sending'.act = "accept" => Tab!LaunchReady'
       /\ sending'.at # "idle" => sending'.act # "none"
    BY DEF Introduced, Tab!LaunchReady, Sending, Duel
<1>12. /\ pageState'.ready \/ booting'.at = "install" \/ sending'.at # "idle" => tabKey'.id # 0
       /\ sending'.at \in {"sign", "wait"} => ~compact'.failed
    BY DEF Sending, Booting, PageState
<1> QED BY <1>7, <1>8, <1>9, <1>10, <1>11, <1>12 DEF PageMoves

(* The uncertain command is reconciled. *)
LEMMA OnStartRecover == ASSUME ClientInv, Tab!StartRecover PROVE PageMoves
<1> USE DEF Tab!StartRecover, Tab!Still, Tab!server, Tab!chain, Tab!saved, Tab!page
<1>1. duel' = duel /\ duel' \in Duel
    BY Zenon DEF ClientInv, PageTyped
<1>2. tabKey' = tabKey /\ tabKey' \in TabKey
    BY Zenon DEF ClientInv, PageTyped
<1>3. pageState' = pageState /\ pageState' \in PageState
    BY Zenon DEF ClientInv, PageTyped
<1>4. compact' = compact /\ compact' \in Compact
    BY Zenon DEF ClientInv, PageTyped
<1>5. sending' = sending /\ sending' \in Sending
    BY Zenon DEF ClientInv, PageTyped
<1>6. booting' \in Booting
    <2> HIDE DEF Signable, Tab!Still, Tab!Quiet, Tab!NoSession, Tab!Closed
    <2> QED BY Starts, Zenon DEF ClientInv, PageTyped, Booting, Tab!Acts, Tab!Sides
<1>7. PageTyped'
    BY <1>1, <1>2, <1>3, <1>4, <1>5, <1>6 DEF PageTyped
<1> USE DEF ClientInv, PageTyped, TabKey, Compact, Bounded
<1>8. /\ arena' = arena /\ signedOnes' = signedOnes
      /\ \A c \in flying' : c \in flying \/ (Uncertain /\ c = uncertain.cmd)
      /\ \/ uncertain' = uncertain
         \/ uncertain' = Tab!None /\ (Uncertain => Consumed(uncertain.cmd))
    BY DEF Uncertain, Consumed
<1>9. /\ tabKey'.used >= tabKey.used /\ tabKey'.id <= tabKey'.used /\ tabKey'.used <= MaxTabKey
      /\ tabKey'.id = tabKey.id \/ compact'.nonce = -1 \/ tabKey'.id > tabKey.used
    OBVIOUS
<1>10. /\ compact'.epoch <= arena.epoch
       /\ \/ compact'.nonce = -1 \/ (compact'.failed /\ compact'.nonce = compact.nonce)
          \/ /\ compact'.epoch = compact.epoch /\ compact'.nonce = compact.nonce
             /\ compact.failed => compact'.failed
             /\ sending.at = "wait" => sending'.at = "wait"
          \/ /\ compact'.epoch = compact.epoch /\ compact'.nonce = compact.nonce + 1
             /\ compact.failed => compact'.failed
             /\ sending.at = "wait" /\ compact.nonce # -1
    BY DEF ChainTyped, Arena, Sending
<1>11. /\ Tab!LaunchReady => Tab!LaunchReady'
       /\ sending'.act = "accept" => Tab!LaunchReady'
       /\ sending'.at # "idle" => sending'.act # "none"
    BY DEF Introduced, Tab!LaunchReady, Sending, Duel
<1>12. /\ pageState'.ready \/ booting'.at = "install" \/ sending'.at # "idle" => tabKey'.id # 0
       /\ sending'.at \in {"sign", "wait"} => ~compact'.failed
    BY DEF Sending, Booting, PageState
<1> QED BY <1>7, <1>8, <1>9, <1>10, <1>11, <1>12 DEF PageMoves

(* The stored session stands or has to be renewed. *)
LEMMA OnRestoreSession == ASSUME ClientInv, Tab!RestoreSession PROVE PageMoves
<1> USE DEF Tab!RestoreSession, Tab!Still, Tab!server, Tab!chain, Tab!saved, Tab!page
<1>1. duel' = duel /\ duel' \in Duel
    BY Zenon DEF ClientInv, PageTyped
<1>2. tabKey' = tabKey /\ tabKey' \in TabKey
    BY Zenon DEF ClientInv, PageTyped
<1>3. pageState' \in PageState
    <2> HIDE DEF Signable, Tab!Still, Tab!Quiet, Tab!NoSession, Tab!Closed
    <2> QED BY Starts, Zenon DEF ClientInv, PageTyped, PageState, Tab!Acts, Tab!Sides
<1>4. compact' = compact /\ compact' \in Compact
    BY Zenon DEF ClientInv, PageTyped
<1>5. sending' = sending /\ sending' \in Sending
    BY Zenon DEF ClientInv, PageTyped
<1>6. booting' \in Booting
    <2> HIDE DEF Signable, Tab!Still, Tab!Quiet, Tab!NoSession, Tab!Closed
    <2> QED BY Starts, Zenon DEF ClientInv, PageTyped, Booting, Tab!Acts, Tab!Sides
<1>7. PageTyped'
    BY <1>1, <1>2, <1>3, <1>4, <1>5, <1>6 DEF PageTyped
<1> USE DEF ClientInv, PageTyped, TabKey, Compact, Bounded
<1>8. /\ arena' = arena /\ signedOnes' = signedOnes
      /\ \A c \in flying' : c \in flying \/ (Uncertain /\ c = uncertain.cmd)
      /\ \/ uncertain' = uncertain
         \/ uncertain' = Tab!None /\ (Uncertain => Consumed(uncertain.cmd))
    BY DEF Uncertain, Consumed
<1>9. /\ tabKey'.used >= tabKey.used /\ tabKey'.id <= tabKey'.used /\ tabKey'.used <= MaxTabKey
      /\ tabKey'.id = tabKey.id \/ compact'.nonce = -1 \/ tabKey'.id > tabKey.used
    OBVIOUS
<1>10. /\ compact'.epoch <= arena.epoch
       /\ \/ compact'.nonce = -1 \/ (compact'.failed /\ compact'.nonce = compact.nonce)
          \/ /\ compact'.epoch = compact.epoch /\ compact'.nonce = compact.nonce
             /\ compact.failed => compact'.failed
             /\ sending.at = "wait" => sending'.at = "wait"
          \/ /\ compact'.epoch = compact.epoch /\ compact'.nonce = compact.nonce + 1
             /\ compact.failed => compact'.failed
             /\ sending.at = "wait" /\ compact.nonce # -1
    BY DEF ChainTyped, Arena, Sending
<1>11. /\ Tab!LaunchReady => Tab!LaunchReady'
       /\ sending'.act = "accept" => Tab!LaunchReady'
       /\ sending'.at # "idle" => sending'.act # "none"
    BY DEF Introduced, Tab!LaunchReady, Sending, Duel
<1>12. /\ pageState'.ready \/ booting'.at = "install" \/ sending'.at # "idle" => tabKey'.id # 0
       /\ sending'.at \in {"sign", "wait"} => ~compact'.failed
    <2>1. CASE booting' = [booting EXCEPT !.at = "install"] /\ tabKey.id # 0
        BY <2>1
    <2>2. CASE booting' = Tab!Still
        <3>1. pageState' = pageState \/ pageState' = [pageState EXCEPT !.renew = TRUE, !.ready = FALSE]
            BY Zenon
        <3>2. pageState'.ready => pageState.ready
            <4>1. [pageState EXCEPT !.renew = TRUE, !.ready = FALSE].ready = FALSE
                BY Zenon DEF PageState
            <4> QED BY <3>1, <4>1, Zenon
        <3> HIDE DEF Tab!Still
        <3> QED BY <2>2, <3>2, Starts
    <2> QED BY <2>1, <2>2, Zenon
<1> QED BY <1>7, <1>8, <1>9, <1>10, <1>11, <1>12 DEF PageMoves

(* A fresh compact session is installed. *)
LEMMA OnInstall == ASSUME ClientInv, Tab!Install PROVE PageMoves
<1> USE DEF Tab!Install, Tab!Still, Tab!NoSession, Tab!Installed, Tab!server, Tab!chain,
            Tab!saved, Tab!page
<1>1. duel' = duel /\ duel' \in Duel
    BY Zenon DEF ClientInv, PageTyped
<1>2. tabKey' \in TabKey
    <2> HIDE DEF Signable, Tab!Still, Tab!Quiet, Tab!NoSession, Tab!Closed
    <2> QED BY Starts, Zenon DEF ClientInv, PageTyped, TabKey, Tab!Acts, Tab!Sides
<1>3. pageState' \in PageState
    <2> HIDE DEF Signable, Tab!Still, Tab!Quiet, Tab!NoSession, Tab!Closed
    <2> QED BY Starts, Zenon DEF ClientInv, PageTyped, PageState, Tab!Acts, Tab!Sides
<1>4. compact' \in Compact
    <2>1. arena.epoch \in Nat
        BY DEF ClientInv, ChainTyped, Arena
    <2> HIDE DEF Tab!NoSession
    <2>2. compact' = compact \/ compact' = [Tab!NoSession EXCEPT !.epoch = arena.epoch]
        BY Zenon
    <2> QED BY <2>1, <2>2, Starts, Zenon DEF ClientInv, PageTyped, Compact
<1>5. sending' = sending /\ sending' \in Sending
    BY Zenon DEF ClientInv, PageTyped
<1>6. booting' \in Booting
    <2> HIDE DEF Signable, Tab!Still, Tab!Quiet, Tab!NoSession, Tab!Closed
    <2> QED BY Starts, Zenon DEF ClientInv, PageTyped, Booting, Tab!Acts, Tab!Sides
<1>7. PageTyped'
    BY <1>1, <1>2, <1>3, <1>4, <1>5, <1>6 DEF PageTyped
<1> USE DEF ClientInv, PageTyped, TabKey, Compact, Bounded
<1>8. /\ arena' = arena /\ signedOnes' = signedOnes
      /\ \A c \in flying' : c \in flying \/ (Uncertain /\ c = uncertain.cmd)
      /\ \/ uncertain' = uncertain
         \/ uncertain' = Tab!None /\ (Uncertain => Consumed(uncertain.cmd))
    BY DEF Uncertain, Consumed
<1>9. /\ tabKey'.used >= tabKey.used /\ tabKey'.id <= tabKey'.used /\ tabKey'.used <= MaxTabKey
      /\ tabKey'.id = tabKey.id \/ compact'.nonce = -1 \/ tabKey'.id > tabKey.used
    OBVIOUS
<1>10. /\ compact'.epoch <= arena.epoch
       /\ \/ compact'.nonce = -1 \/ (compact'.failed /\ compact'.nonce = compact.nonce)
          \/ /\ compact'.epoch = compact.epoch /\ compact'.nonce = compact.nonce
             /\ compact.failed => compact'.failed
             /\ sending.at = "wait" => sending'.at = "wait"
          \/ /\ compact'.epoch = compact.epoch /\ compact'.nonce = compact.nonce + 1
             /\ compact.failed => compact'.failed
             /\ sending.at = "wait" /\ compact.nonce # -1
    BY DEF ChainTyped, Arena, Sending
<1>11. /\ Tab!LaunchReady => Tab!LaunchReady'
       /\ sending'.act = "accept" => Tab!LaunchReady'
       /\ sending'.at # "idle" => sending'.act # "none"
    BY DEF Introduced, Tab!LaunchReady, Sending, Duel
<1>12. /\ pageState'.ready \/ booting'.at = "install" \/ sending'.at # "idle" => tabKey'.id # 0
       /\ sending'.at \in {"sign", "wait"} => ~compact'.failed
    BY DEF Sending, Booting, PageState
<1> QED BY <1>7, <1>8, <1>9, <1>10, <1>11, <1>12 DEF PageMoves

(* React cleans an effect up. *)
LEMMA OnEffectCleanup == ASSUME ClientInv, Tab!EffectCleanup PROVE PageMoves
<1> USE DEF Tab!EffectCleanup, Tab!server, Tab!chain, Tab!saved, Tab!page
<1>1. duel' = duel /\ duel' \in Duel
    BY Zenon DEF ClientInv, PageTyped
<1>2. tabKey' = tabKey /\ tabKey' \in TabKey
    BY Zenon DEF ClientInv, PageTyped
<1>3. pageState' = pageState /\ pageState' \in PageState
    BY Zenon DEF ClientInv, PageTyped
<1>4. compact' = compact /\ compact' \in Compact
    BY Zenon DEF ClientInv, PageTyped
<1>5. sending' = sending /\ sending' \in Sending
    BY Zenon DEF ClientInv, PageTyped
<1>6. booting' \in Booting
    <2> HIDE DEF Signable, Tab!Still, Tab!Quiet, Tab!NoSession, Tab!Closed
    <2> QED BY Starts, Zenon DEF ClientInv, PageTyped, Booting, Tab!Acts, Tab!Sides
<1>7. PageTyped'
    BY <1>1, <1>2, <1>3, <1>4, <1>5, <1>6 DEF PageTyped
<1> USE DEF ClientInv, PageTyped, TabKey, Compact, Bounded
<1>8. /\ arena' = arena /\ signedOnes' = signedOnes
      /\ \A c \in flying' : c \in flying \/ (Uncertain /\ c = uncertain.cmd)
      /\ \/ uncertain' = uncertain
         \/ uncertain' = Tab!None /\ (Uncertain => Consumed(uncertain.cmd))
    BY DEF Uncertain, Consumed
<1>9. /\ tabKey'.used >= tabKey.used /\ tabKey'.id <= tabKey'.used /\ tabKey'.used <= MaxTabKey
      /\ tabKey'.id = tabKey.id \/ compact'.nonce = -1 \/ tabKey'.id > tabKey.used
    OBVIOUS
<1>10. /\ compact'.epoch <= arena.epoch
       /\ \/ compact'.nonce = -1 \/ (compact'.failed /\ compact'.nonce = compact.nonce)
          \/ /\ compact'.epoch = compact.epoch /\ compact'.nonce = compact.nonce
             /\ compact.failed => compact'.failed
             /\ sending.at = "wait" => sending'.at = "wait"
          \/ /\ compact'.epoch = compact.epoch /\ compact'.nonce = compact.nonce + 1
             /\ compact.failed => compact'.failed
             /\ sending.at = "wait" /\ compact.nonce # -1
    BY DEF ChainTyped, Arena, Sending
<1>11. /\ Tab!LaunchReady => Tab!LaunchReady'
       /\ sending'.act = "accept" => Tab!LaunchReady'
       /\ sending'.at # "idle" => sending'.act # "none"
    BY DEF Introduced, Tab!LaunchReady, Sending, Duel
<1>12. /\ pageState'.ready \/ booting'.at = "install" \/ sending'.at # "idle" => tabKey'.id # 0
       /\ sending'.at \in {"sign", "wait"} => ~compact'.failed
    BY DEF Sending, Booting, PageState
<1> QED BY <1>7, <1>8, <1>9, <1>10, <1>11, <1>12 DEF PageMoves

(* The lobby answered. *)
LEMMA OnRefreshed == ASSUME ClientInv, Tab!Refreshed PROVE PageMoves
<1> USE DEF Tab!Refreshed, Tab!Still, Tab!server, Tab!chain, Tab!saved, Tab!page
<1>1. duel' = duel /\ duel' \in Duel
    BY Zenon DEF ClientInv, PageTyped
<1>2. tabKey' = tabKey /\ tabKey' \in TabKey
    BY Zenon DEF ClientInv, PageTyped
<1>3. pageState' = pageState /\ pageState' \in PageState
    BY Zenon DEF ClientInv, PageTyped
<1>4. compact' = compact /\ compact' \in Compact
    BY Zenon DEF ClientInv, PageTyped
<1>5. sending' = sending /\ sending' \in Sending
    BY Zenon DEF ClientInv, PageTyped
<1>6. booting' \in Booting
    <2> HIDE DEF Signable, Tab!Still, Tab!Quiet, Tab!NoSession, Tab!Closed
    <2> QED BY Starts, Zenon DEF ClientInv, PageTyped, Booting, Tab!Acts, Tab!Sides
<1>7. PageTyped'
    BY <1>1, <1>2, <1>3, <1>4, <1>5, <1>6 DEF PageTyped
<1> USE DEF ClientInv, PageTyped, TabKey, Compact, Bounded
<1>8. /\ arena' = arena /\ signedOnes' = signedOnes
      /\ \A c \in flying' : c \in flying \/ (Uncertain /\ c = uncertain.cmd)
      /\ \/ uncertain' = uncertain
         \/ uncertain' = Tab!None /\ (Uncertain => Consumed(uncertain.cmd))
    BY DEF Uncertain, Consumed
<1>9. /\ tabKey'.used >= tabKey.used /\ tabKey'.id <= tabKey'.used /\ tabKey'.used <= MaxTabKey
      /\ tabKey'.id = tabKey.id \/ compact'.nonce = -1 \/ tabKey'.id > tabKey.used
    OBVIOUS
<1>10. /\ compact'.epoch <= arena.epoch
       /\ \/ compact'.nonce = -1 \/ (compact'.failed /\ compact'.nonce = compact.nonce)
          \/ /\ compact'.epoch = compact.epoch /\ compact'.nonce = compact.nonce
             /\ compact.failed => compact'.failed
             /\ sending.at = "wait" => sending'.at = "wait"
          \/ /\ compact'.epoch = compact.epoch /\ compact'.nonce = compact.nonce + 1
             /\ compact.failed => compact'.failed
             /\ sending.at = "wait" /\ compact.nonce # -1
    BY DEF ChainTyped, Arena, Sending
<1>11. /\ Tab!LaunchReady => Tab!LaunchReady'
       /\ sending'.act = "accept" => Tab!LaunchReady'
       /\ sending'.at # "idle" => sending'.act # "none"
    BY DEF Introduced, Tab!LaunchReady, Sending, Duel
<1>12. /\ pageState'.ready \/ booting'.at = "install" \/ sending'.at # "idle" => tabKey'.id # 0
       /\ sending'.at \in {"sign", "wait"} => ~compact'.failed
    BY DEF Sending, Booting, PageState
<1> QED BY <1>7, <1>8, <1>9, <1>10, <1>11, <1>12 DEF PageMoves

(* A request of the restore or of the login fails. *)
LEMMA OnBootFails == ASSUME ClientInv, Tab!BootFails PROVE PageMoves
<1> USE DEF Tab!BootFails, Tab!Still, Tab!server, Tab!chain, Tab!saved, Tab!page
<1>1. duel' = duel /\ duel' \in Duel
    BY Zenon DEF ClientInv, PageTyped
<1>2. tabKey' = tabKey /\ tabKey' \in TabKey
    BY Zenon DEF ClientInv, PageTyped
<1>3. pageState' \in PageState
    <2> HIDE DEF Signable, Tab!Still, Tab!Quiet, Tab!NoSession, Tab!Closed
    <2> QED BY Starts, Zenon DEF ClientInv, PageTyped, PageState, Tab!Acts, Tab!Sides
<1>4. compact' = compact /\ compact' \in Compact
    BY Zenon DEF ClientInv, PageTyped
<1>5. sending' = sending /\ sending' \in Sending
    BY Zenon DEF ClientInv, PageTyped
<1>6. booting' \in Booting
    <2> HIDE DEF Signable, Tab!Still, Tab!Quiet, Tab!NoSession, Tab!Closed
    <2> QED BY Starts, Zenon DEF ClientInv, PageTyped, Booting, Tab!Acts, Tab!Sides
<1>7. PageTyped'
    BY <1>1, <1>2, <1>3, <1>4, <1>5, <1>6 DEF PageTyped
<1> USE DEF ClientInv, PageTyped, TabKey, Compact, Bounded
<1>8. /\ arena' = arena /\ signedOnes' = signedOnes
      /\ \A c \in flying' : c \in flying \/ (Uncertain /\ c = uncertain.cmd)
      /\ \/ uncertain' = uncertain
         \/ uncertain' = Tab!None /\ (Uncertain => Consumed(uncertain.cmd))
    BY DEF Uncertain, Consumed
<1>9. /\ tabKey'.used >= tabKey.used /\ tabKey'.id <= tabKey'.used /\ tabKey'.used <= MaxTabKey
      /\ tabKey'.id = tabKey.id \/ compact'.nonce = -1 \/ tabKey'.id > tabKey.used
    OBVIOUS
<1>10. /\ compact'.epoch <= arena.epoch
       /\ \/ compact'.nonce = -1 \/ (compact'.failed /\ compact'.nonce = compact.nonce)
          \/ /\ compact'.epoch = compact.epoch /\ compact'.nonce = compact.nonce
             /\ compact.failed => compact'.failed
             /\ sending.at = "wait" => sending'.at = "wait"
          \/ /\ compact'.epoch = compact.epoch /\ compact'.nonce = compact.nonce + 1
             /\ compact.failed => compact'.failed
             /\ sending.at = "wait" /\ compact.nonce # -1
    BY DEF ChainTyped, Arena, Sending
<1>11. /\ Tab!LaunchReady => Tab!LaunchReady'
       /\ sending'.act = "accept" => Tab!LaunchReady'
       /\ sending'.at # "idle" => sending'.act # "none"
    BY DEF Introduced, Tab!LaunchReady, Sending, Duel
<1>12. /\ pageState'.ready \/ booting'.at = "install" \/ sending'.at # "idle" => tabKey'.id # 0
       /\ sending'.at \in {"sign", "wait"} => ~compact'.failed
    BY DEF Sending, Booting, PageState
<1> QED BY <1>7, <1>8, <1>9, <1>10, <1>11, <1>12 DEF PageMoves

(* The lobby says that the session is gone. *)
LEMMA OnLobbySessionLost == ASSUME ClientInv, Tab!LobbySessionLost PROVE PageMoves
<1> USE DEF Tab!LobbySessionLost, Tab!server, Tab!chain, Tab!saved, Tab!page
<1>1. duel' = duel /\ duel' \in Duel
    BY Zenon DEF ClientInv, PageTyped
<1>2. tabKey' = tabKey /\ tabKey' \in TabKey
    BY Zenon DEF ClientInv, PageTyped
<1>3. pageState' \in PageState
    <2> HIDE DEF Signable, Tab!Still, Tab!Quiet, Tab!NoSession, Tab!Closed
    <2> QED BY Starts, Zenon DEF ClientInv, PageTyped, PageState, Tab!Acts, Tab!Sides
<1>4. compact' = compact /\ compact' \in Compact
    BY Zenon DEF ClientInv, PageTyped
<1>5. sending' = sending /\ sending' \in Sending
    BY Zenon DEF ClientInv, PageTyped
<1>6. booting' \in Booting
    <2> HIDE DEF Signable, Tab!Still, Tab!Quiet, Tab!NoSession, Tab!Closed
    <2> QED BY Starts, Zenon DEF ClientInv, PageTyped, Booting, Tab!Acts, Tab!Sides
<1>7. PageTyped'
    BY <1>1, <1>2, <1>3, <1>4, <1>5, <1>6 DEF PageTyped
<1> USE DEF ClientInv, PageTyped, TabKey, Compact, Bounded
<1>8. /\ arena' = arena /\ signedOnes' = signedOnes
      /\ \A c \in flying' : c \in flying \/ (Uncertain /\ c = uncertain.cmd)
      /\ \/ uncertain' = uncertain
         \/ uncertain' = Tab!None /\ (Uncertain => Consumed(uncertain.cmd))
    BY DEF Uncertain, Consumed
<1>9. /\ tabKey'.used >= tabKey.used /\ tabKey'.id <= tabKey'.used /\ tabKey'.used <= MaxTabKey
      /\ tabKey'.id = tabKey.id \/ compact'.nonce = -1 \/ tabKey'.id > tabKey.used
    OBVIOUS
<1>10. /\ compact'.epoch <= arena.epoch
       /\ \/ compact'.nonce = -1 \/ (compact'.failed /\ compact'.nonce = compact.nonce)
          \/ /\ compact'.epoch = compact.epoch /\ compact'.nonce = compact.nonce
             /\ compact.failed => compact'.failed
             /\ sending.at = "wait" => sending'.at = "wait"
          \/ /\ compact'.epoch = compact.epoch /\ compact'.nonce = compact.nonce + 1
             /\ compact.failed => compact'.failed
             /\ sending.at = "wait" /\ compact.nonce # -1
    BY DEF ChainTyped, Arena, Sending
<1>11. /\ Tab!LaunchReady => Tab!LaunchReady'
       /\ sending'.act = "accept" => Tab!LaunchReady'
       /\ sending'.at # "idle" => sending'.act # "none"
    BY DEF Introduced, Tab!LaunchReady, Sending, Duel
<1>12. /\ pageState'.ready \/ booting'.at = "install" \/ sending'.at # "idle" => tabKey'.id # 0
       /\ sending'.at \in {"sign", "wait"} => ~compact'.failed
    BY DEF Sending, Booting, PageState
<1> QED BY <1>7, <1>8, <1>9, <1>10, <1>11, <1>12 DEF PageMoves

(* The feed saw a reset of the node. *)
LEMMA OnNodeRestarted == ASSUME ClientInv, Tab!NodeRestarted PROVE PageMoves
<1> USE DEF Tab!NodeRestarted, Tab!server, Tab!chain, Tab!saved, Tab!page
<1>1. duel' = duel /\ duel' \in Duel
    BY Zenon DEF ClientInv, PageTyped
<1>2. tabKey' = tabKey /\ tabKey' \in TabKey
    BY Zenon DEF ClientInv, PageTyped
<1>3. pageState' \in PageState
    <2> HIDE DEF Signable, Tab!Still, Tab!Quiet, Tab!NoSession, Tab!Closed
    <2> QED BY Starts, Zenon DEF ClientInv, PageTyped, PageState, Tab!Acts, Tab!Sides
<1>4. compact' = compact /\ compact' \in Compact
    BY Zenon DEF ClientInv, PageTyped
<1>5. sending' = sending /\ sending' \in Sending
    BY Zenon DEF ClientInv, PageTyped
<1>6. booting' = booting /\ booting' \in Booting
    BY Zenon DEF ClientInv, PageTyped
<1>7. PageTyped'
    BY <1>1, <1>2, <1>3, <1>4, <1>5, <1>6 DEF PageTyped
<1> USE DEF ClientInv, PageTyped, TabKey, Compact, Bounded
<1>8. /\ arena' = arena /\ signedOnes' = signedOnes
      /\ \A c \in flying' : c \in flying \/ (Uncertain /\ c = uncertain.cmd)
      /\ \/ uncertain' = uncertain
         \/ uncertain' = Tab!None /\ (Uncertain => Consumed(uncertain.cmd))
    BY DEF Uncertain, Consumed
<1>9. /\ tabKey'.used >= tabKey.used /\ tabKey'.id <= tabKey'.used /\ tabKey'.used <= MaxTabKey
      /\ tabKey'.id = tabKey.id \/ compact'.nonce = -1 \/ tabKey'.id > tabKey.used
    OBVIOUS
<1>10. /\ compact'.epoch <= arena.epoch
       /\ \/ compact'.nonce = -1 \/ (compact'.failed /\ compact'.nonce = compact.nonce)
          \/ /\ compact'.epoch = compact.epoch /\ compact'.nonce = compact.nonce
             /\ compact.failed => compact'.failed
             /\ sending.at = "wait" => sending'.at = "wait"
          \/ /\ compact'.epoch = compact.epoch /\ compact'.nonce = compact.nonce + 1
             /\ compact.failed => compact'.failed
             /\ sending.at = "wait" /\ compact.nonce # -1
    BY DEF ChainTyped, Arena, Sending
<1>11. /\ Tab!LaunchReady => Tab!LaunchReady'
       /\ sending'.act = "accept" => Tab!LaunchReady'
       /\ sending'.at # "idle" => sending'.act # "none"
    BY DEF Introduced, Tab!LaunchReady, Sending, Duel
<1>12. /\ pageState'.ready \/ booting'.at = "install" \/ sending'.at # "idle" => tabKey'.id # 0
       /\ sending'.at \in {"sign", "wait"} => ~compact'.failed
    BY DEF Sending, Booting, PageState
<1> QED BY <1>7, <1>8, <1>9, <1>10, <1>11, <1>12 DEF PageMoves

(* A stored acceptance is confirmed or cleared. *)
LEMMA OnConfirmAcceptance == ASSUME ClientInv, Tab!ConfirmAcceptance PROVE PageMoves
<1> USE DEF Tab!ConfirmAcceptance, Tab!server, Tab!chain, Tab!saved, Tab!page
<1>1. duel' \in Duel
    <2>1. PICK A : /\ duel' = duel \/ duel' = [duel EXCEPT !.accepted = A]
                   /\ A \in {Tab!Sides, duel.accepted \cup {"me"}}
        BY Zenon
    <2>2. duel \in Duel /\ duel.accepted \subseteq Tab!Sides
        BY DEF ClientInv, PageTyped, Duel
    <2>3. A \in SUBSET Tab!Sides
        BY <2>1, <2>2 DEF Tab!Sides
    <2> QED BY <2>1, <2>2, <2>3 DEF Duel
<1>2. tabKey' = tabKey /\ tabKey' \in TabKey
    BY Zenon DEF ClientInv, PageTyped
<1>3. pageState' = pageState /\ pageState' \in PageState
    BY Zenon DEF ClientInv, PageTyped
<1>4. compact' = compact /\ compact' \in Compact
    BY Zenon DEF ClientInv, PageTyped
<1>5. sending' = sending /\ sending' \in Sending
    BY Zenon DEF ClientInv, PageTyped
<1>6. booting' = booting /\ booting' \in Booting
    BY Zenon DEF ClientInv, PageTyped
<1>7. PageTyped'
    BY <1>1, <1>2, <1>3, <1>4, <1>5, <1>6 DEF PageTyped
<1> USE DEF ClientInv, PageTyped, TabKey, Compact, Bounded
<1>8. /\ arena' = arena /\ signedOnes' = signedOnes
      /\ \A c \in flying' : c \in flying \/ (Uncertain /\ c = uncertain.cmd)
      /\ \/ uncertain' = uncertain
         \/ uncertain' = Tab!None /\ (Uncertain => Consumed(uncertain.cmd))
    BY DEF Uncertain, Consumed
<1>9. /\ tabKey'.used >= tabKey.used /\ tabKey'.id <= tabKey'.used /\ tabKey'.used <= MaxTabKey
      /\ tabKey'.id = tabKey.id \/ compact'.nonce = -1 \/ tabKey'.id > tabKey.used
    OBVIOUS
<1>10. /\ compact'.epoch <= arena.epoch
       /\ \/ compact'.nonce = -1 \/ (compact'.failed /\ compact'.nonce = compact.nonce)
          \/ /\ compact'.epoch = compact.epoch /\ compact'.nonce = compact.nonce
             /\ compact.failed => compact'.failed
             /\ sending.at = "wait" => sending'.at = "wait"
          \/ /\ compact'.epoch = compact.epoch /\ compact'.nonce = compact.nonce + 1
             /\ compact.failed => compact'.failed
             /\ sending.at = "wait" /\ compact.nonce # -1
    BY DEF ChainTyped, Arena, Sending
<1>11. /\ Tab!LaunchReady => Tab!LaunchReady'
       /\ sending'.act = "accept" => Tab!LaunchReady'
       /\ sending'.at # "idle" => sending'.act # "none"
    BY DEF Introduced, Tab!LaunchReady, Sending, Duel
<1>12. /\ pageState'.ready \/ booting'.at = "install" \/ sending'.at # "idle" => tabKey'.id # 0
       /\ sending'.at \in {"sign", "wait"} => ~compact'.failed
    BY DEF Sending, Booting, PageState
<1> QED BY <1>7, <1>8, <1>9, <1>10, <1>11, <1>12 DEF PageMoves

(* The same bytes go out again without an answer. *)
LEMMA OnResendFails == ASSUME ClientInv, Tab!ResendFails PROVE PageMoves
<1> USE DEF Tab!ResendFails, Tab!MayResend, Tab!Still, Tab!server, Tab!chain, Tab!saved, Tab!page
<1>1. duel' = duel /\ duel' \in Duel
    BY Zenon DEF ClientInv, PageTyped
<1>2. tabKey' = tabKey /\ tabKey' \in TabKey
    BY Zenon DEF ClientInv, PageTyped
<1>3. pageState' = pageState /\ pageState' \in PageState
    BY Zenon DEF ClientInv, PageTyped
<1>4. compact' = compact /\ compact' \in Compact
    BY Zenon DEF ClientInv, PageTyped
<1>5. sending' = sending /\ sending' \in Sending
    BY Zenon DEF ClientInv, PageTyped
<1>6. booting' \in Booting
    <2> HIDE DEF Signable, Tab!Still, Tab!Quiet, Tab!NoSession, Tab!Closed
    <2> QED BY Starts, Zenon DEF ClientInv, PageTyped, Booting, Tab!Acts, Tab!Sides
<1>7. PageTyped'
    BY <1>1, <1>2, <1>3, <1>4, <1>5, <1>6 DEF PageTyped
<1> USE DEF ClientInv, PageTyped, TabKey, Compact, Bounded
<1>8. /\ arena' = arena /\ signedOnes' = signedOnes
      /\ \A c \in flying' : c \in flying \/ (Uncertain /\ c = uncertain.cmd)
      /\ \/ uncertain' = uncertain
         \/ uncertain' = Tab!None /\ (Uncertain => Consumed(uncertain.cmd))
    BY DEF Uncertain, Consumed
<1>9. /\ tabKey'.used >= tabKey.used /\ tabKey'.id <= tabKey'.used /\ tabKey'.used <= MaxTabKey
      /\ tabKey'.id = tabKey.id \/ compact'.nonce = -1 \/ tabKey'.id > tabKey.used
    OBVIOUS
<1>10. /\ compact'.epoch <= arena.epoch
       /\ \/ compact'.nonce = -1 \/ (compact'.failed /\ compact'.nonce = compact.nonce)
          \/ /\ compact'.epoch = compact.epoch /\ compact'.nonce = compact.nonce
             /\ compact.failed => compact'.failed
             /\ sending.at = "wait" => sending'.at = "wait"
          \/ /\ compact'.epoch = compact.epoch /\ compact'.nonce = compact.nonce + 1
             /\ compact.failed => compact'.failed
             /\ sending.at = "wait" /\ compact.nonce # -1
    BY DEF ChainTyped, Arena, Sending
<1>11. /\ Tab!LaunchReady => Tab!LaunchReady'
       /\ sending'.act = "accept" => Tab!LaunchReady'
       /\ sending'.at # "idle" => sending'.act # "none"
    BY DEF Introduced, Tab!LaunchReady, Sending, Duel
<1>12. /\ pageState'.ready \/ booting'.at = "install" \/ sending'.at # "idle" => tabKey'.id # 0
       /\ sending'.at \in {"sign", "wait"} => ~compact'.failed
    BY DEF Sending, Booting, PageState
<1> QED BY <1>7, <1>8, <1>9, <1>10, <1>11, <1>12 DEF PageMoves

(* Somebody is ready. *)
LEMMA OnBeingReady == ASSUME ClientInv, Tab!RivalReady \/ Tab!Ready PROVE PageMoves
<1>1. /\ duel' = Tab!Prepared("rival") \/ duel' = Tab!Prepared("me")
      /\ UNCHANGED <<arena, flying, signedOnes, uncertain, tabKey, pageState, compact, sending, booting>>
    BY Zenon DEF Tab!RivalReady, Tab!Ready, Tab!chain, Tab!saved, Tab!page
<1>2. duel' \in Duel /\ (Tab!LaunchReady => Tab!LaunchReady')
    BY <1>1, PreparedFact DEF ClientInv, PageTyped, Tab!Sides
<1>3. PageTyped'
    BY <1>1, <1>2 DEF ClientInv, PageTyped
<1> QED BY <1>1, <1>2, <1>3 DEF ClientInv, PageMoves, PageTyped, TabKey, Bounded, Introduced

(* A command enters the queue of a page that is ready; an acceptance only once the *)
(* lobby admits it.                                                                 *)
LEMMA OnQueued == ASSUME ClientInv, Tab!Accept \/ Tab!Send PROVE PageMoves
<1>1. /\ UNCHANGED <<arena, flying, signedOnes, uncertain, tabKey, compact, booting>>
      /\ pageState.ready
    BY Zenon DEF Tab!Accept, Tab!Send, Tab!Command1, Tab!CanSend, Tab!chain, Tab!saved, Tab!server
<1>2. /\ duel' \in Duel /\ duel'.ready = duel.ready /\ duel'.launch = duel.launch
    <2>1. CASE duel' = duel
        BY <2>1 DEF ClientInv, PageTyped
    <2>2. CASE Tab!Accept
        <3>1. PICK S : duel' = [duel EXCEPT !.accepted = S] /\ S \in SUBSET Tab!Sides
            <4>1. duel.accepted \in SUBSET Tab!Sides /\ {} \in SUBSET Tab!Sides
                BY DEF ClientInv, PageTyped, Duel
            <4> QED BY <2>2, <4>1, Zenon DEF Tab!Accept
        <3>2. duel' \in Duel
            BY <3>1, Zenon DEF ClientInv, PageTyped, Duel
        <3>3. duel'.ready = duel.ready /\ duel'.launch = duel.launch
            BY <3>1 DEF ClientInv, PageTyped, Duel
        <3> QED BY <3>2, <3>3
    <2> QED BY <2>1, <2>2, Zenon DEF Tab!Send, Tab!Command1, Tab!server
<1>3. Tab!LaunchReady' <=> Tab!LaunchReady
    BY <1>2 DEF Tab!LaunchReady
<1>4. pageState' \in PageState /\ pageState'.ready = pageState.ready
    <2>1. \/ pageState' = pageState
          \/ \E b \in BOOLEAN : pageState' = [pageState EXCEPT !.launched = TRUE, !.issue = b]
        BY Zenon DEF Tab!Accept, Tab!Send, Tab!Command1
    <2>2. pageState' \in PageState
        BY <2>1, Zenon DEF ClientInv, PageTyped, PageState
    <2>3. pageState'.ready = pageState.ready
        BY <2>1 DEF ClientInv, PageTyped, PageState
    <2> QED BY <2>2, <2>3
<1>5. /\ sending' \in Sending
      /\ \/ sending' = sending
         \/ /\ sending = Tab!Quiet /\ sending'.at = "bind" /\ sending'.act # "none"
            /\ sending'.act = "accept" => Tab!LaunchReady
    <2>1. CASE sending' = sending
        BY <2>1 DEF ClientInv, PageTyped
    <2>2. CASE Tab!Accept /\ sending' # sending
        <3>1. Tab!Begin("accept") /\ Tab!LaunchReady /\ sending = Tab!Quiet
            BY <2>2, Zenon DEF Tab!Accept, Tab!Refused, Tab!CanSend
        <3> QED BY <3>1, BeginFact DEF Tab!Acts
    <2>3. CASE Tab!Send
        <3>1. PICK act \in {"cancel", "input", "concede"} : Tab!Begin(act) /\ sending = Tab!Quiet
            BY <2>3, Zenon DEF Tab!Send, Tab!Command1, Tab!CanSend
        <3> QED BY <3>1, BeginFact DEF Tab!Acts
    <2> QED BY <2>1, <2>2, <2>3
<1>6. PageTyped'
    BY <1>1, <1>2, <1>4, <1>5 DEF ClientInv, PageTyped
<1>7. sending = Tab!Quiet => sending.at # "wait"
    BY Starts
<1> QED BY <1>1, <1>3, <1>4, <1>5, <1>6, <1>7 DEF
        ClientInv, PageMoves, PageTyped, TabKey, Bounded, Introduced

(* A session that failed or expired sends nothing; another one signs next. *)
LEMMA OnBind == ASSUME ClientInv, Tab!Bind PROVE PageMoves
<1>1. UNCHANGED <<duel, arena, flying, signedOnes, uncertain, tabKey, booting>>
    BY Zenon DEF Tab!Bind, Tab!server, Tab!chain, Tab!saved
<1>2. Tab!LaunchReady' = Tab!LaunchReady
    BY <1>1 DEF Tab!LaunchReady
<1>3. CASE Tab!Fails(Tab!Blocking)
    <2>1. Tab!Blocking \in BOOLEAN
        BY Zenon DEF Tab!Blocking
    <2> QED BY <1>1, <1>2, <1>3, <2>1, FailsFact
            DEF ClientInv, PageMoves, PageTyped, TabKey, Bounded, Introduced
<1>4. CASE ~Tab!Fails(Tab!Blocking)
    <2>1. /\ ~compact.failed /\ sending.at = "bind" /\ sending' = [sending EXCEPT !.at = "sign"]
          /\ pageState' = pageState
          /\ \E r \in BOOLEAN : compact' = [compact EXCEPT !.registered = r]
        <3>1. (compact.registered \/ (arena.bound = tabKey.id /\ compact.epoch = arena.epoch)) \in BOOLEAN
            BY Zenon
        <3> QED BY <1>4, <3>1, Zenon DEF Tab!Bind
    <2>2. compact' \in Compact
        BY <2>1, Zenon DEF ClientInv, PageTyped, Compact
    <2>3. compact'.nonce = compact.nonce /\ compact'.epoch = compact.epoch
        BY <2>1 DEF ClientInv, PageTyped, Compact
    <2>4. compact'.failed = compact.failed
        BY <2>1, Zenon DEF ClientInv, PageTyped, Compact
    <2>5. sending' \in Sending
        <3> HIDE DEF Signable
        <3> QED BY <2>1, Zenon DEF ClientInv, PageTyped, Sending
    <2>6. sending'.at = "sign" /\ sending'.act = sending.act
        <3> HIDE DEF Signable
        <3> QED BY <2>1 DEF ClientInv, PageTyped, Sending
    <2>7. ~compact'.failed
        BY <2>1, <2>4, Zenon
    <2>8. PageTyped'
        BY <1>1, <2>1, <2>2, <2>5 DEF ClientInv, PageTyped
    <2> QED BY <1>1, <1>2, <2>1, <2>3, <2>6, <2>7, <2>8
            DEF ClientInv, PageMoves, PageTyped, TabKey, Bounded, Introduced
<1> QED BY <1>3, <1>4

(* A refusal before the bytes leave, or no answer to them. *)
LEMMA OnFails == ASSUME ClientInv, Tab!SignRefused \/ Tab!AnswerLost PROVE PageMoves
<1>1. UNCHANGED <<duel, arena, flying, signedOnes, uncertain, tabKey, booting>> /\ Tab!Fails(Tab!Blocking)
    BY Zenon DEF Tab!SignRefused, Tab!AnswerLost, Tab!server, Tab!chain, Tab!saved
<1>2. Tab!LaunchReady' = Tab!LaunchReady
    BY <1>1 DEF Tab!LaunchReady
<1>3. Tab!Blocking \in BOOLEAN
    BY Zenon DEF Tab!Blocking
<1> QED BY <1>1, <1>2, <1>3, FailsFact
        DEF ClientInv, PageMoves, PageTyped, TabKey, Bounded, Introduced

(* The stored session, or a new key that has signed nothing. *)
LEMMA OnLogin == ASSUME ClientInv, Tab!Login PROVE PageMoves
<1>1. /\ UNCHANGED <<duel, arena, flying, signedOnes, uncertain, pageState, compact, sending>>
      /\ booting' = [Tab!Still EXCEPT !.by = "login", !.at = "session"]
      /\ \/ tabKey' = tabKey
         \/ /\ tabKey.used < MaxTabKey
            /\ tabKey' = [tabKey EXCEPT !.id = tabKey.used + 1, !.used = tabKey.used + 1, !.expired = FALSE]
    BY Zenon DEF Tab!Login, Tab!server, Tab!chain
<1>2. tabKey.used \in Nat /\ tabKey.used + 1 \in Nat /\ tabKey.id \in Nat
    BY DEF ClientInv, PageTyped, TabKey
<1>3. tabKey' \in TabKey
    BY <1>1, <1>2, Zenon DEF ClientInv, PageTyped, TabKey
<1>4. \/ tabKey' = tabKey
      \/ /\ tabKey.used + 1 <= MaxTabKey /\ tabKey'.id = tabKey.used + 1
         /\ tabKey'.used = tabKey.used + 1
    <2>1. CASE tabKey' = tabKey
        BY <2>1
    <2>2. CASE tabKey' # tabKey
        <3>1. /\ tabKey.used < MaxTabKey
              /\ tabKey' = [tabKey EXCEPT !.id = tabKey.used + 1, !.used = tabKey.used + 1, !.expired = FALSE]
            BY <1>1, <2>2, Zenon
        <3>2. tabKey'.id = tabKey.used + 1 /\ tabKey'.used = tabKey.used + 1
            BY <3>1 DEF ClientInv, PageTyped, TabKey
        <3>3. MaxTabKey \in Nat
            BY DEF ClientInv, Bounded
        <3> QED BY <1>2, <3>1, <3>2, <3>3
    <2> QED BY <2>1, <2>2
<1>5. booting' \in Booting
    BY <1>1, Starts, Zenon DEF Booting
<1>6. booting'.at = "session"
    BY <1>1 DEF Tab!Still
<1>7. Tab!LaunchReady' = Tab!LaunchReady
    BY <1>1 DEF Tab!LaunchReady
<1>8. PageTyped'
    BY <1>1, <1>3, <1>5 DEF ClientInv, PageTyped
<1> QED BY <1>1, <1>2, <1>4, <1>6, <1>7, <1>8 DEF
        ClientInv, PageMoves, PageTyped, TabKey, Bounded, Introduced

(* A row is retired with its epoch, or resolved by its receipt. *)
LEMMA OnRecoverRead == ASSUME ClientInv, Tab!RecoverRead PROVE PageMoves
<1>1. PICK r : /\ r = Tab!Retired(uncertain)
               /\ uncertain' = IF Tab!Receipt(r.cmd) THEN Tab!None ELSE r
               /\ UNCHANGED <<duel, arena, flying, signedOnes, tabKey, pageState, compact, sending>>
               /\ \E w \in {"session", "resend"} : booting' = [booting EXCEPT !.at = w]
    BY Zenon DEF Tab!RecoverRead, Tab!server, Tab!chain
<1>2. \/ uncertain' = uncertain
      \/ uncertain' = Tab!None /\ (Uncertain => Consumed(uncertain.cmd))
    <2>1. arena.epoch \in Nat
        BY DEF ClientInv, ChainTyped, Arena
    <2>2. CASE r = uncertain
        <3>1. Tab!Receipt(uncertain.cmd) => Consumed(uncertain.cmd)
            BY DEF Tab!Receipt, ClientInv, Bounded, Consumed
        <3> QED BY <1>1, <2>2, <3>1
    <2>3. CASE r # uncertain
        <3>1. r = Tab!None /\ uncertain.epoch < arena.epoch
            BY <1>1, <2>3 DEF Tab!Retired
        <3>2. uncertain.epoch # arena.epoch
            <4>1. uncertain.epoch \in Nat
                <5> HIDE DEF Signable
                <5> QED BY DEF ClientInv, ChainTyped, JournalRows, Tab!None
            <4> QED BY <2>1, <3>1, <4>1
        <3> QED BY <1>1, <3>1, <3>2 DEF Uncertain
    <2> QED BY <2>2, <2>3
<1>3. booting' \in Booting
    BY <1>1, Zenon DEF ClientInv, PageTyped, Booting
<1>4. booting'.at # "install"
    BY <1>1 DEF ClientInv, PageTyped, Booting
<1>5. Tab!LaunchReady' = Tab!LaunchReady
    BY <1>1 DEF Tab!LaunchReady
<1>6. PageTyped'
    BY <1>1, <1>3 DEF ClientInv, PageTyped
<1> QED BY <1>1, <1>2, <1>4, <1>5, <1>6 DEF
        ClientInv, PageMoves, PageTyped, TabKey, Bounded, Introduced

(* The page forgets its session; what was uncertain stays in the journal. *)
LEMMA DiscardMoves ==
    ASSUME ClientInv, Tab!Discarded, arena' = arena, signedOnes' = signedOnes, flying' = flying,
           duel' = duel,
           \/ uncertain' = uncertain
           \/ uncertain' = Tab!None /\ (Uncertain => Consumed(uncertain.cmd))
    PROVE  PageMoves
<1>1. /\ tabKey' = [tabKey EXCEPT !.id = 0, !.account = FALSE]
      /\ pageState' = [Tab!Closed EXCEPT !.open = TRUE]
      /\ compact' = Tab!NoSession /\ booting' = Tab!Still /\ sending' = Tab!Quiet
    BY Zenon DEF Tab!Discarded
<1>2. tabKey' \in TabKey
    <2>1. 0 \in Nat
        OBVIOUS
    <2> QED BY <1>1, <2>1, Zenon DEF ClientInv, PageTyped, TabKey
<1>3. tabKey'.id = 0 /\ tabKey'.used = tabKey.used
    BY <1>1 DEF ClientInv, PageTyped, TabKey
<1>4. pageState' \in PageState
    BY <1>1, Starts, Zenon DEF PageState
<1>5. ~pageState'.ready
    BY <1>1 DEF Tab!Closed
<1>6. PageTyped'
    BY <1>1, <1>2, <1>4, Starts DEF ClientInv, PageTyped
<1>7. Tab!LaunchReady' = Tab!LaunchReady
    BY DEF Tab!LaunchReady
<1>8. arena.epoch \in Nat
    BY DEF ClientInv, ChainTyped, Arena
<1> QED BY <1>1, <1>3, <1>5, <1>6, <1>7, <1>8, Starts
        DEF ClientInv, PageMoves, PageTyped, TabKey, Bounded, Introduced

(* disconnect revokes the key first, if the queue allows it. *)
LEMMA OnDisconnect == ASSUME ClientInv, Tab!Disconnect PROVE PageMoves
<1>1. /\ UNCHANGED <<duel, arena, flying, signedOnes, uncertain>>
      /\ pageState.ready /\ sending = Tab!Quiet
    BY Zenon DEF Tab!Disconnect, Tab!server, Tab!chain
<1>2. CASE Tab!Discarded
    BY <1>1, <1>2, DiscardMoves
<1>3. CASE ~Tab!Discarded
    <2>1. /\ sending' = [act |-> "revoke", at |-> "sign", cmd |-> Tab!None.cmd]
          /\ UNCHANGED <<tabKey, pageState, compact, booting>> /\ ~compact.failed
        BY <1>3, Zenon DEF Tab!Disconnect
    <2>2. sending' \in Sending
        <3>1. "revoke" \in Tab!Acts \cup {"none"} /\ "sign" \in {"idle", "bind", "sign", "wait"}
              /\ Tab!None.cmd \in Signable \cup {Tab!None.cmd}
            <4> HIDE DEF Signable, Tab!None
            <4> QED BY DEF Tab!Acts
        <3> QED BY <2>1, <3>1, Zenon DEF Sending
    <2>3. sending'.at = "sign" /\ sending'.act = "revoke"
        BY <2>1
    <2>4. Tab!LaunchReady' = Tab!LaunchReady
        BY <1>1 DEF Tab!LaunchReady
    <2>5. PageTyped'
        BY <1>1, <2>1, <2>2 DEF ClientInv, PageTyped
    <2> QED BY <1>1, <2>1, <2>3, <2>4, <2>5, Starts
            DEF ClientInv, PageMoves, PageTyped, TabKey, Bounded, Introduced
<1> QED BY <1>2, <1>3

(* The session goes, whatever became of its revocation. *)
LEMMA OnDisconnectEnds == ASSUME ClientInv, Tab!DisconnectEnds PROVE PageMoves
<1>1. PICK answered \in BOOLEAN :
        /\ answered => Tab!Receipt(sending.cmd)
        /\ uncertain' = IF answered /\ uncertain.cmd = sending.cmd THEN Tab!None ELSE uncertain
    BY Zenon DEF Tab!DisconnectEnds
<1>2. \/ uncertain' = uncertain
      \/ uncertain' = Tab!None /\ (Uncertain => Consumed(uncertain.cmd))
    <2>1. Tab!Receipt(sending.cmd) => Consumed(sending.cmd)
        BY DEF Tab!Receipt, ClientInv, Bounded, Consumed
    <2> QED BY <1>1, <2>1
<1>3. UNCHANGED <<duel, arena, flying, signedOnes>> /\ Tab!Discarded
    BY Zenon DEF Tab!DisconnectEnds, Tab!server, Tab!chain
<1> QED BY <1>2, <1>3, DiscardMoves

(* The receipt of the command in flight: its nonce is consumed, and the session goes *)
(* on behind it.                                                                     *)
LEMMA OnAnswered == ASSUME ClientInv, Tab!Answered PROVE PageMoves
<1>1. PICK x \in arena.receipts :
        /\ x.cmd = sending.cmd
        /\ uncertain' = IF uncertain.cmd = sending.cmd THEN Tab!None ELSE uncertain
        /\ \/ compact' = compact /\ compact.nonce = -1
           \/ /\ compact.nonce # -1
              /\ \E r \in BOOLEAN : compact' = [compact EXCEPT !.nonce = @ + 1, !.registered = r]
        /\ \/ /\ compact.nonce # -1
              /\ sending' = [sending EXCEPT !.at = "sign", !.cmd = Tab!None.cmd]
              /\ pageState' = pageState
           \/ /\ sending' = Tab!Quiet
              /\ \E a, b \in BOOLEAN : pageState' = [pageState EXCEPT !.blocked = a, !.issue = b]
    <2>1. \A p, q : (p \/ q) \in BOOLEAN
        BY Zenon
    <2> QED BY <2>1, Zenon DEF Tab!Answered
<1>2. UNCHANGED <<duel, arena, flying, signedOnes, tabKey, booting>> /\ sending.at = "wait"
    BY Zenon DEF Tab!Answered, Tab!server, Tab!chain
<1>3. \/ uncertain' = uncertain
      \/ uncertain' = Tab!None /\ (Uncertain => Consumed(uncertain.cmd))
    <2>1. Consumed(sending.cmd)
        BY <1>1 DEF ClientInv, Bounded, Consumed
    <2> QED BY <1>1, <2>1
<1>4. compact' \in Compact
    <2>1. compact.nonce + 1 \in Int
        BY DEF ClientInv, PageTyped, Compact
    <2> QED BY <1>1, <2>1, Zenon DEF ClientInv, PageTyped, Compact
<1>5. compact'.epoch = compact.epoch /\ compact'.failed = compact.failed
    <2>1. compact'.failed = compact.failed
        BY <1>1, Zenon DEF ClientInv, PageTyped, Compact
    <2>2. compact'.epoch = compact.epoch
        BY <1>1 DEF ClientInv, PageTyped, Compact
    <2> QED BY <2>1, <2>2
<1>6. \/ compact'.nonce = -1
      \/ compact'.nonce = compact.nonce + 1 /\ compact.nonce # -1
    BY <1>1 DEF ClientInv, PageTyped, Compact
<1>7. sending' \in Sending
    <2> HIDE DEF Signable, Tab!Quiet, Tab!None
    <2> QED BY <1>1, Starts, Zenon DEF ClientInv, PageTyped, Sending
<1>8. \/ sending'.at = "idle" /\ sending'.act = "none"
      \/ sending'.at = "sign" /\ sending'.act = sending.act
    <2>1. CASE sending' = Tab!Quiet
        BY <2>1, Starts
    <2>2. CASE sending' = [sending EXCEPT !.at = "sign", !.cmd = Tab!None.cmd]
        <3> HIDE DEF Signable, Tab!None
        <3> QED BY <2>2 DEF ClientInv, PageTyped, Sending
    <2> QED BY <1>1, <2>1, <2>2
<1>9. pageState' \in PageState
    BY <1>1, Zenon DEF ClientInv, PageTyped, PageState
<1>10. pageState'.ready = pageState.ready
    BY <1>1 DEF ClientInv, PageTyped, PageState
<1>11. Tab!LaunchReady' = Tab!LaunchReady
    BY <1>2 DEF Tab!LaunchReady
<1>12. PageTyped'
    BY <1>2, <1>4, <1>7, <1>9 DEF ClientInv, PageTyped
<1>13. ~compact'.failed /\ (compact.failed => compact'.failed)
    BY <1>2, <1>5 DEF ClientInv, Bounded
<1> HIDE DEF Tab!Answered
<1> QED BY <1>2, <1>3, <1>5, <1>6, <1>8, <1>10, <1>11, <1>12, <1>13
        DEF ClientInv, PageMoves, PageTyped, TabKey, Bounded, Introduced

(* The engine goes on: nonces and receipts grow, and what it knows of the consents is *)
(* kept or was given after the introduction.                                          *)
ChainMoves ==
  /\ UNCHANGED <<duel, signedOnes, tabKey, pageState, compact>>
  /\ arena' \in Arena /\ arena'.epoch = arena.epoch
  /\ \A k \in Tab!Keys : arena'.count[k] >= arena.count[k]
  /\ \A x \in arena'.receipts : x \in arena.receipts \/ Consumed(x.cmd)'
  /\ "me" \in arena'.consents => Tab!LaunchReady
  /\ \A c \in flying' : c \in flying
  /\ \/ uncertain' = uncertain
     \/ uncertain' = Tab!None /\ (\A c : c = uncertain.cmd => Consumed(c)')
  /\ sending' = sending
  /\ booting' \in Booting /\ (booting'.at = "install" => booting.at = "install")

(* What a step of the engine leaves in place. *)
LEMMA ChainKept == ASSUME ClientInv, ChainMoves PROVE ClientInv'
<1>1. /\ UNCHANGED <<duel, signedOnes, tabKey, pageState, compact, sending>>
      /\ arena' \in Arena /\ arena'.epoch = arena.epoch
      /\ \A k \in Tab!Keys : arena'.count[k] >= arena.count[k]
    BY DEF ChainMoves
<1>2. /\ \A k \in Tab!Keys : arena.count[k] \in Nat /\ arena'.count[k] \in Nat
      /\ arena.receipts \in SUBSET Answers
    <2> HIDE DEF Answers
    <2> QED BY <1>1 DEF ClientInv, ChainTyped, Arena
<1>3. \A c \in Signable : c.nonce \in Nat /\ c.key \in Tab!Keys /\ (Consumed(c) => Consumed(c)')
    BY <1>1, <1>2 DEF Signable, Consumed
<1>4. PageTyped' /\ Tab!LaunchReady' = Tab!LaunchReady
    BY <1>1 DEF ClientInv, PageTyped, ChainMoves, Tab!LaunchReady
<1>5. ChainTyped'
    <2> HIDE DEF Signable, Arena
    <2> QED BY <1>1 DEF ClientInv, ChainTyped, ChainMoves
<1>6. Bounded'
    <2>1. \A x \in arena.receipts : Consumed(x.cmd) /\ x.cmd \in Signable
        BY <1>2 DEF ClientInv, Bounded, Answers
    <2>2. (\A x \in arena.receipts : Consumed(x.cmd))'
        <3>1. ASSUME NEW x \in arena'.receipts PROVE Consumed(x.cmd)'
            BY <1>3, <2>1 DEF ChainMoves
        <3> QED BY <3>1
    <2>3. uncertain' # Tab!None => uncertain' = uncertain
        BY DEF ChainMoves
    <2>4. booting'.at = "install" => booting.at = "install"
        BY DEF ChainMoves
    <2> QED BY <1>1, <2>2, <2>3, <2>4 DEF ClientInv, Bounded
<1>7. NoncesFollow'
    <2>1. ASSUME NEW e \in signedOnes, Present(e)
          PROVE  Consumed(e.cmd)' \/ (uncertain'.cmd = e.cmd /\ uncertain'.epoch = arena'.epoch)
        <3>1. e.cmd \in Signable /\ e.cmd.key # 0
            BY DEF ClientInv, ChainTyped, Signable, Tab!Keys
        <3>2. CASE Consumed(e.cmd)
            BY <1>3, <3>1, <3>2
        <3>3. CASE uncertain.cmd = e.cmd /\ uncertain.epoch = arena.epoch
            <4>2. CASE uncertain' = uncertain
                BY <1>1, <3>3, <4>2
            <4>3. CASE Consumed(e.cmd)'
                BY <4>3
            <4> QED BY <3>3, <4>2, <4>3 DEF ChainMoves
        <3> QED BY <2>1, <3>2, <3>3 DEF ClientInv, NoncesFollow
    <2>2. \A e \in signedOnes : Present(e)' <=> Present(e)
        BY <1>1 DEF Present
    <2> QED BY <1>1, <2>1, <2>2 DEF ClientInv, NoncesFollow
<1>8. Introduced'
    <2>1. \A c : ByLaunch(c) <=> ByLaunch(c)'
        BY <1>4 DEF ByLaunch
    <2>2. Uncertain' => Uncertain /\ uncertain' = uncertain
        BY <1>1 DEF ChainMoves, Uncertain
    <2>3. (\A c \in flying : ByLaunch(c))'
        <3>1. ASSUME NEW c \in flying' PROVE ByLaunch(c)'
            BY <2>1 DEF ChainMoves, ClientInv, Introduced
        <3> QED BY <3>1
    <2>4. (Uncertain => ByLaunch(uncertain.cmd))'
        <3> SUFFICES ASSUME Uncertain', NEW c, c = uncertain'.cmd PROVE ByLaunch(c)'
            OBVIOUS
        <3> QED BY <2>1, <2>2 DEF ClientInv, Introduced
    <2>5. Tab!ConsentAfterIntro'
        BY <1>4 DEF ChainMoves, Tab!ConsentAfterIntro
    <2> QED BY <1>1, <1>4, <2>3, <2>4, <2>5 DEF ClientInv, Introduced
<1>9. Tab!NonceSignedOnce'
    BY <1>1 DEF ClientInv, Tab!NonceSignedOnce, Tab!Replaced
<1> QED BY <1>4, <1>5, <1>6, <1>7, <1>8, <1>9 DEF ClientInv

(* Executing a command consumes its nonce, whatever it does. *)
LEMMA ExecutedFact ==
    ASSUME ClientInv, NEW c \in Signable, c.nonce = arena.count[c.key], ByLaunch(c),
           arena' = Tab!Executed(c)
    PROVE  /\ arena' \in Arena /\ arena'.epoch = arena.epoch
           /\ \A k \in Tab!Keys : arena'.count[k] >= arena.count[k]
           /\ \A x \in arena'.receipts : x \in arena.receipts \/ Consumed(x.cmd)'
           /\ "me" \in arena'.consents => Tab!LaunchReady
           /\ Consumed(c)'
<1>1. /\ arena \in Arena /\ c.key \in Tab!Keys /\ c.key \in Nat /\ c.act \in Tab!Acts
      /\ arena.count \in [Tab!Keys -> Nat] /\ arena.receipts \in SUBSET Answers
      /\ arena.consents \in SUBSET Tab!Sides
    BY DEF ClientInv, ChainTyped, Arena, Signable, Tab!Keys
<1> DEFINE mid == IF Tab!Permitted(c) THEN Tab!Effect(c) ELSE arena
           new == [cmd |-> c, ok |-> Tab!Permitted(c)]
<1>2. /\ mid \in Arena /\ mid.epoch = arena.epoch /\ mid.count = arena.count
      /\ mid.receipts = arena.receipts
      /\ "me" \in mid.consents => "me" \in arena.consents \/ c.act = "accept"
    <2>1. \/ mid = arena
          \/ \E b \in {c.key, 0} : mid = [arena EXCEPT !.bound = b]
          \/ /\ c.act = "accept"
             /\ \E p \in {1, 2} : mid = [arena EXCEPT !.consents = @ \cup {"me"}, !.phase = p]
          \/ mid = [arena EXCEPT !.phase = 3]
        BY Zenon DEF Tab!Effect
    <2> HIDE DEF mid
    <2>2. c.key \in Nat /\ 0 \in Nat /\ 1 \in Nat /\ 2 \in Nat /\ 3 \in Nat
          /\ arena.consents \cup {"me"} \in SUBSET Tab!Sides
        BY <1>1 DEF Tab!Sides
    <2>3. mid \in Arena
        <3> HIDE DEF Answers
        <3> QED BY <1>1, <2>1, <2>2, Zenon DEF Arena
    <2>4. /\ mid.epoch = arena.epoch /\ mid.count = arena.count /\ mid.receipts = arena.receipts
          /\ "me" \in mid.consents => "me" \in arena.consents \/ c.act = "accept"
        <3> HIDE DEF Answers
        <3> QED BY <1>1, <2>1 DEF Arena
    <2> QED BY <2>3, <2>4
<1>3. arena' = [mid EXCEPT !.count = [mid.count EXCEPT ![c.key] = @ + 1],
                           !.receipts = mid.receipts \cup {new}]
    BY Zenon DEF Tab!Executed
<1>4. new \in Answers /\ new.cmd = c
    <2>1. Tab!Permitted(c) \in BOOLEAN
        BY Zenon DEF Tab!Permitted
    <2>2. new \in Answers
        BY <2>1, Zenon DEF Answers
    <2> QED BY <2>2
<1> HIDE DEF mid, new
<1> DEFINE count == [mid.count EXCEPT ![c.key] = @ + 1]
           receipts == mid.receipts \cup {new}
<1>5. count \in [Tab!Keys -> Nat] /\ receipts \in SUBSET Answers
      /\ count[c.key] = arena.count[c.key] + 1 /\ \A k \in Tab!Keys : k # c.key => count[k] = arena.count[k]
    BY <1>1, <1>2, <1>4
<1>6. arena' = [mid EXCEPT !.count = count, !.receipts = receipts]
    BY <1>3, Zenon
<1> HIDE DEF count, receipts
<1>7. arena' \in Arena
    <2> HIDE DEF Answers
    <2> QED BY <1>2, <1>5, <1>6, Zenon DEF Arena
<1>8. arena'.epoch = mid.epoch /\ arena'.count = count /\ arena'.receipts = receipts
      /\ arena'.consents = mid.consents
    <2> HIDE DEF Answers
    <2> QED BY <1>2, <1>6 DEF Arena
<1>9. arena.count[c.key] \in Nat
    BY <1>1
<1>10. Consumed(c)'
    BY <1>5, <1>8, <1>9 DEF Consumed
<1>11. ASSUME NEW x \in arena'.receipts PROVE x \in arena.receipts \/ Consumed(x.cmd)'
    <2>1. x \in arena.receipts \/ x = new
        BY <1>2, <1>8, <1>11 DEF receipts
    <2> QED BY <1>4, <1>10, <2>1
<1>12. \A k \in Tab!Keys : arena'.count[k] >= arena.count[k]
    BY <1>1, <1>5, <1>8
<1>13. "me" \in arena'.consents => Tab!LaunchReady
    BY <1>2, <1>8 DEF ByLaunch, ClientInv, Introduced, Tab!ConsentAfterIntro
<1> QED BY <1>2, <1>7, <1>8, <1>10, <1>11, <1>12, <1>13

(* A command on the wire is executed when its turn comes. *)
LEMMA OnExecute == ASSUME ClientInv, Tab!Execute PROVE ClientInv'
<1>1. PICK c \in flying : c.nonce = arena.count[c.key] /\ arena' = Tab!Executed(c) /\ flying' = flying \ {c}
    BY Zenon DEF Tab!Execute, Tab!Executable
<1>2. UNCHANGED <<duel, signedOnes, uncertain, tabKey, pageState, compact, sending, booting>>
    BY Zenon DEF Tab!Execute, Tab!server, Tab!saved, Tab!page
<1>3. c \in Signable /\ ByLaunch(c)
    BY DEF ClientInv, ChainTyped, Introduced
<1>4. booting \in Booting /\ \A x \in flying' : x \in flying
    BY <1>1 DEF ClientInv, PageTyped
<1>5. ChainMoves
    BY <1>1, <1>2, <1>3, <1>4, ExecutedFact DEF ChainMoves
<1> QED BY <1>5, ChainKept

(* Recovery sends the same bytes again. *)
LEMMA OnResend == ASSUME ClientInv, Tab!Resend PROVE ClientInv'
<1>1. /\ UNCHANGED <<duel, signedOnes, tabKey, pageState, compact, sending, flying>>
      /\ uncertain' = Tab!None /\ booting' = [booting EXCEPT !.at = "session"] /\ Tab!MayResend
      /\ \/ uncertain.cmd.nonce = arena.count[uncertain.cmd.key] /\ arena' = Tab!Executed(uncertain.cmd)
         \/ Tab!Receipt(uncertain.cmd) /\ arena' = arena
    BY Zenon DEF Tab!Resend, Tab!server, Tab!Executable
<1>2. PICK c : c = uncertain.cmd
    OBVIOUS
<1>3. c \in Signable /\ ByLaunch(c) /\ Uncertain
    <2> HIDE DEF Signable
    <2> QED BY <1>1, <1>2 DEF
        ClientInv, ChainTyped, Introduced, Uncertain, Tab!MayResend, JournalRows
<1>4. booting' \in Booting /\ booting'.at = "session"
    <2>1. booting' \in Booting
        BY <1>1, Zenon DEF ClientInv, PageTyped, Booting
    <2>2. booting'.at = "session"
        BY <1>1 DEF ClientInv, PageTyped, Booting
    <2> QED BY <2>1, <2>2
<1>5. /\ arena' \in Arena /\ arena'.epoch = arena.epoch
      /\ \A k \in Tab!Keys : arena'.count[k] >= arena.count[k]
      /\ \A x \in arena'.receipts : x \in arena.receipts \/ Consumed(x.cmd)'
      /\ "me" \in arena'.consents => Tab!LaunchReady
      /\ Consumed(c)'
    <2>1. CASE c.nonce = arena.count[c.key] /\ arena' = Tab!Executed(c)
        BY <1>3, <2>1, ExecutedFact
    <2>2. CASE Tab!Receipt(c) /\ arena' = arena
        <3>1. Consumed(c)
            BY <2>2 DEF Tab!Receipt, ClientInv, Bounded, Consumed
        <3>2. \A k \in Tab!Keys : arena.count[k] >= arena.count[k]
            <4> HIDE DEF Answers
            <4> QED BY DEF ClientInv, ChainTyped, Arena
        <3> HIDE DEF Arena
        <3> QED BY <2>2, <3>1, <3>2 DEF
        ClientInv, ChainTyped, Consumed, Introduced, Tab!ConsentAfterIntro
    <2> QED BY <1>1, <1>2, <2>1, <2>2
<1>7. ChainMoves
    BY <1>1, <1>2, <1>4, <1>5 DEF ChainMoves
<1> QED BY <1>7, ChainKept

(* The rival consents, and the match ends. *)
LEMMA OnMatch == ASSUME ClientInv, Tab!RivalAccepts \/ Tab!MatchEnds PROVE ClientInv'
<1>1. /\ UNCHANGED <<duel, flying, signedOnes, uncertain, tabKey, pageState, compact, sending, booting>>
      /\ \/ arena' = [arena EXCEPT !.phase = 3]
         \/ \E p \in {1, 2} : arena' = [arena EXCEPT !.consents = @ \cup {"rival"}, !.phase = p]
    BY Zenon DEF Tab!RivalAccepts, Tab!MatchEnds, Tab!server, Tab!saved, Tab!page
<1>2. arena \in Arena /\ arena.consents \cup {"rival"} \in SUBSET Tab!Sides
      /\ 1 \in Nat /\ 2 \in Nat /\ 3 \in Nat
    <2> HIDE DEF Answers
    <2> QED BY DEF ClientInv, ChainTyped, Arena, Tab!Sides
<1>3. arena' \in Arena
    <2> HIDE DEF Answers
    <2> QED BY <1>1, <1>2, Zenon DEF Arena
<1>4. /\ arena'.epoch = arena.epoch /\ arena'.count = arena.count /\ arena'.receipts = arena.receipts
      /\ ("me" \in arena'.consents => "me" \in arena.consents)
    <2> HIDE DEF Answers
    <2>1. CASE arena' = [arena EXCEPT !.phase = 3]
        BY <2>1, <1>2 DEF Arena
    <2>2. ASSUME NEW p \in {1, 2},
                 arena' = [arena EXCEPT !.consents = @ \cup {"rival"}, !.phase = p]
          PROVE  /\ arena'.epoch = arena.epoch /\ arena'.count = arena.count
                 /\ arena'.receipts = arena.receipts
                 /\ ("me" \in arena'.consents => "me" \in arena.consents)
        BY <2>2, <1>2 DEF Arena
    <2> QED BY <1>1, <2>1, <2>2
<1>5. \A k \in Tab!Keys : arena.count[k] \in Nat
    <2> HIDE DEF Answers
    <2> QED BY <1>2 DEF Arena
<1>6. booting \in Booting
    BY DEF ClientInv, PageTyped
<1> HIDE DEF Arena
<1>7. ChainMoves
    BY <1>1, <1>3, <1>4, <1>5, <1>6 DEF ChainMoves, ClientInv, Introduced, Tab!ConsentAfterIntro
<1> QED BY <1>7, ChainKept

(* A new epoch knows nothing of the old one, and nothing of it is on the wire. *)
LEMMA OnRenewal == ASSUME ClientInv, Tab!Renewal PROVE ClientInv'
<1>1. PICK count \in {arena.count, [k \in Tab!Keys |-> 0]} :
        arena' = [arena EXCEPT !.epoch = @ + 1, !.count = count, !.bound = 0,
                               !.receipts = {}, !.consents = {}, !.phase = 0]
    BY Zenon DEF Tab!Renewal
<1>2. /\ UNCHANGED <<signedOnes, uncertain, tabKey, compact, sending, booting>>
      /\ duel' = Tab!NewOffer /\ flying' = {} /\ sending = Tab!Quiet
      /\ pageState' = [pageState EXCEPT !.launched = FALSE, !.issue = FALSE]
    BY Zenon DEF Tab!Renewal, Tab!saved
<1>3. /\ arena \in Arena /\ arena.epoch \in Nat /\ arena.epoch + 1 \in Nat /\ 0 \in Nat
      /\ count \in [Tab!Keys -> Nat] /\ {} \in SUBSET Answers /\ {} \in SUBSET Tab!Sides
    <2> HIDE DEF Answers
    <2> QED BY DEF ClientInv, ChainTyped, Arena
<1>4. arena' \in Arena
    <2> HIDE DEF Answers
    <2> QED BY <1>1, <1>3, Zenon DEF Arena
<1>5. arena'.epoch = arena.epoch + 1 /\ arena'.receipts = {} /\ arena'.consents = {}
    <2> HIDE DEF Answers
    <2> QED BY <1>1, <1>3 DEF Arena
<1>6. pageState' \in PageState
    BY <1>2, Zenon DEF ClientInv, PageTyped, PageState
<1>7. pageState'.ready = pageState.ready
    BY <1>2 DEF ClientInv, PageTyped, PageState
<1>8. PageTyped'
    BY <1>2, <1>6, Starts DEF ClientInv, PageTyped
<1>9. ChainTyped'
    <2> HIDE DEF Arena, Signable
    <2> QED BY <1>2, <1>4 DEF ClientInv, ChainTyped
<1>10. /\ \A e \in signedOnes : e.to \in Nat /\ e.epoch \in Nat /\ e.to <= arena.epoch /\ e.epoch <= arena.epoch
       /\ uncertain # Tab!None => uncertain.epoch \in Nat /\ uncertain.epoch <= arena.epoch
       /\ compact.epoch \in Nat /\ compact.epoch <= arena.epoch
    <2> HIDE DEF Signable
    <2> QED BY DEF ClientInv, ChainTyped, PageTyped, Bounded, Compact, JournalRows
<1>11. Bounded'
    BY <1>2, <1>3, <1>5, <1>7, <1>10, Starts DEF ClientInv, Bounded
<1>12. NoncesFollow'
    <2>1. \A e \in signedOnes : ~Present(e)'
        BY <1>3, <1>5, <1>10 DEF Present
    <2> QED BY <1>2, <2>1 DEF NoncesFollow
<1>13. Introduced'
    <2>1. ~Uncertain'
        BY <1>2, <1>3, <1>5, <1>10 DEF Uncertain
    <2>2. sending.act # "accept"
        BY <1>2, Starts
    <2> QED BY <1>2, <1>5, <2>1, <2>2 DEF Introduced, Tab!ConsentAfterIntro
<1>14. Tab!NonceSignedOnce'
    BY <1>2 DEF ClientInv, Tab!NonceSignedOnce, Tab!Replaced
<1> QED BY <1>8, <1>9, <1>11, <1>12, <1>13, <1>14 DEF ClientInv

(* Nothing is signed over an uncertain command, so the nonce that is signed is past *)
(* every one of this key and epoch that went out.                                   *)
LEMMA OnSign == ASSUME ClientInv, Tab!Sign PROVE ClientInv'
<1>1. CASE Tab!MayJournal
    <2>1. PICK c : c = Tab!Signed
        OBVIOUS
    <2>2. PICK e : e = [cmd |-> c, epoch |-> compact.epoch, to |-> arena.epoch]
        OBVIOUS
    <2>3. /\ uncertain' = [cmd |-> c, epoch |-> compact.epoch] /\ flying' = flying \cup {c}
          /\ signedOnes' = signedOnes \cup {e}
          /\ compact' = [compact EXCEPT !.nonce = c.nonce]
          /\ sending' = [sending EXCEPT !.at = "wait", !.cmd = c]
          /\ UNCHANGED <<duel, arena, tabKey, pageState, booting>>
          /\ uncertain = Tab!None /\ sending.at = "sign"
        BY <1>1, <2>1, <2>2, Zenon DEF Tab!Sign, Tab!MayJournal, Tab!server
    <2>4. /\ arena.epoch \in Nat /\ compact.epoch \in Nat /\ compact.nonce \in Int /\ compact.nonce >= -1
          /\ tabKey.id \in Tab!Keys /\ arena.count[tabKey.id] \in Nat /\ compact.epoch <= arena.epoch
          /\ sending.act \in Tab!Acts /\ ~compact.failed /\ tabKey.id <= tabKey.used
        <3>1. tabKey.id \in Tab!Keys
            BY <2>3 DEF ClientInv, PageTyped, TabKey, Bounded, Tab!Keys
        <3>2. arena.epoch \in Nat /\ arena.count \in [Tab!Keys -> Nat]
            <4> HIDE DEF Answers
            <4> QED BY DEF ClientInv, ChainTyped, Arena
        <3>3. sending.act \in Tab!Acts
            <4> HIDE DEF Signable, Tab!Acts
            <4> QED BY <2>3 DEF ClientInv, PageTyped, Bounded, Sending
        <3> QED BY <2>3, <3>1, <3>2, <3>3 DEF ClientInv, PageTyped, Bounded, Compact
    <2>5. /\ c.key = tabKey.id
          /\ c.nonce = IF compact.nonce = -1 THEN arena.count[tabKey.id] ELSE compact.nonce
          /\ c.act = "register" \/ c.act = sending.act
        BY <2>1 DEF Tab!Signed
    <2>6. c \in Signable
        <3>1. PICK n, a : c = [key |-> tabKey.id, nonce |-> n, act |-> a]
                          /\ (a = "register" \/ a = sending.act)
            BY <2>1, Zenon DEF Tab!Signed
        <3>2. n \in Nat /\ a \in Tab!Acts
            BY <2>4, <2>5, <3>1 DEF Tab!Acts
        <3> QED BY <2>4, <3>1, <3>2, Zenon DEF Signable
    <2>7. e.cmd = c /\ e.epoch = compact.epoch /\ e.to = arena.epoch
          /\ e \in [cmd : Signable, epoch : Nat, to : Nat]
        <3> HIDE DEF Signable
        <3> QED BY <2>2, <2>4, <2>6
    <2>8. uncertain'.cmd = c /\ uncertain'.epoch = compact.epoch /\ uncertain' \in JournalRows
        <3> HIDE DEF Signable
        <3> QED BY <2>3, <2>4, <2>6 DEF JournalRows
    <2>9. compact' \in Compact /\ compact'.nonce = c.nonce /\ compact'.epoch = compact.epoch
          /\ compact'.failed = compact.failed
        <3>1. c.nonce \in Int
            BY <2>6 DEF Signable
        <3>2. compact' \in Compact /\ compact'.failed = compact.failed
            BY <2>3, <3>1, Zenon DEF ClientInv, PageTyped, Compact
        <3>3. compact'.nonce = c.nonce /\ compact'.epoch = compact.epoch
            BY <2>3 DEF ClientInv, PageTyped, Compact
        <3> QED BY <3>2, <3>3
    <2>10. sending' \in Sending /\ sending'.at = "wait" /\ sending'.act = sending.act
        <3> HIDE DEF Signable
        <3>1. sending' \in Sending
            BY <2>3, <2>6, Zenon DEF ClientInv, PageTyped, Sending
        <3>2. sending'.at = "wait" /\ sending'.act = sending.act
            BY <2>3 DEF ClientInv, PageTyped, Sending
        <3> QED BY <3>1, <3>2
    \* What went out before under this key and epoch has a lower nonce.
    <2>11. ASSUME NEW d \in signedOnes, Present(d), d.cmd.key = tabKey.id, compact.epoch = arena.epoch
           PROVE  d.cmd.nonce < c.nonce
        <3>1. d.cmd \in Signable /\ d.cmd.key # 0 /\ d.cmd.nonce \in Nat
            BY DEF ClientInv, ChainTyped, Signable, Tab!Keys
        <3>2. Consumed(d.cmd)
            <4>1. uncertain.cmd.key = 0
                BY <2>3 DEF Tab!None
            <4> QED BY <2>11, <3>1, <4>1 DEF ClientInv, NoncesFollow
        <3>3. CASE compact.nonce = -1
            BY <2>5, <2>11, <3>2, <3>3 DEF Consumed
        <3>4. CASE compact.nonce # -1
            BY <2>3, <2>4, <2>5, <2>11, <3>4 DEF ClientInv, NoncesFollow
        <3> QED BY <3>3, <3>4
    <2>12. PageTyped' /\ Tab!LaunchReady' = Tab!LaunchReady
        BY <2>3, <2>9, <2>10 DEF ClientInv, PageTyped, Tab!LaunchReady
    <2>13. ChainTyped'
        <3> HIDE DEF Signable, Arena
        <3> QED BY <2>3, <2>6, <2>7, <2>8 DEF ClientInv, ChainTyped
    <2>14. Bounded'
        <3>1. c.key <= tabKey.used /\ c.nonce \in Nat
            BY <2>4, <2>5, <2>6 DEF Signable
        <3>2. \A d \in signedOnes' : d.epoch <= arena.epoch /\ d.to <= arena.epoch /\ d.cmd.key <= tabKey.used
            BY <2>3, <2>4, <2>7, <3>1 DEF ClientInv, Bounded
        <3>3. \A x \in arena.receipts : Consumed(x.cmd)' <=> Consumed(x.cmd)
            BY <2>3 DEF Consumed
        <3>4. compact'.nonce >= -1 /\ sending'.act # "none"
            BY <2>4, <2>9, <2>10, <3>1 DEF Tab!Acts
        <3> QED BY <2>3, <2>4, <2>8, <2>9, <2>10, <3>2, <3>3, <3>4 DEF ClientInv, Bounded
    <2>15. NoncesFollow'
        <3>1. \A d : (Present(d)' <=> Present(d)) /\ (Consumed(d.cmd)' <=> Consumed(d.cmd))
            BY <2>3 DEF Present, Consumed
        <3>2. ASSUME NEW d \in signedOnes', Present(d)
              PROVE  Consumed(d.cmd) \/ (uncertain'.cmd = d.cmd /\ uncertain'.epoch = arena.epoch)
            <4>1. CASE d = e
                BY <2>7, <2>8, <3>2, <4>1 DEF Present
            <4>2. CASE d \in signedOnes
                <5>1. uncertain.cmd.key = 0 /\ d.cmd.key # 0
                    BY <2>3, <4>2 DEF Tab!None, ClientInv, ChainTyped, Signable, Tab!Keys
                <5> QED BY <3>2, <4>2, <5>1 DEF ClientInv, NoncesFollow
            <4> QED BY <2>3, <4>1, <4>2
        <3>3. ASSUME compact'.epoch = arena.epoch, NEW d \in signedOnes', Present(d), d.cmd.key = tabKey.id
              PROVE  d.cmd.nonce <= compact'.nonce
            <4>1. c.nonce \in Nat
                BY <2>6 DEF Signable
            <4>2. CASE d = e
                BY <2>7, <2>9, <4>1, <4>2
            <4>3. CASE d \in signedOnes
                <5>1. d.cmd.nonce \in Nat
                    BY <4>3 DEF ClientInv, ChainTyped, Signable
                <5> QED BY <2>9, <2>11, <3>3, <4>1, <4>3, <5>1
            <4> QED BY <2>3, <4>2, <4>3
        <3> QED BY <2>3, <2>10, <3>1, <3>2, <3>3 DEF NoncesFollow
    <2>16. Introduced'
        <3>1. \A d : ByLaunch(d)' <=> ByLaunch(d)
            BY <2>12 DEF ByLaunch
        <3>2. ByLaunch(c)
            BY <2>5 DEF ByLaunch, ClientInv, Introduced
        <3>3. (\A d \in flying : ByLaunch(d))'
            <4>1. ASSUME NEW d \in flying' PROVE ByLaunch(d)'
                BY <2>3, <3>1, <3>2 DEF ClientInv, Introduced
            <4> QED BY <4>1
        <3>4. (Uncertain => ByLaunch(uncertain.cmd))'
            <4> SUFFICES ASSUME NEW d, d = uncertain'.cmd PROVE ByLaunch(d)'
                OBVIOUS
            <4> QED BY <2>8, <3>1, <3>2
        <3> QED BY <2>3, <2>10, <2>12, <3>3, <3>4 DEF ClientInv, Introduced, Tab!ConsentAfterIntro
    <2>17. Tab!NonceSignedOnce'
        <3> SUFFICES ASSUME NEW a \in signedOnes', NEW b \in signedOnes', Tab!Replaced(a, b),
                            a.to = a.epoch, b.to = b.epoch
                     PROVE  FALSE
            BY DEF Tab!NonceSignedOnce
        <3>1. a.cmd.act # b.cmd.act /\ a.cmd.key = b.cmd.key /\ a.cmd.nonce = b.cmd.nonce /\ a.to = b.to
            BY DEF Tab!Replaced
        <3>2. ASSUME NEW d \in signedOnes, d.to = d.epoch, d.to = e.to, e.to = e.epoch,
                     d.cmd.key = e.cmd.key, d.cmd.nonce = e.cmd.nonce
              PROVE  FALSE
            <4>1. c.nonce \in Nat
                BY <2>6 DEF Signable
            <4>2. d.cmd.key = tabKey.id /\ compact.epoch = arena.epoch /\ d.cmd.nonce = c.nonce
                BY <2>5, <2>7, <3>2
            <4>3. Present(d)
                BY <2>7, <3>2, <4>2 DEF Present
            <4>4. d.cmd.nonce < c.nonce
                BY <2>11, <4>2, <4>3
            <4> HIDE DEF Signable
            <4> QED BY <4>1, <4>2, <4>4
        <3>3. CASE a \in signedOnes /\ b \in signedOnes
            BY <3>3 DEF ClientInv, Tab!NonceSignedOnce
        <3>4. CASE a = e /\ b = e
            BY <3>1, <3>4
        <3>5. CASE a = e /\ b \in signedOnes
            BY <3>1, <3>2, <3>5
        <3>6. CASE b = e /\ a \in signedOnes
            BY <3>1, <3>2, <3>6
        <3> QED BY <2>3, <3>3, <3>4, <3>5, <3>6
    <2> QED BY <2>12, <2>13, <2>14, <2>15, <2>16, <2>17 DEF ClientInv
<1>2. CASE ~Tab!MayJournal
    <2>1. UNCHANGED <<duel, arena, flying, signedOnes, uncertain, tabKey, booting>> /\ Tab!Fails(Tab!Blocking)
        BY <1>2, Zenon DEF Tab!Sign, Tab!server
    <2>2. Tab!LaunchReady' = Tab!LaunchReady
        BY <2>1 DEF Tab!LaunchReady
    <2>3. Tab!Blocking \in BOOLEAN
        BY Zenon DEF Tab!Blocking
    <2>4. PageMoves
        BY <2>1, <2>2, <2>3, FailsFact
           DEF ClientInv, PageMoves, PageTyped, TabKey, Bounded, Introduced
    <2> QED BY <2>4, PageKept
<1> QED BY <1>1, <1>2

(* One step of the tab and of what it talks to. *)
LEMMA ClientStep == ClientInv /\ [Tab!Next]_(Tab!vars) => ClientInv'
<1> SUFFICES ASSUME ClientInv, [Tab!Next]_(Tab!vars) PROVE ClientInv'
    OBVIOUS
<1>1. CASE UNCHANGED Tab!vars
    <2> HIDE DEF Arena, Signable, Duel, TabKey, PageState, Compact, Sending, Booting, JournalRows
    <2> QED BY <1>1 DEF Tab!vars, ClientInv, PageTyped, ChainTyped, Bounded, NoncesFollow,
                        Introduced,
            Consumed, ByLaunch, Present, Uncertain, Tab!LaunchReady, Tab!ConsentAfterIntro,
            Tab!NonceSignedOnce
<1>2. CASE \/ Tab!RivalReady \/ Tab!CountdownOver \/ Tab!OfferExpires \/ Tab!Dropped
           \/ Tab!SessionExpires \/ Tab!Mount \/ Tab!Reload \/ Tab!StartRestore \/ Tab!StartRecover
           \/ Tab!Login \/ Tab!RecoverRead \/ Tab!ResendFails \/ Tab!RestoreSession \/ Tab!Install
    BY <1>2, PageKept, OnBeingReady, OnCountdownOver, OnOfferExpires, OnDropped, OnSessionExpires,
       OnMount, OnReload, OnStartRestore, OnStartRecover, OnLogin, OnRecoverRead, OnResendFails,
       OnRestoreSession, OnInstall, Zenon
<1>3. CASE \/ Tab!EffectCleanup \/ Tab!Refreshed \/ Tab!BootFails \/ Tab!LobbySessionLost
           \/ Tab!NodeRestarted \/ Tab!Ready \/ Tab!Accept \/ Tab!Send \/ Tab!Bind
           \/ Tab!SignRefused \/ Tab!Answered \/ Tab!AnswerLost \/ Tab!ConfirmAcceptance
           \/ Tab!Disconnect \/ Tab!DisconnectEnds
    BY <1>3, PageKept, OnEffectCleanup, OnRefreshed, OnBootFails, OnLobbySessionLost,
       OnNodeRestarted, OnBeingReady, OnQueued, OnBind, OnFails, OnAnswered,
       OnConfirmAcceptance, OnDisconnect, OnDisconnectEnds, Zenon
<1>4. CASE Tab!Execute \/ Tab!RivalAccepts \/ Tab!MatchEnds \/ Tab!Renewal \/ Tab!Resend \/ Tab!Sign
    BY <1>4, OnExecute, OnMatch, OnRenewal, OnResend, OnSign, Zenon
<1> QED BY <1>1, <1>2, <1>3, <1>4, Zenon DEF Tab!Next

ClientSpec == Tab!Init /\ [][Tab!Next]_(Tab!vars)

(* The inductive invariant of the tab's command lane. *)
THEOREM ClientInvariance == MaxTabKey \in Nat \ {0} => (ClientSpec => []ClientInv)
BY ClientInit, ClientStep, PTL DEF ClientSpec

(* What the invariant says of nonces and of the match's consent. *)
LEMMA ClientFacts == ClientInv => Tab!NonceSignedOnce /\ Tab!ConsentAfterIntro
BY DEF ClientInv, Introduced

(* A nonce is signed for one command, and the engine has the player's consent only *)
(* after the introduction (compact-rooms-session.ts, interlude-rooms.ts).          *)
THEOREM CommandsFollowIntro ==
  MaxTabKey \in Nat \ {0} => (ClientSpec => [](Tab!NonceSignedOnce /\ Tab!ConsentAfterIntro))
BY ClientInvariance, ClientFacts, PTL

-----------------------------------------------------------------------------
CONSTANTS HubAccounts, HubRooms, HubDuels, HubClicks, HubFaults
VARIABLES lobbySeats, openedSoFar, hubPage, handlers, loading, usedUp, chosenOnes, readyOnes

Hub == INSTANCE RoomsDesk WITH Accounts <- HubAccounts, MaxRoom <- HubRooms,
         MaxDuel <- HubDuels, MaxClick <- HubClicks, MaxFault <- HubFaults,
         seat <- lobbySeats, made <- openedSoFar, page <- hubPage, cmds <- handlers,
         fetch <- loading, spent <- usedUp, chosen <- chosenOnes, readied <- readyOnes

-----------------------------------------------------------------------------
(* The front desk of the page (RoomsDesk). *)

\* A handler that will still accept a room, or a duel its player did not accept.
Asking(c) == /\ c.at = "send"
             /\ c.fn = "join" \/ (c.fn = "ready" /\ c.arg \notin chosenOnes.duels)

\* What an accepted invitation has become: a selection that waits for a session, a
\* handler under way, the promise of the first duel, a duel made ready unasked.
Claims == {<<"intent", 0>> : t \in {t \in {"join"} : hubPage.intent.fn = t}}
            \cup {<<"handler", c>> : c \in {c \in handlers : Asking(c)}}
            \cup {<<"promise", 0>> : t \in {t \in {TRUE} : hubPage.auto = t}}
            \cup {<<"duel", r>> : r \in Hub!Unasked}

\* Every claim has an invitation of its own.
ClaimsCovered == /\ chosenOnes.joins \in Nat
                 /\ IsFiniteSet(Claims) /\ Cardinality(Claims) <= chosenOnes.joins

\* A duel to be made ready once there is a session was chosen by a click.
IntentChosen == hubPage.intent.fn = "ready" => hubPage.intent.arg \in chosenOnes.duels

\* The records have the fields the page changes one by one.
PageFields == {"auto", "intent", "view", "owner", "acct"}
DeskShaped == /\ PageFields \subseteq DOMAIN hubPage
              /\ {"duels", "joins"} \subseteq DOMAIN chosenOnes
              /\ \A c \in handlers : "at" \in DOMAIN c

DeskInv == ClaimsCovered /\ IntentChosen /\ DeskShaped

(* What each claim is, as a case. *)
LEMMA ClaimIs == \A x : x \in Claims <=>
    \/ x = <<"intent", 0>> /\ hubPage.intent.fn = "join"
    \/ \E c \in handlers : Asking(c) /\ x = <<"handler", c>>
    \/ x = <<"promise", 0>> /\ hubPage.auto = TRUE
    \/ \E r \in readyOnes : r.duel \notin chosenOnes.duels /\ x = <<"duel", r>>
BY DEF Claims, Hub!Unasked

(* The same in the next state. *)
LEMMA ClaimWillBe == \A x : x \in Claims' <=>
    \/ x = <<"intent", 0>> /\ hubPage'.intent.fn = "join"
    \/ \E c \in handlers' : Asking(c)' /\ x = <<"handler", c>>
    \/ x = <<"promise", 0>> /\ hubPage'.auto = TRUE
    \/ \E r \in readyOnes' : r.duel \notin chosenOnes'.duels /\ x = <<"duel", r>>
BY DEF Claims, Hub!Unasked

(* A step that raises no claim. *)
LEMMA ClaimsStay ==
    ASSUME ClaimsCovered, chosenOnes'.joins = chosenOnes.joins, Claims' \subseteq Claims
    PROVE  ClaimsCovered'
<1>1. IsFiniteSet(Claims') /\ Cardinality(Claims') <= Cardinality(Claims)
    BY FS_Subset DEF ClaimsCovered
<1>2. Cardinality(Claims') \in Nat /\ Cardinality(Claims) \in Nat
    BY <1>1, FS_CardinalityType DEF ClaimsCovered
<1> QED BY <1>1, <1>2 DEF ClaimsCovered

(* A step that turns a claim into another. *)
LEMMA ClaimsTurn ==
    ASSUME ClaimsCovered, chosenOnes'.joins = chosenOnes.joins, NEW x \in Claims, NEW y,
           Claims' \subseteq (Claims \ {x}) \cup {y}
    PROVE  ClaimsCovered'
<1> DEFINE S == Claims \ {x}
           T == S \cup {y}
<1>1. IsFiniteSet(S) /\ Cardinality(S) = Cardinality(Claims) - 1
    BY FS_RemoveElement DEF ClaimsCovered
<1>2. IsFiniteSet(T) /\ (Cardinality(T) = Cardinality(S) \/ Cardinality(T) = Cardinality(S) + 1)
    <2> HIDE DEF S
    <2> QED BY <1>1, FS_AddElement
<1>3. IsFiniteSet(Claims') /\ Cardinality(Claims') <= Cardinality(T)
    <2>1. Claims' \in SUBSET T
        OBVIOUS
    <2> HIDE DEF T
    <2> QED BY <1>2, <2>1, FS_Subset
<1>4. /\ Cardinality(Claims') \in Nat /\ Cardinality(Claims) \in Nat
      /\ Cardinality(S) \in Nat /\ Cardinality(T) \in Nat
    <2> HIDE DEF S, T
    <2> QED BY <1>1, <1>2, <1>3, FS_CardinalityType DEF ClaimsCovered
<1> HIDE DEF S, T
<1> QED BY <1>1, <1>2, <1>3, <1>4 DEF ClaimsCovered

(* A click that accepts an invitation. *)
LEMMA ClaimsGrow ==
    ASSUME ClaimsCovered, chosenOnes'.joins = chosenOnes.joins + 1, NEW y,
           Claims' \subseteq Claims \cup {y}
    PROVE  ClaimsCovered'
<1> DEFINE T == Claims \cup {y}
<1>1. IsFiniteSet(T) /\ (Cardinality(T) = Cardinality(Claims) \/ Cardinality(T) = Cardinality(Claims) + 1)
    BY FS_AddElement DEF ClaimsCovered
<1>2. IsFiniteSet(Claims') /\ Cardinality(Claims') <= Cardinality(T)
    <2>1. Claims' \in SUBSET T
        OBVIOUS
    <2> HIDE DEF T
    <2> QED BY <1>1, <2>1, FS_Subset
<1>3. Cardinality(Claims') \in Nat /\ Cardinality(Claims) \in Nat /\ Cardinality(T) \in Nat
    <2> HIDE DEF T
    <2> QED BY <1>1, <1>2, FS_CardinalityType DEF ClaimsCovered
<1> HIDE DEF T
<1> QED BY <1>1, <1>2, <1>3 DEF ClaimsCovered

(* Nothing is claimed before the first click. *)
LEMMA DeskInit == Hub!Init => DeskInv
<1> SUFFICES ASSUME Hub!Init PROVE DeskInv
    OBVIOUS
<1>1. /\ handlers = {} /\ readyOnes = {} /\ chosenOnes = [rooms |-> {}, duels |-> {}, joins |-> 0]
      /\ PageFields \subseteq DOMAIN hubPage
      /\ hubPage.auto = FALSE /\ hubPage.intent.fn = "none"
    BY DEF Hub!Init, Hub!Nothing, PageFields
<1>2. Claims = {}
    BY <1>1, ClaimIs
<1>3. IsFiniteSet({}) /\ Cardinality({}) = 0
    BY FS_EmptySet
<1> QED BY <1>1, <1>2, <1>3 DEF DeskInv, ClaimsCovered, IntentChosen, DeskShaped

(* A step that leaves the claims' ingredients alone, or drops some of them. *)
LEMMA NothingAsked ==
    ASSUME DeskInv, chosenOnes' = chosenOnes, readyOnes' = readyOnes,
           \A c \in handlers' : "at" \in DOMAIN c,
           \A c \in handlers' : c \in handlers \/ c.at # "send" \/ c.fn \notin {"join", "ready"},
           PageFields \subseteq DOMAIN hubPage',
           hubPage'.auto = hubPage.auto,
           hubPage'.intent = hubPage.intent \/ hubPage'.intent = Hub!Nothing
    PROVE  DeskInv'
<1> USE DEF PageFields
<1>1. hubPage'.intent = hubPage.intent \/ hubPage'.intent.fn = "none"
    BY DEF Hub!Nothing
<1>2. Claims' \subseteq Claims
    <2> SUFFICES ASSUME NEW x \in Claims' PROVE x \in Claims
        OBVIOUS
    <2>1. CASE x = <<"intent", 0>> /\ hubPage'.intent.fn = "join"
        BY <2>1, <1>1, ClaimIs
    <2>2. CASE \E c \in handlers' : Asking(c)' /\ x = <<"handler", c>>
        BY <2>2, ClaimIs DEF Asking
    <2>3. CASE x = <<"promise", 0>> /\ hubPage'.auto = TRUE
        BY <2>3, ClaimIs
    <2>4. CASE \E r \in readyOnes' : r.duel \notin chosenOnes'.duels /\ x = <<"duel", r>>
        BY <2>4, ClaimIs
    <2> QED BY <2>1, <2>2, <2>3, <2>4, ClaimWillBe
<1>3. ClaimsCovered'
    BY <1>2, ClaimsStay DEF DeskInv
<1>4. IntentChosen'
    BY <1>1 DEF DeskInv, IntentChosen
<1>5. DeskShaped'
    BY DEF DeskInv, DeskShaped
<1> QED BY <1>3, <1>4, <1>5 DEF DeskInv

(* The steps of the refresh, and those of the lobby and of the page's panels. *)
LEMMA OnLoading ==
    ASSUME DeskInv,
           \/ Hub!FetchRead \/ Hub!FetchAnswer \/ Hub!FetchFails \/ Hub!Poll \/ Hub!Observe
           \/ Hub!OpenPanel \/ Hub!ClosePanel \/ Hub!Market \/ Hub!Expire \/ Hub!LobbyMoves
    PROVE  DeskInv'
<1> USE DEF DeskInv, DeskShaped, PageFields
<1>1. CASE Hub!FetchRead \/ Hub!Poll
    BY <1>1, NothingAsked DEF Hub!FetchRead, Hub!Poll
<1>2. CASE Hub!FetchAnswer
    <2>1. \A c \in handlers' : c \in handlers \/ (c.at # "send" /\ "at" \in DOMAIN c)
        BY <1>2 DEF Hub!FetchAnswer, Hub!Onward, Hub!Resumed, Hub!Waiting
    <2> QED BY <1>2, <2>1, NothingAsked DEF Hub!FetchAnswer
<1>3. CASE Hub!FetchFails
    <2>1. handlers' \subseteq handlers
        BY <1>3 DEF Hub!FetchFails
    <2> QED BY <1>3, <2>1, NothingAsked DEF Hub!FetchFails
<1>4. CASE Hub!Observe
    BY <1>4, NothingAsked DEF Hub!Observe
<1>5. CASE Hub!OpenPanel \/ Hub!ClosePanel \/ Hub!Market
    BY <1>5, NothingAsked DEF Hub!OpenPanel, Hub!ClosePanel, Hub!Market
<1>6. CASE Hub!Expire
    BY <1>6, NothingAsked DEF Hub!Expire
<1>7. CASE Hub!LobbyMoves
    <2>1. UNCHANGED <<hubPage, handlers, loading, chosenOnes, readyOnes>>
        BY <1>7, Zenon DEF Hub!LobbyMoves
    <2> QED BY <2>1, NothingAsked
<1> QED BY <1>1, <1>2, <1>3, <1>4, <1>5, <1>6, <1>7

(* The steps of a session and of the handlers that stay on the page. *)
LEMMA OnSession ==
    ASSUME DeskInv,
           \/ Hub!LoggedIn \/ Hub!LoginFails \/ Hub!CleanUp \/ Hub!Restore \/ Hub!Again
           \/ Hub!PageOnly
    PROVE  DeskInv'
<1> USE DEF DeskInv, DeskShaped, PageFields
<1>1. CASE Hub!LoggedIn
    <2>1. \A c \in handlers' : c \in handlers \/ (c.at # "send" /\ "at" \in DOMAIN c)
        BY <1>1 DEF Hub!LoggedIn
    <2> QED BY <1>1, <2>1, NothingAsked DEF Hub!LoggedIn
<1>2. CASE Hub!LoginFails
    <2>1. handlers' \subseteq handlers
        BY <1>2 DEF Hub!LoginFails
    <2> QED BY <1>2, <2>1, NothingAsked DEF Hub!LoginFails
<1>3. CASE Hub!CleanUp
    BY <1>3, NothingAsked DEF Hub!CleanUp
<1>4. CASE Hub!Restore
    BY <1>4, NothingAsked DEF Hub!Restore, Hub!Handler
<1>5. CASE Hub!Again
    BY <1>5, NothingAsked DEF Hub!Again, Hub!Handler
<1>6. CASE Hub!PageOnly
    <2>1. handlers' \subseteq handlers
        BY <1>6 DEF Hub!PageOnly
    <2> QED BY <1>6, <2>1, NothingAsked DEF Hub!PageOnly
<1> QED BY <1>1, <1>2, <1>3, <1>4, <1>5, <1>6

(* The promise of the first duel becomes a handler. *)
LEMMA OnAutoAccept == ASSUME DeskInv, Hub!AutoAccept PROVE DeskInv'
<1> DEFINE h == Hub!Handler("ready", Hub!v.duel)
           x == <<"promise", 0>>
           y == <<"handler", h>>
<1> USE DEF DeskInv, DeskShaped, PageFields
<1>1. /\ handlers' = handlers \cup {h} /\ "at" \in DOMAIN h
      /\ chosenOnes' = chosenOnes /\ readyOnes' = readyOnes
      /\ hubPage.auto = TRUE \/ hubPage.auto # FALSE
      /\ hubPage'.auto = FALSE /\ hubPage'.intent = hubPage.intent
      /\ PageFields \subseteq DOMAIN hubPage'
    BY DEF Hub!AutoAccept, Hub!Handler
<1>2. x \in Claims
    BY ClaimIs DEF Hub!AutoAccept
<1>3. Claims' \subseteq (Claims \ {x}) \cup {y}
    <2> SUFFICES ASSUME NEW z \in Claims', z # y PROVE z \in Claims /\ z # x
        OBVIOUS
    <2> HIDE DEF h
    <2>1. ~ (z = <<"promise", 0>> /\ hubPage'.auto = TRUE)
        BY <1>1
    <2> QED BY <1>1, <2>1, ClaimIs, ClaimWillBe DEF Asking
<1>4. ClaimsCovered'
    <2> HIDE DEF h, x, y
    <2> QED BY <1>1, <1>2, <1>3, ClaimsTurn
<1> HIDE DEF h, x, y
<1> QED BY <1>1, <1>4 DEF IntentChosen

(* A selection that waited goes on as a handler, or is dropped. *)
LEMMA OnRunIntent == ASSUME DeskInv, Hub!RunIntent PROVE DeskInv'
<1> USE DEF DeskInv, DeskShaped, PageFields
<1> DEFINE h == Hub!Handler(hubPage.intent.fn, hubPage.intent.arg)
           x == <<"intent", 0>>
           y == <<"handler", h>>
<1>1. /\ handlers' \subseteq handlers \cup {h} /\ "at" \in DOMAIN h
      /\ h.fn = hubPage.intent.fn /\ h.arg = hubPage.intent.arg /\ h.at = "send"
      /\ chosenOnes' = chosenOnes /\ readyOnes' = readyOnes
      /\ hubPage'.auto = hubPage.auto /\ hubPage'.intent = Hub!Nothing
      /\ PageFields \subseteq DOMAIN hubPage'
    BY DEF Hub!RunIntent, Hub!Handler
<1>2. hubPage'.intent.fn = "none"
    BY <1>1 DEF Hub!Nothing
<1>3. CASE hubPage.intent.fn = "join"
    <2>1. x \in Claims
        BY <1>3, ClaimIs
    <2>2. Claims' \subseteq (Claims \ {x}) \cup {y}
        <3> SUFFICES ASSUME NEW z \in Claims', z # y PROVE z \in Claims /\ z # x
            OBVIOUS
        <3> HIDE DEF h
        <3> QED BY <1>1, <1>2, ClaimIs, ClaimWillBe DEF Asking
    <2>3. ClaimsCovered'
        <3> HIDE DEF h, x, y
        <3> QED BY <1>1, <2>1, <2>2, ClaimsTurn
    <2> HIDE DEF h, x, y
    <2> QED BY <1>1, <1>2, <2>3 DEF IntentChosen
<1>4. CASE hubPage.intent.fn # "join"
    <2>1. Claims' \subseteq Claims
        <3> SUFFICES ASSUME NEW z \in Claims' PROVE z \in Claims
            OBVIOUS
        <3>1. ~Asking(h)
            BY <1>1, <1>4 DEF Asking, IntentChosen
        <3>2. \A c \in handlers' : Asking(c)' => c \in handlers /\ Asking(c)
            <4> HIDE DEF h
            <4> QED BY <1>1, <3>1 DEF Asking
        <3> HIDE DEF h
        <3> QED BY <1>1, <1>2, <3>2, ClaimIs, ClaimWillBe
    <2>2. ClaimsCovered'
        BY <1>1, <2>1, ClaimsStay
    <2> HIDE DEF h, x, y
    <2> QED BY <1>1, <1>2, <2>2 DEF IntentChosen
<1> QED BY <1>3, <1>4

(* What a command leaves on the page: the room it joined promises its first duel. *)
LEMMA AfterCommand ==
    ASSUME DeskInv, NEW c \in handlers, c.at = "send",
           chosenOnes' = chosenOnes,
           handlers' \subseteq (handlers \ {c}) \cup {[c EXCEPT !.at = "refresh"]},
           \/ readyOnes' = readyOnes
           \/ c.fn = "ready" /\ \E r : r.duel = c.arg /\ readyOnes' = readyOnes \cup {r},
           PageFields \subseteq DOMAIN hubPage',
           hubPage'.intent = hubPage.intent,
           \/ hubPage'.auto = hubPage.auto \/ hubPage'.auto = FALSE
           \/ c.fn = "join" /\ hubPage'.auto = TRUE
    PROVE  DeskInv'
<1> USE DEF DeskInv, DeskShaped, PageFields
<1>1. \A d \in handlers' : (d \in handlers /\ d # c) \/ (d.at = "refresh" /\ "at" \in DOMAIN d)
    OBVIOUS
<1>2. \A d \in handlers' : Asking(d)' => d \in handlers /\ d # c /\ Asking(d)
    BY <1>1 DEF Asking
<1>3. ClaimsCovered'
    <2>1. CASE readyOnes' = readyOnes /\ hubPage'.auto \in {hubPage.auto, FALSE}
        <3>1. Claims' \subseteq Claims
            <4> SUFFICES ASSUME NEW z \in Claims' PROVE z \in Claims
                OBVIOUS
            <4> QED BY <1>2, <2>1, ClaimIs, ClaimWillBe
        <3> QED BY <3>1, ClaimsStay
    <2>2. CASE c.fn = "join" /\ hubPage'.auto = TRUE /\ readyOnes' = readyOnes
        <3> DEFINE x == <<"handler", c>>
                   y == <<"promise", 0>>
        <3>1. x \in Claims
            BY <2>2, ClaimIs DEF Asking
        <3>2. Claims' \subseteq (Claims \ {x}) \cup {y}
            <4> SUFFICES ASSUME NEW z \in Claims', z # y PROVE z \in Claims /\ z # x
                OBVIOUS
            <4> QED BY <1>2, <2>2, ClaimIs, ClaimWillBe
        <3> HIDE DEF x, y
        <3> QED BY <3>1, <3>2, ClaimsTurn
    <2>3. ASSUME c.fn = "ready", NEW r, r.duel = c.arg, readyOnes' = readyOnes \cup {r}
          PROVE  ClaimsCovered'
        <3> DEFINE x == <<"handler", c>>
                   y == <<"duel", r>>
        <3>1. hubPage'.auto \in {hubPage.auto, FALSE}
            BY <2>3
        <3>2. CASE c.arg \in chosenOnes.duels
            <4>1. Claims' \subseteq Claims
                <5> SUFFICES ASSUME NEW z \in Claims' PROVE z \in Claims
                    OBVIOUS
                <5> QED BY <1>2, <2>3, <3>1, <3>2, ClaimIs, ClaimWillBe
            <4> QED BY <4>1, ClaimsStay
        <3>3. CASE c.arg \notin chosenOnes.duels
            <4>1. x \in Claims
                BY <2>3, <3>3, ClaimIs DEF Asking
            <4>2. Claims' \subseteq (Claims \ {x}) \cup {y}
                <5> SUFFICES ASSUME NEW z \in Claims', z # y PROVE z \in Claims /\ z # x
                    OBVIOUS
                <5> QED BY <1>2, <2>3, <3>1, ClaimIs, ClaimWillBe
            <4> HIDE DEF x, y
            <4> QED BY <4>1, <4>2, ClaimsTurn
        <3> QED BY <3>2, <3>3
    <2> QED BY <2>1, <2>2, <2>3
<1> QED BY <1>1, <1>3 DEF IntentChosen

(* A command is answered, refused, or its answer is lost. *)
LEMMA OnCommand == ASSUME DeskInv, Hub!Command \/ Hub!CommandFails PROVE DeskInv'
<1> USE DEF DeskInv, DeskShaped, PageFields
<1>1. ASSUME NEW c, Hub!Apply(c)
      PROVE  \/ readyOnes' = readyOnes
             \/ c.fn = "ready" /\ \E r : r.duel = c.arg /\ readyOnes' = readyOnes \cup {r}
    <2>1. PICK t : readyOnes' = IF c.fn = "ready" THEN readyOnes \cup {[room |-> t.room, duel |-> c.arg]}
                                                  ELSE readyOnes
        BY <1>1, Zenon DEF Hub!Apply
    <2>2. [room |-> t.room, duel |-> c.arg].duel = c.arg
        OBVIOUS
    <2> QED BY <2>1, <2>2
<1>2. CASE Hub!Command
    <2>1. PICK c \in handlers :
            /\ c.at = "send" /\ Hub!Apply(c)
            /\ handlers' = (handlers \ {c}) \cup {[c EXCEPT !.at = "refresh"]}
            /\ hubPage' = [hubPage EXCEPT !.auto = Hub!AutoAfter(c),
                 !.panel = IF c.fn \in {"decline", "cancel", "ready", "back", "join"} THEN @ ELSE "none",
                 !.entry = IF c.fn \in {"join", "leave", "another"} THEN 0 ELSE @]
            /\ chosenOnes' = chosenOnes
        BY <1>2, Zenon DEF Hub!Command
    <2>2. /\ PageFields \subseteq DOMAIN hubPage'
          /\ hubPage'.auto = Hub!AutoAfter(c) /\ hubPage'.intent = hubPage.intent
        BY <2>1
    <2>3. \/ hubPage'.auto = hubPage.auto \/ hubPage'.auto = FALSE
          \/ c.fn = "join" /\ hubPage'.auto = TRUE
        BY <2>2 DEF Hub!AutoAfter
    <2> QED BY <1>1, <2>1, <2>2, <2>3, AfterCommand
<1>3. CASE Hub!CommandFails
    <2>1. PICK c \in handlers :
            /\ c.at = "send" /\ (Hub!Apply(c) \/ readyOnes' = readyOnes)
            /\ handlers' = handlers \ {c} /\ hubPage' = [hubPage EXCEPT !.busy = FALSE]
            /\ chosenOnes' = chosenOnes
        BY <1>3, Zenon DEF Hub!CommandFails
    <2>2. /\ PageFields \subseteq DOMAIN hubPage'
          /\ hubPage'.auto = hubPage.auto /\ hubPage'.intent = hubPage.intent
        BY <2>1
    <2> QED BY <1>1, <2>1, <2>2, AfterCommand
<1> QED BY <1>2, <1>3

(* A click: one more invitation, one more duel of one's own, or neither. *)
LEMMA OnClick == ASSUME DeskInv, Hub!Click PROVE DeskInv'
<1> USE DEF DeskInv, DeskShaped, PageFields
<1>1. PICK c :
        /\ \/ Hub!Run(c.fn, c.arg) \/ Hub!Ensure(c.fn, c.arg)
        /\ chosenOnes' = CASE c.fn = "join" -> [chosenOnes EXCEPT !.rooms = @ \cup {c.arg}, !.joins = @ + 1]
                           [] c.fn = "ready" -> [chosenOnes EXCEPT !.duels = @ \cup {c.arg}]
                           [] OTHER -> chosenOnes
        /\ readyOnes' = readyOnes
    BY Zenon DEF Hub!Click
<1> DEFINE h == Hub!Handler(c.fn, c.arg)
<1>2. /\ PageFields \subseteq DOMAIN hubPage' /\ hubPage'.auto = hubPage.auto
      /\ \/ /\ hubPage'.intent = hubPage.intent /\ handlers' \subseteq handlers \cup {h}
         \/ /\ hubPage'.intent = [fn |-> c.fn, arg |-> c.arg]
            /\ \A d \in handlers' : d \in handlers \/ (d.fn = "login" /\ "at" \in DOMAIN d)
    <2>1. CASE Hub!Run(c.fn, c.arg)
        BY <2>1 DEF Hub!Run
    <2>2. CASE /\ Hub!Ensure(c.fn, c.arg) /\ ~Hub!Run(c.fn, c.arg)
        <3>1. /\ hubPage'.intent = [fn |-> c.fn, arg |-> c.arg] /\ hubPage'.auto = hubPage.auto
              /\ PageFields \subseteq DOMAIN hubPage'
              /\ \/ handlers' = handlers
                 \/ \E a : handlers' = handlers \cup {Hub!Handler("login", a)}
            BY <2>2 DEF Hub!Ensure
        <3> QED BY <3>1 DEF Hub!Handler
    <2> QED BY <1>1, <2>1, <2>2
<1>3. /\ h.fn = c.fn /\ h.arg = c.arg /\ h.at = "send" /\ "at" \in DOMAIN h
    BY DEF Hub!Handler
<1>4. \A d \in handlers' : "at" \in DOMAIN d
    <2> HIDE DEF h
    <2> QED BY <1>2, <1>3
<1>5. /\ {"duels", "joins"} \subseteq DOMAIN chosenOnes'
      /\ c.fn = "join" => chosenOnes'.joins = chosenOnes.joins + 1 /\ chosenOnes'.duels = chosenOnes.duels
      /\ c.fn # "join" => chosenOnes'.joins = chosenOnes.joins
      /\ c.fn = "ready" => c.arg \in chosenOnes'.duels
      /\ chosenOnes.duels \subseteq chosenOnes'.duels
    BY <1>1
<1>6. IntentChosen'
    <2> HIDE DEF h
    <2> QED BY <1>2, <1>5 DEF IntentChosen
<1>7. \A d \in handlers' : Asking(d)' => (d \in handlers /\ Asking(d)) \/ (d = h /\ c.fn = "join")
    <2> HIDE DEF h
    <2> QED BY <1>2, <1>3, <1>5 DEF Asking
<1>8. hubPage'.intent.fn = "join" =>
        \/ hubPage.intent.fn = "join"
        \/ c.fn = "join" /\ hubPage'.intent = [fn |-> c.fn, arg |-> c.arg] /\ h \notin handlers' \ handlers
    <2>1. CASE hubPage'.intent = hubPage.intent
        BY <2>1
    <2>2. CASE /\ hubPage'.intent = [fn |-> c.fn, arg |-> c.arg]
               /\ \A d \in handlers' : d \in handlers \/ (d.fn = "login" /\ "at" \in DOMAIN d)
        <3> HIDE DEF h
        <3> QED BY <2>2, <1>3
    <2> QED BY <1>2, <2>1, <2>2
<1>9. ClaimsCovered'
    <2>1. CASE c.fn # "join"
        <3>1. Claims' \subseteq Claims
            <4> SUFFICES ASSUME NEW z \in Claims' PROVE z \in Claims
                OBVIOUS
            <4> HIDE DEF h
            <4> QED BY <1>1, <1>2, <1>5, <1>7, <1>8, <2>1, ClaimIs, ClaimWillBe
        <3> QED BY <1>5, <2>1, <3>1, ClaimsStay
    <2>2. CASE c.fn = "join" /\ hubPage'.intent = hubPage.intent
        <3> DEFINE y == <<"handler", h>>
        <3>1. Claims' \subseteq Claims \cup {y}
            <4> SUFFICES ASSUME NEW z \in Claims', z # y PROVE z \in Claims
                OBVIOUS
            <4> HIDE DEF h
            <4> QED BY <1>1, <1>2, <1>5, <1>7, <2>2, ClaimIs, ClaimWillBe
        <3> HIDE DEF h, y
        <3> QED BY <1>5, <2>2, <3>1, ClaimsGrow
    <2>3. CASE /\ c.fn = "join" /\ hubPage'.intent = [fn |-> c.fn, arg |-> c.arg]
               /\ \A d \in handlers' : d \in handlers \/ (d.fn = "login" /\ "at" \in DOMAIN d)
        <3> DEFINE y == <<"intent", 0>>
        <3>1. Claims' \subseteq Claims \cup {y}
            <4> SUFFICES ASSUME NEW z \in Claims', z # y PROVE z \in Claims
                OBVIOUS
            <4>1. \A d \in handlers' : Asking(d)' => d \in handlers /\ Asking(d)
                BY <2>3, <1>5 DEF Asking
            <4> HIDE DEF h
            <4> QED BY <1>1, <1>2, <1>5, <4>1, ClaimIs, ClaimWillBe
        <3> HIDE DEF h, y
        <3> QED BY <1>5, <2>3, <3>1, ClaimsGrow
    <2> HIDE DEF h
    <2> QED BY <1>2, <2>1, <2>2, <2>3
<1> HIDE DEF h
<1> QED BY <1>2, <1>4, <1>5, <1>6, <1>9

(* Every step of the desk. *)
LEMMA DeskStep == DeskInv /\ [Hub!Next]_(Hub!vars) => DeskInv'
<1> SUFFICES ASSUME DeskInv, [Hub!Next]_(Hub!vars) PROVE DeskInv'
    OBVIOUS
<1>1. CASE UNCHANGED Hub!vars
    BY <1>1, NothingAsked DEF Hub!vars, DeskInv, DeskShaped, PageFields
<1> QED BY <1>1, OnLoading, OnSession, OnAutoAccept, OnRunIntent, OnCommand, OnClick, Zenon
        DEF Hub!Next

(* The instance counts as FiniteSets does. *)
LEMMA DeskCounts == ASSUME NEW S PROVE Hub!Cardinality(S) = Cardinality(S)
BY DEF Hub!Cardinality, Cardinality

(* Every duel made ready unasked is a claim. *)
LEMMA DeskFacts == DeskInv => Hub!ReadyByChoice
<1> SUFFICES ASSUME DeskInv PROVE Cardinality(Hub!Unasked) <= chosenOnes.joins
    BY DeskCounts DEF Hub!ReadyByChoice
<1> DEFINE f == [r \in Hub!Unasked |-> <<"duel", r>>]
<1>1. f \in Injection(Hub!Unasked, Claims)
    <2>1. \A r \in Hub!Unasked : <<"duel", r>> \in Claims
        BY DEF Claims
    <2>2. f \in [Hub!Unasked -> Claims]
        BY <2>1
    <2>3. \A r, t \in Hub!Unasked : f[r] = f[t] => r = t
        OBVIOUS
    <2> HIDE DEF f
    <2> QED BY <2>2, <2>3, Fun_IsInj
<1>2. IsFiniteSet(Hub!Unasked) /\ Cardinality(Hub!Unasked) <= Cardinality(Claims)
    <2> HIDE DEF f
    <2> QED BY <1>1, FS_Injection DEF DeskInv, ClaimsCovered
<1>3. Cardinality(Hub!Unasked) \in Nat /\ Cardinality(Claims) \in Nat
    BY <1>2, FS_CardinalityType DEF DeskInv, ClaimsCovered
<1> QED BY <1>2, <1>3 DEF DeskInv, ClaimsCovered

(* Only an answer and a disconnect change what is shown, and an answer is shown *)
(* when it was asked for the account that is connected by then.                 *)
LEMMA ShowsOwnStep == ASSUME DeskInv, Hub!Next PROVE Hub!ShowsOwn
<1> USE DEF DeskInv, DeskShaped, PageFields
<1>1. CASE Hub!FetchAnswer
    BY <1>1 DEF Hub!FetchAnswer, Hub!ShowsOwn, Hub!Belongs
<1>2. CASE Hub!PageOnly
    BY <1>2 DEF Hub!PageOnly, Hub!ShowsOwn
<1>3. CASE \/ Hub!FetchRead \/ Hub!Poll \/ Hub!CleanUp \/ Hub!Restore \/ Hub!Again \/ Hub!LobbyMoves
    <2>1. hubPage' = hubPage
        BY <1>3, Zenon DEF Hub!FetchRead, Hub!Poll, Hub!CleanUp, Hub!Restore, Hub!Again, Hub!LobbyMoves
    <2> QED BY <2>1 DEF Hub!ShowsOwn
<1> DEFINE Same == hubPage'.view = hubPage.view /\ hubPage'.owner = hubPage.owner
<1>4. CASE Hub!FetchFails \/ Hub!Observe \/ Hub!OpenPanel \/ Hub!ClosePanel \/ Hub!Market
    <2>1. Same
        BY <1>4 DEF Hub!FetchFails, Hub!Observe, Hub!OpenPanel, Hub!ClosePanel, Hub!Market
    <2> QED BY <2>1 DEF Hub!ShowsOwn
<1>5. CASE Hub!LoggedIn \/ Hub!LoginFails \/ Hub!RunIntent \/ Hub!Expire \/ Hub!AutoAccept
    <2>1. Same
        BY <1>5 DEF Hub!LoggedIn, Hub!LoginFails, Hub!RunIntent, Hub!Expire, Hub!AutoAccept
    <2> QED BY <2>1 DEF Hub!ShowsOwn
<1>6. CASE Hub!Command \/ Hub!CommandFails
    <2>1. Same
        BY <1>6 DEF Hub!Command, Hub!CommandFails
    <2> QED BY <2>1 DEF Hub!ShowsOwn
<1>7. CASE Hub!Click
    <2>1. PICK c : Hub!Run(c.fn, c.arg) \/ Hub!Ensure(c.fn, c.arg)
        BY <1>7, Zenon DEF Hub!Click
    <2>2. Same
        BY <2>1 DEF Hub!Run, Hub!Ensure
    <2> QED BY <2>2 DEF Hub!ShowsOwn
<1> QED BY <1>1, <1>2, <1>3, <1>4, <1>5, <1>6, <1>7, Zenon DEF Hub!Next

DeskSpec == Hub!Init /\ [][Hub!Next]_(Hub!vars)

(* The inductive invariant of the desk: every duel made ready unasked, and every *)
(* handler or selection that may still make one, has its own invitation.         *)
THEOREM DeskInvariance == DeskSpec => []DeskInv
BY DeskInit, DeskStep, PTL DEF DeskSpec

(* Accepting an invitation makes one duel ready by itself at most, and what comes *)
(* to be shown is the lobby of the account connected by then (RoomsHub.tsx).      *)
THEOREM DeskIsTrue == DeskSpec => []Hub!ReadyByChoice /\ [][Hub!ShowsOwn]_(Hub!vars)
<1>1. DeskInv /\ [Hub!Next]_(Hub!vars) => [Hub!ShowsOwn]_(Hub!vars)
    BY ShowsOwnStep
<1> QED BY DeskInvariance, DeskFacts, <1>1, PTL DEF DeskSpec
=============================================================================
