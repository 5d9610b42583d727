------------------------------ MODULE Counting ------------------------------
(***************************************************************************)
(* Facts about sums over finite sets and about places in an order, which   *)
(* the proofs of the pages and of the prices share.                        *)
(***************************************************************************)
EXTENDS Functions, FiniteSetTheorems, TLAPS

Some(T) == CHOOSE x \in T : TRUE

\* g adds up f over the subsets of S.
AddsUp(g, f, S) ==
    g = [T \in SUBSET S |-> IF T = {} THEN 0 ELSE f[Some(T)] + g[T \ {Some(T)}]]

LEMMA SmallestSet ==
    ASSUME NEW S, IsFiniteSet(S), NEW C, C \subseteq SUBSET S, C # {}
    PROVE  \E T \in C : \A U \in C : U \subseteq T => U = T
  <1>1. IsWellFoundedOn(StrictSubsetOrdering(S), SUBSET S)
    BY FS_FiniteSubsetsOfFinite, FS_StrictSubsetOrderingWellFounded
  <1>2. PICK T \in C : \A U \in C : ~(<<U, T>> \in StrictSubsetOrdering(S))
    BY <1>1, WFMin
  <1> QED BY <1>2 DEF StrictSubsetOrdering

\* There is one such function at most.
LEMMA AddsUpUnique ==
    ASSUME NEW S, IsFiniteSet(S), NEW f, NEW g, NEW h, AddsUp(g, f, S), AddsUp(h, f, S)
    PROVE  g[S] = h[S]
  <1> DEFINE C == {T \in SUBSET S : g[T] # h[T]}
  <1> SUFFICES ASSUME C # {} PROVE FALSE
    OBVIOUS
  <1>1. PICK T \in C : \A U \in C : U \subseteq T => U = T
    <2> HIDE DEF C
    <2>1. C \subseteq SUBSET S
      BY DEF C
    <2> QED BY <2>1, SmallestSet
  <1>2. /\ g[T] = IF T = {} THEN 0 ELSE f[Some(T)] + g[T \ {Some(T)}]
        /\ h[T] = IF T = {} THEN 0 ELSE f[Some(T)] + h[T \ {Some(T)}]
    BY DEF AddsUp
  <1>3. T # {}
    BY <1>2
  <1>4. Some(T) \in T
    BY <1>3 DEF Some
  <1>5. T \ {Some(T)} \notin C
    BY <1>1, <1>4
  <1> QED BY <1>2, <1>3, <1>5

LEMMA SumIs ==
    ASSUME NEW S, IsFiniteSet(S), NEW f, NEW g, AddsUp(g, f, S)
    PROVE  FoldFunctionOnSet(+, 0, f, S) = g[S]
  <1> DEFINE it == CHOOSE it : it = [T \in SUBSET S |-> IF T = {} THEN 0 ELSE f[Some(T)] + it[T \ {Some(T)}]]
  <1>1. AddsUp(it, f, S)
    BY DEF AddsUp
  <1>2. FoldFunctionOnSet(+, 0, f, S) = it[S]
    BY DEF FoldFunctionOnSet, MapThenFoldSet, Some
  <1> QED BY <1>1, <1>2, AddsUpUnique

\* A set of natural numbers has a least one.
LEMMA LeastNatural ==
    ASSUME NEW N \in SUBSET Nat, N # {}
    PROVE  \E m \in N : \A k \in N : m <= k
  <1>1. PICK m \in N : \A k \in N : ~(<<k, m>> \in OpToRel(<, Nat))
    BY NatLessThanWellFounded, WFMin
  <1>2. \A k \in N : ~(k < m)
    BY <1>1 DEF OpToRel
  <1> QED BY <1>2

\* What is so at a, and at i + 1 if at i, is so up to n.
LEMMA Climbing ==
    ASSUME NEW a \in Nat, NEW n \in Nat, NEW P, a \in P,
           \A i \in a .. n - 1 : i \in P => i + 1 \in P
    PROVE  a .. n \subseteq P
  <1> DEFINE Missed == (a .. n) \ P
  <1> SUFFICES ASSUME Missed # {} PROVE FALSE
    OBVIOUS
  <1>1. PICK m \in Missed : \A k \in Missed : m <= k
    <2>1. Missed \in SUBSET Nat
      OBVIOUS
    <2> HIDE DEF Missed
    <2> QED BY <2>1, LeastNatural
  <1>2. m - 1 \in a .. n - 1 /\ m - 1 \notin Missed /\ (m - 1) + 1 = m
    BY <1>1
  <1> QED BY <1>2

-----------------------------------------------------------------------------
(* Things counted by groups.                                               *)

\* The members of the groups of T.
InGroups(groups, T) == UNION {groups[e] : e \in T}

\* Groups that share nothing are counted together or one by one.
LEMMA GroupsCounted ==
    ASSUME NEW S, IsFiniteSet(S), NEW groups,
           \A e \in S : IsFiniteSet(groups[e]),
           \A d, e \in S : d # e => groups[d] \cap groups[e] = {}
    PROVE  AddsUp([T \in SUBSET S |-> Cardinality(InGroups(groups, T))],
                  [e \in S |-> Cardinality(groups[e])], S)
  <1> DEFINE f == [e \in S |-> Cardinality(groups[e])]
             g == [T \in SUBSET S |-> Cardinality(InGroups(groups, T))]
  <1>1. InGroups(groups, {}) = {}
    BY DEF InGroups
  <1>2. ASSUME NEW T \in SUBSET S, T # {}
        PROVE  g[T] = f[Some(T)] + g[T \ {Some(T)}]
    <2> DEFINE e == Some(T)  rest == T \ {e}
    <2>1. e \in T
      BY <1>2 DEF Some
    <2>2. rest \in SUBSET S
      OBVIOUS
    <2>3. IsFiniteSet(InGroups(groups, rest))
      <3>1. IsFiniteSet(rest)
        BY <2>2, FS_Subset
      <3>2. {groups[d] : d \in rest} = Range([d \in rest |-> groups[d]])
        BY DEF Range
      <3>3. IsFiniteSet({groups[d] : d \in rest})
        <4> DEFINE named == [d \in rest |-> groups[d]]
        <4>1. named \in Surjection(rest, {groups[d] : d \in rest})
          BY DEF Surjection
        <4> QED BY <3>1, <4>1, FS_Surjection
      <3> QED BY <2>2, <3>3, FS_UNION DEF InGroups
    <2>4. /\ InGroups(groups, T) = groups[e] \cup InGroups(groups, rest)
          /\ groups[e] \cap InGroups(groups, rest) = {}
      BY <2>1, <2>2 DEF InGroups
    <2>5. IsFiniteSet(groups[e])
      BY <2>1
    <2>6. Cardinality(InGroups(groups, T))
            = Cardinality(groups[e]) + Cardinality(InGroups(groups, rest)) - 0
      <3> HIDE DEF rest, e
      <3>1. Cardinality(groups[e] \cup InGroups(groups, rest))
              = Cardinality(groups[e]) + Cardinality(InGroups(groups, rest))
                  - Cardinality(groups[e] \cap InGroups(groups, rest))
        BY <2>3, <2>5, FS_Union
      <3> QED BY <2>4, <3>1, FS_EmptySet
    <2>7. Cardinality(groups[e]) \in Nat /\ Cardinality(InGroups(groups, rest)) \in Nat
      BY <2>3, <2>5, FS_CardinalityType
    <2> QED BY <2>1, <2>2, <2>6, <2>7
  <1>3. g[{}] = 0
    BY <1>1, FS_EmptySet
  <1> QED BY <1>2, <1>3 DEF AddsUp

\* The sum of the sizes of groups that share nothing.
LEMMA SumOfGroups ==
    ASSUME NEW S, IsFiniteSet(S), NEW groups,
           \A e \in S : IsFiniteSet(groups[e]),
           \A d, e \in S : d # e => groups[d] \cap groups[e] = {}
    PROVE  FoldFunctionOnSet(+, 0, [e \in S |-> Cardinality(groups[e])], S)
             = Cardinality(InGroups(groups, S))
  <1> DEFINE g == [T \in SUBSET S |-> Cardinality(InGroups(groups, T))]
  <1>1. AddsUp(g, [e \in S |-> Cardinality(groups[e])], S)
    BY GroupsCounted
  <1>2. g[S] = Cardinality(InGroups(groups, S))
    OBVIOUS
  <1> HIDE DEF g
  <1> QED BY <1>1, <1>2, SumIs

-----------------------------------------------------------------------------
(* Places in an order.                                                     *)

\* R puts the members of S in an order.
Orders(R, S) ==
    /\ \A x \in S : <<x, x>> \notin R
    /\ \A x, y, z \in S : <<x, y>> \in R /\ <<y, z>> \in R => <<x, z>> \in R
    /\ \A x, y \in S : x = y \/ <<x, y>> \in R \/ <<y, x>> \in R

Earlier(x, R, S) == {y \in S : <<y, x>> \in R}

Place(R, S) == [x \in S |-> Cardinality(Earlier(x, R, S)) + 1]

\* Places go with the order, and each is taken by one.
LEMMA PlacesTaken ==
    ASSUME NEW S, IsFiniteSet(S), NEW R, Orders(R, S)
    PROVE  /\ Place(R, S) \in Bijection(S, 1 .. Cardinality(S))
           /\ \A x, y \in S : <<x, y>> \in R <=> Place(R, S)[x] < Place(R, S)[y]
  <1> DEFINE place == Place(R, S)
  <1>1. Cardinality(S) \in Nat
    BY FS_CardinalityType
  <1>2. \A x \in S : IsFiniteSet(Earlier(x, R, S)) /\ Cardinality(Earlier(x, R, S)) \in Nat
    BY FS_Subset, FS_CardinalityType DEF Earlier
  <1>3. ASSUME NEW x \in S, NEW y \in S, <<x, y>> \in R
        PROVE  place[x] < place[y]
    <2>1. /\ Earlier(x, R, S) \in SUBSET Earlier(y, R, S)
          /\ x \in Earlier(y, R, S)
          /\ x \notin Earlier(x, R, S)
      BY <1>3 DEF Orders, Earlier
    <2>2. /\ Cardinality(Earlier(x, R, S)) <= Cardinality(Earlier(y, R, S))
          /\ Cardinality(Earlier(x, R, S)) # Cardinality(Earlier(y, R, S))
      BY <1>2, <2>1, FS_Subset
    <2> QED BY <1>2, <2>2 DEF Place
  <1>4. \A x \in S : place[x] \in 1 .. Cardinality(S)
    <2> SUFFICES ASSUME NEW x \in S PROVE place[x] \in 1 .. Cardinality(S)
      OBVIOUS
    <2>1. Earlier(x, R, S) \in SUBSET S /\ x \notin Earlier(x, R, S)
      BY DEF Orders, Earlier
    <2>2. /\ Cardinality(Earlier(x, R, S)) <= Cardinality(S)
          /\ Cardinality(Earlier(x, R, S)) # Cardinality(S)
      BY <2>1, FS_Subset
    <2> QED BY <1>1, <1>2, <2>2 DEF Place
  <1>5. \A x, y \in S : <<x, y>> \in R <=> place[x] < place[y]
    <2> SUFFICES ASSUME NEW x \in S, NEW y \in S, place[x] < place[y] PROVE <<x, y>> \in R
      BY <1>3
    <2>1. x # y /\ ~(place[y] < place[x])
      BY <1>4
    <2> QED BY <1>3, <2>1 DEF Orders
  <1>6. place \in Injection(S, 1 .. Cardinality(S))
    <2>1. \A x, y \in S : place[x] = place[y] => x = y
      <3> SUFFICES ASSUME NEW x \in S, NEW y \in S, place[x] = place[y] PROVE x = y
        OBVIOUS
      <3>1. ~(place[x] < place[y]) /\ ~(place[y] < place[x])
        BY <1>4
      <3> QED BY <1>3, <3>1 DEF Orders
    <2> QED BY <1>4, <2>1 DEF Injection, IsInjective, Place
  <1>7. IsFiniteSet(1 .. Cardinality(S)) /\ Cardinality(1 .. Cardinality(S)) = Cardinality(S)
    BY <1>1, FS_Interval
  <1>8. place \in Surjection(S, 1 .. Cardinality(S))
    <2> HIDE DEF place
    <2> QED BY <1>6, <1>7, FS_Injection
  <1> QED BY <1>5, <1>6, <1>8 DEF Bijection

\* A strictly increasing list of n of the numbers from 1 to n has them all.
LEMMA IncreasingIsIdentity ==
    ASSUME NEW n \in Nat, NEW at \in [1 .. n -> 1 .. n],
           \A i, j \in 1 .. n : i < j => at[i] < at[j]
    PROVE  \A i \in 1 .. n : at[i] = i
  <1> DEFINE Low == {i \in 1 .. n : at[i] < i}  High == {i \in 1 .. n : at[i] > i}
  <1>1. Low = {}
    <2> SUFFICES ASSUME Low # {} PROVE FALSE
      OBVIOUS
    <2>1. PICK i \in Low : \A j \in Low : i <= j
      <3>1. Low \in SUBSET Nat
        OBVIOUS
      <3> HIDE DEF Low
      <3> QED BY <3>1, LeastNatural
    <2>2. at[i] \in 1 .. n /\ at[i] < i
      OBVIOUS
    <2>3. at[at[i]] < at[i]
      BY <2>2
    <2> QED BY <2>1, <2>2, <2>3
  <1>2. High = {}
    <2> SUFFICES ASSUME High # {} PROVE FALSE
      OBVIOUS
    <2> DEFINE Mirror == {n - i : i \in High}
    <2>1. Mirror \subseteq Nat /\ Mirror # {}
      OBVIOUS
    <2>2. PICK m \in Mirror : \A j \in Mirror : m <= j
      <3> HIDE DEF Mirror
      <3> QED BY <2>1, LeastNatural
    <2>3. PICK i \in High : m = n - i
      OBVIOUS
    <2>4. at[i] \in 1 .. n /\ at[i] > i
      OBVIOUS
    <2>5. at[i] < at[at[i]]
      BY <2>4
    <2>6. at[i] \in High
      BY <2>4, <2>5
    <2>7. n - at[i] \in Mirror
      BY <2>6
    <2>8. m <= n - at[i]
      BY <2>2, <2>7
    <2> QED BY <2>3, <2>4, <2>8
  <1> QED BY <1>1, <1>2

\* In a list that goes with the order everybody stands at his place.
LEMMA ListedAtPlace ==
    ASSUME NEW S, IsFiniteSet(S), NEW R, Orders(R, S),
           NEW list \in [1 .. Cardinality(S) -> S],
           \A i, j \in 1 .. Cardinality(S) : i < j => <<list[i], list[j]>> \in R,
           NEW x \in S
    PROVE  /\ Place(R, S)[x] \in 1 .. Cardinality(S)
           /\ list[Place(R, S)[x]] = x
  <1> DEFINE n == Cardinality(S)  place == Place(R, S)
  <1>0. n \in Nat
    BY FS_CardinalityType
  <1>1. place \in Bijection(S, 1 .. n) /\ \A y, z \in S : <<y, z>> \in R <=> place[y] < place[z]
    BY PlacesTaken
  <1>2. place \in [S -> 1 .. n]
    BY <1>1 DEF Bijection, Injection
  <1> DEFINE at == [i \in 1 .. n |-> place[list[i]]]
  <1>3. at \in [1 .. n -> 1 .. n] /\ \A i, j \in 1 .. n : i < j => at[i] < at[j]
    BY <1>1, <1>2
  <1> SUFFICES \A i \in 1 .. n : at[i] = i
    <2>1. place[x] \in 1 .. n
      BY <1>2
    <2>2. place[list[place[x]]] = place[x]
      BY <2>1
    <2>3. list[place[x]] \in S
      BY <2>1
    <2> QED BY <1>1, <2>1, <2>2, <2>3 DEF Bijection, Injection, IsInjective
  <1> HIDE DEF at
  <1> QED BY <1>0, <1>3, IncreasingIsIdentity

-----------------------------------------------------------------------------
(* Sums of natural numbers.                                                *)

\* As many things for each x as f says.
Units(f, S) == [x \in S |-> {x} \X (1 .. f[x])]

LEMMA UnitsCounted ==
    ASSUME NEW S, IsFiniteSet(S), NEW f \in [S -> Nat]
    PROVE  /\ \A x \in S : IsFiniteSet(Units(f, S)[x]) /\ Cardinality(Units(f, S)[x]) = f[x]
           /\ \A x, y \in S : x # y => Units(f, S)[x] \cap Units(f, S)[y] = {}
           /\ \A T \in SUBSET S : IsFiniteSet(InGroups(Units(f, S), T))
  <1> DEFINE groups == Units(f, S)
  <1>1. \A x \in S : IsFiniteSet(groups[x]) /\ Cardinality(groups[x]) = f[x]
    <2> SUFFICES ASSUME NEW x \in S
                 PROVE  IsFiniteSet({x} \X (1 .. f[x])) /\ Cardinality({x} \X (1 .. f[x])) = f[x]
      BY DEF Units
    <2>1. IsFiniteSet(1 .. f[x]) /\ Cardinality(1 .. f[x]) = f[x]
      BY FS_Interval
    <2>2. IsFiniteSet({x}) /\ Cardinality({x}) = 1
      BY FS_Singleton
    <2>3. /\ IsFiniteSet({x} \X (1 .. f[x]))
          /\ Cardinality({x} \X (1 .. f[x])) = 1 * f[x]
      <3> DEFINE one == {x}  many == 1 .. f[x]
      <3>1. IsFiniteSet(one \X many) /\ Cardinality(one \X many) = Cardinality(one) * Cardinality(many)
        <4>1. IsFiniteSet(one) /\ IsFiniteSet(many)
          BY <2>1, <2>2
        <4> HIDE DEF one, many
        <4> QED BY <4>1, FS_Product
      <3> QED BY <2>1, <2>2, <3>1
    <2> QED BY <2>3
  <1>2. \A x, y \in S : x # y => groups[x] \cap groups[y] = {}
    BY DEF Units
  <1>3. \A T \in SUBSET S : IsFiniteSet(InGroups(groups, T))
    <2> SUFFICES ASSUME NEW T \in SUBSET S
                 PROVE  IsFiniteSet(InGroups(groups, T))
      OBVIOUS
    <2>1. IsFiniteSet(T)
      BY FS_Subset
    <2> DEFINE named == [x \in T |-> groups[x]]
    <2>2. named \in Surjection(T, {groups[x] : x \in T})
      BY DEF Surjection
    <2>3. IsFiniteSet({groups[x] : x \in T})
      BY <2>1, <2>2, FS_Surjection
    <2> HIDE DEF groups
    <2> QED BY <1>1, <2>3, FS_UNION DEF InGroups
  <1> QED BY <1>1, <1>2, <1>3

LEMMA SumIsSize ==
    ASSUME NEW S, IsFiniteSet(S), NEW f \in [S -> Nat]
    PROVE  FoldFunctionOnSet(+, 0, f, S) = Cardinality(InGroups(Units(f, S), S))
  <1> DEFINE groups == Units(f, S)
  <1> HIDE DEF groups
  <1>1. /\ \A x \in S : IsFiniteSet(groups[x]) /\ Cardinality(groups[x]) = f[x]
        /\ \A x, y \in S : x # y => groups[x] \cap groups[y] = {}
    BY UnitsCounted DEF groups
  <1>2. FoldFunctionOnSet(+, 0, [x \in S |-> Cardinality(groups[x])], S)
          = Cardinality(InGroups(groups, S))
    BY <1>1, SumOfGroups
  <1>3. [x \in S |-> Cardinality(groups[x])] = f
    BY <1>1
  <1> QED BY <1>2, <1>3 DEF groups

\* One more number adds itself.
LEMMA SumOfOneMore ==
    ASSUME NEW n \in Nat, NEW f \in [1 .. n + 1 -> Nat]
    PROVE  FoldFunctionOnSet(+, 0, f, 1 .. n + 1)
             = FoldFunctionOnSet(+, 0, [x \in 1 .. n |-> f[x]], 1 .. n) + f[n + 1]
  <1> DEFINE low == [x \in 1 .. n |-> f[x]]
             all == InGroups(Units(f, 1 .. n + 1), 1 .. n + 1)
             some == InGroups(Units(low, 1 .. n), 1 .. n)
             last == {n + 1} \X (1 .. f[n + 1])
  <1>1. IsFiniteSet(1 .. n) /\ IsFiniteSet(1 .. n + 1) /\ low \in [1 .. n -> Nat] /\ n + 1 \in 1 .. n + 1
    <2>1. n \in Int /\ n + 1 \in Int /\ 1 \in Int
      OBVIOUS
    <2>2. IsFiniteSet(1 .. n) /\ IsFiniteSet(1 .. n + 1)
      BY <2>1, FS_Interval
    <2> QED BY <2>2
  <1>2. /\ FoldFunctionOnSet(+, 0, f, 1 .. n + 1) = Cardinality(all)
        /\ FoldFunctionOnSet(+, 0, low, 1 .. n) = Cardinality(some)
    <2> HIDE DEF low
    <2> QED BY <1>1, SumIsSize
  <1>3. all = some \cup last /\ some \cap last = {}
    <2>1. 1 .. n + 1 = (1 .. n) \cup {n + 1} /\ n + 1 \notin 1 .. n
      OBVIOUS
    <2> QED BY <2>1 DEF InGroups, Units
  <1>4. IsFiniteSet(some) /\ IsFiniteSet(last) /\ Cardinality(last) = f[n + 1]
    <2>1. IsFiniteSet(some)
      <3> HIDE DEF low
      <3> QED BY <1>1, UnitsCounted
    <2>2. IsFiniteSet(Units(f, 1 .. n + 1)[n + 1]) /\ Cardinality(Units(f, 1 .. n + 1)[n + 1]) = f[n + 1]
      BY <1>1, UnitsCounted
    <2> QED BY <1>1, <2>1, <2>2 DEF Units
  <1> HIDE DEF all, some, last, low
  <1>5. Cardinality(all) = Cardinality(some) + Cardinality(last) - Cardinality(some \cap last)
    BY <1>3, <1>4, FS_Union
  <1>6. Cardinality(some) \in Nat /\ Cardinality(some \cap last) = 0 /\ f[n + 1] \in Nat
    BY <1>1, <1>3, <1>4, FS_EmptySet, FS_CardinalityType
  <1>7. Cardinality(all) = Cardinality(some) + f[n + 1]
    BY <1>4, <1>5, <1>6
  <1>8. FoldFunctionOnSet(+, 0, f, 1 .. n + 1) = FoldFunctionOnSet(+, 0, low, 1 .. n) + f[n + 1]
    BY <1>2, <1>7
  <1> QED BY <1>8 DEF low

\* The sum of natural numbers over a finite set, and of their multiples.
LEMMA SumIsNatural ==
    ASSUME NEW S, IsFiniteSet(S), NEW f \in [S -> Nat], NEW k \in Int
    PROVE  LET sum == FoldFunctionOnSet(+, 0, f, S) IN
           /\ sum \in Nat
           /\ \A x \in S : f[x] <= sum
           /\ FoldFunctionOnSet(+, 0, [x \in S |-> k * f[x]], S) = k * sum
  <1> DEFINE groups == Units(f, S)
             g == [T \in SUBSET S |-> Cardinality(InGroups(groups, T))]
             kg == [T \in SUBSET S |-> k * g[T]]
             kf == [x \in S |-> k * f[x]]
  <1>1. \A x \in S : IsFiniteSet(groups[x]) /\ Cardinality(groups[x]) = f[x]
    BY UnitsCounted
  <1>2. \A x, y \in S : x # y => groups[x] \cap groups[y] = {}
    BY UnitsCounted
  <1>3. AddsUp(g, f, S)
    <2>1. AddsUp(g, [x \in S |-> Cardinality(groups[x])], S)
      <3> HIDE DEF groups
      <3> QED BY <1>1, <1>2, GroupsCounted
    <2>2. [x \in S |-> Cardinality(groups[x])] = f
      BY <1>1
    <2> HIDE DEF g, groups
    <2> QED BY <2>1, <2>2
  <1>4. \A T \in SUBSET S : IsFiniteSet(InGroups(groups, T)) /\ g[T] \in Nat
    BY UnitsCounted, FS_CardinalityType
  <1>5. \A x \in S : f[x] <= g[S]
    <2> SUFFICES ASSUME NEW x \in S PROVE f[x] <= Cardinality(InGroups(groups, S))
      OBVIOUS
    <2>1. groups[x] \in SUBSET InGroups(groups, S)
      BY DEF InGroups
    <2>2. IsFiniteSet(InGroups(groups, S))
      <3> HIDE DEF groups
      <3> QED BY <1>4
    <2> HIDE DEF groups
    <2>3. Cardinality(groups[x]) <= Cardinality(InGroups(groups, S))
      BY <2>1, <2>2, FS_Subset
    <2> QED BY <1>1, <2>3
  <1>6. AddsUp(kg, kf, S)
    <2> SUFFICES ASSUME NEW T \in SUBSET S
                 PROVE  kg[T] = IF T = {} THEN 0 ELSE kf[Some(T)] + kg[T \ {Some(T)}]
      BY DEF AddsUp
    <2>1. g[T] = IF T = {} THEN 0 ELSE f[Some(T)] + g[T \ {Some(T)}]
      <3> HIDE DEF g
      <3> QED BY <1>3 DEF AddsUp
    <2>2. CASE T = {}
      <3> HIDE DEF g
      <3> QED BY <2>1, <2>2
    <2>3. CASE T # {}
      <3>1. Some(T) \in T
        BY <2>3 DEF Some
      <3>2. T \ {Some(T)} \in SUBSET S /\ g[T \ {Some(T)}] \in Nat
        BY <1>4
      <3>3. f[Some(T)] \in Nat /\ g[T] = f[Some(T)] + g[T \ {Some(T)}]
        <4> HIDE DEF g
        <4> QED BY <2>1, <2>3, <3>1
      <3> HIDE DEF g
      <3> QED BY <2>3, <3>1, <3>2, <3>3
    <2> QED BY <2>2, <2>3
  <1> HIDE DEF g, kf
  <1>7. FoldFunctionOnSet(+, 0, f, S) = g[S]
    BY <1>3, SumIs
  <1>8. FoldFunctionOnSet(+, 0, kf, S) = k * g[S]
    <2>1. kg[S] = k * g[S]
      OBVIOUS
    <2> HIDE DEF kg
    <2> QED BY <1>6, <2>1, SumIs
  <1> QED BY <1>4, <1>5, <1>7, <1>8 DEF kf

=============================================================================
