--------------------------- MODULE Ordering_proofs ---------------------------
(***************************************************************************)
(* Facts about finite sets of naturals in order, for sets of any size:     *)
(* Ordered lists every member once, and increasingly.  No induction is     *)
(* needed: a rank is an injection of a set of n elements into 1..n, hence  *)
(* a bijection.                                                            *)
(***************************************************************************)
EXTENDS Ordering, Sequences, FiniteSetTheorems, TLAPS

\* The least-number principle, for sets.
LEMMA LeastNumber ==
  ASSUME NEW T \in SUBSET Nat, T # {}
  PROVE  \E x \in T : \A y \in T : x <= y
<1> DEFINE R == {p \in Nat \X Nat : p[1] < p[2]}
<1>1. IsWellFoundedOn(R, Nat)
  BY NatLessThanWellFounded DEF OpToRel
<1>2. \A x, y \in Nat : <<y, x>> \in R <=> y < x
  OBVIOUS
<1> HIDE DEF R
<1>3. \E x \in T : \A y \in T : ~ (<<y, x>> \in R)
  BY <1>1, WFMin
<1>4. PICK x \in T : \A y \in T : ~ (<<y, x>> \in R)
  BY <1>3
<1>5. x \in Nat /\ \A y \in T : y \in Nat /\ ~(y < x)
  BY <1>2, <1>4
<1> QED BY <1>5

LEMMA PlaceType ==
  ASSUME NEW S \in SUBSET Nat, IsFiniteSet(S), NEW e \in S
  PROVE  PlaceIn(S, e) \in 1..Cardinality(S)
<1> DEFINE upTo == {x \in S : x <= e}
<1>1. upTo \in SUBSET S /\ e \in upTo
  OBVIOUS
<1> HIDE DEF upTo
<1>2. IsFiniteSet(upTo) /\ Cardinality(upTo) <= Cardinality(S)
  BY <1>1, FS_Subset
<1>3. Cardinality(upTo) # 0
  BY <1>1, <1>2, FS_EmptySet
<1> QED BY <1>2, <1>3, FS_CardinalityType DEF PlaceIn, upTo

LEMMA PlaceGrows ==
  ASSUME NEW S \in SUBSET Nat, IsFiniteSet(S), NEW a \in S, NEW b \in S, a < b
  PROVE  PlaceIn(S, a) < PlaceIn(S, b)
<1> DEFINE upTo(e) == {x \in S : x <= e}
<1>1. upTo(a) \subseteq upTo(b) /\ upTo(b) \in SUBSET S /\ b \in upTo(b) /\ b \notin upTo(a)
  <2>1. a \in Nat /\ b \in Nat /\ \A x \in S : x \in Nat
    OBVIOUS
  <2>2. \A x \in S : x <= a => x <= b
    BY <2>1
  <2>3. b <= b /\ ~(b <= a)
    BY <2>1
  <2> QED BY <2>2, <2>3
<1>2. PlaceIn(S, a) = Cardinality(upTo(a)) /\ PlaceIn(S, b) = Cardinality(upTo(b))
  BY DEF PlaceIn
<1> HIDE DEF upTo
<1>3. IsFiniteSet(upTo(b))
  BY <1>1, FS_Subset
<1>4. /\ Cardinality(upTo(a)) <= Cardinality(upTo(b))
      /\ Cardinality(upTo(a)) # Cardinality(upTo(b))
  BY <1>1, <1>3, FS_Subset
<1> QED BY <1>2, <1>4, PlaceType

\* Every place is taken, by one member.
LEMMA PlaceBijective ==
  ASSUME NEW S \in SUBSET Nat, IsFiniteSet(S)
  PROVE  /\ Cardinality(S) \in Nat
         /\ \A i \in 1..Cardinality(S) : \E e \in S : PlaceIn(S, e) = i
         /\ \A a, b \in S : PlaceIn(S, a) = PlaceIn(S, b) => a = b
<1> DEFINE place == [e \in S |-> PlaceIn(S, e)]
           n == Cardinality(S)
<1>1. n \in Nat
  BY FS_CardinalityType
<1>2. place \in [S -> 1..n]
  BY PlaceType
<1>3. \A a, b \in S : PlaceIn(S, a) = PlaceIn(S, b) => a = b
  <2> SUFFICES ASSUME NEW a \in S, NEW b \in S, PlaceIn(S, a) = PlaceIn(S, b), a # b PROVE FALSE
    OBVIOUS
  <2>1. a < b \/ b < a
    OBVIOUS
  <2> QED BY <2>1, PlaceGrows, PlaceType
<1>4. place \in Injection(S, 1..n)
  BY <1>2, <1>3 DEF Injection, IsInjective
<1>5. IsFiniteSet(1..n) /\ Cardinality(1..n) = n
  BY <1>1, FS_Interval
<1> HIDE DEF place
<1>6. place \in Surjection(S, 1..n)
  BY <1>4, <1>5, FS_Injection
<1>7. \A i \in 1..n : \E e \in S : place[e] = i
  BY <1>6 DEF Surjection
<1> QED BY <1>1, <1>3, <1>7 DEF place

\* The members in order: as many as there are, each at its place, increasing.
LEMMA OrderedLists ==
  ASSUME NEW S \in SUBSET Nat, IsFiniteSet(S)
  PROVE  /\ Cardinality(S) \in Nat
         /\ Ordered(S) \in [1..Cardinality(S) -> S]
         /\ Ordered(S) \in Seq(S) /\ Len(Ordered(S)) = Cardinality(S)
         /\ \A e \in S : PlaceIn(S, e) \in 1..Cardinality(S) /\ Ordered(S)[PlaceIn(S, e)] = e
         /\ \A i \in 1..Cardinality(S) : PlaceIn(S, Ordered(S)[i]) = i
         /\ \A i, j \in 1..Cardinality(S) : i < j => Ordered(S)[i] < Ordered(S)[j]
<1> DEFINE n == Cardinality(S)
           s == Ordered(S)
<1>1. n \in Nat
  BY FS_CardinalityType
<1>2. DOMAIN s = 1..n /\ \A i \in 1..n : s[i] \in S /\ PlaceIn(S, s[i]) = i
  <2>1. DOMAIN s = 1..n /\ \A i \in 1..n : s[i] = CHOOSE e \in S : PlaceIn(S, e) = i
    BY DEF Ordered
  <2>2. \A i \in 1..n : \E e \in S : PlaceIn(S, e) = i
    BY PlaceBijective
  <2> QED BY <2>1, <2>2
<1>3. s = [i \in 1..n |-> s[i]]
  BY DEF Ordered
<1>4. s \in [1..n -> S]
  BY <1>2, <1>3
<1>5. \A e \in S : PlaceIn(S, e) \in 1..n /\ s[PlaceIn(S, e)] = e
  <2> TAKE e \in S
  <2>1. PlaceIn(S, e) \in 1..n
    BY PlaceType
  <2>2. s[PlaceIn(S, e)] \in S /\ PlaceIn(S, s[PlaceIn(S, e)]) = PlaceIn(S, e)
    BY <1>2, <2>1
  <2>3. \A a, b \in S : PlaceIn(S, a) = PlaceIn(S, b) => a = b
    BY PlaceBijective
  <2> HIDE DEF s
  <2> QED BY <2>1, <2>2, <2>3
<1>6. \A i, j \in 1..n : i < j => s[i] < s[j]
  <2> SUFFICES ASSUME NEW i \in 1..n, NEW j \in 1..n, i < j, ~(s[i] < s[j]) PROVE FALSE
    OBVIOUS
  <2>1. s[i] \in S /\ s[j] \in S /\ PlaceIn(S, s[i]) = i /\ PlaceIn(S, s[j]) = j
    BY <1>2
  <2> HIDE DEF s
  <2>2. s[j] < s[i] \/ s[j] = s[i]
    <3>1. s[i] \in Nat /\ s[j] \in Nat
      BY <2>1
    <3> QED BY <3>1
  <2>3. CASE s[j] < s[i]
    <3>1. j < i
      BY <2>1, <2>3, PlaceGrows
    <3> QED BY <1>1, <3>1
  <2> QED BY <1>1, <2>1, <2>2, <2>3
<1> HIDE DEF s
<1>7. s \in Seq(S) /\ Len(s) = n
  BY <1>1, <1>4
<1> QED BY <1>1, <1>2, <1>4, <1>5, <1>6, <1>7 DEF s

\* A list that has as many entries as a set that contains the members of another has
\* the same members.
LEMMA SameSize ==
  ASSUME NEW S \in SUBSET Nat, IsFiniteSet(S), NEW T \in SUBSET S,
         Len(Ordered(S)) = Len(Ordered(T))
  PROVE  S = T
<1>1. IsFiniteSet(T) /\ T \in SUBSET Nat
  BY FS_Subset
<1>2. Cardinality(S) = Cardinality(T)
  BY <1>1, OrderedLists
<1> QED BY <1>2, FS_Subset

-----------------------------------------------------------------------------
(* Nested loops.                                                            *)

Loops(S, T) == S \in SUBSET Nat /\ IsFiniteSet(S) /\ \A i \in S : T[i] \in SUBSET Nat /\ IsFiniteSet(T[i])

LEMMA PairsFinite ==
  ASSUME NEW S, NEW T, Loops(S, T)
  PROVE  /\ IsFiniteSet(Pairs(S, T))
         /\ Pairs(S, T) = {p \in Nat \X Nat : p[1] \in S /\ p[2] \in T[p[1]]}
<1> DEFINE f == [i \in S |-> {i} \X T[i]]
           R == {{i} \X T[i] : i \in S}
<1>1. f \in Surjection(S, R)
  BY DEF Surjection
<1>2. IsFiniteSet(R)
  <2> HIDE DEF f, R
  <2> QED BY <1>1, FS_Surjection DEF Loops
<1>3. \A X \in R : IsFiniteSet(X)
  <2>1. \A i \in S : IsFiniteSet({i}) /\ IsFiniteSet(T[i])
    BY FS_Singleton DEF Loops
  <2>2. ASSUME NEW i \in S PROVE IsFiniteSet({i} \X T[i])
    BY <2>1, FS_Product
  <2> QED BY <2>2
<1>4. IsFiniteSet(UNION R)
  <2> HIDE DEF R
  <2> QED BY <1>2, <1>3, FS_UNION
<1>5. Pairs(S, T) = {p \in Nat \X Nat : p[1] \in S /\ p[2] \in T[p[1]]}
  <2>1. \A p \in Pairs(S, T) : p \in Nat \X Nat /\ p[1] \in S /\ p[2] \in T[p[1]]
    BY DEF Pairs, Loops
  <2>2. \A p \in Nat \X Nat : p[1] \in S /\ p[2] \in T[p[1]] => p \in Pairs(S, T)
    <3> SUFFICES ASSUME NEW p \in Nat \X Nat, p[1] \in S, p[2] \in T[p[1]] PROVE p \in {p[1]} \X T[p[1]]
      BY DEF Pairs
    <3> QED OBVIOUS
  <2> QED BY <2>1, <2>2
<1> QED BY <1>4, <1>5 DEF Pairs

LEMMA EarlierTotal ==
  \A p, q \in Nat \X Nat : Earlier(p, q) \/ Earlier(q, p) \/ p = q
<1> SUFFICES ASSUME NEW p \in Nat \X Nat, NEW q \in Nat \X Nat PROVE Earlier(p, q) \/ Earlier(q, p) \/ p = q
  OBVIOUS
<1>1. p = <<p[1], p[2]>> /\ q = <<q[1], q[2]>> /\ p[1] \in Nat /\ p[2] \in Nat /\ q[1] \in Nat /\ q[2] \in Nat
  OBVIOUS
<1> QED BY <1>1 DEF Earlier

LEMMA TurnType ==
  ASSUME NEW S, NEW T, Loops(S, T), NEW p \in Pairs(S, T)
  PROVE  Turn(S, T, p) \in 1..Cardinality(Pairs(S, T))
<1> DEFINE P == Pairs(S, T)
           upTo == {q \in P : q[1] < p[1] \/ (q[1] = p[1] /\ q[2] <= p[2])}
<1>1. IsFiniteSet(P) /\ P \in SUBSET (Nat \X Nat)
  BY PairsFinite
<1>2. upTo \in SUBSET P /\ p \in upTo
  <2>1. p[1] \in Nat /\ p[2] \in Nat
    BY <1>1
  <2> QED BY <2>1
<1>3. Turn(S, T, p) = Cardinality(upTo)
  BY DEF Turn
<1> HIDE DEF upTo, P
<1>4. IsFiniteSet(upTo) /\ Cardinality(upTo) <= Cardinality(P)
  BY <1>1, <1>2, FS_Subset
<1>5. Cardinality(upTo) # 0
  BY <1>2, <1>4, FS_EmptySet
<1>6. Cardinality(upTo) \in Nat /\ Cardinality(P) \in Nat
  BY <1>1, <1>4, FS_CardinalityType
<1> QED BY <1>3, <1>4, <1>5, <1>6 DEF P

LEMMA TurnGrows ==
  ASSUME NEW S, NEW T, Loops(S, T), NEW a \in Pairs(S, T), NEW b \in Pairs(S, T), Earlier(a, b)
  PROVE  Turn(S, T, a) < Turn(S, T, b)
<1> DEFINE P == Pairs(S, T)
           upTo(p) == {q \in P : q[1] < p[1] \/ (q[1] = p[1] /\ q[2] <= p[2])}
<1>1. IsFiniteSet(P) /\ \A p \in P : p[1] \in Nat /\ p[2] \in Nat
  BY PairsFinite
<1>2. upTo(a) \subseteq upTo(b) /\ upTo(b) \in SUBSET P /\ b \in upTo(b) /\ b \notin upTo(a)
  BY <1>1 DEF Earlier
<1>3. Turn(S, T, a) = Cardinality(upTo(a)) /\ Turn(S, T, b) = Cardinality(upTo(b))
  BY DEF Turn
<1> HIDE DEF upTo, P
<1>4. IsFiniteSet(upTo(b))
  BY <1>1, <1>2, FS_Subset
<1>5. /\ Cardinality(upTo(a)) <= Cardinality(upTo(b))
      /\ Cardinality(upTo(a)) # Cardinality(upTo(b))
  BY <1>2, <1>4, FS_Subset
<1>6. Turn(S, T, a) \in Nat /\ Turn(S, T, b) \in Nat
  BY TurnType
<1> QED BY <1>3, <1>5, <1>6

\* Every pair once, in the order of the loops.
LEMMA InTurnLists ==
  ASSUME NEW S, NEW T, Loops(S, T)
  PROVE  /\ Cardinality(Pairs(S, T)) \in Nat
         /\ DOMAIN InTurn(S, T) = 1..Cardinality(Pairs(S, T))
         /\ \A n \in DOMAIN InTurn(S, T) : InTurn(S, T)[n] \in Pairs(S, T)
         /\ \A p \in Pairs(S, T) : \E n \in DOMAIN InTurn(S, T) : InTurn(S, T)[n] = p
         /\ \A m, n \in DOMAIN InTurn(S, T) : m < n => Earlier(InTurn(S, T)[m], InTurn(S, T)[n])
<1> DEFINE P == Pairs(S, T)
           turn == [p \in P |-> Turn(S, T, p)]
           s == InTurn(S, T)
           n == Cardinality(P)
<1>1. IsFiniteSet(P) /\ P \in SUBSET (Nat \X Nat) /\ n \in Nat
  BY PairsFinite, FS_CardinalityType
<1>2. turn \in [P -> 1..n]
  BY TurnType
<1>3. \A a, b \in P : Turn(S, T, a) = Turn(S, T, b) => a = b
  <2> SUFFICES ASSUME NEW a \in P, NEW b \in P, Turn(S, T, a) = Turn(S, T, b), a # b PROVE FALSE
    OBVIOUS
  <2>1. Earlier(a, b) \/ Earlier(b, a)
    BY <1>1, EarlierTotal
  <2> QED BY <2>1, TurnGrows, TurnType
<1>4. turn \in Injection(P, 1..n)
  BY <1>2, <1>3 DEF Injection, IsInjective
<1>5. IsFiniteSet(1..n) /\ Cardinality(1..n) = n
  BY <1>1, FS_Interval
<1>6. turn \in Surjection(P, 1..n)
  <2> HIDE DEF turn
  <2> QED BY <1>4, <1>5, FS_Injection
<1>7. \A i \in 1..n : \E p \in P : Turn(S, T, p) = i
  BY <1>6 DEF Surjection
<1>8. DOMAIN s = 1..n /\ \A i \in 1..n : s[i] \in P /\ Turn(S, T, s[i]) = i
  <2>1. DOMAIN s = 1..n /\ \A i \in 1..n : s[i] = CHOOSE p \in P : Turn(S, T, p) = i
    BY DEF InTurn
  <2> QED BY <2>1, <1>7
<1> HIDE DEF s, turn
<1>9. \A p \in P : \E i \in DOMAIN s : s[i] = p
  BY <1>3, <1>8, TurnType
<1>10. \A i, j \in 1..n : i < j => Earlier(s[i], s[j])
  <2> SUFFICES ASSUME NEW i \in 1..n, NEW j \in 1..n, i < j, ~Earlier(s[i], s[j]) PROVE FALSE
    OBVIOUS
  <2>1. s[i] \in P /\ s[j] \in P /\ Turn(S, T, s[i]) = i /\ Turn(S, T, s[j]) = j
    BY <1>8
  <2>2. Earlier(s[j], s[i]) \/ s[i] = s[j]
    BY <2>1, <1>1, EarlierTotal
  <2>3. j < i \/ i = j
    BY <2>1, <2>2, TurnGrows
  <2> QED BY <1>1, <2>3
<1> QED BY <1>1, <1>8, <1>9, <1>10 DEF s

\* An initial segment in order is itself.
LEMMA IdentityOrdered ==
  ASSUME NEW n \in Nat
  PROVE  Ordered(1..n) = [i \in 1..n |-> i]
<1> DEFINE o == Ordered(1..n)
<1>1. 1..n \in SUBSET Nat /\ IsFiniteSet(1..n) /\ Cardinality(1..n) = n
  BY FS_Interval
<1>2. o \in [1..n -> 1..n] /\ \A i \in 1..n : PlaceIn(1..n, o[i]) = i
  BY <1>1, OrderedLists
<1>3. \A i \in 1..n : PlaceIn(1..n, i) = i
  <2> SUFFICES ASSUME NEW i \in 1..n PROVE PlaceIn(1..n, i) = i
    OBVIOUS
  <2>1. {x \in 1..n : x <= i} = 1..i /\ i \in Nat
    OBVIOUS
  <2>2. Cardinality(1..i) = i
    BY <2>1, FS_Interval
  <2> QED BY <2>1, <2>2 DEF PlaceIn
<1> HIDE DEF o
<1>4. \A i \in 1..n : o[i] = i
  BY <1>2, <1>3
<1> QED BY <1>2, <1>4 DEF o

\* So is any other run of numbers.
LEMMA SegmentOrdered ==
  ASSUME NEW lo \in Nat, NEW hi \in Nat, lo <= hi + 1
  PROVE  Ordered(lo..hi) = [n \in 1..(hi - lo + 1) |-> lo + n - 1]
<1> DEFINE o == Ordered(lo..hi)
           size == hi - lo + 1
<1>1. lo..hi \in SUBSET Nat /\ IsFiniteSet(lo..hi) /\ Cardinality(lo..hi) = size /\ size \in Nat
  <2>1. lo..hi \in SUBSET Nat /\ size \in Nat
    OBVIOUS
  <2>2. IsFiniteSet(lo..hi) /\ Cardinality(lo..hi) = IF lo > hi THEN 0 ELSE hi - lo + 1
    BY FS_Interval
  <2> QED BY <2>1, <2>2
<1>2. o \in [1..size -> lo..hi] /\ \A e \in lo..hi : o[PlaceIn(lo..hi, e)] = e
  BY <1>1, OrderedLists
<1>3. \A e \in lo..hi : PlaceIn(lo..hi, e) = e - lo + 1
  <2> SUFFICES ASSUME NEW e \in lo..hi PROVE PlaceIn(lo..hi, e) = e - lo + 1
    OBVIOUS
  <2>1. {x \in lo..hi : x <= e} = lo..e /\ e \in Nat /\ lo <= e
    OBVIOUS
  <2>2. Cardinality(lo..e) = e - lo + 1
    BY <2>1, FS_Interval
  <2> QED BY <2>1, <2>2 DEF PlaceIn
<1> HIDE DEF o
<1>4. \A n \in 1..size : o[n] = lo + n - 1
  <2> SUFFICES ASSUME NEW n \in 1..size PROVE o[n] = lo + n - 1
    OBVIOUS
  <2>1. lo + n - 1 \in lo..hi /\ (lo + n - 1) - lo + 1 = n
    OBVIOUS
  <2>2. o[PlaceIn(lo..hi, lo + n - 1)] = lo + n - 1 /\ PlaceIn(lo..hi, lo + n - 1) = (lo + n - 1) - lo + 1
    BY <2>1, <1>2, <1>3
  <2> QED BY <2>1, <2>2
<1> QED BY <1>2, <1>4 DEF o

-----------------------------------------------------------------------------
(* Any set in a strict total order.                                         *)

TotalOrder(R, S) ==
  /\ \A a \in S : <<a, a>> \notin R
  /\ \A a, b \in S : a # b => <<a, b>> \in R \/ <<b, a>> \in R
  /\ \A a, b, c \in S : <<a, b>> \in R /\ <<b, c>> \in R => <<a, c>> \in R

LEMMA RankType ==
  ASSUME NEW S, IsFiniteSet(S), NEW R, NEW e \in S
  PROVE  RankIn(S, R, e) \in 1..Cardinality(S)
<1> DEFINE upTo == {x \in S : x = e \/ <<x, e>> \in R}
<1>1. upTo \in SUBSET S /\ e \in upTo
  OBVIOUS
<1> HIDE DEF upTo
<1>2. IsFiniteSet(upTo) /\ Cardinality(upTo) <= Cardinality(S)
  BY <1>1, FS_Subset
<1>3. Cardinality(upTo) # 0
  BY <1>1, <1>2, FS_EmptySet
<1> QED BY <1>2, <1>3, FS_CardinalityType DEF RankIn, upTo

LEMMA RankGrows ==
  ASSUME NEW S, IsFiniteSet(S), NEW R, TotalOrder(R, S), NEW a \in S, NEW b \in S, <<a, b>> \in R
  PROVE  RankIn(S, R, a) < RankIn(S, R, b)
<1> DEFINE upTo(e) == {x \in S : x = e \/ <<x, e>> \in R}
<1>1. upTo(a) \subseteq upTo(b) /\ upTo(b) \in SUBSET S /\ b \in upTo(b) /\ b \notin upTo(a)
  BY DEF TotalOrder
<1>2. RankIn(S, R, a) = Cardinality(upTo(a)) /\ RankIn(S, R, b) = Cardinality(upTo(b))
  BY DEF RankIn
<1> HIDE DEF upTo
<1>3. IsFiniteSet(upTo(b))
  BY <1>1, FS_Subset
<1>4. /\ Cardinality(upTo(a)) <= Cardinality(upTo(b))
      /\ Cardinality(upTo(a)) # Cardinality(upTo(b))
  BY <1>1, <1>3, FS_Subset
<1> QED BY <1>2, <1>4, RankType

\* Every member stands once in the list, and the list is in that order.
LEMMA InOrderLists ==
  ASSUME NEW S, IsFiniteSet(S), NEW R, TotalOrder(R, S)
  PROVE  /\ Cardinality(S) \in Nat /\ DOMAIN InOrder(S, R) = 1..Cardinality(S)
         /\ InOrder(S, R) \in Seq(S) /\ Len(InOrder(S, R)) = Cardinality(S)
         /\ \A e \in S : \E n \in DOMAIN InOrder(S, R) : InOrder(S, R)[n] = e
         /\ \A m, n \in DOMAIN InOrder(S, R) : m < n => <<InOrder(S, R)[m], InOrder(S, R)[n]>> \in R
         /\ \A m, n \in DOMAIN InOrder(S, R) : InOrder(S, R)[m] = InOrder(S, R)[n] => m = n
<1> DEFINE size == Cardinality(S)
           rank == [e \in S |-> RankIn(S, R, e)]
           s == InOrder(S, R)
<1>1. size \in Nat
  BY FS_CardinalityType
<1>2. rank \in [S -> 1..size]
  BY RankType
<1>3. \A a, b \in S : rank[a] = rank[b] => a = b
  <2> SUFFICES ASSUME NEW a \in S, NEW b \in S, RankIn(S, R, a) = RankIn(S, R, b), a # b PROVE FALSE
    OBVIOUS
  <2>1. <<a, b>> \in R \/ <<b, a>> \in R
    BY DEF TotalOrder
  <2> QED BY <2>1, RankGrows, RankType
<1>4. rank \in Injection(S, 1..size)
  BY <1>2, <1>3 DEF Injection, IsInjective
<1>5. IsFiniteSet(1..size) /\ Cardinality(1..size) = size
  BY <1>1, FS_Interval
<1>6. \A n \in 1..size : \E e \in S : rank[e] = n
  <2> HIDE DEF rank
  <2>1. rank \in Surjection(S, 1..size)
    BY <1>4, <1>5, FS_Injection
  <2> QED BY <2>1 DEF Surjection
<1>7. DOMAIN s = 1..size /\ \A n \in 1..size : s[n] \in S /\ rank[s[n]] = n
  <2>1. DOMAIN s = 1..size /\ \A n \in 1..size : s[n] = CHOOSE e \in S : RankIn(S, R, e) = n
    BY DEF InOrder
  <2> QED BY <2>1, <1>6
<1>8. s = [n \in 1..size |-> s[n]]
  BY DEF InOrder
<1>9. \A a, b \in S : <<a, b>> \in R => rank[a] < rank[b]
  BY RankGrows
<1> HIDE DEF rank, s
<1>10. s \in Seq(S) /\ Len(s) = size
  BY <1>1, <1>7, <1>8
<1>11. \A e \in S : \E n \in DOMAIN s : s[n] = e
  BY <1>2, <1>3, <1>7
<1>12. ASSUME NEW m \in DOMAIN s, NEW n \in DOMAIN s, m < n PROVE <<s[m], s[n]>> \in R
  <2>1. s[m] \in S /\ s[n] \in S /\ rank[s[m]] = m /\ rank[s[n]] = n /\ m \in Nat /\ n \in Nat
    BY <1>1, <1>7
  <2>2. s[m] # s[n] /\ ~(<<s[n], s[m]>> \in R)
    BY <2>1, <1>9, <1>12
  <2> QED BY <2>1, <2>2 DEF TotalOrder
<1>13. \A m, n \in DOMAIN s : s[m] = s[n] => m = n
  BY <1>7
<1> QED BY <1>1, <1>7, <1>10, <1>11, <1>12, <1>13 DEF s

-----------------------------------------------------------------------------
(* What a recursive function computes, one step after the other.            *)

LEMMA StepByStep ==
  ASSUME NEW N \in Nat, NEW P, 0 \in P, \A n \in 1..N : n - 1 \in P => n \in P
  PROVE  \A n \in 0..N : n \in P
<1> DEFINE T == {n \in 0..N : n \notin P}
<1> SUFFICES ASSUME T # {} PROVE FALSE
  OBVIOUS
<1>1. T \in SUBSET Nat
  OBVIOUS
<1>2. PICK x \in T : \A y \in T : x <= y
  BY <1>1, LeastNumber
<1>3. x \in 1..N /\ x - 1 \in 0..N /\ x - 1 < x
  BY <1>2
<1>4. x - 1 \in P
  BY <1>2, <1>3
<1> QED BY <1>2, <1>3, <1>4

\* The functions that take N steps from a base.
Steps(S, base, N, F) == {g \in [0..N -> S] : g[0] = base /\ \A n \in 1..N : g[n] = F[n][g[n - 1]]}

LEMMA StepsTaken ==
  ASSUME NEW S, NEW base \in S, NEW N \in Nat, NEW F, \A n \in 1..N, a \in S : F[n][a] \in S
  PROVE  Steps(S, base, N, F) # {}
<1> DEFINE Taken(g, n) == g \in [0..n -> S] /\ g[0] = base /\ \A m \in 1..n : g[m] = F[m][g[m - 1]]
           P == {n \in 0..N : \E g : Taken(g, n)}
<1>1. 0 \in P
  <2> DEFINE z == [m \in 0..0 |-> base]
  <2>1. Taken(z, 0)
    OBVIOUS
  <2> HIDE DEF z
  <2>2. \E g : Taken(g, 0)
    BY <2>1
  <2> QED BY <2>2
<1>2. ASSUME NEW n \in 1..N, n - 1 \in P PROVE n \in P
  <2>1. PICK g : Taken(g, n - 1)
    BY <1>2
  <2> DEFINE h == [m \in 0..n |-> IF m = n THEN F[n][g[n - 1]] ELSE g[m]]
  <2>2. g[n - 1] \in S /\ F[n][g[n - 1]] \in S
    BY <2>1
  <2>3. h \in [0..n -> S]
    BY <2>1, <2>2
  <2>4. \A m \in 1..n : h[m - 1] = g[m - 1]
    OBVIOUS
  <2>5. h[0] = base
    BY <2>1
  <2>6. h[n] = F[n][g[n - 1]] /\ \A m \in 1..(n - 1) : h[m] = g[m]
    OBVIOUS
  <2> HIDE DEF h
  <2>7. \A m \in 1..n : h[m] = F[m][h[m - 1]]
    <3> TAKE m \in 1..n
    <3>1. CASE m = n
      BY <3>1, <2>4, <2>6
    <3>2. CASE m # n
      <4>1. m \in 1..(n - 1)
        BY <3>2
      <4>2. g[m] = F[m][g[m - 1]]
        BY <4>1, <2>1
      <4> QED BY <4>1, <4>2, <2>4, <2>6
    <3> QED BY <3>1, <3>2
  <2>8. Taken(h, n)
    BY <2>3, <2>5, <2>7
  <2>9. \E k : Taken(k, n)
    BY <2>8
  <2> QED BY <2>9
<1> HIDE DEF P
<1>3. N \in P
  BY <1>1, <1>2, StepByStep
<1> QED BY <1>3 DEF P, Steps
=============================================================================
