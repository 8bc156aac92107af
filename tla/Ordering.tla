------------------------------ MODULE Ordering ------------------------------
(***************************************************************************)
(* A finite set of numbers in increasing order, as sort.Strings, sort.Ints *)
(* and a loop over the indices of a slice give it.  Defined by rank, so    *)
(* that it needs no recursion and can be reasoned about.                   *)
(***************************************************************************)
EXTENDS Naturals, FiniteSets

\* Where e stands in S.
PlaceIn(S, e) == Cardinality({x \in S : x <= e})

Ordered(S) == [i \in 1..Cardinality(S) |-> CHOOSE e \in S : PlaceIn(S, e) = i]

\* Where e stands in S when R holds the pairs of an element and a later one, and all of S
\* in that order, as sort.Slice gives it.
RankIn(S, R, e) == Cardinality({x \in S : x = e \/ <<x, e>> \in R})

InOrder(S, R) == [n \in 1..Cardinality(S) |-> CHOOSE e \in S : RankIn(S, R, e) = n]

\* The one pair before the other, by its first number and then by its second.
Earlier(p, q) == p[1] < q[1] \/ (p[1] = q[1] /\ p[2] < q[2])

\* Two nested loops: for every i of S in turn, every j of T[i] in turn.
Pairs(S, T) == UNION {{i} \X T[i] : i \in S}

Turn(S, T, p) == Cardinality({q \in Pairs(S, T) : q[1] < p[1] \/ (q[1] = p[1] /\ q[2] <= p[2])})

InTurn(S, T) == [n \in 1..Cardinality(Pairs(S, T)) |-> CHOOSE p \in Pairs(S, T) : Turn(S, T, p) = n]
=============================================================================
