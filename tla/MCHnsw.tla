------------------------------- MODULE MCHnsw -------------------------------
(* Hnsw for TLC: three directions, two of them near each other. *)
EXTENDS Hnsw

Gap == <<0, 1, 3>>

Directions == 1..3

Distances == [u \in Directions |-> [v \in Directions |->
  IF Gap[u] < Gap[v] THEN Gap[v] - Gap[u] ELSE Gap[u] - Gap[v]]]

\* A wide search, a narrow one, and one that may find only one of the nodes.
Searches ==
  { [vec |-> 1, k |-> 2, ef |-> 5, accept |-> Ordinals],
    [vec |-> 3, k |-> 1, ef |-> 1, accept |-> Ordinals],
    [vec |-> 2, k |-> 1, ef |-> 2, accept |-> {2, 4}] }
=============================================================================
