--------------------------- MODULE MCEntityGraph ---------------------------
(***************************************************************************)
(* Model values for EntityGraph: three entities and two texts that share   *)
(* two of them, so that a document that goes moves the nodes of the other  *)
(* and leaves it a relation that only the first one stated, and programs   *)
(* that use the graph.                                                     *)
(***************************************************************************)
EXTENDS EntityGraph

CONSTANTS d1, d2, x, y

MCNames == 1..3

Chain == x :> [names |-> {}, facts |-> {<<1, 2>>, <<2, 3>>}] @@ y :> [names |-> {2, 3}, facts |-> {}]
Sparse == x :> [names |-> {1}, facts |-> {}] @@ y :> [names |-> {}, facts |-> {<<1, 3>>}]

OneModel == "m1" :> Chain
TwoModels == "m1" :> Chain @@ "m2" :> Sparse

Program(calls, atOnce, docs, models, checkpoints) ==
  [calls |-> calls, atOnce |-> atOnce, docs |-> docs, models |-> models, checkpoints |-> checkpoints]

\* A command that extracts, saves as it goes, is killed and run again.
Command == Program({"add", "delete", "build", "query", "save"}, 1, {d1, d2}, {"m1"}, TRUE)

\* A server: documents change during builds and queries.
Server == Program({"add", "delete", "build", "query"}, 2, {d1, d2}, {"m1"}, FALSE)

\* A command that extracts with one model, is interrupted, and goes on with another.
Switching == Program({"add", "build", "cancel"}, 1, {d1}, {"m1", "m2"}, TRUE)

\* A program that ingests again what has changed, between builds.
Ingesting == Program({"ingest", "delete", "build", "query"}, 1, {d1, d2}, {"m1"}, FALSE)

\* A program that extracts and then forgets a document.
Forgetting == Program({"add", "delete", "build"}, 1, {d1, d2}, {"m1"}, FALSE)

Forgetters == {Forgetting}

Programs == {Command, Server, Switching, Ingesting}
Servers == {Server}

Symmetry == Permutations(Clients)
=============================================================================
