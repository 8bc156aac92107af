---------------------------- MODULE MCStoreFile ----------------------------
(***************************************************************************)
(* Model values for StoreFile: two store files, two documents, two texts,  *)
(* and the command lines the processes may be started with.                *)
(***************************************************************************)
EXTENDS StoreFile, TLC

CONSTANTS a, b, d1, d2, x, y

Line(kind, store, doc, text, srcs) ==
  [kind |-> kind, store |-> store, doc |-> doc, text |-> text, srcs |-> srcs]

Add(s, d, t) == Line("add", s, d, t, <<>>)
Forget(s, d) == Line("forget", s, d, x, <<>>)
Merge(s, srcs) == Line("merge", s, d1, x, srcs)
Entities(s) == Line("entities", s, d1, x, <<>>)
Ingest(s, d, t) == Line("ingest", s, d, t, <<>>)
Query(s) == Line("search", s, d1, x, <<>>)

\* Agents that write and read one store and gather another, which is ingested, into it.
MCCommands ==
  {Add(a, d1, x), Add(a, d1, y), Forget(a, d1), Merge(a, <<b>>), Entities(a), Query(a), Ingest(b, d2, y)}

\* An ingest among the agents.
IngestCommands == {Add(a, d1, x), Ingest(a, d2, y)}

One(d, t) == [docs |-> [e \in Docs |-> IF e = d THEN t ELSE NULL], read |-> {}]

NoFiles == {[s \in Paths |-> NULL]}
SomeFiles == {[s \in Paths |-> NULL], [s \in Paths |-> One(d1, x)]}

Symmetry == Permutations(Procs)
=============================================================================
