------------------------------ MODULE MCIngest ------------------------------
(***************************************************************************)
(* Model values for Ingest: files, two with the same text.   *)
(***************************************************************************)
EXTENDS Ingest, TLC

CONSTANTS f1, f2, f3, f4, n1

\* f1 and f2 have the same text.
TwinText == [d \in Docs |-> IF d = f2 THEN f1 ELSE d]

\* Every document has a text of its own.
OwnText == [d \in Docs |-> d]

WorkerSymmetry == Permutations(Workers)
=============================================================================
