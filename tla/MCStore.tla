------------------------------ MODULE MCStore ------------------------------
(***************************************************************************)
(* Model values for Store: contents of one and of two chunks, two of which *)
(* share a chunk, so that an update may keep, shrink or grow the array and *)
(* may reuse an embedding; and programs that use a store.                  *)
(***************************************************************************)
EXTENDS Store

\* Contents "x" and "y" have one chunk, "xz" has two and shares one with "x".
MCPieces == [x |-> <<"p">>, y |-> <<"q">>, xz |-> <<"p", "r">>]
MCContents == DOMAIN MCPieces

Program(calls, atOnce, contents, batch, modes) ==
  [calls |-> calls, atOnce |-> atOnce, contents |-> contents, batch |-> batch, modes |-> modes]

\* A server: two requests at once.
Serving == Program({"add", "delete", "build", "retrieve", "graph"}, 2, MCContents, 1, {})

\* A command, or a server with one client, that saves stores and is restarted: with
\* updates that keep the number of chunks, and with updates that do not.
Reopening ==
  {Program({"add", "delete", "retrieve", "graph", "save"}, 1, {"x", "y"}, 1, {"codes"}),
   Program({"add", "delete", "retrieve", "graph", "save"}, 1, {"x", "xz"}, 1, {"codes", "exact"})}

\* Updates that change the number of chunks, in every vector mode.
Growing == Program({"add", "delete", "retrieve", "save"}, 2, {"x", "xz"}, 1, {"exact", "codes", "none"})

\* A store built, or merged, from several documents at once.
Building == Program({"build", "merge", "delete", "add", "retrieve", "graph"}, 1, MCContents, 2, {})

\* Bulk ingestion beside other requests, and resumed in a new process.
Ingesting == Program({"add", "delete", "ingest"}, 2, MCContents, 1, {})
Resuming == Program({"ingest", "save"}, 1, {"x", "xz"}, 2, {"exact"})

\* A command that merges a source into its store and saves it.
Merging == Program({"merge", "save", "retrieve"}, 1, {"x", "y"}, 2, {"exact"})

Programs == {Serving, Growing, Building, Ingesting, Resuming, Merging} \cup Reopening

\* A program that updates documents.
Updating == {Program({"add"}, 1, MCContents, 1, {})}

\* A server that answers queries while it ingests.
IngestingAndServing == {Program({"add", "ingest", "retrieve"}, 2, MCContents, 1, {})}

\* A store that is loaded, and then ingested into or built anew before its first query.
Reloaded == {Program({call, "save", "retrieve"}, 1, {"x", "y"}, 1, {"codes"}) : call \in {"ingest", "build"}}

\* The programs are such as the theorems about Store speak of.
ASSUME ProgramsAssumption ==
  /\ MergesAlone(Programs) /\ Chunked(Programs) /\ AnswersAlone(Programs)
  /\ UpdatesAlone(Programs) /\ SavesApart(Programs \ {Resuming})

Symmetry == Permutations(Docs) \cup Permutations(Clients)
=============================================================================
