----------------------------- MODULE Retrieval -----------------------------
(***************************************************************************)
(* The calls of the library that change nothing: a document is cut into    *)
(* chunks, and chunks are ranked for a query.  A call is an input; what it *)
(* returns is compared with what it promises.                              *)
(***************************************************************************)
EXTENDS Passages, Ranking

CONSTANTS
  Inputs,  \* sets of calls
  NULL

VARIABLE input

Init == input = NULL

Call(in) == input = NULL /\ input' = in

Next == \E n \in DOMAIN Inputs : \E in \in Inputs[n] : Call(in)

Spec == Init /\ [][Next]_input

-----------------------------------------------------------------------------
Called(kind) == input # NULL /\ input.kind = kind

\* A document is cut into chunks that have words and stand where their spans say, in
\* order; in a text that repeats no word they hold all of it, overlap by no more than
\* was asked and are no longer than the target allows, and tables and fenced blocks stay
\* whole under the headings they stand under.
ChunksHoldTheText == Called("cut") => ChunksFit(input.text, input.cfg)

\* Retrieval returns the best passages by the scores it shows, whatever order a map is
\* walked in (but for a tie among the entities that seed the walk); the bounded heap of
\* the lexical index, the shortcut past the graph, PageRank, diversification, reranking
\* and the choice of facts each agree with their definition.
RankingIsSound ==
  /\ Called("search") => HeapFits(input.scores, input.k, input.order)
  /\ Called("walk") => WalkFits(input.graph, input.seeds, input.steps)
  /\ Called("facts") => FactsFit(input.kg, input.chunks, input.maxRels)
  /\ Called("question") => QuestionFits(input)
  /\ Called("rerank") => RerankFits(input.base, input.model, input.wanted)
=============================================================================
