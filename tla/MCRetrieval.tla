---------------------------- MODULE MCRetrieval ----------------------------
(* Retrieval for TLC: the inputs of each kind of call. *)
EXTENDS Retrieval

\* The ids of the chunks do not sort as the chunks do.
SortedIds == <<2, 3, 1, 5, 4>>

Over(alphabet, n) == UNION {[1..k -> alphabet] : k \in 0..n}

-----------------------------------------------------------------------------
(* Texts to cut: all their words the same, or no two of them.               *)

Text(kinds, same) ==
  [i \in DOMAIN kinds |-> IF kinds[i] = "nl" THEN NL ELSE [kind |-> kinds[i], name |-> IF same THEN 0 ELSE i]]

Flat(alphabet, n) == {Text(kinds, same) : kinds \in Over(alphabet, n), same \in BOOLEAN}

Shapes == {<<>>, <<"word">>, <<"word", "word">>, <<"h1", "word">>, <<"h2", "word">>, <<"row">>, <<"fence">>}

Ruled(n) ==
  {Text(FlattenSeq([i \in DOMAIN lines |-> IF i < Len(lines) THEN Append(lines[i], "nl") ELSE lines[i]]), FALSE) :
     lines \in Over(Shapes, n)}

\* Targets and overlaps, one of them too large for its target.
Cuts(strategy, texts, bounds) ==
  [kind : {"cut"}, text : texts, cfg : {[strategy |-> strategy, target |-> b[1], overlap |-> b[2]] : b \in bounds}]

CutInputs ==
  << Cuts("word", Flat({"word", "nl"}, 6), {<<2, 0>>, <<3, 1>>, <<3, 2>>, <<2, 5>>}),
     Cuts("recursive", Flat({"word", "stop", "nl"}, 5), {<<1, 0>>, <<2, 0>>, <<2, 1>>, <<3, 1>>}),
     Cuts("sentence", Flat({"word", "stop", "abbrev", "capital"}, 4), {<<1, 0>>, <<2, 0>>, <<2, 1>>}),
     Cuts("markdown", Ruled(4), {<<1, 0>>, <<2, 1>>}) >>

-----------------------------------------------------------------------------
(* Five scores, in any order of the map; graphs on three nodes.             *)

Orders(n) == {o \in [1..n -> 1..n] : IsInjective(o)}

SearchInputs ==
  [kind : {"search"}, scores : {s \in [1..5 -> 1..2] : s[1] = 1}, k : 2..4, order : Orders(5)]

Weighted == {Build(1..3, {[a |-> 1, b |-> 2, weight |-> w[1]], [a |-> 2, b |-> 3, weight |-> w[2]], [a |-> 1, b |-> 3, weight |-> w[3]]}) :
  w \in [1..3 -> 0..2]}

WalkInputs ==
  [kind : {"walk"}, graph : Weighted, seeds : [1..3 -> 0..1] \ {<<0, 0, 0>>}, steps : 1..2]

-----------------------------------------------------------------------------
(* Entity graphs: three entities of two chunks, three relations.            *)

Entity(chunks, name, sim) == [chunks |-> chunks, name |-> name, sim |-> sim]
Rel(a, b, w, sim) == [source |-> a, target |-> b, weight |-> w, sim |-> sim]

KGs ==
  {[entities |-> <<Entity(c[1], <<"x">>, 1), Entity(c[2], <<"y">>, 0), Entity(c[3], <<"z">>, 0)>>,
    relations |-> <<Rel(1, 2, w[1], w[1]), Rel(2, 3, w[2], 0), Rel(1, 3, w[3], 1)>>] :
     c \in [1..3 -> {{1}, {2}, {1, 2}}], w \in [1..3 -> 1..2]}

FactInputs ==
  [kind : {"facts"}, kg : KGs, chunks : SUBSET {1, 2}, maxRels : 0..2]

-----------------------------------------------------------------------------
(* Questions asked of three chunks, of four to diversify.                    *)

Chain == Build(1..3, {[a |-> 1, b |-> 2, weight |-> 1], [a |-> 2, b |-> 3, weight |-> 2]})

\* Halves of a cosine: each of four chunks is half like two others.
Alike == <<<<2, 1, 0, 1>>, <<1, 2, 1, 0>>, <<0, 1, 2, 1>>, <<1, 0, 1, 2>>>>

SomeKGs == {kg \in KGs : kg.entities[2].chunks = {2} /\ kg.relations[1].weight = 1 /\ kg.relations[2].weight = 2}

Asked(docs, sims, graphMix, entityMix, link, lexical, mmr, filter, wanted, seedK, kgs) ==
  [kind : {"question"}, docs : docs, query : {<<"x", "y", "x">>}, sim : sims, order : {<<2, 4, 3, 1>>},
   graph : {Chain}, graphMix : graphMix, entityMix : entityMix, link : link, lexical : lexical, mmr : mmr,
   near : {Alike}, filter : filter, TopK : wanted, SeedK : seedK, kg : kgs]

Docs == {<<"x">>, <<"x", "x", "y">>, <<"z">>}
Sims == [1..3 -> {-1, 1, 2}]
All  == {{1, 2, 3}}

\* Without the entity graph: with the lexical index, filtered or not, and without it;
\* diversified; with the entity graph.
AnyKG == {CHOOSE kg \in SomeKGs : TRUE}

QuestionInputs ==
  << Asked([1..3 -> Docs], Sims, BOOLEAN, {FALSE}, {"fact"}, {TRUE}, {FALSE}, All \cup {{2, 3}}, {2}, {2}, AnyKG),
     Asked([1..3 -> {<<"x">>}], Sims, BOOLEAN, {FALSE}, {"fact"}, {FALSE}, {FALSE}, All \cup {{2, 3}}, 1..2, {2}, AnyKG),
     Asked([1..4 -> {<<"x">>, <<"z">>}], [1..4 -> 1..2], {FALSE}, {FALSE}, {"fact"}, {TRUE}, {TRUE}, {1..4}, 1..3, {3, 4}, AnyKG),
     Asked({<<<<"x">>, <<"y", "x">>, <<"z">>>>}, Sims, BOOLEAN, {TRUE}, {"fact", "node"}, {TRUE}, {FALSE}, All, {2}, {1}, SomeKGs) >>

RerankInputs ==
  [i \in 1..4 |->
     LET base == <<<<3, 2, 2>>, <<3, 3, 1>>, <<2, 1, 1, 1>>, <<2>>>>[i]
     IN  [kind : {"rerank"}, base : {base}, model : {<<>>} \cup [DOMAIN base -> -1..2], wanted : 1..3]]

AllInputs == CutInputs \o QuestionInputs \o RerankInputs \o <<SearchInputs, WalkInputs, FactInputs>>
=============================================================================
