------------------------------ MODULE Ranking ------------------------------
(***************************************************************************)
(* How the chunks of a store are ranked for a query: the lexical index and *)
(* its bounded heap (lexical/bm25.go), the fusion of ranked lists          *)
(* (lexical/rrf.go), personalized PageRank (graph/graph.go), the signals of*)
(* the entity graph (rag/entitygraph.go), their blend (rag/store.go        *)
(* Retrieve) and its diversification (rag/mmr.go).                         *)
(*                                                                         *)
(* Go walks a map in an order of its own at every call: where the code     *)
(* does, an operator takes that order as a parameter.                      *)
(*                                                                         *)
(* Abstractions.  Chunks are numbered from 1, and Ids[i] says where the id *)
(* of chunk i sorts.  Scores are exact: a score is an integer over a       *)
(* denominator that everything it is compared with shares.  The weight of  *)
(* a term is the number of documents without it plus one, and a document's *)
(* score saturates at two occurrences and not by length.  PageRank halves  *)
(* the mass at every step and takes Iterations steps.                      *)
(***************************************************************************)
EXTENDS SequencesExt

CONSTANTS
  Ids,         \* where the id of each chunk sorts
  RRFK,        \* the constant of the fusion
  Iterations,  \* the steps of PageRank
  TopFacts, CapNodes  \* how many facts and entities factSeeds takes

\* The members of S, the best first.
Sorted(S, Better(_, _)) == SetToSortSeq(S, Better)
Top(k, s) == SubSeq(s, 1, Min({k, Len(s)}))
Total(f) == FoldFunction(+, 0, f)
Sum(S, f(_)) == FoldSet(LAMBDA i, sum : sum + f(i), 0, S)
Highest(f) == Max({f[i] : i \in DOMAIN f} \cup {0})
Spread(f, S) == [i \in S |-> IF i \in DOMAIN f THEN f[i] ELSE 0]

-----------------------------------------------------------------------------
(* The lexical index.                                                       *)

\* The postings of a sequence of documents, each a sequence of terms.
Postings(docs, t) ==
  LET tf(i) == Cardinality({j \in DOMAIN docs[i] : docs[i][j] = t})
  IN  SelectSeq([i \in DOMAIN docs |-> [ord |-> i, tf |-> tf(i)]], LAMBDA p : p.tf > 0)

idf(docs, t) == Len(docs) - Len(Postings(docs, t)) + 1

termScore(weight, tf) == weight * Min({tf, 2})

\* The scores of the documents with a term of the query; a term it repeats counts once.
Accumulated(docs, query) ==
  LET places(t) == ToSet(Postings(docs, t))
      matched   == UNION {{p.ord : p \in places(t)} : t \in ToSet(query)}
      of(i, t)  == Sum({p \in places(t) : p.ord = i}, LAMBDA p : termScore(idf(docs, t), p.tf))
  IN  [i \in matched |-> Sum(ToSet(query), LAMBDA t : of(i, t))]

\* Wrong variant of worse: ties are left to the order of the scan.
worseByScore(a, b) ==
  a.score < b.score

\* a ranks below b: the lower score, and the later of equal ones.
worse(a, b) ==
  a.score < b.score \/ (a.score = b.score /\ a.ord > b.ord)

Swap(h, i, j) == [h EXCEPT ![i] = h[j], ![j] = h[i]]

RECURSIVE SiftUp(_, _)
SiftUp(h, i) ==
  IF i > 1 /\ worse(h[i], h[i \div 2]) THEN SiftUp(Swap(h, i, i \div 2), i \div 2) ELSE h

RECURSIVE SiftDown(_, _)
SiftDown(h, i) ==
  LET below(j, k) == IF j \in DOMAIN h /\ worse(h[j], h[k]) THEN j ELSE k
      small == below(2 * i + 1, below(2 * i, i))
  IN  IF small = i THEN h ELSE SiftDown(Swap(h, i, small), small)

push(h, s) == SiftUp(Append(h, s), Len(h) + 1)

replaceMin(h, s) == SiftDown([h EXCEPT ![1] = s], 1)

\* By score, and by id among equals.
sortResults(rs) ==
  Sorted(rs, LAMBDA a, b : a.score > b.score \/ (a.score = b.score /\ Ids[a.ord] < Ids[b.ord]))

\* The k best of the scores, scanned in the order of a map.
topK(scores, k, order) ==
  LET hit(i) == [ord |-> i, score |-> scores[i]]
      keep(h, i) == IF Len(h) < k THEN push(h, hit(i))
                    ELSE IF worse(h[1], hit(i)) THEN replaceMin(h, hit(i)) ELSE h
  IN  IF k >= Len(order) THEN sortResults({hit(i) : i \in ToSet(order)})
      ELSE sortResults(ToSet(FoldLeft(keep, <<>>, order)))

Search(docs, query, k, order) ==
  LET scores == Accumulated(docs, query)
  IN  IF k <= 0 THEN <<>> ELSE topK(scores, k, SelectSeq(order, LAMBDA i : i \in DOMAIN scores))

\* Reciprocal rank fusion: a document counts at its place in each list, from 0.  The
\* fused scores are over the product of what they may be divided by.
RRF(lists) ==
  LET places == {RRFK + n : n \in 0..(Max({Len(list) : list \in ToSet(lists)}) - 1)}
      one    == FoldSet(LAMBDA n, product : n * product, 1, places)
      share(list, i) == LET n == SelectInSeq(list, LAMBDA r : r.ord = i)
                        IN  IF n = 0 THEN 0 ELSE one \div (RRFK + n - 1)
      fused(i) == FoldSeq(LAMBDA list, sum : sum + share(list, i), 0, lists)
  IN  sortResults({[ord |-> i, score |-> fused(i)] : i \in UNION {{r.ord : r \in ToSet(list)} : list \in ToSet(lists)}})

-----------------------------------------------------------------------------
(* Graphs and personalized PageRank.                                        *)

\* Repeated edges keep the highest weight; an edge of a node with itself is none.
Build(nodes, edges) ==
  LET weights(i, j) == {e.weight : e \in {e \in edges : {e.a, e.b} = {i, j} /\ e.a # e.b}}
  IN  [i \in nodes |-> [j \in nodes |-> Max(weights(i, j) \cup {0})]]

\* Wrong variant of Step: the mass of a node without edges is lost.
StepLosing(g, s, total, r) ==
  LET outSum(i) == Total(g[i])
  IN  [j \in DOMAIN r |->
         (s[j] + Sum({i \in DOMAIN r : outSum(i) > 0}, LAMBDA i : (r[i] \div outSum(i)) * g[i][j])) \div 2]

\* Half of the mass restarts at the seeds, of mass s in all `total`; each node pushes
\* the other half of its own along its edges by weight, and a node without edges gives
\* it back to the seeds.
Step(g, s, total, r) ==
  LET outSum(i) == Total(g[i])
      dangling  == Sum({i \in DOMAIN r : outSum(i) = 0}, LAMBDA i : r[i])
      pushed(j) == Sum({i \in DOMAIN r : outSum(i) > 0}, LAMBDA i : (r[i] \div outSum(i)) * g[i][j])
  IN  [j \in DOMAIN r |-> (s[j] + pushed(j) + ((dangling * s[j]) \div total)) \div 2]

\* The mass in all is the seeds' times what keeps every division exact.
Mass(seeds, n) == Total(seeds) * (24 * Total(seeds)) ^ n

PersonalizedPageRank(g, seeds, n) ==
  LET s == [i \in DOMAIN g |-> seeds[i] * (24 * Total(seeds)) ^ n]
      r[k \in 0..n] == IF k = 0 THEN s ELSE Step(g, s, Mass(seeds, n), r[k - 1])
  IN  IF Total(seeds) = 0 THEN seeds ELSE r[n]

-----------------------------------------------------------------------------
(* The signals of the entity graph.  An entity has the chunks that mention  *)
(* it, the terms of its name and the similarity of its vector to the query; *)
(* a relation joins two, with a weight and a similarity.  Similarities are  *)
(* counted from the floor of a match.                                       *)

entCSR(kg) ==
  Build(DOMAIN kg.entities, {[a |-> r.source, b |-> r.target, weight |-> r.weight] : r \in ToSet(kg.relations)})

\* The strongest facts seed the entities they join, each by how few chunks it has, in
\* halves; of more than CapNodes the strongest are kept, in the order of a map.
factSeeds(kg, order) ==
  LET facts  == Sorted({f \in DOMAIN kg.relations : kg.relations[f].sim > 0},
                  LAMBDA f, h : kg.relations[f].sim > kg.relations[h].sim
                                \/ (kg.relations[f].sim = kg.relations[h].sim /\ f < h))
      taken  == ToSet(Top(TopFacts, facts))
      ends(f) == <<kg.relations[f].source, kg.relations[f].target>>
      nodes  == UNION {ToSet(ends(f)) : f \in taken}
      damped(f, e) == kg.relations[f].sim * (2 \div Max({1, Cardinality(kg.entities[e].chunks)}))
      seed(e) == Sum({<<f, k>> \in taken \X {1, 2} : ends(f)[k] = e}, LAMBDA p : damped(p[1], e))
      ranked == Sorted(nodes, LAMBDA a, b : seed(a) > seed(b)
                  \/ (seed(a) = seed(b) /\ SelectInSeq(order, LAMBDA n : n = a) < SelectInSeq(order, LAMBDA n : n = b)))
  IN  [e \in ToSet(Top(CapNodes, ranked)) |-> seed(e)]

lexicalEntityHits(kg, query) ==
  LET hits(e) == Cardinality({t \in DOMAIN kg.entities[e].name : kg.entities[e].name[t] \in ToSet(query)})
  IN  [e \in {e \in DOMAIN kg.entities : hits(e) > 0} |-> hits(e)]

\* The similar entities, and half of its literal matches to each, in halves.
entitySeeds(kg, query) ==
  LET lex == lexicalEntityHits(kg, query)
      near == {e \in DOMAIN kg.entities : kg.entities[e].sim > 0}
  IN  [e \in near \cup DOMAIN lex |->
         (IF e \in near THEN 2 * kg.entities[e].sim ELSE 0) + (IF e \in DOMAIN lex THEN lex[e] ELSE 0)]

Seeded(kg, query, link, order) == IF link = "node" THEN entitySeeds(kg, query) ELSE factSeeds(kg, order)

\* What entities weigh, put on the chunks that mention them.
Mentioning(kg, weight) ==
  LET chunks == UNION {kg.entities[e].chunks : e \in {e \in DOMAIN kg.entities : weight[e] > 0}}
  IN  [i \in chunks |-> Sum({e \in DOMAIN kg.entities : i \in kg.entities[e].chunks}, LAMBDA e : weight[e])]

\* The PageRank of the entities on the chunks that mention them; <<>> when the query
\* matched nothing.
entityChunkScores(kg, seeds) ==
  IF seeds = <<>> THEN <<>>
  ELSE Mentioning(kg, PersonalizedPageRank(entCSR(kg), Spread(seeds, DOMAIN kg.entities), Iterations))

\* Wrong variant of RelationContext: a heavy bridge before a light grounded fact.
RelationsByWeight(kg, chunks, maxRels) ==
  LET present(e) == kg.entities[e].chunks \cap chunks # {}
      touched == {f \in DOMAIN kg.relations : present(kg.relations[f].source) \/ present(kg.relations[f].target)}
  IN  Top(maxRels, Sorted(touched, LAMBDA f, h :
        \/ kg.relations[f].weight > kg.relations[h].weight
        \/ kg.relations[f].weight = kg.relations[h].weight /\ f < h))

\* The relations that retrieved chunks speak of: of both ends first, then by weight.
RelationContext(kg, chunks, maxRels) ==
  LET present(e) == kg.entities[e].chunks \cap chunks # {}
      both(f)    == present(kg.relations[f].source) /\ present(kg.relations[f].target)
      touched == {f \in DOMAIN kg.relations : present(kg.relations[f].source) \/ present(kg.relations[f].target)}
  IN  Top(maxRels, Sorted(touched, LAMBDA f, h :
        \/ both(f) /\ ~both(h)
        \/ both(f) = both(h) /\ kg.relations[f].weight > kg.relations[h].weight
        \/ both(f) = both(h) /\ kg.relations[f].weight = kg.relations[h].weight /\ f < h))

-----------------------------------------------------------------------------
(* Retrieval.  A question x holds the store it is asked of, the query and   *)
(* the parameters: the documents' terms, the query's, the similarity of each*)
(* chunk to the query and to each other chunk, the two graphs, and TopK,    *)
(* SeedK and so on.  The store has chunks.                                  *)

Nearest(x, k) ==
  Top(k, Sorted({[ord |-> i, score |-> x.sim[i]] : i \in DOMAIN x.docs},
           LAMBDA a, b : a.score > b.score \/ (a.score = b.score /\ a.ord < b.ord)))

Scores(hits) == [i \in {h.ord : h \in ToSet(hits)} |-> (CHOOSE h \in ToSet(hits) : h.ord = i).score]

\* The similar chunks, the lexical matches, and their fusion, which seeds PageRank.
Fused(x, dense, sparse) ==
  [sim |-> Spread(Scores(dense), DOMAIN x.docs), bm25 |-> Spread(Scores(sparse), DOMAIN x.docs),
   seeds |-> IF x.lexical THEN Scores(RRF(<<dense, sparse>>))
             ELSE Scores(SelectSeq(dense, LAMBDA h : h.score > 0))]

seedScores(x) ==
  Fused(x, Nearest(x, x.SeedK), IF x.lexical THEN Search(x.docs, x.query, x.SeedK, x.order) ELSE <<>>)

\* What a question has to rank its chunks by; `linked` if entities seed a walk.
Gathered(x, s, entities) ==
  LET ppr == IF x.graphMix THEN PersonalizedPageRank(x.graph, Spread(s.seeds, DOMAIN x.docs), Iterations) ELSE <<>>
  IN  [sim |-> s.sim, bm25 |-> s.bm25, seeds |-> DOMAIN s.seeds, linked |-> entities # <<>>,
       ppr |-> Spread(ppr, DOMAIN x.docs), entity |-> Spread(entityChunkScores(x.kg, entities), DOMAIN x.docs)]

Signals(x) ==
  Gathered(x, seedScores(x), IF x.entityMix THEN Seeded(x.kg, x.query, x.link, x.order) ELSE <<>>)

\* A score of one: what every share of a signal divides.
One(s) == 16 * Max({1, Highest(s.sim)}) * Max({1, Highest(s.bm25)}) * Max({1, Highest(s.ppr)}) * Max({1, Highest(s.entity)})

Share(s, signal, i, sixteenths) ==
  IF Highest(signal) = 0 THEN 0 ELSE sixteenths * signal[i] * (One(s) \div (16 * Highest(signal)))

\* Wrong variant of comps: the entity signal leaves the graph's share whole.
compsGraphWhole(s, i) ==
  LET k == IF s.linked THEN 2 ELSE 1
  IN  [dense |-> Share(s, s.sim, i, 16 \div k), lexical |-> Share(s, s.bm25, i, 4 \div k),
       graph |-> Share(s, s.ppr, i, 8), entity |-> IF s.linked THEN Share(s, s.entity, i, 8) ELSE 0]

\* The parts of a score: the lexical weight is a quarter, GraphMix and EntityMix a half.
comps(s, i) ==
  LET k == IF s.linked THEN 2 ELSE 1
  IN  [dense |-> Share(s, s.sim, i, 16 \div k), lexical |-> Share(s, s.bm25, i, 4 \div k),
       graph |-> Share(s, s.ppr, i, 8 \div k), entity |-> IF s.linked THEN Share(s, s.entity, i, 8) ELSE 0]

rel(s, i) == Share(s, s.sim, i, 16) + Share(s, s.bm25, i, 4)

\* The graph adds to relevance; the entity signal is blended with both.
Val(s, i) ==
  LET boosted == rel(s, i) + Share(s, s.ppr, i, 8)
  IN  IF s.linked THEN boosted \div 2 + Share(s, s.entity, i, 8) ELSE boosted

\* Without a graph only the seeds are looked at.  Higher scores first, then ordinals.
Ranked(x, s) ==
  LET considered == IF x.graphMix \/ s.linked THEN DOMAIN x.docs ELSE s.seeds
      scored     == {i \in considered : i \in x.filter /\ Val(s, i) > 0}
  IN  Sorted(scored, LAMBDA a, b : Val(s, a) > Val(s, b) \/ (Val(s, a) = Val(s, b) /\ a < b))

\* Wrong variant of mmrRerank: only the likeness to the one chosen last counts.
mmrToLast(cands, gain, near, k) ==
  LET pick(acc) ==
        LET margin(c) == gain[c] - acc.like[c]
            left == {n \in DOMAIN cands : cands[n] \notin ToSet(acc.chosen)}
            best == cands[CHOOSE n \in left : \A m \in left : margin(cands[n]) > margin(cands[m]) \/ (margin(cands[n]) = margin(cands[m]) /\ n <= m)]
        IN  [chosen |-> Append(acc.chosen, best), like |-> [c \in DOMAIN acc.like |-> near[best][c]]]
      first == [chosen |-> <<>>, like |-> [c \in ToSet(cands) |-> 0]]
  IN  FoldLeft(LAMBDA acc, n : pick(acc), first, [n \in 1..Min({k, Len(cands)}) |-> n]).chosen

\* Picks k candidates, each the first of those with the most relevance left after its
\* likeness to one already picked.
mmrRerank(cands, gain, near, k) ==
  LET pick(acc) ==
        LET margin(c) == gain[c] - acc.like[c]
            left == {n \in DOMAIN cands : cands[n] \notin ToSet(acc.chosen)}
            best == cands[CHOOSE n \in left : \A m \in left : margin(cands[n]) > margin(cands[m]) \/ (margin(cands[n]) = margin(cands[m]) /\ n <= m)]
        IN  [chosen |-> Append(acc.chosen, best), like |-> [c \in DOMAIN acc.like |-> Max({acc.like[c], near[best][c]})]]
      first == [chosen |-> <<>>, like |-> [c \in ToSet(cands) |-> 0]]
  IN  FoldLeft(LAMBDA acc, n : pick(acc), first, [n \in 1..Min({k, Len(cands)}) |-> n]).chosen

\* MMR picks from four times as many as are wanted; its weight is a half, and likeness
\* is counted in halves.
Chosen(x, s, ranked) ==
  LET near == [a \in DOMAIN x.near |-> [b \in DOMAIN x.near[a] |-> x.near[a][b] * Val(s, ranked[1])]]
  IN  IF x.mmr /\ Len(ranked) > x.TopK
      THEN mmrRerank(Top(4 * x.TopK, ranked), [c \in x.filter |-> 2 * Val(s, c)], near, x.TopK)
      ELSE Top(x.TopK, ranked)

Shown(s, picked) ==
  [n \in DOMAIN picked |-> [ord |-> picked[n], score |-> Val(s, picked[n]),
                            similarity |-> s.sim[picked[n]], parts |-> comps(s, picked[n])]]

RetrieveBy(x, s) == Shown(s, Chosen(x, s, Ranked(x, s)))

Retrieve(x) == RetrieveBy(x, Signals(x))

-----------------------------------------------------------------------------
(* Reranking by a model: `base` are the scores of the retrieved passages,   *)
(* best first, `model` the model's, <<>> when it gave none.                 *)

\* Wrong variant of blendWeight: the head is left to the model and the tail to retrieval.
blendFromTail(rank, n) ==
  IF n <= 1 THEN 13 ELSE 13 * (n - 1) - 6 * (rank - 1)

\* The say of the model, from 7/20 at the head to 13/20 at the tail, in 20 (n - 1)ths.
blendWeight(rank, n) ==
  IF n <= 1 THEN 7 ELSE 7 * (n - 1) + 6 * (rank - 1)

Blended(base, model, i) ==
  LET n == Len(base)
      w == blendWeight(i, n)
  IN  w * model[i] * Max({1, Highest(base)}) + (20 * (n - 1) - w) * base[i] * Max({1, Highest(model)})

Rerank(base, model, wanted) ==
  IF Len(base) <= 1 \/ model = <<>> THEN Top(wanted, [i \in DOMAIN base |-> i])
  ELSE Top(wanted, Sorted(DOMAIN base, LAMBDA i, j :
         \/ Blended(base, model, i) > Blended(base, model, j)
         \/ Blended(base, model, i) = Blended(base, model, j) /\ i < j))

-----------------------------------------------------------------------------
(* What a ranking promises.                                                 *)

\* The heap keeps the k best, whatever order it is fed in.
HeapFits(scores, k, order) ==
  LET above(i) == {j \in DOMAIN scores : scores[j] > scores[i] \/ (scores[j] = scores[i] /\ j < i)}
      best     == {i \in DOMAIN scores : Cardinality(above(i)) < k}
  IN  topK(scores, k, order) = sortResults({[ord |-> i, score |-> scores[i]] : i \in best})

\* Nodes that mass reaches in n steps.
Reached(g, seeds, n) ==
  LET from[k \in 0..n] == IF k = 0 THEN {i \in DOMAIN g : seeds[i] > 0}
                          ELSE from[k - 1] \cup {j \in DOMAIN g : \E i \in from[k - 1] : g[i][j] > 0}
  IN  from[n]

\* No mass is lost or made, and it goes where an edge leads.
WalkFits(g, seeds, n) ==
  LET r == PersonalizedPageRank(g, seeds, n)
  IN  /\ Total(r) = Mass(seeds, n)
      /\ {i \in DOMAIN r : r[i] > 0} = Reached(g, seeds, n)

\* The facts put before a model are of retrieved chunks, and none that is left out ties
\* more of them together, or as many at a higher weight.
FactsFit(kg, chunks, maxRels) ==
  LET facts == RelationContext(kg, chunks, maxRels)
      ends(f) == Cardinality({e \in {kg.relations[f].source, kg.relations[f].target} : kg.entities[e].chunks \cap chunks # {}})
      above(f, h) == ends(f) > ends(h) \/ (ends(f) = ends(h) /\ kg.relations[f].weight > kg.relations[h].weight)
  IN  /\ \A n \in DOMAIN facts : ends(facts[n]) > 0 /\ \A m \in 1..(n - 1) : facts[m] # facts[n] /\ ~above(facts[n], facts[m])
      /\ \A f \in DOMAIN kg.relations \ ToSet(facts) : ends(f) > 0 =>
           Len(facts) = maxRels /\ \A n \in DOMAIN facts : ~above(f, facts[n])

\* Two seeds of a query of the same strength at the cap: which one is kept is left to
\* the order of a map.
TiedAtCap(kg) == \E o1, o2 \in {<<1, 2, 3>>, <<3, 2, 1>>} : factSeeds(kg, o1) # factSeeds(kg, o2)

\* A question is answered with the best TopK of the chunks that pass its filter, by the
\* scores it shows, which are the sums of their parts; the shortcut that looks at the
\* seeds alone leaves out no chunk with a score.  Diversified, the head stays, and
\* each next passage is one that what is left offers none better than.
ResultsFit(x, s, rs) ==
  LET ords == [n \in DOMAIN rs |-> rs[n].ord]
      sumOf(p) == p.dense + p.lexical + p.graph + p.entity
      scored == {i \in x.filter : sumOf(comps(s, i)) > 0}
      before(a, b) == Val(s, a) > Val(s, b) \/ (Val(s, a) = Val(s, b) /\ a < b)
      place(i) == Cardinality({j \in scored : before(j, i)}) + 1
      like(n, c) == Max({x.near[ords[m]][c] * rs[1].score : m \in 1..(n - 1)} \cup {0})
      margin(n, c) == 2 * Val(s, c) - like(n, c)
  IN  /\ \A n \in DOMAIN rs : rs[n].score = sumOf(rs[n].parts)
      /\ IF x.mmr /\ Cardinality(scored) > x.TopK
         THEN /\ Len(rs) = x.TopK /\ place(ords[1]) = 1
              /\ \A n \in DOMAIN rs : \A c \in {c \in scored : place(c) <= 4 * x.TopK} \ {ords[m] : m \in 1..(n - 1)} :
                   ords[n] \notin {ords[m] : m \in 1..(n - 1)} /\ margin(n, ords[n]) >= margin(n, c)
         ELSE ToSet(ords) = {i \in scored : place(i) <= x.TopK} /\ \A n \in DOMAIN rs : place(ords[n]) = n

\* That, and the order of a map makes no difference, but for a tie among the entities.
QuestionFits(x) ==
  /\ ResultsFit(x, Signals(x), Retrieve(x))
  /\ Retrieve(x) = Retrieve([x EXCEPT !.order = Reverse(@)]) \/ (x.entityMix /\ x.link = "fact" /\ TiedAtCap(x.kg))

\* A reranked head gives way only to a passage that the model rates higher, and no
\* passage is lost or shown twice.
RerankFits(base, model, wanted) ==
  LET order == Rerank(base, model, wanted)
  IN  /\ Len(order) = Min({wanted, Len(base)}) /\ IsInjective(order)
      /\ model = <<>> \/ model[order[1]] > model[1] \/ order[1] = 1
=============================================================================
