------------------------- MODULE EntityGraph_proofs -------------------------
(***************************************************************************)
(* Theorems about EntityGraph for any number of documents, texts, names,   *)
(* models and clients and any programs: the embeddings are those of the    *)
(* entities, a build that ends keeps the answers it got, and a program     *)
(* that makes one call at a time has citations that are evidence and the   *)
(* facts of its graph.                                                     *)
(***************************************************************************)
EXTENDS EntityGraph, Ordering_proofs

Answers == [Texts -> {"said", "failed", NULL}]

Extracting ==
  [model : Models, read : [Docs -> Texts \cup {NULL}], cancelled : BOOLEAN,
   got : [Docs -> [by : Models, how : {"said", "failed"}] \cup {NULL}], fresh : Answers]

\* A graph whose relations have their entities.
GraphOK(g) ==
  g # NULL => /\ g.cites \subseteq Names \X Docs /\ g.facts \subseteq Facts
              /\ \A f \in g.facts : {f[1], f[2]} \subseteq EntitiesOf(g)

\* What TypeOK leaves out: the calls in progress and the saved store.
CallsOK ==
  /\ use \in Uses
  /\ pc \in [Clients -> {"idle", "extracting", "installed", "embedding", "linking", "indexing", "querying"}]
  /\ DOMAIN job = Clients
  /\ \A c \in Clients : pc[c] = "extracting" =>
       job[c] \in Extracting /\ \A d \in Docs : job[c].got[d] # NULL => job[c].read[d] # NULL

DiskOK ==
  disk # NULL =>
    /\ disk.text \in [Docs -> Texts \cup {NULL}] /\ disk.cache \in [Models -> Answers]
    /\ GraphOK(disk.eg)
    /\ disk.entVec # NULL => disk.entVec = Nodes(disk.eg)

\* While one build embeds what it read no other builds, so the entities can only have
\* become fewer.
VecInv ==
  /\ VectorsDescribeEntities
  /\ \A b, c \in Clients : Building(b) /\ Building(c) => b = c
  /\ \A c \in Clients : pc[c] = "embedding" =>
       /\ Range(job[c].entities) \subseteq Names
       /\ EntitiesOf(eg) \subseteq Range(job[c].entities)
       /\ job[c].entities = Ordered(Range(job[c].entities))

Evidence(tx, g) ==
  g # NULL => \A c \in g.cites :
    tx[c[2]] # NULL /\ \E m \in Models : c[1] \in NamesOf(Says[m][tx[c[2]]])

FactsFit(facts, g) == g # NULL /\ facts = Indexed(g, Relations(g))

Stated(tx, g) ==
  g # NULL => \A f \in g.facts : \E d \in Docs, m \in Models : tx[d] # NULL /\ f \in Says[m][tx[d]].facts

\* In a program that makes one call at a time, what a call has read is still so.
OneAtATime ==
  /\ \A b, c \in Clients : pc[b] # "idle" /\ pc[c] # "idle" => b = c
  /\ \A c \in Clients : pc[c] = "extracting" =>
       /\ \A d \in Docs : job[c].read[d] # NULL => job[c].read[d] = text[d]
       /\ \A t \in Texts : job[c].fresh[t] # NULL => Held(t)
  /\ \A c \in Clients : pc[c] \in {"indexing", "querying"} => FactsFit(job[c].facts, eg)
  /\ \A c \in Clients : pc[c] = "installed" => Stated(text, eg)

EvidenceInv ==
  /\ CitationsAreEvidence /\ FactsDescribeGraph
  /\ disk # NULL => /\ Evidence(disk.text, disk.eg)
                    /\ disk.fact # NULL => disk.eg # NULL /\ disk.fact = Relations(disk.eg)

AloneInv == use.atOnce = 1 => OneAtATime /\ EvidenceInv

-----------------------------------------------------------------------------
(* Graphs.                                                                  *)

LEMMA EntitiesAreNames ==
  ASSUME NEW g, GraphOK(g)
  PROVE  EntitiesOf(g) \subseteq Names /\ EntitiesOf(g) \in SUBSET Nat /\ IsFiniteSet(EntitiesOf(g))
<1>1. EntitiesOf(g) \subseteq Names
  BY DEF GraphOK, EntitiesOf
<1> QED BY <1>1, NamesAssumption, FS_Subset

\* The nodes list the entities, and the node of an entity is in range and is its own.
LEMMA NodesList ==
  ASSUME NEW g, GraphOK(g)
  PROVE  /\ Nodes(g) \in Seq(Names) /\ Range(Nodes(g)) = EntitiesOf(g)
         /\ \A e \in EntitiesOf(g) : NodeOf(g, e) \in DOMAIN Nodes(g) /\ Nodes(g)[NodeOf(g, e)] = e
<1> DEFINE E == EntitiesOf(g)
<1>1. E \subseteq Names /\ E \in SUBSET Nat /\ IsFiniteSet(E)
  BY EntitiesAreNames
<1> HIDE DEF E
<1>2. /\ Cardinality(E) \in Nat /\ Ordered(E) \in [1..Cardinality(E) -> E]
      /\ \A e \in E : PlaceIn(E, e) \in 1..Cardinality(E) /\ Ordered(E)[PlaceIn(E, e)] = e
  BY <1>1, OrderedLists
<1>3. Ordered(E) \in Seq(Names)
  <2>1. Ordered(E) \in [1..Cardinality(E) -> Names]
    BY <1>1, <1>2
  <2> QED BY <1>2, <2>1
<1>4. Range(Ordered(E)) = E
  BY <1>2 DEF Range
<1> QED BY <1>2, <1>3, <1>4 DEF Nodes, NodeOf, E

LEMMA DroppedGraph ==
  ASSUME NEW g, g # NULL, GraphOK(g), NEW d
  PROVE  /\ GraphOK(DropChunks(g, d))
         /\ EntitiesOf(DropChunks(g, d)) \subseteq EntitiesOf(g)
         /\ \A c \in DropChunks(g, d).cites : c \in g.cites /\ c[2] # d
<1> DEFINE cites == {c \in g.cites : c[2] # d}
           alive == {c[1] : c \in cites}
           facts == {f \in g.facts : f[1] \in alive /\ f[2] \in alive}
<1>1. DropChunks(g, d) = [cites |-> cites, facts |-> facts]
  BY DEF DropChunks
<1>2. DropChunks(g, d).cites = cites /\ DropChunks(g, d).facts = facts
  BY <1>1
<1>3. EntitiesOf(DropChunks(g, d)) = IF DropChunks(g, d) = NULL THEN {} ELSE alive
  BY <1>2 DEF EntitiesOf
<1>4. alive \subseteq EntitiesOf(g)
  BY DEF EntitiesOf
<1>5. GraphOK(DropChunks(g, d))
  BY <1>2, <1>3 DEF GraphOK
<1> QED BY <1>2, <1>3, <1>4, <1>5

LEMMA AccumulatedGraph ==
  ASSUME NEW extraction \in [Docs -> Extraction]
  PROVE  GraphOK(Accumulated(extraction))
<1> DEFINE g == Accumulated(extraction)
<1>1. /\ g.cites = {c \in Names \X Docs : c[1] \in NamesOf(extraction[c[2]])}
      /\ g.facts = UNION {extraction[d].facts : d \in Docs}
  BY DEF Accumulated
<1>2. g.cites \subseteq Names \X Docs /\ g.facts \subseteq Facts
  BY <1>1 DEF Extraction
<1>3. ASSUME NEW f \in g.facts, g # NULL PROVE {f[1], f[2]} \subseteq EntitiesOf(g)
  <2>1. PICK d \in Docs : f \in extraction[d].facts
    BY <1>1
  <2>2. f \in Facts /\ f[1] \in Names /\ f[2] \in Names
    BY <1>2 DEF Facts
  <2>3. f[1] \in NamesOf(extraction[d]) /\ f[2] \in NamesOf(extraction[d])
    BY <2>1 DEF NamesOf
  <2>4. <<f[1], d>> \in g.cites /\ <<f[2], d>> \in g.cites
    BY <1>1, <2>2, <2>3
  <2> HIDE DEF g
  <2> QED BY <1>3, <2>4 DEF EntitiesOf
<1> QED BY <1>2, <1>3 DEF GraphOK

LEMMA TypeIsGraph == TypeOK => GraphOK(eg)
  BY DEF TypeOK, GraphOK

-----------------------------------------------------------------------------
(* Answers.                                                                 *)

LEMMA SmallestOf ==
  ASSUME NEW I \in SUBSET Nat, I # {}
  PROVE  Min(I) \in I
<1>1. \E x \in I : \A y \in I : x <= y
  BY LeastNumber
<1> QED BY <1>1 DEF Min

\* A cached answer is one that some model of the list gave.
LEMMA CachedAnswer ==
  ASSUME NEW m \in Models, NEW fallback \in Seq(Models), NEW t \in Texts, cache \in [Models -> Answers]
  PROVE  Cached(m, fallback, t) \in [by : Models, how : {"said", "failed"}] \cup {NULL}
<1> DEFINE tried == <<m>> \o fallback
           I == {i \in 1..Len(tried) : cache[tried[i]][t] # NULL}
           i == SelectInSeq(tried, LAMBDA f : cache[f][t] # NULL)
<1>1. tried \in Seq(Models)
  OBVIOUS
<1>2. i = IF I # {} THEN Min(I) ELSE 0
  BY DEF SelectInSeq
<1>3. Cached(m, fallback, t) = IF i = 0 THEN NULL ELSE [by |-> tried[i], how |-> cache[tried[i]][t]]
  BY DEF Cached
<1> HIDE DEF i, tried
<1>4. CASE I = {}
  BY <1>2, <1>3, <1>4
<1>5. CASE I # {}
  <2>1. Len(tried) \in Nat /\ I \in SUBSET Nat
    BY <1>1
  <2>2. Min(I) \in I
    BY <1>5, <2>1, SmallestOf
  <2>3. i \in 1..Len(tried) /\ cache[tried[i]][t] # NULL
    BY <1>2, <1>5, <2>2
  <2>4. tried[i] \in Models
    BY <1>1, <2>3
  <2>5. cache[tried[i]][t] \in {"said", "failed"}
    BY <2>3, <2>4 DEF Answers
  <2> QED BY <1>3, <2>3, <2>4, <2>5
<1> QED BY <1>4, <1>5

LEMMA FallbackModels ==
  ASSUME NEW others \in SUBSET Models, NEW fallback \in SetToSeqs(others)
  PROVE  fallback \in Seq(Models)
<1>1. IsFiniteSet(others)
  BY FiniteAssumption, FS_Subset
<1>2. Cardinality(others) \in Nat
  BY <1>1, FS_CardinalityType
<1>3. fallback \in [1..Cardinality(others) -> Models]
  BY DEF SetToSeqs
<1> QED BY <1>2, <1>3

LEMMA UseOfProgram ==
  ASSUME CallsOK
  PROVE  use \in Use /\ use.docs \subseteq Docs /\ use.models \subseteq Models /\ use.atOnce \in 1..Cardinality(Clients)
  BY UsesAssumption DEF CallsOK, Use

LEMMA PrunedAnswers ==
  ASSUME NEW ca \in [Models -> Answers]
  PROVE  pruneExtractCacheLocked(ca) \in [Models -> Answers]
  BY DEF pruneExtractCacheLocked, Answers

LEMMA FreshAnswers ==
  ASSUME NEW c \in Clients, cache \in [Models -> Answers], job[c] \in Extracting
  PROVE  /\ WithFresh(c) \in [Models -> Answers]
         /\ \A t \in Texts : job[c].fresh[t] # NULL => WithFresh(c)[job[c].model][t] = job[c].fresh[t]
         /\ \A m \in Models, t \in Texts : WithFresh(c)[m][t] \in {cache[m][t], job[c].fresh[t]}
         /\ \A m \in Models, t \in Texts : job[c].fresh[t] = NULL => WithFresh(c)[m][t] = cache[m][t]
<1> DEFINE m0 == job[c].model
           fr == job[c].fresh
           new == [t \in Texts |-> IF fr[t] # NULL THEN fr[t] ELSE cache[m0][t]]
<1>1. m0 \in Models /\ fr \in Answers
  BY DEF Extracting
<1>2. WithFresh(c) = [cache EXCEPT ![m0] = new]
  BY <1>1 DEF WithFresh
<1>3. new \in Answers
  BY <1>1 DEF Answers
<1>4. \A t \in Texts : new[t] = IF fr[t] # NULL THEN fr[t] ELSE cache[m0][t]
  OBVIOUS
<1> HIDE DEF m0, fr, new
<1>5. WithFresh(c)[m0] = new /\ \A m \in Models \ {m0} : WithFresh(c)[m] = cache[m]
  BY <1>1, <1>2
<1>6. WithFresh(c) \in [Models -> Answers]
  BY <1>1, <1>2, <1>3
<1> QED BY <1>1, <1>4, <1>5, <1>6 DEF m0, fr

LEMMA ExtractedOf ==
  ASSUME NEW c \in Clients, job[c] \in Extracting, \A d \in Docs : job[c].got[d] # NULL => job[c].read[d] # NULL,
         NEW d \in Docs
  PROVE  /\ ExtractionOf(c, d) \in Extraction
         /\ NamesOf(ExtractionOf(c, d)) # {} =>
              /\ job[c].read[d] \in Texts
              /\ \E m \in Models : ExtractionOf(c, d) = Says[m][job[c].read[d]]
<1> DEFINE a == job[c].got[d]
<1>1. a \in [by : Models, how : {"said", "failed"}] \cup {NULL} /\ job[c].read[d] \in Texts \cup {NULL}
  BY DEF Extracting
<1>2. Nothing \in Extraction /\ NamesOf(Nothing) = {}
  BY DEF Nothing, Extraction, NamesOf
<1>3. ExtractionOf(c, d) = IF a = NULL THEN Nothing
                           ELSE IF a.how = "said" THEN Says[a.by][job[c].read[d]] ELSE Nothing
  BY DEF ExtractionOf
<1>4. a # NULL => job[c].read[d] \in Texts /\ a.by \in Models
  BY <1>1
<1> HIDE DEF a
<1>5. a # NULL => Says[a.by][job[c].read[d]] \in Extraction
  BY <1>4, SaysAssumption
<1> QED BY <1>2, <1>3, <1>4, <1>5

-----------------------------------------------------------------------------
(* Type correctness.                                                        *)

Typed == TypeOK /\ CallsOK /\ DiskOK

LEMMA TextTyped == TypeOK <=> /\ text \in [Docs -> Texts \cup {NULL}] /\ cache \in [Models -> Answers]
                              /\ GraphOK(eg) /\ (entVec # NULL => entVec \in Seq(Names))
  BY DEF TypeOK, Answers, GraphOK

LEMMA SavedTyped ==
  ASSUME TypeOK, VectorsDescribeEntities, NEW ca \in [Models -> Answers], disk' = Saved(ca)
  PROVE  DiskOK'
<1>1. /\ disk'.text = text /\ disk'.cache = ca /\ disk'.eg = eg
      /\ disk'.entVec = NULL \/ disk'.entVec = entVec
  BY DEF Saved
<1> QED BY <1>1, TextTyped DEF DiskOK, VectorsDescribeEntities

\* Steps of a call that leave the store alone.
LEMMA CallTyped ==
  ASSUME Typed, UNCHANGED <<use, text, cache, eg, entVec, disk>>, NEW c \in Clients,
         NEW state \in {"idle", "installed", "embedding", "linking", "indexing", "querying"},
         pc' = [pc EXCEPT ![c] = state], NEW j, job' = [job EXCEPT ![c] = j]
  PROVE  Typed'
<1>1. TypeOK' /\ DiskOK'
  BY DEF Typed, TypeOK, DiskOK, EntitiesOf
<1>2. CallsOK'
  BY DEF Typed, CallsOK
<1> QED BY <1>1, <1>2 DEF Typed

\* Changes of the corpus.
LEMMA ChangeTyped ==
  ASSUME Typed, NEW d \in Docs, NEW t \in Texts \cup {NULL}, text' = [text EXCEPT ![d] = t],
         dropEntityChunksLocked(d), cache' = pruneExtractCacheLocked(cache) \/ UNCHANGED cache,
         UNCHANGED <<use, disk, pc, job>>
  PROVE  Typed'
<1>1. text' \in [Docs -> Texts \cup {NULL}]
  BY DEF Typed, TypeOK
<1>2. cache' \in [Models -> Answers]
  BY TextTyped, PrunedAnswers DEF Typed
<1>3. GraphOK(eg') /\ (entVec' # NULL => entVec' \in Seq(Names))
  <2>1. CASE UNCHANGED <<eg, entVec>>
    BY <2>1, TextTyped DEF Typed
  <2>2. CASE eg # NULL /\ eg' = DropChunks(eg, d) /\ entVec' = NULL
    BY <2>2, TextTyped, DroppedGraph DEF Typed
  <2> QED BY <2>1, <2>2 DEF dropEntityChunksLocked, rebuildEntityLocked
<1>4. TypeOK'
  BY <1>1, <1>2, <1>3 DEF TypeOK, Answers, GraphOK
<1>5. CallsOK' /\ DiskOK'
  BY DEF Typed, CallsOK, DiskOK
<1> QED BY <1>4, <1>5 DEF Typed

LEMMA InitTyped == Init => Typed
<1> SUFFICES ASSUME Init PROVE Typed
  OBVIOUS
<1>1. TypeOK
  BY DEF Init, TypeOK
<1>2. CallsOK /\ DiskOK
  BY DEF Init, CallsOK, DiskOK
<1> QED BY <1>1, <1>2 DEF Typed

LEMMA BuildStartTyped ==
  ASSUME Typed, UNCHANGED use, NEW c \in Clients, NEW m \in use.models, NEW others \in SUBSET use.models,
         NEW include \in SUBSET use.docs, NEW refresh \in BOOLEAN, NEW fallback \in SetToSeqs(others),
         BuildStart(c, m, fallback, include, refresh)
  PROVE  Typed'
<1>1. m \in Models /\ fallback \in Seq(Models)
  BY UseOfProgram, FallbackModels DEF Typed
<1> DEFINE read == [d \in Docs |-> IF d \in include THEN text[d] ELSE NULL]
           got == [d \in Docs |-> IF refresh \/ read[d] = NULL THEN NULL ELSE Cached(m, fallback, read[d])]
           fresh == [t \in Texts |-> NULL]
           j == [model |-> m, read |-> read, cancelled |-> FALSE, got |-> got, fresh |-> fresh]
<1>2. read \in [Docs -> Texts \cup {NULL}]
  BY DEF Typed, TypeOK
<1>3. got \in [Docs -> [by : Models, how : {"said", "failed"}] \cup {NULL}]
  <2> SUFFICES ASSUME NEW d \in Docs, ~refresh, read[d] # NULL
               PROVE  Cached(m, fallback, read[d]) \in [by : Models, how : {"said", "failed"}] \cup {NULL}
    OBVIOUS
  <2>1. read[d] \in Texts
    BY <1>2
  <2> HIDE DEF read
  <2> QED BY <1>1, <2>1, CachedAnswer, TextTyped DEF Typed
<1>4. fresh \in Answers
  BY DEF Answers
<1>5. \A d \in Docs : got[d] # NULL => read[d] # NULL
  OBVIOUS
<1>6. /\ pc' = [pc EXCEPT ![c] = "extracting"] /\ job' = [job EXCEPT ![c] = j]
      /\ UNCHANGED <<text, cache, eg, entVec, disk>>
  BY DEF BuildStart, storeVars
<1> HIDE DEF read, got, fresh
<1>7. j \in Extracting
  BY <1>1, <1>2, <1>3, <1>4 DEF Extracting
<1>8. j.got = got /\ j.read = read
  OBVIOUS
<1> HIDE DEF j
<1>9. CallsOK'
  BY <1>5, <1>6, <1>7, <1>8 DEF Typed, CallsOK
<1> QED BY <1>6, <1>9 DEF Typed, TypeOK, DiskOK, EntitiesOf

\* What a worker's answer changes of the call.
Answered(c, d, how) ==
  /\ job' = [job EXCEPT ![c] = job'[c]] /\ job'[c] \in Extracting
  /\ job[c] \in Extracting
  /\ job'[c].read = job[c].read /\ job'[c].model = job[c].model
  /\ job'[c].got = [job[c].got EXCEPT ![d] = [by |-> job[c].model, how |-> how]]
  /\ job'[c].fresh = [job[c].fresh EXCEPT ![job[c].read[d]] = how]
  /\ job[c].read[d] \in Texts

LEMMA ExtractJob ==
  ASSUME Typed, NEW c \in Clients, NEW d \in Docs, NEW how \in {"said", "failed"}, Extract(c, d, how)
  PROVE  Answered(c, d, how)
<1> DEFINE j == job[c]
           got == [j.got EXCEPT ![d] = [by |-> j.model, how |-> how]]
           fresh == [j.fresh EXCEPT ![j.read[d]] = how]
<1>1. j \in Extracting /\ j.read[d] \in Texts
  BY DEF Extract, ToAsk, Typed, CallsOK, Extracting
<1>2. job' = [job EXCEPT ![c] = [[j EXCEPT !.got = got] EXCEPT !.fresh = fresh]]
  BY DEF Extract, Typed, CallsOK
<1>3. job'[c] = [[j EXCEPT !.got = got] EXCEPT !.fresh = fresh]
  BY <1>2 DEF Typed, CallsOK
<1>4. got \in [Docs -> [by : Models, how : {"said", "failed"}] \cup {NULL}] /\ fresh \in Answers
  BY <1>1 DEF Extracting, Answers
<1> HIDE DEF got, fresh
<1>5. job'[c] \in Extracting /\ job'[c].read = j.read /\ job'[c].model = j.model
      /\ job'[c].got = got /\ job'[c].fresh = fresh
  BY <1>1, <1>3, <1>4 DEF Extracting
<1> QED BY <1>1, <1>2, <1>3, <1>5 DEF got, fresh, Answered

LEMMA ExtractTyped ==
  ASSUME Typed, UNCHANGED use, NEW c \in Clients, NEW d \in Docs, NEW how \in {"said", "failed"}, Extract(c, d, how)
  PROVE  Typed'
<1>0. Answered(c, d, how)
  BY ExtractJob
<1>1. UNCHANGED <<text, cache, eg, entVec, disk, pc>> /\ DOMAIN job' = Clients /\ pc[c] = "extracting"
  BY DEF Extract, storeVars, Typed, CallsOK
<1>2. \A b \in Clients \ {c} : job'[b] = job[b]
  BY <1>0 DEF Answered, Typed, CallsOK
<1>3. \A e \in Docs : job'[c].got[e] # NULL => job'[c].read[e] # NULL
  <2>1. job[c].got \in [Docs -> [by : Models, how : {"said", "failed"}] \cup {NULL}]
    BY <1>0 DEF Answered, Extracting
  <2>2. \A e \in Docs : job[c].got[e] # NULL => job[c].read[e] # NULL
    BY <1>1 DEF Typed, CallsOK
  <2>3. job[c].read[d] # NULL
    BY DEF Extract, ToAsk
  <2> QED BY <2>1, <2>2, <2>3, <1>0 DEF Answered
<1>4. CallsOK'
  <2>1. job'[c] \in Extracting
    BY <1>0 DEF Answered
  <2>2. \A b \in Clients : pc'[b] = "extracting" =>
          job'[b] \in Extracting /\ \A e \in Docs : job'[b].got[e] # NULL => job'[b].read[e] # NULL
    BY <1>1, <1>2, <1>3, <2>1 DEF Typed, CallsOK
  <2> QED BY <1>1, <2>2 DEF Typed, CallsOK
<1> QED BY <1>1, <1>4 DEF Typed, TypeOK, DiskOK, EntitiesOf

LEMMA CheckpointTyped ==
  ASSUME Typed, VecInv, NEW c \in Clients, pc[c] = "extracting", checkpoint(c)
  PROVE  cache' \in [Models -> Answers] /\ DiskOK'
<1>1. job[c] \in Extracting /\ cache \in [Models -> Answers]
  BY TextTyped DEF Typed, CallsOK
<1>2. cache' \in [Models -> Answers] /\ disk' = Saved(cache')
  BY <1>1, FreshAnswers DEF checkpoint
<1> QED BY <1>2, SavedTyped DEF Typed, VecInv

LEMMA InstalledGraph ==
  ASSUME Typed, NEW c \in Clients, pc[c] = "extracting"
  PROVE  GraphOK(Accumulated([d \in Docs |-> ExtractionOf(c, d)]))
<1>1. job[c] \in Extracting /\ \A d \in Docs : job[c].got[d] # NULL => job[c].read[d] # NULL
  BY DEF Typed, CallsOK
<1>2. [d \in Docs |-> ExtractionOf(c, d)] \in [Docs -> Extraction]
  BY <1>1, ExtractedOf
<1> QED BY <1>2, AccumulatedGraph

LEMMA BuildTyped ==
  ASSUME Typed, VecInv, UNCHANGED use, NEW c \in Clients, Build(c)
  PROVE  Typed'
<1>1. ASSUME NEW m \in use.models, NEW others \in SUBSET use.models, NEW include \in SUBSET use.docs,
             NEW refresh \in BOOLEAN, NEW fallback \in SetToSeqs(others), BuildStart(c, m, fallback, include, refresh)
      PROVE  Typed'
  BY <1>1, BuildStartTyped
<1>2. ASSUME NEW d \in Docs, NEW how \in {"said", "failed"}, Extract(c, d, how) PROVE Typed'
  BY <1>2, ExtractTyped
<1>3. CASE Cancel(c)
  <2>1. UNCHANGED <<text, cache, eg, entVec, disk, pc>> /\ pc[c] = "extracting"
        /\ job' = [job EXCEPT ![c] = [job[c] EXCEPT !.cancelled = TRUE]]
    BY <1>3 DEF Cancel, storeVars
  <2>2. job'[c] = [job[c] EXCEPT !.cancelled = TRUE] /\ \A b \in Clients \ {c} : job'[b] = job[b]
    BY <2>1 DEF Typed, CallsOK
  <2>3. job[c] \in Extracting
    BY <2>1 DEF Typed, CallsOK
  <2>4. job'[c] \in Extracting /\ job'[c].got = job[c].got /\ job'[c].read = job[c].read
    BY <2>2, <2>3 DEF Extracting
  <2>5. CallsOK'
    BY <2>1, <2>2, <2>4 DEF Typed, CallsOK
  <2> QED BY <2>1, <2>5 DEF Typed, TypeOK, DiskOK, EntitiesOf
<1>4. CASE Checkpoint(c)
  <2>1. UNCHANGED <<text, eg, entVec, pc, job>> /\ pc[c] = "extracting" /\ checkpoint(c)
    BY <1>4 DEF Checkpoint
  <2>2. cache' \in [Models -> Answers] /\ DiskOK'
    BY <2>1, CheckpointTyped
  <2> QED BY <2>1, <2>2 DEF Typed, TypeOK, CallsOK, Answers, EntitiesOf
<1>5. CASE BuildStops(c)
  <2>1. UNCHANGED <<text, eg, entVec>> /\ pc[c] = "extracting" /\ Return(c)
        /\ (checkpoint(c) \/ UNCHANGED <<cache, disk>>)
    BY <1>5 DEF BuildStops
  <2>2. cache' \in [Models -> Answers] /\ DiskOK'
    BY <2>1, CheckpointTyped, TextTyped DEF Typed, DiskOK
  <2>3. CallsOK'
    BY <2>1 DEF Typed, CallsOK, Return
  <2> QED BY <2>1, <2>2, <2>3 DEF Typed, TypeOK, Answers, EntitiesOf
<1>6. CASE BuildInstall(c)
  <2>1. pc[c] = "extracting" /\ cache' = pruneExtractCacheLocked(WithFresh(c)) /\ UNCHANGED <<text, disk>>
        /\ eg' = Accumulated([d \in Docs |-> ExtractionOf(c, d)]) /\ entVec' = NULL
        /\ pc' = [pc EXCEPT ![c] = "installed"] /\ job' = [job EXCEPT ![c] = NULL]
    BY <1>6 DEF BuildInstall, rebuildEntityLocked
  <2>2. job[c] \in Extracting /\ cache \in [Models -> Answers]
    BY <2>1, TextTyped DEF Typed, CallsOK
  <2>3. cache' \in [Models -> Answers]
    <3>1. WithFresh(c) \in [Models -> Answers]
      BY <2>2, FreshAnswers
    <3> QED BY <2>1, <3>1, PrunedAnswers
  <2>4. GraphOK(eg')
    BY <2>1, InstalledGraph
  <2>5. TypeOK'
    BY <2>1, <2>3, <2>4 DEF Typed, TypeOK, GraphOK, Answers
  <2>6. CallsOK' /\ DiskOK'
    BY <2>1 DEF Typed, CallsOK, DiskOK
  <2> QED BY <2>5, <2>6 DEF Typed
<1>7. CASE ReadEntities(c)
  BY <1>7, CallTyped DEF ReadEntities, storeVars
<1>8. CASE EmbedEntities(c)
  <2>1. UNCHANGED <<text, cache, eg, fact, disk>> /\ pc[c] = "embedding"
        /\ entVec' \in {entVec, job[c].entities}
        /\ pc' = [pc EXCEPT ![c] = "linking"] /\ job' = [job EXCEPT ![c] = NULL]
    BY <1>8 DEF EmbedEntities
  <2>2. entVec' # NULL => entVec' \in Seq(Names)
    <3> DEFINE E == Range(job[c].entities)
    <3>1. E \subseteq Names /\ job[c].entities = Ordered(E)
      BY <2>1 DEF VecInv
    <3> HIDE DEF E
    <3>2. E \in SUBSET Nat /\ IsFiniteSet(E)
      BY <3>1, NamesAssumption, FS_Subset
    <3>3. Cardinality(E) \in Nat /\ Ordered(E) \in [1..Cardinality(E) -> E]
      BY <3>2, OrderedLists
    <3>4. Ordered(E) \in [1..Cardinality(E) -> Names]
      BY <3>1, <3>3
    <3>5. Ordered(E) \in Seq(Names)
      BY <3>3, <3>4
    <3> QED BY <2>1, <3>1, <3>5, TextTyped DEF Typed
  <2>3. TypeOK'
    BY <2>1, <2>2 DEF Typed, TypeOK, EntitiesOf
  <2>4. CallsOK' /\ DiskOK'
    BY <2>1 DEF Typed, CallsOK, DiskOK
  <2> QED BY <2>3, <2>4 DEF Typed
<1> QED BY <1>1, <1>2, <1>3, <1>4, <1>5, <1>6, <1>7, <1>8 DEF Build

LEMMA RestartTyped ==
  ASSUME Typed, UNCHANGED use, Restart
  PROVE  Typed'
<1>1. disk # NULL /\ text' = disk.text /\ cache' = disk.cache /\ UNCHANGED disk
      /\ pc' = [c \in Clients |-> "idle"] /\ job' = [c \in Clients |-> NULL]
  BY DEF Restart
<1>2. (eg' = NULL /\ entVec' = NULL) \/ (eg' = disk.eg /\ entVec' = disk.entVec)
  BY DEF Restart
<1>3. GraphOK(disk.eg) /\ (disk.entVec # NULL => disk.entVec = Nodes(disk.eg))
  BY <1>1 DEF Typed, DiskOK
<1>4. GraphOK(eg') /\ (entVec' # NULL => entVec' \in Seq(Names))
  <2>1. CASE eg' = NULL /\ entVec' = NULL
    BY <2>1 DEF GraphOK
  <2>2. CASE eg' = disk.eg /\ entVec' = disk.entVec
    BY <1>3, <2>2, NodesList
  <2> QED BY <1>2, <2>1, <2>2
<1>5. TypeOK'
  BY <1>1, <1>4 DEF Typed, DiskOK, TypeOK, GraphOK, Answers
<1>6. CallsOK' /\ DiskOK'
  BY <1>1 DEF Typed, CallsOK, DiskOK
<1> QED BY <1>5, <1>6 DEF Typed

LEMMA NextTyped ==
  ASSUME Typed, VecInv, [Next]_vars
  PROVE  Typed'
<1>1. ASSUME NEW c \in Clients, NEW d \in use.docs, NEW t \in Texts, AddDocument(c, d, t) \/ applyPrepared(c, d, t), UNCHANGED use
      PROVE  Typed'
  <2>1. d \in Docs
    BY UseOfProgram DEF Typed
  <2> QED BY <1>1, <2>1, ChangeTyped DEF AddDocument, applyPrepared
<1>2. ASSUME NEW c \in Clients, NEW d \in use.docs, DeleteDocument(c, d), UNCHANGED use PROVE Typed'
  <2>1. d \in Docs
    BY UseOfProgram DEF Typed
  <2> QED BY <1>2, <2>1, ChangeTyped DEF DeleteDocument
<1>3. ASSUME NEW c \in Clients, Build(c), UNCHANGED use PROVE Typed'
  BY <1>3, BuildTyped
<1>4. ASSUME NEW c \in Clients, ReadFacts(c), UNCHANGED use PROVE Typed'
  <2>1. CASE FactsNeeded
    <3>1. pc[c] = "linking" \/ pc[c] # "linking"
      OBVIOUS
    <3> QED BY <1>4, <2>1, CallTyped DEF ReadFacts, storeVars
  <2>2. CASE ~FactsNeeded
    BY <1>4, <2>2, CallTyped DEF ReadFacts, Return, storeVars
  <2> QED BY <2>1, <2>2
<1>5. ASSUME NEW c \in Clients, InstallFacts(c), UNCHANGED use PROVE Typed'
  BY <1>5, CallTyped DEF InstallFacts, Return
<1>6. CASE Save /\ UNCHANGED use
  <2>1. UNCHANGED <<text, cache, eg, entVec, pc, job>> /\ disk' = Saved(cache)
    BY <1>6 DEF Save, storeVars
  <2>2. DiskOK'
    BY <2>1, TextTyped, SavedTyped DEF Typed, VecInv
  <2> QED BY <1>6, <2>1, <2>2 DEF Typed, TypeOK, CallsOK, EntitiesOf
<1>7. CASE Restart /\ UNCHANGED use
  BY <1>7, RestartTyped
<1>8. CASE UNCHANGED vars
  BY <1>8 DEF Typed, TypeOK, CallsOK, DiskOK, EntitiesOf, vars, storeVars
<1> QED BY <1>1, <1>2, <1>3, <1>4, <1>5, <1>6, <1>7, <1>8 DEF Next, Call

-----------------------------------------------------------------------------
(* The embeddings are those of the entities.                                *)

\* Graphs with the same entities have the same nodes.
LEMMA SameNodes ==
  ASSUME NEW g, NEW h, EntitiesOf(g) = EntitiesOf(h)
  PROVE  Nodes(g) = Nodes(h)
  BY DEF Nodes

LEMMA InitVec == Init => VecInv
<1> SUFFICES ASSUME Init PROVE VecInv
  OBVIOUS
<1> QED BY DEF Init, VecInv, VectorsDescribeEntities, Building

\* Steps that keep the entities, or some of them, and start no build.
LEMMA FrameVec ==
  ASSUME Typed, VecInv, EntitiesOf(eg') \subseteq EntitiesOf(eg),
         \A c \in Clients : pc'[c] = "embedding" => pc[c] = "embedding" /\ job'[c] = job[c],
         \A c \in Clients : Building(c)' => Building(c),
         entVec' = NULL \/ (UNCHANGED <<eg, entVec>>)
  PROVE  VecInv'
<1>1. VectorsDescribeEntities'
  BY DEF VecInv, VectorsDescribeEntities
<1> QED BY <1>1 DEF VecInv

LEMMA DropVec ==
  ASSUME Typed, VecInv, NEW d, dropEntityChunksLocked(d), UNCHANGED <<pc, job>>
  PROVE  VecInv'
<1>1. CASE UNCHANGED <<eg, entVec>>
  BY <1>1, FrameVec DEF Building
<1>2. CASE eg # NULL /\ eg' = DropChunks(eg, d) /\ entVec' = NULL
  <2>1. EntitiesOf(eg') \subseteq EntitiesOf(eg)
    BY <1>2, DroppedGraph, TextTyped DEF Typed
  <2> QED BY <1>2, <2>1, FrameVec DEF Building
<1> QED BY <1>1, <1>2 DEF dropEntityChunksLocked, rebuildEntityLocked

LEMMA NextVec ==
  ASSUME Typed, VecInv, [Next]_vars
  PROVE  VecInv'
<1>1. ASSUME NEW c \in Clients, NEW d, NEW t, AddDocument(c, d, t) \/ applyPrepared(c, d, t) \/ DeleteDocument(c, d)
      PROVE  VecInv'
  BY <1>1, DropVec DEF AddDocument, applyPrepared, DeleteDocument
<1>2. ASSUME NEW c \in Clients, NEW m, NEW fallback, NEW include, NEW refresh, BuildStart(c, m, fallback, include, refresh)
      PROVE  VecInv'
  <2>1. UNCHANGED <<eg, entVec>> /\ pc' = [pc EXCEPT ![c] = "extracting"]
        /\ (\A b \in Clients : ~Building(b)) /\ \A b \in Clients \ {c} : job'[b] = job[b]
    BY <1>2 DEF BuildStart, storeVars, Typed, CallsOK
  <2>2. \A b \in Clients \ {c} : pc'[b] = pc[b]
    BY <2>1 DEF Typed, CallsOK
  <2>3. pc'[c] = "extracting"
    BY <2>1 DEF Typed, CallsOK
  <2>4. VectorsDescribeEntities'
    BY <2>1 DEF VecInv, VectorsDescribeEntities, Nodes, EntitiesOf
  <2>5. \A a, b \in Clients : Building(a)' /\ Building(b)' => a = b
    BY <2>1, <2>2 DEF Building
  <2>6. \A b \in Clients : pc'[b] # "embedding"
    BY <2>1, <2>2, <2>3 DEF Building
  <2> QED BY <1>2, <2>4, <2>5, <2>6 DEF VecInv, BuildStart, storeVars
<1>3. ASSUME NEW c \in Clients, NEW d, NEW how, Extract(c, d, how) PROVE VecInv'
  <2>1. UNCHANGED <<eg, entVec, pc>> /\ pc[c] = "extracting" /\ \A b \in Clients \ {c} : job'[b] = job[b]
    BY <1>3 DEF Extract, storeVars, Typed, CallsOK
  <2> QED BY <2>1, FrameVec DEF Building
<1>4. ASSUME NEW c \in Clients, Cancel(c) PROVE VecInv'
  <2>1. UNCHANGED <<eg, entVec, pc>> /\ pc[c] = "extracting" /\ \A b \in Clients \ {c} : job'[b] = job[b]
    BY <1>4 DEF Cancel, storeVars, Typed, CallsOK
  <2> QED BY <2>1, FrameVec DEF Building
<1>5. ASSUME NEW c \in Clients, Checkpoint(c) PROVE VecInv'
  BY <1>5, FrameVec DEF Checkpoint, Building
<1>6. ASSUME NEW c \in Clients, BuildStops(c) PROVE VecInv'
  <2>1. UNCHANGED <<eg, entVec>> /\ pc' = [pc EXCEPT ![c] = "idle"] /\ job' = [job EXCEPT ![c] = NULL]
    BY <1>6 DEF BuildStops, Return
  <2>2. \A b \in Clients : pc'[b] # "idle" => pc'[b] = pc[b] /\ job'[b] = job[b]
    BY <2>1 DEF Typed, CallsOK
  <2> QED BY <2>1, <2>2, FrameVec DEF Building
<1>7. ASSUME NEW c \in Clients, BuildInstall(c) PROVE VecInv'
  <2>1. pc[c] = "extracting" /\ pc' = [pc EXCEPT ![c] = "installed"] /\ entVec' = NULL
    BY <1>7 DEF BuildInstall, rebuildEntityLocked
  <2>2. \A b \in Clients : pc'[b] = IF b = c THEN "installed" ELSE pc[b]
    BY <2>1 DEF Typed, CallsOK
  <2>3. \A b \in Clients : Building(b)' => Building(b)
    BY <2>1, <2>2 DEF Building
  <2>4. \A b \in Clients : pc'[b] # "embedding"
    BY <2>1, <2>2 DEF VecInv, Building
  <2>5. disk' = disk
    BY <1>7 DEF BuildInstall
  <2> QED BY <2>1, <2>3, <2>4, <2>5 DEF VecInv, VectorsDescribeEntities
<1>8. ASSUME NEW c \in Clients, ReadEntities(c) PROVE VecInv'
  <2>1. UNCHANGED <<eg, entVec>> /\ pc[c] = "installed" /\ pc' = [pc EXCEPT ![c] = "embedding"]
        /\ job' = [job EXCEPT ![c] = [entities |-> Nodes(eg)]]
    BY <1>8 DEF ReadEntities, storeVars
  <2>2. \A b \in Clients : pc'[b] = IF b = c THEN "embedding" ELSE pc[b]
    BY <2>1 DEF Typed, CallsOK
  <2>3. \A b \in Clients : Building(b)' => Building(b)
    BY <2>1, <2>2 DEF Building
  <2>4. \A b \in Clients : pc'[b] = "embedding" => b = c
    BY <2>1, <2>2 DEF VecInv, Building
  <2>5. job'[c].entities = Nodes(eg)
    BY <2>1 DEF Typed, CallsOK
  <2>6. GraphOK(eg)
    BY TextTyped DEF Typed
  <2>7. Range(Nodes(eg)) = EntitiesOf(eg) /\ EntitiesOf(eg) \subseteq Names /\ Nodes(eg) = Ordered(EntitiesOf(eg))
    BY <2>6, NodesList, EntitiesAreNames DEF Nodes
  <2>8. EntitiesOf(eg') = EntitiesOf(eg) /\ VectorsDescribeEntities'
    BY <2>1 DEF VecInv, VectorsDescribeEntities, Nodes, EntitiesOf
  <2> QED BY <1>8, <2>3, <2>4, <2>5, <2>7, <2>8 DEF VecInv, ReadEntities
<1>9. ASSUME NEW c \in Clients, EmbedEntities(c) PROVE VecInv'
  <2>1. /\ pc[c] = "embedding" /\ pc' = [pc EXCEPT ![c] = "linking"] /\ UNCHANGED <<eg, disk>>
        /\ \/ entVec' = entVec
           \/ entVec' = job[c].entities /\ Len(job[c].entities) = Len(Nodes(eg))
    BY <1>9 DEF EmbedEntities
  <2>2. \A b \in Clients : pc'[b] = IF b = c THEN "linking" ELSE pc[b]
    BY <2>1 DEF Typed, CallsOK
  <2>3. \A b \in Clients : Building(b)' => Building(b)
    BY <2>1, <2>2 DEF Building
  <2>4. \A b \in Clients : pc'[b] # "embedding"
    BY <2>1, <2>2 DEF VecInv, Building
  <2>5. ASSUME entVec' = job[c].entities, Len(job[c].entities) = Len(Nodes(eg)) PROVE entVec' = Nodes(eg)
    <3> DEFINE E == Range(job[c].entities)
    <3>1. E \subseteq Names /\ EntitiesOf(eg) \in SUBSET E /\ job[c].entities = Ordered(E)
      BY <2>1 DEF VecInv
    <3>2. E \in SUBSET Nat /\ IsFiniteSet(E)
      BY <3>1, NamesAssumption, FS_Subset
    <3>3. Len(Ordered(E)) = Len(Ordered(EntitiesOf(eg)))
      BY <2>5, <3>1 DEF Nodes
    <3> HIDE DEF E
    <3>4. E = EntitiesOf(eg)
      BY <3>1, <3>2, <3>3, SameSize
    <3> QED BY <2>5, <3>1, <3>4 DEF Nodes
  <2>6. VectorsDescribeEntities'
    BY <2>1, <2>5 DEF VecInv, VectorsDescribeEntities, Nodes, EntitiesOf
  <2> QED BY <2>1, <2>3, <2>4, <2>6 DEF VecInv
<1>10. ASSUME NEW c \in Clients, ReadFacts(c) PROVE VecInv'
  <2>1. UNCHANGED <<eg, entVec>> /\ pc[c] \in {"linking", "idle"}
        /\ \E state \in {"idle", "indexing", "querying"} :
             pc' = [pc EXCEPT ![c] = state] /\ (state = "indexing" => pc[c] = "linking")
        /\ \A b \in Clients \ {c} : job'[b] = job[b]
    BY <1>10 DEF ReadFacts, Return, Idle, storeVars, Typed, CallsOK
  <2>2. \A b \in Clients : pc'[b] = "embedding" => pc[b] = "embedding" /\ job'[b] = job[b]
    BY <2>1 DEF Typed, CallsOK
  <2>3. \A b \in Clients : Building(b)' => Building(b)
    BY <2>1 DEF Typed, CallsOK, Building
  <2> QED BY <2>1, <2>2, <2>3, FrameVec
<1>11. ASSUME NEW c \in Clients, InstallFacts(c) PROVE VecInv'
  <2>1. UNCHANGED <<eg, entVec>> /\ pc' = [pc EXCEPT ![c] = "idle"] /\ job' = [job EXCEPT ![c] = NULL]
    BY <1>11 DEF InstallFacts, Return
  <2>2. \A b \in Clients : pc'[b] # "idle" => pc'[b] = pc[b] /\ job'[b] = job[b]
    BY <2>1 DEF Typed, CallsOK
  <2> QED BY <2>1, <2>2, FrameVec DEF Building
<1>12. CASE Save \/ UNCHANGED vars
  BY <1>12, FrameVec DEF Save, vars, storeVars, Building
<1>13. CASE Restart
  <2>1. \A b \in Clients : ~Building(b)' /\ pc'[b] # "embedding"
    BY <1>13 DEF Restart, Building
  <2>2. (eg' = NULL /\ entVec' = NULL) \/ (eg' = disk.eg /\ entVec' = disk.entVec)
    BY <1>13 DEF Restart
  <2>3. disk # NULL /\ (disk.entVec # NULL => disk.entVec = Nodes(disk.eg))
    BY <1>13 DEF Restart, Typed, DiskOK
  <2>4. VectorsDescribeEntities'
    BY <2>2, <2>3 DEF VectorsDescribeEntities, Nodes, EntitiesOf
  <2> QED BY <2>1, <2>4 DEF VecInv
<1> QED BY <1>1, <1>2, <1>3, <1>4, <1>5, <1>6, <1>7, <1>8, <1>9, <1>10, <1>11, <1>12, <1>13 DEF Next, Call, Build

LEMMA Vectors == Spec => [](Typed /\ VecInv)
<1>1. Typed /\ VecInv /\ [Next]_vars => (Typed /\ VecInv)'
  BY NextTyped, NextVec
<1> QED BY <1>1, InitTyped, InitVec, PTL DEF Spec

\* The state is well typed, and every relation of the graph joins two entities that have
\* a node (entity.Graph.DropChunks, rag/entitygraph.go rebuildEntityLocked).
THEOREM TypeCorrect == Spec => []TypeOK
<1>1. Typed => TypeOK
  BY DEF Typed
<1> QED BY <1>1, Vectors, PTL

\* The embedding at a node is that of the entity at the node, although the code compares
\* only how many there are (rag/entitygraph.go embedEntities): documents that change
\* during a build only take entities away, so as many are the same.
THEOREM EmbeddingsMatch == Spec => []VectorsDescribeEntities
<1>1. VecInv => VectorsDescribeEntities
  BY DEF VecInv
<1> QED BY <1>1, Vectors, PTL

-----------------------------------------------------------------------------
(* A build that ends keeps the answers it received.                         *)

Kept(c) ==
  pc[c] = "extracting" /\ pc'[c] # "extracting" /\ (use.checkpoints \/ ~job[c].cancelled) /\ ~Restart =>
    \A t \in Texts : job[c].fresh[t] # NULL /\ Held(t) => cache'[job[c].model][t] # NULL

\* A build leaves "extracting" by stopping or by installing its graph.
LEMMA LeavesExtracting ==
  ASSUME Typed, NEW c \in Clients, pc[c] = "extracting", pc'[c] # "extracting", [Next]_vars
  PROVE  BuildStops(c) \/ BuildInstall(c) \/ Restart
<1> SUFFICES ASSUME ~Restart PROVE BuildStops(c) \/ BuildInstall(c)
  OBVIOUS
<1>0. pc' # pc
  OBVIOUS
<1>1. PICK b \in Clients : Call(b)
  BY <1>0 DEF Next, Save, storeVars, vars
<1>2. CASE b # c
  <2>1. ~\E state : pc' = [pc EXCEPT ![b] = state]
    BY <1>2 DEF Typed, CallsOK
  <2> QED BY <1>0, <1>1, <2>1 DEF Call, Build, AddDocument, applyPrepared, DeleteDocument, BuildStart, Extract,
               Cancel, Checkpoint, BuildStops, BuildInstall, ReadEntities, EmbedEntities, ReadFacts, InstallFacts, Return
<1>3. CASE b = c
  BY <1>0, <1>1, <1>3 DEF Call, Build, AddDocument, applyPrepared, DeleteDocument, BuildStart, Extract, Cancel,
               Checkpoint, ReadEntities, EmbedEntities, ReadFacts, InstallFacts, Idle
<1> QED BY <1>2, <1>3

LEMMA StepKeeps ==
  ASSUME Typed, NEW c \in Clients, [Next]_vars
  PROVE  Kept(c)
<1> SUFFICES ASSUME pc[c] = "extracting", pc'[c] # "extracting", use.checkpoints \/ ~job[c].cancelled, ~Restart,
                    NEW t \in Texts, job[c].fresh[t] # NULL, Held(t)
             PROVE  cache'[job[c].model][t] # NULL
  BY DEF Kept
<1>1. job[c] \in Extracting /\ cache \in [Models -> Answers]
  BY TextTyped DEF Typed, CallsOK
<1>2. WithFresh(c)[job[c].model][t] # NULL
  BY <1>1, FreshAnswers
<1>3. CASE BuildStops(c)
  BY <1>2, <1>3 DEF BuildStops, checkpoint
<1>4. CASE BuildInstall(c)
  <2>1. cache' = pruneExtractCacheLocked(WithFresh(c)) /\ text' = text
    BY <1>4 DEF BuildInstall
  <2>2. job[c].model \in Models
    BY <1>1 DEF Extracting
  <2> QED BY <1>2, <2>1, <2>2 DEF pruneExtractCacheLocked, Live, Held
<1> QED BY <1>3, <1>4, LeavesExtracting

\* A build that ends keeps every answer it got about a text that is still there, and an
\* interrupted one does if its caller gave a Checkpoint (rag/entitygraph.go:79-84, 367-368).
THEOREM AnswersSurvive == Spec => AnswersKept
<1>1. Typed /\ [Next]_vars =>
        [\A c \in Clients :
           pc[c] = "extracting" /\ pc'[c] # "extracting" /\ (use.checkpoints \/ ~job[c].cancelled) /\ ~Restart =>
             \A t \in Texts : job[c].fresh[t] # NULL /\ Held(t) => cache'[job[c].model][t] # NULL]_vars
  BY StepKeeps DEF Kept
<1> QED BY <1>1, Vectors, PTL DEF Spec, AnswersKept

-----------------------------------------------------------------------------
(* Evidence, in a program that makes one call at a time.                    *)

LEMMA OthersIdle ==
  ASSUME use.atOnce = 1, NEW c, NEW call, Idle(c, call)
  PROVE  \A b \in Clients : pc[b] = "idle"
<1> DEFINE busy == {b \in Clients : pc[b] # "idle"}
<1>1. IsFiniteSet(busy)
  BY FiniteAssumption, FS_Subset
<1>2. Cardinality(busy) < 1
  BY DEF Idle
<1> HIDE DEF busy
<1>3. busy = {}
  BY <1>1, <1>2, FS_CardinalityType, FS_EmptySet
<1> QED BY <1>3 DEF busy

\* Save names the entities that the nodes of a fact stand for.
LEMMA RelationsSaved ==
  ASSUME NEW g, g # NULL, GraphOK(g)
  PROVE  {[vec |-> f.vec, src |-> Nodes(g)[f.src], tgt |-> Nodes(g)[f.tgt]] : f \in Indexed(g, Relations(g))} = Relations(g)
<1> DEFINE Entry(f) == [vec |-> f.vec, src |-> NodeOf(g, f.src), tgt |-> NodeOf(g, f.tgt)]
           Named(f) == [vec |-> f.vec, src |-> Nodes(g)[f.src], tgt |-> Nodes(g)[f.tgt]]
<1>1. \A h \in Relations(g) : {h.src, h.tgt} \subseteq EntitiesOf(g) /\ h = [vec |-> h.vec, src |-> h.src, tgt |-> h.tgt]
  BY DEF Relations, GraphOK
<1>2. Indexed(g, Relations(g)) = {Entry(h) : h \in Relations(g)}
  BY <1>1 DEF Indexed
<1>3. \A h \in Relations(g) : Named(Entry(h)) = h
  BY <1>1, NodesList
<1> HIDE DEF Entry, Named
<1>4. {Named(f) : f \in Indexed(g, Relations(g))} = Relations(g)
  BY <1>2, <1>3
<1> QED BY <1>4 DEF Named

LEMMA FactsAre == FactsDescribeGraph <=> (fact # NULL => FactsFit(fact, eg))
  BY DEF FactsDescribeGraph, FactsFit

LEMMA StatedAre == RelationsAreStated <=> Stated(text, eg)
  BY DEF RelationsAreStated, Stated

LEMMA CitationsAre == CitationsAreEvidence <=> Evidence(text, eg)
  BY DEF CitationsAreEvidence, Evidence

LEMMA InitAlone == Init => OneAtATime /\ EvidenceInv
<1> SUFFICES ASSUME Init PROVE OneAtATime /\ EvidenceInv
  OBVIOUS
<1>1. OneAtATime
  BY DEF Init, OneAtATime
<1>2. EvidenceInv
  BY DEF Init, EvidenceInv, CitationsAreEvidence, FactsDescribeGraph
<1> QED BY <1>1, <1>2

\* Steps that leave the graph, its texts, its facts and the saved store alone.
LEMMA FrameEvidence ==
  ASSUME EvidenceInv, UNCHANGED <<text, eg, fact, disk>>
  PROVE  EvidenceInv'
  BY DEF EvidenceInv, CitationsAreEvidence, FactsDescribeGraph

LEMMA SavedEvidence ==
  ASSUME Typed, EvidenceInv, UNCHANGED <<text, eg, fact>>, NEW ca, disk' = Saved(ca)
  PROVE  EvidenceInv'
<1>1. CitationsAreEvidence' /\ FactsDescribeGraph'
  BY DEF EvidenceInv, CitationsAreEvidence, FactsDescribeGraph
<1>2. /\ disk'.text = text /\ disk'.eg = eg
      /\ disk'.fact = IF fact = NULL THEN NULL
                      ELSE {[vec |-> f.vec, src |-> Nodes(eg)[f.src], tgt |-> Nodes(eg)[f.tgt]] : f \in fact}
  BY DEF Saved
<1>3. Evidence(disk'.text, disk'.eg)
  BY <1>2, CitationsAre DEF EvidenceInv
<1>4. disk'.fact # NULL => disk'.eg # NULL /\ disk'.fact = Relations(disk'.eg)
  <2>1. fact # NULL => eg # NULL /\ fact = Indexed(eg, Relations(eg)) /\ GraphOK(eg)
    BY TextTyped DEF EvidenceInv, FactsDescribeGraph, Typed
  <2> QED BY <1>2, <2>1, RelationsSaved
<1> QED BY <1>1, <1>3, <1>4 DEF EvidenceInv

LEMMA ChangeEvidence ==
  ASSUME Typed, EvidenceInv, NEW d \in Docs, NEW t, text' = [text EXCEPT ![d] = t],
         dropEntityChunksLocked(d), UNCHANGED disk
  PROVE  EvidenceInv'
<1>1. text \in [Docs -> Texts \cup {NULL}] /\ \A e \in Docs \ {d} : text'[e] = text[e]
  BY TextTyped DEF Typed
<1>2. CASE (eg = NULL \/ text[d] = NULL) /\ UNCHANGED <<eg, fact>>
  <2>1. CitationsAreEvidence'
    <3> SUFFICES ASSUME eg # NULL, NEW c \in eg.cites
                 PROVE  text'[c[2]] # NULL /\ \E m \in Models : c[1] \in NamesOf(Says[m][text'[c[2]]])
      BY <1>2 DEF CitationsAreEvidence
    <3>1. c[2] \in Docs /\ text[c[2]] # NULL /\ \E m \in Models : c[1] \in NamesOf(Says[m][text[c[2]]])
      BY DEF EvidenceInv, CitationsAreEvidence, Typed, TypeOK
    <3> QED BY <1>1, <1>2, <3>1
  <2>2. FactsDescribeGraph'
    BY <1>2 DEF EvidenceInv, FactsDescribeGraph
  <2> QED BY <2>1, <2>2 DEF EvidenceInv
<1>3. CASE eg # NULL /\ eg' = DropChunks(eg, d) /\ fact' = NULL
  <2>1. \A c \in eg'.cites : c \in eg.cites /\ c[2] # d
    BY <1>3, DroppedGraph, TextTyped DEF Typed
  <2>2. CitationsAreEvidence'
    <3> SUFFICES ASSUME NEW c \in eg'.cites
                 PROVE  text'[c[2]] # NULL /\ \E m \in Models : c[1] \in NamesOf(Says[m][text'[c[2]]])
      BY DEF CitationsAreEvidence
    <3>1. c[2] \in Docs \ {d} /\ text[c[2]] # NULL /\ \E m \in Models : c[1] \in NamesOf(Says[m][text[c[2]]])
      BY <1>3, <2>1 DEF EvidenceInv, CitationsAreEvidence, Typed, TypeOK
    <3> QED BY <1>1, <3>1
  <2> QED BY <1>3, <2>2 DEF EvidenceInv, FactsDescribeGraph
<1> QED BY <1>2, <1>3 DEF dropEntityChunksLocked, rebuildEntityLocked

LEMMA InstallEvidence ==
  ASSUME Typed, OneAtATime, EvidenceInv, NEW c \in Clients, BuildInstall(c)
  PROVE  EvidenceInv'
<1>1. /\ pc[c] = "extracting" /\ text' = text /\ fact' = NULL /\ disk' = disk
      /\ eg' = Accumulated([d \in Docs |-> ExtractionOf(c, d)])
  BY DEF BuildInstall, rebuildEntityLocked
<1>2. job[c] \in Extracting /\ \A d \in Docs : job[c].got[d] # NULL => job[c].read[d] # NULL
  BY <1>1 DEF Typed, CallsOK
<1>3. ASSUME NEW e \in eg'.cites
      PROVE  text'[e[2]] # NULL /\ \E m \in Models : e[1] \in NamesOf(Says[m][text'[e[2]]])
  <2>1. e \in Names \X Docs /\ e[1] \in NamesOf(ExtractionOf(c, e[2])) /\ e[2] \in Docs
    BY <1>1, <1>3 DEF Accumulated
  <2>2. job[c].read[e[2]] \in Texts /\ \E m \in Models : ExtractionOf(c, e[2]) = Says[m][job[c].read[e[2]]]
    BY <1>2, <2>1, ExtractedOf
  <2>3. job[c].read[e[2]] # NULL
    BY <2>2, NullAssumption
  <2>4. job[c].read[e[2]] = text[e[2]]
    BY <1>1, <2>1, <2>3 DEF OneAtATime
  <2> QED BY <1>1, <2>1, <2>2, <2>3, <2>4
<1> QED BY <1>1, <1>3 DEF EvidenceInv, CitationsAreEvidence, FactsDescribeGraph

\* A build installs the relations of the texts that it read, which are there.
LEMMA InstallStated ==
  ASSUME Typed, OneAtATime, NEW c \in Clients, BuildInstall(c)
  PROVE  Stated(text', eg')
<1>1. /\ pc[c] = "extracting" /\ text' = text
      /\ eg' = Accumulated([d \in Docs |-> ExtractionOf(c, d)])
  BY DEF BuildInstall, rebuildEntityLocked
<1>2. job[c] \in Extracting /\ \A d \in Docs : job[c].got[d] # NULL => job[c].read[d] # NULL
  BY <1>1 DEF Typed, CallsOK
<1>3. ASSUME NEW f \in eg'.facts
      PROVE  \E d \in Docs, m \in Models : text'[d] # NULL /\ f \in Says[m][text'[d]].facts
  <2>1. PICK d \in Docs : f \in ExtractionOf(c, d).facts
    BY <1>1, <1>3 DEF Accumulated
  <2>2. NamesOf(ExtractionOf(c, d)) # {}
    BY <2>1 DEF NamesOf
  <2>3. job[c].read[d] \in Texts /\ \E m \in Models : ExtractionOf(c, d) = Says[m][job[c].read[d]]
    BY <1>2, <2>2, ExtractedOf
  <2>4. job[c].read[d] # NULL
    BY <2>3, NullAssumption
  <2>5. job[c].read[d] = text[d]
    BY <1>1, <2>4 DEF OneAtATime
  <2> QED BY <1>1, <2>1, <2>3, <2>4, <2>5
<1> QED BY <1>3 DEF Stated

LEMMA RestartEvidence ==
  ASSUME Typed, EvidenceInv, Restart
  PROVE  EvidenceInv'
<1>1. disk # NULL /\ text' = disk.text /\ UNCHANGED disk
  BY DEF Restart
<1>2. CASE eg' = NULL /\ fact' = NULL
  BY <1>1, <1>2 DEF EvidenceInv, CitationsAreEvidence, FactsDescribeGraph
<1>3. CASE eg' = disk.eg /\ fact' = IF disk.fact = NULL THEN NULL ELSE Indexed(disk.eg, disk.fact)
  <2>1. CitationsAreEvidence'
    BY <1>1, <1>3 DEF EvidenceInv, CitationsAreEvidence, Evidence
  <2>2. FactsDescribeGraph'
    BY <1>1, <1>3 DEF EvidenceInv, FactsDescribeGraph
  <2> QED BY <1>1, <2>1, <2>2 DEF EvidenceInv
<1> QED BY <1>2, <1>3 DEF Restart

\* A call that ends, or goes on without extracting or linking.
LEMMA CallAlone ==
  ASSUME Typed, OneAtATime, NEW c \in Clients, NEW state \in {"idle", "installed", "embedding", "linking"},
         pc[c] # "idle", pc' = [pc EXCEPT ![c] = state], state = "installed" => Stated(text', eg')
  PROVE  OneAtATime'
<1>1. \A b \in Clients : pc'[b] = IF b = c THEN state ELSE pc[b]
  BY DEF Typed, CallsOK
<1>2. \A b \in Clients : pc[b] # "idle" => b = c
  BY DEF OneAtATime
<1> QED BY <1>1, <1>2 DEF OneAtATime

LEMMA StartAlone ==
  ASSUME Typed, NEW c \in Clients, \A b \in Clients : pc[b] = "idle", UNCHANGED text,
         NEW m, NEW fallback, NEW include, NEW refresh, BuildStart(c, m, fallback, include, refresh)
  PROVE  OneAtATime'
<1>1. \A b \in Clients : pc'[b] = IF b = c THEN "extracting" ELSE "idle"
  BY DEF BuildStart, Typed, CallsOK
<1>2. /\ \A d \in Docs : job'[c].read[d] # NULL => job'[c].read[d] = text[d]
      /\ \A t \in Texts : job'[c].fresh[t] = NULL
  BY DEF BuildStart, Typed, CallsOK
<1> QED BY <1>1, <1>2 DEF OneAtATime

LEMMA ExtractAlone ==
  ASSUME Typed, OneAtATime, NEW c \in Clients, NEW d \in Docs, NEW how \in {"said", "failed"}, Extract(c, d, how)
  PROVE  OneAtATime'
<1>0. Answered(c, d, how)
  BY ExtractJob
<1>1. UNCHANGED <<text, eg, pc>> /\ pc[c] = "extracting" /\ \A b \in Clients : pc[b] # "idle" => b = c
  BY DEF Extract, storeVars, OneAtATime
<1>2. Held(job[c].read[d])
  BY <1>0, <1>1, NullAssumption DEF OneAtATime, Held, Answered
<1>3. \A t \in Texts : job'[c].fresh[t] # NULL => Held(t)
  <2>1. job[c].fresh \in Answers
    BY <1>0 DEF Answered, Extracting
  <2>2. \A t \in Texts : job[c].fresh[t] # NULL => Held(t)
    BY <1>1 DEF OneAtATime
  <2>3. job'[c].fresh = [job[c].fresh EXCEPT ![job[c].read[d]] = how]
    BY <1>0 DEF Answered
  <2> QED BY <1>2, <2>1, <2>2, <2>3 DEF Answers
<1>4. job'[c].read = job[c].read
  BY <1>0 DEF Answered
<1>5. \A t \in Texts : Held(t)' <=> Held(t)
  BY <1>1 DEF Held
<1>6. \A e \in Docs : job'[c].read[e] # NULL => job'[c].read[e] = text'[e]
  BY <1>1, <1>4 DEF OneAtATime
<1> QED BY <1>1, <1>3, <1>5, <1>6 DEF OneAtATime

LEMMA ReadFactsAlone ==
  ASSUME Typed, OneAtATime, EvidenceInv, use.atOnce = 1, NEW c \in Clients, ReadFacts(c)
  PROVE  OneAtATime'
<1>1. \A b \in Clients : pc[b] # "idle" => b = c
  BY OthersIdle DEF ReadFacts, OneAtATime
<1>2. CASE FactsNeeded
  <2>1. UNCHANGED <<text, eg>> /\ job' = [job EXCEPT ![c] = [gen |-> entGen, facts |-> Indexed(eg, Relations(eg))]]
        /\ \E state \in {"indexing", "querying"} : pc' = [pc EXCEPT ![c] = state]
    BY <1>2 DEF ReadFacts, storeVars
  <2>2. job'[c].facts = Indexed(eg, Relations(eg))
    BY <2>1 DEF Typed, CallsOK
  <2>3. FactsFit(Indexed(eg, Relations(eg)), eg)
    BY <1>2 DEF FactsNeeded, FactsFit
  <2>4. \A b \in Clients \ {c} : pc'[b] = "idle"
    BY <1>1, <2>1 DEF Typed, CallsOK
  <2>5. pc'[c] \in {"indexing", "querying"}
    BY <2>1 DEF Typed, CallsOK
  <2> QED BY <2>1, <2>2, <2>3, <2>4, <2>5 DEF OneAtATime
<1>3. CASE ~FactsNeeded
  <2>1. pc' = [pc EXCEPT ![c] = "idle"]
    BY <1>3 DEF ReadFacts, Return
  <2>2. \A b \in Clients : pc'[b] = "idle"
    BY <1>1, <2>1 DEF Typed, CallsOK
  <2> QED BY <2>2 DEF OneAtATime
<1> QED BY <1>2, <1>3

LEMMA NextAlone ==
  ASSUME Typed, use.atOnce = 1, OneAtATime, EvidenceInv, [Next]_vars
  PROVE  OneAtATime' /\ EvidenceInv'
<1>1. ASSUME NEW c \in Clients, NEW d \in use.docs, NEW t,
             AddDocument(c, d, t) \/ applyPrepared(c, d, t) \/ DeleteDocument(c, d)
      PROVE  OneAtATime' /\ EvidenceInv'
  <2>1. d \in Docs
    BY UseOfProgram DEF Typed
  <2>2. \A b \in Clients : pc[b] = "idle"
    BY <1>1, OthersIdle DEF AddDocument, applyPrepared, DeleteDocument
  <2>3. UNCHANGED <<pc, disk>> /\ dropEntityChunksLocked(d) /\ \E u : text' = [text EXCEPT ![d] = u]
    BY <1>1 DEF AddDocument, applyPrepared, DeleteDocument
  <2> QED BY <2>1, <2>2, <2>3, ChangeEvidence DEF OneAtATime
<1>2. ASSUME NEW c \in Clients, NEW m, NEW fallback, NEW include, NEW refresh, BuildStart(c, m, fallback, include, refresh)
      PROVE  OneAtATime' /\ EvidenceInv'
  <2>1. \A b \in Clients : pc[b] = "idle"
    BY <1>2, OthersIdle DEF BuildStart
  <2>2. UNCHANGED <<text, eg, fact, disk>>
    BY <1>2 DEF BuildStart, storeVars
  <2> QED BY <1>2, <2>1, <2>2, StartAlone, FrameEvidence
<1>3. ASSUME NEW c \in Clients, NEW d \in Docs, NEW how \in {"said", "failed"}, Extract(c, d, how)
      PROVE  OneAtATime' /\ EvidenceInv'
  BY <1>3, ExtractAlone, FrameEvidence DEF Extract, storeVars
<1>4. ASSUME NEW c \in Clients, Cancel(c) PROVE OneAtATime' /\ EvidenceInv'
  <2>1. UNCHANGED <<text, eg, fact, disk, pc>> /\ pc[c] = "extracting"
        /\ job' = [job EXCEPT ![c] = [job[c] EXCEPT !.cancelled = TRUE]]
    BY <1>4 DEF Cancel, storeVars
  <2>2. job'[c] = [job[c] EXCEPT !.cancelled = TRUE] /\ job[c] \in Extracting
    BY <2>1 DEF Typed, CallsOK
  <2>3. job'[c].read = job[c].read /\ job'[c].fresh = job[c].fresh
    BY <2>2 DEF Extracting
  <2>4. \A b \in Clients : pc[b] # "idle" => b = c
    BY <2>1 DEF OneAtATime
  <2>5. \A t \in Texts : Held(t)' <=> Held(t)
    BY <2>1 DEF Held
  <2>6. OneAtATime'
    BY <2>1, <2>3, <2>4, <2>5 DEF OneAtATime
  <2> QED BY <2>1, <2>6, FrameEvidence
<1>5. ASSUME NEW c \in Clients, Checkpoint(c) PROVE OneAtATime' /\ EvidenceInv'
  <2>1. UNCHANGED <<text, eg, fact, pc, job>> /\ disk' = Saved(cache')
    BY <1>5 DEF Checkpoint, checkpoint
  <2>2. OneAtATime'
    BY <2>1 DEF OneAtATime, Held
  <2> QED BY <2>1, <2>2, SavedEvidence
<1>6. ASSUME NEW c \in Clients, BuildStops(c) PROVE OneAtATime' /\ EvidenceInv'
  <2>1. UNCHANGED <<text, eg, fact>> /\ (disk' = Saved(cache') \/ UNCHANGED disk)
        /\ pc[c] = "extracting" /\ pc' = [pc EXCEPT ![c] = "idle"]
    BY <1>6 DEF BuildStops, checkpoint, Return
  <2>2. OneAtATime'
    BY <2>1, CallAlone
  <2> QED BY <2>1, <2>2, SavedEvidence, FrameEvidence
<1>7. ASSUME NEW c \in Clients, BuildInstall(c) PROVE OneAtATime' /\ EvidenceInv'
  <2>1. pc[c] = "extracting" /\ pc' = [pc EXCEPT ![c] = "installed"]
    BY <1>7 DEF BuildInstall
  <2> QED BY <1>7, <2>1, CallAlone, InstallEvidence, InstallStated
<1>8. ASSUME NEW c \in Clients, ReadEntities(c) \/ EmbedEntities(c) PROVE OneAtATime' /\ EvidenceInv'
  <2>1. UNCHANGED <<text, eg, fact, disk>> /\ pc[c] # "idle"
        /\ \E state \in {"embedding", "linking"} : pc' = [pc EXCEPT ![c] = state]
    BY <1>8 DEF ReadEntities, EmbedEntities, storeVars
  <2> QED BY <2>1, CallAlone, FrameEvidence
<1>9. ASSUME NEW c \in Clients, ReadFacts(c) PROVE OneAtATime' /\ EvidenceInv'
  BY <1>9, ReadFactsAlone, FrameEvidence DEF ReadFacts, storeVars
<1>10. ASSUME NEW c \in Clients, InstallFacts(c) PROVE OneAtATime' /\ EvidenceInv'
  <2>1. /\ UNCHANGED <<text, eg, disk>> /\ fact' \in {fact, job[c].facts}
        /\ pc[c] \in {"indexing", "querying"} /\ pc' = [pc EXCEPT ![c] = "idle"]
    BY <1>10 DEF InstallFacts, Return
  <2>2. FactsFit(job[c].facts, eg)
    BY <2>1 DEF OneAtATime
  <2>3. FactsDescribeGraph'
    BY <2>1, <2>2 DEF EvidenceInv, FactsDescribeGraph, FactsFit
  <2>4. EvidenceInv'
    BY <2>1, <2>3 DEF EvidenceInv, CitationsAreEvidence
  <2> QED BY <2>1, <2>4, CallAlone
<1>11. CASE Save
  <2>1. UNCHANGED <<text, eg, fact, pc, job>> /\ disk' = Saved(cache)
    BY <1>11 DEF Save, storeVars
  <2>2. OneAtATime'
    BY <2>1 DEF OneAtATime, Held
  <2> QED BY <2>1, <2>2, SavedEvidence
<1>12. CASE Restart
  <2>1. \A b \in Clients : pc'[b] = "idle"
    BY <1>12 DEF Restart
  <2> QED BY <1>12, <2>1, RestartEvidence DEF OneAtATime
<1>13. CASE UNCHANGED vars
  <2>1. OneAtATime'
    BY <1>13 DEF OneAtATime, Held, vars, storeVars
  <2> QED BY <1>13, <2>1, FrameEvidence DEF vars, storeVars
<1> QED BY <1>1, <1>2, <1>3, <1>4, <1>5, <1>6, <1>7, <1>8, <1>9, <1>10, <1>11, <1>12, <1>13 DEF Next, Call, Build

LEMMA Alone == Spec => [](Typed /\ VecInv /\ AloneInv)
<1>1. Init => AloneInv
  BY InitAlone DEF AloneInv
<1>2. Typed /\ AloneInv /\ [Next]_vars => AloneInv'
  <2> SUFFICES ASSUME Typed, AloneInv, [Next]_vars, use'.atOnce = 1 PROVE OneAtATime' /\ EvidenceInv'
    BY DEF AloneInv
  <2>1. use.atOnce = 1
    BY DEF Next, vars
  <2> QED BY <2>1, NextAlone DEF AloneInv
<1> QED BY <1>1, <1>2, Vectors, PTL DEF Spec

\* In a program that makes one call at a time, every citation is of a document that is
\* there and says so, the fact index is exactly the graph's relations at the entities
\* they join, and a build installs relations that a text there states, after any sequence
\* of builds, changes, cancellations, saves and restarts (rag/entitygraph.go).
THEOREM GraphFits == Spec => []GraphFitsStore
<1>1. Typed /\ AloneInv => GraphFitsStore
  BY StatedAre DEF Typed, AloneInv, EvidenceInv, OneAtATime, GraphFitsStore, BuildsState
<1> QED BY <1>1, Alone, PTL

-----------------------------------------------------------------------------
(* The cache.                                                               *)

\* Only a command gives its builds a Checkpoint, and it makes one call at a time
\* (cmd/turbograph/main.go); the server's builds have none (server/entitybuild.go).
SaversAlone == \A u \in Uses : u.checkpoints => u.atOnce = 1

LEMMA PrunedIsLive ==
  ASSUME NEW ca, NEW m \in Models, NEW t \in Texts, cache' = pruneExtractCacheLocked(ca), cache'[m][t] # NULL
  PROVE  \E d \in Docs : text'[d] = t
  BY DEF pruneExtractCacheLocked, Live

CacheOf(tx, ca) == \A m \in Models, t \in Texts : ca[m][t] # NULL => \E d \in Docs : tx[d] = t

LiveInv == "ingest" \notin use.calls =>
  CacheOf(text, cache) /\ (disk # NULL => CacheOf(disk.text, disk.cache))

LEMMA LiveIs == CacheIsLive <=> LiveInv
  BY DEF CacheIsLive, LiveInv, CacheOf, Held

\* The answers of a build are about texts that are there: nothing can have changed.
LEMMA FreshLive ==
  ASSUME Typed, OneAtATime, CacheOf(text, cache), NEW c \in Clients, pc[c] = "extracting"
  PROVE  CacheOf(text, WithFresh(c))
<1> SUFFICES ASSUME NEW m \in Models, NEW t \in Texts, WithFresh(c)[m][t] # NULL PROVE \E d \in Docs : text[d] = t
  BY DEF CacheOf
<1>1. job[c] \in Extracting /\ cache \in [Models -> Answers]
  BY TextTyped DEF Typed, CallsOK
<1>2. CASE job[c].fresh[t] # NULL
  BY <1>2 DEF OneAtATime, Held
<1>3. CASE job[c].fresh[t] = NULL
  <2>1. WithFresh(c)[m][t] = cache[m][t]
    BY <1>1, <1>3, FreshAnswers
  <2> QED BY <2>1 DEF CacheOf
<1> QED BY <1>2, <1>3

LEMMA NextLive ==
  ASSUME SaversAlone, Typed, AloneInv, LiveInv, [Next]_vars
  PROVE  LiveInv'
<1> SUFFICES ASSUME "ingest" \notin use.calls
             PROVE  CacheOf(text', cache') /\ (disk' # NULL => CacheOf(disk'.text, disk'.cache))
  BY DEF LiveInv, Next, vars
<1>0. CacheOf(text, cache) /\ (disk # NULL => CacheOf(disk.text, disk.cache))
  BY DEF LiveInv
<1> USE DEF CacheOf
<1>1. CASE UNCHANGED <<text, cache, disk>>
  BY <1>0, <1>1
<1>2. CASE cache' = pruneExtractCacheLocked(cache) /\ UNCHANGED disk
  BY <1>0, <1>2, PrunedIsLive
<1>3. ASSUME NEW c, NEW d, NEW t, AddDocument(c, d, t) \/ applyPrepared(c, d, t) \/ DeleteDocument(c, d)
      PROVE  CacheOf(text', cache') /\ (disk' # NULL => CacheOf(disk'.text, disk'.cache))
  BY <1>2, <1>3 DEF AddDocument, applyPrepared, DeleteDocument, Idle
<1>4. ASSUME NEW c \in Clients, pc[c] = "extracting", checkpoint(c), UNCHANGED text, use.checkpoints
      PROVE  CacheOf(text', cache') /\ (disk' # NULL => CacheOf(disk'.text, disk'.cache))
  <2>1. OneAtATime
    BY <1>4 DEF SaversAlone, AloneInv, Typed, CallsOK
  <2>2. CacheOf(text, WithFresh(c))
    BY <1>0, <1>4, <2>1, FreshLive DEF CacheOf
  <2>3. cache' = WithFresh(c) /\ disk'.text = text /\ disk'.cache = cache'
    BY <1>4 DEF checkpoint, Saved
  <2> QED BY <1>4, <2>2, <2>3
<1>5. ASSUME NEW c \in Clients, Build(c)
      PROVE  CacheOf(text', cache') /\ (disk' # NULL => CacheOf(disk'.text, disk'.cache))
  <2>1. CASE Checkpoint(c)
    BY <1>4, <2>1 DEF Checkpoint
  <2>2. CASE BuildStops(c)
    BY <1>1, <1>4, <2>2 DEF BuildStops
  <2>3. CASE BuildInstall(c)
    BY <1>0, <2>3, PrunedIsLive DEF BuildInstall
  <2> QED BY <1>1, <1>5, <2>1, <2>2, <2>3
      DEF Build, BuildStart, Extract, Cancel, ReadEntities, EmbedEntities, storeVars
<1>6. CASE Save
  <2>1. UNCHANGED <<text, cache>> /\ disk'.text = text /\ disk'.cache = cache
    BY <1>6 DEF Save, Saved, storeVars
  <2> QED BY <1>0, <2>1
<1>7. CASE Restart
  BY <1>0, <1>7 DEF Restart
<1> QED BY <1>1, <1>3, <1>5, <1>6, <1>7 DEF Next, Call, ReadFacts, InstallFacts, storeVars, vars

\* What a model said of a text is neither kept nor saved beyond the last document that
\* has the text (rag/update.go:137-141), in programs that do not ingest again.
THEOREM CacheLives == ASSUME SaversAlone PROVE Spec => []CacheIsLive
<1>1. Init => LiveInv
  BY DEF Init, LiveInv, CacheOf
<1>2. Typed /\ AloneInv /\ LiveInv /\ [Next]_vars => LiveInv'
  BY NextLive
<1>3. LiveInv => CacheIsLive
  BY LiveIs
<1> QED BY <1>1, <1>2, <1>3, Alone, PTL DEF Spec
=============================================================================
