---------------------------- MODULE EntityGraph ----------------------------
(***************************************************************************)
(* The entity graph of a store (rag/entitygraph.go, entity/entity.go): a   *)
(* language model reads every chunk, its answers are cached, the graph is  *)
(* built from them, and embeddings of its entities and of its facts are    *)
(* computed off the lock and installed afterwards.  Documents come and go  *)
(* meanwhile (rag/update.go), and the whole is saved and loaded            *)
(* (rag/persist.go).                                                       *)
(*                                                                         *)
(* Abstractions.  A document is one chunk.  Says[m][t] is what model m     *)
(* finds in text t: entity names, and facts that join two of them.  Names  *)
(* are numbers, ordered as the code sorts names, and stand for entities    *)
(* after Canonicalize and Prune.  The embedding of an entity is its name,  *)
(* that of a fact is the fact.  The arrays, the indexes and their locks    *)
(* are in module Store; a call that changes the corpus is one step here.   *)
(***************************************************************************)
EXTENDS SequencesExt, Ordering

CONSTANTS
  Docs, Texts,
  Names,       \* entity names, a set of numbers
  Models,
  Says,        \* Says[m][t]: the extraction of text t by model m
  Clients,     \* goroutines calling the store
  Uses,        \* the programs the store may be embedded in
  NULL

Facts == {f \in Names \X Names : f[1] < f[2]}

Extraction == [names : SUBSET Names, facts : SUBSET Facts]

Nothing == [names |-> {}, facts |-> {}]

\* A program: the entry points it calls, how many calls it has in progress at once,
\* the documents and models it has, and whether it gives builds a Checkpoint.
Use ==
  [calls : SUBSET {"add", "ingest", "delete", "build", "query", "cancel", "save"},
   atOnce : 1..Cardinality(Clients), docs : SUBSET Docs, models : SUBSET Models, checkpoints : BOOLEAN]

ASSUME NamesAssumption == Names \subseteq Nat /\ IsFiniteSet(Names)
ASSUME FiniteAssumption == IsFiniteSet(Docs) /\ IsFiniteSet(Models) /\ IsFiniteSet(Clients)
ASSUME SaysAssumption == Says \in [Models -> [Texts -> Extraction]]
ASSUME UsesAssumption == Uses \subseteq Use
ASSUME NullAssumption == NULL \notin Texts \cup {"said", "failed"}

VARIABLES
  use,    \* the program
  text,   \* text[d]: the text of document d, or NULL
  cache,  \* cache[m][t]: how m's answer about t came about, "said" or "failed", or NULL
  eg,     \* the entity graph, or NULL
  entVec, \* the embedding per entity node, or NULL
  fact,   \* the fact index, an entry per fact (factVec, factSrc and factTgt), or NULL
  disk,   \* the saved store, or NULL
  pc, job \* where each client is in its call, and what it works on

storeVars == <<text, cache, eg, entVec, fact>>
vars == <<use, storeVars, disk, pc, job>>

-----------------------------------------------------------------------------
(* Graphs.                                                                  *)

NamesOf(x) == x.names \cup UNION {{f[1], f[2]} : f \in x.facts}

\* Graph.Add of every chunk's extraction.
Accumulated(extraction) ==
  [cites |-> {c \in Names \X Docs : c[1] \in NamesOf(extraction[c[2]])},
   facts |-> UNION {extraction[d].facts : d \in Docs}]

EntitiesOf(g) == IF g = NULL THEN {} ELSE {c[1] : c \in g.cites}

\* Wrong variant of DropChunks: relations outlive their entities.
DropKeepingRelations(g, d) == [g EXCEPT !.cites = {c \in @ : c[2] # d}]

\* Graph.DropChunks: entities no chunk is left for go, with their relations.
DropChunks(g, d) ==
  LET cites == {c \in g.cites : c[2] # d}
      alive == {c[1] : c \in cites}
  IN  [cites |-> cites, facts |-> {f \in g.facts : f[1] \in alive /\ f[2] \in alive}]

\* entList: the entities sorted by name; a node id is the place of one in it.
Nodes(g) == Ordered(EntitiesOf(g))

NodeOf(g, n) == PlaceIn(EntitiesOf(g), n)

\* Facts whose endpoints have a node, with the ids of the nodes.
Indexed(g, named) ==
  {[vec |-> f.vec, src |-> NodeOf(g, f.src), tgt |-> NodeOf(g, f.tgt)] :
     f \in {h \in named : {h.src, h.tgt} \subseteq EntitiesOf(g)}}

\* Relations(), each with the names of its endpoints.
Relations(g) == {[vec |-> f, src |-> f[1], tgt |-> f[2]] : f \in g.facts}

-----------------------------------------------------------------------------
(* Helpers that run under the write lock.                                   *)

Live(c) == \E d \in Docs : text'[d] = c

pruneExtractCacheLocked(ca) == [m \in Models |-> [t \in Texts |-> IF Live(t) THEN ca[m][t] ELSE NULL]]

\* Wrong variant of rebuildEntityLocked: the embeddings of the facts stay.
rebuildKeepingFacts(g) == eg' = g /\ entVec' = NULL /\ UNCHANGED fact

\* The node ids change with the graph, so what refers to them goes.
rebuildEntityLocked(g) == eg' = g /\ entVec' = NULL /\ fact' = NULL

dropEntityChunksLocked(d) ==
  IF eg = NULL \/ text[d] = NULL THEN UNCHANGED <<eg, entVec, fact>>
  ELSE rebuildEntityLocked(DropChunks(eg, d))

-----------------------------------------------------------------------------
(* Calls that change the corpus.                                            *)

Idle(c, call) ==
  /\ pc[c] = "idle" /\ call \in use.calls
  /\ Cardinality({b \in Clients : pc[b] # "idle"}) < use.atOnce

Held(t) == \E d \in Docs : text[d] = t

\* Wrong variant of AddDocument: the graph is not told of an update.
AddKeepingMentions(c, d, t) ==
  /\ Idle(c, "add") /\ ~Held(t)
  /\ text' = [text EXCEPT ![d] = t]
  /\ cache' = pruneExtractCacheLocked(cache)
  /\ UNCHANGED <<eg, entVec, fact, disk, pc, job>>

AddDocument(c, d, t) ==
  /\ Idle(c, "add")
  /\ ~Held(t)
  /\ text' = [text EXCEPT ![d] = t]
  /\ dropEntityChunksLocked(d)
  /\ cache' = pruneExtractCacheLocked(cache)
  /\ UNCHANGED <<disk, pc, job>>

\* Ingest installs a document when it is prepared, and keeps the answers about the
\* text that it replaces.
applyPrepared(c, d, t) ==
  /\ Idle(c, "ingest")
  /\ ~Held(t)
  /\ text' = [text EXCEPT ![d] = t]
  /\ dropEntityChunksLocked(d)
  /\ UNCHANGED <<cache, disk, pc, job>>

DeleteDocument(c, d) ==
  /\ Idle(c, "delete")
  /\ text[d] # NULL
  /\ text' = [text EXCEPT ![d] = NULL]
  /\ dropEntityChunksLocked(d)
  /\ cache' = pruneExtractCacheLocked(cache)
  /\ UNCHANGED <<disk, pc, job>>

-----------------------------------------------------------------------------
(* BuildEntityGraph.                                                        *)

\* A build that is not told otherwise answers a chunk from the cache: with the
\* model's own answer or, failing that, the first that a fallback model gave.
Cached(m, fallback, t) ==
  LET tried == <<m>> \o fallback
      i     == SelectInSeq(tried, LAMBDA f : cache[f][t] # NULL)
  IN  IF i = 0 THEN NULL ELSE [by |-> tried[i], how |-> cache[tried[i]][t]]

\* The server runs one build of a store at a time (startEntBuild).
Building(c) == pc[c] \in {"extracting", "installed", "embedding", "linking", "indexing"}

BuildStart(c, m, fallback, include, refresh) ==
  LET read == [d \in Docs |-> IF d \in include THEN text[d] ELSE NULL]
  IN  /\ Idle(c, "build")
      /\ ~\E o \in Clients : Building(o)
      /\ pc' = [pc EXCEPT ![c] = "extracting"]
      /\ job' = [job EXCEPT ![c] =
           [model |-> m, read |-> read, cancelled |-> FALSE,
            got |-> [d \in Docs |-> IF refresh \/ read[d] = NULL THEN NULL
                                    ELSE Cached(m, fallback, read[d])],
            fresh |-> [t \in Texts |-> NULL]]]
      /\ UNCHANGED <<storeVars, disk>>

ToAsk(c) == {d \in Docs : job[c].read[d] # NULL /\ job[c].got[d] = NULL}

\* A worker has asked about a chunk.  An error is an empty answer like any other;
\* under a cancelled context every call fails.
Extract(c, d, how) ==
  LET j == job[c]
  IN  /\ pc[c] = "extracting" /\ d \in ToAsk(c)
      /\ j.cancelled => how = "failed"
      /\ job' = [job EXCEPT ![c].got[d] = [by |-> j.model, how |-> how], ![c].fresh[j.read[d]] = how]
      /\ UNCHANGED <<storeVars, disk, pc>>

\* A timeout, or the caller gives up.
Cancel(c) ==
  /\ "cancel" \in use.calls
  /\ pc[c] = "extracting" /\ ~job[c].cancelled
  /\ job' = [job EXCEPT ![c].cancelled = TRUE]
  /\ UNCHANGED <<storeVars, disk, pc>>

\* Wrong variant of WithFresh: the key of an answer does not tell models apart.
WithFreshOfAnyModel(c) ==
  [cache EXCEPT ![CHOOSE m \in Models : TRUE] =
     [t \in Texts |-> IF job[c].fresh[t] # NULL THEN job[c].fresh[t] ELSE @[t]]]

\* An answer is filed under the model that gave it (extractKey).
WithFresh(c) ==
  [cache EXCEPT ![job[c].model] = [t \in Texts |-> IF job[c].fresh[t] # NULL THEN job[c].fresh[t] ELSE @[t]]]

\* Save under the read lock: embeddings are written when there is one per node,
\* facts with the names of their endpoints.
Saved(ca) ==
  [text |-> text, cache |-> ca, eg |-> eg,
   entVec |-> IF entVec # NULL /\ Len(entVec) = Len(Nodes(eg)) THEN entVec ELSE NULL,
   fact |-> IF fact = NULL THEN NULL
            ELSE {[vec |-> f.vec, src |-> Nodes(eg)[f.src], tgt |-> Nodes(eg)[f.tgt]] : f \in fact}]

\* The cache takes the answers received, then the caller saves the store.
checkpoint(c) == cache' = WithFresh(c) /\ disk' = Saved(cache')

Checkpoint(c) ==
  /\ use.checkpoints /\ pc[c] = "extracting"
  /\ checkpoint(c)
  /\ UNCHANGED <<text, eg, entVec, fact, pc, job>>

Return(c) == pc' = [pc EXCEPT ![c] = "idle"] /\ job' = [job EXCEPT ![c] = NULL]

\* Wrong variant of BuildStops: a cancelled build just returns.
StopUnsaved(c) ==
  /\ pc[c] = "extracting" /\ job[c].cancelled
  /\ Return(c)
  /\ UNCHANGED <<storeVars, disk>>

\* ctx.Err(): chunks not handed out by then are never asked about.
BuildStops(c) ==
  /\ pc[c] = "extracting" /\ job[c].cancelled
  /\ IF use.checkpoints /\ \E t \in Texts : job[c].fresh[t] # NULL
     THEN checkpoint(c) ELSE UNCHANGED <<cache, disk>>
  /\ Return(c)
  /\ UNCHANGED <<text, eg, entVec, fact>>

ExtractionOf(c, d) ==
  LET a == job[c].got[d]
  IN  IF a = NULL THEN Nothing
      ELSE IF a.how = "said" THEN Says[a.by][job[c].read[d]] ELSE Nothing

\* Wrong variant of BuildInstall: the cache is pruned before the answers go in.
InstallUnpruned(c) ==
  /\ pc[c] = "extracting" /\ ~job[c].cancelled /\ ToAsk(c) = {}
  /\ UNCHANGED text
  /\ cache' = WithFresh(c)
  /\ rebuildEntityLocked(Accumulated([d \in Docs |-> ExtractionOf(c, d)]))
  /\ pc' = [pc EXCEPT ![c] = "installed"] /\ job' = [job EXCEPT ![c] = NULL]
  /\ UNCHANGED disk

\* Wrong variant of BuildInstall: the build adds to the graph that is there.
InstallOnto(c) ==
  LET built == Accumulated([d \in Docs |-> ExtractionOf(c, d)])
  IN  /\ pc[c] = "extracting" /\ ~job[c].cancelled /\ ToAsk(c) = {}
      /\ UNCHANGED text
      /\ cache' = pruneExtractCacheLocked(WithFresh(c))
      /\ rebuildEntityLocked(IF eg = NULL THEN built ELSE [cites |-> eg.cites \cup built.cites, facts |-> eg.facts \cup built.facts])
      /\ pc' = [pc EXCEPT ![c] = "installed"] /\ job' = [job EXCEPT ![c] = NULL]
      /\ UNCHANGED disk

\* The graph, the cache and the embeddings' reset, under one lock.
BuildInstall(c) ==
  /\ pc[c] = "extracting" /\ ~job[c].cancelled /\ ToAsk(c) = {}
  /\ UNCHANGED text
  /\ cache' = pruneExtractCacheLocked(WithFresh(c))
  /\ rebuildEntityLocked(Accumulated([d \in Docs |-> ExtractionOf(c, d)]))
  /\ pc' = [pc EXCEPT ![c] = "installed"]
  /\ job' = [job EXCEPT ![c] = NULL]
  /\ UNCHANGED disk

\* embedEntities reads the entities it will embed, under a lock of its own.
ReadEntities(c) ==
  /\ pc[c] = "installed"
  /\ pc' = [pc EXCEPT ![c] = "embedding"]
  /\ job' = [job EXCEPT ![c] = [entities |-> Nodes(eg)]]
  /\ UNCHANGED <<storeVars, disk>>

\* Wrong variant of EmbedEntities: the vectors are not counted again.
EmbedUnguarded(c) ==
  /\ pc[c] = "embedding"
  /\ entVec' = job[c].entities
  /\ pc' = [pc EXCEPT ![c] = "linking"] /\ job' = [job EXCEPT ![c] = NULL]
  /\ UNCHANGED <<text, cache, eg, fact, disk>>

\* The vectors are installed if there is one per entity by now.  The embedder may fail.
EmbedEntities(c) ==
  /\ pc[c] = "embedding"
  /\ entVec' \in {entVec} \cup (IF Len(job[c].entities) = Len(Nodes(eg)) /\ job[c].entities # <<>> THEN {job[c].entities} ELSE {})
  /\ pc' = [pc EXCEPT ![c] = "linking"] /\ job' = [job EXCEPT ![c] = NULL]
  /\ UNCHANGED <<text, cache, eg, fact, disk>>

-----------------------------------------------------------------------------
(* ensureFactIndex, at the end of a build and before a fact-linked query.   *)

\* Store.entGen, which nothing increments.
entGen == 0

FactsNeeded == fact = NULL /\ eg # NULL /\ eg.facts # {}

ReadFacts(c) ==
  /\ pc[c] = "linking" \/ Idle(c, "query")
  /\ IF FactsNeeded
     THEN /\ pc' = [pc EXCEPT ![c] = IF @ = "linking" THEN "indexing" ELSE "querying"]
          /\ job' = [job EXCEPT ![c] = [gen |-> entGen, facts |-> Indexed(eg, Relations(eg))]]
     ELSE Return(c)
  /\ UNCHANGED <<storeVars, disk>>

\* Off the lock the facts have been embedded, or the embedder failed.
InstallFacts(c) ==
  /\ pc[c] \in {"indexing", "querying"}
  /\ fact' \in {fact} \cup (IF entGen = job[c].gen /\ fact = NULL THEN {job[c].facts} ELSE {})
  /\ Return(c)
  /\ UNCHANGED <<text, cache, eg, entVec, disk>>

-----------------------------------------------------------------------------
(* Save, and the next process.                                              *)

Save ==
  /\ "save" \in use.calls
  /\ disk' = Saved(cache)
  /\ UNCHANGED <<storeVars, pc, job>>

\* Load: a graph without entities is not restored; facts find their nodes by name.
Restart ==
  /\ "save" \in use.calls /\ disk # NULL
  /\ text' = disk.text /\ cache' = disk.cache
  /\ IF EntitiesOf(disk.eg) = {} THEN eg' = NULL /\ entVec' = NULL /\ fact' = NULL
     ELSE /\ eg' = disk.eg
          /\ entVec' = disk.entVec
          /\ fact' = IF disk.fact = NULL THEN NULL ELSE Indexed(disk.eg, disk.fact)
  /\ pc' = [c \in Clients |-> "idle"] /\ job' = [c \in Clients |-> NULL]
  /\ UNCHANGED disk

-----------------------------------------------------------------------------

Init ==
  /\ use \in Uses
  /\ text = [d \in Docs |-> NULL]
  /\ cache = [m \in Models |-> [t \in Texts |-> NULL]]
  /\ eg = NULL /\ entVec = NULL /\ fact = NULL /\ disk = NULL
  /\ pc = [c \in Clients |-> "idle"] /\ job = [c \in Clients |-> NULL]

Build(c) ==
  \/ \E m \in use.models, others \in SUBSET use.models, include \in SUBSET use.docs, refresh \in BOOLEAN :
       \E fallback \in SetToSeqs(others) : BuildStart(c, m, fallback, include, refresh)
  \/ \E d \in Docs, how \in {"said", "failed"} : Extract(c, d, how)
  \/ Cancel(c) \/ Checkpoint(c) \/ BuildStops(c) \/ BuildInstall(c)
  \/ ReadEntities(c) \/ EmbedEntities(c)

Call(c) ==
  \/ \E d \in use.docs, t \in Texts : AddDocument(c, d, t) \/ applyPrepared(c, d, t)
  \/ \E d \in use.docs : DeleteDocument(c, d)
  \/ Build(c)
  \/ ReadFacts(c) \/ InstallFacts(c)

Next ==
  /\ (\E c \in Clients : Call(c)) \/ Save \/ Restart
  /\ UNCHANGED use

Spec == Init /\ [][Next]_vars

-----------------------------------------------------------------------------
(* Properties.                                                              *)

\* Texts, answers and a graph over the names; a relation joins two entities of the
\* graph, or its endpoints would have no node.
TypeOK ==
  /\ text \in [Docs -> Texts \cup {NULL}]
  /\ cache \in [Models -> [Texts -> {"said", "failed", NULL}]]
  /\ eg = NULL \/ (eg.cites \subseteq Names \X Docs /\ eg.facts \subseteq Facts)
  /\ eg # NULL => \A f \in eg.facts : {f[1], f[2]} \subseteq EntitiesOf(eg)
  /\ entVec = NULL \/ entVec \in Seq(Names)

\* A passage an entity cites is in the store, and it is the passage the entity was
\* found in: no mention is re-pointed at other content (update.go:213-219, 252-255).
CitationsAreEvidence ==
  eg # NULL => \A c \in eg.cites :
    /\ text[c[2]] # NULL
    /\ \E m \in Models : c[1] \in NamesOf(Says[m][text[c[2]]])

\* The embedding at a node is the embedding of the entity at that node, although
\* documents come and go while the entities are embedded and only the number of
\* vectors is compared (entitygraph.go:432-435).
VectorsDescribeEntities == entVec # NULL => entVec = Nodes(eg)

\* The fact index is the graph's relations, every one of them and no other, each at the
\* nodes of the two entities it joins, through builds, changes of the documents, saves
\* that write names for nodes, and restarts (entitygraph.go:804-812, persist.go:160-170).
\* Whether a passage states a relation is RelationsAreStated below.
FactsDescribeGraph == fact # NULL => eg # NULL /\ fact = Indexed(eg, Relations(eg))

\* What entity.go:259 has DropChunks keep ("deleting a document keeps the knowledge graph
\* consistent with the corpus"): a relation is one that a text in the store states.
\* Relations have no chunks of their own, so a deletion can leave one that none states.
RelationsAreStated ==
  eg # NULL => \A f \in eg.facts :
    \E d \in Docs, m \in Models : text[d] # NULL /\ f \in Says[m][text[d]].facts

\* A build starts the graph anew: a relation that earlier deletions left without a text
\* is not in the graph that it installs (entitygraph.go:280-339, 374-393).
BuildsState == (\E c \in Clients : pc[c] = "installed") => RelationsAreStated

\* In a program that makes one call at a time, an entity's citations are evidence, the
\* facts are those of the graph and a new graph has stated relations only, after any
\* sequence of builds, changes, saves and restarts.
GraphFitsStore ==
  /\ TypeOK
  /\ use.atOnce = 1 => CitationsAreEvidence /\ FactsDescribeGraph /\ BuildsState

\* What a model said of a text goes with the last document that has the text
\* (update.go:137-141): it is neither kept nor saved, unless Ingest replaced the text.
CacheIsLive == "ingest" \notin use.calls =>
  \A m \in Models, t \in Texts :
    /\ cache[m][t] # NULL => Held(t)
    /\ disk # NULL /\ disk.cache[m][t] # NULL => \E d \in Docs : disk.text[d] = t

\* A build that ends, cancelled or not, has kept every answer it received about a
\* text that is still there (entitygraph.go:79-84, 367-368).
AnswersKept ==
  [][\A c \in Clients :
       pc[c] = "extracting" /\ pc'[c] # "extracting" /\ (use.checkpoints \/ ~job[c].cancelled) /\ ~Restart =>
         \A t \in Texts : job[c].fresh[t] # NULL /\ Held(t) => cache'[job[c].model][t] # NULL]_vars
=============================================================================
