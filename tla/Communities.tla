----------------------------- MODULE Communities -----------------------------
(***************************************************************************)
(* Communities of chunks and their summaries: the similarity graph that a  *)
(* store keeps (graph/graph.go), the label propagation that partitions it  *)
(* (graph/community.go), the summaries a model writes of the parts         *)
(* (rag/community.go), and the requests that build them and that answer a  *)
(* question about the whole corpus from them (server/community.go).        *)
(*                                                                         *)
(* The write lock is held from the mutation of the chunks to the end of    *)
(* the detection it ends with: `sweep` is the detection in progress, and   *)
(* while there is one no other critical section runs.  A visit of a node   *)
(* is one step.  Summaries are written off the lock, one model call at a   *)
(* time, from passages copied before.                                      *)
(*                                                                         *)
(* Abstractions.  A chunk is its document and its text; a summary is the   *)
(* sequence of passages it was written from.  Similarities are integers,   *)
(* and a search finds the nearest chunks exactly (module Hnsw).  The order *)
(* of visits is a fixed function of the number of nodes and of the sweep,  *)
(* as the seed makes it, and any such function is allowed.  That the index *)
(* itself is built on demand, and documents without a chunk, are left to   *)
(* module Store.                                                           *)
(***************************************************************************)
EXTENDS SequencesExt, Ordering

CONSTANTS
  Docs, Contents,
  Pieces,            \* Pieces[c]: the texts of the chunks of content c
  Similarity,        \* Similarity[{t, u}]: how near two texts are, 0 below MinSimilarity
  GraphKNN,          \* neighbours recorded for a new chunk
  SequentialWeight,  \* weight of the edge between a chunk and the next of its document
  MaxIter,           \* sweeps of one detection
  MinSize,           \* the smallest community that is summarised
  MaxPassages,       \* passages of one prompt
  GlobalK,           \* communities of one answer
  Orders,            \* the functions the seed may be: [number of nodes -> [sweep -> order]]
  Clients,
  Uses,
  NULL

Requests == {"add", "delete", "ingest", "summarize", "global", "restart"}

\* A program: the calls it makes, how many at once, the documents it passes, and
\* the order of visits its seed makes.
Use == [calls : SUBSET Requests, atOnce : 1..Cardinality(Clients),
        docs : SUBSET [id : Docs, content : Contents], order : Orders]

\* The texts of chunks.
Texts == UNION {ToSet(Pieces[c]) : c \in Contents}

ASSUME ClientsAssumption == IsFiniteSet(Clients)
ASSUME PiecesAssumption == \A c \in Contents : Pieces[c] \in Seq(Texts) /\ Pieces[c] # <<>>
ASSUME SimilarityAssumption == \A t, u \in Texts : Similarity[{t, u}] \in Nat
ASSUME UsesAssumption == Uses \subseteq Use
ASSUME LimitsAssumption ==
  {GraphKNN, MaxIter, MinSize, MaxPassages, GlobalK} \subseteq Nat \ {0} /\ SequentialWeight \in Nat
ASSUME OrdersAssumption ==
  \A f \in Orders : \A n \in DOMAIN f :
    \A k \in 1..MaxIter : f[n][k] \in [1..n -> 1..n] /\ ToSet(f[n][k]) = 1..n

\* A detection: the labels so far, the number of the sweep, the nodes it has still to
\* visit, and whether it has changed a label.
Detection == [labels : Seq(Nat), iter : Nat, todo : Seq(Nat), changed : BOOLEAN]

ASSUME NullAssumption == NULL \notin Seq(Nat) \cup Detection

VARIABLES
  use,
  store,   \* the parts of the store that concern communities
  sweep,   \* the Detection in progress under the write lock, or NULL
  disk,    \* the saved store, or NULL
  stage, task

communityVars == <<use, store, sweep, disk, stage, task>>

-----------------------------------------------------------------------------
(* The similarity graph.                                                    *)

\* summaries[l] is the summary of the community labelled l; communities without
\* one are absent.  comm[i] is the label of chunk i.
EmptyStore ==
  [content |-> [d \in Docs |-> NULL], chunks |-> <<>>, edges |-> {}, indexedUpTo |-> 0,
   needsRebuild |-> FALSE, deferGraph |-> FALSE, g |-> NULL, comm |-> NULL, summaries |-> <<>>]

Near(chunks, i, j) == Similarity[{chunks[i].text, chunks[j].text}]

\* The chunks at most GraphKNN others are nearer than: ties go to the earlier.
Neighbours(chunks, i) ==
  {j \in DOMAIN chunks \ {i} :
     /\ Near(chunks, i, j) > 0
     /\ Cardinality({k \in DOMAIN chunks \ {i, j} :
                       \/ Near(chunks, i, k) > Near(chunks, i, j)
                       \/ Near(chunks, i, k) = Near(chunks, i, j) /\ k < j}) < GraphKNN}

\* Only the new chunks are searched for.
discoverEdges(m) ==
  LET near == Pairs(m.indexedUpTo + 1..Len(m.chunks), [i \in DOMAIN m.chunks |-> Neighbours(m.chunks, i)])
  IN  [m EXCEPT !.edges = @ \cup {[ends |-> {p[1], p[2]}, w |-> Near(m.chunks, p[1], p[2])] : p \in near},
                !.indexedUpTo = Len(m.chunks)]

\* Builder.AddEdge keeps the greatest weight of an edge, in both directions; the
\* edges of the document's order are added last.
AddEdges(m) ==
  LET weights(i, j) == {e.w : e \in {e \in m.edges : e.ends = {i, j}}}
                       \cup {SequentialWeight : k \in {k \in {i - 1, i + 1} \cap {j} :
                                                         m.chunks[i].doc = m.chunks[j].doc}}
  IN  [i \in DOMAIN m.chunks |-> [j \in DOMAIN m.chunks |->
         IF i = j \/ weights(i, j) = {} THEN 0 ELSE Max(weights(i, j))]]

\* The new graph has no partition until its detection ends.
rebuildGraph(m) == [m EXCEPT !.g = AddEdges(m), !.comm = NULL]

\* Wrong variant of reindexLocked: the edges of chunks that moved are kept.
reindexKeepingEdges(m) ==
  IF m.deferGraph THEN m ELSE rebuildGraph(discoverEdges([m EXCEPT !.needsRebuild = FALSE]))

\* What follows every mutation: ordinals that moved invalidate every edge, and
\* chunks without edges get them.
reindexLocked(m) ==
  LET r == IF m.needsRebuild
           THEN [m EXCEPT !.needsRebuild = FALSE, !.edges = {}, !.indexedUpTo = 0] ELSE m
  IN  IF r.deferGraph THEN r
      ELSE IF r.indexedUpTo >= Len(r.chunks)
           THEN IF r.g = NULL \/ r.indexedUpTo = 0 THEN rebuildGraph(r) ELSE r
           ELSE rebuildGraph(discoverEdges(r))

ensureGraphLocked(m) ==
  IF ~m.deferGraph THEN m
  ELSE reindexLocked([m EXCEPT !.deferGraph = FALSE, !.edges = {}, !.indexedUpTo = 0])

-----------------------------------------------------------------------------
(* Label propagation.                                                       *)

Adjacent(g, i) == {j \in DOMAIN g : g[i][j] > 0}

\* A sum of weights is a number of units of weight: <<j, u>> is a unit of the edges of
\* node i, and <<i, <<j, u>>>> one of the graph.
UnitsAt(g, i) == Pairs(DOMAIN g, [j \in DOMAIN g |-> 1..g[i][j]])
Units(g) == Pairs(DOMAIN g, [i \in DOMAIN g |-> UnitsAt(g, i)])

\* The weight of the edges from node i to the nodes with label l.
Pull(g, labels, i, l) == Cardinality({u \in UnitsAt(g, i) : labels[u[1]] = l})

\* The labels of the neighbours of a node.
LabelsNear(g, labels, i) == {labels[j] : j \in Adjacent(g, i)}

\* Wrong variant of Heaviest: ties go to the greatest label.
HeaviestLast(g, labels, i) ==
  LET near == LabelsNear(g, labels, i)
  IN  IF near = {} THEN labels[i]
      ELSE Max({l \in near : \A k \in near : Pull(g, labels, i, l) >= Pull(g, labels, i, k)})

\* The label that weighs most among the neighbours of a node, the smallest of
\* several; a node without neighbours keeps its own.
Heaviest(g, labels, i) ==
  LET near == LabelsNear(g, labels, i)
  IN  IF near = {} THEN labels[i]
      ELSE Min({l \in near : \A k \in near : Pull(g, labels, i, l) >= Pull(g, labels, i, k)})

\* Labels renumbered in the order of the first node that has them.
compact(labels) ==
  LET first(i) == Min({j \in DOMAIN labels : labels[j] = labels[i]})
      firsts   == {first(i) : i \in DOMAIN labels}
  IN  [i \in DOMAIN labels |-> PlaceIn(firsts, first(i))]

\* Where a program gives no order, as for more nodes than it has, in turn.
Order(n, k) == IF n \in DOMAIN use.order THEN use.order[n][k] ELSE [i \in 1..n |-> i]

Sweep(n, k, labels) == [labels |-> labels, iter |-> k, todo |-> Order(n, k), changed |-> FALSE]

\* The end of a critical section that may have rebuilt the graph: either its
\* communities are detected before the lock is released, or it is released.
Detect(m) ==
  LET n == Len(m.chunks)
  IN  IF m.g = NULL \/ m.comm # NULL THEN store' = m /\ sweep' = NULL
      ELSE IF n = 0 THEN store' = [m EXCEPT !.comm = <<>>] /\ sweep' = NULL
      ELSE store' = m /\ sweep' = Sweep(n, 1, [i \in 1..n |-> i])

Visit ==
  /\ sweep # NULL /\ sweep.todo # <<>>
  /\ LET i == Head(sweep.todo)
         best == Heaviest(store.g, sweep.labels, i)
     IN  sweep' = [sweep EXCEPT !.todo = Tail(@), !.labels[i] = best,
                                !.changed = @ \/ best # sweep.labels[i]]
  /\ UNCHANGED <<store, disk, stage, task>>

\* Wrong variant of SweepEnd: detection stops after the first sweep.
SweepOnce ==
  /\ sweep # NULL /\ sweep.todo = <<>>
  /\ store' = [store EXCEPT !.comm = compact(sweep.labels)]
  /\ sweep' = NULL
  /\ UNCHANGED <<disk, stage, task>>

SweepEnd ==
  /\ sweep # NULL /\ sweep.todo = <<>>
  /\ IF sweep.changed /\ sweep.iter < MaxIter
     THEN sweep' = Sweep(Len(store.chunks), sweep.iter + 1, sweep.labels) /\ UNCHANGED store
     ELSE store' = [store EXCEPT !.comm = compact(sweep.labels)] /\ sweep' = NULL
  /\ UNCHANGED <<disk, stage, task>>

-----------------------------------------------------------------------------
(* Calls that change the documents.                                         *)

Idle(c, call) ==
  /\ stage[c] = "idle" /\ call \in use.calls
  /\ Cardinality({b \in Clients : stage[b] # "idle"}) < use.atOnce

Goto(c, l) == stage' = [stage EXCEPT ![c] = l]
NoTask == [docs |-> {}, jobs |-> <<>>, todo |-> {}, found |-> <<>>, answer |-> {}]
Finish(c) == Goto(c, "idle") /\ task' = [task EXCEPT ![c] = NoTask]

\* Wrong variant of Unlocked: a build keeps the lock while the model writes.
UnlockedByBuilds == sweep = NULL /\ \A c \in Clients : stage[c] # "summarizing"

\* Nobody holds the write lock.
Unlocked == sweep = NULL

NoneOf(s, id) ==
  LET kept == Ordered({i \in DOMAIN s : s[i].doc # id}) IN [n \in DOMAIN kept |-> s[kept[n]]]

ChunksOf(id, content) == [i \in DOMAIN Pieces[content] |-> [doc |-> id, text |-> Pieces[content][i]]]

removeDocLocked(m, id) ==
  LET kept == NoneOf(m.chunks, id)
  IN  [m EXCEPT !.chunks = kept, !.content[id] = NULL,
                !.needsRebuild = @ \/ Len(kept) # Len(m.chunks)]

\* Held elsewhere, or unchanged.
Duplicate(m, content) == \E d \in Docs : m.content[d] = content

applyPreparedLocked(m, id, content) ==
  IF Duplicate(m, content) THEN m
  ELSE LET r == removeDocLocked(m, id)
       IN  [r EXCEPT !.chunks = @ \o ChunksOf(id, content), !.content[id] = content]

\* Wrong variant of AddDocuments: the summaries of the old graph are kept.
AddKeepingSummaries(c, id, content) ==
  /\ Idle(c, "add") /\ Unlocked /\ ~Duplicate(store, content)
  /\ Detect(reindexLocked(applyPreparedLocked(store, id, content)))
  /\ UNCHANGED <<disk, stage, task>>

AddDocuments(c, id, content) ==
  /\ Idle(c, "add") /\ Unlocked /\ ~Duplicate(store, content)
  /\ Detect(reindexLocked([applyPreparedLocked(store, id, content) EXCEPT !.summaries = <<>>]))
  /\ UNCHANGED <<disk, stage, task>>

DeleteDocument(c, id) ==
  /\ Idle(c, "delete") /\ Unlocked /\ store.content[id] # NULL
  /\ Detect(reindexLocked([removeDocLocked(store, id) EXCEPT !.summaries = <<>>]))
  /\ UNCHANGED <<disk, stage, task>>

\* Ingest applies its documents one at a time, in the order its workers have
\* them ready, and reindexes at the end.
IngestStart(c, docs) ==
  /\ Idle(c, "ingest")
  /\ Goto(c, "ingesting")
  /\ task' = [task EXCEPT ![c].docs = docs]
  /\ UNCHANGED <<store, sweep, disk>>

IngestApply(c) ==
  /\ stage[c] = "ingesting" /\ Unlocked
  /\ \E d \in task[c].docs :
       /\ store' = applyPreparedLocked(store, d.id, d.content)
       /\ task' = [task EXCEPT ![c].docs = @ \ {d}]
  /\ UNCHANGED <<sweep, disk, stage>>

Reindex(c) ==
  /\ stage[c] = "ingesting" /\ Unlocked /\ task[c].docs = {}
  /\ Detect(reindexLocked(ensureGraphLocked(store)))
  /\ Finish(c)
  /\ UNCHANGED disk

-----------------------------------------------------------------------------
(* Building summaries.                                                      *)

Labels(comm) == {comm[i] : i \in DOMAIN comm}

\* The nodes of community l, ascending.
Members(comm, l) == SelectSeq([i \in DOMAIN comm |-> i], LAMBDA i : comm[i] = l)

\* The texts of the first members that the chunk array still has.
Passages(chunks, comm, l) ==
  LET here == SelectSeq(Members(comm, l), LAMBDA i : i \in DOMAIN chunks)
  IN  [i \in 1..Min({Len(here), MaxPassages}) |-> chunks[here[i]].text]

\* The communities worth a summary.
Jobs(m) ==
  IF m.comm = NULL THEN {}
  ELSE {l \in Labels(m.comm) : Len(Members(m.comm, l)) >= MinSize /\ Passages(m.chunks, m.comm, l) # <<>>}

BuildBegin(c) ==
  /\ Idle(c, "summarize") /\ Unlocked
  /\ Detect(ensureGraphLocked(store))
  /\ Goto(c, "copying")
  /\ UNCHANGED <<disk, task>>

\* The passages are copied under the read lock; without any the call is done,
\* and the summaries that are there stay.
BuildCopy(c) ==
  /\ stage[c] = "copying" /\ Unlocked
  /\ LET jobs == Jobs(store)
     IN  IF jobs = {} THEN Goto(c, "persisting") /\ UNCHANGED task
         ELSE /\ Goto(c, "summarizing")
              /\ task' = [task EXCEPT ![c].jobs = [l \in jobs |-> Passages(store.chunks, store.comm, l)],
                                      ![c].todo = jobs]
  /\ UNCHANGED <<store, sweep, disk>>

\* A worker's model call returns: a failure, like an empty answer, leaves the
\* community without a summary.
Summarize(c) ==
  /\ stage[c] = "summarizing"
  /\ \E l \in task[c].todo :
       \/ task' = [task EXCEPT ![c].todo = @ \ {l}, ![c].found = Restrict(task[c].jobs, DOMAIN @ \cup {l})]
       \/ task' = [task EXCEPT ![c].todo = @ \ {l}]
  /\ UNCHANGED <<store, sweep, disk, stage>>

\* The client is gone: nothing is installed.
BuildCancelled(c) ==
  /\ stage[c] = "summarizing"
  /\ Finish(c)
  /\ UNCHANGED <<store, sweep, disk>>

BuildInstall(c) ==
  /\ stage[c] = "summarizing" /\ task[c].todo = {} /\ Unlocked
  /\ store' = [store EXCEPT !.summaries = task[c].found]
  /\ Goto(c, "persisting")
  /\ UNCHANGED <<sweep, disk, task>>

\* handleBuildCommunities persists the bucket; what is saved has no graph.
Persist(c) ==
  /\ stage[c] = "persisting" /\ Unlocked
  /\ disk' = [content |-> store.content, chunks |-> store.chunks, summaries |-> store.summaries]
  /\ Finish(c)
  /\ UNCHANGED <<store, sweep>>

\* The next process reads the store and builds its graph on demand.
Restart ==
  /\ "restart" \in use.calls
  /\ store' = IF disk = NULL THEN EmptyStore
              ELSE [EmptyStore EXCEPT !.content = disk.content, !.chunks = disk.chunks,
                                      !.summaries = disk.summaries, !.deferGraph = disk.chunks # <<>>]
  /\ sweep' = NULL
  /\ stage' = [c \in Clients |-> "idle"]
  /\ task' = [c \in Clients |-> NoTask]
  /\ UNCHANGED disk

-----------------------------------------------------------------------------
(* Answering a question about the whole corpus.                             *)

\* Each summary with the members its label has now.
CommunitySummaries(m) ==
  IF m.comm = NULL THEN {}
  ELSE {[summary |-> m.summaries[l], texts |-> Passages(m.chunks, m.comm, l)] : l \in DOMAIN m.summaries}

\* chatGlobal refuses a store without summaries, and RelevantCommunities builds
\* the graph they are looked up in.
GlobalBegin(c) ==
  /\ Idle(c, "global") /\ Unlocked /\ store.summaries # <<>>
  /\ Detect(ensureGraphLocked(store))
  /\ Goto(c, "gathering")
  /\ UNCHANGED <<disk, task>>

\* The GlobalK most similar to the query, whichever these are; without any the
\* reply is that no theme matched.
GlobalGather(c) ==
  /\ stage[c] = "gathering" /\ Unlocked
  /\ LET all == CommunitySummaries(store)
     IN  IF all = {} THEN Finish(c)
         ELSE \E best \in SUBSET all :
                /\ Cardinality(best) = Min({GlobalK, Cardinality(all)})
                /\ task' = [task EXCEPT ![c].answer = best]
                /\ Goto(c, "answering")
  /\ UNCHANGED <<store, sweep, disk>>

\* The sources are sent and the model's answer is streamed, or fails.
GlobalAnswer(c) ==
  /\ stage[c] = "answering"
  /\ Finish(c)
  /\ UNCHANGED <<store, sweep, disk>>

-----------------------------------------------------------------------------

CommunitiesInit ==
  /\ use \in Uses
  /\ store = EmptyStore
  /\ sweep = NULL
  /\ disk = NULL
  /\ stage = [c \in Clients |-> "idle"]
  /\ task = [c \in Clients |-> NoTask]

Detecting == Visit \/ SweepEnd

Calling(c) ==
  \/ IngestApply(c) \/ Reindex(c)
  \/ BuildCopy(c) \/ Summarize(c) \/ BuildInstall(c) \/ Persist(c)
  \/ GlobalGather(c) \/ GlobalAnswer(c)

CommunitiesNext ==
  /\ \/ Detecting
     \/ Restart
     \/ \E c \in Clients :
          \/ Calling(c)
          \/ \E d \in use.docs : AddDocuments(c, d.id, d.content)
          \/ \E id \in Docs : DeleteDocument(c, id)
          \/ \E docs \in kSubset(1, use.docs) \cup kSubset(2, use.docs) : IngestStart(c, docs)
          \/ BuildBegin(c)
          \/ BuildCancelled(c)
          \/ GlobalBegin(c)
  /\ UNCHANGED use

\* A detection holds the lock and runs to its end; a call that waits for the lock
\* gets it, since Go's RWMutex hands it on in turn; a model call returns.
Fairness == WF_communityVars(Detecting /\ UNCHANGED use)
            /\ \A c \in Clients : SF_communityVars(Calling(c) /\ UNCHANGED use)

CommunitiesSpec == CommunitiesInit /\ [][CommunitiesNext]_communityVars /\ Fairness
-----------------------------------------------------------------------------
(* Properties.                                                              *)

\* A path leads from i to j: every set with i that no edge leaves has j.
Joined(g, i, j) ==
  \A S \in SUBSET DOMAIN g : i \in S /\ (\A n \in S : Adjacent(g, n) \subseteq S) => j \in S

\* The graph is the graph of the chunks that are there.
GraphFits ==
  /\ DOMAIN store.g = DOMAIN store.chunks
  /\ \A i, j \in DOMAIN store.g :
       /\ store.g[i][j] = store.g[j][i]
       /\ \/ store.g[i][j] \in {0, Near(store.chunks, i, j)}
          \/ store.chunks[i].doc = store.chunks[j].doc /\ store.g[i][j] = SequentialWeight

\* Between critical sections, unless an ingestion has still to reindex, the
\* partition has one label per chunk, its labels are 1..C (Members is read with
\* every label below NumCommunities), and no part joins chunks that no path connects.
PartitionFits ==
  /\ store.content \in [Docs -> Contents \cup {NULL}]
  /\ sweep = NULL /\ store.comm # NULL /\ (\A c \in Clients : stage[c] # "ingesting") =>
       /\ GraphFits
       /\ DOMAIN store.comm = DOMAIN store.chunks
       /\ Labels(store.comm) = 1..Cardinality(Labels(store.comm))
       /\ \A i, j \in DOMAIN store.comm : store.comm[i] = store.comm[j] => Joined(store.g, i, j)

\* The weight that falls inside communities, and the sum of the labels.
Inside(g, labels) == Cardinality({u \in Units(g) : labels[u[1]] = labels[u[2][1]]})
Height(labels) == Cardinality(Pairs(DOMAIN labels, [i \in DOMAIN labels |-> 1..labels[i]]))

\* No node has neighbours in another part that weigh more than those in its own.
Settled(g, labels) ==
  \A i, j \in DOMAIN g : Pull(g, labels, i, labels[i]) >= Pull(g, labels, i, labels[j])

\* A visit that changes a label brings more weight inside the communities, or keeps it
\* and makes a label smaller: propagation cannot come back to labels it had, and the
\* oscillation that MaxIter guards against (graph/community.go, CommunityOpts) does not
\* exist.  The partition it ends with is a fixed point, unless it is cut off by MaxIter.
SweepsProgress ==
  [][sweep # NULL =>
       /\ sweep' # NULL /\ Len(sweep'.todo) < Len(sweep.todo) =>
            \/ sweep'.labels = sweep.labels
            \/ Inside(store.g, sweep'.labels) > Inside(store.g, sweep.labels)
            \/ /\ Inside(store.g, sweep'.labels) = Inside(store.g, sweep.labels)
               /\ Height(sweep'.labels) < Height(sweep.labels)
       /\ store'.comm # NULL => Settled(store'.g, store'.comm) \/ sweep.iter = MaxIter]_communityVars

\* An answer cites each summary with the passages it was written from.
AnswerFits ==
  \A c \in Clients : stage[c] = "answering" => \A s \in task[c].answer : s.summary = s.texts

\* So it does in a program with one call at a time that neither ingests in bulk
\* nor restarts: a change of the graph forgets the summaries (store.go:369).
AnswerFitsAlone ==
  use.atOnce = 1 /\ use.calls \cap {"ingest", "restart"} = {} => AnswerFits

\* Every call ends: detections end, and nobody waits for a lock that a call holds
\* while it waits for the model.
CallsEnd == \A c \in Clients : stage[c] # "idle" ~> stage[c] = "idle"

=============================================================================
