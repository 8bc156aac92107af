------------------------------- MODULE Store -------------------------------
(***************************************************************************)
(* The in-memory store of rag/store.go and rag/update.go: the chunk and    *)
(* embedding arrays that are the source of truth, the registry of content  *)
(* hashes that keeps a document from being indexed twice, and the derived  *)
(* structures (vector and lexical index, similarity graph) that are built  *)
(* on demand in two tiers, shared with the arrays, saved with the store    *)
(* and restored from it.                                                   *)
(*                                                                         *)
(* Every field of the Go struct the properties need is a field of the      *)
(* record `store`; the *Locked helpers of the code are operators from      *)
(* record to record, so a handler composes them in the order the code      *)
(* calls them.  `writer` is the holder of the write lock while a handler   *)
(* that loops under it (AddDocuments) is between two iterations; every     *)
(* other critical section is one action.                                   *)
(*                                                                         *)
(* Abstractions.  A content hash is the content it hashes.  A content is   *)
(* the sequence Pieces[c] of the texts it is chunked into.  The embedding  *)
(* of a text is the text itself: two texts have different vectors, and     *)
(* normalisation and quantisation are not modelled.  The HNSW and the BM25 *)
(* index are always filled together, so they are one sequence of entries:  *)
(* the chunk as it was tokenised, the vector stored for that ordinal and   *)
(* the vector its links were computed for.  A version history is its newest*)
(* entry.  Metadata, redaction, community summaries and the entity graph   *)
(* (module EntityGraph) are left out.                                      *)
(***************************************************************************)
EXTENDS SequencesExt, Ordering

CONSTANTS
  Docs,      \* document ids
  Contents,  \* document texts, identified with their hashes
  Pieces,    \* Pieces[c]: the texts of the chunks content c is split into
  Clients,   \* goroutines calling the store
  Uses,      \* the programs the store may be embedded in
  NULL

Entries == {"add", "delete", "build", "ingest", "merge", "retrieve", "graph", "save"}

\* A program: the entry points it calls and how many calls it has in progress at
\* once, the contents it has and how many documents it passes to one call, and the
\* vector modes it writes snapshots in.
Use ==
  [calls : SUBSET Entries, atOnce : 1..Cardinality(Clients),
   contents : SUBSET Contents, batch : 1..Cardinality(Docs),
   modes : SUBSET {"exact", "codes", "none"}]

ASSUME ClientsAssumption == IsFiniteSet(Clients) /\ IsFiniteSet(Docs)
ASSUME UsesAssumption == Uses \subseteq Use

\* What the programs U may be assumed to do.  A merge is the only call in progress, as
\* cmd/turbograph makes it.
MergesAlone(U) == \A u \in U : "merge" \in u.calls => u.atOnce = 1

\* No document without chunks is built or merged; an add or an ingestion drops them.
Chunked(U) ==
  \A u \in U : u.calls \cap {"build", "merge"} # {} => \A c \in u.contents : Pieces[c] # <<>>

\* No query is answered while documents are ingested or merged.
AnswersAlone(U) ==
  \A u \in U : u.calls \cap {"retrieve", "graph"} # {} /\ u.calls \cap {"ingest", "merge"} # {} => u.atOnce = 1

\* Every update changes the number of chunks.
LengthsDiffer(u) == \A c, e \in u.contents : c # e => Len(Pieces[c]) # Len(Pieces[e])

\* Where lengths are to tell old vectors from new, an update is a call of its own: neither
\* other documents of its batch nor an ingestion beside it make up for what it changes.
UpdatesAlone(U) ==
  \A u \in U : LengthsDiffer(u) /\ "add" \in u.calls => u.batch = 1 /\ "ingest" \notin u.calls

\* The arrays of a store that was loaded are only made longer, or only made shorter,
\* before its indexes are built; and embeddings are computed anew only where they come
\* out the same.
SavesApart(U) ==
  \A u \in U : "save" \in u.calls =>
    /\ u.calls \cap {"build", "ingest"} = {}
    /\ "merge" \in u.calls => "delete" \notin u.calls
    /\ "none" \in u.modes => LengthsDiffer(u)

Texts == UNION {ToSet(Pieces[c]) : c \in Contents}

ASSUME PiecesAssumption == DOMAIN Pieces = Contents /\ \A c \in Contents : Pieces[c] \in Seq(Texts)

\* An element of the arrays, an entry of the indexes, the graph, and what is saved.
Chunk   == [doc : Docs, pos : Nat, text : Texts]
Element == [doc : Docs, pos : Nat, text : Texts, vec : Texts]
Entry   == [doc : Docs, pos : Nat, text : Texts, vec : Texts, link : Texts]
Graph   == [nodes : Seq(Chunk), edges : Seq(Chunk)]

Snapshot ==
  [corpus : Seq(Element), idHash : [Docs -> Contents \cup {NULL}], latest : [Docs -> Contents \cup {NULL}],
   links : Seq(Texts) \cup {NULL}, mode : {"exact", "codes", "none"}]

ASSUME NullAssumption ==
  /\ NULL \notin Docs \cup Contents \cup Clients
  /\ NULL \notin Seq(Entry) /\ NULL \notin Seq(Texts) /\ NULL \notin Graph /\ NULL \notin Snapshot

VARIABLES
  use,     \* the program
  store,   \* the in-memory Store
  disk,    \* the last snapshot written, or NULL
  writer,  \* the client holding the write lock between two steps, or NULL
  pc,      \* pc[c]: where client c is in the call it is making
  task     \* task[c]: the documents, and the prepared documents, of that call

vars == <<use, store, disk, writer, pc, task>>

-----------------------------------------------------------------------------
(* Documents, chunks and the arrays.                                        *)

\* What the program passes to a call.
Batches == BoundedSeq([id : Docs, content : use.contents], use.batch) \ {<<>>}

\* The chunks of a document with the vectors `vecs`, as array elements.
Elements(d, vecs) ==
  [i \in DOMAIN vecs |-> [doc |-> d.id, pos |-> i, text |-> Pieces[d.content][i], vec |-> vecs[i]]]

\* What a chunk is, apart from its embedding.
ChunkOf(e) == [doc |-> e.doc, pos |-> e.pos, text |-> e.text]
ChunksOf(s) == [i \in DOMAIN s |-> ChunkOf(s[i])]

\* A chunk id is doc#pos; Ord maps an id to the LAST ordinal added under it.
IdOf(e) == <<e.doc, e.pos>>

\* The chunks of several documents, one document after the other.
AllElements(docs) ==
  LET at == InTurn(DOMAIN docs, [i \in DOMAIN docs |-> DOMAIN Pieces[docs[i].content]])
  IN  [n \in DOMAIN at |-> Elements(docs[at[n][1]], Pieces[docs[at[n][1]].content])[at[n][2]]]

\* The loop that copies every kept element down to the next free slot.
Compacted(s, kept) ==
  LET at == Ordered(kept) IN [n \in 1..Cardinality(kept) |-> s[at[n]]]

\* Wrong variant of KeptWithout: only the first chunk of the document goes.
KeptWithoutFirst(s, id) == DOMAIN s \ {SelectInSeq(s, LAMBDA e : e.doc = id)}

KeptWithout(s, id) == {i \in DOMAIN s : s[i].doc # id}

EmptyStore ==
  [corpus |-> <<>>, docSet |-> {},
   hashes |-> [c \in Contents |-> NULL], idHash |-> [d \in Docs |-> NULL],
   latest |-> [d \in Docs |-> NULL],
   index |-> NULL, needsRebuild |-> FALSE,
   deferIndex |-> FALSE, deferGraph |-> FALSE, savedLinks |-> NULL, flat |-> NULL,
   edges |-> <<>>, graph |-> NULL]

-----------------------------------------------------------------------------
(* The helpers that run under the write lock, as operators on the store.    *)

\* hnsw.Add and bm25.Add for every element, in order.
Indexed(s) == [i \in DOMAIN s |-> [doc |-> s[i].doc, pos |-> s[i].pos, text |-> s[i].text,
                                   vec |-> s[i].vec, link |-> s[i].vec]]

initIndexes(m) == [m EXCEPT !.index = <<>>]

rebuildIndexesLocked(m) == [m EXCEPT !.index = Indexed(m.corpus)]

\* The embeddings become views of the index's buffer, whenever the two have
\* the same length.
shareVectorsLocked(m) ==
  IF m.index = NULL \/ Len(m.index) # Len(m.corpus) THEN m
  ELSE [m EXCEPT !.corpus = [i \in DOMAIN m.corpus |-> [m.corpus[i] EXCEPT !.vec = m.index[i].vec]]]

appendToArraysLocked(m, els) ==
  [m EXCEPT !.corpus = m.corpus \o els, !.docSet = m.docSet \cup {e.doc : e \in ToSet(els)}]

appendChunksLocked(m, els) ==
  [appendToArraysLocked(m, els) EXCEPT !.index = m.index \o Indexed(els)]

recordHashLocked(m, id, c) == [m EXCEPT !.hashes[c] = id, !.idHash[id] = c]

\* Wrong variant of recordVersionLocked: only the first content of an id is kept.
recordFirstVersion(m, id, c) == [m EXCEPT !.latest[id] = IF @ = NULL THEN c ELSE @]

recordVersionLocked(m, id, c) == [m EXCEPT !.latest[id] = c]

\* The two above for every document of a sequence, in order.
recordAll(m, docs) ==
  LET lastOf(c) == SelectLastInSeq(docs, LAMBDA d : d.content = c)
      new(d)    == SelectLastInSeq(docs, LAMBDA e : e.id = d)
  IN  [m EXCEPT !.hashes = [c \in Contents |-> IF lastOf(c) = 0 THEN @[c] ELSE docs[lastOf(c)].id],
                !.idHash = [d \in Docs |-> IF new(d) = 0 THEN @[d] ELSE docs[new(d)].content],
                !.latest = [d \in Docs |-> IF new(d) = 0 THEN @[d] ELSE docs[new(d)].content]]

\* Wrong variant of removeDocLocked: the indexes are not flagged as stale.
removeDocUnflagged(m, id) ==
  LET own == m.idHash[id]
  IN  [m EXCEPT !.corpus = Compacted(@, KeptWithout(@, id)),
                !.docSet = @ \ {id},
                !.hashes = IF own = NULL THEN @ ELSE [@ EXCEPT ![own] = NULL],
                !.idHash[id] = NULL]

removeDocLocked(m, id) ==
  LET kept == Compacted(m.corpus, KeptWithout(m.corpus, id))
      own  == m.idHash[id]
  IN  [m EXCEPT !.corpus = kept,
                !.needsRebuild = m.needsRebuild \/ Len(kept) # Len(m.corpus),
                !.docSet = m.docSet \ {id},
                !.hashes = IF own = NULL THEN m.hashes ELSE [m.hashes EXCEPT ![own] = NULL],
                !.idHash[id] = NULL]

\* Wrong variant of Restorable: links left over after a removal are adopted.
RestorableByPrefix(m) ==
  m.savedLinks # NULL /\ m.corpus # <<>> /\ Len(m.savedLinks) >= Len(m.corpus)

\* The saved links are adopted when there is one per chunk.
Restorable(m) ==
  /\ m.savedLinks # NULL
  /\ m.corpus # <<>>
  /\ Len(m.savedLinks) = Len(m.corpus)

\* The flat block read with the links replaces the embeddings if it has one
\* vector per chunk.
restoreHNSWLocked(m) ==
  LET adopt == m.flat # NULL /\ Len(m.flat) = Len(m.corpus)
  IN  [m EXCEPT !.index = [i \in DOMAIN m.corpus |->
         [doc |-> m.corpus[i].doc, pos |-> m.corpus[i].pos, text |-> m.corpus[i].text,
          vec |-> IF adopt THEN m.flat[i] ELSE m.corpus[i].vec,
          link |-> m.savedLinks[i]]]]

ensureSearchLocked(m) ==
  IF ~m.deferIndex THEN m
  ELSE LET built == IF Restorable(m) THEN restoreHNSWLocked(m) ELSE rebuildIndexesLocked(m)
       IN  shareVectorsLocked([built EXCEPT !.deferIndex = FALSE, !.needsRebuild = FALSE,
                                            !.savedLinks = NULL, !.flat = NULL])

rebuildGraph(m) == [m EXCEPT !.graph = [nodes |-> ChunksOf(m.corpus), edges |-> m.edges]]

\* From the first chunk without edges on.  edges[i] is the chunk that was at
\* ordinal i when its edges were found, so indexedUpTo is its length.
discoverEdges(m) ==
  [m EXCEPT !.edges = m.edges \o ChunksOf(SubSeq(m.corpus, Len(m.edges) + 1, Len(m.corpus)))]

\* Wrong variant of reindexLocked: the edges of a rebuilt index are kept.
reindexKeepingEdges(m) ==
  IF m.deferIndex THEN m
  ELSE LET r == IF m.needsRebuild THEN [rebuildIndexesLocked(m) EXCEPT !.needsRebuild = FALSE] ELSE m
       IN  IF r.deferGraph THEN r ELSE rebuildGraph(discoverEdges(r))

\* Nothing before the indexes exist; a rebuild if chunks were removed; then the
\* edges of the chunks that have none.
reindexLocked(m) ==
  IF m.deferIndex THEN m
  ELSE LET r == IF m.needsRebuild
                THEN [shareVectorsLocked(rebuildIndexesLocked(m))
                        EXCEPT !.needsRebuild = FALSE, !.edges = <<>>]
                ELSE m
       IN  IF r.deferGraph THEN r
           ELSE IF Len(r.edges) >= Len(r.corpus)
                THEN IF r.graph = NULL \/ r.edges = <<>> THEN rebuildGraph(r) ELSE r
                ELSE rebuildGraph(discoverEdges(r))

ensureGraphLocked(m) ==
  LET s == ensureSearchLocked(m)
  IN  IF ~s.deferGraph THEN s
      ELSE reindexLocked([s EXCEPT !.deferGraph = FALSE, !.edges = <<>>])

\* Wrong variant of Rejected: the content is not checked again under the lock.
RejectedUnchecked(m, p) ==
  p.vecs = <<>> \/ (p.id \in m.docSet /\ m.idHash[p.id] = p.content)

\* A prepared document p = [id, content, vecs] that changes nothing.
Rejected(m, p) ==
  \/ p.vecs = <<>>
  \/ m.hashes[p.content] \notin {NULL, p.id}
  \/ p.id \in m.docSet /\ m.idHash[p.id] = p.content

\* An update of a document that is there, else an add.
applyPreparedLocked(m, p) ==
  LET els      == Elements(p, p.vecs)
      ready    == IF m.index = NULL THEN initIndexes(m) ELSE m
      replaced == appendToArraysLocked(removeDocLocked(ready, p.id), els)
      appended == IF ready.needsRebuild THEN appendToArraysLocked(ready, els)
                                        ELSE appendChunksLocked(ready, els)
      installed == IF p.id \in m.docSet THEN replaced ELSE appended
  IN  IF p.vecs = <<>> THEN m
      ELSE IF Rejected(m, p) THEN ready
      ELSE recordVersionLocked(recordHashLocked(installed, p.id, p.content), p.id, p.content)

-----------------------------------------------------------------------------
(* Calls that read the store without changing it.                           *)

\* newDocuments keeps a document of the batch unless its content is indexed, or
\* a document kept before it has its id or its content.
newDocuments(batch, kept) ==
  \A i \in DOMAIN batch :
    i \in kept <=>
      /\ store.hashes[batch[i].content] = NULL
      /\ \A j \in kept \cap 1..(i - 1) :
           batch[j].id # batch[i].id /\ batch[j].content # batch[i].content

\* Wrong variant of docEmbeddings: any chunk of the document is reused.
docEmbeddingsOfAnyText(id, text) == SelectLastInSeq(store.corpus, LAMBDA e : e.doc = id)

\* The ordinal whose vector a document's current chunks offer for a text (the
\* last one wins), 0 if the text is new to the document.
docEmbeddings(id, text) ==
  SelectLastInSeq(store.corpus, LAMBDA e : e.doc = id /\ e.text = text)

\* prepareDoc: embed every chunk, reusing the vector of an unchanged text.
Prepared(d) ==
  [id |-> d.id, content |-> d.content,
   vecs |-> [i \in DOMAIN Pieces[d.content] |->
               LET text  == Pieces[d.content][i]
                   reuse == docEmbeddings(d.id, text)
               IN  IF reuse = 0 THEN text ELSE store.corpus[reuse].vec]]

\* prepareForIngest skips what is present under this or another id.
SkippedByIngest(d) ==
  \/ store.hashes[d.content] \notin {NULL, d.id}
  \/ store.idHash[d.id] = d.content
  \/ Pieces[d.content] = <<>>

Idle(c, call) ==
  /\ pc[c] = "idle" /\ writer = NULL /\ call \in use.calls
  /\ Cardinality({b \in Clients : pc[b] # "idle"}) < use.atOnce

Goto(c, l) == pc' = [pc EXCEPT ![c] = l]

NoTask == [todo |-> <<>>, preps |-> <<>>, changed |-> FALSE]

Return(c) == Goto(c, "idle") /\ task' = [task EXCEPT ![c] = NoTask]

-----------------------------------------------------------------------------
(* AddDocuments: filter under the read lock, prepare each document off the  *)
(* lock, then apply the batch under the write lock.                         *)

AddStart(c, batch) ==
  /\ Idle(c, "add")
  /\ \E kept \in SUBSET DOMAIN batch :
       /\ newDocuments(batch, kept)
       /\ IF kept = {} THEN UNCHANGED <<pc, task>>
          ELSE Goto(c, "preparing") /\ task' = [task EXCEPT ![c].todo = Compacted(batch, kept)]
  /\ UNCHANGED <<store, disk, writer>>

\* A document without chunks is not prepared for the batch.
AddPrepare(c) ==
  /\ pc[c] = "preparing"
  /\ writer = NULL
  /\ task[c].todo # <<>>
  /\ LET p == Prepared(Head(task[c].todo))
     IN  task' = [task EXCEPT ![c].todo = Tail(@),
                              ![c].preps = IF p.vecs = <<>> THEN @ ELSE Append(@, p)]
  /\ UNCHANGED <<store, disk, writer, pc>>

\* The embedder fails on one document: the whole call returns the error.
AddFails(c) ==
  /\ pc[c] = "preparing"
  /\ task[c].todo # <<>>
  /\ Return(c)
  /\ UNCHANGED <<store, disk, writer>>

AddLock(c) ==
  /\ pc[c] = "preparing"
  /\ writer = NULL
  /\ task[c].todo = <<>>
  /\ IF task[c].preps = <<>>
     THEN Return(c) /\ UNCHANGED <<store, writer>>
     ELSE /\ store' = ensureSearchLocked(store)
          /\ writer' = c
          /\ Goto(c, "applying")
          /\ UNCHANGED task
  /\ UNCHANGED disk

AddApply(c) ==
  /\ pc[c] = "applying"
  /\ task[c].preps # <<>>
  /\ LET p == Head(task[c].preps)
     IN  /\ store' = applyPreparedLocked(store, p)
         /\ task' = [task EXCEPT ![c].preps = Tail(@), ![c].changed = @ \/ ~Rejected(store, p)]
  /\ UNCHANGED <<disk, writer, pc>>

\* Wrong variant of AddUnlock: the lock is not released.
AddNeverUnlocks(c) ==
  /\ pc[c] = "applying" /\ task[c].preps = <<>>
  /\ store' = reindexLocked(store)
  /\ Return(c)
  /\ UNCHANGED <<disk, writer>>

AddUnlock(c) ==
  /\ pc[c] = "applying"
  /\ task[c].preps = <<>>
  /\ store' = reindexLocked(IF task[c].changed THEN shareVectorsLocked(store) ELSE store)
  /\ writer' = NULL
  /\ Return(c)
  /\ UNCHANGED disk

-----------------------------------------------------------------------------
(* DeleteDocument and Build: one critical section each.                     *)

DeleteDocument(c, d) ==
  /\ Idle(c, "delete")
  /\ LET gone == [removeDocLocked(store, d) EXCEPT !.latest[d] = NULL]
     IN  store' = IF Len(gone.corpus) # Len(store.corpus) THEN reindexLocked(gone) ELSE gone
  /\ UNCHANGED <<disk, writer, pc, task>>

\* Build replaces the arrays and the registry; it leaves deferIndex,
\* needsRebuild and what was read from disk as they are.
Blank(m) ==
  [initIndexes(m) EXCEPT
     !.corpus = <<>>, !.edges = <<>>, !.docSet = {},
     !.hashes = EmptyStore.hashes, !.idHash = EmptyStore.idHash, !.latest = EmptyStore.latest]

Build(c, docs) ==
  LET els == AllElements(docs)
  IN  /\ Idle(c, "build")
      /\ els # <<>>
      /\ store' = reindexLocked(shareVectorsLocked(recordAll(appendChunksLocked(Blank(store), els), docs)))
      /\ UNCHANGED <<disk, writer, pc, task>>

-----------------------------------------------------------------------------
(* Ingest: workers prepare documents off the lock, the results are applied  *)
(* one at a time in any order, and the indexes are refreshed at the end.    *)

IngestStart(c, docs) ==
  /\ Idle(c, "ingest")
  /\ Goto(c, "ingesting")
  /\ task' = [task EXCEPT ![c].todo = docs]
  /\ UNCHANGED <<store, disk, writer>>

\* A worker takes the next document; on an embedding failure or a skip no
\* result is left to apply.
IngestPrepare(c) ==
  /\ pc[c] = "ingesting"
  /\ writer = NULL
  /\ task[c].todo # <<>>
  /\ LET d == Head(task[c].todo)
     IN  \/ /\ ~SkippedByIngest(d)
            /\ task' = [task EXCEPT ![c].todo = Tail(@), ![c].preps = Append(@, Prepared(d))]
         \/ task' = [task EXCEPT ![c].todo = Tail(@)]
  /\ UNCHANGED <<store, disk, writer, pc>>

IngestApply(c) ==
  /\ pc[c] = "ingesting"
  /\ writer = NULL
  /\ \E i \in DOMAIN task[c].preps :
       /\ store' = applyPreparedLocked(store, task[c].preps[i])
       /\ task' = [task EXCEPT ![c].preps = RemoveAt(@, i)]
  /\ UNCHANGED <<disk, writer, pc>>

\* The final Reindex.  A cancelled run gets here with documents left to read.
IngestEnd(c) ==
  /\ pc[c] = "ingesting"
  /\ writer = NULL
  /\ task[c].preps = <<>>
  /\ store' = reindexLocked(ensureGraphLocked(store))
  /\ Return(c)
  /\ UNCHANGED <<disk, writer>>

-----------------------------------------------------------------------------
(* Merge: decide what is new, append it, record it, reindex; the lock is    *)
(* released between the four.                                               *)

\* Wrong variant of Known: a document is matched by its id only.
KnownById(d) == store.idHash[d.id] # NULL

Known(d) == store.idHash[d.id] # NULL \/ store.hashes[d.content] # NULL

MergeDecide(c, src) ==
  /\ Idle(c, "merge")
  /\ Goto(c, "merging")
  /\ task' = [task EXCEPT ![c].todo = Compacted(src, {i \in DOMAIN src : ~Known(src[i])})]
  /\ UNCHANGED <<store, disk, writer>>

\* AddEmbedded with the source's own vectors.
MergeAppend(c) ==
  LET els == AllElements(task[c].todo)
  IN  /\ pc[c] = "merging"
      /\ writer = NULL
      /\ store' = IF els = <<>> THEN store
                  ELSE shareVectorsLocked(appendChunksLocked(
                         IF store.index = NULL THEN initIndexes(store) ELSE store, els))
      /\ Goto(c, "recording")
      /\ UNCHANGED <<disk, writer, task>>

MergeRecord(c) ==
  /\ pc[c] = "recording"
  /\ writer = NULL
  /\ store' = recordAll(store, task[c].todo)
  /\ Goto(c, "reindexing")
  /\ UNCHANGED <<disk, writer, task>>

MergeReindex(c) ==
  /\ pc[c] = "reindexing"
  /\ writer = NULL
  /\ store' = reindexLocked(ensureGraphLocked(store))
  /\ Return(c)
  /\ UNCHANGED <<disk, writer>>

-----------------------------------------------------------------------------
(* Retrieve: build what the query needs, embed the query off the lock, then *)
(* search under the read lock.                                              *)

RetrieveEnsure(c) ==
  \/ /\ Idle(c, "retrieve")
     /\ store' = ensureSearchLocked(store)
     /\ Goto(c, "searching")
     /\ UNCHANGED <<disk, writer, task>>
  \/ /\ Idle(c, "graph")
     /\ store' = ensureGraphLocked(store)
     /\ Goto(c, "boosting")
     /\ UNCHANGED <<disk, writer, task>>

RetrieveSearch(c) ==
  /\ pc[c] \in {"searching", "boosting"}
  /\ writer = NULL
  /\ Return(c)
  /\ UNCHANGED <<store, disk, writer>>

-----------------------------------------------------------------------------
(* SaveLean under the read lock, and Load by the next process.  A restart   *)
(* may come at any point of any call.                                       *)

\* Wrong variant of hnswSnapshot: the links read from disk are written back
\* although documents were removed since.
hnswSnapshotStale ==
  IF store.deferIndex THEN store.savedLinks
  ELSE [i \in DOMAIN store.index |-> store.index[i].link]

\* The links of a current index, or those read from disk if no index was built
\* since.
hnswSnapshot ==
  IF /\ ~store.deferIndex
     /\ ~store.needsRebuild
     /\ Len(store.index) = Len(store.corpus)
  THEN [i \in DOMAIN store.index |-> store.index[i].link]
  ELSE IF /\ store.deferIndex
          /\ ~store.needsRebuild
          /\ store.savedLinks # NULL
          /\ Len(store.savedLinks) = Len(store.corpus)
       THEN store.savedLinks
       ELSE NULL

\* A save is a call as well; an ingestion makes it itself, at a checkpoint.
Save(mode) ==
  /\ "save" \in use.calls
  /\ \/ Cardinality({b \in Clients : pc[b] # "idle"}) < use.atOnce
     \/ \E c \in Clients : pc[c] = "ingesting"
  /\ writer = NULL
  /\ store.index # NULL
  /\ disk' = [corpus |-> store.corpus, idHash |-> store.idHash, latest |-> store.latest,
              links |-> hnswSnapshot, mode |-> mode]
  /\ UNCHANGED <<store, writer, pc, task>>

\* loadVectors: read, decoded, or recomputed from the text.
LoadedCorpus(s) ==
  [i \in DOMAIN s.corpus |->
     [s.corpus[i] EXCEPT !.vec = IF s.mode = "none" THEN s.corpus[i].text ELSE @]]

\* recordHashLocked runs over a Go map: any id may be the last to claim a
\* content that several ids carry.
Owners(s) ==
  {f \in [Contents -> Docs \cup {NULL}] :
     \A c \in Contents : LET ids == {d \in Docs : s.idHash[d] = c}
                        IN  IF ids = {} THEN f[c] = NULL ELSE f[c] \in ids}

Loaded(s, owners) ==
  IF s.corpus = <<>> THEN EmptyStore
  ELSE [EmptyStore EXCEPT
          !.corpus = LoadedCorpus(s), !.docSet = {e.doc : e \in ToSet(s.corpus)},
          !.hashes = owners, !.idHash = s.idHash, !.latest = s.latest,
          !.index = <<>>, !.deferIndex = TRUE, !.deferGraph = TRUE,
          !.savedLinks = s.links,
          !.flat = IF s.mode = "exact" THEN [i \in DOMAIN s.corpus |-> s.corpus[i].vec] ELSE NULL]

Restart ==
  /\ "save" \in use.calls
  /\ IF disk = NULL THEN store' = EmptyStore
     ELSE \E owners \in Owners(disk) : store' = Loaded(disk, owners)
  /\ writer' = NULL
  /\ pc' = [c \in Clients |-> "idle"]
  /\ task' = [c \in Clients |-> NoTask]
  /\ UNCHANGED disk

-----------------------------------------------------------------------------

Init ==
  /\ use \in Uses
  /\ store = EmptyStore
  /\ disk = NULL
  /\ writer = NULL
  /\ pc = [c \in Clients |-> "idle"]
  /\ task = [c \in Clients |-> NoTask]

\* The documents of another store: one per id and per content.  Build is given
\* such lists too; it does not look for repetitions (store.go:268).
Sources ==
  {b \in Batches : \A i, j \in DOMAIN b : i # j => b[i].id # b[j].id /\ b[i].content # b[j].content}

Call(c) ==
  \/ \E batch \in Batches : AddStart(c, batch)
  \/ AddPrepare(c)
  \/ AddFails(c)
  \/ AddLock(c)
  \/ AddApply(c)
  \/ AddUnlock(c)
  \/ \E d \in Docs : DeleteDocument(c, d)
  \/ \E docs \in Sources : Build(c, docs)
  \/ \E docs \in Batches : IngestStart(c, docs)
  \/ IngestPrepare(c)
  \/ IngestApply(c)
  \/ IngestEnd(c)
  \/ \E src \in Sources : MergeDecide(c, src)
  \/ MergeAppend(c)
  \/ MergeRecord(c)
  \/ MergeReindex(c)
  \/ RetrieveEnsure(c)
  \/ RetrieveSearch(c)

Next ==
  /\ \/ \E c \in Clients : Call(c)
     \/ \E mode \in use.modes : Save(mode)
     \/ Restart
  /\ UNCHANGED use

Spec == Init /\ [][Next]_vars

-----------------------------------------------------------------------------
(* Properties.                                                              *)

StoreObject ==
  [corpus : Seq(Element), docSet : SUBSET Docs,
   hashes : [Contents -> Docs \cup {NULL}], idHash : [Docs -> Contents \cup {NULL}],
   latest : [Docs -> Contents \cup {NULL}],
   index : Seq(Entry) \cup {NULL}, needsRebuild : BOOLEAN,
   deferIndex : BOOLEAN, deferGraph : BOOLEAN,
   savedLinks : Seq(Texts) \cup {NULL}, flat : Seq(Texts) \cup {NULL},
   edges : Seq(Chunk), graph : Graph \cup {NULL}]

Task ==
  [todo : Seq([id : Docs, content : Contents]),
   preps : Seq([id : Docs, content : Contents, vecs : Seq(Texts)]), changed : BOOLEAN]

\* Every field of the store has the type of its Go field, the write lock is
\* held by no one or a client inside AddDocuments, and a client's task fits
\* the call it is in.
TypeOK ==
  /\ use \in Uses
  /\ store \in StoreObject
  /\ disk \in Snapshot \cup {NULL}
  /\ writer \in Clients \cup {NULL}
  /\ pc \in [Clients -> {"idle", "preparing", "applying", "ingesting", "merging", "recording",
                         "reindexing", "searching", "boosting"}]
  /\ task \in [Clients -> Task]
  /\ \A c \in Clients : \A i \in DOMAIN task[c].preps :
       Len(task[c].preps[i].vecs) = Len(Pieces[task[c].preps[i].content])
  /\ \A c \in Clients : pc[c] = "applying" <=> writer = c
  /\ \A c \in Clients : pc[c] = "idle" => task[c] = NoTask

\* A query that has built what it needs and now searches under the read lock
\* finds an index whose ordinals are the ordinals of the chunk array, whatever
\* ran between its two critical sections (store.go:713, the reindexLocked
\* comment); and one boosted by the graph reads a graph with one node per chunk,
\* all of whose similarity edges were found for the chunks now at those ordinals.
SearchSeesCorpus ==
  \A c \in Clients :
    pc[c] \in {"searching", "boosting"} /\ writer = NULL /\ store.corpus # <<>>
      => /\ store.index # NULL /\ ChunksOf(store.index) = ChunksOf(store.corpus)
         /\ pc[c] = "boosting" =>
              /\ store.graph # NULL
              /\ store.graph.nodes = ChunksOf(store.corpus)
              /\ store.graph.edges = ChunksOf(store.corpus)

\* A snapshot that carries links carries the links of its own vectors.
SnapshotLinksMatch ==
  disk # NULL /\ disk.links # NULL
    => disk.links = [i \in DOMAIN disk.corpus |-> disk.corpus[i].vec]

\* The links such a query walks were computed for the vectors it compares
\* (persist.go hnswSnapshot: a wrong graph would silently return the wrong
\* neighbours forever), and so were those that the next process will read.
LinksDescribeVectors ==
  /\ SnapshotLinksMatch
  /\ \A c \in Clients :
       pc[c] \in {"searching", "boosting"} /\ writer = NULL /\ store.corpus # <<>>
         => \A i \in DOMAIN store.index : store.index[i].link = store.index[i].vec

\* Embeds[i] is the embedding of Chunks[i] (docs/format.md:141), in memory
\* between two critical sections and in every snapshot.
EmbedsMatchChunks ==
  /\ writer = NULL => \A e \in ToSet(store.corpus) : e.vec = e.text
  /\ disk # NULL => \A e \in ToSet(disk.corpus) : e.vec = e.text

\* So they are in a program whose updates never keep the number of chunks, which is
\* where the lengths the code compares tell old vectors from new.
EmbedsMatchIfLengthsDiffer == LengthsDiffer(use) => EmbedsMatchChunks

\* The three copies of a vector agree: the links were computed for the vectors that are
\* compared, and, but for updates that keep the number of chunks, these are the
\* embeddings of the chunks at their ordinals (store.go:612, :623, persist.go:55).
VectorsFit == LinksDescribeVectors /\ EmbedsMatchIfLengthsDiffer

\* The two registries are inverse: a content has one owner, and dropping a
\* document drops exactly the hash it owns, however calls interleave.
HashesAgree ==
  \A c \in Contents, d \in Docs : store.hashes[c] = d <=> store.idHash[d] = c

\* The newest version of a document is the content that is indexed, so a
\* restore of an older version is never mistaken for a no-op.
LatestIsCurrent == \A d \in Docs : store.latest[d] = store.idHash[d]

\* Between critical sections the array holds, for each registered document,
\* exactly the chunks of its current content in order, and nothing else; the
\* registries and the newest version agree with it.  Only Merge lets go of the lock
\* with chunks appended and not yet recorded.
CorpusIsRegistry ==
  /\ TypeOK
  /\ HashesAgree
  /\ LatestIsCurrent
  /\ writer = NULL /\ (\A c \in Clients : pc[c] # "recording") =>
       \A d \in Docs :
         LET own == Compacted(store.corpus, {i \in DOMAIN store.corpus : store.corpus[i].doc = d})
         IN  IF store.idHash[d] = NULL THEN own = <<>> /\ d \notin store.docSet
             ELSE [i \in DOMAIN own |-> own[i].text] = Pieces[store.idHash[d]]
                  /\ \A i \in DOMAIN own : own[i].pos = i

\* Seen through the registry, every call of the store is one step of Corpus: no
\* content is held under two ids, a call changes the one document it is about,
\* and a restart brings back the last save.
Registry == INSTANCE Corpus WITH
  docs <- store.idHash,
  saved <- IF disk = NULL THEN EmptyStore.idHash ELSE disk.idHash

ImplementsCorpus == Registry!Spec

=============================================================================
