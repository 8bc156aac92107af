# A verification of turbograph in TLA+

turbograph is a retrieval store in one Go binary: documents are chunked, embedded,
indexed (HNSW over quantised vectors, BM25), joined into a similarity graph and,
with the help of a language model, into an entity graph; a store is one file, changed
by commands, and a server keeps several of them ("buckets"). The arithmetic of
retrieval is tested by unit tests on examples. What tests hardly reach is the state around
it: four parallel arrays and three registries with two tiers of indexes that are
rebuilt lazily, locks that are let go around every call of a model, a journal beside
a store file, processes that share that file, handlers that look a store up twice, and settings that change under the requests that use
them. This project models that state, checks it with TLC and proves parts of it with TLAPS.

Contents: 1 the system, 2 the modules and the code, 3 the properties and the runs,
4 bounds, 5 fairness, 6 the proofs, 7 what the runs found, 8 what is not covered,
9 the plan.

## 1. The system

| Component | State | Operations | Talks to | What is hard |
|---|---|---|---|---|
| `rag` Store (`store.go`, `update.go`, `versions.go`) | chunks, embeddings and codes (parallel arrays); `hashes`, `idHash`, `docSet`, `versions`; `hnsw`, `bm25`; `graph`, `nEdges`; `needsRebuild`, `deferIndex`, `savedHNSW`, `savedFlat`; one RWMutex | Build, AddDocuments, AddEmbedded, DeleteDocument, Retrieve | embedder, off the lock | the arrays and the indexes are changed in different critical sections; rebuilds are lazy, in two tiers, and may adopt what was saved |
| `rag` snapshots (`persist.go`) | one gob blob in three vector modes | Save, SaveLean, Load | Store, entity graph | what is derived, what is restored and when it is stale |
| `rag` merge (`merge.go`) | none | Merge | two Stores | three critical sections |
| `rag` ingest and journal (`ingest.go`, `journal.go`) | `pending`, `Progress`; the journal's `done` set, its file | Ingest, MarkDone, MarkFailed, OpenJournal | Store, embedder, files | worker pool and channels, checkpoints, crash at any point, write errors, torn lines |
| store lock (`lock.go`, `lock_unix.go`) | flock on a sidecar file | LockStore, Unlock | commands | processes; two descriptors of one process compete |
| entity graph (`entitygraph.go`, `entity/entity.go`) | entities, relations; extraction cache per model; entity and fact embeddings | BuildEntityGraph, DropChunks, embedEntities, ensureFactIndex, adoption by Merge | language model and embedder, off the lock | documents change during a build of minutes; three pieces of state must describe one graph |
| community summaries (`community.go`, `graph/community.go`, `server/community.go`) | a label per chunk, a summary per label | detection, BuildCommunitySummaries, global questions | language model, off the lock | labels of a partition that may be gone; label propagation among ties |
| contextual retrieval (`contextual.go`) | one function field | SetContextualizer | language model | written per request, read without the lock |
| chunking (`chunk.go`, `chunkers.go`, `document.go`) | none | four chunkers, spans of chunks | - | boundaries, overlap, headings, tables, repeated text |
| ranking (`Retrieve`, `rerank.go`, `mmr.go`, `lexical/`, PageRank in `graph/`) | none | fusion, blend, diversification, reranking | indexes, graphs | ties, shortcuts, orders of maps |
| redaction, metadata | none | functions of a document | - | - |
| `index` (HNSW, flat) | node levels and links | Insert, Search, Snapshot | `quant` | links pruned both ways, concurrent readers |
| `quant` | rotation, codebook | Encode, Decode, Score | - | numerical error, bit packing |
| buckets (`rag/manager.go`, `storage/`) | map of stores, one blob per bucket | Get, GetOrCreate, Delete, Save, load at start | blob store | the table's lock does not cover the save |
| `server` | entity jobs, configuration (and its file), backend, default models, the Manager | ~40 HTTP handlers: documents, buckets, builds, settings, questions | Manager, Stores, models | requests overlap; jobs outlive requests; replies claim that something was saved; settings change without a lock |
| `cmd/turbograph` | none (files) | add, forget, merge, entities, search, ask, ingest, serve, mcp | store files, lock | read-modify-write cycles of processes |
| `mcp`, `ollama`, `oai`, `extract`, `script`, `redact` | connections, child processes | protocol and clients | outside services | I/O |
| `eval`, `bench`, `clients/`, `server/static` | - | measurements, API wrappers, web page | - | - |

What makes each of them correct, in a line:

- **Store**: between any two critical sections the arrays, the registries and
  whatever index a query will use describe one corpus; a content is indexed once.
- **Snapshots**: what is loaded is what was saved, and what is restored rather than
  rebuilt fits what it is used with.
- **Ingest**: the journal never claims more than the store file holds, nothing is
  embedded twice, a run ends and has counted every document.
- **Commands**: each command is atomic, though it is a process.
- **Entity graph**: whatever is cited, embedded or cached describes documents that are
  there, the facts are the graph's relations, and no answer that was paid for is thrown away.
- **Buckets**: a bucket that is at rest is on disk, unless a client was told otherwise;
  a deleted one is gone; a store in use is not swapped for another.
- **Index**: links stay on their layer and within the degree, every walk stays where the
  lists it reads exist and ends, and a search loses nothing nearer than what it returns.
- **Communities**: a partition fits the graph it was found in, and a summary is shown with
  the passages it was written from.
- **Settings**: the backend and the defaults are what the settings say, a new bucket has what
  they give; no key is lost; a document is indexed as the request that sent it asked.
- **Answers**: what a numbered source holds is what the model reads under that number, and
  a question that is split finds what it would find hop by hop.
- **Chunking and ranking**: every word is in a chunk that stands where it says, and the best
  passages come first, by the scores that are shown.

## 2. The modules and the code

`PROJECT.json` maps every definition to the lines it models. By module:

- **Store** models one process's store. Each Go field the properties need is a field of
  the record `store`; a `...Locked` helper is an operator from record to record, and a
  handler composes them in the code's order (`removeDocLocked`, `applyPreparedLocked`,
  `shareVectorsLocked`, `reindexLocked`, `rebuildIndexesLocked`, `restoreHNSWLocked`, ...).
  One critical section of the code is one action; AddDocuments, which loops under the
  lock, is several with `writer` held, and Merge has its three. `Save` and `Reopen` are
  the snapshot and a new process. Hashes are the contents they hash, an embedding is the
  text it is of, the index pair is one sequence of entries that remember what they were
  built from: the vector, the vector the links were computed for, the chunk. What a promise
  assumes of the programs is a named operator (`MergesAlone`, `Chunked`, `AnswersAlone`,
  `UpdatesAlone`, `SavesApart`), a theorem's hypothesis about `Uses` and MCStore's `ASSUME`
  about the programs it checks.
- **Corpus** is the abstract specification: documents with one content each, changed
  one call at a time, restarted from the last save. `ImplementsCorpus` is the refinement.
- **Ingest** models `turbograph ingest`: the walking goroutine, the workers with
  the bounded channel, the collecting goroutine with its checkpoints (save, then
  journal), SIGINT, kill, write errors, torn journal lines, power loss, and one
  `turbograph add` on the same file. A document is its id, and the store a set.
- **SharedStore** is the abstract specification of what commands do to store files, one
  step each. **StoreFile** models the commands as processes that lock, load, change, save
  and unlock; `NothingIsLost` is the refinement.
- **EntityGraph** models the extraction of entities, its cache, the installation of the
  graph, embeddings of entities and facts computed off the lock, updates and deletions,
  cancellation, checkpoints, Save and Load. A document is one chunk. A relation is the pair of
  its entities and, as in the code, has no chunks: `DropChunks` lets it go with an entity only.
- **Buckets** models Manager, the handlers that change a bucket, `persist`, entity
  builds as detached actors, failing blob operations and restarts. A store object is an
  address in `heap`, because what goes wrong here is two objects under one name.
- **Hnsw** models the vector index: Add and Search as walks down the layers, one iteration
  of their loops per action, so that each access to a neighbour list is a step. A distance
  is a number, a heap is a set whose nearest or farthest member is taken, and of equal
  distances any comes first. Calls hold the index's lock throughout, so one at a time is
  every schedule. Store has the index as a sequence of entries and decides when one is
  stale; Hnsw says what a search of a current one gives.
- **Communities** models the similarity graph (weights, built incrementally), the detection of
  communities by label propagation, one visit of a node per step under the write lock, the
  building of summaries off the lock, and the requests that build them and that answer from
  them. Similarities are integers; the order of visits, which the code draws from a seed, is a
  function of the number of nodes and the sweep, and any function may be a constant's value.
  The store reaches the disk only after a build, as in `handleBuildCommunities`.
- **Settings** models the server's configuration: `handlePostConfig` write by write, the file it
  truncates and writes, the start that reads it and loads the buckets, and the three handlers
  that index a document under the settings in force (contextualizer, scripts, chunking,
  embedder), with their model calls and embeddings off the lock. `New` has `withDefaults`, by
  which a chunking without a size becomes the default one. Vectors have a length; the index fills
  up a shorter one (`Fitted`) and panics at a longer one (`Overlong`), which ends the request
  before its save. **Answering** adds the three
  handlers that answer a question: rewriting, splitting into hops that run at once, merging,
  reranking, widening of passages, the prompt and its verification. A chunk is found as its document, its
  position there and its text at the time, so that a later version can be told. A vector is what it was
  computed from, so that a wrong one can be told; a score is a constant (`Score`), because how it
  comes about is Ranking's subject; a reranker gives any order.
- **Passages** has the chunkers and `locateSpan` as operators on sequences of words, and what a
  cut promises. **Ranking** has the lexical index with its heap, rank fusion, PageRank, the
  entity signals, their blend, MMR and reranking, each with a definition to compare it
  with. Arithmetic is exact: a score is an integer over a denominator that all scores of a
  question share (`One`); PageRank's damping is 1/2 and it takes a fixed number of steps; BM25
  saturates at two occurrences and ignores length; the pseudo-relevance feedback is left out.
  **Retrieval** makes every call an input, so that TLC goes through all of them.
- **Ordering** lists a finite set of numbers in increasing order, by rank, and of other elements in an
  order that is given: what a loop over the indices of a slice and the code's sorts give. Unlike a recursive definition it can be reasoned about, and
  Ordering_proofs does.
- **MC...** instantiate a module for TLC; **..._proofs** hold the theorems.

How they fit together: Store says how a document enters a store; Ingest, StoreFile and
Buckets use the result (a set, a content or a record per store) and add files, processes
and handlers. EntityGraph and Communities take Store's calls as single steps and add the
parts of the same Go struct that Store leaves out. Answering extends Settings: one server, with
the requests that edit, index and ask. Passages says what Settings' `Pieces` stand for, Ranking
what `Score` stands for, and Hnsw what `Nearest` finds. No state is modelled in two modules at
one detail.

A definition marked `Wrong variant of X` is X with a bug one could write; it is used by
`PROJECT.json` "mutants", which show that each property can fail.

## 3. The properties and the runs

Each property is stated with its reason in its module; here is what each run asks of the
system. "V" marks a run in which TLC finds the stated property violated by what the code
does (section 7).

Store, EntityGraph, Buckets, Communities, Settings and Answering are libraries of calls: which calls a program makes, how many
at once and with what data is not theirs to say. It is the variable `use`, a record chosen
from the constant `Uses` in the initial state and never changed; one run covers several
programs, and a promise that the code keeps for some of them only says for which.

| Run | Asks |
|---|---|
| MCHnsw | every insertion of four vectors, two layers, and three searches at every point: `WalkInLayer` and `Degrees` of the graph, `BestSoFar` and `SearchIsComplete` of a walk, with a filter and without, and `CallEnds` |
| MCStore | eight programs (`MCStore!Programs`). *Serving*: two clients add, delete, rebuild and query; a query between whose critical sections anything may have run finds an index and a graph that fit (`SearchSeesCorpus`). *Reopening*, *Growing*: stores are saved and loaded in every vector mode; links that are adopted are those of the vectors they are used with, and embeddings stay with their chunks if updates change the number of chunks (`VectorsFit`). *Building*: rebuilds and merges of several documents. *Ingesting*, *Resuming*: bulk ingestion beside adds and deletes, and in a new process. *Merging*: merges that are saved and loaded again. In all of them the registries are inverse and complete (`CorpusIsRegistry`), the newest version being what is indexed, and every call, a merge in three critical sections included, is one step of `Corpus` (`ImplementsCorpus`) |
| MCStoreUpdate (V) | `EmbedsMatchChunks` for one client that updates documents |
| MCIngestRun | two workers, four files, two of them twins, a checkpoint every two documents, interrupts, kills, write errors, resumption: the journal, the store file, the counters, the exit status, and that work is kept, in a crash but for a checkpoint's (`WorkIsKept`) |
| MCIngestShared | with another process that adds and forgets, a store file that may refuse to open, and power loss: runs end |
| MCStoreFile | three processes, seven command lines, two files, kills: each command is atomic (`NothingIsLost`), editors exclude each other, none waits for ever. One of the commands is an ingest, of a store that no other command writes |
| MCEntityGraph | *Command*: one call at a time, with checkpoints, killed and run again; *Switching*: two models with fallback, and cancellation; *Ingesting*: bulk ingestion replaces documents between builds; *Server*: documents come and go during builds. Entity vectors and cache fit the graph and the documents (`VectorsDescribeEntities`, `CacheIsLive`), and no answer is lost (`AnswersKept`). Where calls come one at a time (`GraphFitsStore`), citations are evidence in documents that are there, the fact index is exactly the graph's relations at the nodes of their entities, and a build installs only relations that some text states |
| MCBuckets | *OneUser*, *OneUserFailing*: one request at a time, with a blob store that works or refuses saves: at rest every bucket is on disk or a reply said otherwise, a dropped one is gone (`RestartFindsBuckets`). *OneUserUnread*: starts that pass over a bucket they cannot read. *TwoUsers*: two handlers race and anything fails: a store in use is not replaced, a blob goes only with its bucket. *Builders*: who joins a detached build and is told it is done has the graph in the bucket (`BuildReachesBucket`) |
| MCCommunities | *Alone*, with two orders of visits; *Serving*, two requests at once; *Ingesting*; *Restarted*. The partition has a label per chunk and joins no chunks that no path connects (`PartitionFits`); each visit that changes a label makes progress in a measure, so propagation never oscillates, and it ends in a fixed point unless MaxIter cut it off (`SweepsProgress`); an answer cites summaries with the passages they were written from, where calls come one at a time (`AnswerFitsAlone`); every call ends, none waiting for a lock held during a model call (`CallsEnd`) |
| MCAnswering | fifteen programs (`MCAnswering!Programs`). Settings edited one after the other, read back at a start, or edited at once; buckets made on first use under them, with and without a size of chunks; documents sent as text, as files and restored, with contexts and scripts, also under settings that change; questions of every kind, without a model, while a document changes, and, like an update, after a start with another embedder. `ConfigTakesEffect`, `KeysAreKept`: settings; `NewBucketsFollow`: what a new bucket has of them; `IndexedAsAsked`: what is indexed; `HopsAgree`: the sources of a split question; `PromptHoldsSources`: what the model reads |
| MCAnsweringEmbedder (V) | `RequestsDoNotEndIt` in the same programs |
| MCRetrieval | each call once: texts of up to six words (four lines of Markdown) cut by every strategy (`ChunksHoldTheText`); five scores through the heap in every order, PageRank on three nodes, the choice of facts, questions of three or four chunks with every combination of signals, reranking of up to four passages (`RankingIsSound`) |

Where a property holds in one run and is violated in another, the runs differ in the calls
that may happen (the programs it names), and the passing run is the part of the promise the code does keep: queries
beside adds, deletes and rebuilds, but not beside an ingestion; one request at a time, but
not two. That the passing runs are not vacuous is what the mutants are for: each property of
each passing run is violated by some plausible bug in a definition that models code.

## 4. Bounds

- **Documents and contents.** Two documents and two or three contents: an update needs an old
  and a new content, a duplicate a second owner, and a compaction a document before or after
  the removed one. Contents have one or two chunks (`Pieces`), and two of them share a chunk,
  so an update can keep, grow and shrink the arrays, and reuse an embedding. Ordinals then
  range over 1..4, which has an inner position, both ends and the empty array.
- **Clients, workers, processes.** Two clients, two workers, three processes: every check or
  read that is used after a lock is let go of involves two actors; three processes give a
  waiting reader, a waiting writer and a holder. `Symmetry` permutes only values that no
  definition tells apart, and no run with a liveness property uses it.
- **Uses** (Store, EntityGraph, Buckets). `batch` bounds the documents of a call by one or two:
  two is where a batch can contain its own twins, or fail after its first document. `atOnce`
  bounds the calls in progress by one or two. The calls of a program are those that share
  state in an interesting way; all of them are in some program.
- **CheckpointEvery.** 2, of four files two of which are twins: a checkpoint of two documents,
  whose journal lines may be torn between them, and a remainder for the final one; and 1
  beside another writer. The results channel has its real capacity, 2 x workers.
- **Objects** (Buckets). A heap cell per bucket and actor and one to spare; a cell that nobody
  can reach is reused, as the collector would.
- **One command per process** (StoreFile). More processes stand for more commands. This is also
  why the StoreFile configurations set CHECK_DEADLOCK FALSE: when all processes are gone the
  system has stopped. All other runs check for deadlock.
- **Initial files** (StoreFile). Absent, or one small store: what commands find is what other
  commands wrote, which the processes do themselves.

- **Vectors, levels, widths** (Hnsw). Four nodes on two layers with a degree of 2 on the
  upper: a list overflows and is selected anew there, by the code that does it on layer 0,
  where that takes six nodes. Three directions for four nodes repeat a vector, and two of
  them are nearer each other than the third. A construction width of 2 stops early and
  evicts; the searches' widths are 1, 2 (with a filter) and 5, which never fills.

- **Communities.** Three documents of one or two chunks, so up to four nodes, with two edges of
  one weight (a tie), a heavier and a lighter one: both tie breaks, a part of one chunk and
  parts that merge over several sweeps occur. MaxIter is the code's 20, which no run
  reaches. `GraphKNN` 2 leaves a neighbour out; `MaxPassages` 2 and `GlobalK` 2 cut off.
- **Settings and questions.** Two providers, two embedders of different dimension, two
  strategies of chunking with and without a size, two documents, and contents that share a text, or have no chunk. A program
  sends two to five requests (`total`), at most two at once, and restarts at most twice. Dimensions are
  positive, as 0 is that of an index without vectors. A chunk of another embedder than the query has one of
  three scores (`Guesses`): nothing, or one of two that order chunks; documents stand in a store in a
  fixed order (`DocOrder`). MCAnswering has 355008 distinct states.
- **Retrieval.** Words are all one or all different; targets of one to three words with overlaps
  that are none, usual, and too large. Ids sort differently from ordinals (`SortedIds`), so the
  two tie breaks can be told apart. The graph and the entity graph have a node without edges, a
  tie, and a relation whose ends were not retrieved.

No counter is cut off: `prog` and the results channel are bounded by the files.

## 5. Fairness

- `Ingest!FairSpec`: weak fairness of the walking goroutine, of each worker and of the
  collecting goroutine. The Go scheduler runs every goroutine that can run, and every call
  (embedder, file system) is taken to return, successfully or not. Interrupts, kills and power
  loss are never forced. The liveness property is that a run that is in its loop ends.
- `StoreFile!FairSpec`: weak fairness of each process's step. The operating system runs every
  process; a lock that stays free is granted to one that waits. No order among waiters is
  assumed (flock promises none), and none is needed, as every process runs one command.
- `Hnsw!FairSpec`: weak fairness of the loops of a call that has begun: one goroutine that
  waits for nothing.
- `Communities!Fairness`: weak fairness of a detection, which runs to its end under the lock it
  holds, and strong fairness of each client's call once begun: it waits for the RWMutex again and
  again while others take it, and Go's RWMutex hands the lock on in turn, so a call that waits
  gets it. A model call is taken to return. Starting calls, cancelling and restarting are not
  forced.
- Store, EntityGraph, Buckets, Settings, Answering and Retrieval have safety properties only and
  no fairness.

## 6. The proofs

TLAPS checks, for every value of the constants:

| Theorem | Assumption | Says |
|---|---|---|
| `Ingest_proofs!TypeCorrect` | none beyond the module's | the state is well typed, and the results channel never over its capacity |
| `JournalImpliesStore` | `OnlyWriter` | the journal's entries are in the store file, at every point |
| `NoTwins` | `OnlyWriter` | no content is installed twice |
| `ProgressKept` | `OnlyWriter` | the store file never loses a document |
| `WorkKept` | `OnlyWriter` | a crash loses at most one checkpoint's documents, and nothing saved is embedded again |
| `AccountsBalance` | none | every document handed to a worker is counted once, or still in the pipeline |
| `ExitDurable` | none | status 0 means saved, and journaled unless that failed |
| `EntityGraph_proofs!TypeCorrect` | none beyond the module's | the state is well typed, and relations have their entities |
| `EmbeddingsMatch` | same | the embedding at a node is that of the entity at the node |
| `AnswersSurvive` | same | no answer of a model is lost by a build that ends, or one with a Checkpoint |
| `GraphFits` | same | where calls come one at a time, citations are evidence and the fact index is that of the graph's relations; a build installs stated relations only |
| `CacheLives` | `SaversAlone` | the cache holds nothing of a text that is gone, if nothing ingests again |
| `Buckets_proofs!TypeCorrect` | none beyond the module's | the state is well typed, and no store is two buckets |
| `FirstStoreStays`, `SavedStaysSaved` | same | a store in use is not swapped; a blob goes only with its bucket |
| `BuildsReach` | same | who joined a build that ends well has its graph in the bucket |
| `RestIsOnDisk` | same | one request at a time: a bucket at rest is on disk, a deleted one is gone |
| `Settings_proofs!SettingsApply` | `Resolved(Flags)` | edited one request at a time, the backend, the default models and what the manager holds for new buckets are those of the settings |
| `BucketsFollow` | none beyond the module's | a bucket made by one request at a time has their embedder, and their chunking if they give a size |
| `KeysStay` | same | of edits one at a time, none loses a key |
| `ChunksAsAsked` | same | a chunk's vector is of its text, and of its context if it has one; until a restart it is of the bucket's embedder; its length is the bucket's, but after a panic over lengths; one request at a time, to a bucket of one dimension, has its content stored when it saves, without contexts if it asked for none |
| `PromptsHoldSources` | same | a prompt holds consecutive text around each source, within the window, unless its document was replaced |
| `SplitQuestionsAgree` | same | requests one at a time: a split question is answered from what its hops find one after the other |
| `Store_proofs!TypeCorrect` | none beyond the module's | the state is well typed, and who holds the write lock is where the code holds it |
| `SearchFinds` | `AnswersAlone(Uses)` | a query, between its critical sections too, finds the index and the graph of the chunks that are there |
| `RegistryHolds` | `MergesAlone(Uses)`, `Chunked(Uses)` | each registered document has exactly its chunks, once and in order; the two registries are inverse |
| `Implements` | same | every step of the store is a call of Corpus, or none |
| `VectorsHold` | same, `UpdatesAlone(Uses)`, `SavesApart(Uses)` | embeddings, index and links are of the chunks they are at, through any calls, saves and restarts |
| `Graphs_proofs!TypeCorrect`, `WellLinked`, `StaysInLayer` | none beyond the module's | the graph is well formed, and every walk stays where lists exist |
| `DegreesHold` | same | pruning keeps lists short and never empty |
| `NearestKept`, `SearchComplete` | same | what a search returns is nearest of what it saw; with room left it saw all there is |
| `Graphs_proofs!PartitionHolds` | none beyond the module's | the communities are those of the chunks that are there, numbered without a gap, and each is connected |
| `SweepsAlwaysProgress` | same | label propagation never comes back to labels it had, and ends in a fixed point or at MaxIter |
| `AnswersFitAlone` | same | one call at a time, without ingestion and restarts: an answer cites the passages its summaries were written from |
| `StoreFile_proofs!TypeCorrect` | `AllLock` | the state is well typed |
| `Exclusion` | `AllLock` | two editors, or an editor and a loading reader, are never on one store |
| `NoLostUpdate` | `AllLock` | StoreFile implements SharedStore: each command is one atomic step |

What is assumed, and why the code justifies it:

- `OnlyWriter`: no other process writes the store file, it can be read if it exists, and the
  machine stays up. MCIngestShared with `DoneIsRecoverable` refutes `JournalImpliesStore`
  without it, by a power loss, by the other writer or by a store that did not open (section 7).
- `AllLock`: no process runs `ingest`, which does not lock (section 7).
- `SaversAlone`: a program whose builds give a Checkpoint makes one call at a time. Only
  cmd/turbograph/agent.go:656 gives one, in a command; while it saves in the middle of a build,
  another call could let go of a text whose answers it is saving.
- `MergesAlone`: a program that merges makes one call at a time. `Store.Merge` has one caller,
  `cmdMerge` (cmd/turbograph/agent.go:484), a command that does nothing else.
- `Chunked`: no document without chunks is built or merged. AddDocuments and an ingestion drop
  one (rag/update.go:194); Build registers it, and a later add of its id,
  which looks for it in the arrays, leaves its old hash behind (section 7).
- `AnswersAlone`: no query runs beside an ingestion or a merge, which change the arrays long
  before the indexes (section 7).
- `UpdatesAlone`: where old vectors are told from new by their number, that is, in a program whose
  updates all change the number of chunks, a call updates one document and none is ingested beside
  it. Otherwise two changes may cancel (section 7, "a batch of 2").
- `SavesApart`: a store that is saved and loaded is not built or ingested into, and not both merged into and
  deleted from. After these its arrays may be as long as what was read of the old index and not be the same,
  and nothing in the code tells (section 7, `Reloaded`). `cmdMerge` loads, merges and saves, and does not
  delete. In mode "none", where embeddings are computed anew, updates change the number of chunks.
- Hnsw's and Communities' theorems are in one module and use the named assumptions of their own: of
  Communities, that similarities are numbers, a content has a chunk or more, and each order of visits is a permutation.
- MCStore's programs satisfy all of the store's (`MCStore!ProgramsAssumption`), so the theorems are
  about programs whose calls TLC has seen. There is one exception to `SavesApart`, which ingests and
  saves (`Resuming`): of it `VectorsFit` is only model-checked.
- Answering's own, `OrderAssumption` and `QuestionsAssumption`: documents are finitely many and no two stand in one
  place of a store, scores are numbers, and what a model makes of a question are questions.
- `Resolved(Flags)`: the flags name a backend that there is. They are not validated, and an unknown name
  becomes Ollama (cmd/turbograph/main.go:209, 212), so that the backend is not the one that
  `GET /api/config` then reports.

*The store.* `CorpusIsRegistry` is said of the arrays as they are when nobody is at work, and a
merge lets go of the lock with its chunks appended and their documents not yet registered.
`Registered` therefore says what the arrays hold of each document with a hash (`Kept`: its
pieces, in order and all of them, or nothing), exempts documents that a merge is about to record
(`Pending`), and says of that merge that what it appended is what it will record (`Merging`); and
the snapshot is as faithful as the store (`SavedFaithful`). It rests on what each helper does to
the chunks of one document: compaction (`SelectSeq`, in terms of Ordering's lists), the appending of a batch in
which a document may come twice, the last one winning, and the deduplication of a merge. For
`SearchFinds` the index is followed instead: where the lock is free, it is absent, or as long as
the arrays and of their chunks (`Fit`, `Settled`). The simulation of Corpus uses the same invariant: that a
registered document is in the arrays is why testing the arrays (rag/update.go:209) is as good as
testing the registry.

*The vectors.* There are up to three copies of an embedding: in the arrays, in the index, and in
what was read from the last snapshot, each with the links made from it. `Linked` says that the index and its links agree
with each other; that an index not marked for a rebuild is that of the arrays; and that what was read
from disk, if it is as long as the arrays, is of them. The code compares lengths only, so the proof
has to show where equal lengths imply equal contents. Until the indexes of a loaded store are built, deletions only
shorten its arrays and merges only lengthen them (`Loading`), and once they differ in length from what was read
they stay so. The arrays of a store are overwritten by its index (`shareVectorsLocked`) only when the index is as
long, and after an update it is not: a call updates at most one document (`OneDocument`), and no
two contents have equally many chunks. `Given` keeps the store's documents within the program's, `Embedded` says where the embeddings
themselves are of the chunks.

*The journal.* `journal \subseteq disk` is not inductive: a step that writes the journal needs
to know that what is pending is on disk, and a step that writes the store file that the
memory it writes contains the file. `SafeInv` adds exactly that: while a process runs, the
file and the pending ids are within memory; while the journal is being written, the
pending ids are within the file; and both memory and file have distinct contents. The
argument is the one journal.go:12-15 makes in words, and includes torn lines, partial
writes and kills in the middle of a write.

*The pipeline.* The counters balance because a file is in one place (`FlowInv`): before the walk, in
the channel of jobs, with one worker, in the channel of results, or counted. The proof counts
finite sets, so it holds for any number of workers. `ExitInv` says at which control states
everything installed is saved; `KeptInv` bounds what is unsaved by the interval, and says that what
a worker holds was not on disk when the run began.

*The entity graph.* `VectorsDescribeEntities` looks doubtful, as the code compares nothing but the
number of entities after it embedded them off the lock. It holds because only one build runs at a
time (`BuildStart`'s guard) and everything else takes entities away, so that equally many are the same ones, and
in the same order, because that order is sorted: `VecInv` with the lemma that two lists of
numbers in increasing order with one range are equal. `GraphFits` rests on `EvidenceInv`, that in a program of one call at a time what
a call has read is still so (`OneAtATime`), also through a save and a restart. That a new graph has stated relations only is
shown of the step that installs it, from what the model was asked about; nothing keeps it so afterwards.

*The buckets.* `Typed` contains that no two buckets and no bucket and unpublished store share an object,
and that objects suffice: there are never more in use than buckets and actors. `BuildInv` follows a detached build from the
bucket it was started for to its end, through other handlers' saves of the same bucket. For
`RestIsOnDisk`, `AloneInv` says who is at work when requests come one at a time and none outlives its reply, and `CurrentInv` what each control state owes to the disk: a handler between its change and its save, a
save that has streamed but not put, a reply that reports a failure. `UnindexedIsEmpty` is why a first
use of a bucket that finds no embedder leaves nothing to save.

*The settings.* `InForce` follows `handlePostConfig` through its steps, saying at each which
of the backend, the models, the buckets and the embedder are already the new ones;
`DecodedOnto` that what it will install was decoded onto the configuration that is still in
force, which is where two edits at once would fail, and `AllResolved` that an accepted configuration
names backends that exist, also when it is read back from a file. `KeysStay` is a lemma about decoding with a list
of any length: a loop that finds the first provider of a name. `BucketsFollow` uses that a request that makes a
bucket finds no edit under way, so that what the manager holds is in force. `ChunksAsAsked` splits in
two: `Measured` for every interleaving, about the vectors of chunks, those that are reused from an earlier version
included; `IndexingAlone` for requests that come one at a time, which follows one request through its stages.
Every action is first shown to be the step of one client that leaves the settings alone (`QuietStep`) or edits
them, so the invariants have to look at few cases.

*The questions.* `Talks` says what a request has in hand from its first step to the prompt: each result is a chunk of
some document at a position it has, with the text it is shown with (`Sought`). The window is then a set of consecutive
positions around one that is there, listed in order, so a `SubSeq`. For `HopsAgree`, `OneAtATime` and `HopsAlone` say that each
hop that is back holds what the store finds now. The rest is about data: that sorting by rank gives each chunk once and in the
order of the relation sorted by, that one is kept of each id (`KeptGathers`), with its best score and where it was first
found, and that a stable sort of that list has the order stated. The loop over the results is a recursive
function on an initial segment of the numbers. Of it the proof shows, by the least number at which it would fail,
what it has after each step: an induction over a set, which needs no scheme with an operator.

*The locks.* Inductive is that an editor holds the exclusive lock of its store from loading
to saving, and a reading process a shared one (`HoldsLocks`), which control states go with
which commands (`Shape`), and that the copy an editor holds in memory is what its command
makes of the file *as it is now* (`Draft`). The last is the heart: it survives the steps of
the others because only the holder of the lock writes the file. The proof of each step
separates what it does to the process itself (`StepOwn`) from what it does to the others
(`OthersInv`). From it `NoLostUpdate` is a step simulation: a save maps to `Commit`, reading
a source to `Look`, a checkpoint of an extraction to its own step, everything else to a stutter.

*The index.* `LinksInLayer` is not inductive. `Structure` adds where a call may be: on nodes
of the layer it works on, and never at the node it is adding (`Placed`), because no link leads
to that node on this layer or below before its neighbours link back (`NotYetLinked`), and
because the entry point is on the top layer (`Entered`). All four need one another. For
searches, `Searched` says that what a walk has seen is reachable, and that until the result is
full everything it has expanded is covered by what it has seen and what it still scans; when
the frontier is empty the seen nodes are a closed set, hence all that is reachable. That the
result, once full, stays full, and that an evicted node is no nearer than the rest, is
`LookResult`. `NoneIsolated` rests on `SearchInvariant`: a walk of an insertion has a result.

*The communities.* The graph is that of the chunks whenever no ordinal has moved since it was built
(`Indexed`), and it is complete but while an ingestion has still to reindex (`CompleteOK`); a detection in
progress (`SweepOK`) has labels each of which is that of a node a path leads to, which a visit keeps because it takes
the label of a neighbour and paths can be walked backwards. That gives `PartitionFits`. Renumbering is by rank, so that it is a
bijection onto 1..C is a fact of Ordering. For `SweepsProgress` a sum of weights is a number of units of weight,
`Cardinality` of a set of pairs, since sums over a set would need induction: the units that have both ends in one community
are those away from the visited node, those that leave it and those that come to it, and the last two correspond
one to one because the graph is symmetric. So a node that changes its label changes the weight inside by twice
the difference of what the two labels pull, and of equal pulls it takes the smaller label. A sweep that
changed nothing has visited every node, as each order is a permutation, and `DetectionOK` says that those it has visited
would stay. `AloneOK` follows passages from the copy to the answer: no detection is in progress while a call is
underway, and what a call copied, wrote and installed is of the partition there is.

*Order.* A list in increasing order is defined by rank (Ordering), and its lemmas, that ranks are a bijection
onto an initial segment and that the list so defined contains each element once and grows,
rest on the least-number principle, which needs no induction scheme. So do "the first provider
of a name" and "the last version".

Each strengthened invariant was first checked by TLC on the instance of its module's run. The
proofs cover every safety property that a passing run checks, but two. Model-checked only are:

- liveness (`CallEnds` of Hnsw, `RunEnds`, `CommandsEnd`, `CallsEnd`) and whatever needs ENABLED, which is
  beyond the prover;
- Retrieval's `ChunksHoldTheText` and `RankingIsSound`, about pure functions. The heap's sifts are RECURSIVE
  operators, which the prover cannot reason about, and Retrieval reaches them; the chunkers, PageRank and MMR are folds,
  whose results over arbitrary sequences would each need an induction of the kind made for the union of hops.

`WellLinked`, `ProgressKept` and the `TypeOK` of StoreFile are proved and not checked in a run of their own:
the first is part of `WalkInLayer`, the second follows from what `DoneIsRecoverable` needs, and the third is
part of the invariant that `EditorsExclude` rests on.

## 7. What the runs found

Each violation run checks one statement of a comment or a document; `PROJECT.json` quotes it.

- MCStoreUpdate: an update that keeps the number of chunks leaves the embeddings of the old
  chunks (rag/store.go:612). The same lengths-only comparisons do it on a reopened store, for
  links and vectors that were saved: after an ingestion (rag/store.go:623) and after a rebuild
  (rag/store.go:291).
- MCAnsweringEmbedder: buckets keep their vectors when the server is started with another
  embedder, nothing compares the two, and a query vector that is longer than those of the index
  is copied past the end of a buffer (index/hnsw.go:107). In a handler that is a 500; in the
  goroutine of a hop (server/decompose.go:80) it ends the process.

More of the kind are found by changing a constant of a run; none has a run of its own:

| Change | Property violated | Why |
|---|---|---|
| MCStore with `Uses <- IngestingAndServing` | `SearchSeesCorpus` | a query beside an ingestion searches an index of other arrays, ordinals past their end included (rag/update.go:246), or a graph of them (rag/ingest.go:100); rag/store.go:129 calls a Store safe for concurrent retrieval |
| MCStoreFile with `Commands <- IngestCommands`, `Initial <- NoFiles` | `NothingIsLost` | `turbograph ingest` does not take the store lock, so an `add` may be lost, or the journal come to claim what the file lost (cmd/turbograph/main.go:489) |
| MCEntityGraph with `Uses <- Servers` | `FactsDescribeGraph` | `entGen` is compared and never incremented (rag/entitygraph.go:804), though rag/store.go:197 says it counts rebuilds |
| MCEntityGraph with `Uses <- Servers` | `CitationsAreEvidence` | a build cites documents that changed under it (rag/entitygraph.go:174) |
| MCBuckets with `Uses <- Changing` | `SavedIsCurrent` | of two saves of a bucket the older snapshot may be put last (rag/manager.go:203) |
| MCBuckets with "ingest", "drop" and two users | `DroppedStaysGone` | a save resurrects a dropped bucket (rag/manager.go:182) |
| MCBuckets with "ingest", "restore" and one user | `SavedIsCurrent` | a restored version is not saved (server/web.go:151) |
| MCBuckets with "ingest", "delete", one user and "put" failing | `SavedIsCurrent` | a failed save of a deletion is not reported (server/web.go:81) |
| MCBuckets with "build" and "drop", without the guard in `BuildReachesBucket` | `BuildReachesBucket` | a build joined by bucket name may be another store's (server/entitybuild.go:69) |
| MCStore: a "build" of a list with one text, or one id, twice (drop the conjunct from `Sources`) | `CorpusIsRegistry` | Build does not deduplicate (rag/store.go:268) |
| MCStore with "add", a batch of 2 and contents of 1, 2, 3 and 4 chunks | `VectorsFit` | two updates in one call whose changes of length cancel: only the lengths of arrays and index are compared (rag/store.go:612), although every update alone would be noticed |
| MCStore with `Uses <- Reloaded` | `VectorsFit` | a store that is loaded, and built anew (server/server.go:324) or ingested into before its first query, keeps the links and vectors it read, as neither `Build` (rag/store.go:268) nor `removeDocLocked` (rag/update.go:102) drops them. If the number of chunks agrees they are adopted (rag/store.go:623) or saved (rag/persist.go:429), although rag/store.go:625 says that they are stale after any mutation |
| MCStore with "add", "build" and a content without chunks | `CorpusIsRegistry` | Build registers a document that has no chunks (rag/store.go:313), and an add of its id does not find it in the arrays and leaves the hash of its old content behind (rag/update.go:209) |
| MCIngestRun with `PowerCut = TRUE` | `DoneIsRecoverable` | the journal is fsynced and the store it vouches for is not (cmd/turbograph/main.go:660); docs/ingestion.md:45 promises that nothing is lost |
| MCIngestRun with `Notes = {n1}` | `DoneIsRecoverable` | an add that loaded the store before a checkpoint saves over it |
| MCIngestRun with `Forgets = {f1}` | `DoneIsRecoverable` | the journal still says that a forgotten document is done, so a file of its name is passed over for good (cmd/turbograph/main.go:617) |
| MCIngestRun with `OpenFails = TRUE` | `DoneIsRecoverable`, `WorkIsKept` | any error in opening the store, not its absence alone, starts an empty one, which the last save renames over the file (cmd/turbograph/main.go:491); openStore tells the two apart (cmd/turbograph/agent.go:94) |
| MCEntityGraph, without the condition in `CacheIsLive` | `CacheIsLive` | a library's Ingest replaces a document and keeps what a model said of its old text: `dropEntityChunksLocked`, whose comment says that it prunes the cache (rag/update.go:252), does not, and only AddDocuments does so itself (rag/store.go:375) |
| MCBuckets with `OneUserUnread`, without the condition in `Alone` | `RestartFindsBuckets` | a bucket that could not be read is passed over, the default one replaced by an empty one, and the first save goes over the blob (rag/manager.go:108) |
| MCBuckets with "ingest", "create" and "drop", one user and "remove" failing, without the condition in `Alone` | `RestartFindsBuckets` | the error of deleting a blob is dropped (rag/manager.go:182), so a bucket that was deleted, and said to be, comes back at the next start |
| MCAnswering with `AddMine` and plain texts "a" and "b" of one document, and a restart, without `restarts = 0` in `IndexedAsAsked` | `IndexedAsAsked` | a document of another dimension than the index is left out and answered as saved (rag/update.go:202) |
| MCAnswering with `Partial`, `AddMine`, a contextual and a plain text of one document, and a restart, without `OneDimension` | `IndexedAsAsked` | only the first vector of a document is measured (rag/update.go:202), so reused and new ones of two dimensions come together: shorter ones are filled up by the index and stay, longer ones panic in the rebuild (index/hnsw.go:107), unless the update keeps the number of chunks, and the request ends in a 500 with the document in the arrays and nothing saved |
| MCStoreFile with `Commands = {Merge(a, <<a>>)}` | `CommandsEnd` | a merge into itself waits for its own lock (cmd/turbograph/agent.go:480) |
| MCCommunities | `AnswerFits` | Ingest, Merge and AddEmbedded never forget the summaries (store.go:369 does, "graph changed; community summaries are now stale"); a build installs its own over a mutation; and a restart detects anew |
| MCEntityGraph with `Uses <- Forgetters` | `RelationsAreStated` | `DropChunks` (entity/entity.go:283) keeps a relation whose one document was deleted while both entities are named in others, although it "exists so that deleting a document keeps the knowledge graph consistent with the corpus" (:259); the next build drops it (`BuildsState`) |
| MCAnswering | `StrategyTakesEffect` | a chunking strategy, "for new buckets" by the flag (cmd/turbograph/main.go:217) and by the settings (server/config.go:45), is replaced with the rest of the chunking by `withDefaults` (rag/store.go:123) unless a size is set too, which no flag of `serve` does |
| MCAnswering | `EmbedderWaitsForStart` | an edit of the embedding backend applies to the next bucket made (server/config.go:298), where the handler's comment says at the next start (:232) and the comments at :36 and :293 what the code does |
| MCAnswering | `VectorsMatchIndexText` | a plain update reuses a vector that was embedded with a context (rag/update.go:64), where :62 says "a body-hash match would be the wrong vector" of the other direction |

Other things the models record, which contradict no more than a comment:

- *Communities.* Label propagation cannot oscillate in exact arithmetic, so MaxIter (graph/community.go:13) guards
  against nothing (`SweepsProgress`). A build all of whose model calls fail installs no
  summaries and reports that it is done.
- *Settings.* Existing buckets get the new embedder at the next start, although rag/manager.go:58
  and server/config.go:36 say that they keep theirs; documents of another dimension are then left
  out and answered as saved (`applyPrepared`). A file cut short by a crash keeps the server from
  starting, and of two edits at once one is lost. `handleIngest` sets the contextualizer before
  it refuses a request for its scripts, `handleIngestFiles` after. A restored version is
  situated by whatever contextualizer the last ingest left.
- *Answering.* A request fixes its model once and reads the backend at each call. A window may
  show a later version of the document (`PromptHoldsSources` is said of the same version only).
- *Passages.* A caption longer than the target is not found again and has no span; a text that
  repeats a passage gives both the first span; a piece of carried-over words and a
  fragment may exceed the target (`Sized` allows for it); a document of headings alone has no chunk.
- *Ranking.* Ties at the k-th place of the lexical index are broken by ordinal, and those in
  what it returns by id; ties among entity seeds at the cap are left to a map's order (`TiedAtCap`);
  reranking lets a passage overtake one that the model rates higher, in the middle of the list.

A failed extraction is also cached as an empty answer (rag/entitygraph.go:241): `cache` records
it as "failed", and a later build does not ask again.

## 8. What is not covered

- *Hazards* whose property is true of part of the programs only have a note in `PROJECT.json`,
  and the violation a row in section 7.
- *Numbers.* Floating point and quantisation: scores are exact, and the error that the code's
  arithmetic adds is not bounded by anything here.
- *Strings.* Tokenising, parsing model output, name canonicalisation and redaction.
- *I/O and protocols.* HTTP, MCP, model clients, S3, file extraction and child processes are
  calls that return, fail or are cancelled.
- *Go's memory model.* Critical sections are atomic, and an unguarded read or write of a field is
  one step; a torn read of a two-word interface value (the backend, the contextualizer) is not
  modelled.
- *A bucket of several vector lengths*, after it was saved: its file has no vectors (rag/persist.go:455),
  and what a start makes of it is left out (`Ragged`). So is a whole bucket replaced while another request updates it
  after a start with another embedder. What the index of such a bucket answers is not said: Settings has the arrays,
  and Store the index, of one dimension.
- *Parts left out of a modelled component*: metadata and filters by it, the views of a document,
  multimodal indexing, statistics and graph views of the server, `serve`'s flags.

## 9. The plan

What would be worth adding, in order:

1. **Files that change**: a model of the source tree over time beside the journal
   (cmd/turbograph/main.go:617), and two merges in opposite directions.
2. **The heap of the lexical index**: its sifts are recursive operators; as recursive functions in a module of their
   own they could be proved about, as the union of hops is.

Ranking has two recursive operators (the sifts of the heap) and stays with TLC, as Retrieval
does, which extends it.
