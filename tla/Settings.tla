------------------------------ MODULE Settings ------------------------------
(***************************************************************************)
(* The settings of a server and what is indexed under them: the requests   *)
(* that edit the configuration (server/config.go), the start that reads it *)
(* back (cmd/turbograph cmdServe, rag/manager.go), and the requests that   *)
(* index a document with the backend, the contextualizer, the scripts and  *)
(* the chunking in force (server handleIngest, handleIngestFiles,          *)
(* handleRestore; rag/contextual.go, rag/update.go).                       *)
(*                                                                         *)
(* No lock guards a server's configuration or its backend: a request that  *)
(* edits them writes one after the other, and any other request may run    *)
(* between two of the writes.  The embedding and the model calls of an     *)
(* ingest run off the lock of its store.                                   *)
(*                                                                         *)
(* Abstractions.  A content is a name, and Pieces gives the texts its      *)
(* chunks have (module Passages).  A vector is what it was computed from,  *)
(* the text, the context before it and the embedder, and the length it is  *)
(* kept with: what an index that is not rebuilt shows in its place is the  *)
(* subject of module Store.  A document that another request drops with    *)
(* the whole bucket while it is being updated is put in as an update is.   *)
(* Headers are validated as base URLs are, and BadUrls stands for what     *)
(* either check refuses.  Editing is enabled and a backend is always       *)
(* configured, as cmdServe does; Buckets are those beside the default one, *)
(* which it makes at a start.                                              *)
(***************************************************************************)
EXTENDS SequencesExt

CONSTANTS
  Flags,     \* the configuration the command line gives
  BadUrls,   \* base URLs that validateBackendURL refuses
  Env,       \* Env[r]: the secret that the reference r to a variable stands for
  EnvKey,    \* the key in $OPENAI_API_KEY, "" if none
  Strategies,
  Sizes,     \* the sizes of a chunk, in words; 0 for one that is not set
  Pieces,    \* Pieces[s][c]: the texts of the chunks of content c under chunking s
  Dim,       \* Dim[m]: the dimension of the vectors of embedding model m
  Docs, Contents, Buckets,
  Requests,  \* the requests a client may send
  Clients,
  Uses,
  Torn, NULL

\* A program: the requests it sends, how many, how many at once, and whether the
\* server stops and starts again.
Use == [requests : SUBSET Requests, total : Nat, atOnce : 1..Cardinality(Clients), restarts : Nat]

ASSUME SettingsUses == Uses \subseteq Use /\ IsFiniteSet(Clients)
ASSUME DefaultStrategy == "" \in Strategies /\ 0 \in Sizes /\ Sizes \subseteq Nat

Provider == [name : STRING, url : STRING, key : STRING]

Configuration ==
  [providers : Seq(Provider), genApi : STRING, genUrl : STRING, genKey : STRING, genModel : STRING,
   embedApi : STRING, embedUrl : STRING, embedKey : STRING, embedModel : DOMAIN Dim, ollamaUrl : STRING,
   chunk : STRING, words : Sizes]

\* A request that edits the configuration sends any of its fields; no flag sets the
\* size of a chunk.
ASSUME ConfigurationAssumption ==
  /\ Flags \in Configuration /\ Flags.words = 0
  /\ \A r \in Requests : r.kind = "config" =>
       [f \in DOMAIN Flags |-> IF f \in DOMAIN r.fields THEN r.fields[f] ELSE Flags[f]] \in Configuration
  /\ EnvKey \in STRING /\ \A v \in DOMAIN Env : Env[v] \in STRING
  /\ Strategies \subseteq STRING

Endpoint == [api : {"ollama", "openai"}, url : STRING, key : STRING]

\* What situates the chunks of a store, and what embeds them: a model of an endpoint.
Contextualizers == [at : Endpoint, model : STRING]
Embedders       == [at : Endpoint, model : DOMAIN Dim]

\* The flags name any strategy, and one that is not known chunks as the default does.
ChunkConfig(c) == [strategy |-> c.chunk, words |-> c.words]
DefaultChunk   == [strategy |-> "recursive", words |-> 120]

Chunkings == [strategy : Strategies \cup {Flags.chunk}, words : Sizes] \cup {DefaultChunk}
Texts     == UNION {ToSet(Pieces[s][c]) : s \in Chunkings, c \in Contents}
Vector    == [text : Texts, context : Contextualizers \cup {NULL}, by : Embedders, dim : Nat \ {0}]
Chunk     == [text : Texts, context : Contextualizers \cup {NULL}, vec : Vector]
Document  == [content : Contents, chunks : Seq(Chunk)]

StoreObject ==
  [embedder : Embedders, chunk : Chunkings, contextualizer : Contextualizers \cup {NULL}, dim : Nat,
   docs : [Docs -> Document \cup {NULL}], versions : [Docs -> Seq(Contents)]]

Server ==
  [cfg : Configuration, gen : Endpoint, genModel : STRING, embedModel : DOMAIN Dim, chunk : Chunkings,
   embedder : Embedders, stores : [Buckets -> StoreObject \cup {NULL}]]

ASSUME DocumentsAssumption ==
  /\ \A s \in Chunkings, c \in Contents : Pieces[s][c] \in Seq(Texts)
  /\ \A m \in DOMAIN Dim : Dim[m] \in Nat \ {0}
  /\ \A r \in Requests : r.kind # "config" => r.bucket \in Buckets
  /\ \A r \in Requests : r.kind \in {"text", "files", "restore"} => r.doc \in Docs
  /\ \A r \in Requests : r.kind \in {"text", "files"} => r.content \in Contents /\ r.contextual \in BOOLEAN

ASSUME NullAssumption ==
  /\ NULL \notin Contents \cup Document \cup Configuration \cup Provider \cup StoreObject \cup Server
  /\ Torn \notin Configuration \cup {NULL}

VARIABLES
  use,
  sent,      \* requests sent so far
  restarts,  \* starts after the first
  srv,       \* the running server, or NULL
  file,      \* config.json: a configuration, Torn while cut short, or NULL
  blob,      \* blob[b]: the saved bucket b, or NULL
  pc, task

serverVars == <<srv, file, blob>>
vars == <<use, sent, restarts, serverVars, pc, task>>

-----------------------------------------------------------------------------
(* Configurations.                                                          *)

\* The first provider of that name, or NULL.
provider(c, name) ==
  LET i == SelectInSeq(c.providers, LAMBDA p : p.name = name)
  IN  IF i = 0 THEN NULL ELSE c.providers[i]

envRef(v) == IF v \in DOMAIN Env THEN Env[v] ELSE v

orEnv(key) == IF key = "" THEN EnvKey ELSE key

Ollama(c) == [api |-> "ollama", url |-> c.ollamaUrl, key |-> ""]

\* A selector that names no provider falls back to Ollama.
endpoint(c, api, url, key) ==
  CASE api \in {"", "ollama"} -> Ollama(c)
    [] api = "openai" -> [api |-> "openai", url |-> url, key |-> key]
    [] OTHER -> IF provider(c, api) = NULL THEN Ollama(c)
                ELSE [api |-> "openai", url |-> provider(c, api).url, key |-> envRef(provider(c, api).key)]

GenEndpoint(c)   == endpoint(c, c.genApi, c.genUrl, c.genKey)
EmbedEndpoint(c) == endpoint(c, c.embedApi, c.embedUrl, c.embedKey)
Embedder(c)      == [at |-> EmbedEndpoint(c), model |-> c.embedModel]

Names(c) == {c.providers[i].name : i \in DOMAIN c.providers}

\* Wrong variant of validateConfig: a selector may name a provider that is not there.
validateNoSelector(c) ==
  /\ \A i, j \in DOMAIN c.providers : c.providers[i].name = c.providers[j].name => i = j
  /\ c.chunk \in Strategies

validateConfig(c) ==
  /\ Names(c) \cap {"", "ollama", "openai"} = {}
  /\ \A i, j \in DOMAIN c.providers : c.providers[i].name = c.providers[j].name => i = j
  /\ \A i \in DOMAIN c.providers : c.providers[i].url \notin BadUrls \cup {""}
  /\ {c.genApi, c.embedApi} \subseteq {"", "ollama", "openai"} \cup Names(c)
  /\ c.genApi = "openai" => c.genUrl # ""
  /\ c.embedApi = "openai" => c.embedUrl # ""
  /\ {c.genUrl, c.embedUrl, c.ollamaUrl} \cap BadUrls = {}
  /\ c.chunk \in Strategies

\* Wrong variant of Decoded: a provider sent with a blank key loses its key.
DecodedBlank(prev, u) ==
  LET sentOr(f) == IF f \in DOMAIN u THEN u[f] ELSE prev[f]
      keyOr(f)  == IF sentOr(f) = "" THEN prev[f] ELSE sentOr(f)
  IN  [f \in DOMAIN prev |-> IF f \in {"genKey", "embedKey"} THEN keyOr(f) ELSE sentOr(f)]

\* The body of a request decoded onto a copy of the configuration: absent fields
\* keep their value, and so do keys that are sent blank.
Decoded(prev, u) ==
  LET sentOr(f)  == IF f \in DOMAIN u THEN u[f] ELSE prev[f]
      keyOr(f)   == IF sentOr(f) = "" THEN prev[f] ELSE sentOr(f)
      withKey(p) == IF p.key = "" /\ provider(prev, p.name) # NULL
                    THEN [p EXCEPT !.key = provider(prev, p.name).key] ELSE p
  IN  [f \in DOMAIN prev |->
         CASE f \in {"genKey", "embedKey"} -> keyOr(f)
           [] f = "providers" -> [i \in DOMAIN sentOr(f) |-> withKey(sentOr(f)[i])]
           [] OTHER -> sentOr(f)]

-----------------------------------------------------------------------------
(* Stores and the server that holds them.                                   *)

\* A chunking without a size is replaced altogether, its strategy included.
withDefaults(chunk) == IF chunk.words = 0 THEN DefaultChunk ELSE chunk

Empty(embedder, chunk) ==
  [embedder |-> embedder, chunk |-> chunk, contextualizer |-> NULL, dim |-> 0,
   docs |-> [d \in Docs |-> NULL], versions |-> [d \in Docs |-> <<>>]]

\* Wrong variant of New: a chunking is taken as it is given.
NewAsGiven(embedder, chunk) == Empty(embedder, chunk)

New(embedder, chunk) == Empty(embedder, withDefaults(chunk))

\* Some vector is longer than those the index was made for.
Overlong(st) ==
  \E d \in Docs : st.docs[d] # NULL /\ \E i \in DOMAIN st.docs[d].chunks : st.docs[d].chunks[i].vec.dim > st.dim

Held(st, c) == \E d \in Docs : st.docs[d] # NULL /\ st.docs[d].content = c

\* What a snapshot carries; the embedder is the loader's and the contextualizer is
\* not kept.
Snapshot(st) == [chunk |-> st.chunk, dim |-> st.dim, docs |-> st.docs, versions |-> st.versions]

Load(embedder, s) ==
  [embedder |-> embedder, chunk |-> s.chunk, contextualizer |-> NULL, dim |-> s.dim,
   docs |-> s.docs, versions |-> s.versions]

\* The server of a configuration: every saved bucket is loaded with its embedder.
Served(c) ==
  [cfg |-> c, gen |-> GenEndpoint(c), genModel |-> c.genModel, embedModel |-> c.embedModel,
   chunk |-> ChunkConfig(c), embedder |-> Embedder(c),
   stores |-> [b \in Buckets |-> IF blob[b] = NULL THEN NULL ELSE Load(Embedder(c), blob[b])]]

\* The saved settings take precedence over the flags; keys may come from the
\* environment.
LoadConfig ==
  LET c == IF file = NULL THEN Flags ELSE file
  IN  [c EXCEPT !.genKey = orEnv(@), !.embedKey = orEnv(@)]

GetOrCreate(b) ==
  IF srv.stores[b] = NULL THEN New(srv.embedder, srv.chunk) ELSE srv.stores[b]

Init ==
  /\ use \in Uses
  /\ sent = 0 /\ restarts = 0
  /\ file = NULL
  /\ blob = [b \in Buckets |-> NULL]
  /\ srv = Served(LoadConfig)
  /\ pc = [p \in Clients |-> "idle"]
  /\ task = [p \in Clients |-> NULL]

\* The process ends, at any moment.
Stop ==
  /\ srv # NULL /\ restarts < use.restarts
  /\ srv' = NULL
  /\ pc' = [p \in Clients |-> "idle"] /\ task' = [p \in Clients |-> NULL]
  /\ UNCHANGED <<use, sent, restarts, file, blob>>

\* A bucket saved with vectors of several lengths: they are not in its file, and what a
\* start makes of it is left out.
Ragged == \E b \in Buckets : blob[b] # NULL /\ Overlong(blob[b])

\* cmdServe: a file that cannot be read ends the start with an error.
Start ==
  /\ srv = NULL /\ file # Torn /\ ~Ragged
  /\ srv' = Served(LoadConfig)
  /\ restarts' = restarts + 1
  /\ UNCHANGED <<use, sent, file, blob, pc, task>>

\* The operator deletes settings that cannot be read.
RemoveFile ==
  /\ srv = NULL /\ file = Torn
  /\ file' = NULL
  /\ UNCHANGED <<use, sent, restarts, srv, blob, pc, task>>

-----------------------------------------------------------------------------
Goto(p, l) == pc' = [pc EXCEPT ![p] = l]
Set(p, t)  == task' = [task EXCEPT ![p] = t]
End(p)     == Goto(p, "idle") /\ Set(p, NULL)

At(p, l) == srv # NULL /\ pc[p] = l /\ UNCHANGED <<use, sent, restarts>>

\* A client sends the request r.
Sends(p, r) ==
  /\ srv # NULL /\ pc[p] = "idle"
  /\ Cardinality({q \in Clients : pc[q] # "idle"}) < use.atOnce
  /\ sent < use.total /\ r \in use.requests
  /\ sent' = sent + 1
  /\ UNCHANGED <<use, restarts>>

(* A request that edits the configuration.                                  *)

PostReceive(p, r) ==
  /\ Sends(p, r) /\ r.kind = "config"
  /\ LET in == Decoded(srv.cfg, r.fields)
     IN  IF validateConfig(in)
         THEN Goto(p, "post: backend") /\ Set(p, [req |-> r, in |-> in])
         ELSE UNCHANGED <<pc, task>>
  /\ UNCHANGED serverVars

PostBackend(p) ==
  /\ At(p, "post: backend")
  /\ srv' = [srv EXCEPT !.gen = GenEndpoint(task[p].in)]
  /\ Goto(p, "post: models")
  /\ UNCHANGED <<file, blob, task>>

PostModels(p) ==
  /\ At(p, "post: models")
  /\ srv' = [srv EXCEPT !.genModel = task[p].in.genModel, !.embedModel = task[p].in.embedModel]
  /\ Goto(p, "post: buckets")
  /\ UNCHANGED <<file, blob, task>>

\* SetConfig and SetEmbedder of the manager, each under its lock.
PostChunking(p) ==
  /\ At(p, "post: buckets")
  /\ srv' = [srv EXCEPT !.chunk = ChunkConfig(task[p].in)]
  /\ Goto(p, "post: embedder")
  /\ UNCHANGED <<file, blob, task>>

PostEmbedder(p) ==
  /\ At(p, "post: embedder")
  /\ srv' = [srv EXCEPT !.embedder = Embedder(task[p].in)]
  /\ Goto(p, "post: config")
  /\ UNCHANGED <<file, blob, task>>

PostConfig(p) ==
  /\ At(p, "post: config")
  /\ srv' = [srv EXCEPT !.cfg = task[p].in]
  /\ Goto(p, "post: open")
  /\ UNCHANGED <<file, blob, task>>

\* saveConfig truncates the file and then writes it; either may fail, and the
\* request is then refused with the new settings in force.
PostOpen(p) ==
  /\ At(p, "post: open")
  /\ \/ file' = Torn /\ Goto(p, "post: write") /\ UNCHANGED task
     \/ End(p) /\ UNCHANGED file
  /\ UNCHANGED <<srv, blob>>

\* A file written by another request meanwhile may be longer than this one's.
PostWrite(p) ==
  /\ At(p, "post: write")
  /\ file' \in {task[p].in, Torn}
  /\ End(p)
  /\ UNCHANGED <<srv, blob>>

-----------------------------------------------------------------------------
(* A request that indexes a document.                                       *)

Store(p) == srv.stores[task[p].req.bucket]

Keep(p, st) == srv' = [srv EXCEPT !.stores[task[p].req.bucket] = st]

\* The contextualizer of a request: the backend and the default model, as they are.
Adapter(r) == IF r.contextual THEN [at |-> srv.gen, model |-> srv.genModel] ELSE NULL

\* Wrong variant of SetContextualizer: a plain request leaves it as it was.
SetWhenAsked(st, r) == IF r.contextual THEN [st EXCEPT !.contextualizer = Adapter(r)] ELSE st

SetContextualizer(st, r) == [st EXCEPT !.contextualizer = Adapter(r)]

\* A name that no script has.
Refused(r) == r.transform = "unknown"

InBucket(r, st) == srv' = [srv EXCEPT !.stores[r.bucket] = st]

Accept(p, r) ==
  IF Refused(r) THEN UNCHANGED <<pc, task>> ELSE Goto(p, "ingest: transform") /\ Set(p, [req |-> r])

\* handleIngest sets the contextualizer and then validates the names of the scripts.
IngestReceive(p, r) ==
  /\ Sends(p, r) /\ r.kind = "text"
  /\ InBucket(r, SetContextualizer(GetOrCreate(r.bucket), r))
  /\ Accept(p, r)
  /\ UNCHANGED <<file, blob>>

\* handleIngestFiles validates first.
FilesReceive(p, r) ==
  /\ Sends(p, r) /\ r.kind = "files"
  /\ LET st == GetOrCreate(r.bucket)
     IN  InBucket(r, IF Refused(r) THEN st ELSE SetContextualizer(st, r))
  /\ Accept(p, r)
  /\ UNCHANGED <<file, blob>>

\* What the scripts make of a document: NULL if one drops it or fails on it.
Transformed(r) == IF r.transform = "none" THEN {r.content} ELSE Contents \cup {NULL}

\* Without a document the request is answered at once.
TransformText(p) ==
  /\ At(p, "ingest: transform") /\ task[p].req.kind = "text"
  /\ LET r == task[p].req
     IN  \E c \in Transformed(r) :
           IF c = NULL THEN End(p)
           ELSE /\ Set(p, [req |-> r, content |-> c])
                /\ Goto(p, IF r.replace THEN "build: situate" ELSE "ingest: situate")
  /\ UNCHANGED serverVars

\* No text may be found in a file; without a document what there is is saved.
TransformFiles(p) ==
  /\ At(p, "ingest: transform") /\ task[p].req.kind = "files"
  /\ \E c \in Transformed(task[p].req) \cup {NULL} :
       /\ Set(p, [req |-> task[p].req, content |-> c])
       /\ Goto(p, IF c = NULL THEN "ingest: save" ELSE "ingest: situate")
  /\ UNCHANGED serverVars

\* An earlier version of the document goes through the same update.
RestoreReceive(p, r) ==
  /\ Sends(p, r) /\ r.kind = "restore"
  /\ LET st == GetOrCreate(r.bucket)
     IN  /\ srv' = [srv EXCEPT !.stores[r.bucket] = st]
         /\ IF r.version \notin DOMAIN st.versions[r.doc] THEN UNCHANGED <<pc, task>>
            ELSE /\ Goto(p, "ingest: situate")
                 /\ Set(p, [req |-> r, content |-> st.versions[r.doc][r.version]])
  /\ UNCHANGED <<file, blob>>

\* Build chunks and situates before it has dropped anything.
Whole(r) == r.kind = "text" /\ r.replace

AfterStore(r) == IF r.kind = "restore" THEN "idle" ELSE "ingest: save"

\* A model call that fails leaves its chunk without a context.
Situated(st, c) ==
  LET texts == Pieces[st.chunk][c]
  IN  {[i \in DOMAIN texts |-> [text |-> texts[i], context |-> IF i \in S THEN st.contextualizer ELSE NULL]] :
         S \in IF st.contextualizer = NULL THEN {{}} ELSE SUBSET DOMAIN texts}

\* newDocuments passes over a content the store has; a document without chunks is
\* nothing to add, and nothing to build from.
Situate(p) ==
  /\ pc[p] \in {"ingest: situate", "build: situate"} /\ At(p, pc[p])
  /\ LET r == task[p].req
         c == task[p].content
     IN  IF Pieces[Store(p).chunk][c] = <<>> \/ (~Whole(r) /\ Held(Store(p), c))
         THEN IF Whole(r) \/ r.kind = "restore" THEN End(p)
              ELSE /\ Goto(p, "ingest: save")
                   /\ Set(p, [req |-> r, content |-> NULL])
         ELSE \E chunks \in Situated(Store(p), c) :
                /\ Set(p, [req |-> r, content |-> c, chunks |-> chunks])
                /\ Goto(p, "ingest: embed")
  /\ UNCHANGED serverVars

Embedding(st, chunk) ==
  [text |-> chunk.text, context |-> chunk.context, by |-> st.embedder, dim |-> Dim[st.embedder.model]]

\* The vectors a document has, by the text of their chunk: the last of several.
docEmbeddings(st, d) ==
  IF st.docs[d] = NULL THEN <<>>
  ELSE LET chunks == st.docs[d].chunks
           last(t) == Max({i \in DOMAIN chunks : chunks[i].text = t})
       IN  [t \in {chunks[i].text : i \in DOMAIN chunks} |-> chunks[last(t)].vec]

\* Wrong variant of Vectors: a vector is kept whatever context the chunk now has.
VectorsByText(st, r, chunks) ==
  LET reuse == docEmbeddings(st, r.doc)
  IN  [i \in DOMAIN chunks |->
         IF chunks[i].text \in DOMAIN reuse THEN reuse[chunks[i].text] ELSE Embedding(st, chunks[i])]

\* prepareDoc keeps the vector of a text the document has, unless the chunk now has
\* a context; Build keeps none.
Vectors(st, r, chunks) ==
  LET reuse == IF Whole(r) THEN <<>> ELSE docEmbeddings(st, r.doc)
  IN  [i \in DOMAIN chunks |->
         IF chunks[i].text \in DOMAIN reuse /\ chunks[i].context = NULL
         THEN reuse[chunks[i].text] ELSE Embedding(st, chunks[i])]

\* The embedding service may fail: nothing has changed.
Embed(p) ==
  /\ At(p, "ingest: embed")
  /\ \/ LET vecs == Vectors(Store(p), task[p].req, task[p].chunks)
        IN  /\ Set(p, [task[p] EXCEPT !.chunks = [i \in DOMAIN @ |-> [text |-> @[i].text, context |-> @[i].context,
                                                                      vec |-> vecs[i]]]])
            /\ Goto(p, "ingest: apply")
     \/ End(p)
  /\ UNCHANGED serverVars

DimOf(chunks) == chunks[1].vec.dim

Versioned(versions, c) == IF versions # <<>> /\ Last(versions) = c THEN versions ELSE Append(versions, c)

\* Put into the arrays.
PutIn(st, t) ==
  [st EXCEPT !.dim = DimOf(t.chunks), !.docs[t.req.doc] = [content |-> t.content, chunks |-> t.chunks],
             !.versions[t.req.doc] = Versioned(@, t.content)]

\* shareVectorsLocked finds as many vectors in the index as there are chunks before it is
\* rebuilt: an update that keeps their number, or, once an update has ended half way
\* through a rebuild, perhaps any.
Repoints(st, t) ==
  IF st.docs[t.req.doc] = NULL THEN {FALSE}
  ELSE IF Overlong(st) THEN BOOLEAN ELSE {Len(st.docs[t.req.doc].chunks) = Len(t.chunks)}

\* The index fills up a vector that is shorter than its own; and a chunk that is pointed
\* into it has one of the length of the index.
Fitted(st, repointed) ==
  LET fit(v) == IF repointed \/ v.dim < st.dim THEN [v EXCEPT !.dim = st.dim] ELSE v
  IN  [st EXCEPT !.docs =
         [d \in Docs |-> IF st.docs[d] = NULL THEN NULL
                         ELSE [content |-> st.docs[d].content,
                               chunks |-> [i \in DOMAIN st.docs[d].chunks |->
                                             [st.docs[d].chunks[i] EXCEPT !.vec = fit(@)]]]]]

\* Wrong variant of applyPrepared: vectors of another dimension are taken in.
applyUnmeasured(st, t) == {PutIn(st, t)}

\* A document whose first vector has another dimension than the store, or that is no
\* longer new, is left out, and the request is answered as if it had been added.
applyPrepared(st, t) ==
  IF (st.dim # 0 /\ DimOf(t.chunks) # st.dim) \/ Held(st, t.content) THEN {st}
  ELSE {Fitted(PutIn(st, t), repointed) : repointed \in Repoints(st, t)}

Built(st, t) ==
  [st EXCEPT !.dim = DimOf(t.chunks),
             !.docs = [d \in Docs |-> IF d = t.req.doc THEN [content |-> t.content, chunks |-> t.chunks] ELSE NULL],
             !.versions = [d \in Docs |-> IF d = t.req.doc THEN <<t.content>> ELSE <<>>]]

\* Adding to the index a vector that is longer than its own panics, now and at every later
\* update: recoverPanic ends the request with the document in the arrays and nothing saved.
Apply(p) ==
  /\ At(p, "ingest: apply")
  /\ LET t == task[p]
     IN  \E st \in IF Whole(t.req) THEN {Built(Store(p), t)} ELSE applyPrepared(Store(p), t) :
           /\ Keep(p, st)
           /\ IF t.req.kind = "restore" \/ Overlong(st) THEN End(p)
              ELSE Goto(p, "ingest: save") /\ Set(p, [req |-> t.req, content |-> t.content])
  /\ UNCHANGED <<file, blob>>

\* A save that fails is reported in the answer.
Save(p) ==
  /\ At(p, "ingest: save")
  /\ \/ blob' = [blob EXCEPT ![task[p].req.bucket] = Snapshot(Store(p))]
     \/ UNCHANGED blob
  /\ End(p)
  /\ UNCHANGED <<srv, file>>

-----------------------------------------------------------------------------
Post(p) ==
  \/ \E r \in Requests : PostReceive(p, r)
  \/ PostBackend(p)
  \/ PostModels(p)
  \/ PostChunking(p)
  \/ PostEmbedder(p)
  \/ PostConfig(p)
  \/ PostOpen(p)
  \/ PostWrite(p)

Ingest(p) ==
  \/ \E r \in Requests : IngestReceive(p, r)
  \/ \E r \in Requests : FilesReceive(p, r)
  \/ \E r \in Requests : RestoreReceive(p, r)
  \/ TransformText(p)
  \/ TransformFiles(p)
  \/ Situate(p)
  \/ Embed(p)
  \/ Apply(p)
  \/ Save(p)

SettingsNext ==
  \/ Stop
  \/ Start
  \/ RemoveFile
  \/ \E p \in Clients : Post(p) \/ Ingest(p)

-----------------------------------------------------------------------------
(* Properties.                                                              *)

Alone == use.atOnce = 1

Posting(p) == pc[p] \in {"post: backend", "post: models", "post: buckets", "post: embedder",
                         "post: config", "post: open", "post: write"}

\* Once a request that edits the settings is done, the server answers with the backend and
\* the default models of its settings (the backend that of the provider the selector names,
\* never a stand-in), and its manager holds their embedder and their chunking; and so does
\* a server that starts.  Requests that edit one after the other; of two at once, one may
\* leave its backend under the settings of the other.
ConfigTakesEffect ==
  srv # NULL /\ Alone /\ (\A p \in Clients : ~Posting(p)) =>
    /\ srv.gen = GenEndpoint(srv.cfg) /\ srv.genModel = srv.cfg.genModel
    /\ srv.embedModel = srv.cfg.embedModel
    /\ srv.chunk = ChunkConfig(srv.cfg) /\ srv.embedder = Embedder(srv.cfg)
    /\ {srv.cfg.genApi, srv.cfg.embedApi} \subseteq {"", "ollama", "openai"} \cup Names(srv.cfg)

Makes(b) == srv # NULL /\ srv' # NULL /\ srv.stores[b] = NULL /\ srv'.stores[b] # NULL

\* A bucket that is made on first use has the embedder of the settings shown at the time,
\* and their chunking if they give the size of a chunk: without one it has the default
\* chunking, whatever strategy they name.  Requests one after the other.
NewBucketsFollow ==
  [][\A b \in Buckets : Makes(b) /\ Alone =>
       /\ srv'.stores[b].embedder = Embedder(srv.cfg)
       /\ srv'.stores[b].chunk = IF srv.cfg.words = 0 THEN DefaultChunk ELSE ChunkConfig(srv.cfg)]_vars

\* A new bucket is chunked with the strategy of the settings.
StrategyTakesEffect ==
  [][\A b \in Buckets : Makes(b) => srv.cfg.chunk \in {"", srv'.stores[b].chunk.strategy}]_vars

\* A change of the embedding backend waits for the next start.
EmbedderWaitsForStart == [][srv # NULL /\ srv' # NULL => srv'.embedder = srv.embedder]_vars

\* No request that edits the settings loses a key that it does not replace: a provider
\* that it leaves out of the request altogether, or lists with a blank key, keeps the one
\* stored.  Requests that edit one after the other; of two at once, the later answer wins.
KeysAreKept ==
  [][\A p \in Clients : srv # NULL /\ pc[p] = "post: config" /\ srv' # NULL /\ srv'.cfg # srv.cfg /\ Alone =>
       LET u == task[p].req.fields
           lists == "providers" \in DOMAIN u
           blank(n) == \E i \in DOMAIN u.providers : u.providers[i].name = n /\ u.providers[i].key = ""
       IN  /\ \A n \in Names(srv.cfg) : ~lists \/ blank(n) =>
                provider(srv'.cfg, n) # NULL /\ provider(srv'.cfg, n).key = provider(srv.cfg, n).key
           /\ \A f \in {"genKey", "embedKey"} : f \notin DOMAIN u \/ u[f] = "" => srv'.cfg[f] = srv.cfg[f]]_vars

\* Every vector of a store has the dimension of the store, and so have those to come.
OneDimension(st) ==
  /\ Dim[st.embedder.model] = st.dim
  /\ \A d \in Docs : st.docs[d] # NULL => \A chunk \in ToSet(st.docs[d].chunks) : chunk.vec.dim = st.dim

\* What a chunk is indexed under.  Whatever runs at once, the vector that an ingest gives a
\* chunk is that of its own text; of a chunk with a context, that of text and context (of a
\* chunk without one it may be that of the text in a context it had before).  It is of the
\* embedder of the bucket until the server is started again.  It has the length of the
\* vectors of its bucket, but for the chunks after the first of a document, once an update
\* after a start with another embedder has ended in a panic over the lengths.  Of requests
\* sent one at a time, to a bucket whose vectors all have the length that its embedder gives,
\* one that is not refused has its content in the bucket when it goes on to save it, and a
\* document it stores has a context only if it asked for contexts.
IndexedAsAsked ==
  srv # NULL =>
    /\ \A b \in Buckets : srv.stores[b] # NULL =>
         \A d \in Docs : srv.stores[b].docs[d] # NULL =>
           LET chunks == srv.stores[b].docs[d].chunks
           IN  \A i \in DOMAIN chunks :
                 /\ chunks[i].vec.text = chunks[i].text
                 /\ chunks[i].context # NULL => chunks[i].vec.context = chunks[i].context
                 /\ restarts = 0 => chunks[i].vec.by = srv.stores[b].embedder
                 /\ i = 1 \/ restarts = 0 \/ ~Overlong(srv.stores[b]) => chunks[i].vec.dim = srv.stores[b].dim
    /\ \A p \in Clients : Alone /\ pc[p] = "ingest: save" /\ task[p].content # NULL =>
         LET doc == Store(p).docs[task[p].req.doc]
         IN  OneDimension(Store(p)) =>
               /\ Held(Store(p), task[p].content)
               /\ ~task[p].req.contextual /\ doc # NULL => \A chunk \in ToSet(doc.chunks) : chunk.context = NULL

\* The vector of a chunk is the embedding of its own index text.
VectorsMatchIndexText ==
  \A b \in Buckets : srv # NULL /\ srv.stores[b] # NULL =>
    \A d \in Docs : srv.stores[b].docs[d] # NULL =>
      \A chunk \in ToSet(srv.stores[b].docs[d].chunks) : chunk.vec.context = chunk.context
=============================================================================
