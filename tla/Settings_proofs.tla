--------------------------- MODULE Settings_proofs ---------------------------
(***************************************************************************)
(* Theorems about a server's settings, what is indexed under them, and     *)
(* what a question finds, for any number of providers, models, buckets,    *)
(* documents, requests, clients and starts: the settings take effect, no   *)
(* key is lost, a chunk is indexed as it was asked for, a prompt holds its *)
(* sources, and a split question finds what its hops do.  They are         *)
(* theorems of Answering's specification, in which requests that edit,     *)
(* index and ask run together.                                             *)
(*                                                                         *)
(* The order is: configurations, stores, the state with its types, every   *)
(* action as a step of one client (ClientStep) that leaves the settings    *)
(* alone (QuietStep) or edits them, and then one part for each theorem,    *)
(* after what it needs of retrieval and of the union of hops.              *)
(***************************************************************************)
EXTENDS Answering, Ordering_proofs, FunctionTheorems

-----------------------------------------------------------------------------
(* Configurations.                                                          *)

Fields == {"providers", "genApi", "genUrl", "genKey", "genModel", "embedApi", "embedUrl", "embedKey",
           "embedModel", "ollamaUrl", "chunk", "words"}

LEMMA SmallestOf ==
  ASSUME NEW I \in SUBSET Nat, I # {}
  PROVE  Min(I) \in I /\ \A j \in I : Min(I) <= j
<1>1. \E x \in I : \A y \in I : x <= y
  BY LeastNumber
<1> QED BY <1>1 DEF Min

\* provider finds the first of a name, if there is one.
LEMMA ProviderFound ==
  ASSUME NEW c \in Configuration, NEW name
  PROVE  /\ provider(c, name) = NULL <=> name \notin Names(c)
         /\ name \in Names(c) =>
              \E i \in DOMAIN c.providers : /\ provider(c, name) = c.providers[i] /\ c.providers[i].name = name
                                            /\ \A j \in DOMAIN c.providers : c.providers[j].name = name => i <= j
<1> DEFINE I == {i \in 1..Len(c.providers) : c.providers[i].name = name}
           i == SelectInSeq(c.providers, LAMBDA p : p.name = name)
<1>1. c.providers \in Seq(Provider) /\ DOMAIN c.providers = 1..Len(c.providers)
  BY DEF Configuration
<1>2. i = IF I # {} THEN Min(I) ELSE 0
  BY DEF SelectInSeq
<1>3. I \in SUBSET Nat
  BY <1>1
<1>4. I # {} <=> name \in Names(c)
  BY <1>1 DEF Names
<1>5. I # {} => Min(I) \in I /\ \A j \in I : Min(I) <= j
  BY <1>3, SmallestOf
<1>6. \A j \in DOMAIN c.providers : c.providers[j] \in Provider /\ c.providers[j] # NULL
  BY <1>1, NullAssumption
<1>7. provider(c, name) = IF i = 0 THEN NULL ELSE c.providers[i]
  BY DEF provider
<1>8. \A j \in I : j \in DOMAIN c.providers /\ j # 0 /\ c.providers[j].name = name
  BY <1>1
<1> QED
  <2>1. CASE I = {}
    BY <2>1, <1>2, <1>4, <1>7
  <2>2. CASE I # {}
    <3>1. i = Min(I) /\ i \in I /\ \A j \in I : i <= j
      BY <2>2, <1>2, <1>5
    <3> HIDE DEF i
    <3>2. provider(c, name) = c.providers[i]
      BY <3>1, <1>7, <1>8
    <3>3. \A j \in DOMAIN c.providers : c.providers[j].name = name => i <= j
      BY <3>1, <1>1
    <3> QED BY <3>1, <3>2, <3>3, <1>4, <1>6, <1>8, <2>2
  <2> QED BY <2>1, <2>2

LEMMA SentType ==
  ASSUME NEW r \in Requests, r.kind = "config", NEW prev \in Configuration
  PROVE  /\ DOMAIN prev = Fields
         /\ [f \in Fields |-> IF f \in DOMAIN r.fields THEN r.fields[f] ELSE prev[f]] \in Configuration
<1> DEFINE u == [f \in DOMAIN Flags |-> IF f \in DOMAIN r.fields THEN r.fields[f] ELSE Flags[f]]
<1>1. u \in Configuration
  BY ConfigurationAssumption
<1>2. DOMAIN prev = Fields /\ DOMAIN Flags = Fields
  BY ConfigurationAssumption DEF Configuration, Fields
<1>3. \A f \in Fields \cap DOMAIN r.fields : r.fields[f] = u[f]
  BY <1>2
<1> HIDE DEF u
<1>4. [f \in Fields |-> IF f \in DOMAIN r.fields THEN r.fields[f] ELSE prev[f]] \in Configuration
  BY <1>1, <1>3 DEF Fields, Configuration
<1> QED BY <1>2, <1>4

LEMMA DecodedType ==
  ASSUME NEW r \in Requests, r.kind = "config", NEW prev \in Configuration
  PROVE  /\ Decoded(prev, r.fields) \in Configuration
         /\ \A f \in {"genKey", "embedKey"} :
              f \notin DOMAIN r.fields \/ r.fields[f] = "" => Decoded(prev, r.fields)[f] = prev[f]
<1> DEFINE s == [f \in Fields |-> IF f \in DOMAIN r.fields THEN r.fields[f] ELSE prev[f]]
           keyOr(f)   == IF s[f] = "" THEN prev[f] ELSE s[f]
           withKey(p) == IF p.key = "" /\ provider(prev, p.name) # NULL
                         THEN [p EXCEPT !.key = provider(prev, p.name).key] ELSE p
           ps == [i \in DOMAIN s.providers |-> withKey(s.providers[i])]
           in == Decoded(prev, r.fields)
<1>1. DOMAIN prev = Fields /\ s \in Configuration
  BY SentType
<1>2. in = [f \in Fields |-> CASE f \in {"genKey", "embedKey"} -> keyOr(f)
                              [] f = "providers" -> ps
                              [] OTHER -> s[f]]
  BY <1>1 DEF Decoded, Fields
<1>3. \A f \in {"genKey", "embedKey"} : f \notin DOMAIN r.fields \/ r.fields[f] = "" => s[f] = prev[f] \/ s[f] = ""
  BY DEF Fields
<1> HIDE DEF s
<1>4. s.providers \in Seq(Provider)
  BY <1>1 DEF Configuration
<1>5. ASSUME NEW p \in Provider PROVE withKey(p) \in Provider
  <2>1. provider(prev, p.name) # NULL => provider(prev, p.name) \in Provider
    BY ProviderFound DEF Configuration
  <2> QED BY <2>1 DEF Provider
<1> HIDE DEF withKey
<1>6. ps \in Seq(Provider)
  BY <1>4, <1>5
<1>7. \A f \in {"genKey", "embedKey"} : keyOr(f) \in STRING
  BY <1>1 DEF Configuration
<1> HIDE DEF ps
<1>8. in \in Configuration
  BY <1>1, <1>2, <1>6, <1>7 DEF Configuration, Fields
<1>9. \A f \in {"genKey", "embedKey"} : in[f] = keyOr(f)
  BY <1>2 DEF Fields
<1> QED BY <1>3, <1>8, <1>9

\* The providers that a request lists, or those there were.
Listed(prev, u) == IF "providers" \in DOMAIN u THEN u.providers ELSE prev.providers

\* The providers of a decoded configuration are those, with the key that is stored under
\* the name of each whose own is blank.
LEMMA DecodedProviders ==
  ASSUME NEW r \in Requests, r.kind = "config", NEW prev \in Configuration
  PROVE  /\ Listed(prev, r.fields) \in Seq(Provider)
         /\ DOMAIN Decoded(prev, r.fields).providers = DOMAIN Listed(prev, r.fields)
         /\ \A i \in DOMAIN Listed(prev, r.fields) :
              LET p == Listed(prev, r.fields)[i]
                  q == Decoded(prev, r.fields).providers[i]
              IN  /\ q.name = p.name
                  /\ q.key = IF p.key = "" /\ p.name \in Names(prev) THEN provider(prev, p.name).key ELSE p.key
<1> DEFINE s == [f \in Fields |-> IF f \in DOMAIN r.fields THEN r.fields[f] ELSE prev[f]]
           withKey(p) == IF p.key = "" /\ provider(prev, p.name) # NULL
                         THEN [p EXCEPT !.key = provider(prev, p.name).key] ELSE p
           ps == Listed(prev, r.fields)
           qs == Decoded(prev, r.fields).providers
<1>1. DOMAIN prev = Fields /\ s \in Configuration
  BY SentType
<1>2. s.providers = ps
  BY DEF Fields, Listed
<1>3. qs = [i \in DOMAIN ps |-> withKey(ps[i])]
  BY <1>1 DEF Decoded, Fields, Listed
<1> HIDE DEF s
<1>4. ps \in Seq(Provider)
  BY <1>1, <1>2 DEF Configuration
<1>5. ASSUME NEW p \in Provider
      PROVE  /\ withKey(p).name = p.name
             /\ withKey(p).key = IF p.key = "" /\ p.name \in Names(prev) THEN provider(prev, p.name).key ELSE p.key
  BY ProviderFound DEF Provider
<1> HIDE DEF withKey
<1>6. \A i \in DOMAIN ps : ps[i] \in Provider
  BY <1>4
<1> HIDE DEF ps, qs
<1>7. DOMAIN qs = DOMAIN ps /\ \A i \in DOMAIN ps : qs[i] = withKey(ps[i])
  BY <1>3
<1>8. \A i \in DOMAIN ps :
        /\ qs[i].name = ps[i].name
        /\ qs[i].key = IF ps[i].key = "" /\ ps[i].name \in Names(prev) THEN provider(prev, ps[i].name).key ELSE ps[i].key
  BY <1>5, <1>6, <1>7
<1> QED BY <1>4, <1>7, <1>8 DEF ps, qs

LEMMA DecodedKeeps ==
  ASSUME NEW r \in Requests, r.kind = "config", NEW prev \in Configuration, validateConfig(Decoded(prev, r.fields)),
         NEW n \in Names(prev),
         \/ "providers" \notin DOMAIN r.fields
         \/ \E i \in DOMAIN r.fields.providers : r.fields.providers[i].name = n /\ r.fields.providers[i].key = ""
  PROVE  /\ provider(Decoded(prev, r.fields), n) # NULL
         /\ provider(Decoded(prev, r.fields), n).key = provider(prev, n).key
<1> DEFINE in == Decoded(prev, r.fields)
           ps == Listed(prev, r.fields)
<1>1. in \in Configuration
  BY DecodedType
<1>2. /\ ps \in Seq(Provider) /\ DOMAIN in.providers = DOMAIN ps
      /\ \A i \in DOMAIN ps :
              /\ in.providers[i].name = ps[i].name
              /\ in.providers[i].key = IF ps[i].key = "" /\ ps[i].name \in Names(prev)
                                       THEN provider(prev, ps[i].name).key ELSE ps[i].key
  BY DecodedProviders
<1>3. PICK k \in DOMAIN prev.providers :
        /\ provider(prev, n) = prev.providers[k] /\ prev.providers[k].name = n
        /\ \A j \in DOMAIN prev.providers : prev.providers[j].name = n => k <= j
  BY ProviderFound
<1>4. \A i, j \in DOMAIN in.providers : in.providers[i].name = in.providers[j].name => i = j
  BY DEF validateConfig
<1>5. \E i \in DOMAIN ps : ps[i].name = n /\ (ps[i].key = "" \/ ps[i] = provider(prev, n))
  BY <1>3 DEF Listed
<1>6. PICK i \in DOMAIN ps : ps[i].name = n /\ (ps[i].key = "" \/ ps[i] = provider(prev, n))
  BY <1>5
<1> HIDE DEF in, ps
<1>7. in.providers[i].name = n /\ in.providers[i].key = provider(prev, n).key
  BY <1>2, <1>6
<1>8. n \in Names(in)
  BY <1>2, <1>6, <1>7 DEF Names
<1>9. PICK j \in DOMAIN in.providers : provider(in, n) = in.providers[j] /\ in.providers[j].name = n
  BY <1>1, <1>8, ProviderFound
<1>10. j = i
  BY <1>2, <1>4, <1>6, <1>7, <1>9
<1>11. provider(in, n) # NULL
  BY <1>1, <1>8, ProviderFound
<1> QED BY <1>7, <1>9, <1>10, <1>11 DEF in

-----------------------------------------------------------------------------
LEMMA EndpointType ==
  ASSUME NEW c \in Configuration
  PROVE  GenEndpoint(c) \in Endpoint /\ EmbedEndpoint(c) \in Endpoint /\ Embedder(c) \in Embedders
<1>1. \A key \in STRING : envRef(key) \in STRING
  BY ConfigurationAssumption DEF envRef
<1>2. \A name : provider(c, name) # NULL => provider(c, name) \in Provider
  BY ProviderFound DEF Configuration
<1>3. Ollama(c) \in Endpoint
  <2>1. c.ollamaUrl \in STRING
    BY DEF Configuration
  <2> QED BY <2>1, DefaultStrategy, ConfigurationAssumption DEF Ollama, Endpoint
<1>4. ASSUME NEW api, NEW url \in STRING, NEW key \in STRING PROVE endpoint(c, api, url, key) \in Endpoint
  <2>1. CASE provider(c, api) = NULL
    BY <2>1, <1>3 DEF endpoint, Endpoint
  <2>2. CASE provider(c, api) # NULL
    <3>1. provider(c, api).url \in STRING /\ envRef(provider(c, api).key) \in STRING
      BY <2>2, <1>1, <1>2 DEF Provider
    <3> QED BY <3>1, <2>2, <1>3 DEF endpoint, Endpoint
  <2> QED BY <2>1, <2>2
<1>5. c.genUrl \in STRING /\ c.genKey \in STRING /\ c.embedUrl \in STRING /\ c.embedKey \in STRING /\ c.embedModel \in DOMAIN Dim
  BY DEF Configuration
<1>6. GenEndpoint(c) \in Endpoint /\ EmbedEndpoint(c) \in Endpoint
  BY <1>4, <1>5 DEF GenEndpoint, EmbedEndpoint
<1> QED BY <1>5, <1>6 DEF Embedder, Embedders

-----------------------------------------------------------------------------
(* Stores.                                                                  *)

\* Chunks whose vectors are those of their own texts, in the contexts they have.
Sound(chunks) ==
  /\ chunks # <<>>
  /\ \A i \in DOMAIN chunks : /\ chunks[i].vec.text = chunks[i].text
                              /\ chunks[i].context # NULL => chunks[i].vec.context = chunks[i].context

SoundDocs(docs, dim) == \A d \in Docs : docs[d] # NULL => Sound(docs[d].chunks) /\ DimOf(docs[d].chunks) = dim

\* No vector of a store is shorter than the store's.
LongDocs(docs, dim) ==
  \A d \in Docs : docs[d] # NULL => \A i \in DOMAIN docs[d].chunks : docs[d].chunks[i].vec.dim >= dim

SoundStore(st) == st \in StoreObject /\ SoundDocs(st.docs, st.dim) /\ LongDocs(st.docs, st.dim)

Snapshots == [chunk : Chunkings, dim : Nat, docs : [Docs -> Document \cup {NULL}], versions : [Docs -> Seq(Contents)]]

SoundSnapshot(s) == s \in Snapshots /\ SoundDocs(s.docs, s.dim) /\ LongDocs(s.docs, s.dim)

LEMMA NewSound ==
  ASSUME NEW e \in Embedders, NEW c \in Chunkings
  PROVE  /\ SoundStore(New(e, c))
         /\ New(e, c).docs = [d \in Docs |-> NULL] /\ New(e, c).embedder = e /\ New(e, c).chunk = withDefaults(c)
<1> DEFINE k == withDefaults(c)
           st == [embedder |-> e, chunk |-> k, contextualizer |-> NULL, dim |-> 0,
                  docs |-> [d \in Docs |-> NULL], versions |-> [d \in Docs |-> <<>>]]
<1>1. k \in Chunkings
  BY DEF withDefaults, Chunkings
<1>2. New(e, c) = st
  BY DEF New, Empty
<1>3. <<>> \in Seq(Contents)
  OBVIOUS
<1>4. [d \in Docs |-> <<>>] \in [Docs -> Seq(Contents)]
  BY <1>3
<1> HIDE DEF k
<1>5. st \in StoreObject
  BY <1>1, <1>4 DEF StoreObject
<1>6. SoundDocs([d \in Docs |-> NULL], 0) /\ LongDocs([d \in Docs |-> NULL], 0)
  BY DEF SoundDocs, LongDocs
<1> QED BY <1>2, <1>5, <1>6 DEF SoundStore, k

LEMMA SnapshotSound ==
  ASSUME NEW st, SoundStore(st)
  PROVE  SoundSnapshot(Snapshot(st)) /\ Snapshot(st).docs = st.docs /\ Snapshot(st).dim = st.dim
  BY DEF SoundStore, SoundSnapshot, StoreObject, Snapshots, Snapshot

LEMMA LoadSound ==
  ASSUME NEW s, SoundSnapshot(s), NEW e \in Embedders
  PROVE  SoundStore(Load(e, s))
  BY DEF SoundStore, SoundSnapshot, StoreObject, Snapshots, Load

LEMMA ContextualizerSound ==
  ASSUME NEW st, SoundStore(st), NEW r, srv \in Server
  PROVE  /\ SoundStore(SetContextualizer(st, r))
         /\ SetContextualizer(st, r).docs = st.docs /\ SetContextualizer(st, r).dim = st.dim
         /\ SetContextualizer(st, r).embedder = st.embedder /\ SetContextualizer(st, r).chunk = st.chunk
         /\ ~r.contextual => SetContextualizer(st, r).contextualizer = NULL
<1>1. Adapter(r) \in Contextualizers \cup {NULL}
  BY DEF Adapter, Contextualizers, Server
<1> DEFINE a == Adapter(r)
<1>2. ~r.contextual => a = NULL
  BY DEF Adapter
<1>3. SetContextualizer(st, r) = [st EXCEPT !.contextualizer = a]
  BY DEF SetContextualizer
<1> HIDE DEF a
<1> QED BY <1>1, <1>2, <1>3 DEF SoundStore, StoreObject, a

SituatedChunk == [text : Texts, context : Contextualizers \cup {NULL}]

LEMMA SituatedType ==
  ASSUME NEW st, SoundStore(st), NEW c \in Contents, Pieces[st.chunk][c] # <<>>, NEW chunks \in Situated(st, c)
  PROVE  /\ chunks \in Seq(SituatedChunk) \ {<<>>}
         /\ st.contextualizer = NULL => \A i \in DOMAIN chunks : chunks[i].context = NULL
<1> DEFINE texts == Pieces[st.chunk][c]
           x == st.contextualizer
<1>1. texts \in Seq(Texts) /\ x \in Contextualizers \cup {NULL} /\ texts # <<>>
  BY DocumentsAssumption DEF SoundStore, StoreObject
<1>2. PICK S : chunks = [i \in DOMAIN texts |-> [text |-> texts[i], context |-> IF i \in S THEN x ELSE NULL]]
  BY DEF Situated
<1> HIDE DEF texts, x
<1>3. chunks \in Seq(SituatedChunk) /\ DOMAIN chunks = DOMAIN texts
  <2>1. DOMAIN texts = 1..Len(texts) /\ Len(texts) \in Nat /\ \A i \in DOMAIN texts : texts[i] \in Texts
    BY <1>1
  <2>2. \A i \in 1..Len(texts) : [text |-> texts[i], context |-> IF i \in S THEN x ELSE NULL] \in SituatedChunk
    BY <2>1, <1>1 DEF SituatedChunk
  <2>3. chunks \in [1..Len(texts) -> SituatedChunk]
    BY <2>1, <2>2, <1>2
  <2> QED BY <2>1, <2>3
<1>4. chunks # <<>>
  BY <1>1, <1>3
<1> QED BY <1>2, <1>3, <1>4 DEF x

LEMMA LargestOf ==
  ASSUME NEW n \in Nat, NEW I \in SUBSET (1..n), I # {}
  PROVE  Max(I) \in I
<1> DEFINE T == {n - x : x \in I}
<1>1. T \in SUBSET Nat /\ T # {}
  <2>1. \A x \in I : x \in Nat /\ x <= n
    OBVIOUS
  <2>2. \A x \in I : n - x \in Nat
    BY <2>1
  <2> QED BY <2>2
<1>2. PICK y \in T : \A z \in T : y <= z
  BY <1>1, LeastNumber
<1>3. PICK x \in I : y = n - x
  BY <1>2
<1>4. \A z \in I : x >= z
  <2> TAKE z \in I
  <2>1. n - x <= n - z
    BY <1>2, <1>3
  <2>2. x \in Nat /\ z \in Nat
    OBVIOUS
  <2> QED BY <2>1, <2>2
<1> QED BY <1>4 DEF Max

\* The vector that a document has for a text is that of one of its chunks.
LEMMA ReuseFound ==
  ASSUME NEW st, SoundStore(st), NEW d \in Docs, NEW t \in DOMAIN docEmbeddings(st, d)
  PROVE  /\ st.docs[d] # NULL
         /\ \E j \in DOMAIN st.docs[d].chunks :
              st.docs[d].chunks[j].text = t /\ docEmbeddings(st, d)[t] = st.docs[d].chunks[j].vec
<1> DEFINE chunks == st.docs[d].chunks
           I == {i \in DOMAIN chunks : chunks[i].text = t}
<1>1. st.docs[d] # NULL
  BY DEF docEmbeddings
<1>2. st.docs[d] \in Document
  BY <1>1 DEF SoundStore, StoreObject
<1>3. chunks \in Seq(Chunk)
  BY <1>2 DEF Document
<1>4. t \in {chunks[i].text : i \in DOMAIN chunks} /\ docEmbeddings(st, d)[t] = chunks[Max(I)].vec
  BY <1>1 DEF docEmbeddings
<1> HIDE DEF chunks
<1>5. Len(chunks) \in Nat /\ I \in SUBSET (1..Len(chunks)) /\ I # {}
  BY <1>3, <1>4
<1>6. Max(I) \in I
  BY <1>5, LargestOf
<1>7. Max(I) \in DOMAIN chunks /\ chunks[Max(I)].text = t
  BY <1>6
<1> QED BY <1>1, <1>4, <1>7 DEF chunks

Indexing == {r \in Requests : r.kind \in {"text", "files", "restore"}}

\* The chunks with their vectors.
Embedded(st, r, chunks) ==
  [i \in DOMAIN chunks |-> [text |-> chunks[i].text, context |-> chunks[i].context, vec |-> Vectors(st, r, chunks)[i]]]

\* A vector as the store's embedder makes it.
Fresh(v, st) == v.by = st.embedder /\ v.dim = Dim[st.embedder.model]

LEMMA EmbeddedSound ==
  ASSUME NEW st, SoundStore(st), NEW r \in Indexing, NEW chunks \in Seq(SituatedChunk) \ {<<>>},
         NEW new, new = Embedded(st, r, chunks)
  PROVE  /\ new \in Seq(Chunk) /\ Sound(new) /\ DOMAIN new = DOMAIN chunks
         /\ \A i \in DOMAIN new :
              /\ new[i].context = chunks[i].context
              /\ \/ Fresh(new[i].vec, st)
                 \/ /\ ~Whole(r)
                    /\ \E d \in Docs : /\ st.docs[d] # NULL
                                       /\ \E j \in DOMAIN st.docs[d].chunks : new[i].vec = st.docs[d].chunks[j].vec
<1> DEFINE reuse == IF Whole(r) THEN <<>> ELSE docEmbeddings(st, r.doc)
           vecs  == Vectors(st, r, chunks)
           Reusable(v) == /\ ~Whole(r)
                          /\ \E d \in Docs : /\ st.docs[d] # NULL
                                             /\ \E j \in DOMAIN st.docs[d].chunks : v = st.docs[d].chunks[j].vec
<1>1. chunks \in Seq(SituatedChunk) /\ r.doc \in Docs /\ st.embedder \in Embedders
  BY DocumentsAssumption DEF Indexing, SoundStore, StoreObject
<1>2. vecs = [i \in DOMAIN chunks |->
                IF chunks[i].text \in DOMAIN reuse /\ chunks[i].context = NULL
                THEN reuse[chunks[i].text] ELSE Embedding(st, chunks[i])]
  BY DEF Vectors
<1>3. ASSUME NEW t \in DOMAIN reuse
      PROVE  reuse[t] \in Vector /\ reuse[t].text = t /\ Reusable(reuse[t])
  <2>1. ~Whole(r) /\ reuse = docEmbeddings(st, r.doc)
    BY <1>3
  <2>2. st.docs[r.doc] # NULL
    BY <2>1, <1>1, ReuseFound
  <2>3. PICK j \in DOMAIN st.docs[r.doc].chunks :
          st.docs[r.doc].chunks[j].text = t /\ reuse[t] = st.docs[r.doc].chunks[j].vec
    BY <2>1, <1>1, ReuseFound
  <2>4. st.docs[r.doc] \in Document
    BY <2>2, <1>1 DEF SoundStore, StoreObject
  <2>5. st.docs[r.doc].chunks[j] \in Chunk
    BY <2>4, <2>3 DEF Document
  <2>6. Sound(st.docs[r.doc].chunks)
    BY <2>2, <1>1 DEF SoundStore, SoundDocs
  <2> QED BY <2>1, <2>2, <2>3, <2>5, <2>6, <1>1 DEF Chunk, Sound
<1>4. ASSUME NEW i \in DOMAIN chunks
      PROVE  /\ vecs[i] \in Vector /\ vecs[i].text = chunks[i].text
             /\ chunks[i].context # NULL => vecs[i].context = chunks[i].context
             /\ Fresh(vecs[i], st) \/ Reusable(vecs[i])
  <2>1. chunks[i] \in SituatedChunk
    BY <1>1
  <2>2. CASE chunks[i].text \in DOMAIN reuse /\ chunks[i].context = NULL
    <3>1. vecs[i] = reuse[chunks[i].text]
      BY <1>2, <2>2
    <3> QED BY <3>1, <2>2, <1>3
  <2>3. CASE ~(chunks[i].text \in DOMAIN reuse /\ chunks[i].context = NULL)
    <3>1. vecs[i] = Embedding(st, chunks[i])
      BY <1>2, <2>3
    <3>2. Dim[st.embedder.model] \in Nat \ {0}
      BY <1>1, DocumentsAssumption DEF Embedders
    <3> QED BY <3>1, <3>2, <2>1, <1>1 DEF Embedding, Vector, SituatedChunk, Fresh
  <2> QED BY <2>2, <2>3
<1> HIDE DEF vecs, reuse, Reusable
<1>5. DOMAIN new = DOMAIN chunks /\ \A i \in DOMAIN chunks :
        new[i] = [text |-> chunks[i].text, context |-> chunks[i].context, vec |-> vecs[i]]
  BY DEF Embedded, vecs
<1>6. new \in Seq(Chunk)
  <2>1. ASSUME NEW i \in DOMAIN chunks PROVE new[i] \in Chunk
    <3>1. chunks[i] \in SituatedChunk
      BY <1>1
    <3>2. chunks[i].text \in Texts /\ chunks[i].context \in Contextualizers \cup {NULL}
      BY <3>1 DEF SituatedChunk
    <3> QED BY <3>2, <1>4, <1>5 DEF Chunk
  <2>2. DOMAIN chunks = 1..Len(chunks) /\ Len(chunks) \in Nat
    BY <1>1
  <2>3. new = [i \in DOMAIN chunks |-> new[i]]
    BY DEF Embedded
  <2>4. new \in [1..Len(chunks) -> Chunk]
    BY <2>1, <2>2, <2>3
  <2> QED BY <2>2, <2>4
<1>7. new # <<>>
  BY <1>1, <1>5
<1> QED BY <1>4, <1>5, <1>6, <1>7 DEF Sound, Reusable

\* Chunks whose vectors have one length.
Flat(chunks) == \A i \in DOMAIN chunks : chunks[i].vec.dim = DimOf(chunks)

LEMMA EmbeddedFlat ==
  ASSUME NEW st, SoundStore(st), NEW r \in Indexing, Whole(r), NEW chunks \in Seq(SituatedChunk) \ {<<>>},
         NEW new, new = Embedded(st, r, chunks)
  PROVE  Flat(new)
<1>1. /\ new \in Seq(Chunk) /\ Sound(new)
      /\ \A i \in DOMAIN new : Fresh(new[i].vec, st)
  BY EmbeddedSound
<1>2. 1 \in DOMAIN new
  BY <1>1 DEF Sound
<1> QED BY <1>1, <1>2 DEF Fresh, Flat, DimOf

LEMMA VersionedType == \A versions \in Seq(Contents), c \in Contents : Versioned(versions, c) \in Seq(Contents)
  BY DEF Versioned

ApplyTask == [req : Indexing, content : Contents, chunks : Seq(Chunk)]

\* What an embedding call hands over.
Ready(t) == Sound(t.chunks) /\ (Whole(t.req) => Flat(t.chunks))

LEMMA DimOfFirst ==
  ASSUME NEW chunks \in Seq(Chunk), chunks # <<>>
  PROVE  1 \in DOMAIN chunks /\ chunks[1] \in Chunk /\ DimOf(chunks) \in Nat \ {0}
<1>1. 1 \in DOMAIN chunks /\ chunks[1] \in Chunk
  OBVIOUS
<1> QED BY <1>1 DEF DimOf, Chunk, Vector

LEMMA BuiltSound ==
  ASSUME NEW st, SoundStore(st), NEW t \in ApplyTask, Sound(t.chunks), Flat(t.chunks)
  PROVE  /\ SoundStore(Built(st, t)) /\ Built(st, t).embedder = st.embedder
         /\ Built(st, t).docs[t.req.doc] = [content |-> t.content, chunks |-> t.chunks]
         /\ \A d \in Docs \ {t.req.doc} : Built(st, t).docs[d] = NULL
         /\ Built(st, t).dim = DimOf(t.chunks)
<1> DEFINE doc == [content |-> t.content, chunks |-> t.chunks]
           docs == [d \in Docs |-> IF d = t.req.doc THEN doc ELSE NULL]
           versions == [d \in Docs |-> IF d = t.req.doc THEN <<t.content>> ELSE <<>>]
           dim == DimOf(t.chunks)
<1>1. t.req.doc \in Docs /\ t.content \in Contents /\ t.chunks \in Seq(Chunk) /\ t.chunks # <<>>
  BY DocumentsAssumption DEF ApplyTask, Indexing, Sound
<1>2. doc \in Document /\ dim \in Nat
  BY <1>1, DimOfFirst DEF Document
<1>3. versions \in [Docs -> Seq(Contents)]
  <2>1. <<t.content>> \in Seq(Contents) /\ <<>> \in Seq(Contents)
    BY <1>1
  <2> QED BY <2>1
<1>4. SoundDocs(docs, dim) /\ LongDocs(docs, dim)
  <2>1. \A i \in DOMAIN t.chunks : t.chunks[i].vec.dim >= dim
    BY <1>2 DEF Flat
  <2> QED BY <2>1 DEF SoundDocs, LongDocs
<1>5. docs \in [Docs -> Document \cup {NULL}]
  BY <1>2
<1>6. Built(st, t) = [st EXCEPT !.dim = dim, !.docs = docs, !.versions = versions]
  BY DEF Built
<1>7. docs[t.req.doc] = doc /\ \A d \in Docs \ {t.req.doc} : docs[d] = NULL
  BY <1>1
<1> HIDE DEF docs, versions, dim, doc
<1>8. /\ Built(st, t) \in StoreObject /\ Built(st, t).embedder = st.embedder
      /\ Built(st, t).docs = docs /\ Built(st, t).dim = dim
  BY <1>2, <1>3, <1>5, <1>6 DEF SoundStore, StoreObject
<1> QED BY <1>4, <1>7, <1>8 DEF SoundStore, dim, doc

\* The same chunks, some of which have a vector of the length dim.
Alike(new, old, dim) ==
  /\ DOMAIN new = DOMAIN old
  /\ \A i \in DOMAIN old :
       /\ new[i].text = old[i].text /\ new[i].context = old[i].context
       /\ new[i].vec.text = old[i].vec.text /\ new[i].vec.context = old[i].vec.context
       /\ new[i].vec.by = old[i].vec.by /\ new[i].vec.dim \in {old[i].vec.dim, dim}

LEMMA AlikeSelf == \A chunks, dim : Alike(chunks, chunks, dim)
  BY DEF Alike

\* One vector and one chunk, fitted to the length dim.
FitVector(v, dim, repointed) == IF repointed \/ v.dim < dim THEN [v EXCEPT !.dim = dim] ELSE v

LEMMA VectorFitted ==
  ASSUME NEW v \in Vector, NEW dim \in Nat \ {0}, NEW repointed \in BOOLEAN, NEW w, w = FitVector(v, dim, repointed)
  PROVE  /\ w \in Vector /\ w.text = v.text /\ w.context = v.context /\ w.by = v.by
         /\ w.dim \in {v.dim, dim} /\ w.dim >= dim
  BY DEF FitVector, Vector

LEMMA ChunkFitted ==
  ASSUME NEW c \in Chunk, NEW dim \in Nat \ {0}, NEW repointed \in BOOLEAN,
         NEW x, x = [c EXCEPT !.vec = FitVector(c.vec, dim, repointed)]
  PROVE  /\ x \in Chunk /\ x.text = c.text /\ x.context = c.context
         /\ x.vec.text = c.vec.text /\ x.vec.context = c.vec.context /\ x.vec.by = c.vec.by
         /\ x.vec.dim \in {c.vec.dim, dim} /\ x.vec.dim >= dim
<1> DEFINE w == FitVector(c.vec, dim, repointed)
<1>1. c.vec \in Vector
  BY DEF Chunk
<1>2. /\ w \in Vector /\ w.text = c.vec.text /\ w.context = c.vec.context /\ w.by = c.vec.by
      /\ w.dim \in {c.vec.dim, dim} /\ w.dim >= dim
  BY <1>1, VectorFitted
<1> HIDE DEF w
<1>3. x \in Chunk /\ x.text = c.text /\ x.context = c.context /\ x.vec = w
  BY <1>2 DEF Chunk, w
<1> QED BY <1>2, <1>3

FitChunks(chunks, dim, repointed) ==
  [i \in DOMAIN chunks |-> [chunks[i] EXCEPT !.vec = FitVector(@, dim, repointed)]]

LEMMA ChunksFitted ==
  ASSUME NEW chunks \in Seq(Chunk), Sound(chunks), NEW dim, DimOf(chunks) = dim, NEW repointed \in BOOLEAN,
         NEW new, new = FitChunks(chunks, dim, repointed)
  PROVE  /\ new \in Seq(Chunk) /\ Sound(new) /\ Alike(new, chunks, dim) /\ DimOf(new) = dim
         /\ \A i \in DOMAIN new : new[i].vec.dim >= dim
<1>1. 1 \in DOMAIN chunks /\ dim \in Nat \ {0} /\ chunks[1].vec.dim = dim
  BY DimOfFirst DEF Sound, DimOf
<1>2. DOMAIN chunks = 1..Len(chunks) /\ Len(chunks) \in Nat /\ \A i \in DOMAIN chunks : chunks[i] \in Chunk
  OBVIOUS
<1>3. DOMAIN new = DOMAIN chunks
      /\ \A i \in DOMAIN chunks : new[i] = [chunks[i] EXCEPT !.vec = FitVector(chunks[i].vec, dim, repointed)]
  BY <1>2 DEF FitChunks, Chunk
<1>4. ASSUME NEW i \in DOMAIN chunks
      PROVE  /\ new[i] \in Chunk /\ new[i].text = chunks[i].text /\ new[i].context = chunks[i].context
             /\ new[i].vec.text = chunks[i].vec.text /\ new[i].vec.context = chunks[i].vec.context
             /\ new[i].vec.by = chunks[i].vec.by
             /\ new[i].vec.dim \in {chunks[i].vec.dim, dim} /\ new[i].vec.dim >= dim
  BY <1>1, <1>2, <1>3, ChunkFitted
<1>5. new \in [1..Len(chunks) -> Chunk]
  <2>1. new = [i \in DOMAIN chunks |-> new[i]]
    BY DEF FitChunks
  <2> QED BY <2>1, <1>2, <1>4
<1> HIDE DEF FitChunks
<1>6. new \in Seq(Chunk) /\ new # <<>>
  BY <1>1, <1>2, <1>3, <1>5
<1>7. Alike(new, chunks, dim)
  BY <1>3, <1>4 DEF Alike
<1>8. Sound(new)
  BY <1>3, <1>4, <1>6 DEF Sound
<1>9. DimOf(new) = dim
  BY <1>1, <1>4 DEF DimOf
<1> QED BY <1>3, <1>4, <1>6, <1>7, <1>8, <1>9

LEMMA FittedSound ==
  ASSUME NEW st \in StoreObject, SoundDocs(st.docs, st.dim), NEW repointed \in BOOLEAN
  PROVE  /\ SoundStore(Fitted(st, repointed))
         /\ Fitted(st, repointed).embedder = st.embedder /\ Fitted(st, repointed).dim = st.dim
         /\ \A d \in Docs :
              \/ st.docs[d] = NULL /\ Fitted(st, repointed).docs[d] = NULL
              \/ /\ st.docs[d] # NULL /\ Fitted(st, repointed).docs[d] # NULL
                 /\ Fitted(st, repointed).docs[d].content = st.docs[d].content
                 /\ Alike(Fitted(st, repointed).docs[d].chunks, st.docs[d].chunks, st.dim)
<1> DEFINE fitted(d) == [content |-> st.docs[d].content, chunks |-> FitChunks(st.docs[d].chunks, st.dim, repointed)]
           docs == [d \in Docs |-> IF st.docs[d] = NULL THEN NULL ELSE fitted(d)]
           new  == Fitted(st, repointed)
<1>1. st.docs \in [Docs -> Document \cup {NULL}] /\ st.dim \in Nat
  BY DEF StoreObject
<1>2. new = [st EXCEPT !.docs = docs]
  BY DEF Fitted, FitChunks, FitVector
<1>3. ASSUME NEW d \in Docs, st.docs[d] # NULL
      PROVE  /\ fitted(d) \in Document /\ fitted(d) # NULL /\ fitted(d).content = st.docs[d].content
             /\ Sound(fitted(d).chunks) /\ Alike(fitted(d).chunks, st.docs[d].chunks, st.dim)
             /\ DimOf(fitted(d).chunks) = st.dim /\ \A i \in DOMAIN fitted(d).chunks : fitted(d).chunks[i].vec.dim >= st.dim
  <2> DEFINE chunks == st.docs[d].chunks
             f == FitChunks(chunks, st.dim, repointed)
  <2>1. st.docs[d].content \in Contents /\ chunks \in Seq(Chunk)
    BY <1>1, <1>3 DEF Document
  <2>2. Sound(chunks) /\ DimOf(chunks) = st.dim
    BY <1>3 DEF SoundDocs
  <2> HIDE DEF chunks
  <2>3. /\ f \in Seq(Chunk) /\ Sound(f) /\ Alike(f, chunks, st.dim) /\ DimOf(f) = st.dim
        /\ \A i \in DOMAIN f : f[i].vec.dim >= st.dim
    BY <2>1, <2>2, ChunksFitted
  <2>4. fitted(d) = [content |-> st.docs[d].content, chunks |-> f]
    BY DEF chunks
  <2> HIDE DEF f, fitted
  <2>5. fitted(d) \in Document /\ fitted(d).content = st.docs[d].content /\ fitted(d).chunks = f
    BY <2>1, <2>3, <2>4 DEF Document
  <2> QED BY <2>3, <2>5, NullAssumption DEF chunks
<1> HIDE DEF fitted
<1>4. docs \in [Docs -> Document \cup {NULL}]
  BY <1>3
<1>5. \A d \in Docs : docs[d] = IF st.docs[d] = NULL THEN NULL ELSE fitted(d)
  OBVIOUS
<1> HIDE DEF docs, new
<1>6. new \in StoreObject /\ new.docs = docs /\ new.dim = st.dim /\ new.embedder = st.embedder
  BY <1>2, <1>4 DEF StoreObject
<1>7. SoundDocs(docs, st.dim) /\ LongDocs(docs, st.dim)
  BY <1>3, <1>5 DEF SoundDocs, LongDocs
<1>8. \A d \in Docs :
        \/ st.docs[d] = NULL /\ docs[d] = NULL
        \/ /\ st.docs[d] # NULL /\ docs[d] # NULL /\ docs[d].content = st.docs[d].content
           /\ Alike(docs[d].chunks, st.docs[d].chunks, st.dim)
  BY <1>3, <1>5
<1> QED BY <1>6, <1>7, <1>8 DEF SoundStore, new

\* A document is put in or left out, and then every vector fits.
LEMMA PutInSound ==
  ASSUME NEW st, SoundStore(st), NEW t \in ApplyTask, Sound(t.chunks), st.dim = 0 \/ st.dim = DimOf(t.chunks)
  PROVE  /\ PutIn(st, t) \in StoreObject /\ SoundDocs(PutIn(st, t).docs, PutIn(st, t).dim)
         /\ PutIn(st, t).embedder = st.embedder /\ PutIn(st, t).dim = DimOf(t.chunks)
         /\ PutIn(st, t).docs[t.req.doc] = [content |-> t.content, chunks |-> t.chunks]
         /\ \A d \in Docs \ {t.req.doc} : PutIn(st, t).docs[d] = st.docs[d]
         /\ \A d \in Docs : st.docs[d] # NULL => st.dim = DimOf(t.chunks)
<1> DEFINE doc == [content |-> t.content, chunks |-> t.chunks]
           docs == [st.docs EXCEPT ![t.req.doc] = doc]
           versions == [st.versions EXCEPT ![t.req.doc] = Versioned(@, t.content)]
           dim == DimOf(t.chunks)
<1>1. t.req.doc \in Docs /\ t.content \in Contents /\ t.chunks \in Seq(Chunk) /\ t.chunks # <<>>
  BY DocumentsAssumption DEF ApplyTask, Indexing, Sound
<1>2. doc \in Document /\ dim \in Nat
  BY <1>1, DimOfFirst DEF Document
<1>3. st \in StoreObject /\ SoundDocs(st.docs, st.dim)
  BY DEF SoundStore
<1>4. st.versions \in [Docs -> Seq(Contents)] /\ st.docs \in [Docs -> Document \cup {NULL}]
  BY <1>3 DEF StoreObject
<1>5. versions \in [Docs -> Seq(Contents)]
  BY <1>4, <1>1, VersionedType
<1>6. docs \in [Docs -> Document \cup {NULL}]
  BY <1>4, <1>2
<1>7. docs[t.req.doc] = doc /\ \A d \in Docs \ {t.req.doc} : docs[d] = st.docs[d]
  BY <1>1, <1>4
<1>8. \A d \in Docs : st.docs[d] # NULL => st.dim # 0
  <2> SUFFICES ASSUME NEW d \in Docs, st.docs[d] # NULL PROVE st.dim # 0
    OBVIOUS
  <2>1. st.docs[d].chunks \in Seq(Chunk)
    BY <1>4 DEF Document
  <2>2. st.docs[d].chunks # <<>> /\ DimOf(st.docs[d].chunks) = st.dim
    BY <1>3 DEF SoundDocs, Sound
  <2> QED BY <2>1, <2>2, DimOfFirst
<1>9. \A d \in Docs : st.docs[d] # NULL => st.dim = dim
  BY <1>8
<1>10. SoundDocs(docs, dim)
  <2> SUFFICES ASSUME NEW d \in Docs, docs[d] # NULL
               PROVE  Sound(docs[d].chunks) /\ DimOf(docs[d].chunks) = dim
    BY DEF SoundDocs
  <2>1. CASE d = t.req.doc
    BY <2>1, <1>7
  <2>2. CASE d # t.req.doc
    <3>1. docs[d] = st.docs[d]
      BY <2>2, <1>7
    <3> HIDE DEF docs, dim
    <3> QED BY <3>1, <1>3, <1>9 DEF SoundDocs
  <2> QED BY <2>1, <2>2
<1>11. PutIn(st, t) = [st EXCEPT !.dim = dim, !.docs = docs, !.versions = versions]
  BY <1>3 DEF PutIn, StoreObject
<1> HIDE DEF docs, versions, dim, doc
<1>12. /\ PutIn(st, t) \in StoreObject /\ PutIn(st, t).embedder = st.embedder
       /\ PutIn(st, t).docs = docs /\ PutIn(st, t).dim = dim
  BY <1>2, <1>3, <1>5, <1>6, <1>11 DEF StoreObject
<1> QED BY <1>7, <1>9, <1>10, <1>12 DEF dim, doc

\* The documents beside that of t, some of whose vectors have the length dim.
AsTheyWere(docs, old, t, dim) ==
  \A d \in Docs \ {t.req.doc} :
    \/ old[d] = NULL /\ docs[d] = NULL
    \/ /\ old[d] # NULL /\ docs[d] # NULL /\ docs[d].content = old[d].content
       /\ Alike(docs[d].chunks, old[d].chunks, dim)

LEMMA AppliedSound ==
  ASSUME NEW st, SoundStore(st), NEW t \in ApplyTask, Sound(t.chunks), NEW new \in applyPrepared(st, t)
  PROVE  /\ SoundStore(new) /\ new.embedder = st.embedder
         /\ \/ new = st /\ ((st.dim # 0 /\ DimOf(t.chunks) # st.dim) \/ Held(st, t.content))
            \/ /\ new.dim = DimOf(t.chunks)
               /\ new.docs[t.req.doc] # NULL /\ new.docs[t.req.doc].content = t.content
               /\ Alike(new.docs[t.req.doc].chunks, t.chunks, new.dim)
               /\ AsTheyWere(new.docs, st.docs, t, new.dim)
               /\ \A d \in Docs : st.docs[d] # NULL => st.dim = new.dim
<1>1. CASE (st.dim # 0 /\ DimOf(t.chunks) # st.dim) \/ Held(st, t.content)
  BY <1>1 DEF applyPrepared
<1>2. CASE ~((st.dim # 0 /\ DimOf(t.chunks) # st.dim) \/ Held(st, t.content))
  <2> DEFINE put == PutIn(st, t)
             doc == [content |-> t.content, chunks |-> t.chunks]
  <2>1. t.req.doc \in Docs /\ doc.content = t.content /\ doc.chunks = t.chunks
    BY DocumentsAssumption DEF ApplyTask, Indexing
  <2>2. /\ put \in StoreObject /\ SoundDocs(put.docs, put.dim)
        /\ put.embedder = st.embedder /\ put.dim = DimOf(t.chunks)
        /\ put.docs[t.req.doc] = doc
        /\ \A d \in Docs \ {t.req.doc} : put.docs[d] = st.docs[d]
        /\ \A d \in Docs : st.docs[d] # NULL => st.dim = DimOf(t.chunks)
    BY <1>2, PutInSound
  <2>3. PICK repointed \in Repoints(st, t) : new = Fitted(put, repointed)
    BY <1>2 DEF applyPrepared
  <2>4. repointed \in BOOLEAN
    BY <2>3 DEF Repoints
  <2>5. doc # NULL
    BY <2>1, NullAssumption DEF ApplyTask, Document
  <2> HIDE DEF put, doc
  <2>6. /\ SoundStore(new) /\ new.embedder = put.embedder /\ new.dim = put.dim
        /\ \A d \in Docs :
             \/ put.docs[d] = NULL /\ new.docs[d] = NULL
             \/ /\ put.docs[d] # NULL /\ new.docs[d] # NULL /\ new.docs[d].content = put.docs[d].content
                /\ Alike(new.docs[d].chunks, put.docs[d].chunks, put.dim)
    BY <2>2, <2>3, <2>4, FittedSound
  <2>7. AsTheyWere(new.docs, st.docs, t, new.dim)
    BY <2>2, <2>6 DEF AsTheyWere
  <2> QED BY <2>1, <2>2, <2>5, <2>6, <2>7
<1> QED BY <1>1, <1>2

-----------------------------------------------------------------------------
(* The state and its steps.                                                 *)

Settled == {c \in Configuration : validateConfig(c)}

Edits == {r \in Requests : r.kind = "config"}

Plainly == {r \in Requests : r.kind \in {"text", "files"}}

Pending == {"post: backend", "post: models", "post: buckets", "post: embedder", "post: config"}

Editing == Pending \cup {"post: open", "post: write"}

Ingesting == {"ingest: transform", "ingest: situate", "build: situate", "ingest: embed", "ingest: apply", "ingest: save"}

TaskTyped(l, t) ==
  /\ l \in Editing => t.req \in Edits /\ t.in \in Settled
  /\ l \in Ingesting => t.req \in Indexing
  /\ l \in {"ingest: transform", "ingest: save"} => t.req \in Plainly
  /\ l = "ingest: save" => t.content \in Contents \cup {NULL}
  /\ l \in {"ingest: situate", "build: situate", "ingest: embed"} => t.content \in Contents
  /\ l = "ingest: embed" =>
       t = [req |-> t.req, content |-> t.content, chunks |-> t.chunks] /\ t.chunks \in Seq(SituatedChunk) \ {<<>>}
  /\ l = "ingest: apply" => t \in ApplyTask /\ Ready(t)

HasStore(p) == pc[p] \in Ingesting => SoundStore(Store(p))

Saved(s) == s \in [Buckets -> Snapshots \cup {NULL}] /\ \A b \in Buckets : s[b] # NULL => SoundSnapshot(s[b])

Typed ==
  /\ use \in Uses /\ restarts \in Nat
  /\ srv \in Server \cup {NULL}
  /\ srv # NULL => \A b \in Buckets : srv.stores[b] # NULL => SoundStore(srv.stores[b])
  /\ file \in Settled \cup {NULL, Torn}
  /\ Saved(blob)
  /\ DOMAIN pc = Clients /\ DOMAIN task = Clients
  /\ srv = NULL => \A p \in Clients : pc[p] = "idle"
  /\ \A p \in Clients : TaskTyped(pc[p], task[p]) /\ HasStore(p)

\* What a step of p may do to a document of bucket b: to one that it keeps, and to one that
\* it puts in.
KeptDoc(b, d) ==
  /\ srv.stores[b].docs[d] # NULL /\ srv'.stores[b].dim = srv.stores[b].dim
  /\ Alike(srv'.stores[b].docs[d].chunks, srv.stores[b].docs[d].chunks, srv'.stores[b].dim)

PutDoc(p, b, d) ==
  /\ pc[p] = "ingest: apply" /\ task[p].req.bucket = b /\ srv'.stores[b].dim = DimOf(task[p].chunks)
  /\ Alike(srv'.stores[b].docs[d].chunks, task[p].chunks, srv'.stores[b].dim)

DocStep(p, b, d) == srv'.stores[b].docs[d] = NULL \/ KeptDoc(b, d) \/ PutDoc(p, b, d)

\* What a step of p may do to the store of bucket b.
AsConfigured(st) == st.embedder = srv.embedder /\ st.chunk = withDefaults(srv.chunk)

StoreStep(p, b) ==
  \/ srv'.stores[b] = srv.stores[b]
  \/ /\ srv.stores[b] = NULL /\ SoundStore(srv'.stores[b]) /\ AsConfigured(srv'.stores[b])
     /\ \A d \in Docs : srv'.stores[b].docs[d] = NULL
  \/ /\ srv.stores[b] # NULL /\ SoundStore(srv'.stores[b]) /\ srv'.stores[b].embedder = srv.stores[b].embedder
     /\ \A d \in Docs : DocStep(p, b, d)

\* A client may act: it is in the middle of a request, or one more is let in.
MayAct(p) == pc[p] # "idle" \/ Cardinality({q \in Clients : pc[q] # "idle"}) < use.atOnce

Others(p) == \A q \in Clients \ {p} : pc'[q] = pc[q] /\ task'[q] = task[q]

ClientStep(p) ==
  /\ srv # NULL /\ srv' \in Server /\ UNCHANGED <<use, restarts>> /\ MayAct(p)
  /\ DOMAIN pc' = Clients /\ DOMAIN task' = Clients /\ Others(p)
  /\ file' \in Settled \cup {NULL, Torn} /\ Saved(blob')
  /\ \A b \in Buckets : StoreStep(p, b)
  /\ TaskTyped(pc'[p], task'[p]) /\ HasStore(p)'

OneAtATime == Alone => \A p, q \in Clients : pc[p] # "idle" /\ pc[q] # "idle" => p = q

\* What the server runs with, part by part, is what the settings say or, once a request
\* has written that part and until it writes the settings, what the request says.
PastGen      == {"post: models", "post: buckets", "post: embedder", "post: config"}
PastModels   == PastGen \ {"post: models"}
PastChunk    == PastModels \ {"post: buckets"}
PastEmbedder == {"post: config"}

InForce ==
  Alone /\ srv # NULL =>
    /\ \A p \in Clients :
         /\ pc[p] \in PastGen => srv.gen = GenEndpoint(task[p].in)
         /\ pc[p] \in PastModels => srv.genModel = task[p].in.genModel /\ srv.embedModel = task[p].in.embedModel
         /\ pc[p] \in PastChunk => srv.chunk = ChunkConfig(task[p].in)
         /\ pc[p] \in PastEmbedder => srv.embedder = Embedder(task[p].in)
    /\ (\A p \in Clients : pc[p] \notin PastGen) => srv.gen = GenEndpoint(srv.cfg)
    /\ (\A p \in Clients : pc[p] \notin PastModels) =>
         srv.genModel = srv.cfg.genModel /\ srv.embedModel = srv.cfg.embedModel
    /\ (\A p \in Clients : pc[p] \notin PastChunk) => srv.chunk = ChunkConfig(srv.cfg)
    /\ (\A p \in Clients : pc[p] \notin PastEmbedder) => srv.embedder = Embedder(srv.cfg)

Resolved(c) == {c.genApi, c.embedApi} \subseteq {"", "ollama", "openai"} \cup Names(c)

AllResolved == Resolved(Flags) /\ srv # NULL => Resolved(srv.cfg)

\* What a request is about to write was decoded onto the settings that it replaces.
DecodedOnto ==
  Alone /\ srv # NULL =>
    \A p \in Clients : pc[p] \in Pending => task[p].in = Decoded(srv.cfg, task[p].req.fields)

\* Until the server is started again, every vector of a store is as its embedder makes it.
Measured ==
  restarts = 0 /\ srv # NULL =>
    /\ \A b \in Buckets : srv.stores[b] # NULL =>
         \A d \in Docs : srv.stores[b].docs[d] # NULL =>
           \A i \in DOMAIN srv.stores[b].docs[d].chunks : Fresh(srv.stores[b].docs[d].chunks[i].vec, srv.stores[b])
    /\ \A p \in Clients : pc[p] = "ingest: apply" =>
         \A i \in DOMAIN task[p].chunks : Fresh(task[p].chunks[i].vec, Store(p))

NoContext(chunks) == \A i \in DOMAIN chunks : chunks[i].context = NULL

IsPlain(r) == r.kind \in {"text", "files"} /\ ~r.contextual

Added(st, t) ==
  t.content # NULL /\ OneDimension(st) =>
    /\ Held(st, t.content)
    /\ IsPlain(t.req) /\ st.docs[t.req.doc] # NULL => NoContext(st.docs[t.req.doc].chunks)

AsAsked(l, st, t) ==
  /\ l \in Ingesting \ {"ingest: apply", "ingest: save"} /\ IsPlain(t.req) => st.contextualizer = NULL
  /\ l \in {"ingest: embed", "ingest: apply"} =>
       /\ IsPlain(t.req) => NoContext(t.chunks)
       /\ Whole(t.req) \/ ~Held(st, t.content)
  /\ l = "ingest: apply" /\ OneDimension(st) => DimOf(t.chunks) = st.dim
  /\ l = "ingest: save" => Added(st, t)

IndexingAlone == Alone /\ srv # NULL => \A p \in Clients : pc[p] \in Ingesting => AsAsked(pc[p], Store(p), task[p])

LEMMA NullIsNone ==
  /\ NULL \notin Contents /\ NULL \notin Document /\ NULL \notin Configuration /\ NULL \notin Provider
  /\ NULL \notin StoreObject /\ NULL \notin Server
  BY NullAssumption

LEMMA TypedStep ==
  ASSUME Typed, NEW p \in Clients, ClientStep(p)
  PROVE  Typed'
<1>1. srv # NULL /\ srv' \in Server /\ srv' # NULL /\ srv \in Server
  BY NullIsNone DEF ClientStep, Typed
<1>2. \A b \in Buckets : srv.stores[b] # NULL => SoundStore(srv.stores[b]) /\ SoundStore(srv'.stores[b])
  BY <1>1 DEF Typed, ClientStep, StoreStep
<1>3. \A b \in Buckets : srv'.stores[b] # NULL => SoundStore(srv'.stores[b])
  BY <1>1, <1>2 DEF ClientStep, StoreStep
<1>4. ASSUME NEW q \in Clients PROVE TaskTyped(pc'[q], task'[q]) /\ HasStore(q)'
  <2>1. CASE q = p
    BY <2>1 DEF ClientStep
  <2>2. CASE q # p
    <3>1. pc'[q] = pc[q] /\ task'[q] = task[q]
      BY <2>2 DEF ClientStep, Others
    <3>2. TaskTyped(pc[q], task[q]) /\ HasStore(q)
      BY DEF Typed
    <3>3. TaskTyped(pc'[q], task'[q])
      BY <3>1, <3>2
    <3>4. pc[q] \in Ingesting => task[q].req.bucket \in Buckets /\ SoundStore(srv.stores[task[q].req.bucket])
      BY <3>2, DocumentsAssumption DEF TaskTyped, Indexing, HasStore, Store
    <3>5. pc[q] \in Ingesting => SoundStore(srv'.stores[task[q].req.bucket])
      BY <3>4, <1>2, NullIsNone DEF SoundStore
    <3> QED BY <3>1, <3>3, <3>5 DEF HasStore, Store
  <2> QED BY <2>1, <2>2
<1> QED BY <1>1, <1>3, <1>4 DEF ClientStep, Typed

-----------------------------------------------------------------------------
(* Every action of a client is such a step.                                 *)

\* The settings are left alone.
SameSettings ==
  /\ srv'.cfg = srv.cfg /\ srv'.gen = srv.gen /\ srv'.genModel = srv.genModel /\ srv'.embedModel = srv.embedModel
  /\ srv'.chunk = srv.chunk /\ srv'.embedder = srv.embedder

QuietStep(p) == ClientStep(p) /\ SameSettings /\ file' = file /\ pc[p] \notin Editing /\ pc'[p] \notin Editing

LEMMA GetOrCreateSound ==
  ASSUME Typed, srv # NULL, NEW b \in Buckets
  PROVE  /\ SoundStore(GetOrCreate(b))
         /\ srv.stores[b] # NULL => GetOrCreate(b) = srv.stores[b]
         /\ srv.stores[b] = NULL => /\ \A d \in Docs : GetOrCreate(b).docs[d] = NULL
                                    /\ AsConfigured(GetOrCreate(b))
<1>1. srv \in Server
  BY DEF Typed
<1>2. srv.embedder \in Embedders /\ srv.chunk \in Chunkings
  BY <1>1 DEF Server
<1>3. CASE srv.stores[b] = NULL
  BY <1>2, <1>3, NewSound DEF GetOrCreate, AsConfigured
<1>4. CASE srv.stores[b] # NULL
  BY <1>4 DEF GetOrCreate, Typed
<1> QED BY <1>3, <1>4

LEMMA StoreSet ==
  ASSUME Typed, srv # NULL, NEW b \in Buckets, NEW st, SoundStore(st), srv' = [srv EXCEPT !.stores[b] = st]
  PROVE  /\ srv' \in Server /\ SameSettings
         /\ srv'.stores[b] = st /\ \A c \in Buckets \ {b} : srv'.stores[c] = srv.stores[c]
<1>1. srv \in Server /\ st \in StoreObject
  BY DEF Typed, SoundStore
<1> DEFINE stores == [srv.stores EXCEPT ![b] = st]
<1>2. srv' = [srv EXCEPT !.stores = stores]
  OBVIOUS
<1>3. srv.stores \in [Buckets -> StoreObject \cup {NULL}]
  BY <1>1 DEF Server
<1>4. stores \in [Buckets -> StoreObject \cup {NULL}] /\ stores[b] = st /\ \A c \in Buckets \ {b} : stores[c] = srv.stores[c]
  BY <1>1, <1>3
<1> HIDE DEF stores
<1>5. srv' \in Server /\ srv'.stores = stores /\ SameSettings
  BY <1>1, <1>2, <1>4 DEF Server, SameSettings
<1> QED BY <1>4, <1>5

\* A step that leaves the server alone.
LEMMA StillStep ==
  ASSUME Typed, NEW p \in Clients, srv # NULL, MayAct(p), UNCHANGED <<use, restarts, srv, file, blob>>,
         DOMAIN pc' = Clients, DOMAIN task' = Clients, Others(p),
         TaskTyped(pc'[p], task'[p]), HasStore(p)', pc[p] \notin Editing, pc'[p] \notin Editing
  PROVE  QuietStep(p)
<1>1. srv' \in Server /\ SameSettings
  BY DEF Typed, SameSettings
<1>2. \A b \in Buckets : StoreStep(p, b)
  BY DEF StoreStep
<1>3. file' = file /\ file' \in Settled \cup {NULL, Torn} /\ Saved(blob')
  BY DEF Typed
<1> QED BY <1>1, <1>2, <1>3 DEF QuietStep, ClientStep

\* Where a client goes and with what.
LEMMA Moved ==
  ASSUME Typed, NEW p \in Clients, NEW l, NEW t, Goto(p, l), Set(p, t)
  PROVE  /\ DOMAIN pc' = Clients /\ DOMAIN task' = Clients /\ Others(p)
         /\ pc'[p] = l /\ task'[p] = t
  BY DEF Typed, Goto, Set, Others

LEMMA Ended ==
  ASSUME Typed, NEW p \in Clients, End(p)
  PROVE  /\ DOMAIN pc' = Clients /\ DOMAIN task' = Clients /\ Others(p)
         /\ pc'[p] = "idle" /\ TaskTyped(pc'[p], task'[p]) /\ HasStore(p)' /\ pc'[p] \notin Editing
<1>1. DOMAIN pc' = Clients /\ DOMAIN task' = Clients /\ Others(p) /\ pc'[p] = "idle"
  <2>1. Goto(p, "idle") /\ Set(p, NULL)
    BY DEF End
  <2> QED BY <2>1, Moved
<1> QED BY <1>1 DEF TaskTyped, HasStore, Editing, Pending, Ingesting

LEMMA Stayed ==
  ASSUME Typed, NEW p \in Clients, UNCHANGED <<pc, task>>, pc[p] = "idle"
  PROVE  /\ DOMAIN pc' = Clients /\ DOMAIN task' = Clients /\ Others(p)
         /\ pc'[p] = "idle" /\ TaskTyped(pc'[p], task'[p]) /\ HasStore(p)' /\ pc'[p] \notin Editing
<1>1. DOMAIN pc' = Clients /\ DOMAIN task' = Clients /\ Others(p) /\ pc'[p] = "idle"
  BY DEF Typed, Others
<1> QED BY <1>1 DEF TaskTyped, HasStore, Editing, Pending, Ingesting

LEMMA SendsActs ==
  ASSUME NEW p, NEW r, Sends(p, r)
  PROVE  /\ srv # NULL /\ MayAct(p) /\ pc[p] = "idle" /\ pc[p] \notin Editing /\ UNCHANGED <<use, restarts>>
         /\ r \in use.requests
  BY DEF Sends, MayAct, Editing, Pending

LEMMA AtActs ==
  ASSUME NEW p, NEW l, l # "idle", l \notin Editing, At(p, l)
  PROVE  srv # NULL /\ MayAct(p) /\ pc[p] = l /\ pc[p] \notin Editing /\ UNCHANGED <<use, restarts>>
  BY DEF At, MayAct

\* What a client has in hand, stage by stage.
LEMMA TaskAt ==
  ASSUME NEW t
  PROVE  /\ TaskTyped("ingest: transform", t) <=> t.req \in Indexing /\ t.req \in Plainly
         /\ TaskTyped("ingest: situate", t) <=> t.req \in Indexing /\ t.content \in Contents
         /\ TaskTyped("build: situate", t) <=> t.req \in Indexing /\ t.content \in Contents
         /\ TaskTyped("ingest: embed", t) <=>
              /\ t.req \in Indexing /\ t.content \in Contents
              /\ t = [req |-> t.req, content |-> t.content, chunks |-> t.chunks]
              /\ t.chunks \in Seq(SituatedChunk) \ {<<>>}
         /\ TaskTyped("ingest: apply", t) <=> t.req \in Indexing /\ t \in ApplyTask /\ Ready(t)
         /\ TaskTyped("ingest: save", t) <=>
              t.req \in Indexing /\ t.req \in Plainly /\ t.content \in Contents \cup {NULL}
<1>1. /\ \A l \in Ingesting : l \notin Editing
      /\ Ingesting = {"ingest: transform", "ingest: situate", "build: situate", "ingest: embed", "ingest: apply",
                      "ingest: save"}
  BY DEF Ingesting, Editing, Pending
<1>2. TaskTyped("ingest: transform", t) <=> t.req \in Indexing /\ t.req \in Plainly
  BY <1>1 DEF TaskTyped
<1>3. TaskTyped("ingest: situate", t) <=> t.req \in Indexing /\ t.content \in Contents
  BY <1>1 DEF TaskTyped
<1>4. TaskTyped("build: situate", t) <=> t.req \in Indexing /\ t.content \in Contents
  BY <1>1 DEF TaskTyped
<1>5. TaskTyped("ingest: embed", t) <=>
        /\ t.req \in Indexing /\ t.content \in Contents
        /\ t = [req |-> t.req, content |-> t.content, chunks |-> t.chunks]
        /\ t.chunks \in Seq(SituatedChunk) \ {<<>>}
  BY <1>1 DEF TaskTyped
<1>6. TaskTyped("ingest: apply", t) <=> t.req \in Indexing /\ t \in ApplyTask /\ Ready(t)
  BY <1>1 DEF TaskTyped
<1>7. TaskTyped("ingest: save", t) <=>
        t.req \in Indexing /\ t.req \in Plainly /\ t.content \in Contents \cup {NULL}
  BY <1>1 DEF TaskTyped
<1> QED BY <1>2, <1>3, <1>4, <1>5, <1>6, <1>7

LEMMA BucketOf ==
  ASSUME NEW r \in Indexing
  PROVE  r.bucket \in Buckets /\ r.doc \in Docs /\ r \in Requests
  BY DocumentsAssumption DEF Indexing

\* A step that sets the store of one bucket to one with the documents it had, or to a
\* new one.
LEMMA SetStep ==
  ASSUME Typed, NEW p \in Clients, srv # NULL, MayAct(p), UNCHANGED <<use, restarts, file, blob>>,
         NEW b \in Buckets, NEW st, SoundStore(st), srv' = [srv EXCEPT !.stores[b] = st],
         srv.stores[b] = NULL => AsConfigured(st) /\ \A d \in Docs : st.docs[d] = NULL,
         srv.stores[b] # NULL =>
           st.embedder = srv.stores[b].embedder /\ st.docs = srv.stores[b].docs /\ st.dim = srv.stores[b].dim,
         DOMAIN pc' = Clients, DOMAIN task' = Clients, Others(p),
         TaskTyped(pc'[p], task'[p]), pc'[p] \in Ingesting => task'[p].req.bucket = b,
         pc[p] \notin Editing, pc'[p] \notin Editing
  PROVE  QuietStep(p)
<1>1. /\ srv' \in Server /\ SameSettings
      /\ srv'.stores[b] = st /\ \A c \in Buckets \ {b} : srv'.stores[c] = srv.stores[c]
  BY StoreSet
<1>2. ASSUME NEW c \in Buckets PROVE StoreStep(p, c)
  <2>1. CASE c = b
    BY <2>1, <1>1, AlikeSelf DEF StoreStep, DocStep, KeptDoc
  <2>2. CASE c # b
    BY <2>2, <1>1 DEF StoreStep
  <2> QED BY <2>1, <2>2
<1>3. file' = file /\ file' \in Settled \cup {NULL, Torn} /\ Saved(blob')
  BY DEF Typed
<1>4. HasStore(p)'
  BY <1>1 DEF HasStore, Store
<1> QED BY <1>1, <1>2, <1>3, <1>4 DEF QuietStep, ClientStep

\* The store that the request p has just sent will find, and where p goes.
LEMMA Accepted ==
  ASSUME Typed, NEW p \in Clients, pc[p] = "idle", NEW r \in Plainly, Accept(p, r)
  PROVE  /\ DOMAIN pc' = Clients /\ DOMAIN task' = Clients /\ Others(p)
         /\ TaskTyped(pc'[p], task'[p]) /\ (pc'[p] \in Ingesting => task'[p].req = r /\ pc'[p] = "ingest: transform")
         /\ pc'[p] \notin Editing
<1>1. CASE Refused(r)
  <2>1. UNCHANGED <<pc, task>>
    BY <1>1 DEF Accept
  <2> QED BY <2>1, Stayed DEF Ingesting
<1>2. CASE ~Refused(r)
  <2>1. Goto(p, "ingest: transform") /\ Set(p, [req |-> r])
    BY <1>2 DEF Accept
  <2>2. /\ DOMAIN pc' = Clients /\ DOMAIN task' = Clients /\ Others(p)
        /\ pc'[p] = "ingest: transform" /\ task'[p] = [req |-> r]
    BY <2>1, Moved
  <2>3. r \in Indexing
    BY DEF Indexing, Plainly
  <2>4. TaskTyped(pc'[p], task'[p])
    BY <2>2, <2>3, TaskAt
  <2>5. pc'[p] \notin Editing
    BY <2>2 DEF Editing, Pending
  <2>6. task'[p].req = r
    <3>1. task'[p] = [req |-> r]
      BY <2>2
    <3>2. [req |-> r].req = r
      OBVIOUS
    <3> QED BY <3>1, <3>2
  <2> QED BY <2>2, <2>4, <2>5, <2>6
<1> QED BY <1>1, <1>2

LEMMA TextReceived ==
  ASSUME Typed, NEW p \in Clients, NEW r \in Requests, IngestReceive(p, r) \/ FilesReceive(p, r)
  PROVE  QuietStep(p)
<1>1. /\ srv # NULL /\ MayAct(p) /\ pc[p] = "idle" /\ pc[p] \notin Editing /\ UNCHANGED <<use, restarts>>
      /\ UNCHANGED <<file, blob>> /\ Accept(p, r)
  BY SendsActs DEF IngestReceive, FilesReceive
<1>2. r \in Plainly /\ r.bucket \in Buckets
  BY DocumentsAssumption DEF IngestReceive, FilesReceive, Plainly
<1> DEFINE old == GetOrCreate(r.bucket)
           st == IF r.kind = "files" /\ Refused(r) THEN old ELSE SetContextualizer(old, r)
<1>3. /\ SoundStore(old)
      /\ srv.stores[r.bucket] # NULL => old = srv.stores[r.bucket]
      /\ srv.stores[r.bucket] = NULL => AsConfigured(old) /\ \A d \in Docs : old.docs[d] = NULL
  BY <1>1, <1>2, GetOrCreateSound
<1>4. srv' = [srv EXCEPT !.stores[r.bucket] = st]
  BY DEF IngestReceive, FilesReceive, InBucket
<1>5. srv \in Server
  BY <1>1 DEF Typed
<1> HIDE DEF old
<1>6. /\ SoundStore(st) /\ st.docs = old.docs /\ st.embedder = old.embedder /\ st.dim = old.dim
      /\ st.chunk = old.chunk
  BY <1>3, <1>5, ContextualizerSound
<1> HIDE DEF st
<1>8. AsConfigured(old) => AsConfigured(st)
  BY <1>6 DEF AsConfigured
<1>7. /\ DOMAIN pc' = Clients /\ DOMAIN task' = Clients /\ Others(p)
      /\ TaskTyped(pc'[p], task'[p]) /\ (pc'[p] \in Ingesting => task'[p].req = r)
      /\ pc'[p] \notin Editing
  BY <1>1, <1>2, Accepted
<1> QED BY <1>1, <1>2, <1>3, <1>4, <1>6, <1>7, <1>8, SetStep

LEMMA RestoreReceived ==
  ASSUME Typed, NEW p \in Clients, NEW r \in Requests, RestoreReceive(p, r)
  PROVE  QuietStep(p)
<1>1. /\ srv # NULL /\ MayAct(p) /\ pc[p] = "idle" /\ pc[p] \notin Editing /\ UNCHANGED <<use, restarts>>
      /\ UNCHANGED <<file, blob>> /\ r.kind = "restore"
  BY SendsActs DEF RestoreReceive
<1>2. r \in Indexing /\ r.bucket \in Buckets /\ r.doc \in Docs
  BY <1>1, BucketOf DEF Indexing
<1> DEFINE st == GetOrCreate(r.bucket)
<1>3. /\ SoundStore(st)
      /\ srv.stores[r.bucket] # NULL => st = srv.stores[r.bucket]
      /\ srv.stores[r.bucket] = NULL => AsConfigured(st) /\ \A d \in Docs : st.docs[d] = NULL
  BY <1>1, <1>2, GetOrCreateSound
<1>4. /\ srv' = [srv EXCEPT !.stores[r.bucket] = st]
      /\ IF r.version \notin DOMAIN st.versions[r.doc] THEN UNCHANGED <<pc, task>>
         ELSE /\ Goto(p, "ingest: situate")
              /\ Set(p, [req |-> r, content |-> st.versions[r.doc][r.version]])
  BY DEF RestoreReceive
<1> HIDE DEF st
<1>5. /\ DOMAIN pc' = Clients /\ DOMAIN task' = Clients /\ Others(p)
      /\ TaskTyped(pc'[p], task'[p]) /\ (pc'[p] \in Ingesting => task'[p].req.bucket = r.bucket)
      /\ pc'[p] \notin Editing
  <2>1. CASE r.version \notin DOMAIN st.versions[r.doc]
    BY <2>1, <1>1, <1>4, Stayed DEF Ingesting
  <2>2. CASE r.version \in DOMAIN st.versions[r.doc]
    <3> DEFINE c == st.versions[r.doc][r.version]
    <3>1. st.versions[r.doc] \in Seq(Contents)
      BY <1>2, <1>3 DEF SoundStore, StoreObject
    <3>2. c \in Contents
      BY <3>1, <2>2
    <3> HIDE DEF c
    <3>3. Goto(p, "ingest: situate") /\ Set(p, [req |-> r, content |-> c])
      BY <2>2, <1>4 DEF c
    <3>4. /\ DOMAIN pc' = Clients /\ DOMAIN task' = Clients /\ Others(p)
          /\ pc'[p] = "ingest: situate" /\ task'[p] = [req |-> r, content |-> c]
      BY <3>3, Moved
    <3>5. TaskTyped(pc'[p], task'[p])
      BY <3>2, <3>4, <1>2, TaskAt
    <3>6. pc'[p] \notin Editing
      BY <3>4 DEF Editing, Pending
    <3>7. task'[p].req = r
      <4>1. task'[p] = [req |-> r, content |-> c]
        BY <3>4
      <4> QED BY <4>1
    <3> QED BY <3>4, <3>5, <3>6, <3>7
  <2> QED BY <2>1, <2>2
<1> QED BY <1>1, <1>2, <1>3, <1>4, <1>5, SetStep

LEMMA StillMoved ==
  ASSUME Typed, NEW p \in Clients, NEW l, NEW m, NEW t, At(p, l), l # "idle", l \notin Editing, m \notin Editing,
         Goto(p, m), Set(p, t), UNCHANGED serverVars, TaskTyped(m, t),
         m \in Ingesting => SoundStore(srv.stores[t.req.bucket])
  PROVE  QuietStep(p)
<1>1. /\ DOMAIN pc' = Clients /\ DOMAIN task' = Clients /\ Others(p)
      /\ pc'[p] = m /\ task'[p] = t
  BY Moved
<1>2. pc'[p] = m /\ task'[p] = t
  BY <1>1
<1>3. /\ srv # NULL /\ MayAct(p) /\ UNCHANGED <<use, restarts>> /\ UNCHANGED <<srv, file, blob>>
      /\ pc[p] \notin Editing
  BY AtActs DEF serverVars
<1>4. HasStore(p)'
  BY <1>2, <1>3 DEF HasStore, Store
<1> QED BY <1>1, <1>2, <1>3, <1>4, StillStep

LEMMA StillEnded ==
  ASSUME Typed, NEW p \in Clients, NEW l, At(p, l), l # "idle", l \notin Editing, End(p), UNCHANGED serverVars
  PROVE  QuietStep(p)
<1>1. /\ srv # NULL /\ MayAct(p) /\ UNCHANGED <<use, restarts>> /\ UNCHANGED <<srv, file, blob>>
      /\ pc[p] \notin Editing
  BY AtActs DEF serverVars
<1> QED BY <1>1, Ended, StillStep

LEMMA StageLabels ==
  \A l \in Ingesting : l # "idle" /\ l \notin Editing
  BY DEF Ingesting, Editing, Pending

LEMMA Transforming ==
  ASSUME Typed, NEW p \in Clients, TransformText(p) \/ TransformFiles(p)
  PROVE  QuietStep(p)
<1> DEFINE r == task[p].req
<1>1. At(p, "ingest: transform") /\ UNCHANGED serverVars /\ pc[p] = "ingest: transform"
  BY DEF TransformText, TransformFiles, At
<1>2. TaskTyped("ingest: transform", task[p]) /\ HasStore(p)
  BY <1>1 DEF Typed
<1>3. r \in Indexing /\ r \in Plainly /\ SoundStore(srv.stores[r.bucket])
  BY <1>1, <1>2, TaskAt DEF HasStore, Store, Ingesting
<1>4. r.content \in Contents
  BY <1>3, DocumentsAssumption DEF Plainly
<1>5. \A c \in Transformed(r) : c \in Contents \cup {NULL}
  BY <1>4 DEF Transformed
<1>6. CASE TransformText(p)
  <2>1. PICK c \in Transformed(r) :
          IF c = NULL THEN End(p)
          ELSE Set(p, [req |-> r, content |-> c]) /\ Goto(p, IF r.replace THEN "build: situate" ELSE "ingest: situate")
    BY <1>6 DEF TransformText
  <2>2. CASE c = NULL
    BY <2>1, <2>2, <1>1, StillEnded, StageLabels DEF Ingesting
  <2>3. CASE c # NULL
    <3> DEFINE t == [req |-> r, content |-> c]
               m == IF r.replace THEN "build: situate" ELSE "ingest: situate"
    <3>1. c \in Contents
      BY <1>5, <2>3
    <3>2. t.req = r /\ t.content = c
      OBVIOUS
    <3>3. Set(p, t) /\ Goto(p, m)
      BY <2>1, <2>3
    <3>4. m \in {"ingest: situate", "build: situate"}
      OBVIOUS
    <3> HIDE DEF t, m, r
    <3>5. TaskTyped(m, t)
      BY <3>1, <3>2, <3>4, <1>3, TaskAt
    <3>6. m \in Ingesting /\ "ingest: transform" \in Ingesting
      BY <3>4 DEF Ingesting
    <3> QED BY <3>2, <3>3, <3>5, <3>6, <1>1, <1>3, StillMoved, StageLabels
  <2> QED BY <2>2, <2>3
<1>7. CASE TransformFiles(p)
  <2>1. PICK c \in Transformed(r) \cup {NULL} :
          Set(p, [req |-> r, content |-> c]) /\ Goto(p, IF c = NULL THEN "ingest: save" ELSE "ingest: situate")
    BY <1>7 DEF TransformFiles
  <2> DEFINE t == [req |-> r, content |-> c]
             m == IF c = NULL THEN "ingest: save" ELSE "ingest: situate"
  <2>2. t.req = r /\ t.content = c /\ Set(p, t) /\ Goto(p, m)
    BY <2>1
  <2>3. m = "ingest: save" \/ (m = "ingest: situate" /\ c # NULL)
    OBVIOUS
  <2>4. c \in Contents \cup {NULL}
    BY <1>5
  <2> HIDE DEF t, m, r
  <2>5. TaskTyped(m, t)
    BY <2>2, <2>3, <2>4, <1>3, TaskAt
  <2>6. m \in Ingesting /\ "ingest: transform" \in Ingesting
    BY <2>3 DEF Ingesting
  <2> QED BY <2>2, <2>5, <2>6, <1>1, <1>3, StillMoved, StageLabels
<1> QED BY <1>6, <1>7

LEMMA Situating ==
  ASSUME Typed, NEW p \in Clients, Situate(p)
  PROVE  QuietStep(p)
<1> DEFINE r == task[p].req
           c == task[p].content
           st == Store(p)
<1>1. /\ pc[p] \in {"ingest: situate", "build: situate"} /\ At(p, pc[p]) /\ UNCHANGED serverVars
      /\ IF Pieces[st.chunk][c] = <<>> \/ (~Whole(r) /\ Held(st, c))
         THEN IF Whole(r) \/ r.kind = "restore" THEN End(p)
              ELSE /\ Goto(p, "ingest: save")
                   /\ Set(p, [req |-> r, content |-> NULL])
         ELSE \E chunks \in Situated(st, c) :
                /\ Set(p, [req |-> r, content |-> c, chunks |-> chunks])
                /\ Goto(p, "ingest: embed")
  BY DEF Situate
<1>2. TaskTyped(pc[p], task[p]) /\ HasStore(p) /\ pc[p] \in Ingesting
  BY <1>1 DEF Typed, Ingesting
<1>3. r \in Indexing /\ c \in Contents /\ SoundStore(st) /\ st = srv.stores[r.bucket]
  BY <1>1, <1>2, TaskAt DEF HasStore, Store
<1> HIDE DEF r, c, st
<1>4. CASE Pieces[st.chunk][c] = <<>> \/ (~Whole(r) /\ Held(st, c))
  <2>1. CASE Whole(r) \/ r.kind = "restore"
    BY <2>1, <1>1, <1>2, <1>4, StillEnded, StageLabels
  <2>2. CASE ~(Whole(r) \/ r.kind = "restore")
    <3> DEFINE t == [req |-> r, content |-> NULL]
    <3>1. t.req = r /\ t.content = NULL /\ Goto(p, "ingest: save") /\ Set(p, t)
      BY <2>2, <1>1, <1>4
    <3>2. r \in Plainly
      BY <2>2, <1>3 DEF Indexing, Plainly
    <3> HIDE DEF t
    <3>3. TaskTyped("ingest: save", t)
      BY <3>1, <3>2, <1>3, TaskAt
    <3>4. "ingest: save" \in Ingesting
      BY DEF Ingesting
    <3> QED BY <3>1, <3>3, <3>4, <1>1, <1>2, <1>3, StillMoved, StageLabels
  <2> QED BY <2>1, <2>2
<1>5. CASE ~(Pieces[st.chunk][c] = <<>> \/ (~Whole(r) /\ Held(st, c)))
  <2>1. PICK chunks \in Situated(st, c) :
          Set(p, [req |-> r, content |-> c, chunks |-> chunks]) /\ Goto(p, "ingest: embed")
    BY <1>1, <1>5
  <2>2. chunks \in Seq(SituatedChunk) \ {<<>>}
    BY <1>3, <1>5, SituatedType
  <2> DEFINE t == [req |-> r, content |-> c, chunks |-> chunks]
  <2>3. t.req = r /\ t.content = c /\ t.chunks = chunks /\ Set(p, t)
    BY <2>1
  <2>4. t = [req |-> t.req, content |-> t.content, chunks |-> t.chunks]
    OBVIOUS
  <2> HIDE DEF t
  <2>5. TaskTyped("ingest: embed", t)
    BY <2>2, <2>3, <2>4, <1>3, TaskAt
  <2>6. "ingest: embed" \in Ingesting
    BY DEF Ingesting
  <2> QED BY <2>1, <2>3, <2>5, <2>6, <1>1, <1>2, <1>3, StillMoved, StageLabels
<1> QED BY <1>4, <1>5

LEMMA EmbedOutcome ==
  ASSUME Typed, NEW p \in Clients, Embed(p)
  PROVE  /\ At(p, "ingest: embed") /\ UNCHANGED serverVars /\ pc[p] = "ingest: embed"
         /\ task[p].req \in Indexing /\ task[p].content \in Contents
         /\ task[p].chunks \in Seq(SituatedChunk) \ {<<>>}
         /\ SoundStore(Store(p)) /\ Store(p) = srv.stores[task[p].req.bucket]
         /\ \/ End(p)
            \/ /\ Set(p, [req |-> task[p].req, content |-> task[p].content,
                          chunks |-> Embedded(Store(p), task[p].req, task[p].chunks)])
               /\ Goto(p, "ingest: apply")
<1> DEFINE r == task[p].req
           c == task[p].content
           st == Store(p)
           chunks == task[p].chunks
           new == [i \in DOMAIN chunks |-> [text |-> chunks[i].text, context |-> chunks[i].context,
                                            vec |-> Vectors(st, r, chunks)[i]]]
<1>1. At(p, "ingest: embed") /\ UNCHANGED serverVars /\ pc[p] = "ingest: embed"
  BY DEF Embed, At
<1>2. TaskTyped("ingest: embed", task[p]) /\ HasStore(p)
  BY <1>1 DEF Typed
<1>3. /\ r \in Indexing /\ c \in Contents /\ chunks \in Seq(SituatedChunk) \ {<<>>}
      /\ task[p] = [req |-> r, content |-> c, chunks |-> chunks]
  BY <1>2, TaskAt
<1>4. SoundStore(st) /\ st = srv.stores[r.bucket]
  BY <1>1, <1>2 DEF HasStore, Store, Ingesting
<1>5. \/ End(p)
      \/ Set(p, [task[p] EXCEPT !.chunks = new]) /\ Goto(p, "ingest: apply")
  BY DEF Embed
<1>6. new = Embedded(st, r, chunks)
  BY DEF Embedded
<1> HIDE DEF new
<1>7. [task[p] EXCEPT !.chunks = new] = [req |-> r, content |-> c, chunks |-> new]
  <2> HIDE DEF r, c, chunks
  <2> QED BY <1>3
<1> QED BY <1>1, <1>3, <1>4, <1>5, <1>6, <1>7

LEMMA Embeds ==
  ASSUME Typed, NEW p \in Clients, Embed(p)
  PROVE  QuietStep(p)
<1> DEFINE r == task[p].req
           c == task[p].content
           st == Store(p)
           new == Embedded(st, r, task[p].chunks)
           t == [req |-> r, content |-> c, chunks |-> new]
<1>1. /\ At(p, "ingest: embed") /\ UNCHANGED serverVars
      /\ r \in Indexing /\ c \in Contents /\ task[p].chunks \in Seq(SituatedChunk) \ {<<>>}
      /\ SoundStore(st) /\ st = srv.stores[r.bucket]
      /\ End(p) \/ (Set(p, t) /\ Goto(p, "ingest: apply"))
  BY EmbedOutcome
<1>2. "ingest: embed" \in Ingesting /\ "ingest: apply" \in Ingesting
  BY DEF Ingesting
<1>3. CASE End(p)
  BY <1>1, <1>2, <1>3, StillEnded, StageLabels
<1>4. CASE Set(p, t) /\ Goto(p, "ingest: apply")
  <2>1. new \in Seq(Chunk) /\ Sound(new) /\ (Whole(r) => Flat(new))
    BY <1>1, EmbeddedSound, EmbeddedFlat
  <2>2. t.req = r /\ t.content = c /\ t.chunks = new
    OBVIOUS
  <2> HIDE DEF new, r, c, st
  <2>3. t \in ApplyTask
    BY <1>1, <2>1 DEF ApplyTask
  <2> HIDE DEF t
  <2>4. TaskTyped("ingest: apply", t)
    BY <1>1, <2>1, <2>2, <2>3, TaskAt DEF Ready
  <2> QED BY <1>1, <1>2, <1>4, <2>2, <2>4, StillMoved, StageLabels
<1> QED BY <1>1, <1>3, <1>4

\* The stores that Apply may leave.
NewStores(st, t) == IF Whole(t.req) THEN {Built(st, t)} ELSE applyPrepared(st, t)

LEMMA ApplyOutcome ==
  ASSUME Typed, NEW p \in Clients, Apply(p)
  PROVE  /\ srv # NULL /\ MayAct(p) /\ UNCHANGED <<use, restarts, file, blob>> /\ pc[p] = "ingest: apply"
         /\ task[p] \in ApplyTask /\ Ready(task[p]) /\ task[p].req \in Indexing
         /\ SoundStore(Store(p)) /\ Store(p) = srv.stores[task[p].req.bucket] /\ task[p].req.bucket \in Buckets
         /\ \E new \in NewStores(Store(p), task[p]) :
              /\ srv' = [srv EXCEPT !.stores[task[p].req.bucket] = new]
              /\ \/ End(p)
                 \/ /\ task[p].req.kind # "restore"
                    /\ Goto(p, "ingest: save") /\ Set(p, [req |-> task[p].req, content |-> task[p].content])
<1>1. At(p, "ingest: apply") /\ UNCHANGED <<file, blob>> /\ pc[p] = "ingest: apply"
  BY DEF Apply, At
<1>2. TaskTyped("ingest: apply", task[p]) /\ HasStore(p)
  BY <1>1 DEF Typed
<1>3. task[p] \in ApplyTask /\ Ready(task[p]) /\ task[p].req \in Indexing
  BY <1>2, TaskAt
<1>4. SoundStore(Store(p)) /\ Store(p) = srv.stores[task[p].req.bucket]
  BY <1>1, <1>2 DEF HasStore, Store, Ingesting
<1>5. "ingest: apply" \in Ingesting
  BY DEF Ingesting
<1>6. srv # NULL /\ MayAct(p) /\ UNCHANGED <<use, restarts>>
  BY <1>1, <1>5, AtActs, StageLabels
<1>7. \E new \in NewStores(Store(p), task[p]) :
        /\ srv' = [srv EXCEPT !.stores[task[p].req.bucket] = new]
        /\ \/ End(p)
           \/ /\ task[p].req.kind # "restore"
              /\ Goto(p, "ingest: save") /\ Set(p, [req |-> task[p].req, content |-> task[p].content])
  <2>1. PICK new \in NewStores(Store(p), task[p]) :
          /\ Keep(p, new)
          /\ IF task[p].req.kind = "restore" \/ Overlong(new) THEN End(p)
             ELSE Goto(p, "ingest: save") /\ Set(p, [req |-> task[p].req, content |-> task[p].content])
    BY DEF Apply, NewStores
  <2> QED BY <2>1 DEF Keep
<1> QED BY <1>1, <1>3, <1>4, <1>6, <1>7, BucketOf

\* What they hold: the documents there were, or those and the one that was asked for.
LEMMA NewStoreSound ==
  ASSUME NEW st, SoundStore(st), NEW t \in ApplyTask, Ready(t), NEW new \in NewStores(st, t)
  PROVE  /\ SoundStore(new) /\ new.embedder = st.embedder
         /\ \/ new = st
            \/ /\ new.dim = DimOf(t.chunks)
               /\ new.docs[t.req.doc] # NULL /\ new.docs[t.req.doc].content = t.content
               /\ Alike(new.docs[t.req.doc].chunks, t.chunks, new.dim)
               /\ \A d \in Docs \ {t.req.doc} :
                    \/ new.docs[d] = NULL
                    \/ /\ st.docs[d] # NULL /\ st.dim = new.dim
                       /\ Alike(new.docs[d].chunks, st.docs[d].chunks, new.dim)
<1>1. t.req.doc \in Docs /\ Sound(t.chunks) /\ (Whole(t.req) => Flat(t.chunks))
  BY DocumentsAssumption DEF ApplyTask, Indexing, Ready
<1>2. CASE Whole(t.req)
  <2> DEFINE doc == [content |-> t.content, chunks |-> t.chunks]
  <2>1. new = Built(st, t)
    BY <1>2 DEF NewStores
  <2>2. doc.content = t.content /\ doc.chunks = t.chunks /\ doc # NULL
    BY NullAssumption DEF ApplyTask, Document
  <2>3. /\ SoundStore(new) /\ new.embedder = st.embedder /\ new.docs[t.req.doc] = doc
        /\ \A d \in Docs \ {t.req.doc} : new.docs[d] = NULL
        /\ new.dim = DimOf(t.chunks)
    BY <1>1, <1>2, <2>1, BuiltSound
  <2> HIDE DEF doc
  <2> QED BY <2>2, <2>3, <1>1, AlikeSelf
<1>3. CASE ~Whole(t.req)
  <2>1. new \in applyPrepared(st, t)
    BY <1>3 DEF NewStores
  <2> QED BY <2>1, <1>1, AppliedSound DEF AsTheyWere
<1> QED BY <1>2, <1>3

LEMMA Applying ==
  ASSUME Typed, NEW p \in Clients, Apply(p)
  PROVE  QuietStep(p)
<1> DEFINE r == task[p].req
           c == task[p].content
           st == Store(p)
<1>1. /\ srv # NULL /\ MayAct(p) /\ UNCHANGED <<use, restarts, file, blob>> /\ pc[p] = "ingest: apply"
      /\ task[p] \in ApplyTask /\ Ready(task[p]) /\ r \in Indexing
      /\ SoundStore(st) /\ st = srv.stores[r.bucket] /\ r.bucket \in Buckets
  BY ApplyOutcome
<1>2. PICK new \in NewStores(st, task[p]) :
        /\ srv' = [srv EXCEPT !.stores[r.bucket] = new]
        /\ \/ End(p)
           \/ /\ r.kind # "restore"
              /\ Goto(p, "ingest: save") /\ Set(p, [req |-> r, content |-> c])
  BY ApplyOutcome
<1>3. c \in Contents /\ r.doc \in Docs
  BY <1>1, BucketOf DEF ApplyTask
<1>4. /\ SoundStore(new) /\ new.embedder = st.embedder
      /\ \/ new = st
         \/ /\ new.dim = DimOf(task[p].chunks)
            /\ Alike(new.docs[r.doc].chunks, task[p].chunks, new.dim)
            /\ \A d \in Docs \ {r.doc} :
                 \/ new.docs[d] = NULL
                 \/ /\ st.docs[d] # NULL /\ st.dim = new.dim
                    /\ Alike(new.docs[d].chunks, st.docs[d].chunks, new.dim)
  BY <1>1, <1>2, NewStoreSound
<1> HIDE DEF r, c, st
<1>5. /\ srv' \in Server /\ SameSettings
      /\ srv'.stores[r.bucket] = new /\ \A b \in Buckets \ {r.bucket} : srv'.stores[b] = srv.stores[b]
  BY <1>1, <1>2, <1>4, StoreSet
<1>6. ASSUME NEW b \in Buckets PROVE StoreStep(p, b)
  <2>1. CASE b = r.bucket /\ new # st
    <3>1. srv.stores[b] # NULL /\ srv.stores[b] = st /\ srv'.stores[b] = new
      BY <2>1, <1>1, <1>5, NullIsNone DEF SoundStore
    <3>2. ASSUME NEW d \in Docs PROVE DocStep(p, b, d)
      <4>1. CASE d = r.doc
        <5>1. PutDoc(p, b, d)
          BY <4>1, <3>1, <2>1, <1>1, <1>4 DEF PutDoc, r
        <5> QED BY <5>1 DEF DocStep
      <4>2. CASE d # r.doc
        BY <4>2, <3>1, <2>1, <1>4 DEF DocStep, KeptDoc
      <4> QED BY <4>1, <4>2
    <3> QED BY <3>1, <3>2, <1>4 DEF StoreStep
  <2>2. CASE b # r.bucket \/ new = st
    BY <2>2, <1>1, <1>5 DEF StoreStep
  <2> QED BY <2>1, <2>2
<1>7. /\ DOMAIN pc' = Clients /\ DOMAIN task' = Clients /\ Others(p)
      /\ TaskTyped(pc'[p], task'[p]) /\ HasStore(p)' /\ pc'[p] \notin Editing
  <2>1. CASE End(p)
    BY <2>1, <1>1, Ended
  <2>2. CASE r.kind # "restore" /\ Goto(p, "ingest: save") /\ Set(p, [req |-> r, content |-> c])
    <3> DEFINE t == [req |-> r, content |-> c]
    <3>1. t.req = r /\ t.content = c /\ Goto(p, "ingest: save") /\ Set(p, t)
      BY <2>2
    <3>2. r \in Plainly
      BY <2>2, <1>1 DEF Indexing, Plainly
    <3> HIDE DEF t
    <3>3. TaskTyped("ingest: save", t)
      BY <3>1, <3>2, <1>1, <1>3, TaskAt
    <3>4. DOMAIN pc' = Clients /\ DOMAIN task' = Clients /\ Others(p) /\ pc'[p] = "ingest: save" /\ task'[p] = t
      BY <3>1, Moved
    <3>5. pc'[p] = "ingest: save" /\ task'[p] = t
      BY <3>4
    <3>6. HasStore(p)'
      BY <3>1, <3>5, <1>4, <1>5 DEF HasStore, Store
    <3>7. pc'[p] \notin Editing
      BY <3>5, StageLabels DEF Ingesting
    <3> QED BY <3>3, <3>4, <3>5, <3>6, <3>7
  <2> QED BY <2>1, <2>2, <1>2
<1>8. file' = file /\ file' \in Settled \cup {NULL, Torn} /\ Saved(blob')
  BY <1>1 DEF Typed
<1>9. pc[p] \notin Editing
  BY <1>1, StageLabels DEF Ingesting
<1> QED BY <1>1, <1>5, <1>6, <1>7, <1>8, <1>9 DEF QuietStep, ClientStep

LEMMA Saving ==
  ASSUME Typed, NEW p \in Clients, Save(p)
  PROVE  QuietStep(p)
<1> DEFINE b == task[p].req.bucket
           s == Snapshot(Store(p))
<1>1. /\ At(p, "ingest: save") /\ End(p) /\ UNCHANGED <<srv, file>> /\ pc[p] = "ingest: save"
      /\ blob' = [blob EXCEPT ![b] = s] \/ UNCHANGED blob
  BY DEF Save, At
<1>2. TaskTyped("ingest: save", task[p]) /\ HasStore(p)
  BY <1>1 DEF Typed
<1>3. b \in Buckets /\ SoundStore(Store(p))
  BY <1>1, <1>2, TaskAt, BucketOf DEF HasStore, Ingesting
<1>4. SoundSnapshot(s)
  BY <1>3, SnapshotSound
<1> HIDE DEF b, s
<1>5. Saved(blob)
  BY DEF Typed
<1>6. Saved(blob')
  BY <1>1, <1>3, <1>4, <1>5 DEF Saved, SoundSnapshot
<1>7. "ingest: save" \in Ingesting
  BY DEF Ingesting
<1>8. srv # NULL /\ MayAct(p) /\ UNCHANGED <<use, restarts>> /\ pc[p] \notin Editing
  BY <1>1, <1>7, AtActs, StageLabels
<1>9. srv' \in Server /\ SameSettings /\ file' = file /\ file' \in Settled \cup {NULL, Torn}
  BY <1>1, <1>8 DEF Typed, SameSettings
<1>10. \A c \in Buckets : StoreStep(p, c)
  BY <1>1 DEF StoreStep
<1> QED BY <1>1, <1>6, <1>8, <1>9, <1>10, Ended DEF QuietStep, ClientStep

LEMMA IngestStep ==
  ASSUME Typed, NEW p \in Clients, Ingest(p)
  PROVE  QuietStep(p)
  BY TextReceived, RestoreReceived, Transforming, Situating, Embeds, Applying, Saving DEF Ingest

-----------------------------------------------------------------------------
(* Questions.                                                               *)

Talking == {"chat: rewrite", "chat: split", "chat: hops", "chat: rank", "chat: expand", "chat: verify"}

LEMMA TalkLabels ==
  /\ \A l \in Talking \cup {"idle"} : l \notin Editing /\ l \notin Ingesting
  /\ \A l \in Talking : l # "idle"
  BY DEF Talking, Editing, Pending, Ingesting

LEMMA NothingInHand ==
  ASSUME NEW l, l \notin Editing, l \notin Ingesting, NEW t
  PROVE  TaskTyped(l, t)
  BY DEF TaskTyped, Ingesting

\* A step of an answer: it leaves the server alone and goes on, or ends.
LEMMA Talked ==
  ASSUME Typed, NEW p \in Clients, NEW l \in Talking, At(p, l), UNCHANGED serverVars,
         DOMAIN pc' = Clients, DOMAIN task' = Clients, Others(p), pc'[p] \in Talking \cup {"idle"}
  PROVE  QuietStep(p) /\ pc'[p] \notin Ingesting
<1>1. l # "idle" /\ l \notin Editing /\ pc'[p] \notin Editing /\ pc'[p] \notin Ingesting
  BY TalkLabels
<1>2. /\ srv # NULL /\ MayAct(p) /\ UNCHANGED <<use, restarts>> /\ UNCHANGED <<srv, file, blob>>
      /\ pc[p] \notin Editing
  BY <1>1, AtActs DEF serverVars
<1>3. TaskTyped(pc'[p], task'[p]) /\ HasStore(p)'
  BY <1>1, NothingInHand DEF HasStore
<1> QED BY <1>1, <1>2, <1>3, StillStep

LEMMA TalkedOn ==
  ASSUME Typed, NEW p \in Clients, NEW l \in Talking, At(p, l), UNCHANGED serverVars,
         \/ End(p)
         \/ \E m \in Talking : \E t : Goto(p, m) /\ Set(p, t)
         \/ \E m \in Talking : Goto(p, m) /\ UNCHANGED task
         \/ \E t : Set(p, t) /\ UNCHANGED pc
  PROVE  QuietStep(p) /\ pc'[p] \notin Ingesting
<1>1. DOMAIN pc' = Clients /\ DOMAIN task' = Clients /\ Others(p) /\ pc'[p] \in Talking \cup {"idle"}
  <2>1. CASE End(p)
    BY <2>1, Ended
  <2>2. CASE \E m \in Talking : \E t : Goto(p, m) /\ Set(p, t)
    BY <2>2, Moved
  <2>3. CASE \E m \in Talking : Goto(p, m) /\ UNCHANGED task
    BY <2>3 DEF Typed, Goto, Others
  <2>4. CASE \E t : Set(p, t) /\ UNCHANGED pc
    BY <2>4 DEF Typed, Set, Others, At
  <2> QED BY <2>1, <2>2, <2>3, <2>4
<1> QED BY <1>1, Talked

\* Every client is let go of with the server.
Crashed ==
  /\ srv' = NULL /\ pc' = [q \in Clients |-> "idle"] /\ task' = [q \in Clients |-> NULL]
  /\ UNCHANGED <<use, restarts, file, blob>>

LEMMA AskReceived ==
  ASSUME Typed, NEW p \in Clients, NEW r \in Requests,
         ChatReceive(p, r) \/ CompletionReceive(p, r) \/ QueryReceive(p, r)
  PROVE  QuietStep(p) /\ pc'[p] \notin Ingesting
<1>1. /\ srv # NULL /\ MayAct(p) /\ pc[p] = "idle" /\ pc[p] \notin Editing /\ UNCHANGED <<use, restarts>>
      /\ r.kind # "config"
  BY SendsActs DEF ChatReceive, CompletionReceive, QueryReceive
<1>2. r.bucket \in Buckets
  BY <1>1, DocumentsAssumption
<1>3. \/ UNCHANGED <<serverVars, pc, task>>
      \/ \E l \in Talking : Asked(p, r, l)
  BY DEF ChatReceive, CompletionReceive, QueryReceive, Talking
<1>4. CASE UNCHANGED <<serverVars, pc, task>>
  BY <1>1, <1>4, Stayed, StillStep, TalkLabels DEF serverVars
<1>5. CASE \E l \in Talking : Asked(p, r, l)
  <2>1. PICK l \in Talking : Asked(p, r, l)
    BY <1>5
  <2> DEFINE st == GetOrCreate(r.bucket)
  <2>2. /\ srv' = [srv EXCEPT !.stores[r.bucket] = st]
        /\ UNCHANGED <<file, blob>> /\ Goto(p, l)
        /\ \E t : Set(p, t)
    BY <2>1 DEF Asked
  <2>3. /\ SoundStore(st)
        /\ srv.stores[r.bucket] # NULL => st = srv.stores[r.bucket]
        /\ srv.stores[r.bucket] = NULL => AsConfigured(st) /\ \A d \in Docs : st.docs[d] = NULL
    BY <1>1, <1>2, GetOrCreateSound
  <2> HIDE DEF st
  <2>4. DOMAIN pc' = Clients /\ DOMAIN task' = Clients /\ Others(p) /\ pc'[p] = l
    BY <2>2, Moved
  <2>5. pc'[p] \notin Editing /\ pc'[p] \notin Ingesting
    BY <2>4, TalkLabels
  <2>6. TaskTyped(pc'[p], task'[p])
    BY <2>5, NothingInHand
  <2> QED BY <1>1, <1>2, <2>2, <2>3, <2>4, <2>5, <2>6, SetStep
<1> QED BY <1>3, <1>4, <1>5

LEMMA HopStep ==
  ASSUME Typed, NEW p \in Clients, NEW i \in 1..5, Hop(p, i)
  PROVE  \/ QuietStep(p) /\ pc'[p] \notin Ingesting
         \/ srv # NULL /\ Crashed
<1>1. At(p, "chat: hops") /\ UNCHANGED <<file, blob>> /\ "chat: hops" \in Talking
  BY DEF Hop, Talking
<1>2. \/ \E t : Set(p, t) /\ UNCHANGED <<srv, pc>>
      \/ Recovered(p)
      \/ Crash
  BY DEF Hop
<1>3. CASE \E t : Set(p, t) /\ UNCHANGED <<srv, pc>>
  BY <1>1, <1>3, TalkedOn DEF serverVars
<1>4. CASE Recovered(p)
  BY <1>1, <1>4, TalkedOn DEF Recovered, serverVars
<1>5. CASE Crash
  BY <1>1, <1>5 DEF Crash, Crashed, At
<1> QED BY <1>2, <1>3, <1>4, <1>5

LEMMA ChatStep ==
  ASSUME Typed, NEW p \in Clients, Chat(p)
  PROVE  \/ QuietStep(p) /\ pc'[p] \notin Ingesting
         \/ srv # NULL /\ Crashed
<1>1. ASSUME \E r \in Requests : ChatReceive(p, r) \/ CompletionReceive(p, r) \/ QueryReceive(p, r)
      PROVE  QuietStep(p) /\ pc'[p] \notin Ingesting
  BY <1>1, AskReceived
<1>2. ASSUME Rewrite(p) PROVE QuietStep(p) /\ pc'[p] \notin Ingesting
  <2>1. \E m \in Talking : \E t : Goto(p, m) /\ Set(p, t)
    BY <1>2 DEF Rewrite, Talking
  <2> QED BY <2>1, <1>2, TalkedOn DEF Rewrite, Talking
<1>3. ASSUME Split(p) PROVE QuietStep(p) /\ pc'[p] \notin Ingesting
  <2>1. \E m \in Talking : \E t : Goto(p, m) /\ Set(p, t)
    BY <1>3 DEF Split, Talking
  <2> QED BY <2>1, <1>3, TalkedOn DEF Split, Talking
<1>4. ASSUME Merge(p) PROVE QuietStep(p) /\ pc'[p] \notin Ingesting
  <2>1. End(p) \/ \E m \in Talking : \E t : Goto(p, m) /\ Set(p, t)
    BY <1>4 DEF Merge, Talking
  <2> QED BY <2>1, <1>4, TalkedOn DEF Merge, Talking
<1>5. ASSUME Rank(p) PROVE QuietStep(p) /\ pc'[p] \notin Ingesting
  <2>1. End(p) \/ \E m \in Talking : \E t : Goto(p, m) /\ Set(p, t)
    BY <1>5 DEF Rank, Talking
  <2> QED BY <2>1, <1>5, TalkedOn DEF Rank, Talking
<1>6. ASSUME Expand(p) PROVE QuietStep(p) /\ pc'[p] \notin Ingesting
  <2>1. \E t : Set(p, t) /\ UNCHANGED pc
    BY <1>6 DEF Expand
  <2> QED BY <2>1, <1>6, TalkedOn DEF Expand, Talking
<1>7. ASSUME Answer(p) \/ Complete(p) \/ Verify(p) PROVE QuietStep(p) /\ pc'[p] \notin Ingesting
  <2>1. End(p) \/ \E m \in Talking : Goto(p, m) /\ UNCHANGED task
    BY <1>7 DEF Answer, Complete, Verify, Talking
  <2>2. \E l \in Talking : At(p, l) /\ UNCHANGED serverVars
    BY <1>7 DEF Answer, Complete, Verify, Prompted, Talking
  <2> QED BY <2>1, <2>2, TalkedOn
<1> QED BY <1>1, <1>2, <1>3, <1>4, <1>5, <1>6, <1>7, HopStep DEF Chat

-----------------------------------------------------------------------------
(* Requests that edit the settings, and the server's own steps.             *)

LEMMA PostReceived ==
  ASSUME Typed, NEW p \in Clients, NEW r \in Requests, PostReceive(p, r)
  PROVE  /\ ClientStep(p) /\ SameSettings /\ file' = file /\ pc[p] = "idle"
         /\ \/ pc'[p] = "idle"
            \/ /\ pc'[p] = "post: backend" /\ r \in Edits
               /\ task'[p].req = r /\ task'[p].in = Decoded(srv.cfg, r.fields)
<1> DEFINE in == Decoded(srv.cfg, r.fields)
           t == [req |-> r, in |-> in]
<1>1. /\ srv # NULL /\ MayAct(p) /\ pc[p] = "idle" /\ pc[p] \notin Editing /\ UNCHANGED <<use, restarts>>
      /\ UNCHANGED <<srv, file, blob>> /\ r.kind = "config"
      /\ IF validateConfig(in) THEN Goto(p, "post: backend") /\ Set(p, t) ELSE UNCHANGED <<pc, task>>
  BY SendsActs DEF PostReceive, serverVars
<1>2. srv.cfg \in Configuration
  BY <1>1 DEF Typed, Server
<1>3. in \in Configuration
  BY <1>1, <1>2, DecodedType
<1>4. t.req = r /\ t.in = in
  OBVIOUS
<1> HIDE DEF in, t
<1>5. SameSettings /\ srv' \in Server /\ (\A b \in Buckets : StoreStep(p, b)) /\ Saved(blob')
      /\ file' = file /\ file' \in Settled \cup {NULL, Torn}
  BY <1>1 DEF SameSettings, Typed, StoreStep
<1>6. CASE validateConfig(in)
  <2>1. DOMAIN pc' = Clients /\ DOMAIN task' = Clients /\ Others(p) /\ pc'[p] = "post: backend" /\ task'[p] = t
    BY <1>1, <1>6, Moved
  <2>2. pc'[p] = "post: backend" /\ task'[p] = t /\ "post: backend" \notin Ingesting
    BY <2>1 DEF Ingesting
  <2>3. r \in Edits /\ in \in Settled
    BY <1>1, <1>3, <1>6 DEF Edits, Settled
  <2>4. TaskTyped(pc'[p], task'[p]) /\ HasStore(p)'
    BY <2>2, <2>3, <1>4 DEF TaskTyped, HasStore, Ingesting
  <2>5. ClientStep(p)
    BY <1>1, <1>5, <2>1, <2>4 DEF ClientStep
  <2> QED BY <1>1, <1>4, <1>5, <2>2, <2>3, <2>5 DEF in
<1>7. CASE ~validateConfig(in)
  <2>1. UNCHANGED <<pc, task>>
    BY <1>1, <1>7
  <2>2. ClientStep(p) /\ pc'[p] = "idle"
    BY <1>1, <1>5, <2>1, Stayed DEF ClientStep
  <2> QED BY <1>1, <1>5, <2>2
<1> QED BY <1>6, <1>7

LEMMA SettledChunking ==
  ASSUME NEW c \in Settled \cup {Flags}
  PROVE  c \in Configuration /\ ChunkConfig(c) \in Chunkings
<1>1. c \in Configuration /\ c.chunk \in Strategies \cup {Flags.chunk}
  BY ConfigurationAssumption DEF Settled, validateConfig
<1>2. c.words \in Sizes
  BY <1>1 DEF Configuration
<1> QED BY <1>1, <1>2 DEF ChunkConfig, Chunkings

\* What a request that edits the settings has in hand.
LEMMA EditInHand ==
  ASSUME Typed, NEW p \in Clients, pc[p] \in Editing
  PROVE  /\ task[p].req \in Edits /\ task[p].in \in Settled /\ task[p].in \in Configuration /\ srv # NULL
         /\ GenEndpoint(task[p].in) \in Endpoint /\ Embedder(task[p].in) \in Embedders
         /\ ChunkConfig(task[p].in) \in Chunkings /\ task[p].in.genModel \in STRING /\ task[p].in.embedModel \in DOMAIN Dim
<1>1. TaskTyped(pc[p], task[p]) /\ pc[p] # "idle"
  BY DEF Typed, Editing, Pending
<1>2. task[p].req \in Edits /\ task[p].in \in Settled
  BY <1>1 DEF TaskTyped
<1>3. srv # NULL
  BY <1>1 DEF Typed
<1>4. task[p].in \in Configuration /\ ChunkConfig(task[p].in) \in Chunkings
  BY <1>2, SettledChunking DEF Settled
<1> QED BY <1>2, <1>3, <1>4, EndpointType DEF Configuration

\* A step that edits one part of what the server runs with, or its file.
LEMMA EditStep ==
  ASSUME Typed, NEW p \in Clients, NEW l \in Editing, At(p, l), UNCHANGED blob,
         srv' \in Server, srv'.stores = srv.stores, file' \in Settled \cup {NULL, Torn},
         End(p) \/ \E m \in Editing : Goto(p, m) /\ UNCHANGED task
  PROVE  ClientStep(p) /\ pc'[p] \notin Ingesting
<1>1. srv # NULL /\ MayAct(p) /\ UNCHANGED <<use, restarts>> /\ pc[p] = l
  BY DEF At, MayAct, Editing, Pending
<1>2. \A b \in Buckets : StoreStep(p, b)
  BY DEF StoreStep
<1>3. Saved(blob')
  BY DEF Typed
<1>4. CASE End(p)
  BY <1>1, <1>2, <1>3, <1>4, Ended, TalkLabels DEF ClientStep
<1>5. CASE \E m \in Editing : Goto(p, m) /\ UNCHANGED task
  <2>1. PICK m \in Editing : Goto(p, m) /\ UNCHANGED task
    BY <1>5
  <2>2. DOMAIN pc' = Clients /\ DOMAIN task' = Clients /\ Others(p) /\ pc'[p] = m /\ task'[p] = task[p]
    BY <2>1 DEF Typed, Goto, Others
  <2>3. m \notin Ingesting
    BY StageLabels
  <2>4. task[p].req \in Edits /\ task[p].in \in Settled
    BY <1>1, EditInHand
  <2>5. TaskTyped(pc'[p], task'[p]) /\ HasStore(p)'
    BY <2>2, <2>3, <2>4 DEF TaskTyped, HasStore, Ingesting
  <2> QED BY <1>1, <1>2, <1>3, <2>2, <2>3, <2>5 DEF ClientStep
<1> QED BY <1>4, <1>5

\* The writes of such a request, one by one.
Writes(p) == PostBackend(p) \/ PostModels(p) \/ PostChunking(p) \/ PostEmbedder(p) \/ PostConfig(p) \/ PostOpen(p) \/ PostWrite(p)

LEMMA WriteStep ==
  ASSUME Typed, NEW p \in Clients, Writes(p)
  PROVE  ClientStep(p) /\ pc'[p] \notin Ingesting /\ pc[p] \in Editing /\ srv \in Server
<1>1. \E l \in Editing : At(p, l) /\ pc[p] = l
  BY DEF Writes, PostBackend, PostModels, PostChunking, PostEmbedder, PostConfig, PostOpen, PostWrite, At, Editing, Pending
<1>2. PICK l \in Editing : At(p, l) /\ pc[p] = l
  BY <1>1
<1>3. srv \in Server
  BY <1>2, EditInHand DEF Typed
<1> DEFINE in == task[p].in
<1>4. /\ in \in Settled /\ in \in Configuration /\ GenEndpoint(in) \in Endpoint /\ Embedder(in) \in Embedders
      /\ ChunkConfig(in) \in Chunkings /\ in.genModel \in STRING /\ in.embedModel \in DOMAIN Dim
  BY <1>2, EditInHand
<1>5. /\ UNCHANGED blob
      /\ End(p) \/ \E m \in Editing : Goto(p, m) /\ UNCHANGED task
  BY DEF Writes, PostBackend, PostModels, PostChunking, PostEmbedder, PostConfig, PostOpen, PostWrite, Editing, Pending
<1>6. srv' \in Server /\ srv'.stores = srv.stores
  <2>1. \/ srv' = [srv EXCEPT !.gen = GenEndpoint(in)]
        \/ srv' = [srv EXCEPT !.genModel = in.genModel, !.embedModel = in.embedModel]
        \/ srv' = [srv EXCEPT !.chunk = ChunkConfig(in)]
        \/ srv' = [srv EXCEPT !.embedder = Embedder(in)]
        \/ srv' = [srv EXCEPT !.cfg = in]
        \/ srv' = srv
    BY DEF Writes, PostBackend, PostModels, PostChunking, PostEmbedder, PostConfig, PostOpen, PostWrite
  <2> DEFINE k == ChunkConfig(in)
             g == GenEndpoint(in)
             e == Embedder(in)
  <2>2. k \in Chunkings /\ g \in Endpoint /\ e \in Embedders
    BY <1>4
  <2> HIDE DEF in, k, g, e
  <2>3. srv' \in Server /\ srv'.stores = srv.stores
    <3>1. \/ srv' = [srv EXCEPT !.gen = g]
          \/ srv' = [srv EXCEPT !.genModel = in.genModel, !.embedModel = in.embedModel]
          \/ srv' = [srv EXCEPT !.chunk = k]
          \/ srv' = [srv EXCEPT !.embedder = e]
          \/ srv' = [srv EXCEPT !.cfg = in]
          \/ srv' = srv
      BY <2>1 DEF k, g, e
    <3> QED BY <3>1, <2>2, <1>3, <1>4 DEF Server
  <2> QED BY <2>3
<1>7. file' \in Settled \cup {NULL, Torn}
  <2>1. file' = file \/ file' \in {in, Torn}
    BY DEF Writes, PostBackend, PostModels, PostChunking, PostEmbedder, PostConfig, PostOpen, PostWrite
  <2> QED BY <2>1, <1>4 DEF Typed
<1> QED BY <1>2, <1>3, <1>5, <1>6, <1>7, EditStep

LEMMA PostCases ==
  ASSUME NEW p, Post(p)
  PROVE  (\E r \in Requests : PostReceive(p, r)) \/ Writes(p)
  BY DEF Post, Writes

LEMMA ClientStepTaken ==
  ASSUME Typed, NEW p \in Clients, Post(p) \/ Ingest(p) \/ Chat(p)
  PROVE  ClientStep(p) \/ (srv # NULL /\ Crashed)
  BY PostCases, PostReceived, WriteStep, IngestStep, ChatStep DEF QuietStep

\* A server runs with the configuration that it is started with.
LEMMA ServedSound ==
  ASSUME NEW c \in Configuration, ChunkConfig(c) \in Chunkings, Saved(blob)
  PROVE  /\ Served(c) \in Server
         /\ \A b \in Buckets : Served(c).stores[b] # NULL => blob[b] # NULL /\ SoundStore(Served(c).stores[b])
         /\ Served(c).cfg = c /\ Served(c).gen = GenEndpoint(c) /\ Served(c).genModel = c.genModel
         /\ Served(c).embedModel = c.embedModel /\ Served(c).chunk = ChunkConfig(c) /\ Served(c).embedder = Embedder(c)
<1> DEFINE stores == [b \in Buckets |-> IF blob[b] = NULL THEN NULL ELSE Load(Embedder(c), blob[b])]
           g == GenEndpoint(c)
           e == Embedder(c)
           k == ChunkConfig(c)
<1>1. g \in Endpoint /\ e \in Embedders /\ k \in Chunkings /\ c.genModel \in STRING /\ c.embedModel \in DOMAIN Dim
  BY EndpointType DEF Configuration
<1>2. ASSUME NEW b \in Buckets PROVE /\ stores[b] \in StoreObject \cup {NULL}
                                     /\ stores[b] # NULL => blob[b] # NULL /\ SoundStore(stores[b])
  <2>1. CASE blob[b] = NULL
    BY <2>1
  <2>2. CASE blob[b] # NULL
    <3>1. SoundSnapshot(blob[b])
      BY <2>2 DEF Saved
    <3>2. SoundStore(Load(e, blob[b]))
      BY <3>1, <1>1, LoadSound
    <3> QED BY <3>2, <2>2 DEF SoundStore
  <2> QED BY <2>1, <2>2
<1>3. stores \in [Buckets -> StoreObject \cup {NULL}]
  BY <1>2
<1>4. Served(c) = [cfg |-> c, gen |-> g, genModel |-> c.genModel, embedModel |-> c.embedModel,
                   chunk |-> k, embedder |-> e, stores |-> stores]
  BY DEF Served
<1> HIDE DEF stores, g, e, k
<1>5. Served(c) \in Server
  BY <1>1, <1>3, <1>4 DEF Server
<1>6. /\ Served(c).cfg = c /\ Served(c).gen = g /\ Served(c).genModel = c.genModel
      /\ Served(c).embedModel = c.embedModel /\ Served(c).chunk = k /\ Served(c).embedder = e
      /\ Served(c).stores = stores
  BY <1>4
<1> QED BY <1>2, <1>5, <1>6 DEF g, e, k

LEMMA LoadConfigType ==
  ASSUME file \in Settled \cup {NULL}
  PROVE  /\ LoadConfig \in Configuration /\ ChunkConfig(LoadConfig) \in Chunkings
         /\ Resolved(Flags) => Resolved(LoadConfig)
<1> DEFINE c == IF file = NULL THEN Flags ELSE file
<1>1. c \in Configuration /\ ChunkConfig(c) \in Chunkings
  BY SettledChunking
<1>2. Resolved(Flags) => Resolved(c)
  BY DEF Settled, validateConfig, Resolved
<1>3. LoadConfig = [c EXCEPT !.genKey = orEnv(@), !.embedKey = orEnv(@)]
  BY DEF LoadConfig
<1> HIDE DEF c
<1>4. orEnv(c.genKey) \in STRING /\ orEnv(c.embedKey) \in STRING
  BY <1>1, ConfigurationAssumption DEF Configuration, orEnv
<1>5. LoadConfig = [c EXCEPT !.genKey = orEnv(c.genKey), !.embedKey = orEnv(c.embedKey)]
  BY <1>1, <1>3 DEF Configuration
<1>6. /\ LoadConfig \in Configuration /\ ChunkConfig(LoadConfig) = ChunkConfig(c) /\ LoadConfig.providers = c.providers
      /\ LoadConfig.genApi = c.genApi /\ LoadConfig.embedApi = c.embedApi
  BY <1>1, <1>4, <1>5 DEF Configuration, ChunkConfig
<1> QED BY <1>1, <1>2, <1>6 DEF Resolved, Names

LEMMA IdleTyped ==
  ASSUME NEW t PROVE TaskTyped("idle", t) /\ "idle" \notin Ingesting /\ "idle" \notin Editing
  BY NothingInHand, TalkLabels

LEMMA TypedInit == Init => Typed /\ OneAtATime
<1> SUFFICES ASSUME Init PROVE Typed /\ OneAtATime
  OBVIOUS
<1>1. /\ use \in Uses /\ restarts = 0 /\ file = NULL /\ blob = [b \in Buckets |-> NULL] /\ srv = Served(LoadConfig)
      /\ pc = [p \in Clients |-> "idle"] /\ task = [p \in Clients |-> NULL]
  BY DEF Init
<1>2. Saved(blob)
  BY <1>1 DEF Saved
<1>3. LoadConfig \in Configuration /\ ChunkConfig(LoadConfig) \in Chunkings
  BY <1>1, LoadConfigType
<1>4. srv \in Server /\ \A b \in Buckets : srv.stores[b] # NULL => SoundStore(srv.stores[b])
  BY <1>1, <1>2, <1>3, ServedSound
<1>5. \A p \in Clients : TaskTyped(pc[p], task[p]) /\ HasStore(p)
  BY <1>1, IdleTyped DEF HasStore
<1> QED BY <1>1, <1>2, <1>4, <1>5 DEF Typed, OneAtATime

\* A step of the server itself, with every client idle before and after.
Restarted ==
  /\ srv = NULL /\ file \in Settled \cup {NULL} /\ srv' = Served(LoadConfig) /\ restarts' = restarts + 1
  /\ UNCHANGED <<use, file, blob, pc, task>>

Removed == srv = NULL /\ file' = NULL /\ UNCHANGED <<use, restarts, srv, blob, pc, task>>

LEMMA ServerSteps ==
  ASSUME Typed, [Next]_vars
  PROVE  \/ srv # NULL /\ Crashed
         \/ Restarted
         \/ Removed
         \/ \E p \in Clients : Post(p) \/ Ingest(p) \/ Chat(p)
         \/ UNCHANGED vars
<1>1. Stop => srv # NULL /\ Crashed
  BY DEF Stop, Crashed
<1>2. Start => Restarted
  BY DEF Start, Restarted, Typed
<1>3. RemoveFile => Removed
  BY DEF RemoveFile, Removed
<1> QED BY <1>1, <1>2, <1>3 DEF Next, SettingsNext, Finished

LEMMA TypedNext ==
  ASSUME Typed, [Next]_vars
  PROVE  Typed'
<1>1. CASE srv # NULL /\ Crashed
  <2>1. \A p \in Clients : TaskTyped(pc'[p], task'[p]) /\ HasStore(p)'
    BY <1>1, IdleTyped DEF Crashed, HasStore
  <2> QED BY <2>1, <1>1 DEF Crashed, Typed
<1>2. CASE Restarted
  <2>1. LoadConfig \in Configuration /\ ChunkConfig(LoadConfig) \in Chunkings
    BY <1>2, LoadConfigType DEF Restarted
  <2>2. srv' \in Server /\ \A b \in Buckets : srv'.stores[b] # NULL => SoundStore(srv'.stores[b])
    BY <1>2, <2>1, ServedSound DEF Restarted, Typed
  <2>3. srv' # NULL /\ pc' = pc /\ task' = task /\ (\A p \in Clients : pc[p] = "idle")
    BY <2>2, <1>2, NullIsNone DEF Restarted, Typed
  <2>4. \A p \in Clients : TaskTyped(pc'[p], task'[p]) /\ HasStore(p)'
    BY <2>3, IdleTyped DEF HasStore
  <2>5. restarts' \in Nat
    BY <1>2 DEF Restarted, Typed
  <2> QED BY <2>2, <2>3, <2>4, <2>5, <1>2 DEF Restarted, Typed
<1>3. CASE Removed
  <2>1. \A p \in Clients : TaskTyped(pc'[p], task'[p]) /\ HasStore(p)'
    BY <1>3 DEF Removed, Typed, HasStore, Store
  <2> QED BY <2>1, <1>3 DEF Removed, Typed
<1>4. CASE \E p \in Clients : Post(p) \/ Ingest(p) \/ Chat(p)
  BY <1>1, <1>4, ClientStepTaken, TypedStep
<1>5. CASE UNCHANGED vars
  BY <1>5 DEF vars, serverVars, Typed, HasStore, Store
<1> QED BY <1>1, <1>2, <1>3, <1>4, <1>5, ServerSteps

-----------------------------------------------------------------------------
(* One request at a time.                                                   *)

LEMMA ActsAlone ==
  ASSUME Typed, OneAtATime, Alone, NEW p \in Clients, MayAct(p)
  PROVE  \A q \in Clients \ {p} : pc[q] = "idle"
<1>1. CASE pc[p] # "idle"
  BY <1>1 DEF OneAtATime
<1>2. CASE pc[p] = "idle"
  <2> DEFINE S == {q \in Clients : pc[q] # "idle"}
  <2>1. IsFiniteSet(S)
    BY SettingsUses, FS_Subset
  <2>2. Cardinality(S) < 1
    BY <1>2 DEF MayAct, Alone
  <2>3. Cardinality(S) \in Nat
    BY <2>1, FS_CardinalityType
  <2> HIDE DEF S
  <2>4. S = {}
    BY <2>1, <2>2, <2>3, FS_EmptySet
  <2> QED BY <2>4 DEF S
<1> QED BY <1>1, <1>2

\* Nobody else is at work, before or after.
LEMMA OthersIdle ==
  ASSUME Typed, OneAtATime, NEW p \in Clients, ClientStep(p), Alone
  PROVE  \A q \in Clients \ {p} : pc[q] = "idle" /\ pc'[q] = "idle" /\ task'[q] = task[q]
  BY ActsAlone DEF ClientStep, Others

LEMMA OneAtATimeNext ==
  ASSUME Typed, OneAtATime, [Next]_vars
  PROVE  OneAtATime'
<1>1. CASE srv # NULL /\ Crashed
  BY <1>1 DEF Crashed, OneAtATime
<1>2. CASE UNCHANGED <<use, pc>>
  BY <1>2 DEF OneAtATime, Alone
<1>3. ASSUME NEW p \in Clients, ClientStep(p) PROVE OneAtATime'
  <2>1. Alone' => Alone
    BY <1>3 DEF Alone, ClientStep
  <2> QED BY <2>1, <1>3, OthersIdle DEF OneAtATime
<1> QED BY <1>1, <1>2, <1>3, ServerSteps, ClientStepTaken DEF Restarted, Removed, vars

-----------------------------------------------------------------------------
(* Settings in force.                                                       *)

EditInv == InForce /\ AllResolved /\ DecodedOnto

LEMMA EditInit == Init => EditInv
<1> SUFFICES ASSUME Init PROVE EditInv
  OBVIOUS
<1>1. file = NULL /\ blob = [b \in Buckets |-> NULL] /\ srv = Served(LoadConfig) /\ pc = [p \in Clients |-> "idle"]
  BY DEF Init
<1>2. LoadConfig \in Configuration /\ ChunkConfig(LoadConfig) \in Chunkings /\ (Resolved(Flags) => Resolved(LoadConfig))
  BY <1>1, LoadConfigType
<1>3. Saved(blob)
  BY <1>1 DEF Saved
<1>4. /\ srv.cfg = LoadConfig /\ srv.gen = GenEndpoint(LoadConfig) /\ srv.genModel = LoadConfig.genModel
      /\ srv.embedModel = LoadConfig.embedModel /\ srv.chunk = ChunkConfig(LoadConfig)
      /\ srv.embedder = Embedder(LoadConfig)
  BY <1>1, <1>2, <1>3, ServedSound
<1>5. \A p \in Clients : pc[p] \notin Pending /\ pc[p] \notin PastGen
  BY <1>1 DEF Pending, PastGen
<1> QED BY <1>2, <1>4, <1>5 DEF EditInv, InForce, AllResolved, DecodedOnto, PastModels, PastChunk, PastEmbedder, PastGen

\* A step that neither edits the settings nor is in the middle of that.
LEMMA EditQuiet ==
  ASSUME Typed, EditInv, NEW p \in Clients, ClientStep(p), SameSettings, pc[p] \notin Editing, pc'[p] \notin Editing
  PROVE  EditInv'
<1>1. \A q \in Clients : \/ pc'[q] = pc[q] /\ task'[q] = task[q]
                         \/ pc[q] \notin Editing /\ pc'[q] \notin Editing
  BY DEF ClientStep, Others
<1>2. Pending \subseteq Editing /\ PastGen \subseteq Pending /\ PastModels \subseteq PastGen
      /\ PastChunk \subseteq PastGen /\ PastEmbedder \subseteq PastGen
  BY DEF Editing, Pending, PastGen, PastModels, PastChunk, PastEmbedder
<1>3. \A q \in Clients : \A L \in {Pending, PastGen, PastModels, PastChunk, PastEmbedder} :
        (pc'[q] \in L <=> pc[q] \in L) /\ (pc[q] \in L => task'[q] = task[q])
  BY <1>1, <1>2
<1>4. srv # NULL /\ use' = use /\ srv'.cfg = srv.cfg /\ srv'.gen = srv.gen /\ srv'.genModel = srv.genModel
      /\ srv'.embedModel = srv.embedModel /\ srv'.chunk = srv.chunk /\ srv'.embedder = srv.embedder
  BY DEF ClientStep, SameSettings
<1>5. Alone' <=> Alone
  BY <1>4 DEF Alone
<1>6. InForce'
  BY <1>3, <1>4, <1>5 DEF EditInv, InForce
<1>7. DecodedOnto'
  BY <1>3, <1>4, <1>5 DEF EditInv, DecodedOnto
<1>8. AllResolved'
  BY <1>4 DEF EditInv, AllResolved
<1> QED BY <1>6, <1>7, <1>8 DEF EditInv

LEMMA EditReceived ==
  ASSUME Typed, OneAtATime, EditInv, NEW p \in Clients, NEW r \in Requests, PostReceive(p, r)
  PROVE  EditInv'
<1>1. /\ ClientStep(p) /\ SameSettings /\ pc[p] = "idle"
      /\ \/ pc'[p] = "idle"
         \/ /\ pc'[p] = "post: backend" /\ r \in Edits
            /\ task'[p].req = r /\ task'[p].in = Decoded(srv.cfg, r.fields)
  BY PostReceived
<1>2. CASE pc'[p] = "idle"
  BY <1>1, <1>2, EditQuiet, IdleTyped
<1>3. CASE pc'[p] = "post: backend" /\ task'[p].req = r /\ task'[p].in = Decoded(srv.cfg, r.fields)
  <2>1. srv # NULL /\ use' = use /\ srv'.cfg = srv.cfg /\ srv'.gen = srv.gen /\ srv'.genModel = srv.genModel
        /\ srv'.embedModel = srv.embedModel /\ srv'.chunk = srv.chunk /\ srv'.embedder = srv.embedder
    BY <1>1 DEF ClientStep, SameSettings
  <2>2. Alone' <=> Alone
    BY <2>1 DEF Alone
  <2>3. AllResolved'
    BY <2>1 DEF EditInv, AllResolved
  <2>4. ASSUME Alone PROVE InForce' /\ DecodedOnto'
    <3>1. \A q \in Clients \ {p} : pc[q] = "idle" /\ pc'[q] = "idle"
      BY <1>1, <2>4, OthersIdle
    <3>2. \A q \in Clients : pc[q] = "idle" /\ (q # p => pc'[q] = "idle")
      BY <1>1, <3>1
    <3>3. \A q \in Clients : pc[q] \notin PastGen /\ pc'[q] \notin PastGen
      BY <1>3, <3>2 DEF PastGen
    <3>4. PastModels \subseteq PastGen /\ PastChunk \subseteq PastGen /\ PastEmbedder \subseteq PastGen
      BY DEF PastGen, PastModels, PastChunk, PastEmbedder
    <3>5. InForce'
      BY <2>1, <2>4, <3>3, <3>4 DEF EditInv, InForce
    <3>6. \A q \in Clients : pc'[q] \in Pending => q = p
      BY <3>2 DEF Pending
    <3>7. DecodedOnto'
      BY <2>1, <1>3, <3>6 DEF DecodedOnto
    <3> QED BY <3>5, <3>7
  <2> QED BY <2>2, <2>3, <2>4 DEF EditInv, InForce, DecodedOnto
<1> QED BY <1>1, <1>2, <1>3

LEMMA EditWritten ==
  ASSUME Typed, OneAtATime, EditInv, NEW p \in Clients, Writes(p)
  PROVE  EditInv'
<1> DEFINE in == task[p].in
<1>1. ClientStep(p) /\ pc[p] \in Editing /\ srv \in Server
  BY WriteStep
<1>2. in \in Settled /\ in \in Configuration
  BY <1>1, EditInHand
<1>3. srv # NULL /\ use' = use /\ (Alone' <=> Alone)
  BY <1>1 DEF ClientStep, Alone
<1>4. AllResolved'
  <2>1. \/ srv' = [srv EXCEPT !.gen = GenEndpoint(in)]
        \/ srv' = [srv EXCEPT !.genModel = in.genModel, !.embedModel = in.embedModel]
        \/ srv' = [srv EXCEPT !.chunk = ChunkConfig(in)]
        \/ srv' = [srv EXCEPT !.embedder = Embedder(in)]
        \/ srv' = [srv EXCEPT !.cfg = in]
        \/ srv' = srv
    BY DEF Writes, PostBackend, PostModels, PostChunking, PostEmbedder, PostConfig, PostOpen, PostWrite
  <2> HIDE DEF in
  <2>2. srv'.cfg \in {srv.cfg, in}
    BY <2>1, <1>1 DEF Server
  <2>3. Resolved(in)
    BY <1>2 DEF Settled, validateConfig, Resolved
  <2> QED BY <2>2, <2>3, <1>3 DEF EditInv, AllResolved
<1>5. ASSUME Alone PROVE InForce' /\ DecodedOnto'
  <2>1. \A q \in Clients \ {p} : pc[q] = "idle" /\ pc'[q] = "idle"
    BY <1>1, <1>5, OthersIdle
  <2>2. \A q \in Clients : q # p => pc[q] \notin Pending /\ pc'[q] \notin Pending
    <3>1. "idle" \notin Pending
      BY DEF Pending
    <3> QED BY <2>1, <3>1
  <2>3. PastGen \subseteq Pending /\ PastModels \subseteq PastGen /\ PastChunk \subseteq PastGen
        /\ PastEmbedder \subseteq PastGen
    BY DEF PastGen, PastModels, PastChunk, PastEmbedder, Pending
  \* Only p counts.
  <2>4. InForce' <=>
          /\ IF pc'[p] \in PastGen THEN srv'.gen = GenEndpoint(task'[p].in) ELSE srv'.gen = GenEndpoint(srv'.cfg)
          /\ IF pc'[p] \in PastModels
             THEN srv'.genModel = task'[p].in.genModel /\ srv'.embedModel = task'[p].in.embedModel
             ELSE srv'.genModel = srv'.cfg.genModel /\ srv'.embedModel = srv'.cfg.embedModel
          /\ IF pc'[p] \in PastChunk THEN srv'.chunk = ChunkConfig(task'[p].in)
             ELSE srv'.chunk = ChunkConfig(srv'.cfg)
          /\ IF pc'[p] \in PastEmbedder THEN srv'.embedder = Embedder(task'[p].in)
             ELSE srv'.embedder = Embedder(srv'.cfg)
    <3>1. Alone' /\ srv' # NULL
      BY <1>1, <1>3, <1>5, NullIsNone DEF ClientStep
    <3>2. \A q \in Clients : q # p =>
            pc'[q] \notin PastGen /\ pc'[q] \notin PastModels /\ pc'[q] \notin PastChunk /\ pc'[q] \notin PastEmbedder
      BY <2>2, <2>3
    <3> QED BY <3>1, <3>2 DEF InForce
  <2>5. /\ IF pc[p] \in PastGen THEN srv.gen = GenEndpoint(in) ELSE srv.gen = GenEndpoint(srv.cfg)
        /\ IF pc[p] \in PastModels
           THEN srv.genModel = in.genModel /\ srv.embedModel = in.embedModel
           ELSE srv.genModel = srv.cfg.genModel /\ srv.embedModel = srv.cfg.embedModel
        /\ IF pc[p] \in PastChunk THEN srv.chunk = ChunkConfig(in) ELSE srv.chunk = ChunkConfig(srv.cfg)
        /\ IF pc[p] \in PastEmbedder THEN srv.embedder = Embedder(in) ELSE srv.embedder = Embedder(srv.cfg)
    <3>1. \A q \in Clients : q # p =>
            pc[q] \notin PastGen /\ pc[q] \notin PastModels /\ pc[q] \notin PastChunk /\ pc[q] \notin PastEmbedder
      BY <2>2, <2>3
    <3> QED BY <3>1, <1>3, <1>5 DEF EditInv, InForce
  <2>6. DecodedOnto' <=> (pc'[p] \in Pending => task'[p].in = Decoded(srv'.cfg, task'[p].req.fields))
    <3>1. Alone' /\ srv' # NULL
      BY <1>1, <1>3, <1>5, NullIsNone DEF ClientStep
    <3> QED BY <3>1, <2>2 DEF DecodedOnto
  <2>7. pc[p] \in Pending => in = Decoded(srv.cfg, task[p].req.fields)
    BY <1>3, <1>5 DEF EditInv, DecodedOnto
  <2>8. DOMAIN pc = Clients
    BY DEF Typed
  <2> DEFINE g == GenEndpoint(in)
             e == Embedder(in)
  <2>9. CASE PostBackend(p)
    <3>1. /\ srv' = [srv EXCEPT !.gen = g] /\ pc[p] = "post: backend" /\ pc'[p] = "post: models" /\ task' = task
      BY <2>8, <2>9 DEF PostBackend, At, Goto
    <3> HIDE DEF g
    <3>2. srv'.gen = g /\ srv'.cfg = srv.cfg /\ srv'.genModel = srv.genModel
          /\ srv'.embedModel = srv.embedModel /\ srv'.chunk = srv.chunk /\ srv'.embedder = srv.embedder
      BY <3>1, <1>1 DEF Server
    <3> QED BY <2>4, <2>5, <2>6, <2>7, <3>1, <3>2 DEF PastGen, PastModels, PastChunk, PastEmbedder, Pending, g
  <2>10. CASE PostModels(p)
    <3>1. /\ srv' = [srv EXCEPT !.genModel = in.genModel, !.embedModel = in.embedModel]
          /\ pc[p] = "post: models" /\ pc'[p] = "post: buckets" /\ task' = task
      BY <2>8, <2>10 DEF PostModels, At, Goto
    <3>2. srv'.gen = srv.gen /\ srv'.cfg = srv.cfg /\ srv'.genModel = in.genModel
          /\ srv'.embedModel = in.embedModel /\ srv'.chunk = srv.chunk /\ srv'.embedder = srv.embedder
      BY <3>1, <1>1 DEF Server
    <3> QED BY <2>4, <2>5, <2>6, <2>7, <3>1, <3>2 DEF PastGen, PastModels, PastChunk, PastEmbedder, Pending
  <2>11. CASE PostChunking(p)
    <3>1. /\ srv' = [srv EXCEPT !.chunk = ChunkConfig(in)]
          /\ pc[p] = "post: buckets" /\ pc'[p] = "post: embedder" /\ task' = task
      BY <2>8, <2>11 DEF PostChunking, At, Goto
    <3>2. srv'.gen = srv.gen /\ srv'.cfg = srv.cfg /\ srv'.genModel = srv.genModel
          /\ srv'.embedModel = srv.embedModel /\ srv'.chunk = ChunkConfig(in) /\ srv'.embedder = srv.embedder
      BY <3>1, <1>1 DEF Server
    <3> QED BY <2>4, <2>5, <2>6, <2>7, <3>1, <3>2 DEF PastGen, PastModels, PastChunk, PastEmbedder, Pending
  <2>12. CASE PostEmbedder(p)
    <3>1. /\ srv' = [srv EXCEPT !.embedder = e]
          /\ pc[p] = "post: embedder" /\ pc'[p] = "post: config" /\ task' = task
      BY <2>8, <2>12 DEF PostEmbedder, At, Goto
    <3> HIDE DEF e
    <3>2. srv'.gen = srv.gen /\ srv'.cfg = srv.cfg /\ srv'.genModel = srv.genModel
          /\ srv'.embedModel = srv.embedModel /\ srv'.chunk = srv.chunk /\ srv'.embedder = e
      BY <3>1, <1>1 DEF Server
    <3> QED BY <2>4, <2>5, <2>6, <2>7, <3>1, <3>2 DEF PastGen, PastModels, PastChunk, PastEmbedder, Pending, e
  <2>13. CASE PostConfig(p)
    <3>1. /\ srv' = [srv EXCEPT !.cfg = in]
          /\ pc[p] = "post: config" /\ pc'[p] = "post: open" /\ task' = task
      BY <2>8, <2>13 DEF PostConfig, At, Goto
    <3>2. srv'.gen = srv.gen /\ srv'.cfg = in /\ srv'.genModel = srv.genModel
          /\ srv'.embedModel = srv.embedModel /\ srv'.chunk = srv.chunk /\ srv'.embedder = srv.embedder
      BY <3>1, <1>1 DEF Server
    <3> QED BY <2>4, <2>5, <2>6, <3>1, <3>2 DEF PastGen, PastModels, PastChunk, PastEmbedder, Pending
  <2>14. CASE PostOpen(p) \/ PostWrite(p)
    <3>1. srv' = srv /\ pc[p] \in {"post: open", "post: write"} /\ pc'[p] \in {"post: write", "idle"}
      BY <2>8, <2>14 DEF PostOpen, PostWrite, At, Goto, End
    <3> QED BY <2>4, <2>5, <2>6, <3>1 DEF PastGen, PastModels, PastChunk, PastEmbedder, Pending
  <2> QED BY <2>9, <2>10, <2>11, <2>12, <2>13, <2>14 DEF Writes
<1> QED BY <1>3, <1>4, <1>5 DEF EditInv, InForce, DecodedOnto

LEMMA EditNext ==
  ASSUME Typed, OneAtATime, EditInv, [Next]_vars
  PROVE  EditInv'
<1>1. CASE srv' = NULL
  BY <1>1 DEF EditInv, InForce, AllResolved, DecodedOnto
<1>2. CASE Restarted
  <2>1. LoadConfig \in Configuration /\ ChunkConfig(LoadConfig) \in Chunkings /\ (Resolved(Flags) => Resolved(LoadConfig))
    BY <1>2, LoadConfigType DEF Restarted
  <2>2. /\ srv'.cfg = LoadConfig /\ srv'.gen = GenEndpoint(LoadConfig) /\ srv'.genModel = LoadConfig.genModel
        /\ srv'.embedModel = LoadConfig.embedModel /\ srv'.chunk = ChunkConfig(LoadConfig)
        /\ srv'.embedder = Embedder(LoadConfig)
    BY <1>2, <2>1, ServedSound DEF Restarted, Typed
  <2>3. \A q \in Clients : pc'[q] = "idle"
    BY <1>2 DEF Restarted, Typed
  <2>4. \A q \in Clients : /\ pc'[q] \notin Pending /\ pc'[q] \notin PastGen /\ pc'[q] \notin PastModels
                           /\ pc'[q] \notin PastChunk /\ pc'[q] \notin PastEmbedder
    BY <2>3 DEF Pending, PastGen, PastModels, PastChunk, PastEmbedder
  <2>5. InForce'
    BY <2>2, <2>4 DEF InForce
  <2>6. DecodedOnto' /\ AllResolved'
    BY <2>1, <2>2, <2>4 DEF DecodedOnto, AllResolved
  <2> QED BY <2>5, <2>6 DEF EditInv
<1>3. CASE UNCHANGED vars
  BY <1>3 DEF vars, serverVars, EditInv, InForce, AllResolved, DecodedOnto, Alone
<1>4. ASSUME NEW p \in Clients, Post(p) \/ Ingest(p) \/ Chat(p) PROVE EditInv'
  <2>1. CASE Post(p)
    BY <2>1, PostCases, EditReceived, EditWritten
  <2>2. CASE QuietStep(p)
    BY <2>2, EditQuiet DEF QuietStep
  <2>3. CASE srv # NULL /\ Crashed
    BY <2>3, <1>1 DEF Crashed
  <2> QED BY <1>4, <2>1, <2>2, <2>3, IngestStep, ChatStep
<1> QED BY <1>1, <1>2, <1>3, <1>4, ServerSteps DEF Crashed, Removed

\* Of requests sent one at a time: whenever none is in the middle of editing the settings,
\* the server's backend and default models, and the chunking and the embedder that its
\* manager holds, are those of its settings (server/config.go handlePostConfig,
\* cmd/turbograph cmdServe), if the backends that the flags name are known: the flags are
\* not validated, and fall back to Ollama (main.go:209, 212).  What a bucket that is made
\* then has is the subject of BucketsFollow.
THEOREM SettingsApply == Spec => [](Resolved(Flags) => ConfigTakesEffect)
<1> DEFINE Inv == Typed /\ OneAtATime /\ EditInv
<1>1. Init => Inv
  BY TypedInit, EditInit
<1>2. Inv /\ [Next]_vars => Inv'
  BY TypedNext, OneAtATimeNext, EditNext
<1>3. Inv => (Resolved(Flags) => ConfigTakesEffect)
  <2>1. \A p \in Clients : ~Posting(p) => /\ pc[p] \notin PastGen /\ pc[p] \notin PastModels
                                          /\ pc[p] \notin PastChunk /\ pc[p] \notin PastEmbedder
    BY DEF Posting, PastGen, PastModels, PastChunk, PastEmbedder
  <2> QED BY <2>1 DEF EditInv, InForce, AllResolved, Resolved, ConfigTakesEffect
<1> QED BY <1>1, <1>2, <1>3, PTL DEF Spec

-----------------------------------------------------------------------------
(* Buckets made on first use.                                               *)

BucketFollows(b) ==
  Makes(b) /\ Alone =>
       /\ srv'.stores[b].embedder = Embedder(srv.cfg)
       /\ srv'.stores[b].chunk = IF srv.cfg.words = 0 THEN DefaultChunk ELSE ChunkConfig(srv.cfg)

\* A write of an edit makes no bucket.
LEMMA WritesMakeNone ==
  ASSUME Typed, NEW p \in Clients, Writes(p), srv # NULL
  PROVE  srv'.stores = srv.stores
<1> DEFINE in == task[p].in
           g == GenEndpoint(in)
           e == Embedder(in)
<1>1. srv \in Server
  BY DEF Typed
<1>2. \/ srv' = [srv EXCEPT !.gen = g]
      \/ srv' = [srv EXCEPT !.genModel = in.genModel, !.embedModel = in.embedModel]
      \/ srv' = [srv EXCEPT !.chunk = ChunkConfig(in)]
      \/ srv' = [srv EXCEPT !.embedder = e]
      \/ srv' = [srv EXCEPT !.cfg = in]
      \/ srv' = srv
  BY DEF Writes, PostBackend, PostModels, PostChunking, PostEmbedder, PostConfig, PostOpen, PostWrite
<1> HIDE DEF g, e, in
<1> QED BY <1>1, <1>2 DEF Server

\* A request that makes a bucket finds the settings in force.
LEMMA QuietMakes ==
  ASSUME Typed, OneAtATime, EditInv, NEW p \in Clients, QuietStep(p), NEW b \in Buckets, Makes(b), Alone
  PROVE  BucketFollows(b)
<1>1. ClientStep(p) /\ pc[p] \notin Editing /\ MayAct(p) /\ srv # NULL
  BY DEF QuietStep, ClientStep
<1>2. \A q \in Clients : pc[q] \notin Editing
  <2>1. \A q \in Clients \ {p} : pc[q] = "idle"
    BY <1>1, ActsAlone
  <2>2. "idle" \notin Editing
    BY DEF Editing, Pending
  <2> QED BY <1>1, <2>1, <2>2
<1>3. PastChunk \subseteq Editing /\ PastEmbedder \subseteq Editing
  BY DEF Editing, Pending, PastChunk, PastModels, PastGen, PastEmbedder
<1>4. srv.chunk = ChunkConfig(srv.cfg) /\ srv.embedder = Embedder(srv.cfg)
  BY <1>1, <1>2, <1>3 DEF EditInv, InForce
<1>5. AsConfigured(srv'.stores[b])
  BY <1>1 DEF ClientStep, StoreStep, Makes
<1>6. withDefaults(ChunkConfig(srv.cfg)) = IF srv.cfg.words = 0 THEN DefaultChunk ELSE ChunkConfig(srv.cfg)
  BY DEF withDefaults, ChunkConfig
<1> QED BY <1>4, <1>5, <1>6 DEF BucketFollows, AsConfigured

\* Of requests sent one at a time, one that makes a bucket (rag/manager.go GetOrCreate) gives
\* it the embedder of the settings and, if they set the size of a chunk, their chunking;
\* without a size it has the default chunking, whatever strategy they name (rag/store.go:123).
THEOREM BucketsFollow == Spec => NewBucketsFollow
<1> DEFINE Inv == Typed /\ OneAtATime /\ EditInv
<1>1. Init => Inv
  BY TypedInit, EditInit
<1>2. Inv /\ [Next]_vars => Inv'
  BY TypedNext, OneAtATimeNext, EditNext
<1>3. ASSUME Inv, [Next]_vars, NEW b \in Buckets PROVE BucketFollows(b)
  <2> SUFFICES ASSUME Makes(b), Alone PROVE BucketFollows(b)
    BY DEF BucketFollows
  <2>1. PICK p \in Clients : Post(p) \/ Ingest(p) \/ Chat(p)
    BY <1>3, ServerSteps DEF Crashed, Restarted, Removed, vars, serverVars, Makes
  <2>2. CASE QuietStep(p)
    BY <2>2, <1>3, QuietMakes
  <2>3. CASE Writes(p)
    BY <2>3, <1>3, WritesMakeNone DEF Makes
  <2>4. CASE \E r \in Requests : PostReceive(p, r)
    BY <2>4 DEF PostReceive, serverVars, Makes
  <2>5. CASE Crashed
    BY <2>5 DEF Crashed, Makes
  <2> QED BY <2>1, <2>2, <2>3, <2>4, <2>5, <1>3, PostCases, IngestStep, ChatStep
<1>4. Inv /\ [Next]_vars => [\A b \in Buckets : BucketFollows(b)]_vars
  BY <1>3
<1>5. NewBucketsFollow <=> [][\A b \in Buckets : BucketFollows(b)]_vars
  BY PTL DEF NewBucketsFollow, BucketFollows
<1> QED BY <1>1, <1>2, <1>4, <1>5, PTL DEF Spec

-----------------------------------------------------------------------------
(* Keys.                                                                    *)

KeysKept(p) ==
  srv # NULL /\ pc[p] = "post: config" /\ srv' # NULL /\ srv'.cfg # srv.cfg /\ Alone =>
       LET u == task[p].req.fields
           lists == "providers" \in DOMAIN u
           blank(n) == \E i \in DOMAIN u.providers : u.providers[i].name = n /\ u.providers[i].key = ""
       IN  /\ \A n \in Names(srv.cfg) : ~lists \/ blank(n) =>
                provider(srv'.cfg, n) # NULL /\ provider(srv'.cfg, n).key = provider(srv.cfg, n).key
           /\ \A f \in {"genKey", "embedKey"} : f \notin DOMAIN u \/ u[f] = "" => srv'.cfg[f] = srv.cfg[f]

\* The settings change in one step alone.
LEMMA WhoWrites ==
  ASSUME Typed, [Next]_vars, srv # NULL, srv' # NULL, srv'.cfg # srv.cfg
  PROVE  \E q \in Clients : PostConfig(q)
<1>1. PICK q \in Clients : Post(q) \/ Ingest(q) \/ Chat(q)
  BY ServerSteps DEF Crashed, Restarted, Removed, vars, serverVars
<1>2. ~QuietStep(q) /\ ~Crashed
  BY DEF QuietStep, SameSettings, Crashed
<1>3. Post(q)
  BY <1>1, <1>2, IngestStep, ChatStep
<1>4. Writes(q)
  BY <1>3, PostCases, PostReceived DEF SameSettings
<1>5. srv \in Server
  BY DEF Typed
<1> DEFINE in == task[q].in
           g == GenEndpoint(in)
           e == Embedder(in)
<1>6. \/ PostConfig(q)
      \/ srv' = [srv EXCEPT !.gen = g]
      \/ srv' = [srv EXCEPT !.genModel = in.genModel, !.embedModel = in.embedModel]
      \/ srv' = [srv EXCEPT !.chunk = ChunkConfig(in)]
      \/ srv' = [srv EXCEPT !.embedder = e]
      \/ srv' = srv
  BY <1>4 DEF Writes, PostBackend, PostModels, PostChunking, PostEmbedder, PostOpen, PostWrite
<1> HIDE DEF g, e, in
<1>7. PostConfig(q)
  BY <1>5, <1>6 DEF Server
<1> QED BY <1>7

\* A request that edits the settings keeps every key that it does not replace, of a
\* provider it leaves out with all others or lists with a blank key, and of the two
\* backends (server/config.go:245-281).
THEOREM KeysStay == Spec => KeysAreKept
<1> DEFINE Inv == Typed /\ OneAtATime /\ EditInv
<1>1. Init => Inv
  BY TypedInit, EditInit
<1>2. Inv /\ [Next]_vars => Inv'
  BY TypedNext, OneAtATimeNext, EditNext
<1>3. ASSUME Inv, [Next]_vars, NEW p \in Clients PROVE KeysKept(p)
  <2> SUFFICES ASSUME srv # NULL, pc[p] = "post: config", srv' # NULL, srv'.cfg # srv.cfg, Alone
               PROVE  KeysKept(p)
    BY DEF KeysKept
  <2>1. PICK q \in Clients : PostConfig(q)
    BY <1>3, WhoWrites
  <2>2. q = p
    <3>1. pc[q] = "post: config"
      BY <2>1 DEF PostConfig, At
    <3> QED BY <3>1, <1>3 DEF OneAtATime
  <2> DEFINE r == task[p].req
  <2>3. pc[p] \in Pending /\ pc[p] \in Editing /\ srv \in Server
    BY <1>3 DEF Pending, Editing, Typed
  <2>4. srv'.cfg = task[p].in
    BY <2>1, <2>2, <2>3 DEF PostConfig, Server
  <2>5. task[p].in = Decoded(srv.cfg, r.fields)
    BY <1>3, <2>3 DEF EditInv, DecodedOnto
  <2>6. r \in Requests /\ r.kind = "config" /\ validateConfig(task[p].in)
    BY <1>3, <2>3, EditInHand DEF Edits, Settled
  <2>7. srv.cfg \in Configuration
    BY <2>3 DEF Server
  <2> HIDE DEF r
  <2>8. \A n \in Names(srv.cfg) :
          \/ "providers" \notin DOMAIN r.fields
          \/ \E i \in DOMAIN r.fields.providers : r.fields.providers[i].name = n /\ r.fields.providers[i].key = ""
          => provider(srv'.cfg, n) # NULL /\ provider(srv'.cfg, n).key = provider(srv.cfg, n).key
    BY <2>4, <2>5, <2>6, <2>7, DecodedKeeps
  <2>9. \A f \in {"genKey", "embedKey"} : f \notin DOMAIN r.fields \/ r.fields[f] = "" => srv'.cfg[f] = srv.cfg[f]
    <3>1. r \in Requests /\ r.kind = "config"
      BY <2>6
    <3>2. \A f \in {"genKey", "embedKey"} :
            f \notin DOMAIN r.fields \/ r.fields[f] = "" => Decoded(srv.cfg, r.fields)[f] = srv.cfg[f]
      BY <3>1, <2>7, DecodedType
    <3> QED BY <3>2, <2>4, <2>5
  <2> QED BY <2>8, <2>9 DEF KeysKept, r
<1>4. Inv /\ [Next]_vars => [\A p \in Clients : KeysKept(p)]_vars
  BY <1>3
<1>5. KeysAreKept <=> [][\A p \in Clients : KeysKept(p)]_vars
  BY PTL DEF KeysAreKept, KeysKept
<1> QED BY <1>1, <1>2, <1>4, <1>5, PTL DEF Spec

-----------------------------------------------------------------------------
(* What is indexed, and of what dimension.                                  *)

\* Only an embedding call leaves chunks to be applied.
LEMMA OnlyEmbeds ==
  ASSUME Typed, NEW p \in Clients, Post(p) \/ Ingest(p) \/ Chat(p), pc'[p] = "ingest: apply"
  PROVE  Embed(p)
<1>1. pc'[p] \in Ingesting /\ pc'[p] \notin Editing /\ pc'[p] # "idle"
  BY StageLabels DEF Ingesting
<1>2. CASE Post(p)
  BY <1>1, <1>2, PostCases, PostReceived, WriteStep DEF Editing, Pending
<1>3. CASE Chat(p)
  BY <1>1, <1>3, ChatStep DEF Crashed
<1>4. CASE Ingest(p) /\ ~Embed(p)
  <2>1. ASSUME NEW r \in Requests, IngestReceive(p, r) \/ FilesReceive(p, r) PROVE pc'[p] # "ingest: apply"
    <3>1. pc[p] = "idle" /\ Accept(p, r)
      BY <2>1 DEF IngestReceive, FilesReceive, Sends
    <3> QED BY <3>1, Moved, Stayed DEF Accept
  <2>2. ASSUME NEW r \in Requests, RestoreReceive(p, r) PROVE pc'[p] # "ingest: apply"
    <3>1. pc[p] = "idle"
      BY <2>2 DEF RestoreReceive, Sends
    <3>2. UNCHANGED <<pc, task>> \/ \E t : Goto(p, "ingest: situate") /\ Set(p, t)
      BY <2>2 DEF RestoreReceive
    <3> QED BY <3>1, <3>2, Moved, Stayed
  <2>3. \/ End(p)
        \/ \E l \in Ingesting \ {"ingest: apply"} : \E t : Goto(p, l) /\ Set(p, t)
        \/ \E r \in Requests : IngestReceive(p, r) \/ FilesReceive(p, r) \/ RestoreReceive(p, r)
    <3>1. ASSUME TransformText(p) \/ TransformFiles(p)
          PROVE  End(p) \/ \E l \in {"ingest: situate", "build: situate", "ingest: save"} : \E t : Goto(p, l) /\ Set(p, t)
      BY <3>1 DEF TransformText, TransformFiles
    <3>2. ASSUME Situate(p) PROVE End(p) \/ \E l \in {"ingest: save", "ingest: embed"} : \E t : Goto(p, l) /\ Set(p, t)
      BY <3>2 DEF Situate
    <3>3. ASSUME Apply(p) \/ Save(p) PROVE End(p) \/ \E t : Goto(p, "ingest: save") /\ Set(p, t)
      BY <3>3 DEF Apply, Save
    <3> QED BY <1>4, <3>1, <3>2, <3>3 DEF Ingest, Ingesting
  <2> QED BY <2>1, <2>2, <2>3, Moved, Ended, <1>1
<1> QED BY <1>2, <1>3, <1>4

\* The vectors of a document of a store, or of the chunks at hand.
AllOf(chunks, st) == \A i \in DOMAIN chunks : Fresh(chunks[i].vec, st)

LEMMA AllOfDim ==
  ASSUME NEW chunks \in Seq(Chunk), chunks # <<>>, NEW st, AllOf(chunks, st)
  PROVE  DimOf(chunks) = Dim[st.embedder.model]
<1>1. 1 \in DOMAIN chunks
  BY DimOfFirst
<1> QED BY <1>1 DEF DimOf, AllOf, Fresh

LEMMA AllOfAlike ==
  ASSUME NEW st, NEW old, AllOf(old, st), NEW new, Alike(new, old, Dim[st.embedder.model])
  PROVE  AllOf(new, st)
  BY DEF AllOf, Alike, Fresh

LEMMA MeasuredParts ==
  Measured <=> (restarts = 0 /\ srv # NULL =>
    /\ \A b \in Buckets : srv.stores[b] # NULL =>
         \A d \in Docs : srv.stores[b].docs[d] # NULL => AllOf(srv.stores[b].docs[d].chunks, srv.stores[b])
    /\ \A p \in Clients : pc[p] = "ingest: apply" => AllOf(task[p].chunks, Store(p)))
  BY DEF Measured, AllOf

LEMMA MeasuredClient ==
  ASSUME Typed, Measured, NEW p \in Clients, Post(p) \/ Ingest(p) \/ Chat(p), ClientStep(p)
  PROVE  Measured'
<1> SUFFICES ASSUME restarts = 0 PROVE Measured'
  BY DEF Measured, ClientStep
<1>1. srv # NULL /\ \A b \in Buckets : StoreStep(p, b)
  BY DEF ClientStep
<1>2. \A b \in Buckets : srv.stores[b] # NULL =>
        \A d \in Docs : srv.stores[b].docs[d] # NULL => AllOf(srv.stores[b].docs[d].chunks, srv.stores[b])
  BY <1>1, MeasuredParts
<1>3. \A q \in Clients : pc[q] = "ingest: apply" => AllOf(task[q].chunks, Store(q))
  BY <1>1, MeasuredParts
<1>4. ASSUME NEW b \in Buckets, srv.stores[b] # NULL
      PROVE  srv'.stores[b] # NULL /\ srv'.stores[b].embedder = srv.stores[b].embedder
  <2>1. SoundStore(srv'.stores[b]) => srv'.stores[b] # NULL
    BY NullIsNone DEF SoundStore
  <2> QED BY <2>1, <1>1, <1>4 DEF StoreStep
<1>5. ASSUME NEW b \in Buckets, srv'.stores[b] # NULL, NEW d \in Docs, srv'.stores[b].docs[d] # NULL
      PROVE  AllOf(srv'.stores[b].docs[d].chunks, srv'.stores[b])
  <2>1. CASE srv'.stores[b] = srv.stores[b]
    BY <2>1, <1>2, <1>5
  <2>2. CASE srv.stores[b] = NULL /\ \A x \in Docs : srv'.stores[b].docs[x] = NULL
    BY <2>2, <1>5
  <2>3. CASE srv.stores[b] # NULL /\ KeptDoc(b, d)
    <3> DEFINE st == srv.stores[b]
               chunks == st.docs[d].chunks
    <3>1. st.docs[d] # NULL /\ srv'.stores[b].dim = st.dim /\ Alike(srv'.stores[b].docs[d].chunks, chunks, st.dim)
      BY <2>3 DEF KeptDoc
    <3>2. SoundStore(st) /\ AllOf(chunks, st)
      BY <1>1, <1>2, <2>3, <3>1 DEF Typed
    <3>3. chunks \in Seq(Chunk) /\ chunks # <<>> /\ DimOf(chunks) = st.dim
      BY <3>1, <3>2 DEF SoundStore, SoundDocs, Sound, StoreObject, Document
    <3>4. srv'.stores[b].embedder = st.embedder
      BY <2>3, <1>4
    <3> HIDE DEF chunks, st
    <3>5. AllOf(srv'.stores[b].docs[d].chunks, st)
      BY <3>1, <3>2, <3>3, AllOfDim, AllOfAlike
    <3> QED BY <3>4, <3>5 DEF AllOf, Fresh
  <2>4. CASE srv.stores[b] # NULL /\ PutDoc(p, b, d)
    <3> DEFINE st == srv.stores[b]
               chunks == task[p].chunks
    <3>1. /\ pc[p] = "ingest: apply" /\ task[p].req.bucket = b
          /\ srv'.stores[b].dim = DimOf(chunks) /\ Alike(srv'.stores[b].docs[d].chunks, chunks, DimOf(chunks))
      BY <2>4 DEF PutDoc
    <3>2. st = Store(p) /\ AllOf(chunks, st)
      BY <1>3, <3>1 DEF Store
    <3>3. chunks \in Seq(Chunk) /\ chunks # <<>>
      BY <3>1, TaskAt DEF Typed, ApplyTask, Ready, Sound
    <3>4. srv'.stores[b].embedder = st.embedder
      BY <2>4, <1>4
    <3> HIDE DEF chunks, st
    <3>5. AllOf(srv'.stores[b].docs[d].chunks, st)
      BY <3>1, <3>2, <3>3, AllOfDim, AllOfAlike
    <3> QED BY <3>4, <3>5 DEF AllOf, Fresh
  <2> QED BY <2>1, <2>2, <2>3, <2>4, <1>1, <1>5 DEF StoreStep, DocStep
<1>6. ASSUME NEW q \in Clients, pc'[q] = "ingest: apply" PROVE AllOf(task'[q].chunks, Store(q)')
  <2>1. CASE q # p
    <3>1. pc[q] = "ingest: apply" /\ task'[q] = task[q]
      BY <2>1, <1>6 DEF ClientStep, Others
    <3>2. TaskTyped("ingest: apply", task[q]) /\ HasStore(q)
      BY <3>1 DEF Typed
    <3>3. task[q].req.bucket \in Buckets /\ SoundStore(Store(q))
      BY <3>1, <3>2, TaskAt, BucketOf DEF HasStore, Ingesting
    <3>4. srv.stores[task[q].req.bucket] # NULL
      BY <3>3, NullIsNone DEF SoundStore, Store
    <3>5. srv'.stores[task[q].req.bucket].embedder = srv.stores[task[q].req.bucket].embedder
      BY <3>3, <3>4, <1>4
    <3> QED BY <3>1, <3>5, <1>3 DEF Store, AllOf, Fresh
  <2>2. CASE q = p
    <3> DEFINE st == Store(p)
               new == Embedded(st, task[p].req, task[p].chunks)
               t == [req |-> task[p].req, content |-> task[p].content, chunks |-> new]
    <3>1. Embed(p)
      BY <2>2, <1>6, OnlyEmbeds
    <3>2. /\ UNCHANGED serverVars /\ task[p].req \in Indexing
          /\ task[p].chunks \in Seq(SituatedChunk) \ {<<>>} /\ SoundStore(st) /\ st = srv.stores[task[p].req.bucket]
          /\ End(p) \/ (Set(p, t) /\ Goto(p, "ingest: apply"))
      BY <3>1, EmbedOutcome
    <3>3. task'[p] = t
      <4>1. ~End(p)
        BY <2>2, <1>6, Ended
      <4> HIDE DEF t
      <4> QED BY <3>2, <4>1, Moved
    <3>4. t.req = task[p].req /\ t.chunks = new
      OBVIOUS
    <3>5. \A i \in DOMAIN new : \/ Fresh(new[i].vec, st)
                                \/ \E d \in Docs : /\ st.docs[d] # NULL
                                                   /\ \E j \in DOMAIN st.docs[d].chunks : new[i].vec = st.docs[d].chunks[j].vec
      <4> DEFINE chunks == task[p].chunks
                 r == task[p].req
      <4>1. SoundStore(st) /\ r \in Indexing /\ chunks \in Seq(SituatedChunk) \ {<<>>} /\ new = Embedded(st, r, chunks)
        BY <3>2
      <4> HIDE DEF new, st, chunks, r
      <4> QED BY <4>1, EmbeddedSound
    <3>6. task[p].req.bucket \in Buckets /\ st # NULL
      BY <3>2, BucketOf, NullIsNone DEF SoundStore
    <3>7. \A d \in Docs : st.docs[d] # NULL => AllOf(st.docs[d].chunks, st)
      BY <3>2, <3>6, <1>2
    <3> HIDE DEF new, st
    <3>8. AllOf(new, st)
      BY <3>5, <3>7 DEF AllOf
    <3>9. Store(p)' = st
      <4>1. task'[p].req = task[p].req
        BY <3>3, <3>4
      <4> QED BY <4>1, <3>2 DEF Store, serverVars
    <3> QED BY <3>3, <3>4, <3>8, <3>9, <2>2
  <2> QED BY <2>1, <2>2
<1> QED BY <1>5, <1>6 DEF Measured, AllOf

LEMMA MeasuredInit == Init => Measured
<1> SUFFICES ASSUME Init PROVE Measured
  OBVIOUS
<1>1. restarts = 0 /\ file = NULL /\ blob = [b \in Buckets |-> NULL] /\ srv = Served(LoadConfig) /\ pc = [p \in Clients |-> "idle"]
  BY DEF Init
<1>2. LoadConfig \in Configuration /\ ChunkConfig(LoadConfig) \in Chunkings
  BY <1>1, LoadConfigType
<1>3. Saved(blob)
  BY <1>1 DEF Saved
<1>4. \A b \in Buckets : srv.stores[b] = NULL
  BY <1>1, <1>2, <1>3, ServedSound
<1> QED BY <1>1, <1>4 DEF Measured

LEMMA MeasuredNext ==
  ASSUME Typed, Measured, [Next]_vars
  PROVE  Measured'
<1>1. CASE srv # NULL /\ Crashed
  BY <1>1 DEF Crashed, Measured
<1>2. CASE Restarted
  <2>1. restarts' # 0
    BY <1>2 DEF Restarted, Typed
  <2> QED BY <2>1 DEF Measured
<1>3. CASE Removed
  BY <1>3 DEF Removed, Measured
<1>4. ASSUME NEW p \in Clients, Post(p) \/ Ingest(p) \/ Chat(p) PROVE Measured'
  BY <1>1, <1>4, ClientStepTaken, MeasuredClient
<1>5. CASE UNCHANGED vars
  BY <1>5 DEF vars, serverVars, Measured, Store
<1> QED BY <1>1, <1>2, <1>3, <1>4, <1>5, ServerSteps

-----------------------------------------------------------------------------
(* A request served alone gets what it asked for.                           *)

\* AsAsked, stage by stage.
LEMMA AskedAt ==
  ASSUME NEW st, NEW t
  PROVE  /\ \A l \in {"ingest: transform", "ingest: situate", "build: situate"} :
              AsAsked(l, st, t) <=> (IsPlain(t.req) => st.contextualizer = NULL)
         /\ AsAsked("ingest: embed", st, t) <=>
              /\ IsPlain(t.req) => st.contextualizer = NULL /\ NoContext(t.chunks)
              /\ Whole(t.req) \/ ~Held(st, t.content)
         /\ AsAsked("ingest: apply", st, t) <=>
              /\ IsPlain(t.req) => NoContext(t.chunks)
              /\ Whole(t.req) \/ ~Held(st, t.content)
              /\ OneDimension(st) => DimOf(t.chunks) = st.dim
         /\ AsAsked("ingest: save", st, t) <=> Added(st, t)
<1>1. /\ {"ingest: transform", "ingest: situate", "build: situate", "ingest: embed"} \subseteq
           Ingesting \ {"ingest: apply", "ingest: save"}
      /\ Ingesting \ {"ingest: apply", "ingest: save"} \subseteq
           {"ingest: transform", "ingest: situate", "build: situate", "ingest: embed"}
  BY DEF Ingesting
<1>2. \A l \in {"ingest: transform", "ingest: situate", "build: situate"} :
        AsAsked(l, st, t) <=> (IsPlain(t.req) => st.contextualizer = NULL)
  BY <1>1 DEF AsAsked
<1>3. AsAsked("ingest: embed", st, t) <=>
        /\ IsPlain(t.req) => st.contextualizer = NULL /\ NoContext(t.chunks)
        /\ Whole(t.req) \/ ~Held(st, t.content)
  BY <1>1 DEF AsAsked
<1>4. AsAsked("ingest: apply", st, t) <=>
        /\ IsPlain(t.req) => NoContext(t.chunks)
        /\ Whole(t.req) \/ ~Held(st, t.content)
        /\ OneDimension(st) => DimOf(t.chunks) = st.dim
  BY <1>1 DEF AsAsked
<1>5. AsAsked("ingest: save", st, t) <=> Added(st, t)
  BY <1>1 DEF AsAsked
<1> QED BY <1>2, <1>3, <1>4, <1>5

\* What p has in hand after a step, and the store that it is about.
LeftAsAsked(p) == pc'[p] \in Ingesting => AsAsked(pc'[p], Store(p)', task'[p])

LEMMA AskedReceived ==
  ASSUME Typed, NEW p \in Clients, NEW r \in Requests, IngestReceive(p, r) \/ FilesReceive(p, r) \/ RestoreReceive(p, r)
  PROVE  LeftAsAsked(p)
<1>1. srv # NULL /\ pc[p] = "idle" /\ r.bucket \in Buckets
  BY DocumentsAssumption DEF IngestReceive, FilesReceive, RestoreReceive, Sends
<1> DEFINE old == GetOrCreate(r.bucket)
<1>2. SoundStore(old) /\ srv \in Server
  BY <1>1, GetOrCreateSound DEF Typed
<1>3. CASE IngestReceive(p, r) \/ FilesReceive(p, r)
  <2>1. CASE Refused(r)
    <3>1. UNCHANGED <<pc, task>>
      BY <1>3, <2>1 DEF IngestReceive, FilesReceive, Accept
    <3> QED BY <3>1, <1>1, IdleTyped DEF LeftAsAsked
  <2>2. CASE ~Refused(r)
    <3> DEFINE st == SetContextualizer(old, r)
    <3>1. srv' = [srv EXCEPT !.stores[r.bucket] = st] /\ Goto(p, "ingest: transform") /\ Set(p, [req |-> r])
      BY <1>3, <2>2 DEF IngestReceive, FilesReceive, Accept, InBucket
    <3>2. pc'[p] = "ingest: transform" /\ task'[p] = [req |-> r]
      BY <3>1, Moved
    <3>3. SoundStore(st)
      BY <1>2, ContextualizerSound
    <3>4. IsPlain(r) => st.contextualizer = NULL
      <4>1. st = [old EXCEPT !.contextualizer = Adapter(r)] /\ (IsPlain(r) => Adapter(r) = NULL)
        BY DEF SetContextualizer, Adapter, IsPlain
      <4> QED BY <4>1, <1>2 DEF SoundStore, StoreObject
    <3> HIDE DEF st
    <3>5. srv'.stores[r.bucket] = st
      BY <3>1, <3>3, <1>1, StoreSet
    <3>6. task'[p].req = r
      <4>1. task'[p] = [req |-> r]
        BY <3>2
      <4> QED BY <4>1
    <3>7. Store(p)' = st
      BY <3>5, <3>6 DEF Store
    <3> QED BY <3>2, <3>4, <3>6, <3>7, AskedAt DEF LeftAsAsked
  <2> QED BY <2>1, <2>2
<1>4. CASE RestoreReceive(p, r)
  <2>1. UNCHANGED <<pc, task>> \/ \E c : Goto(p, "ingest: situate") /\ Set(p, [req |-> r, content |-> c])
    BY <1>4 DEF RestoreReceive
  <2>2. CASE UNCHANGED <<pc, task>>
    BY <2>2, <1>1, IdleTyped DEF LeftAsAsked
  <2>3. CASE \E c : Goto(p, "ingest: situate") /\ Set(p, [req |-> r, content |-> c])
    <3>1. PICK c : Goto(p, "ingest: situate") /\ Set(p, [req |-> r, content |-> c])
      BY <2>3
    <3>2. pc'[p] = "ingest: situate" /\ task'[p] = [req |-> r, content |-> c]
      BY <3>1, Moved
    <3>3. task'[p].req = r
      <4>1. task'[p] = [req |-> r, content |-> c]
        BY <3>2
      <4> QED BY <4>1
    <3>4. ~IsPlain(r)
      BY <1>4 DEF RestoreReceive, IsPlain
    <3> QED BY <3>2, <3>3, <3>4, AskedAt DEF LeftAsAsked
  <2> QED BY <2>1, <2>2, <2>3
<1> QED BY <1>3, <1>4

LEMMA AskedEnded ==
  ASSUME Typed, NEW p \in Clients, End(p)
  PROVE  LeftAsAsked(p)
  BY Ended, IdleTyped DEF LeftAsAsked

\* A step that leaves the server alone and goes on with the same request.
LEMMA AskedMoved ==
  ASSUME Typed, NEW p \in Clients, NEW m, NEW t, Goto(p, m), Set(p, t), srv' = srv, t.req = task[p].req,
         AsAsked(m, Store(p), t)
  PROVE  LeftAsAsked(p)
<1>1. pc'[p] = m /\ task'[p] = t
  BY Moved
<1>2. Store(p)' = Store(p)
  BY <1>1 DEF Store
<1> QED BY <1>1, <1>2 DEF LeftAsAsked

LEMMA AskedTransforming ==
  ASSUME Typed, NEW p \in Clients, TransformText(p) \/ TransformFiles(p), AsAsked(pc[p], Store(p), task[p])
  PROVE  LeftAsAsked(p)
<1> DEFINE r == task[p].req
<1>1. pc[p] = "ingest: transform" /\ srv' = srv
  BY DEF TransformText, TransformFiles, At, serverVars
<1>2. IsPlain(r) => Store(p).contextualizer = NULL
  BY <1>1, AskedAt
<1>3. \/ End(p)
      \/ \E m \in {"ingest: situate", "build: situate"} : \E c : Goto(p, m) /\ Set(p, [req |-> r, content |-> c])
      \/ Goto(p, "ingest: save") /\ Set(p, [req |-> r, content |-> NULL])
  BY DEF TransformText, TransformFiles
<1>4. CASE \E m \in {"ingest: situate", "build: situate"} : \E c : Goto(p, m) /\ Set(p, [req |-> r, content |-> c])
  <2>0. PICK m \in {"ingest: situate", "build: situate"} :
           \E c : Goto(p, m) /\ Set(p, [req |-> r, content |-> c])
    BY <1>4
  <2>1. PICK c : Goto(p, m) /\ Set(p, [req |-> r, content |-> c])
    BY <2>0
  <2> DEFINE t == [req |-> r, content |-> c]
  <2>2. t.req = r /\ Goto(p, m) /\ Set(p, t)
    BY <2>0, <2>1
  <2> HIDE DEF t
  <2>3. AsAsked(m, Store(p), t)
    BY <1>2, <2>2, AskedAt
  <2> QED BY <2>2, <2>3, <1>1, AskedMoved
<1>5. CASE Goto(p, "ingest: save") /\ Set(p, [req |-> r, content |-> NULL])
  <2> DEFINE t == [req |-> r, content |-> NULL]
  <2>1. t.req = r /\ t.content = NULL /\ Set(p, t)
    BY <1>5
  <2> HIDE DEF t
  <2>2. AsAsked("ingest: save", Store(p), t)
    BY <2>1, AskedAt DEF Added
  <2> QED BY <2>1, <2>2, <1>1, <1>5, AskedMoved
<1> QED BY <1>3, <1>4, <1>5, AskedEnded

LEMMA AskedSituating ==
  ASSUME Typed, NEW p \in Clients, Situate(p), AsAsked(pc[p], Store(p), task[p])
  PROVE  LeftAsAsked(p)
<1> DEFINE r == task[p].req
           c == task[p].content
           st == Store(p)
<1>1. pc[p] \in {"ingest: situate", "build: situate"} /\ srv' = srv
  BY DEF Situate, serverVars
<1>2. IsPlain(r) => st.contextualizer = NULL
  BY <1>1, AskedAt
<1>3. \/ End(p)
      \/ Goto(p, "ingest: save") /\ Set(p, [req |-> r, content |-> NULL])
      \/ /\ Whole(r) \/ ~Held(st, c)
         /\ \E chunks \in Situated(st, c) : /\ Set(p, [req |-> r, content |-> c, chunks |-> chunks])
                                            /\ Goto(p, "ingest: embed")
  BY DEF Situate
<1> HIDE DEF st
<1>4. CASE Goto(p, "ingest: save") /\ Set(p, [req |-> r, content |-> NULL])
  <2> DEFINE t == [req |-> r, content |-> NULL]
  <2>1. t.req = r /\ t.content = NULL /\ Set(p, t)
    BY <1>4
  <2> HIDE DEF t
  <2>2. AsAsked("ingest: save", Store(p), t)
    BY <2>1, AskedAt DEF Added
  <2> QED BY <2>1, <2>2, <1>1, <1>4, AskedMoved
<1>5. ASSUME Whole(r) \/ ~Held(st, c), NEW chunks \in Situated(st, c), Goto(p, "ingest: embed"),
             Set(p, [req |-> r, content |-> c, chunks |-> chunks])
      PROVE  LeftAsAsked(p)
  <2> DEFINE t == [req |-> r, content |-> c, chunks |-> chunks]
  <2>1. IsPlain(r) => NoContext(chunks)
    BY <1>2 DEF Situated, NoContext
  <2>2. t.req = r /\ t.content = c /\ t.chunks = chunks /\ Set(p, t)
    BY <1>5
  <2> HIDE DEF t
  <2>3. AsAsked("ingest: embed", st, t)
    BY <1>2, <1>5, <2>1, <2>2, AskedAt
  <2> QED BY <2>2, <2>3, <1>1, <1>5, AskedMoved DEF st
<1> QED BY <1>3, <1>4, <1>5, AskedEnded

LEMMA AskedEmbedding ==
  ASSUME Typed, NEW p \in Clients, Embed(p), AsAsked(pc[p], Store(p), task[p])
  PROVE  LeftAsAsked(p)
<1> DEFINE r == task[p].req
           c == task[p].content
           st == Store(p)
           chunks == task[p].chunks
           new == Embedded(st, r, chunks)
           t == [req |-> r, content |-> c, chunks |-> new]
<1>1. /\ UNCHANGED serverVars /\ pc[p] = "ingest: embed"
      /\ r \in Indexing /\ chunks \in Seq(SituatedChunk) \ {<<>>} /\ SoundStore(st)
      /\ End(p) \/ (Set(p, t) /\ Goto(p, "ingest: apply"))
  BY EmbedOutcome
<1>2. (IsPlain(r) => NoContext(chunks)) /\ (Whole(r) \/ ~Held(st, c))
  BY <1>1, AskedAt
<1>3. t.req = r /\ t.content = c /\ t.chunks = new
  OBVIOUS
<1>4. /\ new \in Seq(Chunk) /\ new # <<>> /\ DOMAIN new = DOMAIN chunks
      /\ \A i \in DOMAIN new :
           /\ new[i].context = chunks[i].context
           /\ \/ Fresh(new[i].vec, st)
              \/ \E d \in Docs : /\ st.docs[d] # NULL
                                 /\ \E j \in DOMAIN st.docs[d].chunks : new[i].vec = st.docs[d].chunks[j].vec
  <2>1. new = Embedded(st, r, chunks) /\ SoundStore(st) /\ r \in Indexing /\ chunks \in Seq(SituatedChunk) \ {<<>>}
    BY <1>1
  <2> HIDE DEF new, st, chunks, r
  <2>2. /\ new \in Seq(Chunk) /\ Sound(new) /\ DOMAIN new = DOMAIN chunks
        /\ \A i \in DOMAIN new :
             /\ new[i].context = chunks[i].context
             /\ \/ Fresh(new[i].vec, st)
                \/ \E d \in Docs : /\ st.docs[d] # NULL
                                   /\ \E j \in DOMAIN st.docs[d].chunks : new[i].vec = st.docs[d].chunks[j].vec
    BY <2>1, EmbeddedSound
  <2>3. new # <<>>
    BY <2>2 DEF Sound
  <2> QED BY <2>2, <2>3
<1> HIDE DEF new, st, chunks, r, c
<1>5. IsPlain(r) => NoContext(new)
  BY <1>2, <1>4 DEF NoContext
<1>6. OneDimension(st) => DimOf(new) = st.dim
  <2> SUFFICES ASSUME OneDimension(st) PROVE new[1].vec.dim = st.dim
    BY DEF DimOf
  <2>1. 1 \in DOMAIN new
    BY <1>4, DimOfFirst
  <2>2. CASE Fresh(new[1].vec, st)
    BY <2>2 DEF OneDimension, Fresh
  <2>3. CASE \E d \in Docs : /\ st.docs[d] # NULL
                             /\ \E j \in DOMAIN st.docs[d].chunks : new[1].vec = st.docs[d].chunks[j].vec
    <3>1. PICK d \in Docs : /\ st.docs[d] # NULL
                            /\ \E j \in DOMAIN st.docs[d].chunks : new[1].vec = st.docs[d].chunks[j].vec
      BY <2>3
    <3>2. PICK j \in DOMAIN st.docs[d].chunks : new[1].vec = st.docs[d].chunks[j].vec
      BY <3>1
    <3>3. st.docs[d].chunks[j] \in ToSet(st.docs[d].chunks)
      BY <3>2 DEF ToSet
    <3> QED BY <3>1, <3>2, <3>3 DEF OneDimension
  <2> QED BY <2>1, <2>2, <2>3, <1>4
<1> HIDE DEF t
<1>7. AsAsked("ingest: apply", st, t)
  BY <1>2, <1>3, <1>5, <1>6, AskedAt
<1>8. srv' = srv
  BY <1>1 DEF serverVars
<1> QED BY <1>1, <1>3, <1>7, <1>8, AskedEnded, AskedMoved DEF st, r

LEMMA AskedApplying ==
  ASSUME Typed, NEW p \in Clients, Apply(p), AsAsked(pc[p], Store(p), task[p])
  PROVE  LeftAsAsked(p)
<1> DEFINE t == task[p]
           st == Store(p)
           left == [req |-> t.req, content |-> t.content]
<1>1. /\ srv # NULL /\ pc[p] = "ingest: apply"
      /\ t \in ApplyTask /\ Ready(t) /\ t.req \in Indexing
      /\ SoundStore(st) /\ st = srv.stores[t.req.bucket] /\ t.req.bucket \in Buckets
  BY ApplyOutcome
<1>2. PICK new \in NewStores(st, t) :
        /\ srv' = [srv EXCEPT !.stores[t.req.bucket] = new]
        /\ End(p) \/ (Goto(p, "ingest: save") /\ Set(p, left))
  BY ApplyOutcome
<1>3. /\ IsPlain(t.req) => NoContext(t.chunks)
      /\ Whole(t.req) \/ ~Held(st, t.content)
      /\ OneDimension(st) => DimOf(t.chunks) = st.dim
  BY <1>1, AskedAt
<1>4. left.req = t.req /\ left.content = t.content /\ t.req.doc \in Docs /\ Sound(t.chunks)
  BY <1>1, BucketOf DEF Ready
<1>5. SoundStore(new)
  BY <1>1, <1>2, NewStoreSound
<1>10. Flat(t.chunks) => Built(st, t).docs[t.req.doc] = [content |-> t.content, chunks |-> t.chunks]
  <2>1. t \in ApplyTask /\ t.req.doc \in Docs /\ SoundStore(st) /\ Sound(t.chunks)
    BY <1>1, <1>4
  <2> HIDE DEF t, st, left
  <2> QED BY <2>1, BuiltSound
<1> HIDE DEF t, st, left
<1>6. \/ /\ new.docs[t.req.doc] # NULL /\ new.docs[t.req.doc].content = t.content
         /\ Alike(new.docs[t.req.doc].chunks, t.chunks, new.dim)
      \/ new = st /\ ~Held(st, t.content) /\ DimOf(t.chunks) # st.dim
  <2>1. CASE Whole(t.req)
    <3> DEFINE doc == [content |-> t.content, chunks |-> t.chunks]
    <3>1. new = Built(st, t)
      BY <2>1, <1>2 DEF NewStores
    <3>2. Flat(t.chunks)
      BY <2>1, <1>1 DEF Ready
    <3>3. Built(st, t).docs[t.req.doc] = doc
      BY <1>10, <3>2
    <3>4. doc.content = t.content /\ doc.chunks = t.chunks /\ doc # NULL
      <4>1. t.content \in Contents /\ t.chunks \in Seq(Chunk)
        BY <1>1 DEF ApplyTask
      <4>2. doc \in Document
        BY <4>1 DEF Document
      <4>3. NULL \notin Document
        BY NullAssumption
      <4> QED BY ONLY <4>2, <4>3
    <3> HIDE DEF doc
    <3> QED BY <3>1, <3>3, <3>4, AlikeSelf
  <2>2. CASE ~Whole(t.req)
    <3>1. new \in applyPrepared(st, t)
      BY <2>2, <1>2 DEF NewStores
    <3> QED BY <3>1, <2>2, <1>1, <1>3, <1>4, AppliedSound
  <2> QED BY <2>1, <2>2
<1>7. Added(new, left)
  <2>1. CASE /\ new.docs[t.req.doc] # NULL /\ new.docs[t.req.doc].content = t.content
             /\ Alike(new.docs[t.req.doc].chunks, t.chunks, new.dim)
    <3>1. Held(new, t.content)
      BY <2>1, <1>4 DEF Held
    <3>2. NoContext(t.chunks) => NoContext(new.docs[t.req.doc].chunks)
      BY <2>1 DEF NoContext, Alike
    <3> QED BY <3>1, <3>2, <1>3, <1>4 DEF Added
  <2>2. CASE new = st /\ ~Held(st, t.content) /\ DimOf(t.chunks) # st.dim
    BY <2>2, <1>3 DEF Added
  <2> QED BY <2>1, <2>2, <1>6
<1>8. CASE End(p)
  BY <1>8, AskedEnded
<1>9. CASE Goto(p, "ingest: save") /\ Set(p, left)
  <2>1. pc'[p] = "ingest: save" /\ task'[p] = left
    BY <1>9, Moved
  <2>2. srv'.stores[t.req.bucket] = new
    BY <1>1, <1>2, <1>5, StoreSet
  <2>3. Store(p)' = new
    BY <2>1, <2>2, <1>4 DEF Store
  <2> QED BY <2>1, <2>3, <1>7, AskedAt DEF LeftAsAsked
<1> QED BY <1>2, <1>8, <1>9

LEMMA AskedClient ==
  ASSUME Typed, NEW p \in Clients, Post(p) \/ Ingest(p) \/ Chat(p),
         pc[p] \in Ingesting => AsAsked(pc[p], Store(p), task[p])
  PROVE  LeftAsAsked(p)
<1>1. CASE Post(p)
  <2>1. pc'[p] \notin Ingesting
    BY <1>1, PostCases, PostReceived, WriteStep DEF Ingesting
  <2> QED BY <2>1 DEF LeftAsAsked
<1>2. CASE Chat(p)
  BY <1>2, ChatStep, IdleTyped DEF Crashed, LeftAsAsked
<1>3. CASE Ingest(p)
  <2>1. TransformText(p) \/ TransformFiles(p) \/ Situate(p) \/ Embed(p) \/ Apply(p) => pc[p] \in Ingesting
    BY DEF TransformText, TransformFiles, Situate, Embed, Apply, At, Ingesting
  <2> QED BY <1>3, <2>1, AskedReceived, AskedTransforming, AskedSituating, AskedEmbedding, AskedApplying, AskedEnded
          DEF Ingest, Save
<1> QED BY <1>1, <1>2, <1>3

LEMMA IndexingNext ==
  ASSUME Typed, OneAtATime, IndexingAlone, [Next]_vars
  PROVE  IndexingAlone'
<1>1. CASE \A p \in Clients : pc'[p] = "idle"
  BY <1>1, IdleTyped DEF IndexingAlone
<1>2. CASE UNCHANGED vars
  BY <1>2 DEF vars, serverVars, IndexingAlone, Alone, Store
<1>3. ASSUME NEW p \in Clients, Post(p) \/ Ingest(p) \/ Chat(p), ClientStep(p) PROVE IndexingAlone'
  <2> SUFFICES ASSUME Alone PROVE \A q \in Clients : LeftAsAsked(q)
    BY <1>3 DEF IndexingAlone, LeftAsAsked, ClientStep, Alone
  <2>1. LeftAsAsked(p)
    BY <1>3, AskedClient DEF IndexingAlone, ClientStep
  <2>2. \A q \in Clients \ {p} : LeftAsAsked(q)
    BY <1>3, OthersIdle, IdleTyped DEF LeftAsAsked
  <2> QED BY <2>1, <2>2
<1>4. CASE srv' = NULL
  BY <1>4 DEF IndexingAlone
<1> QED BY <1>1, <1>2, <1>3, <1>4, ServerSteps, ClientStepTaken DEF Crashed, Restarted, Removed, Typed

\* What a chunk is indexed under, whatever runs at once (rag/update.go prepareDoc,
\* applyPreparedLocked; server handleIngest, handleIngestFiles).  Its vector is that of its own
\* text and, if it has a context, of that context: nothing is said of the context in the
\* vector of a chunk that has none.  Its vector is of the embedder of its bucket until the
\* server is started again, and nothing is said after that.  It has the length of its bucket
\* until then too, and after that if it is the first of its document or if no vector of the
\* bucket is longer.  And of requests sent one at a time, to a bucket whose vectors all have
\* the length that its embedder gives, one that goes on to save has its content there, and
\* the document it stores has contexts only if it asked for them.
THEOREM ChunksAsAsked == Spec => []IndexedAsAsked
<1> DEFINE Inv == Typed /\ OneAtATime /\ Measured /\ IndexingAlone
<1>1. Init => Inv
  <2>1. Init => \A p \in Clients : pc[p] = "idle"
    BY DEF Init
  <2> QED BY <2>1, TypedInit, MeasuredInit, IdleTyped DEF IndexingAlone
<1>2. Inv /\ [Next]_vars => Inv'
  BY TypedNext, OneAtATimeNext, MeasuredNext, IndexingNext
<1>3. Inv => IndexedAsAsked
  <2> SUFFICES ASSUME Inv, srv # NULL PROVE IndexedAsAsked
    BY DEF IndexedAsAsked
  <2>1. ASSUME NEW b \in Buckets, srv.stores[b] # NULL, NEW d \in Docs, srv.stores[b].docs[d] # NULL,
               NEW i \in DOMAIN srv.stores[b].docs[d].chunks
        PROVE  LET chunks == srv.stores[b].docs[d].chunks
               IN  /\ chunks[i].vec.text = chunks[i].text
                   /\ chunks[i].context # NULL => chunks[i].vec.context = chunks[i].context
                   /\ restarts = 0 => chunks[i].vec.by = srv.stores[b].embedder
                   /\ i = 1 \/ restarts = 0 \/ ~Overlong(srv.stores[b]) => chunks[i].vec.dim = srv.stores[b].dim
    <3> DEFINE chunks == srv.stores[b].docs[d].chunks
    <3>1. SoundStore(srv.stores[b])
      BY <2>1 DEF Typed
    <3>2. Sound(chunks) /\ DimOf(chunks) = srv.stores[b].dim /\ srv.stores[b].docs[d] \in Document
      BY <2>1, <3>1 DEF SoundStore, SoundDocs, StoreObject
    <3>3. 1 \in DOMAIN chunks
      BY <3>2, DimOfFirst DEF Document, Sound
    <3>4. restarts = 0 => AllOf(chunks, srv.stores[b])
      BY <2>1, MeasuredParts
    <3> HIDE DEF chunks
    <3>5. restarts = 0 => chunks[i].vec.by = srv.stores[b].embedder /\ chunks[i].vec.dim = chunks[1].vec.dim
      BY <2>1, <3>3, <3>4 DEF AllOf, Fresh, chunks
    <3>6. ~Overlong(srv.stores[b]) => chunks[i].vec.dim = srv.stores[b].dim
      <4>1. chunks[i].vec.dim >= srv.stores[b].dim
        BY <2>1, <3>1 DEF SoundStore, LongDocs, chunks
      <4>2. ~Overlong(srv.stores[b]) => ~(chunks[i].vec.dim > srv.stores[b].dim)
        BY <2>1 DEF Overlong, chunks
      <4>3. srv.stores[b].dim \in Nat /\ chunks[i].vec.dim \in Nat
        <5>1. chunks \in Seq(Chunk)
          BY <3>2 DEF Document, chunks
        <5>2. chunks[i] \in Chunk
          BY <5>1, <2>1 DEF chunks
        <5> QED BY <5>2, <3>1 DEF Chunk, Vector, SoundStore, StoreObject
      <4> QED BY <4>1, <4>2, <4>3
    <3> QED BY <2>1, <3>2, <3>5, <3>6 DEF Sound, DimOf, chunks
  <2>2. ASSUME NEW p \in Clients, Alone, pc[p] = "ingest: save", task[p].content # NULL, OneDimension(Store(p))
        PROVE  LET doc == Store(p).docs[task[p].req.doc]
               IN  /\ Held(Store(p), task[p].content)
                   /\ ~task[p].req.contextual /\ doc # NULL => \A chunk \in ToSet(doc.chunks) : chunk.context = NULL
    <3>1. pc[p] \in Ingesting
      BY <2>2 DEF Ingesting
    <3>2. Added(Store(p), task[p])
      BY <3>1, <2>2, AskedAt DEF IndexingAlone
    <3>3. task[p].req \in Plainly
      BY <2>2, TaskAt DEF Typed
    <3>4. ~task[p].req.contextual => IsPlain(task[p].req)
      BY <3>3 DEF IsPlain, Plainly
    <3> QED BY <3>2, <3>4, <2>2 DEF Added, NoContext, ToSet
  <2> QED BY <2>1, <2>2 DEF IndexedAsAsked
<1> QED BY <1>1, <1>2, <1>3, PTL DEF Spec

-----------------------------------------------------------------------------
(* What retrieval finds.                                                    *)

Source == [id : Docs \X Nat, text : Texts, whole : Seq(Texts), score : Nat]

\* A source shows the text that its document has at its position.
Shown(c) == c.id[2] \in DOMAIN c.whole /\ c.text = c.whole[c.id[2]]

LEMMA PositionsOf ==
  ASSUME NEW st, SoundStore(st), NEW d \in Docs
  PROVE  /\ Positions(st, d) \in SUBSET Nat /\ IsFiniteSet(Positions(st, d))
         /\ st.docs[d] # NULL => /\ Wording(st.docs[d]) \in Seq(Texts)
                                 /\ DOMAIN Wording(st.docs[d]) = Positions(st, d)
                                 /\ Positions(st, d) = 1..Len(Wording(st.docs[d]))
                                 /\ \A i \in Positions(st, d) : Wording(st.docs[d])[i] = st.docs[d].chunks[i].text
<1>1. CASE st.docs[d] = NULL
  BY <1>1, FS_EmptySet DEF Positions
<1>2. CASE st.docs[d] # NULL
  <2> DEFINE chunks == st.docs[d].chunks
             w == Wording(st.docs[d])
  <2>1. chunks \in Seq(Chunk)
    BY <1>2 DEF SoundStore, StoreObject, Document
  <2>2. Positions(st, d) = DOMAIN chunks
    BY <1>2 DEF Positions
  <2>3. w = [i \in DOMAIN chunks |-> chunks[i].text]
    BY DEF Wording
  <2> HIDE DEF chunks, w
  <2>4. DOMAIN chunks = 1..Len(chunks) /\ Len(chunks) \in Nat /\ \A i \in DOMAIN chunks : chunks[i].text \in Texts
    <3>1. DOMAIN chunks = 1..Len(chunks) /\ Len(chunks) \in Nat /\ \A i \in DOMAIN chunks : chunks[i] \in Chunk
      BY <2>1
    <3> QED BY <3>1 DEF Chunk
  <2>5. IsFiniteSet(1..Len(chunks))
    BY <2>4, FS_Interval
  <2>6. w \in [1..Len(chunks) -> Texts]
    BY <2>3, <2>4
  <2>7. w \in Seq(Texts) /\ DOMAIN w = DOMAIN chunks /\ Len(w) = Len(chunks)
    BY <2>4, <2>6
  <2> QED BY <2>2, <2>3, <2>4, <2>5, <2>7 DEF chunks, w
<1> QED BY <1>1, <1>2

LEMMA PlacesOf ==
  ASSUME NEW st, SoundStore(st)
  PROVE  /\ IsFiniteSet(Places(st))
         /\ Places(st) = {x \in Docs \X Nat : x[2] \in Positions(st, x[1])}
<1> DEFINE f == [d \in Docs |-> {<<d, i>> : i \in Positions(st, d)}]
           R == {{<<d, i>> : i \in Positions(st, d)} : d \in Docs}
<1>1. f \in Surjection(Docs, R)
  BY DEF Surjection
<1>2. IsFiniteSet(R)
  <2> HIDE DEF f, R
  <2> QED BY <1>1, OrderAssumption, FS_Surjection
<1>3. ASSUME NEW d \in Docs PROVE IsFiniteSet({<<d, i>> : i \in Positions(st, d)})
  <2> DEFINE g == [i \in Positions(st, d) |-> <<d, i>>]
             S == {<<d, i>> : i \in Positions(st, d)}
  <2>1. g \in Surjection(Positions(st, d), S)
    BY DEF Surjection
  <2>2. IsFiniteSet(Positions(st, d))
    BY PositionsOf
  <2> HIDE DEF g, S
  <2>3. IsFiniteSet(S)
    BY <2>1, <2>2, FS_Surjection
  <2> QED BY <2>3 DEF S
<1>4. \A X \in R : IsFiniteSet(X)
  BY <1>3
<1>5. IsFiniteSet(UNION R)
  <2> HIDE DEF R
  <2> QED BY <1>2, <1>4, FS_UNION
<1>6. ASSUME NEW x \in Places(st) PROVE x \in Docs \X Nat /\ x[2] \in Positions(st, x[1])
  <2>1. PICK d \in Docs : \E i \in Positions(st, d) : x = <<d, i>>
    BY DEF Places
  <2>2. PICK i \in Positions(st, d) : x = <<d, i>>
    BY <2>1
  <2>3. i \in Nat
    BY PositionsOf
  <2> QED BY <2>2, <2>3
<1>7. ASSUME NEW x \in Docs \X Nat, x[2] \in Positions(st, x[1]) PROVE x \in Places(st)
  <2>1. x = <<x[1], x[2]>> /\ x[1] \in Docs
    OBVIOUS
  <2>2. x \in {<<x[1], i>> : i \in Positions(st, x[1])}
    BY <1>7, <2>1
  <2> QED BY <2>1, <2>2 DEF Places
<1> QED BY <1>5, <1>6, <1>7 DEF Places

LEMMA ResultOf ==
  ASSUME NEW st, SoundStore(st), NEW x \in Places(st), NEW score \in Nat
  PROVE  /\ Result(st, x, score) \in Source /\ Shown(Result(st, x, score))
         /\ Result(st, x, score).id = x /\ Result(st, x, score).score = score
<1>1. x \in Docs \X Nat /\ x[2] \in Positions(st, x[1]) /\ x[1] \in Docs
  BY PlacesOf
<1>2. st.docs[x[1]] # NULL
  BY <1>1 DEF Positions
<1> DEFINE w == Wording(st.docs[x[1]])
<1>3. w \in Seq(Texts) /\ x[2] \in DOMAIN w /\ w[x[2]] = st.docs[x[1]].chunks[x[2]].text
  BY <1>1, <1>2, PositionsOf
<1>4. Result(st, x, score) = [id |-> x, text |-> w[x[2]], whole |-> w, score |-> score]
  BY <1>3 DEF Result
<1> HIDE DEF w
<1>5. w[x[2]] \in Texts
  BY <1>3
<1> QED BY <1>1, <1>3, <1>4, <1>5 DEF Source, Shown

\* The first k of a sequence are some of it.
LEMMA FirstOf ==
  ASSUME NEW S, NEW s \in Seq(S), NEW k \in Nat
  PROVE  /\ First(k, s) \in Seq(S)
         /\ DOMAIN First(k, s) \subseteq DOMAIN s
         /\ \A n \in DOMAIN First(k, s) : First(k, s)[n] = s[n]
<1> DEFINE m == Min({k, Len(s)})
<1>1. {k, Len(s)} \in SUBSET Nat /\ {k, Len(s)} # {}
  OBVIOUS
<1>2. m \in {k, Len(s)} /\ m <= Len(s)
  BY <1>1, SmallestOf
<1>3. First(k, s) = SubSeq(s, 1, m)
  BY DEF First
<1> HIDE DEF m
<1>4. m \in Nat /\ m <= Len(s)
  BY <1>2
<1> QED BY <1>3, <1>4

\* The order in which chunks are found leaves no tie.
LEMMA BetterOrders ==
  ASSUME NEW st, SoundStore(st), NEW found \in SUBSET Places(st), NEW score \in [Places(st) -> Nat]
  PROVE  TotalOrder({u \in found \X found :
                   score[u[1]] > score[u[2]] \/ (score[u[1]] = score[u[2]] /\ Precedes(u[1], u[2]))}, found)
<1> DEFINE at(x) == DocOrder[x[1]]
           better(x, y) == score[x] > score[y] \/
                             (score[x] = score[y] /\ (at(x) < at(y) \/ (at(x) = at(y) /\ x[2] < y[2])))
           R == {u \in found \X found :
                   score[u[1]] > score[u[2]] \/ (score[u[1]] = score[u[2]] /\ Precedes(u[1], u[2]))}
<1>1. \A x \in found : score[x] \in Nat /\ at(x) \in Nat /\ x[2] \in Nat /\ x[1] \in Docs /\ x = <<x[1], x[2]>>
  BY PlacesOf, OrderAssumption
<1>2. \A x, y \in found : at(x) = at(y) /\ x[2] = y[2] => x = y
  BY <1>1, OrderAssumption
<1>3. \A x, y \in found : <<x, y>> \in R <=> better(x, y)
  BY DEF Precedes, Earlier
<1> HIDE DEF R, at
<1>4. \A x \in found : ~better(x, x)
  BY <1>1
<1>5. \A x, y \in found : x # y => better(x, y) \/ better(y, x)
  BY <1>1, <1>2
<1>6. \A x, y, z \in found : better(x, y) /\ better(y, z) => better(x, z)
  BY <1>1
<1> HIDE DEF better
<1>7. TotalOrder(R, found)
  BY <1>3, <1>4, <1>5, <1>6 DEF TotalOrder
<1> QED BY <1>7 DEF R

\* What is found is chunks of the store, as they stand there.
LEMMA BestOf ==
  ASSUME NEW st, SoundStore(st), NEW score \in [Places(st) -> Nat], NEW k \in Nat
  PROVE  /\ Best(st, score, k) \in Seq(Source)
         /\ \A n \in DOMAIN Best(st, score, k) :
              LET c == Best(st, score, k)[n] IN Shown(c) /\ c = Result(st, c.id, c.score)
<1> DEFINE found == {x \in Places(st) : score[x] > 0}
           better == {u \in found \X found :
                        score[u[1]] > score[u[2]] \/ (score[u[1]] = score[u[2]] /\ Precedes(u[1], u[2]))}
           order == InOrder(found, better)
           all == [n \in DOMAIN order |-> Result(st, order[n], score[order[n]])]
<1>1. Best(st, score, k) = First(k, all)
  BY DEF Best
<1>2. found \in SUBSET Places(st)
  OBVIOUS
<1>3. TotalOrder(better, found)
  <2> HIDE DEF found
  <2> QED BY <1>2, BetterOrders
<1>4. IsFiniteSet(found)
  BY <1>2, PlacesOf, FS_Subset
<1> HIDE DEF found, better
<1>5. order \in Seq(found)
  BY <1>3, <1>4, InOrderLists
<1> HIDE DEF order
<1>6. DOMAIN order = 1..Len(order) /\ Len(order) \in Nat /\ \A n \in DOMAIN order : order[n] \in Places(st)
  BY <1>2, <1>5
<1>7. \A n \in DOMAIN order : score[order[n]] \in Nat
  BY <1>6
<1>8. \A n \in DOMAIN order : /\ all[n] \in Source /\ Shown(all[n])
                              /\ all[n] = Result(st, all[n].id, all[n].score)
  BY <1>6, <1>7, ResultOf
<1>9. all \in Seq(Source) /\ DOMAIN all = DOMAIN order
  BY <1>6, <1>8
<1> HIDE DEF all
<1>10. /\ First(k, all) \in Seq(Source)
       /\ \A n \in DOMAIN First(k, all) : n \in DOMAIN all /\ First(k, all)[n] = all[n]
  BY <1>9, FirstOf
<1>11. \A n \in DOMAIN First(k, all) :
         LET c == First(k, all)[n] IN Shown(c) /\ c = Result(st, c.id, c.score)
  BY <1>8, <1>9, <1>10
<1> QED BY <1>1, <1>10, <1>11

LEMMA ScoredType ==
  ASSUME NEW st, SoundStore(st), NEW q \in Queries
  PROVE  Scored(st, q) \in [Places(st) -> Nat]
<1>1. ASSUME NEW x \in Places(st) PROVE Score[q][st.docs[x[1]].chunks[x[2]].text] \in Nat
  <2>1. x[2] \in Positions(st, x[1]) /\ x[1] \in Docs
    BY PlacesOf
  <2>2. st.docs[x[1]] # NULL
    BY <2>1 DEF Positions
  <2>3. st.docs[x[1]].chunks[x[2]].text \in Texts
    BY <2>1, <2>2, PositionsOf
  <2> QED BY <2>3, QuestionsAssumption
<1> QED BY <1>1 DEF Scored

LEMMA FoundOf ==
  ASSUME NEW st, SoundStore(st), NEW q \in Queries, NEW k \in Nat
  PROVE  /\ Found(st, q, k) \in Seq(Source)
         /\ \A n \in DOMAIN Found(st, q, k) :
              LET c == Found(st, q, k)[n] IN Shown(c) /\ c = Result(st, c.id, c.score)
  BY ScoredType, BestOf DEF Found

\* Whatever a query finds.
LEMMA RetrievedOf ==
  ASSUME NEW st, SoundStore(st), NEW q \in Queries, NEW k \in Nat, NEW res \in Retrieved(st, q, k)
  PROVE  /\ res \in Seq(Source) /\ \A n \in DOMAIN res : Shown(res[n])
         /\ Foreign(st) = {} => res = Found(st, q, k)
<1> DEFINE score(guess) == [x \in Places(st) |-> IF x \in Foreign(st) THEN guess[x] ELSE Scored(st, q)[x]]
<1>1. PICK guess \in [Foreign(st) -> Guesses] : res = Best(st, score(guess), k)
  BY DEF Retrieved
<1>2. Scored(st, q) \in [Places(st) -> Nat]
  BY ScoredType
<1>3. score(guess) \in [Places(st) -> Nat]
  BY <1>2, QuestionsAssumption
<1>4. ASSUME Foreign(st) = {} PROVE score(guess) = Scored(st, q)
  BY <1>2, <1>4
<1> HIDE DEF score
<1>5. Foreign(st) = {} => res = Found(st, q, k)
  BY <1>1, <1>4 DEF Found
<1> QED BY <1>1, <1>3, <1>5, BestOf

-----------------------------------------------------------------------------
(* The hops put together.                                                   *)

\* s holds what the first n of E come to: chunks of them, every id once and with its best
\* score, as they were first found.
Gathers(s, E, n) ==
  /\ s \in Seq(Source)
  /\ \A a \in DOMAIN s : \E k \in 1..n : s[a] = E[k]
  /\ \A k \in 1..n : \E a \in DOMAIN s : s[a].id = E[k].id /\ E[k].score <= s[a].score
  /\ \A a, b \in DOMAIN s : s[a].id = s[b].id => a = b
  /\ \A a, b \in DOMAIN s : a < b =>
       \E k \in 1..n : E[k].id = s[a].id /\ \A l \in 1..n : E[l].id = s[b].id => k < l

LEMMA PutGathers ==
  ASSUME NEW N \in Nat, NEW E \in [1..N -> Source], NEW n \in 1..N, NEW s, Gathers(s, E, n - 1)
  PROVE  Gathers(Put(s, E[n]), E, n)
<1> DEFINE c == E[n]
           t == Put(s, c)
<1>1. /\ s \in Seq(Source) /\ c \in Source /\ n \in Nat /\ n - 1 \in Nat
      /\ DOMAIN s = 1..Len(s) /\ Len(s) \in Nat
      /\ \A k \in 1..n : E[k] \in Source /\ (k \in 1..(n - 1) \/ k = n)
      /\ \A k \in 1..(n - 1) : k \in 1..n /\ k < n
      /\ \A a \in DOMAIN s : s[a] \in Source
  BY DEF Gathers
<1>2. /\ \A a \in DOMAIN s : \E k \in 1..(n - 1) : s[a] = E[k]
      /\ \A k \in 1..(n - 1) : \E a \in DOMAIN s : s[a].id = E[k].id /\ E[k].score <= s[a].score
      /\ \A a, b \in DOMAIN s : s[a].id = s[b].id => a = b
      /\ \A a, b \in DOMAIN s : a < b =>
           \E k \in 1..(n - 1) : E[k].id = s[a].id /\ \A l \in 1..(n - 1) : E[l].id = s[b].id => k < l
  BY DEF Gathers
<1>3. \A d \in Source : d.score \in Nat
  BY DEF Source
<1>4. n \in 1..n /\ E[n] = c
  OBVIOUS
<1> HIDE DEF c
<1>5. CASE Stands(s, c.id)
  <2>1. t = [a \in DOMAIN s |-> IF s[a].id = c.id /\ c.score > s[a].score THEN c ELSE s[a]]
    BY <1>5 DEF Put
  <2>2. DOMAIN t = DOMAIN s /\ \A a \in DOMAIN s : t[a] = IF s[a].id = c.id /\ c.score > s[a].score THEN c ELSE s[a]
    BY <2>1
  <2>3. t \in Seq(Source)
    <3>1. t \in [1..Len(s) -> Source]
      BY <1>1, <2>1
    <3> QED BY <1>1, <3>1
  <2> HIDE DEF t
  <2>4. \A a \in DOMAIN s : t[a].id = s[a].id /\ s[a].score <= t[a].score /\ (t[a].id = c.id => c.score <= t[a].score)
    BY <1>1, <1>3, <2>2
  <2>5. \A a \in DOMAIN t : \E k \in 1..n : t[a] = E[k]
    BY <1>1, <1>2, <1>4, <2>2
  <2>6. ASSUME NEW k \in 1..n PROVE \E a \in DOMAIN t : t[a].id = E[k].id /\ E[k].score <= t[a].score
    <3>1. CASE k = n
      BY <1>4, <1>5, <2>2, <2>4, <3>1 DEF Stands
    <3>2. CASE k \in 1..(n - 1)
      <4>1. PICK a \in DOMAIN s : s[a].id = E[k].id /\ E[k].score <= s[a].score
        BY <1>2, <3>2
      <4>2. t[a].score \in Nat /\ s[a].score \in Nat /\ E[k].score \in Nat
        BY <1>1, <1>3, <2>2
      <4> QED BY <4>1, <4>2, <2>2, <2>4
    <3> QED BY <1>1, <3>1, <3>2
  <2>7. \A a, b \in DOMAIN t : t[a].id = t[b].id => a = b
    BY <1>2, <2>2, <2>4
  <2>8. ASSUME NEW a \in DOMAIN t, NEW b \in DOMAIN t, a < b
        PROVE  \E k \in 1..n : E[k].id = t[a].id /\ \A l \in 1..n : E[l].id = t[b].id => k < l
    <3> a \in DOMAIN s /\ b \in DOMAIN s
      BY <2>2
    <3>1. PICK k \in 1..(n - 1) : E[k].id = s[a].id /\ \A l \in 1..(n - 1) : E[l].id = s[b].id => k < l
      BY <1>2, <2>8
    <3>2. \A l \in 1..n : E[l].id = t[b].id => k < l
      BY <1>1, <2>2, <2>4, <3>1
    <3> QED BY <1>1, <2>2, <2>4, <3>1, <3>2
  <2> QED BY <2>3, <2>5, <2>6, <2>7, <2>8 DEF Gathers, t, c
<1>6. CASE ~Stands(s, c.id)
  <2>1. t = Append(s, c)
    BY <1>6 DEF Put
  <2>2. /\ t \in Seq(Source) /\ DOMAIN t = 1..(Len(s) + 1) /\ t[Len(s) + 1] = c
        /\ \A a \in DOMAIN s : t[a] = s[a] /\ a \in DOMAIN t /\ a < Len(s) + 1
        /\ \A a \in DOMAIN t : a \in DOMAIN s \/ a = Len(s) + 1
        /\ Len(s) + 1 \in DOMAIN t
    BY <1>1, <2>1
  <2>3. \A a \in DOMAIN s : s[a].id # c.id
    BY <1>6 DEF Stands
  <2> HIDE DEF t
  <2>4. \A a \in DOMAIN t : \E k \in 1..n : t[a] = E[k]
    BY <1>1, <1>2, <1>4, <2>2
  <2>5. ASSUME NEW k \in 1..n PROVE \E a \in DOMAIN t : t[a].id = E[k].id /\ E[k].score <= t[a].score
    <3>1. CASE k = n
      <4>1. c.score \in Nat
        BY <1>1, <1>3
      <4> QED BY <1>4, <2>2, <3>1, <4>1
    <3>2. CASE k \in 1..(n - 1)
      BY <1>2, <2>2, <3>2
    <3> QED BY <1>1, <3>1, <3>2
  <2>6. \A a, b \in DOMAIN t : t[a].id = t[b].id => a = b
    BY <1>2, <2>2, <2>3
  <2>7. \A k \in 1..(n - 1) : E[k].id # c.id
    BY <1>2, <2>3
  <2>8. ASSUME NEW a \in DOMAIN t, NEW b \in DOMAIN t, a < b
        PROVE  \E k \in 1..n : E[k].id = t[a].id /\ \A l \in 1..n : E[l].id = t[b].id => k < l
    <3>1. a \in DOMAIN s
      BY <1>1, <2>2, <2>8
    <3>2. CASE b \in DOMAIN s
      <4>1. PICK k \in 1..(n - 1) : E[k].id = s[a].id /\ \A l \in 1..(n - 1) : E[l].id = s[b].id => k < l
        BY <1>2, <2>8, <3>1, <3>2
      <4>2. \A l \in 1..n : E[l].id = t[b].id => k < l
        BY <1>1, <2>2, <3>2, <4>1
      <4> QED BY <1>1, <2>2, <3>1, <4>1, <4>2
    <3>3. CASE b = Len(s) + 1
      <4>1. PICK k \in 1..(n - 1) : s[a] = E[k]
        BY <1>2, <3>1
      <4>2. \A l \in 1..n : E[l].id = t[b].id => l = n
        BY <1>1, <2>2, <2>7, <3>3
      <4> QED BY <1>1, <2>2, <3>1, <4>1, <4>2
    <3> QED BY <2>2, <3>2, <3>3
  <2> QED BY <2>2, <2>4, <2>5, <2>6, <2>8 DEF Gathers, t, c
<1> QED BY <1>5, <1>6

LEMMA KeptGathers ==
  ASSUME NEW E \in Seq(Source)
  PROVE  Gathers(Kept(E), E, Len(E))
<1> DEFINE N == Len(E)
           G == CHOOSE put : put = [n \in 0..N |-> IF n = 0 THEN <<>> ELSE Put(put[n - 1], E[n])]
<1>1. N \in Nat /\ E \in [1..N -> Source]
  OBVIOUS
<1>2. Kept(E) = G[N]
  BY DEF Kept
<1> HIDE DEF N
<1>3. ASSUME NEW s \in Seq(Source), NEW n \in 1..N PROVE Put(s, E[n]) \in Seq(Source)
  <2>1. E[n] \in Source
    BY <1>1
  <2>2. DOMAIN s = 1..Len(s) /\ Len(s) \in Nat /\ \A a \in DOMAIN s : s[a] \in Source
    OBVIOUS
  <2>3. [a \in DOMAIN s |-> IF s[a].id = E[n].id /\ E[n].score > s[a].score THEN E[n] ELSE s[a]] \in [1..Len(s) -> Source]
    BY <2>1, <2>2
  <2>4. Append(s, E[n]) \in Seq(Source)
    BY <2>1
  <2> QED BY <2>2, <2>3, <2>4 DEF Put
<1> DEFINE F == [n \in 1..N |-> [s \in Seq(Source) |-> Put(s, E[n])]]
<1>4. \A n \in 1..N, s \in Seq(Source) : F[n][s] = Put(s, E[n])
  OBVIOUS
<1> HIDE DEF F
<1>5. \A n \in 1..N, s \in Seq(Source) : F[n][s] \in Seq(Source)
  BY <1>3, <1>4
<1>6. <<>> \in Seq(Source)
  OBVIOUS
<1>7. PICK g \in Steps(Seq(Source), <<>>, N, F) : TRUE
  BY <1>1, <1>5, <1>6, StepsTaken
<1>8. \A n \in 1..N : g[n] = Put(g[n - 1], E[n])
  <2> TAKE n \in 1..N
  <2>1. n - 1 \in 0..N
    BY <1>1
  <2> QED BY <1>4, <1>7, <2>1 DEF Steps
<1>9. g = [n \in 0..N |-> IF n = 0 THEN <<>> ELSE Put(g[n - 1], E[n])]
  <2>1. \A n \in 0..N : g[n] = IF n = 0 THEN <<>> ELSE Put(g[n - 1], E[n])
    <3> TAKE n \in 0..N
    <3>1. n = 0 \/ n \in 1..N
      BY <1>1
    <3> QED BY <1>7, <1>8, <3>1 DEF Steps
  <2>2. g \in [0..N -> Seq(Source)]
    BY <1>7 DEF Steps
  <2> QED BY <2>1, <2>2
<1>10. G = [n \in 0..N |-> IF n = 0 THEN <<>> ELSE Put(G[n - 1], E[n])]
  BY <1>9
<1> HIDE DEF G
<1>11. G[0] = <<>> /\ \A n \in 1..N : G[n] = Put(G[n - 1], E[n])
  <2>1. 0 \in 0..N /\ \A n \in 1..N : n \in 0..N /\ n # 0
    BY <1>1
  <2> QED BY <1>10, <2>1
<1> DEFINE P == {n \in 0..N : Gathers(G[n], E, n)}
<1>12. 0 \in P
  <2>1. Gathers(<<>>, E, 0)
    BY DEF Gathers
  <2> QED BY <1>1, <1>11, <2>1
<1>13. \A n \in 1..N : n - 1 \in P => n \in P
  <2> SUFFICES ASSUME NEW n \in 1..N, n - 1 \in P PROVE Gathers(G[n], E, n)
    BY <1>1
  <2>1. Gathers(Put(G[n - 1], E[n]), E, n)
    BY <1>1, PutGathers
  <2> QED BY <1>11, <2>1
<1> HIDE DEF P
<1>14. N \in P
  <2>1. \A n \in 0..N : n \in P
    BY <1>1, <1>12, <1>13, StepByStep
  <2> QED BY <1>1, <2>1
<1>15. Gathers(G[N], E, N)
  BY <1>14 DEF P
<1> QED BY <1>2, <1>15 DEF N

LEMMA SortedOf ==
  ASSUME NEW s \in Seq(Source)
  PROVE  LET U == sortByScoreDesc(s)
         IN  /\ U \in Seq(Source)
             /\ \A n \in DOMAIN U : \E a \in DOMAIN s : U[n] = s[a]
             /\ \A a \in DOMAIN s : \E n \in DOMAIN U : U[n] = s[a]
             /\ \A m, n \in DOMAIN U : m < n =>
                  \E a, b \in DOMAIN s : /\ U[m] = s[a] /\ U[n] = s[b]
                                         /\ s[a].score > s[b].score \/ (s[a].score = s[b].score /\ a < b)
<1> DEFINE at == DOMAIN s
           R == {u \in at \X at : s[u[1]].score > s[u[2]].score \/ (s[u[1]].score = s[u[2]].score /\ u[1] < u[2])}
           before(a, b) == s[a].score > s[b].score \/ (s[a].score = s[b].score /\ a < b)
           order == InOrder(at, R)
           U == sortByScoreDesc(s)
<1>1. at = 1..Len(s) /\ Len(s) \in Nat /\ IsFiniteSet(at)
  <2>1. at = 1..Len(s) /\ Len(s) \in Nat
    OBVIOUS
  <2> QED BY <2>1, FS_Interval
<1>2. \A a \in at : a \in Nat /\ s[a] \in Source /\ s[a].score \in Nat
  <2>1. \A a \in at : a \in Nat /\ s[a] \in Source
    BY <1>1
  <2> QED BY <2>1 DEF Source
<1>3. U = [n \in DOMAIN order |-> s[order[n]]]
  BY DEF sortByScoreDesc
<1> HIDE DEF U, at
<1>4. \A a, b \in at : <<a, b>> \in R <=> before(a, b)
  OBVIOUS
<1> HIDE DEF R
<1>5. TotalOrder(R, at)
  <2>1. \A a \in at : ~before(a, a)
    BY <1>2
  <2>2. \A a, b \in at : a # b => before(a, b) \/ before(b, a)
    BY <1>2
  <2>3. \A a, b, c \in at : before(a, b) /\ before(b, c) => before(a, c)
    BY <1>2
  <2> HIDE DEF before
  <2> QED BY <1>4, <2>1, <2>2, <2>3 DEF TotalOrder
<1>6. /\ order \in Seq(at)
      /\ \A a \in at : \E n \in DOMAIN order : order[n] = a
      /\ \A m, n \in DOMAIN order : m < n => <<order[m], order[n]>> \in R
  <2> HIDE DEF before
  <2>1. IsFiniteSet(at) /\ TotalOrder(R, at)
    BY <1>1, <1>5
  <2>2. order \in Seq(at)
    BY <2>1, InOrderLists
  <2>3. \A a \in at : \E n \in DOMAIN order : order[n] = a
    BY <2>1, InOrderLists
  <2>4. \A m, n \in DOMAIN order : m < n => <<order[m], order[n]>> \in R
    BY <2>1, InOrderLists
  <2> QED BY <2>2, <2>3, <2>4
<1> HIDE DEF order
<1>7. DOMAIN order = 1..Len(order) /\ Len(order) \in Nat /\ \A n \in DOMAIN order : order[n] \in at
  BY <1>6
<1>8. DOMAIN U = DOMAIN order /\ \A n \in DOMAIN order : U[n] = s[order[n]]
  BY <1>3
<1>9. U \in Seq(Source)
  <2>1. U \in [1..Len(order) -> Source]
    BY <1>2, <1>3, <1>7
  <2> QED BY <1>7, <2>1
<1>10. \A a \in at : \E n \in DOMAIN U : U[n] = s[a]
  BY <1>6, <1>8
<1>11. ASSUME NEW m \in DOMAIN U, NEW n \in DOMAIN U, m < n
       PROVE  \E a, b \in at : U[m] = s[a] /\ U[n] = s[b] /\ before(a, b)
  <2>1. order[m] \in at /\ order[n] \in at /\ U[m] = s[order[m]] /\ U[n] = s[order[n]]
    BY <1>7, <1>8
  <2>2. <<order[m], order[n]>> \in R
    BY <1>6, <1>8, <1>11
  <2>3. before(order[m], order[n])
    BY <1>4, <2>1, <2>2
  <2> HIDE DEF before
  <2> QED BY <2>1, <2>3
<1> QED BY <1>7, <1>8, <1>9, <1>10, <1>11 DEF U, at

\* The hops in turn, one result after the other.
InTurns(hops) == LET at == Turns(hops) IN [n \in DOMAIN at |-> hops[at[n][1]][at[n][2]]]

LEMMA TurnsOf ==
  ASSUME NEW N \in Nat, NEW hops \in [1..N -> Seq(Source)]
  PROVE  LET E == InTurns(hops)
             at == Turns(hops)
         IN  /\ E \in Seq(Source) /\ DOMAIN E = DOMAIN at /\ DOMAIN at = 1..Len(E)
             /\ \A k \in DOMAIN E : /\ at[k][1] \in 1..N /\ at[k][2] \in DOMAIN hops[at[k][1]]
                                    /\ at[k] = <<at[k][1], at[k][2]>>
                                    /\ E[k] = hops[at[k][1]][at[k][2]]
             /\ \A i \in 1..N : \A j \in DOMAIN hops[i] : \E k \in DOMAIN E : at[k] = <<i, j>>
             /\ \A k, l \in DOMAIN E : k < l => Earlier(at[k], at[l])
<1> DEFINE S == 1..N
           T == [i \in DOMAIN hops |-> DOMAIN hops[i]]
           at == Turns(hops)
           E == InTurns(hops)
           size == Cardinality(Pairs(S, T))
<1>1. at = InTurn(S, T)
  BY DEF Turns
<1>2. \A i \in S : T[i] = DOMAIN hops[i] /\ T[i] = 1..Len(hops[i]) /\ Len(hops[i]) \in Nat
  OBVIOUS
<1> HIDE DEF T
<1>3. Loops(S, T)
  <2>1. S \in SUBSET Nat /\ IsFiniteSet(S)
    BY FS_Interval
  <2>2. ASSUME NEW i \in S PROVE T[i] \in SUBSET Nat /\ IsFiniteSet(T[i])
    <3> DEFINE m == Len(hops[i])
    <3>1. T[i] = 1..m /\ m \in Nat
      BY <1>2
    <3> HIDE DEF m
    <3>2. IsFiniteSet(1..m) /\ 1..m \in SUBSET Nat
      BY <3>1, FS_Interval
    <3> QED BY <3>1, <3>2
  <2> QED BY <2>1, <2>2 DEF Loops
<1>4. E = [n \in DOMAIN at |-> hops[at[n][1]][at[n][2]]]
  BY DEF InTurns
<1> HIDE DEF at, E, size
<1>5. /\ size \in Nat
      /\ DOMAIN at = 1..size
      /\ \A n \in DOMAIN at : at[n] \in Pairs(S, T)
      /\ \A p \in Pairs(S, T) : \E n \in DOMAIN at : at[n] = p
      /\ \A m, n \in DOMAIN at : m < n => Earlier(at[m], at[n])
  BY <1>1, <1>3, InTurnLists DEF size
<1>6. Pairs(S, T) = {p \in Nat \X Nat : p[1] \in S /\ p[2] \in T[p[1]]}
  BY <1>3, PairsFinite
<1>7. ASSUME NEW n \in DOMAIN at
      PROVE  at[n] = <<at[n][1], at[n][2]>> /\ at[n][1] \in S /\ at[n][2] \in DOMAIN hops[at[n][1]]
  <2> DEFINE p == at[n]
  <2>1. p \in Nat \X Nat /\ p[1] \in S /\ p[2] \in T[p[1]]
    <3>1. p \in Pairs(S, T)
      BY <1>5
    <3> HIDE DEF p, S
    <3> QED BY <1>6, <3>1
  <2> HIDE DEF p
  <2>2. p = <<p[1], p[2]>>
    BY <2>1
  <2>3. T[p[1]] = DOMAIN hops[p[1]]
    BY <1>2, <2>1
  <2>4. p = <<p[1], p[2]>> /\ p[1] \in S /\ p[2] \in DOMAIN hops[p[1]]
    BY ONLY <2>1, <2>2, <2>3
  <2> QED BY <2>4 DEF p
<1>8. ASSUME NEW i \in S, NEW j \in DOMAIN hops[i]
      PROVE  <<i, j>> \in Pairs(S, T)
  <2>1. j \in T[i] /\ i \in Nat /\ j \in Nat
    BY <1>2
  <2> HIDE DEF S
  <2> QED BY <1>6, <2>1
<1>9. \A n \in DOMAIN at : hops[at[n][1]][at[n][2]] \in Source
  <2> TAKE n \in DOMAIN at
  <2>1. hops[at[n][1]] \in Seq(Source) /\ at[n][2] \in DOMAIN hops[at[n][1]]
    BY <1>7
  <2> QED BY <2>1
<1>10. E \in [1..size -> Source]
  BY <1>4, <1>5, <1>9
<1>11. E \in Seq(Source) /\ Len(E) = size
  BY <1>5, <1>10
<1> QED BY <1>4, <1>5, <1>7, <1>8, <1>11 DEF at, E

\* The source c scores more than the source d or, if as much, was found before it.
BetterOrFirst(N, hops, c, d) ==
  \/ c.score > d.score
  \/ /\ c.score = d.score
     /\ \E i \in 1..N : \E j \in DOMAIN hops[i] :
          /\ hops[i][j].id = c.id
          /\ \A e \in 1..N : \A f \in DOMAIN hops[e] : hops[e][f].id = d.id => Earlier(<<i, j>>, <<e, f>>)

\* What a split question comes to: a chunk of each id that a hop found, with the best of
\* its scores, the best first and then the first found.
LEMMA UnionOf ==
  ASSUME NEW N \in Nat, NEW hops \in [1..N -> Seq(Source)]
  PROVE  LET U == Union(hops)
         IN  /\ U \in Seq(Source)
             /\ \A n \in DOMAIN U :
                  \E i \in 1..N : \E j \in DOMAIN hops[i] : U[n] = hops[i][j]
             /\ \A i \in 1..N : \A j \in DOMAIN hops[i] :
                  \E n \in DOMAIN U : U[n].id = hops[i][j].id
             /\ \A n \in DOMAIN U : \A i \in 1..N : \A j \in DOMAIN hops[i] :
                  hops[i][j].id = U[n].id => hops[i][j].score <= U[n].score
             /\ \A m, n \in DOMAIN U : m < n => BetterOrFirst(N, hops, U[m], U[n])
<1> DEFINE E == InTurns(hops)
           at == Turns(hops)
           s == Kept(E)
           U == Union(hops)
<1>1. U = sortByScoreDesc(s)
  BY DEF Union, InTurns
<1>2. /\ E \in Seq(Source) /\ DOMAIN E = DOMAIN at /\ DOMAIN at = 1..Len(E)
      /\ \A k \in DOMAIN E : /\ at[k][1] \in 1..N /\ at[k][2] \in DOMAIN hops[at[k][1]]
                             /\ at[k] = <<at[k][1], at[k][2]>>
                             /\ E[k] = hops[at[k][1]][at[k][2]]
      /\ \A i \in 1..N : \A j \in DOMAIN hops[i] : \E k \in DOMAIN E : at[k] = <<i, j>>
      /\ \A k, l \in DOMAIN E : k < l => Earlier(at[k], at[l])
  BY TurnsOf
<1> HIDE DEF E, at
<1>3. Gathers(s, E, Len(E))
  BY <1>2, KeptGathers
<1> HIDE DEF s, U
<1>4. /\ s \in Seq(Source)
      /\ \A a \in DOMAIN s : \E k \in DOMAIN E : s[a] = E[k]
      /\ \A k \in DOMAIN E : \E a \in DOMAIN s : s[a].id = E[k].id /\ E[k].score <= s[a].score
      /\ \A a, b \in DOMAIN s : s[a].id = s[b].id => a = b
      /\ \A a, b \in DOMAIN s : a < b =>
           \E k \in DOMAIN E : E[k].id = s[a].id /\ \A l \in DOMAIN E : E[l].id = s[b].id => k < l
  <2>1. DOMAIN E = 1..Len(E)
    BY <1>2
  <2>2. /\ s \in Seq(Source)
        /\ \A a, b \in DOMAIN s : s[a].id = s[b].id => a = b
    BY ONLY <1>3 DEF Gathers
  <2>3. \A a \in DOMAIN s : \E k \in DOMAIN E : s[a] = E[k]
    BY ONLY <1>3, <2>1 DEF Gathers
  <2>4. \A k \in DOMAIN E : \E a \in DOMAIN s : s[a].id = E[k].id /\ E[k].score <= s[a].score
    BY ONLY <1>3, <2>1 DEF Gathers
  <2>5. ASSUME NEW a \in DOMAIN s, NEW b \in DOMAIN s, a < b
        PROVE  \E k \in DOMAIN E : E[k].id = s[a].id /\ \A l \in DOMAIN E : E[l].id = s[b].id => k < l
    <3>1. \E k \in 1..Len(E) : E[k].id = s[a].id /\ \A l \in 1..Len(E) : E[l].id = s[b].id => k < l
      BY ONLY <1>3, <2>5, a \in DOMAIN s, b \in DOMAIN s DEF Gathers
    <3>2. PICK k \in 1..Len(E) : E[k].id = s[a].id /\ \A l \in 1..Len(E) : E[l].id = s[b].id => k < l
      BY ONLY <3>1
    <3>3. k \in DOMAIN E /\ \A l \in DOMAIN E : E[l].id = s[b].id => k < l
      BY ONLY <2>1, <3>2
    <3> QED BY ONLY <3>2, <3>3
  <2> QED BY ONLY <2>2, <2>3, <2>4, <2>5
<1>5. /\ U \in Seq(Source)
      /\ \A n \in DOMAIN U : \E a \in DOMAIN s : U[n] = s[a]
      /\ \A a \in DOMAIN s : \E n \in DOMAIN U : U[n] = s[a]
      /\ \A m, n \in DOMAIN U : m < n =>
           \E a, b \in DOMAIN s : /\ U[m] = s[a] /\ U[n] = s[b]
                                  /\ s[a].score > s[b].score \/ (s[a].score = s[b].score /\ a < b)
  BY <1>1, <1>4, SortedOf
<1>6. ASSUME NEW n \in DOMAIN U
      PROVE  \E i \in 1..N : \E j \in DOMAIN hops[i] : U[n] = hops[i][j]
  <2>1. PICK k \in DOMAIN E : U[n] = E[k]
    BY <1>4, <1>5
  <2> QED BY <1>2, <2>1
<1>7. ASSUME NEW i \in 1..N, NEW j \in DOMAIN hops[i]
      PROVE  \E k \in DOMAIN E : at[k] = <<i, j>> /\ E[k] = hops[i][j]
  <2>1. PICK k \in DOMAIN E : at[k] = <<i, j>>
    BY <1>2
  <2>2. at[k][1] = i /\ at[k][2] = j
    BY <2>1
  <2> QED BY <1>2, <2>1, <2>2
<1>8. ASSUME NEW i \in 1..N, NEW j \in DOMAIN hops[i]
      PROVE  \E n \in DOMAIN U : U[n].id = hops[i][j].id
  <2>1. PICK k \in DOMAIN E : E[k] = hops[i][j]
    BY <1>7
  <2>2. PICK a \in DOMAIN s : s[a].id = E[k].id
    BY <1>4
  <2>3. PICK n \in DOMAIN U : U[n] = s[a]
    BY <1>5
  <2> QED BY <2>1, <2>2, <2>3
<1>9. ASSUME NEW n \in DOMAIN U, NEW i \in 1..N, NEW j \in DOMAIN hops[i], hops[i][j].id = U[n].id
      PROVE  hops[i][j].score <= U[n].score
  <2>1. PICK k \in DOMAIN E : E[k] = hops[i][j]
    BY <1>7
  <2>2. PICK a \in DOMAIN s : s[a].id = E[k].id /\ E[k].score <= s[a].score
    BY <1>4
  <2>3. PICK b \in DOMAIN s : U[n] = s[b]
    BY <1>5
  <2>4. a = b
    BY <1>4, <1>9, <2>1, <2>2, <2>3
  <2> QED BY <2>1, <2>2, <2>3, <2>4
<1>10. ASSUME NEW m \in DOMAIN U, NEW n \in DOMAIN U, m < n
       PROVE  BetterOrFirst(N, hops, U[m], U[n])
  <2>1. PICK a \in DOMAIN s, b \in DOMAIN s :
               /\ U[m] = s[a] /\ U[n] = s[b]
               /\ s[a].score > s[b].score \/ (s[a].score = s[b].score /\ a < b)
    BY <1>5, <1>10
  <2>2. CASE s[a].score > s[b].score
    BY <2>1, <2>2 DEF BetterOrFirst
  <2>3. CASE s[a].score = s[b].score /\ a < b
    <3>1. PICK k \in DOMAIN E : E[k].id = s[a].id /\ \A l \in DOMAIN E : E[l].id = s[b].id => k < l
      BY <1>4, <2>3
    <3> DEFINE i == at[k][1]
               j == at[k][2]
    <3>2. i \in 1..N /\ j \in DOMAIN hops[i] /\ hops[i][j] = E[k] /\ at[k] = <<i, j>>
      BY <1>2
    <3> HIDE DEF i, j
    <3>3. ASSUME NEW e \in 1..N, NEW f \in DOMAIN hops[e], hops[e][f].id = U[n].id
          PROVE  Earlier(<<i, j>>, <<e, f>>)
      <4>1. PICK l \in DOMAIN E : at[l] = <<e, f>> /\ E[l] = hops[e][f]
        BY <1>7
      <4>2. k < l
        BY <2>1, <3>1, <3>3, <4>1
      <4> QED BY <1>2, <3>2, <4>1, <4>2
    <3> QED BY <2>1, <2>3, <3>1, <3>2, <3>3 DEF BetterOrFirst
  <2> QED BY <2>1, <2>2, <2>3
<1> QED BY <1>5, <1>6, <1>8, <1>9, <1>10 DEF U

-----------------------------------------------------------------------------
(* What a request that asks has in hand.                                    *)

Asking == {r \in Requests : AsksQuestion(r)}

\* Sources as they are shown.
Shows == {s \in Seq(Source) : \A n \in DOMAIN s : Shown(s[n])}

Sought(t) ==
  /\ t.query \in Queries /\ t.subs \in Seq(Queries) /\ t.failed \in BOOLEAN
  /\ t = [req |-> t.req, model |-> t.model, query |-> t.query, hops |-> t.hops, subs |-> t.subs,
          failed |-> t.failed]
  /\ t.hops \in [DOMAIN t.subs -> Shows \cup {NULL}]

TalkTyped(l, t) ==
  /\ l \in Talking => t.req \in Asking
  /\ l \in {"chat: rewrite", "chat: split", "chat: hops"} => Sought(t)
  /\ l = "chat: rank" => t.subs \in Seq(Queries)
  /\ l \in {"chat: rank", "chat: expand"} => t.res \in Shows
  /\ l = "chat: expand" =>
       /\ t = [req |-> t.req, model |-> t.model, passages |-> t.passages, res |-> t.res]
       /\ t.passages \in Seq(Seq(Texts))

HasTalk(p) == pc[p] \in Talking => SoundStore(Store(p))

Talks == \A p \in Clients : TalkTyped(pc[p], task[p]) /\ HasTalk(p)

LEMMA AskingType ==
  ASSUME NEW r \in Asking
  PROVE  /\ r \in Requests /\ r.bucket \in Buckets /\ r.query \in Queries /\ r.topK \in Nat /\ r.window \in Nat
         /\ r.rerank \in BOOLEAN /\ Candidates(r) \in Nat
<1>1. r \in Requests /\ r.query \in Queries /\ r.topK \in Nat /\ r.window \in Nat /\ r.rerank \in BOOLEAN
  BY QuestionsAssumption DEF Asking
<1>2. r.bucket \in Buckets
  BY <1>1, DocumentsAssumption DEF Asking, AsksQuestion
<1>3. Max({4 * r.topK, 20}) \in Nat
  <2>1. \E m \in {4 * r.topK, 20} : \A n \in {4 * r.topK, 20} : n <= m
    <3>1. 4 * r.topK \in Nat
      BY <1>1
    <3> DEFINE k == 4 * r.topK
    <3>2. k \in Nat
      BY <3>1
    <3> HIDE DEF k
    <3>3. CASE k <= 20
      BY <3>2, <3>3 DEF k
    <3>4. CASE 20 <= k
      BY <3>2, <3>4 DEF k
    <3> QED BY <3>2, <3>3, <3>4
  <2>2. Max({4 * r.topK, 20}) \in {4 * r.topK, 20}
    BY <2>1 DEF Max
  <2> QED BY <1>1, <2>2
<1> QED BY <1>1, <1>2, <1>3 DEF Candidates

LEMMA IdleTalk ==
  ASSUME NEW l, l \notin Talking, NEW t
  PROVE  TalkTyped(l, t)
  BY DEF TalkTyped, Talking

\* A request that edits or indexes does not ask, before or after a step of it.
LEMMA NoTalk ==
  ASSUME Typed, NEW p \in Clients, Post(p) \/ Ingest(p)
  PROVE  pc[p] \notin Talking /\ pc'[p] \notin Talking
<1>1. p \in DOMAIN pc
  BY DEF Typed
<1>2. ASSUME NEW l, Goto(p, l), l \notin Talking PROVE pc'[p] \notin Talking
  BY <1>1, <1>2 DEF Goto
<1>3. "idle" \notin Talking /\ \A l \in Editing \cup Ingesting : l \notin Talking
  BY DEF Talking, Editing, Pending, Ingesting
<1>4. ASSUME Post(p) PROVE /\ pc[p] \in Editing \cup {"idle"}
                           /\ pc' = pc \/ \E l \in Editing \cup {"idle"} : Goto(p, l)
  BY <1>4 DEF Post, PostReceive, PostBackend, PostModels, PostChunking, PostEmbedder, PostConfig, PostOpen, PostWrite,
              Sends, At, End, Editing, Pending
<1>5. ASSUME NEW r \in Requests, IngestReceive(p, r) \/ FilesReceive(p, r) \/ RestoreReceive(p, r)
      PROVE  /\ pc[p] = "idle"
             /\ pc' = pc \/ \E l \in Ingesting \cup {"idle"} : Goto(p, l)
  BY <1>5 DEF IngestReceive, FilesReceive, RestoreReceive, Accept, Sends, Ingesting
<1>6. ASSUME TransformText(p) \/ TransformFiles(p) \/ Situate(p)
      PROVE  /\ pc[p] \in Ingesting
             /\ pc' = pc \/ \E l \in Ingesting \cup {"idle"} : Goto(p, l)
  BY <1>6 DEF TransformText, TransformFiles, Situate, End, At, Ingesting
<1>7. ASSUME Embed(p) \/ Apply(p) \/ Save(p)
      PROVE  /\ pc[p] \in Ingesting
             /\ pc' = pc \/ \E l \in Ingesting \cup {"idle"} : Goto(p, l)
  BY <1>7 DEF Embed, Apply, Save, End, At, Ingesting
<1>8. /\ pc[p] \in Editing \cup Ingesting \cup {"idle"}
      /\ pc' = pc \/ \E l \in Editing \cup Ingesting \cup {"idle"} : Goto(p, l)
  BY <1>4, <1>5, <1>6, <1>7 DEF Ingest
<1> QED BY <1>2, <1>3, <1>8

\* The store that a request asks stays, whatever step is taken.
LEMMA StaysToAsk ==
  ASSUME Typed, NEW p \in Clients, ClientStep(p), NEW b \in Buckets, SoundStore(srv.stores[b])
  PROVE  SoundStore(srv'.stores[b])
<1>1. srv.stores[b] # NULL
  BY NullIsNone DEF SoundStore
<1> QED BY <1>1 DEF ClientStep, StoreStep

\* A request that asks goes on with the same request.
LEMMA TalkGoesOn ==
  ASSUME Typed, NEW p \in Clients, pc[p] \in Talking, TalkTyped(pc[p], task[p]), HasTalk(p), QuietStep(p),
         NEW l, NEW t, pc'[p] = l, task'[p] = t, t.req = task[p].req, TalkTyped(l, t)
  PROVE  TalkTyped(pc'[p], task'[p]) /\ HasTalk(p)'
<1>1. task[p].req \in Asking
  BY DEF TalkTyped
<1>2. task[p].req.bucket \in Buckets
  BY <1>1, AskingType
<1>3. SoundStore(srv.stores[task[p].req.bucket])
  BY DEF HasTalk, Store
<1>4. SoundStore(srv'.stores[task[p].req.bucket])
  BY <1>2, <1>3, StaysToAsk DEF QuietStep
<1> QED BY <1>4 DEF HasTalk, Store

LEMMA OneOf ==
  ASSUME NEW S, NEW e \in S
  PROVE  <<e>> \in Seq(S) /\ DOMAIN <<e>> = 1..1 /\ <<e>> \in [1..1 -> S] /\ \A i \in 1..1 : <<e>>[i] = e
<1>1. <<e>> \in Seq(S)
  OBVIOUS
<1>2. DOMAIN <<e>> = 1..1 /\ <<e>>[1] = e
  OBVIOUS
<1>3. <<e>> = [n \in 1..1 |-> e]
  OBVIOUS
<1> QED BY <1>1, <1>2, <1>3

\* A request that was looking for other queries, in hops that have not been tried.
LEMMA SplitAgain ==
  ASSUME NEW u, Sought(u), NEW subs \in Seq(Queries), NEW hops \in [DOMAIN subs -> Shows \cup {NULL}]
  PROVE  Sought([u EXCEPT !.subs = subs, !.hops = hops]) /\ [u EXCEPT !.subs = subs, !.hops = hops].req = u.req
<1> DEFINE t == [u EXCEPT !.subs = subs, !.hops = hops]
<1>1. u = [req |-> u.req, model |-> u.model, query |-> u.query, hops |-> u.hops, subs |-> u.subs, failed |-> u.failed]
  BY DEF Sought
<1>2. t = [req |-> u.req, model |-> u.model, query |-> u.query, hops |-> hops, subs |-> subs, failed |-> u.failed]
  <2>1. ASSUME NEW r, NEW m, NEW q, NEW h, NEW s, NEW f,
               u = [req |-> r, model |-> m, query |-> q, hops |-> h, subs |-> s, failed |-> f]
        PROVE  t = [req |-> r, model |-> m, query |-> q, hops |-> hops, subs |-> subs, failed |-> f]
    <3> DEFINE v == [u EXCEPT !.subs = subs]
    <3>1. v = [req |-> r, model |-> m, query |-> q, hops |-> h, subs |-> subs, failed |-> f]
      BY <2>1
    <3>2. t = [v EXCEPT !.hops = hops]
      BY <2>1
    <3> HIDE DEF v, t
    <3> QED BY <3>1, <3>2
  <2> HIDE DEF t
  <2> QED BY <1>1, <2>1
<1> HIDE DEF t
<1>3. t.req = u.req /\ t.model = u.model /\ t.query = u.query /\ t.hops = hops /\ t.subs = subs /\ t.failed = u.failed
  BY ONLY <1>2
<1>4. t.query \in Queries /\ t.failed \in BOOLEAN
  BY <1>3 DEF Sought
<1>5. t = [req |-> t.req, model |-> t.model, query |-> t.query, hops |-> t.hops, subs |-> t.subs, failed |-> t.failed]
  BY ONLY <1>2, <1>3
<1>6. t.hops \in [DOMAIN t.subs -> Shows \cup {NULL}]
  BY <1>3
<1>7. Sought(t)
  BY <1>3, <1>4, <1>5, <1>6 DEF Sought
<1> QED BY <1>3, <1>7 DEF t

LEMMA TalkAsked ==
  ASSUME Typed, NEW p \in Clients, NEW r \in Requests,
         ChatReceive(p, r) \/ CompletionReceive(p, r) \/ QueryReceive(p, r)
  PROVE  TalkTyped(pc'[p], task'[p]) /\ HasTalk(p)'
<1>1. pc[p] = "idle" /\ srv # NULL /\ r \in Asking
  BY SendsActs DEF ChatReceive, CompletionReceive, QueryReceive, Asking, AsksQuestion
<1>2. r.bucket \in Buckets /\ r.query \in Queries
  BY <1>1, AskingType
<1>3. CASE UNCHANGED <<serverVars, pc, task>>
  <2>1. pc'[p] \notin Talking
    BY <1>1, <1>3, TalkLabels
  <2> QED BY <2>1, IdleTalk DEF HasTalk
<1>4. ASSUME NEW l \in {"chat: rewrite", "chat: hops"}, Asked(p, r, l)
      PROVE  TalkTyped(pc'[p], task'[p]) /\ HasTalk(p)'
  <2> DEFINE t == [req |-> r, model |-> Model(r), query |-> r.query, hops |-> <<NULL>>, subs |-> <<r.query>>,
                   failed |-> FALSE]
             st == GetOrCreate(r.bucket)
  <2>1. srv' = [srv EXCEPT !.stores[r.bucket] = st] /\ Goto(p, l) /\ Set(p, t)
    BY <1>4 DEF Asked
  <2>2. SoundStore(st)
    BY <1>1, <1>2, GetOrCreateSound
  <2> HIDE DEF st
  <2>3. srv'.stores[r.bucket] = st
    BY <1>1, <1>2, <2>1, <2>2, StoreSet
  <2>4. t.subs \in Seq(Queries) /\ t.hops \in [DOMAIN t.subs -> Shows \cup {NULL}]
    <3>1. <<r.query>> \in Seq(Queries) /\ DOMAIN <<r.query>> = 1..1
      BY <1>2, OneOf
    <3>2. <<NULL>> \in [1..1 -> {NULL}]
      BY OneOf
    <3> QED BY <3>1, <3>2
  <2>5. /\ t.req = r /\ t.query = r.query /\ t.failed \in BOOLEAN
        /\ t = [req |-> t.req, model |-> t.model, query |-> t.query, hops |-> t.hops, subs |-> t.subs,
                failed |-> t.failed]
    OBVIOUS
  <2> HIDE DEF t
  <2>6. Sought(t)
    BY <1>2, <2>4, <2>5 DEF Sought
  <2>7. TalkTyped(l, t)
    BY <1>1, <2>5, <2>6 DEF TalkTyped
  <2>8. pc'[p] = l /\ task'[p] = t
    BY <2>1, Moved
  <2> QED BY <2>2, <2>3, <2>5, <2>7, <2>8 DEF HasTalk, Store
<1> QED BY <1>3, <1>4 DEF ChatReceive, CompletionReceive, QueryReceive

LEMMA TalkEnds ==
  ASSUME Typed, NEW p \in Clients, End(p)
  PROVE  TalkTyped(pc'[p], task'[p]) /\ HasTalk(p)' /\ pc'[p] = "idle"
<1>1. pc'[p] = "idle"
  BY Ended
<1> QED BY <1>1, TalkLabels, IdleTalk DEF HasTalk

\* A step of a request that asks.
TalkStep(p) == Typed /\ TalkTyped(pc[p], task[p]) /\ HasTalk(p) /\ QuietStep(p)

LEMMA TalkRewrites ==
  ASSUME NEW p \in Clients, TalkStep(p), Rewrite(p)
  PROVE  TalkTyped(pc'[p], task'[p]) /\ HasTalk(p)'
<1>1. pc[p] = "chat: rewrite" /\ "chat: rewrite" \in Talking
  BY DEF Rewrite, At, Talking
<1>2. Sought(task[p]) /\ task[p].req \in Asking
  BY <1>1 DEF TalkStep, TalkTyped
<1>3. PICK q \in {task[p].query} \cup Rewrites[task[p].query] :
             Goto(p, "chat: split") /\ Set(p, [task[p] EXCEPT !.query = q])
  BY DEF Rewrite
<1>4. q \in Queries
  BY <1>2, <1>3, QuestionsAssumption DEF Sought
<1> DEFINE t == [task[p] EXCEPT !.query = q]
<1>5. Sought(t) /\ t.req = task[p].req
  BY <1>2, <1>4 DEF Sought
<1> HIDE DEF t
<1>6. TalkTyped("chat: split", t)
  BY <1>2, <1>5 DEF TalkTyped
<1>7. pc'[p] = "chat: split" /\ task'[p] = t
  BY <1>3, Moved DEF TalkStep, t
<1> QED BY <1>1, <1>5, <1>6, <1>7, TalkGoesOn DEF TalkStep

LEMMA TalkSplits ==
  ASSUME NEW p \in Clients, TalkStep(p), Split(p)
  PROVE  TalkTyped(pc'[p], task'[p]) /\ HasTalk(p)'
<1>1. pc[p] = "chat: split" /\ "chat: split" \in Talking
  BY DEF Split, At, Talking
<1>2. Sought(task[p]) /\ task[p].req \in Asking
  BY <1>1 DEF TalkStep, TalkTyped
<1>3. PICK subs \in {<<task[p].query>>} \cup Splits[task[p].query] :
             /\ Goto(p, "chat: hops")
             /\ Set(p, [task[p] EXCEPT !.subs = subs, !.hops = [i \in DOMAIN subs |-> NULL]])
  BY DEF Split
<1>4. subs \in Seq(Queries)
  <2>1. task[p].query \in Queries
    BY <1>2 DEF Sought
  <2>2. CASE subs = <<task[p].query>>
    BY <2>1, <2>2
  <2>3. CASE subs \in Splits[task[p].query]
    BY <2>1, <2>3, QuestionsAssumption
  <2> QED BY <1>3, <2>2, <2>3
<1> DEFINE hops == [i \in DOMAIN subs |-> NULL]
           t == [task[p] EXCEPT !.subs = subs, !.hops = hops]
<1>5. hops \in [DOMAIN subs -> Shows \cup {NULL}]
  OBVIOUS
<1>6. Sought(t) /\ t.req = task[p].req
  <2> HIDE DEF hops
  <2> QED BY <1>2, <1>4, <1>5, SplitAgain
<1> HIDE DEF t
<1>7. TalkTyped("chat: hops", t)
  BY <1>2, <1>6 DEF TalkTyped
<1>8. pc'[p] = "chat: hops" /\ task'[p] = t
  BY <1>3, Moved DEF TalkStep, t
<1> QED BY <1>1, <1>6, <1>7, <1>8, TalkGoesOn DEF TalkStep

\* What one hop leaves: an error, or what its query finds in the store at the time.
LEMMA TalkHopped ==
  ASSUME NEW p \in Clients, TalkStep(p), NEW i \in 1..5, Hop(p, i)
  PROVE  /\ TalkTyped(pc'[p], task'[p]) /\ HasTalk(p)'
         /\ \/ pc'[p] = "idle"
            \/ /\ pc'[p] = "chat: hops" /\ i \in DOMAIN task[p].subs /\ srv' = srv
               /\ \/ task'[p].failed
                  \/ \E res \in Retrieved(Store(p), task[p].subs[i], Candidates(task[p].req)) :
                       task'[p] = [task[p] EXCEPT !.hops[i] = res]
<1>1. /\ pc[p] = "chat: hops" /\ "chat: hops" \in Talking /\ i \in DOMAIN task[p].hops
      /\ At(p, "chat: hops")
  BY DEF Hop, At, Talking
<1>2. Sought(task[p]) /\ task[p].req \in Asking /\ SoundStore(Store(p))
  BY <1>1 DEF TalkStep, TalkTyped, HasTalk
<1>3. i \in DOMAIN task[p].subs /\ task[p].subs[i] \in Queries /\ Candidates(task[p].req) \in Nat
  <2> DEFINE subs == task[p].subs
  <2>1. DOMAIN task[p].hops = DOMAIN subs /\ subs \in Seq(Queries)
    BY <1>2 DEF Sought
  <2>2. Candidates(task[p].req) \in Nat
    BY <1>2, AskingType
  <2> HIDE DEF subs
  <2>3. i \in DOMAIN subs
    BY <1>1, <2>1
  <2>4. subs[i] \in Queries
    BY ONLY <2>1, <2>3
  <2> QED BY <2>2, <2>3, <2>4 DEF subs
<1>4. srv' # NULL
  BY NullIsNone DEF TalkStep, QuietStep, ClientStep
<1>5. CASE Recovered(p)
  BY <1>5, TalkEnds DEF TalkStep, Recovered
<1>6. ASSUME NEW res \in Shows, NEW f \in BOOLEAN, UNCHANGED <<srv, pc>>, NEW t,
             t = [task[p] EXCEPT !.hops[i] = res, !.failed = f], Set(p, t)
      PROVE  TalkTyped(pc'[p], task'[p]) /\ HasTalk(p)' /\ pc'[p] = "chat: hops" /\ task'[p] = t /\ srv' = srv
  <2> DEFINE hops == [task[p].hops EXCEPT ![i] = res]
  <2>1. hops \in [DOMAIN task[p].subs -> Shows \cup {NULL}]
    BY <1>2 DEF Sought
  <2>2. t = [task[p] EXCEPT !.hops = hops, !.failed = f]
    BY <1>2, <1>6 DEF Sought
  <2> HIDE DEF hops
  <2>3. Sought(t) /\ t.req = task[p].req
    BY <1>2, <2>1, <2>2 DEF Sought
  <2>4. TalkTyped("chat: hops", t)
    BY <1>2, <2>3 DEF TalkTyped
  <2>5. pc'[p] = "chat: hops" /\ task'[p] = t
    BY <1>1, <1>6 DEF Set, TalkStep, Typed
  <2> QED BY <1>1, <1>6, <2>3, <2>4, <2>5, TalkGoesOn DEF TalkStep
<1>7. CASE Set(p, [task[p] EXCEPT !.hops[i] = <<>>, !.failed = TRUE]) /\ UNCHANGED <<srv, pc>>
  <2> DEFINE t == [task[p] EXCEPT !.hops[i] = <<>>, !.failed = TRUE]
  <2>1. <<>> \in Shows
    BY DEF Shows
  <2>2. t.failed
    BY <1>2 DEF Sought
  <2>3. Set(p, t) /\ t = [task[p] EXCEPT !.hops[i] = <<>>, !.failed = TRUE]
    BY <1>7
  <2> HIDE DEF t
  <2> QED BY <1>3, <1>6, <1>7, <2>1, <2>2, <2>3
<1>8. ASSUME NEW res \in Retrieved(Store(p), task[p].subs[i], Candidates(task[p].req)),
             Set(p, [task[p] EXCEPT !.hops[i] = res]), UNCHANGED <<srv, pc>>
      PROVE  /\ TalkTyped(pc'[p], task'[p]) /\ HasTalk(p)'
             /\ pc'[p] = "chat: hops" /\ srv' = srv /\ task'[p] = [task[p] EXCEPT !.hops[i] = res]
  <2> DEFINE t == [task[p] EXCEPT !.hops[i] = res]
  <2>1. res \in Shows
    BY <1>2, <1>3, RetrievedOf DEF Shows
  <2>2. t = [task[p] EXCEPT !.hops[i] = res, !.failed = task[p].failed] /\ task[p].failed \in BOOLEAN
    BY <1>2 DEF Sought
  <2>3. Set(p, t)
    BY <1>8
  <2>4. TalkTyped(pc'[p], task'[p]) /\ HasTalk(p)' /\ pc'[p] = "chat: hops" /\ task'[p] = t /\ srv' = srv
    <3> HIDE DEF t
    <3> QED BY <1>6, <1>8, <2>1, <2>2, <2>3
  <2> QED BY <2>4
<1> QED BY <1>3, <1>4, <1>5, <1>7, <1>8 DEF Hop, Crash

LEMMA UnionShows ==
  ASSUME NEW N \in Nat, NEW hops \in [1..N -> Shows]
  PROVE  Union(hops) \in Shows
<1>1. hops \in [1..N -> Seq(Source)] /\ \A i \in 1..N : \A j \in DOMAIN hops[i] : Shown(hops[i][j])
  BY DEF Shows
<1> DEFINE U == Union(hops)
<1>2. /\ U \in Seq(Source)
      /\ \A n \in DOMAIN U : \E i \in 1..N : \E j \in DOMAIN hops[i] : U[n] = hops[i][j]
  BY <1>1, UnionOf
<1> HIDE DEF U
<1>3. \A n \in DOMAIN U : Shown(U[n])
  BY <1>1, <1>2
<1>4. U \in Shows
  BY <1>2, <1>3 DEF Shows
<1> QED BY <1>4 DEF U

LEMMA TalkMerges ==
  ASSUME NEW p \in Clients, TalkStep(p), Merge(p)
  PROVE  /\ TalkTyped(pc'[p], task'[p]) /\ HasTalk(p)'
         /\ \/ pc'[p] = "idle"
            \/ /\ pc[p] = "chat: hops" /\ pc'[p] = "chat: rank" /\ srv' = srv /\ ~task[p].failed
               /\ \A i \in DOMAIN task[p].hops : task[p].hops[i] # NULL
               /\ task'[p].req = task[p].req /\ task'[p].subs = task[p].subs
               /\ task'[p].res = Union(task[p].hops)
<1> DEFINE res == Union(task[p].hops)
           t == [req |-> task[p].req, model |-> task[p].model, subs |-> task[p].subs, res |-> res]
<1>1. /\ pc[p] = "chat: hops" /\ "chat: hops" \in Talking /\ srv' = srv
      /\ \A i \in DOMAIN task[p].hops : task[p].hops[i] # NULL
      /\ End(p) \/ (~task[p].failed /\ Goto(p, "chat: rank") /\ Set(p, t))
  BY DEF Merge, At, Talking, serverVars
<1>2. Sought(task[p]) /\ task[p].req \in Asking
  BY <1>1 DEF TalkStep, TalkTyped
<1>3. CASE End(p)
  BY <1>3, TalkEnds DEF TalkStep
<1>4. CASE ~task[p].failed /\ Goto(p, "chat: rank") /\ Set(p, t)
  <2>1. res \in Shows
    <3> DEFINE hops == task[p].hops
               subs == task[p].subs
    <3>1. subs \in Seq(Queries) /\ hops \in [DOMAIN subs -> Shows \cup {NULL}] /\ \A i \in DOMAIN hops : hops[i] # NULL
      BY <1>1, <1>2 DEF Sought
    <3> HIDE DEF hops, subs
    <3>2. Len(subs) \in Nat /\ DOMAIN subs = 1..Len(subs)
      BY ONLY <3>1
    <3>3. hops \in [1..Len(subs) -> Shows]
      BY <3>1, <3>2
    <3> QED BY <3>2, <3>3, UnionShows DEF hops
  <2>2. t.req = task[p].req /\ t.subs = task[p].subs /\ t.res = res /\ t.subs \in Seq(Queries)
    BY <1>2 DEF Sought
  <2>3. pc'[p] = "chat: rank" /\ task'[p] = t
    BY <1>4, Moved DEF TalkStep
  <2> HIDE DEF t, res
  <2>4. TalkTyped("chat: rank", t)
    BY <1>2, <2>1, <2>2 DEF TalkTyped
  <2>5. TalkTyped(pc'[p], task'[p]) /\ HasTalk(p)'
    BY <1>1, <2>2, <2>3, <2>4, TalkGoesOn DEF TalkStep
  <2> QED BY <1>1, <1>4, <2>2, <2>3, <2>5 DEF res
<1> QED BY <1>1, <1>3, <1>4

LEMMA TalkRanks ==
  ASSUME NEW p \in Clients, TalkStep(p), Rank(p)
  PROVE  /\ TalkTyped(pc'[p], task'[p]) /\ HasTalk(p)'
         /\ pc[p] = "chat: rank" /\ pc'[p] \in {"idle", "chat: expand"}
<1> DEFINE r == task[p].req
           res == task[p].res
<1>1. pc[p] = "chat: rank" /\ "chat: rank" \in Talking
  BY DEF Rank, At, Talking
<1>2. res \in Shows /\ r \in Asking
  BY <1>1 DEF TalkStep, TalkTyped
<1>3. \E o \in Reranked(res) \cup {[n \in DOMAIN res |-> n]} :
        \/ End(p)
        \/ /\ Set(p, [req |-> r, model |-> task[p].model, passages |-> <<>>,
                      res |-> First(r.topK, [n \in DOMAIN o |-> res[o[n]]])])
           /\ Goto(p, "chat: expand")
  BY DEF Rank
<1>4. CASE End(p)
  BY <1>1, <1>4, TalkEnds DEF TalkStep
<1>5. ASSUME NEW o \in Reranked(res) \cup {[n \in DOMAIN res |-> n]},
             Set(p, [req |-> r, model |-> task[p].model, passages |-> <<>>,
                     res |-> First(r.topK, [n \in DOMAIN o |-> res[o[n]]])]),
             Goto(p, "chat: expand")
      PROVE  TalkTyped(pc'[p], task'[p]) /\ HasTalk(p)' /\ pc'[p] = "chat: expand"
  <2> DEFINE all == [n \in DOMAIN o |-> res[o[n]]]
             k == r.topK
             best == First(k, all)
             t == [req |-> r, model |-> task[p].model, passages |-> <<>>, res |-> best]
  <2>1. o \in [DOMAIN res -> DOMAIN res]
    BY DEF Reranked
  <2>2. all \in Shows
    <3> HIDE DEF res
    <3>1. res \in Seq(Source) /\ \A n \in DOMAIN res : Shown(res[n])
      BY <1>2 DEF Shows
    <3>2. DOMAIN res = 1..Len(res) /\ Len(res) \in Nat /\ \A n \in DOMAIN res : res[n] \in Source
      BY ONLY <3>1
    <3>3. DOMAIN o = DOMAIN res /\ \A n \in DOMAIN o : o[n] \in DOMAIN res
      BY <2>1
    <3>4. DOMAIN all = 1..Len(res) /\ \A n \in DOMAIN all : all[n] \in Source /\ Shown(all[n])
      BY <3>1, <3>2, <3>3
    <3>5. all = [n \in 1..Len(res) |-> all[n]]
      BY <3>2, <3>3
    <3> HIDE DEF all
    <3>6. all \in [1..Len(res) -> Source]
      BY <3>4, <3>5
    <3>7. all \in Seq(Source)
      BY <3>2, <3>6
    <3> QED BY <3>4, <3>7 DEF Shows
  <2> HIDE DEF all
  <2>3. best \in Shows
    <3>1. k \in Nat
      BY <1>2, AskingType
    <3> HIDE DEF k
    <3>2. all \in Seq(Source)
      BY <2>2 DEF Shows
    <3>3. best \in Seq(Source)
      BY ONLY <3>1, <3>2, FirstOf
    <3>4. DOMAIN best \subseteq DOMAIN all
      BY ONLY <3>1, <3>2, FirstOf
    <3>5. \A n \in DOMAIN best : best[n] = all[n]
      BY ONLY <3>1, <3>2, FirstOf
    <3> HIDE DEF best
    <3> QED BY <2>2, <3>3, <3>4, <3>5 DEF Shows
  <2>4. pc'[p] = "chat: expand" /\ task'[p] = t
    BY <1>5, Moved DEF TalkStep, all
  <2> HIDE DEF best
  <2>5. /\ t.req = r /\ t.res = best /\ t.passages \in Seq(Seq(Texts))
        /\ t = [req |-> t.req, model |-> t.model, passages |-> t.passages, res |-> t.res]
    OBVIOUS
  <2> HIDE DEF t
  <2>6. TalkTyped("chat: expand", t)
    BY <1>2, <2>3, <2>5 DEF TalkTyped
  <2> QED BY <1>1, <2>4, <2>5, <2>6, TalkGoesOn DEF TalkStep
<1> QED BY <1>1, <1>3, <1>4, <1>5

\* What a window takes of a document: consecutive texts of it, around the one asked for.
LEMMA WindowOf ==
  ASSUME NEW st, SoundStore(st), NEW id \in Docs \X Nat, NEW window \in Nat
  PROVE  /\ ExpandWindow(st, id, window) \in Seq(Texts)
         /\ id[2] \in Positions(st, id[1]) =>
              /\ ExpandWindow(st, id, window) # <<>>
              /\ \E lo, hi \in Positions(st, id[1]) :
                   /\ id[2] \in lo..hi /\ id[2] <= lo + window /\ hi <= id[2] + window
                   /\ ExpandWindow(st, id, window) = SubSeq(Wording(st.docs[id[1]]), lo, hi)
<1> DEFINE d == id[1]
           k == id[2]
           near == {i \in Positions(st, d) : k <= i + window /\ i <= k + window}
           pieces == Ordered(near)
           wide == [n \in DOMAIN pieces |-> st.docs[d].chunks[pieces[n]].text]
<1>1. d \in Docs /\ k \in Nat
  OBVIOUS
<1>2. ExpandWindow(st, id, window) = IF k \in Positions(st, d) THEN wide ELSE <<>>
  BY DEF ExpandWindow
<1>3. CASE k \notin Positions(st, d)
  BY <1>2, <1>3
<1>4. CASE k \in Positions(st, d)
  <2> DEFINE whole == Wording(st.docs[d])
             L == Len(whole)
             lo == IF k > window THEN k - window ELSE 1
             hi == IF k + window <= L THEN k + window ELSE L
  <2>1. st.docs[d] # NULL
    BY <1>4 DEF Positions
  <2>2. /\ whole \in Seq(Texts) /\ Positions(st, d) = 1..L /\ L \in Nat
        /\ \A i \in 1..L : whole[i] = st.docs[d].chunks[i].text
    <3>1. /\ whole \in Seq(Texts) /\ DOMAIN whole = Positions(st, d) /\ Positions(st, d) = 1..L
          /\ \A i \in Positions(st, d) : whole[i] = st.docs[d].chunks[i].text
      BY <1>1, <2>1, PositionsOf
    <3> HIDE DEF whole
    <3> QED BY <3>1
  <2> HIDE DEF whole, L
  <2>3. /\ lo \in 1..L /\ hi \in 1..L /\ lo <= hi /\ k \in lo..hi
        /\ k <= lo + window /\ hi <= k + window /\ lo \in Nat /\ hi \in Nat /\ lo <= hi + 1
    BY <1>1, <1>4, <2>2
  <2>4. near = lo..hi
    BY <1>1, <2>2
  <2> HIDE DEF lo, hi, near, d, k
  <2> DEFINE m == hi - lo + 1
  <2>5. pieces = [n \in 1..m |-> lo + n - 1]
    BY <2>3, <2>4, SegmentOrdered
  <2>6. m \in Nat /\ m # 0 /\ \A n \in 1..m : lo + n - 1 \in 1..L
    BY <2>2, <2>3
  <2> HIDE DEF pieces, m
  <2>7. wide = [n \in 1..m |-> whole[lo + n - 1]]
    BY <2>2, <2>5, <2>6
  <2>8. SubSeq(whole, lo, hi) = [n \in 1..m |-> whole[lo + n - 1]]
    BY <2>2, <2>3 DEF m
  <2> HIDE DEF wide
  <2>9. \A n \in 1..m : whole[lo + n - 1] \in Texts
    <3>1. \A i \in 1..L : whole[i] \in Texts
      BY <2>2 DEF L
    <3> QED BY <2>6, <3>1
  <2>10. wide \in [1..m -> Texts] /\ wide \in Seq(Texts)
    BY <2>6, <2>7, <2>9
  <2>11. wide # <<>>
    <3>1. 1 \in DOMAIN wide
      BY <2>6, <2>7
    <3> QED BY <3>1
  <2> QED BY <1>2, <1>4, <2>2, <2>3, <2>7, <2>8, <2>10, <2>11 DEF d, k, whole
<1> QED BY <1>3, <1>4

\* A passage is put before the model: consecutive text of the document of its source.
Widens(p) ==
  LET n      == Len(task'[p].passages)
      source == task[p].res[n]
      window == task[p].req.window
      doc    == Store(p).docs[source.id[1]]
  IN  doc # NULL /\ Wording(doc) = source.whole =>
        \E lo, hi \in DOMAIN source.whole :
          /\ source.id[2] \in lo..hi /\ source.whole[source.id[2]] = source.text
          /\ source.id[2] <= lo + window /\ hi <= source.id[2] + window
          /\ task'[p].passages[n] = SubSeq(source.whole, lo, hi)

\* A source by itself is its document from its position to its position.
LEMMA JustOne ==
  ASSUME NEW whole \in Seq(Texts), NEW k \in DOMAIN whole, NEW text, whole[k] = text
  PROVE  SubSeq(whole, k, k) = <<text>>
<1>1. k \in Nat /\ k \in 1..Len(whole) /\ Len(whole) \in Nat
  OBVIOUS
<1>2. SubSeq(whole, k, k) = [n \in 1..(1 + k - k) |-> whole[k + n - 1]]
  <2>1. \A lo, hi \in 1..Len(whole) : SubSeq(whole, lo, hi) = [n \in 1..(1 + hi - lo) |-> whole[lo + n - 1]]
    OBVIOUS
  <2> QED BY <1>1, <2>1
<1>3. 1 + k - k = 1 /\ \A n \in 1..1 : k + n - 1 = k
  BY <1>1
<1>4. SubSeq(whole, k, k) = [n \in 1..1 |-> text]
  BY <1>2, <1>3
<1>5. <<text>> = [n \in 1..1 |-> text]
  OBVIOUS
<1> QED BY <1>4, <1>5

LEMMA TalkExpands ==
  ASSUME NEW p \in Clients, TalkStep(p), Expand(p)
  PROVE  TalkTyped(pc'[p], task'[p]) /\ HasTalk(p)' /\ Widens(p) /\ pc[p] = "chat: expand"
<1> DEFINE passages == task[p].passages
           m == Len(passages) + 1
           res == task[p].res
           source == res[m]
           window == task[p].req.window
           st == Store(p)
           wide == IF window > 0 THEN ExpandWindow(st, source.id, window) ELSE <<>>
           passage == IF wide = <<>> THEN <<source.text>> ELSE wide
           t == [task[p] EXCEPT !.passages = Append(passages, passage)]
<1>1. /\ pc[p] = "chat: expand" /\ "chat: expand" \in Talking /\ pc' = pc /\ Len(passages) < Len(res)
      /\ Set(p, [task[p] EXCEPT !.passages = Append(@, passage)])
  BY DEF Expand, At, Talking
<1>2. /\ task[p].req \in Asking /\ res \in Shows /\ passages \in Seq(Seq(Texts)) /\ SoundStore(st)
      /\ task[p] = [req |-> task[p].req, model |-> task[p].model, passages |-> passages, res |-> res]
  BY <1>1 DEF TalkStep, TalkTyped, HasTalk
<1>3. window \in Nat
  BY <1>2, AskingType
<1>4. Set(p, t)
  BY <1>1, <1>2
<1> HIDE DEF passages, res
<1>5. m \in 1..Len(res) /\ m \in Nat /\ source \in Source /\ Shown(source)
  <2>1. Len(passages) \in Nat /\ res \in Seq(Source) /\ \A n \in DOMAIN res : Shown(res[n])
    BY <1>2 DEF Shows
  <2>2. m \in Nat /\ m \in 1..Len(res)
    <3>1. Len(res) \in Nat
      BY ONLY <2>1
    <3>2. Len(passages) < Len(res)
      BY <1>1
    <3> QED BY <2>1, <3>1, <3>2
  <2>3. DOMAIN res = 1..Len(res) /\ \A n \in DOMAIN res : res[n] \in Source
    BY ONLY <2>1
  <2> HIDE DEF m
  <2> QED BY <2>1, <2>2, <2>3
<1> HIDE DEF source, window, st
<1>6. /\ source.id \in Docs \X Nat /\ source.text \in Texts /\ source.whole \in Seq(Texts)
      /\ source.id[2] \in DOMAIN source.whole /\ source.whole[source.id[2]] = source.text
  BY <1>5 DEF Source, Shown
<1> DEFINE id == source.id
           k == id[2]
           whole == source.whole
<1>7. k \in Nat /\ id[1] \in Docs /\ ExpandWindow(st, id, window) \in Seq(Texts)
  <2>1. k \in Nat /\ id[1] \in Docs
    BY <1>6
  <2> QED BY <1>2, <1>3, <1>6, <2>1, WindowOf
<1>8. passage \in Seq(Texts)
  BY <1>6, <1>7, OneOf
<1>9. ASSUME st.docs[id[1]] # NULL, Wording(st.docs[id[1]]) = whole
      PROVE  \E lo, hi \in DOMAIN whole :
               /\ k \in lo..hi /\ k <= lo + window /\ hi <= k + window
               /\ passage = SubSeq(whole, lo, hi)
  <2>1. Positions(st, id[1]) = DOMAIN whole
    BY <1>2, <1>7, <1>9, PositionsOf
  <2>2. CASE window > 0
    <3>1. /\ ExpandWindow(st, id, window) # <<>>
          /\ \E lo, hi \in DOMAIN whole :
               /\ k \in lo..hi /\ k <= lo + window /\ hi <= k + window
               /\ ExpandWindow(st, id, window) = SubSeq(whole, lo, hi)
      <4>1. id \in Docs \X Nat /\ id[2] \in Positions(st, id[1])
        BY <1>6, <2>1
      <4> HIDE DEF id
      <4>2. /\ ExpandWindow(st, id, window) # <<>>
            /\ \E lo, hi \in Positions(st, id[1]) :
                 /\ id[2] \in lo..hi /\ id[2] <= lo + window /\ hi <= id[2] + window
                 /\ ExpandWindow(st, id, window) = SubSeq(Wording(st.docs[id[1]]), lo, hi)
        BY <1>2, <1>3, <4>1, WindowOf
      <4> HIDE DEF whole
      <4> QED BY <1>9, <2>1, <4>2
    <3> QED BY <2>2, <3>1
  <2>3. CASE ~(window > 0)
    <3>1. passage = <<source.text>>
      BY <2>3
    <3>2. SubSeq(whole, k, k) = <<source.text>>
      BY <1>6, JustOne
    <3>3. k \in DOMAIN whole /\ k \in k..k /\ k <= k + window /\ k <= k + window
      BY <1>3, <1>6, <1>7
    <3> HIDE DEF passage, whole, k
    <3> QED BY <3>1, <3>2, <3>3
  <2> QED BY <2>2, <2>3
<1> HIDE DEF passage, id, k, whole
<1>10. pc'[p] = "chat: expand" /\ task'[p] = t
  BY <1>1, <1>4 DEF Set, TalkStep, Typed
<1>11. /\ t.req = task[p].req /\ t.res = res /\ t.passages = Append(passages, passage)
       /\ t = [req |-> t.req, model |-> t.model, passages |-> t.passages, res |-> t.res]
  <2> DEFINE more == Append(passages, passage)
  <2> HIDE DEF more
  <2>1. t = [task[p] EXCEPT !.passages = more]
    BY DEF more
  <2> HIDE DEF t
  <2>2. t = [req |-> task[p].req, model |-> task[p].model, passages |-> more, res |-> res]
    BY <1>2, <2>1
  <2> QED BY <2>2 DEF more
<1>12. t.passages \in Seq(Seq(Texts)) /\ Len(t.passages) = m /\ t.passages[m] = passage
  BY <1>2, <1>8, <1>11
<1> HIDE DEF t, m
<1>13. TalkTyped("chat: expand", t)
  BY <1>2, <1>11, <1>12 DEF TalkTyped
<1>14. TalkTyped(pc'[p], task'[p]) /\ HasTalk(p)'
  BY <1>1, <1>10, <1>11, <1>13, TalkGoesOn DEF TalkStep
<1>15. Widens(p)
  <2>1. Len(task'[p].passages) = m /\ task'[p].passages[m] = passage
    BY <1>10, <1>12
  <2>2. task[p].res[m] = source /\ task[p].req.window = window /\ Store(p) = st
    BY DEF source, res, window, st
  <2>3. st.docs[source.id[1]] # NULL /\ Wording(st.docs[source.id[1]]) = source.whole =>
          \E lo, hi \in DOMAIN source.whole :
            /\ source.id[2] \in lo..hi /\ source.whole[source.id[2]] = source.text
            /\ source.id[2] <= lo + window /\ hi <= source.id[2] + window
            /\ passage = SubSeq(source.whole, lo, hi)
    BY <1>6, <1>9 DEF id, k, whole
  <2> QED BY <2>1, <2>2, <2>3 DEF Widens
<1> QED BY <1>1, <1>14, <1>15

LEMMA TalkAnswers ==
  ASSUME NEW p \in Clients, TalkStep(p), Answer(p) \/ Complete(p) \/ Verify(p)
  PROVE  /\ TalkTyped(pc'[p], task'[p]) /\ HasTalk(p)'
         /\ pc[p] \in {"chat: expand", "chat: verify"} /\ pc'[p] \in {"idle", "chat: verify"}
<1>1. /\ pc[p] \in {"chat: expand", "chat: verify"}
      /\ End(p) \/ (Goto(p, "chat: verify") /\ UNCHANGED task)
  BY DEF Answer, Complete, Verify, Prompted, At
<1>2. pc[p] \in Talking /\ task[p].req \in Asking
  BY <1>1 DEF Talking, TalkStep, TalkTyped
<1>3. CASE End(p)
  BY <1>1, <1>3, TalkEnds DEF TalkStep
<1>4. CASE Goto(p, "chat: verify") /\ UNCHANGED task
  <2>1. pc'[p] = "chat: verify" /\ task'[p] = task[p]
    BY <1>4 DEF Goto, TalkStep, Typed
  <2>2. TalkTyped("chat: verify", task[p])
    BY <1>2 DEF TalkTyped
  <2> QED BY <1>1, <1>2, <2>1, <2>2, TalkGoesOn DEF TalkStep
<1> QED BY <1>1, <1>3, <1>4

\* Every step of a client leaves it with what it needs to go on.
LEMMA TalkTaken ==
  ASSUME Typed, Talks, NEW p \in Clients, Post(p) \/ Ingest(p) \/ Chat(p), ~Crashed
  PROVE  /\ TalkTyped(pc'[p], task'[p]) /\ HasTalk(p)'
         /\ pc[p] = "chat: expand" /\ pc'[p] = "chat: expand" /\ task'[p] # task[p] => Widens(p)
<1>1. CASE Post(p) \/ Ingest(p)
  <2>1. pc[p] \notin Talking /\ pc'[p] \notin Talking
    BY <1>1, NoTalk
  <2> QED BY <2>1, IdleTalk DEF HasTalk, Talking
<1>2. CASE Chat(p)
  <2>1. TalkStep(p)
    BY <1>2, ChatStep DEF TalkStep, Talks
  <2>2. ASSUME NEW r \in Requests, ChatReceive(p, r) \/ CompletionReceive(p, r) \/ QueryReceive(p, r)
        PROVE  TalkTyped(pc'[p], task'[p]) /\ HasTalk(p)' /\ pc[p] = "idle"
    BY <2>2, TalkAsked DEF ChatReceive, CompletionReceive, QueryReceive, Sends
  <2>3. Rewrite(p) => TalkTyped(pc'[p], task'[p]) /\ HasTalk(p)' /\ pc[p] = "chat: rewrite"
    BY <2>1, TalkRewrites DEF Rewrite, At
  <2>4. Split(p) => TalkTyped(pc'[p], task'[p]) /\ HasTalk(p)' /\ pc[p] = "chat: split"
    BY <2>1, TalkSplits DEF Split, At
  <2>5. ASSUME NEW i \in 1..5, Hop(p, i) PROVE TalkTyped(pc'[p], task'[p]) /\ HasTalk(p)' /\ pc[p] = "chat: hops"
    BY <2>1, <2>5, TalkHopped DEF Hop, At
  <2>6. Merge(p) => TalkTyped(pc'[p], task'[p]) /\ HasTalk(p)' /\ pc[p] = "chat: hops"
    BY <2>1, TalkMerges DEF Merge, At
  <2> QED BY <1>2, <2>1, <2>2, <2>3, <2>4, <2>5, <2>6, TalkRanks, TalkExpands, TalkAnswers DEF Chat
<1> QED BY <1>1, <1>2

LEMMA TalksNext ==
  ASSUME Typed, Talks, [Next]_vars
  PROVE  /\ Talks'
         /\ \A p \in Clients : pc[p] = "chat: expand" /\ pc'[p] = "chat: expand" /\ task'[p] # task[p] => Widens(p)
<1>1. CASE \A p \in Clients : pc'[p] = "idle"
  BY <1>1, TalkLabels, IdleTalk DEF Talks, HasTalk
<1>2. CASE UNCHANGED vars
  BY <1>2 DEF vars, serverVars, Talks, HasTalk, Store
<1>3. ASSUME NEW p \in Clients, Post(p) \/ Ingest(p) \/ Chat(p), ~Crashed
      PROVE  /\ Talks'
             /\ \A q \in Clients : pc[q] = "chat: expand" /\ pc'[q] = "chat: expand" /\ task'[q] # task[q] => Widens(q)
  <2>1. ClientStep(p)
    BY <1>3, ClientStepTaken
  <2>2. /\ TalkTyped(pc'[p], task'[p]) /\ HasTalk(p)'
        /\ pc[p] = "chat: expand" /\ pc'[p] = "chat: expand" /\ task'[p] # task[p] => Widens(p)
    BY <1>3, TalkTaken
  <2>3. ASSUME NEW q \in Clients \ {p} PROVE TalkTyped(pc'[q], task'[q]) /\ HasTalk(q)' /\ task'[q] = task[q]
    <3>1. pc'[q] = pc[q] /\ task'[q] = task[q]
      BY <2>1 DEF ClientStep, Others
    <3>2. TalkTyped(pc[q], task[q]) /\ HasTalk(q)
      BY DEF Talks
    <3>3. ASSUME pc[q] \in Talking PROVE SoundStore(srv'.stores[task[q].req.bucket])
      <4>1. task[q].req.bucket \in Buckets /\ SoundStore(srv.stores[task[q].req.bucket])
        BY <3>2, <3>3, AskingType DEF TalkTyped, HasTalk, Store
      <4> QED BY <2>1, <4>1, StaysToAsk
    <3>4. TalkTyped(pc'[q], task'[q])
      BY <3>1, <3>2
    <3> QED BY <3>1, <3>3, <3>4 DEF HasTalk, Store
  <2> QED BY <2>2, <2>3 DEF Talks
<1>4. Restarted \/ Removed => \A p \in Clients : pc'[p] = "idle"
  BY DEF Restarted, Removed, Typed
<1> QED BY <1>1, <1>2, <1>3, <1>4, ServerSteps DEF Crashed

LEMMA TalksInit == Init => Talks
<1>1. Init => \A p \in Clients : pc[p] = "idle"
  BY DEF Init
<1> QED BY <1>1, TalkLabels, IdleTalk DEF Talks, HasTalk

\* Whatever runs at once, a passage before a model is consecutive text of its source's
\* document around the text that was shown, within the window, unless that document was
\* replaced meanwhile (server/web.go handleChat, rag/document.go ExpandWindow).
THEOREM PromptsHoldSources == Spec => PromptHoldsSources
<1>1. Init => Typed /\ Talks
  BY TypedInit, TalksInit
<1>2. Typed /\ Talks /\ [Next]_vars => (Typed /\ Talks)'
  BY TypedNext, TalksNext
<1>3. Typed /\ Talks /\ [Next]_vars =>
        [\A p \in Clients :
           pc[p] = "chat: expand" /\ pc'[p] = "chat: expand" /\ task'[p] # task[p] =>
             LET n      == Len(task'[p].passages)
                 source == task[p].res[n]
                 window == task[p].req.window
                 doc    == Store(p).docs[source.id[1]]
             IN  doc # NULL /\ Wording(doc) = source.whole =>
                   \E lo, hi \in DOMAIN source.whole :
                     /\ source.id[2] \in lo..hi /\ source.whole[source.id[2]] = source.text
                     /\ source.id[2] <= lo + window /\ hi <= source.id[2] + window
                     /\ task'[p].passages[n] = SubSeq(source.whole, lo, hi)]_vars
  BY TalksNext DEF Widens
<1> QED BY <1>1, <1>2, <1>3, PTL DEF Spec, PromptHoldsSources

-----------------------------------------------------------------------------
(* A question that is split, of requests served one at a time.              *)

\* What the hops of the request t find in the store st.
AllFound(st, t) == [i \in DOMAIN t.subs |-> Found(st, t.subs[i], Candidates(t.req))]

HopsFind(l, st, t) ==
  /\ l = "chat: hops" /\ ~t.failed => \A i \in DOMAIN t.subs : t.hops[i] # NULL => t.hops[i] = AllFound(st, t)[i]
  /\ l = "chat: rank" => t.res = Union(AllFound(st, t))

HopsAlone ==
  Alone /\ srv # NULL =>
    \A p \in Clients : pc[p] \in Talking /\ Foreign(Store(p)) = {} => HopsFind(pc[p], Store(p), task[p])

\* What the step of p leaves it with.
LeftFound(p) ==
  pc'[p] \in Talking /\ Foreign(Store(p))' = {} => HopsFind(pc'[p], Store(p)', task'[p])

LEMMA HopsNotTried ==
  ASSUME NEW st, NEW t, \A i \in DOMAIN t.subs : t.hops[i] = NULL
  PROVE  HopsFind("chat: hops", st, t)
  BY DEF HopsFind

LEMMA FoundAsked ==
  ASSUME Typed, NEW p \in Clients, NEW r \in Requests,
         ChatReceive(p, r) \/ CompletionReceive(p, r) \/ QueryReceive(p, r)
  PROVE  LeftFound(p)
<1>1. pc[p] = "idle"
  BY SendsActs DEF ChatReceive, CompletionReceive, QueryReceive
<1>2. CASE UNCHANGED <<serverVars, pc, task>>
  BY <1>1, <1>2, TalkLabels DEF LeftFound
<1>3. ASSUME NEW l \in {"chat: rewrite", "chat: hops"}, Asked(p, r, l) PROVE LeftFound(p)
  <2> DEFINE t == [req |-> r, model |-> Model(r), query |-> r.query, hops |-> <<NULL>>, subs |-> <<r.query>>,
                   failed |-> FALSE]
  <2>1. Goto(p, l) /\ Set(p, t)
    BY <1>3 DEF Asked
  <2>2. \A i \in DOMAIN t.subs : t.hops[i] = NULL
    <3>1. t.subs = <<r.query>> /\ t.hops = <<NULL>>
      OBVIOUS
    <3>2. DOMAIN <<r.query>> = 1..1 /\ \A i \in 1..1 : <<NULL>>[i] = NULL
      BY OneOf
    <3> HIDE DEF t
    <3> QED BY <3>1, <3>2
  <2> HIDE DEF t
  <2>3. pc'[p] = l /\ task'[p] = t
    BY <2>1, Moved
  <2>4. HopsFind(l, Store(p)', t)
    BY <2>2, HopsNotTried DEF HopsFind
  <2> QED BY <2>3, <2>4 DEF LeftFound
<1> QED BY <1>2, <1>3 DEF ChatReceive, CompletionReceive, QueryReceive

LEMMA FoundSplit ==
  ASSUME NEW p \in Clients, TalkStep(p), Split(p)
  PROVE  LeftFound(p)
<1>1. pc[p] = "chat: split"
  BY DEF Split, At
<1>2. Sought(task[p])
  BY <1>1 DEF TalkStep, TalkTyped
<1>3. PICK subs : /\ Goto(p, "chat: hops")
                  /\ Set(p, [task[p] EXCEPT !.subs = subs, !.hops = [i \in DOMAIN subs |-> NULL]])
  BY DEF Split
<1> DEFINE hops == [i \in DOMAIN subs |-> NULL]
           u == [task[p] EXCEPT !.subs = subs]
           t == [task[p] EXCEPT !.subs = subs, !.hops = hops]
<1>4. t.subs = subs /\ t.hops = hops
  <2> HIDE DEF hops
  <2>1. t = [u EXCEPT !.hops = hops]
    BY <1>2 DEF Sought
  <2>2. u = [req |-> task[p].req, model |-> task[p].model, query |-> task[p].query, hops |-> task[p].hops,
             subs |-> subs, failed |-> task[p].failed]
    BY <1>2 DEF Sought
  <2> HIDE DEF t, u
  <2>3. t = [req |-> task[p].req, model |-> task[p].model, query |-> task[p].query, hops |-> hops,
             subs |-> subs, failed |-> task[p].failed]
    BY <2>1, <2>2
  <2> QED BY <2>3
<1>5. \A i \in DOMAIN subs : hops[i] = NULL
  OBVIOUS
<1> HIDE DEF t, hops
<1>6. HopsFind("chat: hops", Store(p)', t)
  BY <1>4, <1>5, HopsNotTried
<1>7. pc'[p] = "chat: hops" /\ task'[p] = t
  BY <1>3, Moved DEF TalkStep, t, hops
<1> QED BY <1>6, <1>7 DEF LeftFound

LEMMA FoundHopped ==
  ASSUME NEW p \in Clients, TalkStep(p), NEW i \in 1..5, Hop(p, i),
         Foreign(Store(p)) = {} => HopsFind(pc[p], Store(p), task[p])
  PROVE  LeftFound(p)
<1>1. pc[p] = "chat: hops" /\ "chat: hops" \in Talking
  BY DEF Hop, At, Talking
<1>2. Sought(task[p]) /\ task[p].req \in Asking /\ SoundStore(Store(p))
  BY <1>1 DEF TalkStep, TalkTyped, HasTalk
<1>3. CASE pc'[p] = "idle"
  BY <1>3, TalkLabels DEF LeftFound
<1>4. CASE pc'[p] = "chat: hops" /\ task'[p].failed
  BY <1>4 DEF LeftFound, HopsFind
<1>5. ASSUME pc'[p] = "chat: hops", i \in DOMAIN task[p].subs, srv' = srv,
             NEW res \in Retrieved(Store(p), task[p].subs[i], Candidates(task[p].req)),
             task'[p] = [task[p] EXCEPT !.hops[i] = res]
      PROVE  LeftFound(p)
  <2> DEFINE st == Store(p)
             u == task[p]
             hops == [u.hops EXCEPT ![i] = res]
             t == task'[p]
  <2>1. u \in {u} /\ Sought(u) /\ u.subs[i] \in Queries /\ Candidates(u.req) \in Nat
    <3> DEFINE subs == u.subs
    <3>1. subs \in Seq(Queries) /\ i \in DOMAIN subs
      BY <1>2, <1>5 DEF Sought
    <3> HIDE DEF subs
    <3>2. subs[i] \in Queries
      BY ONLY <3>1
    <3> QED BY <1>2, <3>2, AskingType DEF subs
  <2>2. t = [u EXCEPT !.hops = hops]
    BY <1>5
  <2> HIDE DEF t, hops
  <2>3. t.req = u.req /\ t.subs = u.subs /\ t.failed = u.failed /\ t.hops = hops
    <3>1. u = [req |-> u.req, model |-> u.model, query |-> u.query, hops |-> u.hops, subs |-> u.subs,
               failed |-> u.failed]
      BY <2>1 DEF Sought
    <3> HIDE DEF u
    <3>2. t = [req |-> u.req, model |-> u.model, query |-> u.query, hops |-> hops, subs |-> u.subs,
               failed |-> u.failed]
      BY ONLY <2>2, <3>1
    <3> QED BY <3>2
  <2>4. Store(p)' = st
    BY <1>5, <2>3 DEF Store, t
  <2> HIDE DEF st, u
  <2>5. SoundStore(st) /\ Foreign(st) = {} => res = Found(st, u.subs[i], Candidates(u.req))
    BY <1>2, <1>5, <2>1, RetrievedOf DEF st, u
  <2>6. ASSUME Foreign(st) = {}, ~t.failed, NEW j \in DOMAIN u.subs, hops[j] # NULL
        PROVE  hops[j] = Found(st, u.subs[j], Candidates(u.req))
    <3>1. j \in DOMAIN u.hops
      BY <2>1, <2>6 DEF Sought
    <3>2. CASE j = i
      BY <1>2, <2>5, <2>6, <3>1, <3>2 DEF hops, st
    <3>3. CASE j # i
      <4>1. hops[j] = u.hops[j]
        BY <3>1, <3>3 DEF hops
      <4>2. HopsFind("chat: hops", st, u)
        BY <1>1, <2>6 DEF st, u
      <4>3. u.hops[j] = AllFound(st, u)[j]
        BY <2>3, <2>6, <4>1, <4>2 DEF HopsFind
      <4> QED BY <2>6, <4>1, <4>3 DEF AllFound
    <3> QED BY <3>2, <3>3
  <2>7. Foreign(st) = {} => HopsFind("chat: hops", st, t)
    BY <2>3, <2>6 DEF HopsFind, AllFound
  <2> QED BY <1>5, <2>4, <2>7 DEF LeftFound, t
<1> QED BY <1>3, <1>4, <1>5, TalkHopped

LEMMA FoundMerged ==
  ASSUME NEW p \in Clients, TalkStep(p), Merge(p),
         Foreign(Store(p)) = {} => HopsFind(pc[p], Store(p), task[p])
  PROVE  LeftFound(p)
<1>1. CASE pc'[p] = "idle"
  BY <1>1, TalkLabels DEF LeftFound
<1>2. CASE /\ pc[p] = "chat: hops" /\ pc'[p] = "chat: rank" /\ srv' = srv /\ ~task[p].failed
           /\ \A i \in DOMAIN task[p].hops : task[p].hops[i] # NULL
           /\ task'[p].req = task[p].req /\ task'[p].subs = task[p].subs
           /\ task'[p].res = Union(task[p].hops)
  <2> DEFINE st == Store(p)
             u == task[p]
             t == task'[p]
  <2>1. Sought(u)
    BY <1>2 DEF TalkStep, TalkTyped
  <2>2. Store(p)' = st
    BY <1>2 DEF Store
  <2>3. t.req = u.req /\ t.subs = u.subs /\ t.res = Union(u.hops) /\ ~u.failed
        /\ \A i \in DOMAIN u.hops : u.hops[i] # NULL
    BY <1>2
  <2>4. Foreign(st) = {} => HopsFind("chat: hops", st, u)
    BY <1>2
  <2> HIDE DEF st, u, t
  <2>5. ASSUME Foreign(st) = {} PROVE u.hops = AllFound(st, u)
    <3>1. u.hops \in [DOMAIN u.subs -> Shows \cup {NULL}]
      BY <2>1 DEF Sought
    <3>2. \A i \in DOMAIN u.subs : u.hops[i] = AllFound(st, u)[i]
      BY <2>3, <2>4, <2>5, <3>1 DEF HopsFind
    <3>3. AllFound(st, u) = [i \in DOMAIN u.subs |-> AllFound(st, u)[i]]
      BY DEF AllFound
    <3> QED BY <3>1, <3>2, <3>3
  <2>6. AllFound(st, t) = AllFound(st, u)
    BY <2>3 DEF AllFound
  <2>7. Foreign(st) = {} => HopsFind("chat: rank", st, t)
    BY <2>3, <2>5, <2>6 DEF HopsFind
  <2> QED BY <1>2, <2>2, <2>7 DEF LeftFound, t
<1> QED BY <1>1, <1>2, TalkMerges

LEMMA FoundClient ==
  ASSUME Typed, Talks, NEW p \in Clients, Post(p) \/ Ingest(p) \/ Chat(p), ~Crashed,
         pc[p] \in Talking /\ Foreign(Store(p)) = {} => HopsFind(pc[p], Store(p), task[p])
  PROVE  LeftFound(p)
<1>1. CASE Post(p) \/ Ingest(p)
  BY <1>1, NoTalk DEF LeftFound
<1>2. CASE Chat(p)
  <2>1. TalkStep(p)
    BY <1>2, ChatStep DEF TalkStep, Talks
  <2>2. pc'[p] \notin {"chat: hops", "chat: rank"} => LeftFound(p)
    BY DEF LeftFound, HopsFind
  <2>3. Rewrite(p) => pc'[p] = "chat: split"
    BY <2>1 DEF Rewrite, Goto, TalkStep, Typed
  <2>4. ASSUME NEW i \in 1..5, Hop(p, i) PROVE LeftFound(p)
    <3>1. pc[p] \in Talking
      BY <2>4 DEF Hop, At, Talking
    <3> QED BY <2>1, <2>4, <3>1, FoundHopped
  <2>5. ASSUME Merge(p) PROVE LeftFound(p)
    <3>1. pc[p] \in Talking
      BY <2>5 DEF Merge, At, Talking
    <3> QED BY <2>1, <2>5, <3>1, FoundMerged
  <2>6. Rank(p) \/ Expand(p) \/ Answer(p) \/ Complete(p) \/ Verify(p) => pc'[p] \notin {"chat: hops", "chat: rank"}
    <3>1. Rank(p) => pc'[p] \in {"idle", "chat: expand"}
      BY <2>1, TalkRanks
    <3>2. Expand(p) => pc'[p] = "chat: expand"
      BY DEF Expand, At
    <3>3. Answer(p) \/ Complete(p) \/ Verify(p) => pc'[p] \in {"idle", "chat: verify"}
      BY <2>1, TalkAnswers
    <3> QED BY <3>1, <3>2, <3>3
  <2> QED BY <1>2, <2>1, <2>2, <2>3, <2>4, <2>5, <2>6, FoundAsked, FoundSplit DEF Chat, TalkStep
<1> QED BY <1>1, <1>2

LEMMA HopsAloneNext ==
  ASSUME Typed, OneAtATime, Talks, HopsAlone, [Next]_vars
  PROVE  HopsAlone'
<1>1. CASE \A p \in Clients : pc'[p] = "idle"
  BY <1>1, TalkLabels DEF HopsAlone
<1>2. CASE UNCHANGED vars
  <2>1. \A p \in Clients : Store(p)' = Store(p) /\ Foreign(Store(p))' = Foreign(Store(p))
    BY <1>2 DEF vars, serverVars, Store, Foreign, Places, Positions
  <2> QED BY <1>2, <2>1 DEF vars, serverVars, HopsAlone, Alone
<1>3. ASSUME NEW p \in Clients, Post(p) \/ Ingest(p) \/ Chat(p), ~Crashed PROVE HopsAlone'
  <2>1. ClientStep(p)
    BY <1>3, ClientStepTaken
  <2> SUFFICES ASSUME Alone PROVE \A q \in Clients : LeftFound(q)
    BY <2>1 DEF HopsAlone, LeftFound, ClientStep, Alone
  <2>2. LeftFound(p)
    BY <1>3, <2>1, FoundClient DEF HopsAlone, ClientStep
  <2>3. \A q \in Clients \ {p} : LeftFound(q)
    BY <2>1, OthersIdle, TalkLabels DEF LeftFound
  <2> QED BY <2>2, <2>3
<1>4. Restarted \/ Removed => \A p \in Clients : pc'[p] = "idle"
  BY DEF Restarted, Removed, Typed
<1> QED BY <1>1, <1>2, <1>3, <1>4, ServerSteps DEF Crashed

\* res is what the hops of the queries subs find in st, one after the other: each chunk
\* with its best score, the best first and then the first found.
Together(res, st, subs, k) ==
  LET hop(i)   == Found(st, subs[i], k)
      found    == UNION {ToSet(hop(i)) : i \in DOMAIN subs}
      spots(c) == UNION {{<<i, n>> : n \in {n \in DOMAIN hop(i) : hop(i)[n].id = c.id}} : i \in DOMAIN subs}
  IN  /\ ToSet(res) = {c \in found : \A e \in found : e.id = c.id => e.score <= c.score}
      /\ \A m, n \in DOMAIN res : m < n =>
           \/ res[m].score > res[n].score
           \/ /\ res[m].score = res[n].score
              /\ \E u \in spots(res[m]) : \A v \in spots(res[n]) : Earlier(u, v)

LEMMA HopsTogether ==
  ASSUME NEW st, SoundStore(st), NEW subs \in Seq(Queries), NEW k \in Nat
  PROVE  Together(Union([i \in DOMAIN subs |-> Found(st, subs[i], k)]), st, subs, k)
<1> DEFINE hop(i)   == Found(st, subs[i], k)
           found    == UNION {ToSet(hop(i)) : i \in DOMAIN subs}
           spots(c) == UNION {{<<i, n>> : n \in {n \in DOMAIN hop(i) : hop(i)[n].id = c.id}} : i \in DOMAIN subs}
           hops     == [i \in DOMAIN subs |-> hop(i)]
           U        == Union(hops)
           N        == Len(subs)
<1>1. N \in Nat /\ DOMAIN subs = 1..N /\ \A i \in 1..N : subs[i] \in Queries
  OBVIOUS
<1> HIDE DEF N
<1>2. ASSUME NEW i \in 1..N
      PROVE  /\ hop(i) \in Seq(Source)
             /\ \A n \in DOMAIN hop(i) : hop(i)[n] = Result(st, hop(i)[n].id, hop(i)[n].score)
  <2>1. subs[i] \in Queries
    BY <1>1
  <2> QED BY <2>1, FoundOf
<1>3. \A i \in 1..N : hops[i] = hop(i)
  BY <1>1
<1> HIDE DEF hop
<1>4. hops \in [1..N -> Seq(Source)]
  BY <1>1, <1>2
<1>5. found = UNION {ToSet(hops[i]) : i \in 1..N}
  BY <1>1, <1>3
<1>6. \A c : spots(c) = UNION {{<<i, n>> : n \in {n \in DOMAIN hops[i] : hops[i][n].id = c.id}} : i \in 1..N}
  BY <1>1, <1>3
<1>7. \A i \in 1..N : \A n \in DOMAIN hops[i] : hops[i][n] = Result(st, hops[i][n].id, hops[i][n].score) /\ hops[i][n].score \in Nat
  <2>1. \A i \in 1..N : \A n \in DOMAIN hop(i) : hop(i)[n] \in Source
    BY <1>2
  <2> QED BY <1>2, <1>3, <2>1 DEF Source
<1> HIDE DEF hops
<1>8. /\ U \in Seq(Source)
      /\ \A n \in DOMAIN U : \E i \in 1..N : \E j \in DOMAIN hops[i] : U[n] = hops[i][j]
      /\ \A i \in 1..N : \A j \in DOMAIN hops[i] : \E n \in DOMAIN U : U[n].id = hops[i][j].id
      /\ \A n \in DOMAIN U : \A i \in 1..N : \A j \in DOMAIN hops[i] :
           hops[i][j].id = U[n].id => hops[i][j].score <= U[n].score
      /\ \A m, n \in DOMAIN U : m < n => BetterOrFirst(N, hops, U[m], U[n])
  BY ONLY <1>1, <1>4, UnionOf
<1> HIDE DEF U, found, spots
<1>9. \A c : c \in found <=> \E i \in 1..N : \E j \in DOMAIN hops[i] : c = hops[i][j]
  BY <1>5 DEF ToSet
<1>10. \A c, v : v \in spots(c) <=> \E i \in 1..N : \E j \in DOMAIN hops[i] : hops[i][j].id = c.id /\ v = <<i, j>>
  BY <1>6
<1>11. ASSUME NEW n \in DOMAIN U
       PROVE  U[n] \in found /\ \A e \in found : e.id = U[n].id => e.score <= U[n].score
  <2>1. U[n] \in found
    BY <1>8, <1>9
  <2>2. ASSUME NEW e \in found, e.id = U[n].id PROVE e.score <= U[n].score
    <3>1. PICK i \in 1..N : \E j \in DOMAIN hops[i] : e = hops[i][j]
      BY <1>9
    <3> QED BY <1>8, <2>2, <3>1
  <2> QED BY <2>1, <2>2
<1>12. ASSUME NEW c \in found, \A e \in found : e.id = c.id => e.score <= c.score
       PROVE  \E n \in DOMAIN U : U[n] = c
  <2>1. PICK n \in DOMAIN U : U[n].id = c.id
    BY <1>8, <1>9
  <2>2. U[n] \in found /\ U[n].score <= c.score /\ c.score <= U[n].score
    BY <1>11, <1>12, <2>1
  <2>3. \A e \in found : e = Result(st, e.id, e.score) /\ e.score \in Nat
    BY <1>7, <1>9
  <2>4. U[n].score = c.score
    BY <2>2, <2>3
  <2>5. U[n] = Result(st, c.id, c.score)
    BY <2>1, <2>2, <2>3, <2>4
  <2> QED BY <2>3, <2>5
<1>13. ToSet(U) = {c \in found : \A e \in found : e.id = c.id => e.score <= c.score}
  <2>1. \A c : c \in ToSet(U) <=> \E n \in DOMAIN U : U[n] = c
    BY DEF ToSet
  <2> QED BY <1>11, <1>12, <2>1
<1>14. ASSUME NEW m \in DOMAIN U, NEW n \in DOMAIN U, m < n
       PROVE  \/ U[m].score > U[n].score
              \/ /\ U[m].score = U[n].score
                 /\ \E u \in spots(U[m]) : \A v \in spots(U[n]) : Earlier(u, v)
  <2> DEFINE first(i, j) ==
               /\ hops[i][j].id = U[m].id
               /\ \A e \in 1..N : \A f \in DOMAIN hops[e] : hops[e][f].id = U[n].id => Earlier(<<i, j>>, <<e, f>>)
  <2>1. CASE U[m].score > U[n].score
    BY <2>1
  <2>2. CASE U[m].score = U[n].score /\ \E i \in 1..N : \E j \in DOMAIN hops[i] : first(i, j)
    <3>1. PICK i \in 1..N : \E j \in DOMAIN hops[i] : first(i, j)
      BY <2>2
    <3>2. PICK j \in DOMAIN hops[i] : first(i, j)
      BY <3>1
    <3>3. <<i, j>> \in spots(U[m])
      BY <1>10, <3>2
    <3>4. ASSUME NEW v \in spots(U[n]) PROVE Earlier(<<i, j>>, v)
      BY <1>10, <3>2
    <3> QED BY <2>2, <3>3, <3>4
  <2>3. BetterOrFirst(N, hops, U[m], U[n])
    BY <1>8, <1>14
  <2> QED BY <2>1, <2>2, <2>3 DEF BetterOrFirst
<1> QED BY <1>13, <1>14 DEF U, hops, found, spots, hop, Together

\* Of requests served one at a time, a question that is split is answered from the chunks
\* that its hops find one after the other, each once, with its best score and in the order
\* of a single search, in whatever order the hops come back (server/decompose.go
\* retrieveDecomposed).
THEOREM SplitQuestionsAgree == Spec => []HopsAgree
<1> DEFINE Inv == Typed /\ OneAtATime /\ Talks /\ HopsAlone
<1>1. Init => Inv
  <2>1. Init => \A p \in Clients : pc[p] = "idle"
    BY DEF Init
  <2> QED BY <2>1, TypedInit, TalksInit, TalkLabels DEF HopsAlone
<1>2. Inv /\ [Next]_vars => Inv'
  BY TypedNext, OneAtATimeNext, TalksNext, HopsAloneNext
<1>3. Inv => HopsAgree
  <2> SUFFICES ASSUME Inv, NEW p \in Clients, pc[p] = "chat: rank", Alone, Foreign(Store(p)) = {}
               PROVE  Together(task[p].res, Store(p), task[p].subs, Candidates(task[p].req))
    BY DEF HopsAgree, Together
  <2> DEFINE subs == task[p].subs
             k == Candidates(task[p].req)
             st == Store(p)
             res == task[p].res
  <2>1. pc[p] \in Talking /\ srv # NULL
    BY DEF Talking, Typed
  <2>2. subs \in Seq(Queries) /\ task[p].req \in Asking /\ SoundStore(st)
    BY <2>1 DEF Talks, TalkTyped, HasTalk
  <2>3. k \in Nat
    BY <2>2, AskingType
  <2>4. res = Union([i \in DOMAIN subs |-> Found(st, subs[i], k)])
    BY <2>1 DEF HopsAlone, HopsFind, AllFound
  <2> HIDE DEF subs, k, st, res
  <2>5. Together(res, st, subs, k)
    BY <2>2, <2>3, <2>4, HopsTogether
  <2> QED BY <2>5 DEF subs, k, st, res
<1> QED BY <1>1, <1>2, <1>3, PTL DEF Spec

=============================================================================
