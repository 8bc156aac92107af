---------------------------- MODULE Buckets_proofs ----------------------------
(***************************************************************************)
(* Theorems about Buckets for any number of buckets, documents, texts and  *)
(* clients, and any way of using the server: the state is well typed, a    *)
(* store in use is not replaced, a blob goes only with its bucket, who     *)
(* joined a build that ends has its graph, and a server that handles one   *)
(* request at a time is on disk whenever it is at rest.                    *)
(***************************************************************************)
EXTENDS Buckets, FiniteSetTheorems, FunctionTheorems, TLAPS

-----------------------------------------------------------------------------
(* Constants and store objects.                                             *)

LEMMA NullIsNone ==
  /\ NULL \notin Objects /\ NULL \notin Texts /\ NULL \notin Names /\ NULL \notin Clients
  /\ NULL \notin StoreObject
  BY NullAssumption DEF Actors

LEMMA NewStoreType == NewStore \in StoreObject
  BY DEF NewStore, StoreObject

LEMMA AddDocumentType ==
  ASSUME NEW st \in StoreObject, NEW d \in Docs, NEW t \in Texts
  PROVE  /\ AddDocument(st, d, t) \in StoreObject
         /\ AddDocument(st, d, t).graph = st.graph
         /\ st.indexed => AddDocument(st, d, t).indexed
         /\ AddDocument(st, d, t).indexed \/ Held(st, t)
  BY DEF AddDocument, StoreObject

LEMMA DeleteDocumentType ==
  ASSUME NEW st \in StoreObject, NEW d \in Docs
  PROVE  /\ DeleteDocument(st, d) \in StoreObject
         /\ DeleteDocument(st, d).graph = st.graph
         /\ DeleteDocument(st, d).indexed = st.indexed
  BY DEF DeleteDocument, StoreObject

LEMMA LoadType == ASSUME NEW snap \in StoreObject PROVE Load(snap) \in StoreObject
  BY NewStoreType DEF Load

\* Loading what was loaded changes nothing.
LEMMA LoadTwice == ASSUME NEW snap \in StoreObject PROVE Load(Load(snap)) = Load(snap)
<1>1. Load(NewStore) = NewStore
  BY DEF Load
<1> QED BY <1>1 DEF Load

-----------------------------------------------------------------------------
(* There is always an object to spare.                                      *)

LEMMA SomeAreFree == \E h \in Objects : h \notin InUse
<1> DEFINE S == {stores[b] : b \in Names}
           T == {task[a].store : a \in Actors}
<1>1. IsFiniteSet(Names) /\ IsFiniteSet(Actors)
  BY ActorsAssumption, FS_Subset DEF Actors
<1>2. IsFiniteSet(S) /\ Cardinality(S) <= Cardinality(Names)
  <2> DEFINE f == [b \in Names |-> stores[b]]
  <2>1. f \in Surjection(Names, S)
    BY DEF Surjection
  <2> HIDE DEF f, S
  <2> QED BY <2>1, <1>1, FS_Surjection
<1>3. IsFiniteSet(T) /\ Cardinality(T) <= Cardinality(Actors)
  <2> DEFINE f == [a \in Actors |-> task[a].store]
  <2>1. f \in Surjection(Actors, T)
    BY DEF Surjection
  <2> HIDE DEF f, T
  <2> QED BY <2>1, <1>1, FS_Surjection
<1>4. InUse = S \cup T
  BY DEF InUse
<1> HIDE DEF S, T
<1>5. IsFiniteSet(InUse) /\ Cardinality(InUse) <= Cardinality(Names) + Cardinality(Actors)
  <2>1. IsFiniteSet(S \cap T) /\ Cardinality(S \cap T) \in Nat
    BY <1>2, FS_Intersection, FS_CardinalityType
  <2>2. Cardinality(S) \in Nat /\ Cardinality(T) \in Nat /\ Cardinality(Names) \in Nat /\ Cardinality(Actors) \in Nat
    BY <1>1, <1>2, <1>3, FS_CardinalityType
  <2>3. IsFiniteSet(S \cup T) /\ Cardinality(S \cup T) = Cardinality(S) + Cardinality(T) - Cardinality(S \cap T)
    BY <1>2, <1>3, FS_Union
  <2> QED BY <2>1, <2>2, <2>3, <1>2, <1>3, <1>4
<1>6. ~(Objects \subseteq InUse)
  <2> SUFFICES ASSUME Objects \subseteq InUse PROVE FALSE
    OBVIOUS
  <2>1. Cardinality(Objects) <= Cardinality(InUse)
    BY <1>5, FS_Subset
  <2>2. Cardinality(Objects) \in Nat /\ Cardinality(InUse) \in Nat
    BY <1>5, ObjectsAssumption, FS_CardinalityType
  <2>3. Cardinality(Names) \in Nat /\ Cardinality(Actors) \in Nat
    BY <1>1, FS_CardinalityType
  <2> QED BY <2>1, <2>2, <2>3, <1>5, ObjectsAssumption
<1> QED BY <1>6

LEMMA FreshIsFree ==
  /\ Fresh \in Objects /\ Fresh # NULL
  /\ \A b \in Names : stores[b] # Fresh
  /\ \A a \in Actors : task[a].store # Fresh
<1>1. Fresh \in Objects /\ Fresh \notin InUse
  BY SomeAreFree DEF Fresh
<1> QED BY <1>1, NullIsNone DEF InUse

\* A start finds an object of its own for every bucket.
Bound(m, bound) ==
  \A b, e \in Names : (m[b] # NULL <=> b \in bound) /\ (b # e /\ m[b] = m[e] => m[b] = NULL)

LEMMA ObjectsSuffice ==
  ASSUME NEW bound \in SUBSET Names
  PROVE  \E m \in [Names -> Objects \cup {NULL}] : Bound(m, bound)
<1>1. IsFiniteSet(Names) /\ IsFiniteSet(Actors) /\ IsFiniteSet(Objects)
  BY ActorsAssumption, ObjectsAssumption, FS_Subset DEF Actors
<1> DEFINE n == Cardinality(Names)
           o == Cardinality(Objects)
<1>2. n \in Nat /\ o \in Nat /\ n <= o
  BY <1>1, FS_CardinalityType, ObjectsAssumption
<1>3. ExistsBijection(1..n, Names) /\ ExistsBijection(1..o, Objects)
  BY <1>1, FS_CardinalityType
<1> HIDE DEF n, o
<1>4. ExistsBijection(Names, 1..n)
  BY <1>3, Fun_ExistsBijSymmetric
<1>5. ExistsInjection(Names, 1..n) /\ ExistsInjection(1..o, Objects)
  BY <1>3, <1>4 DEF ExistsInjection, ExistsBijection, Bijection
<1>6. ExistsInjection(1..n, 1..o)
  BY <1>2, Fun_NatInjLeq
<1>7. ExistsInjection(Names, Objects)
  BY <1>5, <1>6, Fun_ExistsInjTransitive
<1>8. PICK f \in [Names -> Objects] : \A b, e \in Names : f[b] = f[e] => b = e
  BY <1>7 DEF ExistsInjection, Injection, IsInjective
<1>9. [b \in Names |-> IF b \in bound THEN f[b] ELSE NULL] \in [Names -> Objects \cup {NULL}]
  BY <1>8
<1>10. Bound([b \in Names |-> IF b \in bound THEN f[b] ELSE NULL], bound)
  BY <1>8, NullIsNone DEF Bound
<1> QED BY <1>9, <1>10

-----------------------------------------------------------------------------
(* Types.                                                                   *)

Labels ==
  {"idle", "resolving", "creating", "retrying", "handling", "restoring", "streaming",
   "extracting", "saving", "serialising", "putting"}

Task ==
  [call : Endpoints \cup {NULL}, bucket : Names \cup {NULL}, doc : Docs \cup {NULL},
   text : Texts \cup {NULL}, store : Objects \cup {NULL}, snap : StoreObject \cup {NULL}]

\* An actor that is not idle has a request; a build is of the bucket it is named by.
TasksOK ==
  /\ pc \in [Actors -> Labels] /\ task \in [Actors -> Task]
  /\ \A a \in Actors : pc[a] = "idle" => task[a] = NoTask
  /\ \A a \in Actors : pc[a] # "idle" =>
       task[a].call \in use.calls /\ task[a].bucket \in Names /\ task[a].doc \in Docs /\ task[a].text \in Texts
  /\ \A a \in Actors : pc[a] = "putting" => task[a].snap \in StoreObject /\ task[a].snap.indexed
  /\ \A b \in Names :
       pc[b] \in {"idle", "extracting", "saving", "serialising", "putting"}
       /\ (pc[b] # "idle" => task[b].bucket = b /\ task[b].call = "build")
  /\ \A c \in Clients : pc[c] # "extracting"

LEMMA UseTypes ==
  ASSUME use \in Uses
  PROVE  use.calls \subseteq Endpoints /\ use.texts \subseteq Texts /\ use.atOnce \in Nat
<1>1. IsFiniteSet(Clients)
  BY ActorsAssumption, FS_Subset DEF Actors
<1>2. Cardinality(Clients) \in Nat
  BY <1>1, FS_CardinalityType
<1>3. use \in Use
  BY UsesAssumption
<1> QED BY <1>2, <1>3 DEF Use

LEMMA NoTaskType == NoTask \in Task /\ NoTask.bucket = NULL
  BY DEF NoTask, Task

LEMMA ActorKinds ==
  /\ Clients \subseteq Actors /\ Names \subseteq Actors
  /\ \A a \in Actors : (a \in Clients) # (a \in Names)
  BY ActorsAssumption DEF Actors

\* A reply and the end of a build leave every actor idle or as it is.
LEMMA DoneEnds ==
  ASSUME TasksOK, NEW a \in Actors, Done(a)
  PROVE  /\ pc' \in [Actors -> Labels] /\ task' \in [Actors -> Task]
         /\ pc'[a] = "idle"
         /\ \A e \in Actors : \/ pc'[e] = "idle" /\ task'[e] = NoTask
                              \/ pc'[e] = pc[e] /\ task'[e] = task[e]
<1>1. CASE a \in Names
  BY <1>1, NoTaskType DEF Done, JobEnds, TasksOK, Labels
<1>2. CASE a \notin Names
  BY <1>2, NoTaskType DEF Done, Reply, Goto, TasksOK, Labels
<1> QED BY <1>1, <1>2

LEMMA EndsTyped ==
  ASSUME TasksOK, UNCHANGED use, pc' \in [Actors -> Labels], task' \in [Actors -> Task],
         \A e \in Actors : \/ pc'[e] = "idle" /\ task'[e] = NoTask
                           \/ pc'[e] = pc[e] /\ task'[e] = task[e]
  PROVE  /\ TasksOK'
         /\ \A e \in Actors : pc'[e] # "idle" => pc[e] = pc'[e] /\ task'[e] = task[e]
  BY ActorKinds DEF TasksOK, Labels

LEMMA ReplyTyped ==
  ASSUME TasksOK, NEW c \in Clients, Reply(c), UNCHANGED use
  PROVE  /\ TasksOK' /\ pc' = [pc EXCEPT ![c] = "idle"] /\ task' = [task EXCEPT ![c] = NoTask]
         /\ \A e \in Actors : pc'[e] # "idle" => pc[e] = pc'[e] /\ task'[e] = task[e]
<1>1. pc' = [pc EXCEPT ![c] = "idle"] /\ task' = [task EXCEPT ![c] = NoTask]
  BY DEF Reply, Goto
<1>2. c \in Actors
  BY ActorKinds
<1>3. /\ pc' \in [Actors -> Labels] /\ task' \in [Actors -> Task]
      /\ \A e \in Actors : \/ pc'[e] = "idle" /\ task'[e] = NoTask
                           \/ pc'[e] = pc[e] /\ task'[e] = task[e]
  BY <1>1, <1>2, NoTaskType DEF TasksOK, Labels
<1> QED BY <1>1, <1>3, EndsTyped

\* The same request, which an actor goes on with.
Same(r, q) == q.call = r.call /\ q.bucket = r.bucket /\ q.doc = r.doc /\ q.text = r.text

LEMMA StoreSet ==
  ASSUME TasksOK, NEW a \in Actors, NEW h \in Objects, task' = [task EXCEPT ![a].store = h]
  PROVE  /\ task' \in [Actors -> Task] /\ Same(task[a], task'[a])
         /\ task'[a].store = h /\ task'[a].snap = task[a].snap
         /\ \A e \in Actors : e # a => task'[e] = task[e]
<1> DEFINE r == task[a]
           q == task'[a]
<1>1. r \in Task /\ q = [r EXCEPT !.store = h] /\ \A e \in Actors : e # a => task'[e] = task[e]
  BY DEF TasksOK
<1>2. DOMAIN task' = Actors /\ task' = [e \in Actors |-> task'[e]]
  BY DEF TasksOK
<1> HIDE DEF r, q
<1>3. q \in Task /\ Same(r, q) /\ q.store = h /\ q.snap = r.snap
  BY <1>1 DEF Task, Same
<1>4. \A e \in Actors : task'[e] \in Task
  BY <1>1, <1>3 DEF q, TasksOK
<1> QED BY <1>1, <1>2, <1>3, <1>4 DEF r, q

LEMMA SnapSet ==
  ASSUME TasksOK, NEW a \in Actors, NEW s \in StoreObject, task' = [task EXCEPT ![a].snap = s]
  PROVE  /\ task' \in [Actors -> Task] /\ Same(task[a], task'[a])
         /\ task'[a].snap = s /\ task'[a].store = task[a].store
         /\ \A e \in Actors : e # a => task'[e] = task[e]
<1> DEFINE r == task[a]
           q == task'[a]
<1>1. r \in Task /\ q = [r EXCEPT !.snap = s] /\ \A e \in Actors : e # a => task'[e] = task[e]
  BY DEF TasksOK
<1>2. DOMAIN task' = Actors /\ task' = [e \in Actors |-> task'[e]]
  BY DEF TasksOK
<1> HIDE DEF r, q
<1>3. q \in Task /\ Same(r, q) /\ q.snap = s /\ q.store = r.store
  BY <1>1 DEF Task, Same
<1>4. \A e \in Actors : task'[e] \in Task
  BY <1>1, <1>3 DEF q, TasksOK
<1> QED BY <1>1, <1>2, <1>3, <1>4 DEF r, q

\* An actor that goes on with its request.
LEMMA GotoTyped ==
  ASSUME TasksOK, UNCHANGED use, NEW a \in Actors, NEW l \in Labels \ {"idle"},
         pc[a] # "idle", Goto(a, l), task' \in [Actors -> Task], Same(task[a], task'[a]),
         \A e \in Actors : e # a => task'[e] = task[e],
         a \in Clients => l # "extracting",
         a \in Names => l \in {"extracting", "saving", "serialising", "putting"},
         l = "putting" => task'[a].snap \in StoreObject /\ task'[a].snap.indexed
  PROVE  TasksOK' /\ pc'[a] = l /\ \A e \in Actors : e # a => pc'[e] = pc[e]
<1>1. pc' \in [Actors -> Labels] /\ pc'[a] = l /\ \A e \in Actors : e # a => pc'[e] = pc[e]
  BY DEF TasksOK, Goto
<1> QED BY <1>1, ActorKinds DEF TasksOK, Same

StoresOK ==
  /\ stores \in [Names -> Objects \cup {NULL}]
  /\ \A b, e \in Names : b # e /\ stores[b] = stores[e] => stores[b] = NULL
  /\ heap \in [Objects -> StoreObject]
  /\ blob \in [Names -> StoreObject \cup {NULL}]
  /\ \A b \in Names : blob[b] # NULL => blob[b].indexed
  /\ told \subseteq Names

AtWork == {"handling", "restoring", "extracting", "streaming", "serialising", "putting"}

HasStore == \A a \in Actors : pc[a] \in AtWork => task[a].store \in Objects

Typed == StoresOK /\ HasStore /\ TasksOK /\ use \in Uses

LEMMA TypedIsTypeOK == ASSUME Typed PROVE TypeOK
  BY NullIsNone DEF Typed, TypeOK, StoresOK, HasStore, AtWork

LEMMA InitTyped == Init => Typed
<1> SUFFICES ASSUME Init PROVE Typed
  OBVIOUS
<1>1. PICK h \in Objects : stores = [b \in Names |-> IF b = Default THEN h ELSE NULL]
  <2>1. \E h \in Objects : TRUE
    BY SomeAreFree
  <2> QED BY <2>1 DEF Init
<1>2. StoresOK
  BY <1>1, NewStoreType DEF Init, StoresOK
<1>3. TasksOK
  BY NoTaskType, ActorKinds DEF Init, TasksOK, Labels
<1>4. HasStore
  BY DEF Init, HasStore, AtWork
<1> QED BY <1>2, <1>3, <1>4 DEF Typed, Init

\* A new, empty store under a name that has none.
LEMMA CreateTyped ==
  ASSUME StoresOK, NEW b \in Names, stores[b] = NULL,
         stores' = [stores EXCEPT ![b] = Fresh], heap' = [heap EXCEPT ![Fresh] = NewStore],
         UNCHANGED <<blob, told>>
  PROVE  /\ StoresOK'
         /\ stores'[b] = Fresh /\ heap'[Fresh] = NewStore
         /\ \A e \in Names : e # b => stores'[e] = stores[e]
         /\ \A h \in Objects : h # Fresh => heap'[h] = heap[h]
  BY FreshIsFree, NewStoreType DEF StoresOK

LEMMA BecomesTyped ==
  ASSUME StoresOK, NEW a \in Actors, task[a].store \in Objects, NEW st \in StoreObject, Becomes(a, st),
         UNCHANGED <<stores, blob, told>>
  PROVE  StoresOK' /\ heap'[task[a].store] = st /\ \A h \in Objects : h # task[a].store => heap'[h] = heap[h]
  BY DEF StoresOK, Becomes

LEMMA ReplyHasStore ==
  ASSUME HasStore, \A e \in Actors : pc'[e] # "idle" => pc[e] = pc'[e] /\ task'[e] = task[e]
  PROVE  HasStore'
  BY DEF HasStore, AtWork

LEMMA GotHasStore ==
  ASSUME HasStore, NEW a \in Actors, task'[a].store \in Objects,
         \A e \in Actors : e # a => pc'[e] = pc[e] /\ task'[e] = task[e]
  PROVE  HasStore'
  BY DEF HasStore

LEMMA NextHandlerTyped ==
  ASSUME Typed, UNCHANGED use, NEW c \in Clients, Handler(c)
  PROVE  Typed'
<1>0. /\ StoresOK /\ HasStore /\ TasksOK /\ use \in Uses /\ use' \in Uses
      /\ c \in Actors /\ c \notin Names /\ (Labels \ {"idle"}) \subseteq Labels
  BY ActorKinds DEF Typed
<1> DEFINE b == task[c].bucket
<1>b. pc[c] # "idle" => b \in Names /\ task[c].doc \in Docs /\ task[c].text \in Texts
  BY <1>0 DEF TasksOK
<1>r. ASSUME Reply(c), StoresOK' PROVE Typed'
  BY <1>0, <1>r, ReplyTyped, ReplyHasStore DEF Typed
<1>n. UNCHANGED <<stores, heap, blob, told>> => StoresOK'
  BY <1>0 DEF StoresOK
<1>g. ASSUME NEW h \in Objects, Got(c, h), StoresOK', pc[c] # "idle" PROVE Typed'
  <2>1. task' = [task EXCEPT ![c].store = h] /\ Goto(c, "handling")
    BY <1>g DEF Got
  <2>2. /\ task' \in [Actors -> Task] /\ Same(task[c], task'[c]) /\ task'[c].store = h
        /\ \A e \in Actors : e # c => task'[e] = task[e]
    BY <2>1, <1>0, StoreSet
  <2>3. "handling" \in Labels \ {"idle"}
    BY DEF Labels
  <2>4. TasksOK' /\ \A e \in Actors : e # c => pc'[e] = pc[e]
    BY <2>1, <2>2, <2>3, <1>0, <1>g, GotoTyped
  <2> QED BY <2>2, <2>4, <1>0, <1>g, GotHasStore DEF Typed
<1>s. ASSUME NEW l \in {"creating", "retrying", "handling", "restoring", "streaming", "saving"}, Goto(c, l),
             UNCHANGED task, StoresOK', pc[c] # "idle", l \in AtWork => pc[c] \in AtWork
      PROVE  Typed'
  <2>1. l \in Labels \ {"idle"} /\ l # "extracting" /\ l # "putting"
    BY DEF Labels
  <2>2. task' \in [Actors -> Task] /\ Same(task[c], task'[c]) /\ \A e \in Actors : e # c => task'[e] = task[e]
    BY <1>0, <1>s DEF TasksOK, Same
  <2>3. TasksOK' /\ pc'[c] = l /\ \A e \in Actors : e # c => pc'[e] = pc[e]
    BY <2>1, <2>2, <1>0, <1>s, GotoTyped
  <2>4. HasStore'
    BY <2>2, <2>3, <1>0, <1>s DEF HasStore
  <2> QED BY <2>3, <2>4, <1>0, <1>s DEF Typed
<1>1. ASSUME NEW call \in use.calls, NEW n \in Names, NEW d \in Docs, NEW t \in use.texts, Request(c, call, n, d, t)
      PROVE  Typed'
  <2> DEFINE q == [NoTask EXCEPT !.call = call, !.bucket = n, !.doc = d, !.text = t]
  <2>1. call \in Endpoints /\ t \in Texts
    BY <1>0, UseTypes
  <2>2. q \in Task /\ q.call = call /\ q.bucket = n /\ q.doc = d /\ q.text = t
    BY <2>1 DEF NoTask, Task
  <2>3. task' = [task EXCEPT ![c] = q] /\ UNCHANGED <<stores, heap, blob, told>>
    BY <1>1 DEF Request
  <2> HIDE DEF q
  <2>4. PICK l \in {"saving", "resolving"} : pc' = [pc EXCEPT ![c] = l]
    BY <1>1 DEF Request, Goto
  <2>5. /\ task' \in [Actors -> Task] /\ task'[c] = q /\ \A e \in Actors : e # c => task'[e] = task[e]
        /\ pc' \in [Actors -> Labels] /\ pc'[c] = l /\ \A e \in Actors : e # c => pc'[e] = pc[e]
    BY <2>2, <2>3, <2>4, <1>0 DEF TasksOK, Labels
  <2>6. TasksOK'
    BY <2>1, <2>2, <2>5, <1>0, <1>1, ActorKinds DEF TasksOK
  <2>7. HasStore'
    BY <2>5, <1>0 DEF HasStore, AtWork
  <2> QED BY <2>3, <2>6, <2>7, <1>0, <1>n DEF Typed
<1>2. CASE Get(c)
  <2>1. pc[c] = "resolving" /\ UNCHANGED <<stores, heap, blob, told>>
    BY <1>2 DEF Get
  <2>2. stores[b] \in Objects \/ stores[b] = NULL
    BY <2>1, <1>0, <1>b DEF StoresOK
  <2>3. CASE stores[b] # NULL
    BY <2>1, <2>2, <2>3, <1>2, <1>g, <1>n DEF Get
  <2>4. CASE stores[b] = NULL
    BY <2>1, <2>4, <1>2, <1>s, <1>n DEF Get, AtWork
  <2> QED BY <2>3, <2>4
<1>3. CASE Create(c)
  <2>1. CASE stores[b] = NULL
    BY <2>1, <1>0, <1>3, <1>b, <1>g, CreateTyped, FreshIsFree DEF Create
  <2>2. CASE stores[b] # NULL
    BY <2>2, <1>3, <1>s, <1>n DEF Create, AtWork
  <2> QED BY <2>1, <2>2
<1>4. CASE GetAgain(c)
  <2>1. pc[c] = "retrying" /\ UNCHANGED <<stores, heap, blob, told>>
    BY <1>4 DEF GetAgain
  <2>2. stores[b] \in Objects \/ stores[b] = NULL
    BY <2>1, <1>0, <1>b DEF StoresOK
  <2>3. CASE stores[b] # NULL
    BY <2>1, <2>2, <2>3, <1>4, <1>g, <1>n DEF GetAgain
  <2>4. CASE stores[b] = NULL
    BY <2>1, <2>4, <1>4, <1>r, <1>n DEF GetAgain
  <2> QED BY <2>3, <2>4
<1>h. pc[c] \in {"handling", "restoring"} =>
        task[c].store \in Objects /\ heap[task[c].store] \in StoreObject
        /\ AddDocument(heap[task[c].store], task[c].doc, task[c].text) \in StoreObject
        /\ DeleteDocument(heap[task[c].store], task[c].doc) \in StoreObject
  BY <1>0, <1>b, AddDocumentType, DeleteDocumentType DEF HasStore, AtWork, StoresOK
<1>5. CASE Query(c)
  BY <1>5, <1>r, <1>n DEF Query
<1>6. CASE Ingest(c)
  <2>1. CASE Reply(c) /\ UNCHANGED heap
    BY <2>1, <1>6, <1>r, <1>n DEF Ingest
  <2>2. CASE ~(Reply(c) /\ UNCHANGED heap)
    <3>1. Becomes(c, AddDocument(heap[task[c].store], task[c].doc, task[c].text)) /\ Goto(c, "saving") /\ UNCHANGED task
      BY <2>2, <1>6 DEF Ingest
    <3>2. StoresOK'
      BY <3>1, <1>0, <1>6, <1>h, BecomesTyped DEF Ingest
    <3> QED BY <3>1, <3>2, <1>6, <1>s DEF Ingest, AtWork
  <2> QED BY <2>1, <2>2
<1>7. CASE Delete(c)
  <2>1. CASE Reply(c) /\ UNCHANGED heap
    BY <2>1, <1>7, <1>r, <1>n DEF Delete
  <2>2. CASE ~(Reply(c) /\ UNCHANGED heap)
    <3>1. Becomes(c, DeleteDocument(heap[task[c].store], task[c].doc)) /\ Goto(c, "saving") /\ UNCHANGED task
      BY <2>2, <1>7 DEF Delete
    <3>2. StoresOK'
      BY <3>1, <1>0, <1>7, <1>h, BecomesTyped DEF Delete
    <3> QED BY <3>1, <3>2, <1>7, <1>s DEF Delete, AtWork
  <2> QED BY <2>1, <2>2
<1>8. CASE ReadVersion(c)
  BY <1>8, <1>r, <1>s, <1>n DEF ReadVersion, AtWork
<1>9. CASE Restore(c)
  <2>1. CASE UNCHANGED heap
    BY <2>1, <1>9, <1>r, <1>n DEF Restore
  <2>2. CASE ~UNCHANGED heap
    <3>1. Becomes(c, AddDocument(heap[task[c].store], task[c].doc, task[c].text))
      BY <2>2, <1>9 DEF Restore, Becomes
    <3>2. StoresOK'
      BY <3>1, <1>0, <1>9, <1>h, BecomesTyped DEF Restore
    <3> QED BY <3>2, <1>9, <1>r DEF Restore
  <2> QED BY <2>1, <2>2
<1>10. CASE StartBuild(c)
  <2>1. StoresOK' /\ pc[c] = "handling" /\ b \in Names
    BY <1>10, <1>n, <1>b DEF StartBuild
  <2>2. CASE pc[b] # "idle"
    BY <2>1, <2>2, <1>10, <1>s DEF StartBuild, AtWork
  <2>3. CASE pc[b] = "idle"
    <3>1. pc' = [pc EXCEPT ![c] = "streaming", ![b] = "extracting"] /\ task' = [task EXCEPT ![b] = task[c]]
      BY <2>1, <2>3, <1>10 DEF StartBuild
    <3>2. /\ pc' \in [Actors -> Labels] /\ task' \in [Actors -> Task]
          /\ pc'[c] = "streaming" /\ pc'[b] = "extracting" /\ task'[b] = task[c] /\ task'[c] = task[c]
          /\ \A e \in Actors : e # b => task'[e] = task[e] /\ (e # c => pc'[e] = pc[e])
      BY <3>1, <2>1, <1>0, ActorKinds DEF TasksOK, Labels
    <3>3. TasksOK'
      BY <3>2, <2>1, <1>0, <1>10, ActorKinds DEF TasksOK, StartBuild
    <3>4. HasStore'
      BY <3>2, <2>1, <1>0 DEF HasStore, AtWork
    <3> QED BY <2>1, <3>3, <3>4, <1>0 DEF Typed
  <2> QED BY <2>2, <2>3
<1>11. ASSUME NEW n \in Names, CreateBucket(c, n) PROVE Typed'
  <2>1. StoresOK'
    BY <1>0, <1>11, CreateTyped DEF CreateBucket
  <2> QED BY <2>1, <1>0, <1>11 DEF Typed, CreateBucket, TasksOK, HasStore
<1>12. ASSUME NEW n \in Names, DropBucket(c, n) PROVE Typed'
  <2>1. StoresOK'
    BY <1>0, <1>12 DEF DropBucket, StoresOK
  <2> QED BY <2>1, <1>0, <1>12 DEF Typed, DropBucket, TasksOK, HasStore
<1> QED BY <1>1, <1>2, <1>3, <1>4, <1>5, <1>6, <1>7, <1>8, <1>9, <1>10, <1>11, <1>12 DEF Handler

LEMMA DoneTyped ==
  ASSUME Typed, UNCHANGED use, NEW a \in Actors, Done(a), StoresOK'
  PROVE  Typed'
<1>1. TasksOK' /\ \A e \in Actors : pc'[e] # "idle" => pc[e] = pc'[e] /\ task'[e] = task[e]
  BY DoneEnds, EndsTyped DEF Typed
<1> QED BY <1>1, ReplyHasStore DEF Typed

LEMMA SaveFailsTyped ==
  ASSUME Typed, UNCHANGED use, NEW a \in Actors, pc[a] # "idle", SaveFails(a)
  PROVE  Typed'
<1>1. StoresOK'
  BY DEF Typed, TasksOK, StoresOK, SaveFails
<1> QED BY <1>1, DoneTyped DEF SaveFails

LEMMA NextBuildTyped ==
  ASSUME Typed, UNCHANGED use, NEW b \in Names, BuildEntityGraph(b)
  PROVE  Typed'
<1>0. StoresOK /\ HasStore /\ TasksOK /\ b \in Actors /\ b \notin Clients /\ pc[b] = "extracting"
  BY ActorKinds DEF Typed, BuildEntityGraph
<1>1. CASE JobEnds(b) /\ UNCHANGED heap
  <2>1. Done(b) /\ StoresOK'
    BY <1>1, <1>0 DEF BuildEntityGraph, Done, StoresOK
  <2> QED BY <2>1, <1>0, DoneTyped
<1>2. CASE ~(JobEnds(b) /\ UNCHANGED heap)
  <2> DEFINE st == [heap[task[b].store] EXCEPT !.graph = TRUE]
  <2>1. Becomes(b, st) /\ Goto(b, "saving") /\ UNCHANGED task /\ UNCHANGED <<stores, blob, told>>
    BY <1>2 DEF BuildEntityGraph
  <2>2. task[b].store \in Objects
    BY <1>0 DEF HasStore, AtWork
  <2>3. heap[task[b].store] \in StoreObject
    BY <2>2, <1>0 DEF StoresOK
  <2>4. st \in StoreObject
    BY <2>3 DEF StoreObject
  <2> HIDE DEF st
  <2>5. StoresOK'
    BY <2>1, <2>2, <2>4, <1>0, BecomesTyped
  <2>6. "saving" \in Labels \ {"idle"} /\ Same(task[b], task'[b]) /\ task' \in [Actors -> Task]
    BY <2>1, <1>0 DEF Labels, Same, TasksOK
  <2>7. TasksOK' /\ pc'[b] = "saving" /\ \A e \in Actors : e # b => pc'[e] = pc[e]
    BY <2>1, <2>6, <1>0, GotoTyped
  <2>8. HasStore'
    BY <2>1, <2>7, <1>0 DEF HasStore, AtWork
  <2> QED BY <2>5, <2>7, <2>8 DEF Typed
<1> QED BY <1>1, <1>2

LEMMA NextPersistTyped ==
  ASSUME Typed, UNCHANGED use, NEW a \in Actors, Persist(a)
  PROVE  Typed'
<1>0. StoresOK /\ HasStore /\ TasksOK /\ use \in Uses
  BY DEF Typed
<1>b. pc[a] \in {"saving", "serialising", "putting"}
  BY DEF Persist, SaveGet, SaveLean, Put
<1>t. task[a].bucket \in Names
  BY <1>0, <1>b DEF TasksOK
<1>f. SaveFails(a) => Typed'
  BY <1>b, SaveFailsTyped
<1>g. ASSUME NEW l \in {"serialising", "putting"}, Goto(a, l), UNCHANGED <<stores, heap, blob, told>>,
             task' \in [Actors -> Task], Same(task[a], task'[a]), task'[a].store \in Objects,
             \A e \in Actors : e # a => task'[e] = task[e],
             l = "putting" => task'[a].snap \in StoreObject /\ task'[a].snap.indexed
      PROVE  Typed'
  <2>1. l \in Labels \ {"idle"} /\ l # "extracting"
    BY DEF Labels
  <2>2. TasksOK' /\ \A e \in Actors : e # a => pc'[e] = pc[e]
    BY <2>1, <1>g, <1>0, <1>b, GotoTyped
  <2>3. HasStore'
    BY <2>2, <1>g, <1>0, GotHasStore
  <2> QED BY <2>2, <2>3, <1>g, <1>0 DEF Typed, StoresOK
<1>1. CASE SaveGet(a)
  <2>1. CASE stores[task[a].bucket] = NULL
    BY <2>1, <1>1, <1>f DEF SaveGet
  <2>2. CASE stores[task[a].bucket] # NULL
    <3>1. stores[task[a].bucket] \in Objects
      BY <2>2, <1>0, <1>t DEF StoresOK
    <3>2. task' = [task EXCEPT ![a].store = stores[task[a].bucket]] /\ Goto(a, "serialising")
          /\ UNCHANGED <<stores, heap, blob, told>>
      BY <2>2, <1>1 DEF SaveGet
    <3>3. /\ task' \in [Actors -> Task] /\ Same(task[a], task'[a]) /\ task'[a].store \in Objects
          /\ \A e \in Actors : e # a => task'[e] = task[e]
      BY <3>1, <3>2, <1>0, StoreSet
    <3> QED BY <3>2, <3>3, <1>g
  <2> QED BY <2>1, <2>2
<1>2. CASE SaveLean(a)
  <2>1. CASE ~heap[task[a].store].indexed
    BY <2>1, <1>2, <1>f DEF SaveLean
  <2>2. CASE heap[task[a].store].indexed
    <3>1. task[a].store \in Objects /\ heap[task[a].store] \in StoreObject
      BY <1>0, <1>2 DEF SaveLean, HasStore, AtWork, StoresOK
    <3>2. task' = [task EXCEPT ![a].snap = heap[task[a].store]] /\ Goto(a, "putting")
          /\ UNCHANGED <<stores, heap, blob, told>>
      BY <2>2, <1>2 DEF SaveLean
    <3>3. /\ task' \in [Actors -> Task] /\ Same(task[a], task'[a]) /\ task'[a].store \in Objects
          /\ task'[a].snap = heap[task[a].store]
          /\ \A e \in Actors : e # a => task'[e] = task[e]
      BY <3>1, <3>2, <1>0, SnapSet
    <3> QED BY <2>2, <3>1, <3>2, <3>3, <1>g
  <2> QED BY <2>1, <2>2
<1>3. CASE Put(a)
  <2>1. CASE SaveFails(a)
    BY <2>1, <1>f
  <2>2. CASE ~SaveFails(a)
    <3>1. task[a].snap \in StoreObject /\ task[a].snap.indexed
      BY <1>0, <1>3 DEF Put, TasksOK
    <3>2. /\ blob' = [blob EXCEPT ![task[a].bucket] = task[a].snap] /\ told' = told \ {task[a].bucket}
          /\ Done(a) /\ UNCHANGED <<stores, heap>>
      BY <2>2, <1>3 DEF Put
    <3>3. StoresOK'
      BY <3>1, <3>2, <1>0, <1>t DEF StoresOK
    <3> QED BY <3>2, <3>3, DoneTyped
  <2> QED BY <2>1, <2>2
<1> QED BY <1>1, <1>2, <1>3 DEF Persist

\* What a start makes of the blobs.
LEMMA RestartTyped ==
  ASSUME Typed, UNCHANGED use, NEW loaded \in SUBSET {b \in Names : blob[b] # NULL}, Restart(loaded)
  PROVE  /\ Typed'
         /\ \A b \in Names : stores'[b] # NULL <=> b \in loaded \cup {Default}
         /\ \A b \in Names : stores'[b] # NULL =>
              heap'[stores'[b]] = IF b \in loaded THEN Load(blob[b]) ELSE NewStore
         /\ pc' = [a \in Actors |-> "idle"] /\ task' = [a \in Actors |-> NoTask]
         /\ blob' = blob /\ told' = {}
<1> DEFINE bound == loaded \cup {Default}
<1>0. StoresOK /\ bound \in SUBSET Names
  BY DefaultAssumption DEF Typed
<1>1. stores' \in [Names -> Objects \cup {NULL}] /\ Bound(stores', bound)
  <2>1. stores' = CHOOSE m \in [Names -> Objects \cup {NULL}] : Bound(m, bound)
    BY DEF Restart, Bound
  <2>2. \E m \in [Names -> Objects \cup {NULL}] : Bound(m, bound)
    BY <1>0, ObjectsSuffice
  <2> HIDE DEF bound
  <2> QED BY <2>1, <2>2
<1>2. /\ pc' = [a \in Actors |-> "idle"] /\ task' = [a \in Actors |-> NoTask]
      /\ blob' = blob /\ told' = {}
      /\ heap' = [h \in Objects |->
           IF \E b \in loaded : stores'[b] = h
           THEN Load(blob[CHOOSE b \in loaded : stores'[b] = h]) ELSE NewStore]
  BY DEF Restart
<1>3. \A b \in Names : stores'[b] # NULL <=> b \in loaded \cup {Default}
  BY <1>1 DEF Bound
<1>4. ASSUME NEW b \in Names, stores'[b] # NULL
      PROVE  heap'[stores'[b]] = IF b \in loaded THEN Load(blob[b]) ELSE NewStore
  <2>1. stores'[b] \in Objects
    BY <1>1, <1>4
  <2>2. \A e \in Names : stores'[e] = stores'[b] => e = b
    BY <1>1, <1>4 DEF Bound
  <2>3. CASE b \in loaded
    <3>1. (CHOOSE e \in loaded : stores'[e] = stores'[b]) = b
      BY <2>2, <2>3
    <3> QED BY <3>1, <2>1, <2>3, <1>2
  <2>4. CASE b \notin loaded
    BY <2>1, <2>2, <2>4, <1>2
  <2> QED BY <2>3, <2>4
<1>5. heap' \in [Objects -> StoreObject]
  <2>1. \A b \in loaded : Load(blob[b]) \in StoreObject
    BY <1>0, LoadType DEF StoresOK
  <2> QED BY <2>1, <1>2, NewStoreType
<1>6. StoresOK'
  BY <1>0, <1>1, <1>2, <1>5 DEF StoresOK, Bound
<1>7. TasksOK' /\ HasStore'
  BY <1>2, NoTaskType, ActorKinds DEF TasksOK, HasStore, Labels, AtWork
<1> QED BY <1>2, <1>3, <1>4, <1>6, <1>7 DEF Typed

LEMMA NextTyped == Typed /\ [Next]_vars => Typed'
<1> SUFFICES ASSUME Typed, [Next]_vars PROVE Typed'
  OBVIOUS
<1>1. CASE UNCHANGED vars
  BY <1>1 DEF vars, Typed, StoresOK, HasStore, TasksOK
<1>2. CASE Next
  <2>0. UNCHANGED use
    BY <1>2 DEF Next
  <2>1. CASE \E c \in Clients : Handler(c)
    BY <2>0, <2>1, NextHandlerTyped
  <2>2. CASE \E b \in Names : BuildEntityGraph(b)
    BY <2>0, <2>2, NextBuildTyped
  <2>3. CASE \E a \in Actors : Persist(a)
    BY <2>0, <2>3, NextPersistTyped
  <2>4. CASE Starts
    BY <2>0, <2>4, RestartTyped DEF Starts
  <2> QED BY <2>1, <2>2, <2>3, <2>4, <1>2 DEF Next
<1> QED BY <1>1, <1>2

LEMMA TypedAlways == Spec => []Typed
  BY InitTyped, NextTyped, PTL DEF Spec

\* The table of stores, the heap, the blobs and what every actor works on are well
\* typed, no store is two buckets, and no blob is of a store that was never indexed.
THEOREM TypeCorrect == Spec => []TypeOK
  BY TypedAlways, TypedIsTypeOK, PTL

-----------------------------------------------------------------------------
(* Action properties.                                                       *)

\* What may happen to the table of stores, and to a blob that is there.
LEMMA TableSteps ==
  ASSUME Typed, Next, ~Starts
  PROVE  /\ \A b \in Names : stores[b] # NULL => stores'[b] \in {stores[b], NULL}
         /\ \A b \in Names : blob[b] # NULL /\ blob'[b] = NULL => stores[b] # NULL /\ stores'[b] = NULL
<1>0. StoresOK /\ TasksOK /\ NULL \notin StoreObject
  BY NullIsNone DEF Typed
<1>1. ASSUME NEW c \in Clients, Handler(c)
      PROVE  /\ \A b \in Names : stores[b] # NULL => stores'[b] \in {stores[b], NULL}
             /\ \A b \in Names : blob[b] # NULL /\ blob'[b] = NULL => stores[b] # NULL /\ stores'[b] = NULL
  <2>1. CASE \E call \in use.calls, b \in Names, d \in Docs, t \in use.texts : Request(c, call, b, d, t)
    BY <2>1 DEF Request
  <2>2. CASE Get(c) \/ GetAgain(c) \/ Query(c) \/ Ingest(c) \/ Delete(c) \/ ReadVersion(c) \/ Restore(c) \/ StartBuild(c)
    BY <2>2 DEF Get, GetAgain, Query, Ingest, Delete, ReadVersion, Restore, StartBuild
  <2>3. CASE Create(c)
    BY <2>3, <1>0 DEF Create, StoresOK
  <2>4. CASE \E b \in Names : CreateBucket(c, b) \/ DropBucket(c, b)
    BY <2>4, <1>0 DEF CreateBucket, DropBucket, StoresOK
  <2> QED BY <1>1, <2>1, <2>2, <2>3, <2>4 DEF Handler
<1>2. ASSUME NEW b \in Names, BuildEntityGraph(b)
      PROVE  UNCHANGED <<stores, blob>>
  BY <1>2 DEF BuildEntityGraph
<1>3. ASSUME NEW a \in Actors, Persist(a)
      PROVE  UNCHANGED stores /\ \A b \in Names : blob[b] # NULL => blob'[b] # NULL
  <2>1. CASE SaveGet(a) \/ SaveLean(a) \/ SaveFails(a)
    BY <2>1 DEF SaveGet, SaveLean, SaveFails
  <2>2. CASE Put(a) /\ ~SaveFails(a)
    BY <2>2, <1>0 DEF Put, TasksOK, StoresOK
  <2> QED BY <2>1, <2>2, <1>3 DEF Persist
<1> QED BY <1>1, <1>2, <1>3 DEF Next

LEMMA StartsKeepsBlobs == ASSUME Starts PROVE UNCHANGED blob
  BY DEF Starts, Restart

\* While the server runs, the store a bucket has stays its store until it is dropped,
\* however many requests race to create it on first use.
THEOREM FirstStoreStays == Spec => StoreNotReplaced
<1>1. Typed /\ [Next]_vars =>
        [(\A b \in Names : stores[b] # NULL => stores'[b] \in {stores[b], NULL}) \/ Starts]_vars
  BY TableSteps
<1> QED BY <1>1, TypedAlways, PTL DEF Spec, StoreNotReplaced

\* A bucket that was saved has its blob at every moment until it is dropped, whatever
\* other requests, builds, failures and restarts do.
THEOREM SavedStaysSaved == Spec => BlobGoesWithBucket
<1>1. Typed /\ [Next]_vars =>
        [\A b \in Names : blob[b] # NULL /\ blob'[b] = NULL => stores[b] # NULL /\ stores'[b] = NULL]_vars
  BY TableSteps, StartsKeepsBlobs
<1> QED BY <1>1, TypedAlways, PTL DEF Spec, BlobGoesWithBucket
-----------------------------------------------------------------------------
(* Entity builds.                                                           *)

Persisting == {"saving", "serialising", "putting"}

\* As long as no bucket is deleted, an actor works on the store its bucket has, a build
\* that is being saved has changed that store, and streams are of builds that run.
BuildInv ==
  "drop" \notin use.calls =>
    /\ \A a \in Actors : pc[a] \in AtWork => stores[task[a].bucket] = task[a].store
    /\ \A b \in Names : pc[b] \in Persisting => stores[b] # NULL /\ heap[stores[b]].graph
    /\ \A c \in Clients : pc[c] = "streaming" => pc[task[c].bucket] # "idle"

\* What a handler leaves alone: the other actors, unless it starts a build, the stores of
\* the buckets, unless it drops one, and the graphs and indexes in them.
LEMMA HandlerFrame ==
  ASSUME Typed, NEW c \in Clients, Handler(c)
  PROVE  /\ StartBuild(c) \/ \A e \in Actors : e # c => pc'[e] = pc[e] /\ task'[e] = task[e]
         /\ \A b \in Names : stores[b] # NULL =>
              /\ heap[stores[b]].graph => heap'[stores[b]].graph
              /\ heap[stores[b]].indexed => heap'[stores[b]].indexed
         /\ pc[c] = "idle" /\ pc'[c] # "idle" => pc'[c] \in {"resolving", "saving"}
         /\ pc'[c] = "streaming" => StartBuild(c)
<1>0. StoresOK /\ TasksOK /\ HasStore /\ c \in Actors /\ c \notin Names
  BY ActorKinds DEF Typed
<1>1. CASE \E call \in use.calls, b \in Names, d \in Docs, t \in use.texts : Request(c, call, b, d, t)
  BY <1>0, <1>1 DEF Request, Goto, TasksOK
<1>2. CASE Get(c) \/ GetAgain(c) \/ Query(c) \/ ReadVersion(c)
  BY <1>0, <1>2 DEF Get, GetAgain, Got, Query, ReadVersion, Goto, Reply, TasksOK
<1>3. CASE Create(c)
  BY <1>0, <1>3, FreshIsFree DEF Create, Got, Goto, TasksOK, StoresOK
<1>4. CASE Ingest(c) \/ Delete(c) \/ Restore(c)
  <2> DEFINE h == task[c].store
  <2>1. /\ h \in Objects /\ heap[h] \in StoreObject /\ pc[c] # "idle"
        /\ AddDocument(heap[h], task[c].doc, task[c].text).graph = heap[h].graph
        /\ heap[h].indexed => AddDocument(heap[h], task[c].doc, task[c].text).indexed
        /\ DeleteDocument(heap[h], task[c].doc).graph = heap[h].graph
        /\ DeleteDocument(heap[h], task[c].doc).indexed = heap[h].indexed
    <3>1. pc[c] \in {"handling", "restoring"}
      BY <1>4 DEF Ingest, Delete, Restore
    <3>2. h \in Objects /\ heap[h] \in StoreObject /\ task[c].doc \in Docs /\ task[c].text \in Texts
      BY <1>0, <3>1 DEF HasStore, AtWork, StoresOK, TasksOK
    <3> HIDE DEF h
    <3> QED BY <3>1, <3>2, AddDocumentType, DeleteDocumentType
  <2>2. \/ UNCHANGED heap
        \/ heap' = [heap EXCEPT ![h] = AddDocument(heap[h], task[c].doc, task[c].text)]
        \/ heap' = [heap EXCEPT ![h] = DeleteDocument(heap[h], task[c].doc)]
    BY <1>4 DEF Ingest, Delete, Restore, Becomes
  <2>3. /\ \A e \in Actors : e # c => pc'[e] = pc[e] /\ task'[e] = task[e]
        /\ pc'[c] # "streaming"
    BY <1>0, <1>4 DEF Ingest, Delete, Restore, Becomes, Goto, Reply, TasksOK
  <2> HIDE DEF h
  <2> QED BY <2>1, <2>2, <2>3, <1>0 DEF StoresOK
<1>5. CASE StartBuild(c)
  BY <1>0, <1>5, ActorKinds DEF StartBuild, Goto, TasksOK
<1>6. CASE \E b \in Names : CreateBucket(c, b) \/ DropBucket(c, b)
  BY <1>0, <1>6, FreshIsFree DEF CreateBucket, DropBucket, Free, StoresOK, TasksOK
<1> QED BY <1>1, <1>2, <1>3, <1>4, <1>5, <1>6 DEF Handler

\* The store that a handler finds, or makes, is its bucket's, and stays it until a drop.
LEMMA HandlerStore ==
  ASSUME Typed, NEW c \in Clients, Handler(c),
         pc[c] \in AtWork => stores[task[c].bucket] = task[c].store, pc'[c] \in AtWork
  PROVE  stores'[task'[c].bucket] = task'[c].store
<1>0. StoresOK /\ TasksOK /\ HasStore /\ c \in Actors /\ c \notin Names
  BY ActorKinds DEF Typed
<1>b. pc[c] # "idle" => task[c].bucket \in Names
  BY <1>0 DEF TasksOK
<1>g. ASSUME NEW h \in Objects, Got(c, h) PROVE task'[c].bucket = task[c].bucket /\ task'[c].store = h
  BY <1>0, <1>g, StoreSet DEF Got, Same
<1>1. CASE \E call \in use.calls, b \in Names, d \in Docs, t \in use.texts : Request(c, call, b, d, t)
  BY <1>0, <1>1 DEF Request, Goto, TasksOK, AtWork
<1>2. CASE Get(c) \/ GetAgain(c)
  <2>1. pc[c] # "idle" /\ UNCHANGED stores
    BY <1>2 DEF Get, GetAgain
  <2>2. Got(c, stores[task[c].bucket]) /\ stores[task[c].bucket] # NULL
    BY <1>0, <1>2 DEF Get, GetAgain, Goto, Reply, TasksOK, AtWork
  <2> QED BY <2>1, <2>2, <1>0, <1>b, <1>g DEF StoresOK
<1>3. CASE Create(c)
  <2>1. Got(c, Fresh) /\ stores' = [stores EXCEPT ![task[c].bucket] = Fresh]
    BY <1>0, <1>3 DEF Create, Goto, TasksOK, AtWork
  <2> QED BY <2>1, <1>0, <1>3, <1>b, <1>g, FreshIsFree DEF StoresOK, Create
<1>4. CASE Query(c) \/ Ingest(c) \/ Delete(c) \/ ReadVersion(c) \/ Restore(c)
  BY <1>0, <1>4 DEF Query, Ingest, Delete, ReadVersion, Restore, Goto, Reply, TasksOK, AtWork
<1>5. CASE StartBuild(c)
  BY <1>0, <1>5, <1>b DEF StartBuild, Goto, TasksOK, AtWork
<1>6. CASE \E b \in Names : CreateBucket(c, b) \/ DropBucket(c, b)
  BY <1>0, <1>6 DEF CreateBucket, DropBucket, Free, AtWork
<1> QED BY <1>1, <1>2, <1>3, <1>4, <1>5, <1>6 DEF Handler

\* A save changes no store; it goes on with its bucket's, or ends.
LEMMA PersistFrame ==
  ASSUME Typed, NEW a \in Actors, Persist(a)
  PROVE  /\ UNCHANGED <<stores, heap>> /\ pc[a] \in Persisting
         /\ \/ Done(a)
            \/ /\ pc'[a] \in {"serialising", "putting"} /\ Same(task[a], task'[a])
               /\ \A e \in Actors : e # a => pc'[e] = pc[e] /\ task'[e] = task[e]
               /\ IF pc[a] = "saving" THEN stores[task[a].bucket] # NULL /\ task'[a].store = stores[task[a].bucket]
                                      ELSE pc[a] = "serialising" /\ task'[a].store = task[a].store
               /\ pc'[a] = "putting" => task'[a].snap = heap[task[a].store]
<1>0. StoresOK /\ TasksOK /\ HasStore
  BY DEF Typed
<1>1. CASE SaveGet(a)
  <2>1. pc[a] = "saving" /\ task[a].bucket \in Names
    BY <1>0, <1>1 DEF SaveGet, TasksOK
  <2>2. CASE stores[task[a].bucket] = NULL
    BY <2>1, <2>2, <1>1 DEF SaveGet, SaveFails, Persisting
  <2>3. CASE stores[task[a].bucket] # NULL
    <3>1. stores[task[a].bucket] \in Objects /\ task' = [task EXCEPT ![a].store = stores[task[a].bucket]]
          /\ Goto(a, "serialising") /\ UNCHANGED <<stores, heap>>
      BY <2>1, <2>3, <1>0, <1>1 DEF SaveGet, StoresOK
    <3>2. /\ Same(task[a], task'[a]) /\ task'[a].store = stores[task[a].bucket]
          /\ \A e \in Actors : e # a => task'[e] = task[e]
      BY <3>1, <1>0, StoreSet
    <3> QED BY <3>1, <3>2, <2>1, <2>3, <1>0 DEF Goto, TasksOK, Persisting
  <2> QED BY <2>2, <2>3
<1>2. CASE SaveLean(a)
  <2>1. CASE ~heap[task[a].store].indexed
    BY <2>1, <1>2 DEF SaveLean, SaveFails, Persisting
  <2>2. CASE heap[task[a].store].indexed
    <3>1. pc[a] = "serialising" /\ heap[task[a].store] \in StoreObject
          /\ task' = [task EXCEPT ![a].snap = heap[task[a].store]]
          /\ Goto(a, "putting") /\ UNCHANGED <<stores, heap>>
      BY <2>2, <1>0, <1>2 DEF SaveLean, HasStore, AtWork, StoresOK
    <3>2. /\ Same(task[a], task'[a]) /\ task'[a].store = task[a].store /\ task'[a].snap = heap[task[a].store]
          /\ \A e \in Actors : e # a => task'[e] = task[e]
      BY <3>1, <1>0, SnapSet
    <3> QED BY <3>1, <3>2, <1>0 DEF Goto, TasksOK, Persisting
  <2> QED BY <2>1, <2>2
<1>3. CASE Put(a)
  BY <1>3 DEF Put, SaveFails, Persisting
<1> QED BY <1>1, <1>2, <1>3 DEF Persist

\* The build of a bucket ends together with its streams, and only with them.
LEMMA DoneStreams ==
  ASSUME Typed, NEW a \in Actors, pc[a] # "idle", Done(a)
  PROVE  /\ \A e \in Actors : \/ pc'[e] = "idle" /\ task'[e] = NoTask
                              \/ pc'[e] = pc[e] /\ task'[e] = task[e]
         /\ \A n \in Names : n # a => pc'[n] = pc[n] /\ task'[n] = task[n]
         /\ \A c \in Clients : c # a /\ pc[c] # "streaming" => pc'[c] = pc[c] /\ task'[c] = task[c]
         /\ \A c \in Clients : pc[c] = "streaming" /\ c # a =>
              IF a \in Names /\ task[c].bucket = a THEN pc'[c] = "idle" ELSE pc'[c] = pc[c] /\ task'[c] = task[c]
<1>0. TasksOK
  BY DEF Typed
<1>1. CASE a \in Names
  BY <1>0, <1>1, ActorKinds DEF Done, JobEnds
<1>2. CASE a \notin Names
  BY <1>0, <1>2, ActorKinds DEF Done, Reply, Goto, TasksOK
<1> QED BY <1>1, <1>2

LEMMA InitBuild == Init => BuildInv
  BY ActorKinds DEF Init, BuildInv, AtWork, Persisting

LEMMA RestartBuild ==
  ASSUME Typed, UNCHANGED use, Starts
  PROVE  BuildInv'
<1>1. pc' = [a \in Actors |-> "idle"]
  BY RestartTyped DEF Starts
<1> QED BY <1>1, ActorKinds DEF BuildInv, AtWork, Persisting

LEMMA HandlerBuild ==
  ASSUME Typed, BuildInv, UNCHANGED use, NEW c \in Clients, Handler(c)
  PROVE  BuildInv'
<1> SUFFICES ASSUME "drop" \notin use.calls PROVE BuildInv'
  BY DEF BuildInv
<1>0. /\ StoresOK /\ TasksOK /\ HasStore /\ c \in Actors /\ c \notin Names
      /\ \A a \in Actors : pc[a] \in AtWork => stores[task[a].bucket] = task[a].store /\ task[a].store # NULL
      /\ \A b \in Names : pc[b] \in Persisting => stores[b] # NULL /\ heap[stores[b]].graph
      /\ \A e \in Clients : pc[e] = "streaming" => pc[task[e].bucket] # "idle"
      /\ \A a \in Actors : pc[a] \in AtWork => task[a].bucket \in Names
  BY ActorKinds, NullIsNone DEF Typed, BuildInv, TasksOK, AtWork, HasStore
<1>1. \A b \in Names : stores[b] # NULL => stores'[b] = stores[b] /\ (heap[stores[b]].graph => heap'[stores[b]].graph)
  <2>1. \A b \in Names : stores[b] # NULL => stores'[b] = stores[b]
    <3>1. CASE Create(c)
      BY <3>1, <1>0 DEF Create, StoresOK
    <3>2. CASE \E b \in Names : CreateBucket(c, b)
      BY <3>2, <1>0 DEF CreateBucket, StoresOK
    <3>3. CASE UNCHANGED stores
      BY <3>3
    <3>4. Create(c) \/ (\E b \in Names : CreateBucket(c, b)) \/ UNCHANGED stores
      BY DEF Handler, Request, Get, GetAgain, Query, Ingest, Delete, ReadVersion, Restore, StartBuild, DropBucket, Free
    <3> QED BY <3>1, <3>2, <3>3, <3>4
  <2> QED BY <2>1, HandlerFrame
<1>2. pc'[c] \in AtWork => stores'[task'[c].bucket] = task'[c].store
  BY <1>0, HandlerStore
<1>3. CASE StartBuild(c)
  <2> DEFINE b == task[c].bucket
  <2>1. b \in Names /\ pc[c] = "handling" /\ UNCHANGED <<stores, heap>>
    BY <1>0, <1>3 DEF StartBuild, AtWork
  <2>2. /\ \A e \in Actors : e # c /\ e # b => pc'[e] = pc[e]
        /\ \A e \in Actors : e # b => task'[e] = task[e]
        /\ pc'[c] = "streaming" /\ pc'[b] # "idle"
        /\ IF pc[b] = "idle" THEN pc'[b] = "extracting" /\ task'[b] = task[c]
                             ELSE pc'[b] = pc[b] /\ task'[b] = task[b]
    BY <1>0, <1>3, <2>1, ActorKinds DEF StartBuild, Goto, TasksOK
  <2> HIDE DEF b
  <2>3. \A a \in Actors : pc'[a] \in AtWork => stores'[task'[a].bucket] = task'[a].store
    BY <2>1, <2>2, <1>0, <1>2 DEF b, AtWork
  <2>4. \A n \in Names : pc'[n] \in Persisting => stores'[n] # NULL /\ heap'[stores'[n]].graph
    BY <2>1, <2>2, <1>0, ActorKinds DEF Persisting
  <2>5. \A e \in Clients : pc'[e] = "streaming" => pc'[task'[e].bucket] # "idle"
    BY <2>1, <2>2, <1>0, ActorKinds DEF b, AtWork
  <2> QED BY <2>3, <2>4, <2>5 DEF BuildInv
<1>4. CASE ~StartBuild(c)
  <2>1. /\ \A e \in Actors : e # c => pc'[e] = pc[e] /\ task'[e] = task[e]
        /\ pc'[c] # "streaming"
    BY <1>4, HandlerFrame
  <2>2. \A a \in Actors : pc'[a] \in AtWork => stores'[task'[a].bucket] = task'[a].store
    BY <2>1, <1>0, <1>1, <1>2
  <2>3. \A n \in Names : pc'[n] \in Persisting => stores'[n] # NULL /\ heap'[stores'[n]].graph
    BY <2>1, <1>0, <1>1, ActorKinds
  <2>4. \A e \in Clients : pc'[e] = "streaming" => pc'[task'[e].bucket] # "idle"
    BY <2>1, <1>0, ActorKinds DEF AtWork
  <2> QED BY <2>2, <2>3, <2>4 DEF BuildInv
<1> QED BY <1>3, <1>4

LEMMA ExtractBuild ==
  ASSUME Typed, BuildInv, UNCHANGED use, NEW b \in Names, BuildEntityGraph(b)
  PROVE  BuildInv'
<1> SUFFICES ASSUME "drop" \notin use.calls PROVE BuildInv'
  BY DEF BuildInv
<1>0. /\ StoresOK /\ TasksOK /\ HasStore /\ b \in Actors /\ b \notin Clients /\ pc[b] = "extracting"
      /\ \A a \in Actors : pc[a] \in AtWork => stores[task[a].bucket] = task[a].store
      /\ \A n \in Names : pc[n] \in Persisting => stores[n] # NULL /\ heap[stores[n]].graph
      /\ \A e \in Clients : pc[e] = "streaming" => pc[task[e].bucket] # "idle"
      /\ task[b].bucket = b /\ task[b].store \in Objects /\ stores[b] = task[b].store
  BY ActorKinds DEF Typed, BuildInv, TasksOK, AtWork, HasStore, BuildEntityGraph
<1>1. CASE JobEnds(b) /\ UNCHANGED heap
  <2>1. Done(b) /\ UNCHANGED <<stores, heap>>
    BY <1>1 DEF BuildEntityGraph, Done
  <2>2. /\ \A e \in Actors : \/ pc'[e] = "idle" /\ task'[e] = NoTask
                             \/ pc'[e] = pc[e] /\ task'[e] = task[e]
        /\ \A n \in Names : n # b => pc'[n] = pc[n] /\ task'[n] = task[n]
        /\ \A e \in Clients : pc[e] = "streaming" /\ task[e].bucket = b => pc'[e] = "idle"
    BY <2>1, <1>0, DoneStreams
  <2>3. \A e \in Clients : pc'[e] = "streaming" => task[e].bucket \in Names /\ task[e].bucket # b /\ task'[e] = task[e] /\ pc[e] = "streaming"
    BY <2>2, <1>0, ActorKinds DEF TasksOK
  <2> QED BY <2>1, <2>2, <2>3, <1>0, ActorKinds DEF BuildInv, AtWork, Persisting
<1>2. CASE ~(JobEnds(b) /\ UNCHANGED heap)
  <2> DEFINE st == [heap[task[b].store] EXCEPT !.graph = TRUE]
  <2>1. heap' = [heap EXCEPT ![task[b].store] = st] /\ Goto(b, "saving") /\ UNCHANGED task /\ UNCHANGED <<stores, blob, told>>
    BY <1>2 DEF BuildEntityGraph, Becomes
  <2>2. heap[task[b].store] \in StoreObject
    BY <1>0 DEF StoresOK
  <2>3. st.graph
    BY <2>2 DEF StoreObject
  <2> HIDE DEF st
  <2>4. \A h \in Objects : heap[h].graph => heap'[h].graph
    BY <2>1, <2>3, <1>0 DEF StoresOK
  <2>5. heap'[stores[b]].graph /\ stores[b] # NULL
    BY <2>1, <2>3, <1>0, NullIsNone DEF StoresOK
  <2>6. pc'[b] = "saving" /\ \A e \in Actors : e # b => pc'[e] = pc[e]
    BY <2>1, <1>0 DEF Goto, TasksOK
  <2>7. \A n \in Names : pc'[n] \in Persisting => stores'[n] # NULL /\ heap'[stores'[n]].graph
    BY <2>1, <2>4, <2>5, <2>6, <1>0, ActorKinds DEF StoresOK
  <2>8. \A a \in Actors : pc'[a] \in AtWork => stores'[task'[a].bucket] = task'[a].store
    BY <2>1, <2>6, <1>0 DEF AtWork
  <2>9. \A e \in Clients : pc'[e] = "streaming" => pc'[task'[e].bucket] # "idle"
    BY <2>1, <2>6, <1>0, ActorKinds DEF TasksOK
  <2> QED BY <2>7, <2>8, <2>9 DEF BuildInv
<1> QED BY <1>1, <1>2

LEMMA PersistBuild ==
  ASSUME Typed, BuildInv, UNCHANGED use, NEW a \in Actors, Persist(a)
  PROVE  BuildInv'
<1> SUFFICES ASSUME "drop" \notin use.calls PROVE BuildInv'
  BY DEF BuildInv
<1>0. /\ StoresOK /\ TasksOK /\ HasStore
      /\ \A e \in Actors : pc[e] \in AtWork => stores[task[e].bucket] = task[e].store
      /\ \A n \in Names : pc[n] \in Persisting => stores[n] # NULL /\ heap[stores[n]].graph
      /\ \A e \in Clients : pc[e] = "streaming" => pc[task[e].bucket] # "idle"
      /\ \A e \in Clients : pc[e] = "streaming" => task[e].bucket \in Names
  BY ActorKinds DEF Typed, BuildInv, TasksOK
<1>1. UNCHANGED <<stores, heap>> /\ pc[a] \in Persisting
  BY PersistFrame
<1>2. CASE Done(a)
  <2>1. /\ \A e \in Actors : \/ pc'[e] = "idle" /\ task'[e] = NoTask
                             \/ pc'[e] = pc[e] /\ task'[e] = task[e]
        /\ \A n \in Names : n # a => pc'[n] = pc[n] /\ task'[n] = task[n]
        /\ \A e \in Clients : pc[e] = "streaming" /\ e # a /\ a \in Names /\ task[e].bucket = a => pc'[e] = "idle"
    BY <1>1, <1>2, DoneStreams DEF Persisting
  <2>2. \A e \in Clients : pc'[e] = "streaming" => pc[e] = "streaming" /\ e # a /\ task[e].bucket # a /\ task'[e] = task[e]
    BY <2>1, <1>0, <1>1, ActorKinds DEF Persisting
  <2> QED BY <2>1, <2>2, <1>0, <1>1, ActorKinds DEF BuildInv, AtWork, Persisting
<1>3. CASE ~Done(a)
  <2>1. /\ pc'[a] \in {"serialising", "putting"} /\ Same(task[a], task'[a])
        /\ \A e \in Actors : e # a => pc'[e] = pc[e] /\ task'[e] = task[e]
        /\ IF pc[a] = "saving" THEN task'[a].store = stores[task[a].bucket]
                               ELSE pc[a] = "serialising" /\ task'[a].store = task[a].store
    BY <1>3, PersistFrame
  <2>2. stores'[task'[a].bucket] = task'[a].store
    BY <2>1, <1>0, <1>1 DEF Same, AtWork
  <2>3. \A e \in Actors : pc'[e] \in AtWork => stores'[task'[e].bucket] = task'[e].store
    BY <2>1, <2>2, <1>0, <1>1
  <2>4. \A n \in Names : pc'[n] \in Persisting => stores'[n] # NULL /\ heap'[stores'[n]].graph
    BY <2>1, <1>0, <1>1, ActorKinds
  <2>5. \A e \in Clients : pc'[e] = "streaming" => pc'[task'[e].bucket] # "idle"
    BY <2>1, <1>0, ActorKinds
  <2> QED BY <2>3, <2>4, <2>5 DEF BuildInv
<1> QED BY <1>2, <1>3

LEMMA NextBuild == Typed /\ BuildInv /\ [Next]_vars => BuildInv'
<1> SUFFICES ASSUME Typed, BuildInv, [Next]_vars PROVE BuildInv'
  OBVIOUS
<1>1. CASE UNCHANGED vars
  BY <1>1 DEF vars, BuildInv
<1>2. CASE Next
  <2>0. UNCHANGED use
    BY <1>2 DEF Next
  <2> QED BY <2>0, <1>2, HandlerBuild, ExtractBuild, PersistBuild, RestartBuild DEF Next
<1> QED BY <1>1, <1>2

\* Once the build that a client waits for has answers for every chunk, it has changed the
\* store of the client's bucket.
LEMMA StreamEnds ==
  ASSUME Typed, BuildInv, NEW c \in Clients,
         "drop" \notin use.calls, pc[c] = "streaming", pc[task[c].bucket] # "extracting"
  PROVE  heap[stores[task[c].bucket]].graph
<1> DEFINE b == task[c].bucket
<1>0. /\ StoresOK /\ TasksOK /\ HasStore /\ b \in Names /\ c \in Actors /\ c \notin Names
      /\ pc[b] \in {"idle", "extracting"} \/ pc[b] \in Persisting
      /\ pc[b] # "idle" /\ pc[b] # "extracting"
  BY ActorKinds DEF Typed, TasksOK, BuildInv, Persisting
<1> QED BY <1>0 DEF BuildInv

\* Without a drop a client that joined a build and sees it end well has the entity graph
\* in the store of its bucket, whoever started the build.
THEOREM BuildsReach == Spec => BuildReachesBucket
<1>1. Typed /\ BuildInv /\ [Next]_vars =>
        [\A c \in Clients :
           LET b == task[c].bucket
           IN  "drop" \notin use.calls /\ pc[c] = "streaming" /\ pc'[c] = "idle"
                 /\ pc[b] # "extracting" /\ stores[b] = task[c].store
                 => heap[stores[b]].graph]_vars
  BY StreamEnds
<1>2. Spec => []BuildInv
  BY InitBuild, NextBuild, TypedAlways, PTL DEF Spec
<1> QED BY <1>1, <1>2, TypedAlways, PTL DEF Spec, BuildReachesBucket
-----------------------------------------------------------------------------
(* One request at a time.                                                   *)

\* The store a request works on is its bucket's, and a bucket that has none has no blob.
AloneInv ==
  Alone =>
    /\ \A c, e \in Clients : pc[c] # "idle" /\ pc[e] # "idle" => c = e
    /\ \A b \in Names : pc[b] = "idle"
    /\ \A c \in Clients : pc[c] \in AtWork => stores[task[c].bucket] = task[c].store
    /\ \A b \in Names : stores[b] = NULL => blob[b] = NULL

Careful == Alone /\ "restore" \notin use.calls /\ ("put" \in use.failures => "delete" \notin use.calls)

\* A store that was never indexed has no text.
UnindexedIsEmpty == \A h \in Objects : ~heap[h].indexed => \A d \in Docs : heap[h].text[d] = NULL

Current(b) == Load(heap[stores[b]]) = Reopened(b)

\* A bucket that differs from its blob is being saved, or a reply will have said so.
\* A deletion is of a store that can be saved.
CurrentInv ==
  Careful =>
    /\ \A b \in Names : stores[b] # NULL /\ b \notin told =>
         Current(b) \/ \E c \in Clients : task[c].bucket = b /\ pc[c] \in Persisting
    /\ \A c \in Clients : pc[c] \in Persisting =>
         /\ task[c].call \in {"ingest", "delete", "save"}
         /\ task[c].call = "delete" => stores[task[c].bucket] # NULL /\ heap[stores[task[c].bucket]].indexed
    /\ \A c \in Clients : pc[c] = "putting" => task[c].snap = heap[task[c].store]
    /\ \A c \in Clients : pc[c] # "restoring"
LEMMA InitAlone == Init => AloneInv /\ CurrentInv /\ UnindexedIsEmpty
<1> SUFFICES ASSUME Init PROVE AloneInv /\ CurrentInv /\ UnindexedIsEmpty
  OBVIOUS
<1>1. Load(NewStore) = NewStore /\ \A d \in Docs : NewStore.text[d] = NULL
  BY DEF Load, NewStore
<1>2. AloneInv
  BY ActorKinds DEF Init, AloneInv, AtWork
<1>3. UnindexedIsEmpty
  BY <1>1 DEF Init, UnindexedIsEmpty
<1>4. CurrentInv
  <2>1. \A b \in Names : stores[b] # NULL => heap[stores[b]] = NewStore
    <3>1. \E h \in Objects : TRUE
      BY SomeAreFree
    <3>2. (CHOOSE h \in Objects : TRUE) \in Objects
      BY <3>1
    <3> QED BY <3>2 DEF Init
  <2>2. \A b \in Names : stores[b] # NULL => Current(b)
    BY <2>1, <1>1 DEF Init, Current, Reopened
  <2> QED BY <2>2, ActorKinds DEF Init, CurrentInv, Persisting
<1> QED BY <1>2, <1>3, <1>4

\* Every text a store gets makes it an indexed one.
LEMMA HandlerIndexed ==
  ASSUME Typed, UnindexedIsEmpty, NEW c \in Clients, Handler(c)
  PROVE  UnindexedIsEmpty'
<1>0. StoresOK /\ TasksOK /\ HasStore /\ c \in Actors
  BY ActorKinds DEF Typed
<1>1. \A d \in Docs : NewStore.text[d] = NULL
  BY DEF NewStore
<1>2. CASE Create(c) \/ \E b \in Names : CreateBucket(c, b)
  BY <1>0, <1>1, <1>2, FreshIsFree DEF Create, CreateBucket, StoresOK, UnindexedIsEmpty
<1>3. CASE UNCHANGED heap
  BY <1>3 DEF UnindexedIsEmpty
<1>4. CASE Ingest(c) \/ Delete(c) \/ Restore(c)
  <2> DEFINE h == task[c].store
             added == AddDocument(heap[h], task[c].doc, task[c].text)
             deleted == DeleteDocument(heap[h], task[c].doc)
  <2>1. h \in Objects /\ heap[h] \in StoreObject /\ task[c].doc \in Docs /\ task[c].text \in Texts
    <3>1. pc[c] \in {"handling", "restoring"}
      BY <1>4 DEF Ingest, Delete, Restore
    <3> QED BY <1>0, <3>1 DEF HasStore, AtWork, StoresOK, TasksOK
  <2>2. ~added.indexed => \A d \in Docs : added.text[d] = NULL
    BY <2>1 DEF AddDocument, StoreObject, UnindexedIsEmpty
  <2>3. ~deleted.indexed => \A d \in Docs : deleted.text[d] = NULL
    BY <2>1 DEF DeleteDocument, StoreObject, UnindexedIsEmpty
  <2>4. UNCHANGED heap \/ heap' = [heap EXCEPT ![h] = added] \/ heap' = [heap EXCEPT ![h] = deleted]
    BY <1>4 DEF Ingest, Delete, Restore, Becomes
  <2> HIDE DEF h, added, deleted
  <2> QED BY <2>1, <2>2, <2>3, <2>4, <1>0 DEF StoresOK, UnindexedIsEmpty
<1>5. \/ Create(c) \/ (\E b \in Names : CreateBucket(c, b)) \/ UNCHANGED heap
      \/ Ingest(c) \/ Delete(c) \/ Restore(c)
  BY DEF Handler, Request, Get, GetAgain, Query, ReadVersion, StartBuild, DropBucket
<1> QED BY <1>2, <1>3, <1>4, <1>5

LEMMA NextIndexed == Typed /\ UnindexedIsEmpty /\ [Next]_vars => UnindexedIsEmpty'
<1> SUFFICES ASSUME Typed, UnindexedIsEmpty, [Next]_vars PROVE UnindexedIsEmpty'
  OBVIOUS
<1>0. StoresOK /\ TasksOK /\ HasStore
  BY DEF Typed
<1>1. CASE UNCHANGED vars
  BY <1>1 DEF vars, UnindexedIsEmpty
<1>2. CASE \E c \in Clients : Handler(c)
  BY <1>2, HandlerIndexed
<1>3. ASSUME NEW b \in Names, BuildEntityGraph(b) PROVE UnindexedIsEmpty'
  <2> DEFINE st == [heap[task[b].store] EXCEPT !.graph = TRUE]
  <2>1. task[b].store \in Objects /\ heap[task[b].store] \in StoreObject
    BY <1>0, <1>3, ActorKinds DEF BuildEntityGraph, HasStore, AtWork, StoresOK
  <2>2. UNCHANGED heap \/ heap' = [heap EXCEPT ![task[b].store] = st]
    BY <1>3 DEF BuildEntityGraph, Becomes
  <2>3. st.indexed = heap[task[b].store].indexed /\ st.text = heap[task[b].store].text
    BY <2>1 DEF StoreObject
  <2> HIDE DEF st
  <2> QED BY <2>1, <2>2, <2>3, <1>0 DEF StoresOK, UnindexedIsEmpty
<1>4. CASE \E a \in Actors : Persist(a)
  BY <1>4, PersistFrame DEF UnindexedIsEmpty
<1>5. CASE Starts
  <2>1. PICK loaded \in SUBSET {b \in Names : blob[b] # NULL} : Restart(loaded)
    BY <1>5 DEF Starts
  <2>2. \A h \in Objects : heap'[h] = NewStore \/ \E b \in Names : blob[b] # NULL /\ heap'[h] = Load(blob[b])
    <3>1. heap' = [h \in Objects |->
            IF \E b \in loaded : stores'[b] = h
            THEN Load(blob[CHOOSE b \in loaded : stores'[b] = h]) ELSE NewStore]
      BY <2>1 DEF Restart
    <3> SUFFICES ASSUME NEW h \in Objects, \E b \in loaded : stores'[b] = h
                 PROVE  \E b \in Names : blob[b] # NULL /\ heap'[h] = Load(blob[b])
      BY <3>1
    <3>2. PICK b \in loaded : b = CHOOSE e \in loaded : stores'[e] = h
      OBVIOUS
    <3> QED BY <3>1, <3>2
  <2>3. \A b \in Names : blob[b] # NULL => blob[b] \in StoreObject /\ blob[b].indexed
    BY <1>0 DEF StoresOK
  <2>4. \A d \in Docs : NewStore.text[d] = NULL
    BY DEF NewStore
  <2> QED BY <2>2, <2>3, <2>4 DEF UnindexedIsEmpty, Load
<1> QED BY <1>1, <1>2, <1>3, <1>4, <1>5 DEF Next

\* A server that handles one request at a time takes the next when no other is left.
LEMMA FreeAlone ==
  ASSUME use.atOnce = 1, NEW c \in Clients, NEW call, Free(c, call)
  PROVE  \A e \in Clients : pc[e] = "idle"
<1> DEFINE S == {b \in Clients : pc[b] # "idle"}
<1>1. IsFiniteSet(Clients)
  BY ActorsAssumption, FS_Subset DEF Actors
<1>2. IsFiniteSet(S)
  BY <1>1, FS_Subset
<1>3. Cardinality(S) \in Nat /\ Cardinality(S) < 1
  BY <1>2, FS_CardinalityType DEF Free
<1> HIDE DEF S
<1>4. S = {}
  BY <1>2, <1>3, FS_EmptySet
<1> QED BY <1>4 DEF S

LEMMA RestartAlone ==
  ASSUME Typed, UNCHANGED use, Starts
  PROVE  AloneInv' /\ CurrentInv'
<1>1. PICK loaded \in SUBSET {b \in Names : blob[b] # NULL} : Restart(loaded)
  BY DEF Starts
<1>2. /\ \A b \in Names : stores'[b] # NULL <=> b \in loaded \cup {Default}
      /\ \A b \in Names : stores'[b] # NULL =>
           heap'[stores'[b]] = IF b \in loaded THEN Load(blob[b]) ELSE NewStore
      /\ pc' = [a \in Actors |-> "idle"] /\ blob' = blob
  BY <1>1, RestartTyped
<1>3. ASSUME Alone PROVE loaded = {b \in Names : blob[b] # NULL}
  BY <1>1, <1>3 DEF Restart, Alone
<1>4. AloneInv'
  <2>1. Alone' = Alone
    BY DEF Alone
  <2> QED BY <2>1, <1>2, <1>3, ActorKinds DEF AloneInv, AtWork
<1>5. CurrentInv'
  <2>1. Careful' = Careful
    BY DEF Careful, Alone
  <2> SUFFICES ASSUME Careful PROVE CurrentInv'
    BY <2>1 DEF CurrentInv
  <2>2. ASSUME NEW b \in Names, stores'[b] # NULL PROVE Current(b)'
    <3>1. CASE b \in loaded
      <4>1. blob[b] \in StoreObject
        BY <3>1 DEF Typed, StoresOK
      <4>2. heap'[stores'[b]] = Load(blob[b]) /\ blob'[b] = blob[b] /\ blob[b] # NULL
        BY <2>2, <3>1, <1>2
      <4>3. Load(Load(blob[b])) = Load(blob[b])
        BY <4>1, LoadTwice
      <4> QED BY <4>2, <4>3 DEF Current, Reopened
    <3>2. CASE b \notin loaded
      <4>1. heap'[stores'[b]] = NewStore /\ blob'[b] = NULL
        BY <2>2, <3>2, <1>2, <1>3 DEF Careful
      <4>2. Load(NewStore) = NewStore
        BY DEF Load
      <4> QED BY <4>1, <4>2 DEF Current, Reopened
    <3> QED BY <3>1, <3>2
  <2> QED BY <2>2, <1>2, ActorKinds DEF CurrentInv, Persisting
<1> QED BY <1>4, <1>5

LEMMA NextAlone == Typed /\ AloneInv /\ [Next]_vars => AloneInv'
<1> SUFFICES ASSUME Typed, AloneInv, [Next]_vars, Alone PROVE AloneInv'
  BY DEF AloneInv, Alone, Next, vars
<1>0. /\ StoresOK /\ TasksOK /\ HasStore /\ use.atOnce = 1 /\ "build" \notin use.calls /\ use.failures \subseteq {"put"}
      /\ \A c, e \in Clients : pc[c] # "idle" /\ pc[e] # "idle" => c = e
      /\ \A b \in Names : pc[b] = "idle"
      /\ \A c \in Clients : pc[c] \in AtWork => stores[task[c].bucket] = task[c].store
      /\ \A b \in Names : stores[b] = NULL => blob[b] = NULL
  BY DEF Typed, AloneInv, Alone
<1>1. CASE UNCHANGED vars
  BY <1>1 DEF vars, AloneInv, Alone
<1>2. ASSUME NEW c \in Clients, Handler(c), UNCHANGED use PROVE AloneInv'
  <2>0. c \in Actors /\ c \notin Names
    BY ActorKinds
  <2>1. ~StartBuild(c)
    BY <1>0, <2>0 DEF StartBuild, TasksOK
  <2>2. \A e \in Actors : e # c => pc'[e] = pc[e] /\ task'[e] = task[e]
    BY <1>2, <2>1, HandlerFrame
  <2>3. ASSUME NEW e \in Clients, pc'[e] # "idle" PROVE e = c \/ (pc[c] = "idle" /\ pc'[c] = "idle")
    <3>1. CASE pc[c] # "idle"
      BY <3>1, <2>2, <2>3, <1>0, ActorKinds
    <3>2. CASE pc[c] = "idle" /\ pc'[c] # "idle"
      <4>1. \E call \in use.calls, b \in Names, d \in Docs, t \in use.texts : Request(c, call, b, d, t)
        BY <3>2, <1>2, <2>1 DEF Handler, Get, Create, GetAgain, Query, Ingest, Delete, ReadVersion, Restore, CreateBucket, DropBucket
      <4>2. \A x \in Clients : pc[x] = "idle"
        BY <4>1, <1>0, FreeAlone DEF Request
      <4> QED BY <4>2, <2>2, <2>3, ActorKinds
    <3> QED BY <3>1, <3>2
  <2>4. \A x, e \in Clients : pc'[x] # "idle" /\ pc'[e] # "idle" => x = e
    BY <2>2, <2>3, <1>0, ActorKinds
  <2>5. \A b \in Names : pc'[b] = "idle"
    BY <2>0, <2>2, <1>0, ActorKinds
  <2>6. \A b \in Names : stores'[b] = NULL => blob'[b] = NULL
    <3>1. CASE Create(c)
      BY <3>1, <1>0, FreshIsFree DEF Create, StoresOK
    <3>2. CASE \E b \in Names : CreateBucket(c, b)
      BY <3>2, <1>0, FreshIsFree DEF CreateBucket, StoresOK
    <3>3. CASE \E b \in Names : DropBucket(c, b)
      BY <3>3, <1>0 DEF DropBucket, StoresOK
    <3>4. CASE UNCHANGED <<stores, blob>>
      BY <3>4, <1>0
    <3>5. \/ Create(c) \/ (\E b \in Names : CreateBucket(c, b)) \/ (\E b \in Names : DropBucket(c, b))
          \/ UNCHANGED <<stores, blob>>
      BY <1>2 DEF Handler, Request, Get, GetAgain, Query, Ingest, Delete, ReadVersion, Restore, StartBuild
    <3> QED BY <3>1, <3>2, <3>3, <3>4, <3>5
  <2>7. ASSUME NEW e \in Clients, pc'[e] \in AtWork PROVE stores'[task'[e].bucket] = task'[e].store
    <3>1. pc'[e] # "idle"
      BY <2>7 DEF AtWork
    <3>2. CASE e = c
      BY <3>2, <2>7, <1>0, <1>2, HandlerStore
    <3>3. CASE e # c
      <4>1. pc[e] # "idle" /\ pc[c] = "idle" /\ pc'[c] = "idle"
        BY <2>2, <2>3, <3>1, <3>3, ActorKinds
      <4>2. FALSE
        <5>1. ~\E call : Free(c, call)
          BY <4>1, <1>0, FreeAlone
        <5> QED BY <5>1, <4>1, <1>2 DEF Handler, Request, Get, Create, GetAgain, Query, Ingest, Delete, ReadVersion,
                                        Restore, StartBuild, CreateBucket, DropBucket
      <4> QED BY <4>2
    <3> QED BY <3>2, <3>3
  <2> QED BY <2>4, <2>5, <2>6, <2>7 DEF AloneInv
<1>3. ASSUME NEW b \in Names, BuildEntityGraph(b) PROVE AloneInv'
  BY <1>0, <1>3 DEF BuildEntityGraph
<1>4. ASSUME NEW a \in Actors, Persist(a), UNCHANGED use PROVE AloneInv'
  <2>0. pc[a] \in Persisting /\ UNCHANGED <<stores, heap>> /\ a \in Clients /\ task[a].bucket \in Names
    BY <1>0, <1>4, PersistFrame, ActorKinds DEF Persisting, TasksOK
  <2>1. \A b \in Names : stores'[b] = NULL => blob'[b] = NULL
    <3>1. CASE UNCHANGED blob
      BY <3>1, <2>0, <1>0
    <3>2. CASE ~UNCHANGED blob
      <4>1. pc[a] = "putting" /\ blob' = [blob EXCEPT ![task[a].bucket] = task[a].snap]
        BY <3>2, <1>4 DEF Persist, SaveGet, SaveLean, Put, SaveFails
      <4>2. stores[task[a].bucket] # NULL
        BY <4>1, <2>0, <1>0, NullIsNone DEF AtWork, HasStore
      <4> QED BY <4>1, <4>2, <2>0, <1>0 DEF StoresOK
    <3> QED BY <3>1, <3>2
  <2>2. CASE Done(a)
    <3>1. \A e \in Actors : pc'[e] = "idle" \/ (pc'[e] = pc[e] /\ task'[e] = task[e])
      BY <2>0, <2>2, DoneStreams DEF Persisting
    <3> QED BY <3>1, <2>0, <2>1, <1>0, ActorKinds DEF AloneInv, AtWork
  <2>3. CASE ~Done(a)
    <3>1. /\ pc'[a] \in {"serialising", "putting"} /\ Same(task[a], task'[a])
          /\ \A e \in Actors : e # a => pc'[e] = pc[e] /\ task'[e] = task[e]
          /\ IF pc[a] = "saving" THEN task'[a].store = stores[task[a].bucket]
                                 ELSE pc[a] = "serialising" /\ task'[a].store = task[a].store
      BY <2>3, <1>4, PersistFrame
    <3>2. stores'[task'[a].bucket] = task'[a].store
      BY <3>1, <2>0, <1>0 DEF Same, AtWork
    <3>3. pc[a] # "idle"
      BY <2>0 DEF Persisting
    <3>4. \A x, e \in Clients : pc'[x] # "idle" /\ pc'[e] # "idle" => x = e
      BY <3>1, <3>3, <2>0, <1>0, ActorKinds
    <3>5. (\A b \in Names : pc'[b] = "idle")
          /\ \A e \in Clients : pc'[e] \in AtWork => stores'[task'[e].bucket] = task'[e].store
      BY <3>1, <3>2, <2>0, <1>0, ActorKinds
    <3> QED BY <3>4, <3>5, <2>1 DEF AloneInv
  <2> QED BY <2>2, <2>3
<1>5. CASE Starts /\ UNCHANGED use
  BY <1>5, RestartAlone
<1> QED BY <1>1, <1>2, <1>3, <1>4, <1>5 DEF Next

\* A client takes a request only when all are idle; until it replies no other goes on.
LEMMA OthersWait ==
  ASSUME Typed, AloneInv, Alone, NEW c \in Clients, Handler(c)
  PROVE  \A e \in Clients : e # c => pc[e] = "idle"
<1>1. CASE pc[c] # "idle"
  BY <1>1 DEF AloneInv
<1>2. CASE pc[c] = "idle"
  <2>1. \E call : Free(c, call)
    BY <1>2 DEF Handler, Request, Get, Create, GetAgain, Query, Ingest, Delete, ReadVersion, Restore,
                StartBuild, CreateBucket, DropBucket
  <2> QED BY <2>1, FreeAlone DEF Alone
<1> QED BY <1>1, <1>2

LEMMA HandlerCurrent ==
  ASSUME Typed, AloneInv, UnindexedIsEmpty, CurrentInv, UNCHANGED use, NEW c \in Clients, Handler(c)
  PROVE  CurrentInv'
<1> SUFFICES ASSUME Careful PROVE CurrentInv'
  BY DEF CurrentInv, Careful, Alone
<1>0. /\ StoresOK /\ TasksOK /\ HasStore /\ Alone
      /\ use.atOnce = 1 /\ "build" \notin use.calls /\ "restore" \notin use.calls
      /\ c \in Actors /\ c \notin Names
      /\ \A e \in Clients : e # c => pc[e] = "idle"
      /\ pc[c] \in AtWork => stores[task[c].bucket] = task[c].store
      /\ \A b \in Names : stores[b] = NULL => blob[b] = NULL
      /\ pc[c] # "idle" => task[c].bucket \in Names /\ task[c].doc \in Docs /\ task[c].text \in Texts
                           /\ task[c].call \in use.calls
  BY ActorKinds, OthersWait DEF Typed, AloneInv, Careful, Alone, TasksOK
<1>1. /\ \A b \in Names : stores[b] # NULL /\ b \notin told /\ pc[c] \notin Persisting => Current(b)
      /\ pc[c] \notin Persisting \cup {"restoring"}
  <2>1. pc[c] \notin Persisting
    BY DEF Handler, Free, Request, Get, Create, GetAgain, Query, Ingest, Delete, ReadVersion, Restore,
           StartBuild, CreateBucket, DropBucket, Persisting
  <2> QED BY <2>1, <1>0 DEF CurrentInv, Persisting
<1>2. ~StartBuild(c) /\ \A e \in Actors : e # c => pc'[e] = pc[e] /\ task'[e] = task[e]
  <2>1. ~StartBuild(c)
    BY <1>0 DEF StartBuild, TasksOK
  <2> QED BY <2>1, HandlerFrame
<1>3. \A e \in Clients : e # c => pc'[e] = "idle"
  BY <1>0, <1>2, ActorKinds
<1>o. Load(NewStore) = NewStore
  BY DEF Load
\* What is to be shown, when c does not save.
<1>q. ASSUME pc'[c] \notin Persisting \cup {"restoring"}, \A b \in Names : stores'[b] # NULL /\ b \notin told' => Current(b)'
      PROVE  CurrentInv'
  BY <1>3, <1>q DEF CurrentInv, Persisting
<1>u. ASSUME UNCHANGED <<stores, heap, blob, told>> PROVE \A b \in Names : stores'[b] # NULL /\ b \notin told' => Current(b)'
  BY <1>u, <1>1 DEF Current, Reopened
<1>4. ASSUME NEW call \in use.calls, NEW n \in Names, NEW d \in Docs, NEW t \in use.texts, Request(c, call, n, d, t)
      PROVE  CurrentInv'
  <2>1. UNCHANGED <<stores, heap, blob, told>>
    BY <1>4 DEF Request
  <2>2. pc'[c] = IF call = "save" THEN "saving" ELSE "resolving"
    BY <1>4, <1>0 DEF Request, Goto, TasksOK
  <2>3. task'[c].call = call
    BY <1>4, <1>0 DEF Request, NoTask, TasksOK
  <2> QED BY <2>1, <2>2, <2>3, <1>u, <1>3 DEF CurrentInv, Persisting
<1>5. CASE Get(c) \/ GetAgain(c) \/ Query(c) \/ ReadVersion(c)
  <2>0. ~ReadVersion(c)
    BY <1>0 DEF ReadVersion, TasksOK
  <2>1. UNCHANGED <<stores, heap, blob, told>> /\ pc'[c] \notin Persisting \cup {"restoring"}
    BY <2>0, <1>5, <1>0 DEF Get, GetAgain, Query, ReadVersion, Got, Goto, Reply, TasksOK, Persisting
  <2> QED BY <2>1, <1>q, <1>u
<1>6. ASSUME NEW n \in Names, stores[n] = NULL, stores' = [stores EXCEPT ![n] = Fresh],
             heap' = [heap EXCEPT ![Fresh] = NewStore], UNCHANGED <<blob, told>>
      PROVE  \A b \in Names : stores'[b] # NULL /\ b \notin told' => Current(b)'
  <2>1. /\ stores'[n] = Fresh /\ heap'[Fresh] = NewStore
        /\ \A e \in Names : e # n => stores'[e] = stores[e]
        /\ \A h \in Objects : h # Fresh => heap'[h] = heap[h]
    BY <1>0, <1>6, CreateTyped
  <2>2. Current(n)'
    BY <2>1, <1>0, <1>6, <1>o DEF Current, Reopened
  <2>3. ASSUME NEW b \in Names, b # n, stores'[b] # NULL, b \notin told' PROVE Current(b)'
    <3>1. stores'[b] = stores[b] /\ heap'[stores[b]] = heap[stores[b]]
      BY <2>1, <2>3, <1>0, FreshIsFree DEF StoresOK
    <3>2. Current(b)
      BY <3>1, <2>3, <1>1, <1>6
    <3> QED BY <3>1, <3>2, <1>6 DEF Current, Reopened
  <2> QED BY <2>2, <2>3
<1>7. CASE Create(c)
  <2>1. pc'[c] \notin Persisting \cup {"restoring"}
    BY <1>7, <1>0 DEF Create, Got, Goto, TasksOK, Persisting
  <2> QED BY <2>1, <1>0, <1>6, <1>7, <1>q, <1>u DEF Create
<1>8. CASE \E n \in Names : CreateBucket(c, n)
  BY <1>8, <1>1, <1>6, <1>q DEF CreateBucket
<1>9. ASSUME NEW n \in Names, DropBucket(c, n) PROVE CurrentInv'
  <2>1. /\ stores' = [stores EXCEPT ![n] = NULL] /\ told' = told \ {n} /\ UNCHANGED <<heap, pc>>
        /\ \A b \in Names : b # n => blob'[b] = blob[b]
    BY <1>9, <1>0 DEF DropBucket, StoresOK
  <2>2. \A b \in Names : stores'[b] # NULL /\ b \notin told' => Current(b)'
    BY <2>1, <1>0, <1>1 DEF Current, Reopened, StoresOK
  <2> QED BY <2>1, <2>2, <1>1, <1>q
\* The bucket that c has changed is the one it is about to save.
<1>s. ASSUME NEW st \in StoreObject, Becomes(c, st), pc'[c] = "saving", UNCHANGED <<stores, blob, told, task>>,
             pc[c] = "handling", task[c].call \in {"ingest", "delete"}, task[c].call = "delete" => st.indexed
      PROVE  CurrentInv'
  <2> DEFINE n == task[c].bucket
  <2>0. n \in Names /\ task[c].store \in Objects /\ stores[n] = task[c].store
    BY <1>0, <1>s DEF AtWork, HasStore
  <2>1. heap'[task[c].store] = st /\ \A h \in Objects : h # task[c].store => heap'[h] = heap[h]
    BY <2>0, <1>0, <1>s DEF Becomes, StoresOK
  <2>2. ASSUME NEW b \in Names, b # n, stores'[b] # NULL, b \notin told' PROVE Current(b)'
    <3>1. stores'[b] = stores[b] /\ heap'[stores[b]] = heap[stores[b]]
      BY <2>0, <2>1, <2>2, <1>0, <1>s DEF StoresOK
    <3> QED BY <3>1, <2>2, <1>1, <1>s DEF Current, Reopened
  <2>3. task'[c].bucket = n /\ pc'[c] \in Persisting /\ pc'[c] # "putting"
    BY <1>s DEF Persisting
  <2>4. task'[c].call = "delete" => stores'[n] # NULL /\ heap'[stores'[n]].indexed
    BY <2>0, <2>1, <1>s, NullIsNone
  <2> HIDE DEF n
  <2> QED BY <2>2, <2>3, <2>4, <1>3, <1>s DEF CurrentInv, Persisting
<1>10. CASE Ingest(c) \/ Delete(c)
  <2>0. /\ pc[c] = "handling" /\ task[c].call \in {"ingest", "delete"} /\ UNCHANGED <<stores, blob, told>>
        /\ task[c].store \in Objects /\ heap[task[c].store] \in StoreObject
    BY <1>10, <1>0 DEF Ingest, Delete, HasStore, AtWork, StoresOK
  <2>1. CASE Reply(c) /\ UNCHANGED heap
    <3>1. pc'[c] \notin Persisting \cup {"restoring"}
      BY <2>1, <1>0 DEF Reply, Goto, TasksOK, Persisting
    <3> QED BY <3>1, <2>0, <2>1, <1>q, <1>u
  <2>2. CASE ~(Reply(c) /\ UNCHANGED heap)
    <3>1. Goto(c, "saving") /\ UNCHANGED task
      BY <2>2, <1>10 DEF Ingest, Delete
    <3>2. pc'[c] = "saving"
      BY <3>1, <1>0 DEF Goto, TasksOK
    <3>3. CASE Ingest(c)
      <4>1. Becomes(c, AddDocument(heap[task[c].store], task[c].doc, task[c].text)) /\ task[c].call = "ingest"
        BY <2>2, <3>3 DEF Ingest
      <4>2. AddDocument(heap[task[c].store], task[c].doc, task[c].text) \in StoreObject
        BY <2>0, <1>0, AddDocumentType
      <4> QED BY <4>1, <4>2, <2>0, <3>1, <3>2, <1>s
    <3>4. CASE Delete(c)
      <4>1. Becomes(c, DeleteDocument(heap[task[c].store], task[c].doc))
            /\ heap[task[c].store].text[task[c].doc] # NULL
        BY <2>2, <3>4 DEF Delete
      <4>2. heap[task[c].store].indexed
        BY <4>1, <2>0, <1>0 DEF UnindexedIsEmpty
      <4>3. DeleteDocument(heap[task[c].store], task[c].doc) \in StoreObject
            /\ DeleteDocument(heap[task[c].store], task[c].doc).indexed
        BY <4>2, <2>0, <1>0, DeleteDocumentType
      <4> QED BY <4>1, <4>3, <2>0, <3>1, <3>2, <1>s
    <3> QED BY <3>3, <3>4, <1>10
  <2> QED BY <2>1, <2>2
<1>11. CASE Restore(c)
  <2>1. pc[c] = "restoring"
    BY <1>11 DEF Restore
  <2> QED BY <2>1, <1>1
<1> QED BY <1>2, <1>4, <1>5, <1>7, <1>8, <1>9, <1>10, <1>11 DEF Handler

LEMMA PersistCurrent ==
  ASSUME Typed, AloneInv, CurrentInv, UNCHANGED use, NEW a \in Actors, Persist(a)
  PROVE  CurrentInv'
<1> SUFFICES ASSUME Careful PROVE CurrentInv'
  BY DEF CurrentInv, Careful, Alone
<1>n. PICK n \in Names : n = task[a].bucket
  BY PersistFrame DEF Typed, TasksOK, Persisting
<1>0. /\ StoresOK /\ TasksOK /\ HasStore /\ Alone
      /\ pc[a] \in Persisting /\ UNCHANGED <<stores, heap>> /\ n = task[a].bucket
      /\ a \in Clients /\ a \notin Names
      /\ \A e \in Clients : e # a => pc[e] = "idle" /\ task[e].bucket = NULL
      /\ pc[a] \in AtWork => stores[n] = task[a].store
      /\ \A b \in Names : stores[b] # NULL /\ b \notin told /\ b # n => Current(b)
      /\ task[a].call \in {"ingest", "delete", "save"} /\ task[a].call \in use.calls
      /\ task[a].call = "delete" => stores[n] # NULL /\ heap[stores[n]].indexed
      /\ pc[a] = "putting" => task[a].snap = heap[task[a].store]
  <2>1. pc[a] \in Persisting /\ UNCHANGED <<stores, heap>> /\ Alone /\ pc[a] # "idle"
    BY PersistFrame DEF Careful, Persisting
  <2>2. a \in Clients /\ a \notin Names
    BY <2>1, ActorKinds DEF AloneInv
  <2>3. \A e \in Clients : e # a => pc[e] = "idle" /\ task[e].bucket = NULL
    BY <2>1, <2>2, ActorKinds, NoTaskType DEF AloneInv, Typed, TasksOK
  <2>4. n = task[a].bucket /\ task[a].call \in use.calls
    BY <1>n, <2>1 DEF Typed, TasksOK
  <2>5. pc[a] \in AtWork => stores[n] = task[a].store
    BY <1>n, <2>1, <2>2 DEF AloneInv
  <2>6. \A b \in Names : stores[b] # NULL /\ b \notin told /\ b # n => Current(b)
    BY <1>n, <2>3, NullIsNone, ActorKinds DEF CurrentInv
  <2> QED BY <2>1, <2>2, <2>3, <2>4, <2>5, <2>6 DEF Typed, CurrentInv
<1>1. \A e \in Clients : e # a => pc'[e] = "idle"
  <2>1. CASE Done(a)
    BY <2>1, <1>0, ActorKinds, DoneStreams DEF Persisting
  <2>2. CASE ~Done(a)
    BY <2>2, <1>0, ActorKinds, PersistFrame
  <2> QED BY <2>1, <2>2
<1>2. \A b \in Names : b # n => (blob'[b] = blob[b] /\ (b \in told' <=> b \in told))
  BY <1>0 DEF Persist, SaveGet, SaveLean, Put, SaveFails, StoresOK
<1>3. \A b \in Names : stores'[b] # NULL /\ b \notin told' /\ b # n => Current(b)'
  BY <1>0, <1>2 DEF Current, Reopened
<1>d. ASSUME Done(a), stores[n] # NULL /\ n \notin told' => Current(n)' PROVE CurrentInv'
  <2>1. pc'[a] = "idle"
    BY <1>0, <1>d, DoneEnds
  <2> QED BY <2>1, <1>0, <1>1, <1>3, <1>d DEF CurrentInv, Persisting
<1>g. CASE ~Done(a)
  <2>1. /\ pc'[a] \in {"serialising", "putting"} /\ Same(task[a], task'[a])
        /\ task'[a].store = IF pc[a] = "saving" THEN stores[n] ELSE task[a].store
        /\ pc'[a] = "putting" => task'[a].snap = heap[task[a].store] /\ pc[a] = "serialising"
    <3>1. Persist(a) /\ ~Done(a)
      BY <1>g
    <3>2. /\ pc'[a] \in {"serialising", "putting"} /\ Same(task[a], task'[a])
          /\ task'[a].store = IF pc[a] = "saving" THEN stores[n] ELSE task[a].store
          /\ pc'[a] = "putting" => task'[a].snap = heap[task[a].store]
      BY <1>n, <3>1, PersistFrame
    <3>3. pc[a] = "saving" => pc'[a] # "putting"
      BY <3>1, <1>0 DEF Persist, SaveGet, SaveLean, Put, SaveFails, Goto, TasksOK
    <3>4. pc[a] # "putting"
      BY <3>1 DEF Persist, SaveGet, SaveLean, Put, SaveFails
    <3> QED BY <3>2, <3>3, <3>4, <1>0 DEF Persisting
  <2>2. task'[a].bucket = n /\ task'[a].call = task[a].call /\ pc'[a] \in Persisting /\ pc'[a] # "restoring"
    BY <2>1, <1>0 DEF Same, Persisting
  <2>3. pc'[a] = "putting" => task'[a].snap = heap'[task'[a].store]
    BY <2>1, <1>0
  <2>4. \A b \in Names : stores'[b] # NULL /\ b \notin told' =>
          Current(b)' \/ \E c \in Clients : task'[c].bucket = b /\ pc'[c] \in Persisting
    BY <2>2, <1>0, <1>3
  <2>5. \A c \in Clients : pc'[c] \in Persisting => c = a
    BY <1>1 DEF Persisting
  <2>6. \A c \in Clients : pc'[c] # "restoring" /\ (pc'[c] = "putting" => c = a)
    BY <2>2, <1>1
  <2> QED BY <2>2, <2>3, <2>4, <2>5, <2>6, <1>0 DEF CurrentInv
<1>w. CASE pc[a] = "putting" /\ blob' = [blob EXCEPT ![n] = task[a].snap] /\ Done(a)
  <2>1. blob'[n] = heap[stores[n]] /\ blob'[n] # NULL
    BY <1>w, <1>0, NullIsNone DEF AtWork, StoresOK, TasksOK
  <2>2. Current(n)'
    BY <2>1, <1>0 DEF Current, Reopened
  <2> QED BY <2>2, <1>d, <1>w
<1>f. CASE SaveFails(a) /\ ~(pc[a] = "putting" /\ blob' = [blob EXCEPT ![n] = task[a].snap] /\ Done(a))
  <2>1. n \in told' \/ stores[n] = NULL \/ task[a].call = "delete"
    BY <1>0, <1>f DEF SaveFails, Reports
  <2>2. ASSUME task[a].call = "delete", stores[n] # NULL PROVE FALSE
    <3>0. pc'[a] = "idle"
      BY <1>f, <1>0, DoneEnds DEF SaveFails
    <3>1. CASE SaveGet(a)
      BY <3>0, <3>1, <2>2, <1>0 DEF SaveGet, Goto, TasksOK
    <3>2. CASE SaveLean(a)
      BY <3>0, <3>2, <2>2, <1>0 DEF SaveLean, Goto, TasksOK, AtWork
    <3>3. CASE Put(a)
      <4>1. "put" \notin use.failures
        BY <2>2, <1>0 DEF Careful
      <4> QED BY <4>1, <3>3, <1>0, <1>f DEF Put
    <3> QED BY <3>1, <3>2, <3>3 DEF Persist
  <2> QED BY <2>1, <2>2, <1>d, <1>f, <1>0 DEF SaveFails
<1> QED
  <2>1. Put(a) => SaveFails(a) \/ (pc[a] = "putting" /\ blob' = [blob EXCEPT ![n] = task[a].snap] /\ Done(a))
    BY <1>0 DEF Put
  <2>2. SaveGet(a) \/ SaveLean(a) => SaveFails(a) \/ ~Done(a)
    <3>1. Done(a) => pc'[a] = "idle"
      BY <1>0, DoneEnds
    <3> QED BY <3>1, <1>0 DEF SaveGet, SaveLean, Goto, TasksOK
  <2> QED BY <2>1, <2>2, <1>g, <1>w, <1>f DEF Persist

LEMMA NextCurrent == Typed /\ AloneInv /\ UnindexedIsEmpty /\ CurrentInv /\ [Next]_vars => CurrentInv'
<1> SUFFICES ASSUME Typed, AloneInv, UnindexedIsEmpty, CurrentInv, [Next]_vars PROVE CurrentInv'
  OBVIOUS
<1>1. CASE UNCHANGED vars
  <2>1. Careful' = Careful
    BY <1>1 DEF vars, Careful, Alone
  <2>2. \A b \in Names : Current(b)' = Current(b)
    BY <1>1 DEF vars, Current, Reopened
  <2> QED BY <2>1, <2>2, <1>1 DEF vars, CurrentInv
<1>2. CASE Next
  <2>0. UNCHANGED use
    BY <1>2 DEF Next
  <2>1. CASE \E c \in Clients : Handler(c)
    BY <2>0, <2>1, HandlerCurrent
  <2>2. CASE \E b \in Names : BuildEntityGraph(b)
    BY <2>0, <2>2, ActorKinds DEF BuildEntityGraph, AloneInv, CurrentInv, Careful, Alone
  <2>3. CASE \E a \in Actors : Persist(a)
    BY <2>0, <2>3, PersistCurrent
  <2>4. CASE Starts
    BY <2>0, <2>4, RestartAlone
  <2> QED BY <2>1, <2>2, <2>3, <2>4, <1>2 DEF Next
<1> QED BY <1>1, <1>2

LEMMA RestartFinds ==
  ASSUME Typed, AloneInv, CurrentInv
  PROVE  RestartFindsBuckets
<1>1. ASSUME Careful PROVE SavedIsCurrent
  <2> SUFFICES ASSUME NEW b \in Names, stores[b] # NULL, ~Busy(b), b \notin told
               PROVE  Current(b)
    BY DEF SavedIsCurrent, Current
  <2> QED BY <1>1, ActorKinds DEF CurrentInv, Busy
<1>2. ASSUME Alone PROVE DroppedStaysGone
  BY <1>2 DEF AloneInv, DroppedStaysGone
<1> QED BY <1>1, <1>2, TypedIsTypeOK DEF RestartFindsBuckets, Careful

\* On a server that handles one request at a time, whenever no request works on a bucket
\* a restart would find it as it is, or a reply has said that it was not saved; and it
\* would find no bucket that was deleted.
THEOREM RestIsOnDisk == Spec => []RestartFindsBuckets
<1>1. Spec => []AloneInv
  BY InitAlone, NextAlone, TypedAlways, PTL DEF Spec
<1>2. Spec => []UnindexedIsEmpty
  BY InitAlone, NextIndexed, TypedAlways, PTL DEF Spec
<1>3. Spec => []CurrentInv
  BY InitAlone, NextCurrent, TypedAlways, <1>1, <1>2, PTL DEF Spec
<1> QED BY <1>1, <1>3, TypedAlways, RestartFinds, PTL
=============================================================================
