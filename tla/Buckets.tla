------------------------------- MODULE Buckets -------------------------------
(***************************************************************************)
(* The buckets of a server: rag.Manager (rag/manager.go), the HTTP         *)
(* handlers that resolve a bucket, change its store and persist it         *)
(* (server/server.go, web.go), and the detached entity builds that outlive *)
(* the request which started them (server/entitybuild.go).                 *)
(*                                                                         *)
(* Manager.mu covers the table of stores only.  A handler looks its store  *)
(* up, changes it under the store's own lock, and then saves the bucket by *)
(* name: it looks the store up again, serialises it under the store's read *)
(* lock and puts the bytes under the bucket's key, holding no lock.  All   *)
(* of these are steps of their own here.  A build is one more actor per    *)
(* bucket, named by the bucket.                                            *)
(*                                                                         *)
(* A store object is what the properties need of it: the text and the      *)
(* earlier texts per document, whether it ever had an index, and whether   *)
(* its entity graph is built.  How a store changes is module Store.        *)
(***************************************************************************)
EXTENDS Naturals, FiniteSets

CONSTANTS
  Names,     \* bucket names
  Default,   \* DefaultBucket
  Docs, Texts,
  Objects,   \* the heap: identities of store objects
  Clients,   \* handlers running at the same time
  Uses,      \* the ways a server may be used
  NULL

Actors == Clients \cup Names

Endpoints == {"query", "ingest", "delete", "restore", "build", "save", "create", "drop", "restart"}

\* A way of using a server: the requests it gets and how many of them it handles at
\* once, the texts its documents have, and the blob operations that may fail.
Use ==
  [calls : SUBSET Endpoints, atOnce : 1..Cardinality(Clients),
   texts : SUBSET Texts, failures : SUBSET {"put", "remove", "read"}]

ASSUME DefaultAssumption == Default \in Names
ASSUME UsesAssumption == Uses \subseteq Use
ASSUME ActorsAssumption == Clients \cap Names = {} /\ IsFiniteSet(Actors)
ASSUME ObjectsAssumption == IsFiniteSet(Objects) /\ Cardinality(Objects) > Cardinality(Names) + Cardinality(Actors)

\* A store object, and what a snapshot keeps of it.
StoreObject ==
  [text : [Docs -> Texts \cup {NULL}], past : [Docs -> SUBSET Texts], indexed : BOOLEAN, graph : BOOLEAN]

ASSUME NullAssumption == NULL \notin Actors \cup Objects \cup Texts \cup StoreObject

VARIABLES
  use,     \* how the server is used
  stores,  \* Manager.stores: the object of each bucket, or NULL
  heap,    \* heap[h]: the store object h
  blob,    \* blob[b]: what is stored under the key of bucket b, or NULL
  pc,      \* where each handler, and the build of each bucket, is
  task,    \* what it works on
  told     \* history: the buckets whose last failed save a reply reported

vars == <<use, stores, heap, blob, pc, task, told>>

-----------------------------------------------------------------------------
(* Store objects.                                                           *)

NewStore ==
  [text |-> [d \in Docs |-> NULL], past |-> [d \in Docs |-> {}], indexed |-> FALSE, graph |-> FALSE]

Held(st, t) == \E d \in Docs : st.text[d] = t

\* AddDocuments of one document; a text the store has is a no-op.
AddDocument(st, d, t) ==
  IF Held(st, t) THEN st
  ELSE [st EXCEPT !.text[d] = t, !.past[d] = @ \cup {t}, !.indexed = TRUE]

DeleteDocument(st, d) == [st EXCEPT !.text[d] = NULL, !.past[d] = {}]

\* An empty snapshot loads as a store that was never indexed.
Load(snap) == IF \A d \in Docs : snap.text[d] = NULL THEN NewStore ELSE snap

InUse == {stores[b] : b \in Names} \cup {task[a].store : a \in Actors}

Fresh == CHOOSE h \in Objects : h \notin InUse

-----------------------------------------------------------------------------
(* A request arrives, and finds or makes its store: GetOrCreate.            *)

NoTask == [call |-> NULL, bucket |-> NULL, doc |-> NULL, text |-> NULL, store |-> NULL, snap |-> NULL]

Goto(a, l) == pc' = [pc EXCEPT ![a] = l]

Reply(a) == Goto(a, "idle") /\ task' = [task EXCEPT ![a] = NoTask]

Free(c, call) ==
  /\ pc[c] = "idle" /\ call \in use.calls
  /\ Cardinality({b \in Clients : pc[b] # "idle"}) < use.atOnce

Request(c, call, b, d, t) ==
  /\ Free(c, call) /\ call \notin {"create", "drop", "restart"}
  /\ task' = [task EXCEPT ![c] = [NoTask EXCEPT !.call = call, !.bucket = b, !.doc = d, !.text = t]]
  /\ Goto(c, IF call = "save" THEN "saving" ELSE "resolving")
  /\ UNCHANGED <<stores, heap, blob, told>>

Got(c, h) == task' = [task EXCEPT ![c].store = h] /\ Goto(c, "handling")

Get(c) ==
  LET h == stores[task[c].bucket]
  IN  /\ pc[c] = "resolving"
      /\ IF h # NULL THEN Got(c, h) ELSE Goto(c, "creating") /\ UNCHANGED task
      /\ UNCHANGED <<stores, heap, blob, told>>

\* Wrong variant of Create: it does not look again under the lock.
CreateBlindly(c) ==
  /\ pc[c] = "creating"
  /\ stores' = [stores EXCEPT ![task[c].bucket] = Fresh]
  /\ heap' = [heap EXCEPT ![Fresh] = NewStore]
  /\ Got(c, Fresh)
  /\ UNCHANGED <<blob, told>>

\* Create fails if somebody else was faster; then Get again.
Create(c) ==
  /\ pc[c] = "creating"
  /\ IF stores[task[c].bucket] = NULL
     THEN /\ stores' = [stores EXCEPT ![task[c].bucket] = Fresh]
          /\ heap' = [heap EXCEPT ![Fresh] = NewStore]
          /\ Got(c, Fresh)
     ELSE Goto(c, "retrying") /\ UNCHANGED <<stores, heap, task>>
  /\ UNCHANGED <<blob, told>>

GetAgain(c) ==
  LET h == stores[task[c].bucket]
  IN  /\ pc[c] = "retrying"
      /\ IF h # NULL THEN Got(c, h) ELSE Reply(c)
      /\ UNCHANGED <<stores, heap, blob, told>>

-----------------------------------------------------------------------------
(* The handlers.                                                            *)

Becomes(a, st) == heap' = [heap EXCEPT ![task[a].store] = st]

\* Every handler that only reads.
Query(c) ==
  /\ pc[c] = "handling" /\ task[c].call = "query"
  /\ Reply(c)
  /\ UNCHANGED <<stores, heap, blob, told>>

\* handleIngest, handleIngestFiles: an embedder that fails ends the request.
Ingest(c) ==
  LET r == task[c]
  IN  /\ pc[c] = "handling" /\ r.call = "ingest"
      /\ \/ Becomes(c, AddDocument(heap[r.store], r.doc, r.text)) /\ Goto(c, "saving") /\ UNCHANGED task
         \/ Reply(c) /\ UNCHANGED heap
      /\ UNCHANGED <<stores, blob, told>>

\* Wrong variant of Delete: an unpersisted one.
DeleteUnsaved(c) ==
  LET r == task[c]
  IN  /\ pc[c] = "handling" /\ r.call = "delete"
      /\ IF heap[r.store].text[r.doc] # NULL THEN Becomes(c, DeleteDocument(heap[r.store], r.doc)) ELSE UNCHANGED heap
      /\ Reply(c)
      /\ UNCHANGED <<stores, blob, told>>

\* handleDocument with DELETE: nothing is saved when there was nothing to delete.
Delete(c) ==
  LET r == task[c]
  IN  /\ pc[c] = "handling" /\ r.call = "delete"
      /\ IF heap[r.store].text[r.doc] # NULL
         THEN Becomes(c, DeleteDocument(heap[r.store], r.doc)) /\ Goto(c, "saving") /\ UNCHANGED task
         ELSE Reply(c) /\ UNCHANGED heap
      /\ UNCHANGED <<stores, blob, told>>

\* handleRestore reads an earlier text and adds it again; it does not save.
ReadVersion(c) ==
  LET r == task[c]
  IN  /\ pc[c] = "handling" /\ r.call = "restore"
      /\ IF r.text \in heap[r.store].past[r.doc] THEN Goto(c, "restoring") /\ UNCHANGED task ELSE Reply(c)
      /\ UNCHANGED <<stores, heap, blob, told>>

Restore(c) ==
  LET r == task[c]
  IN  /\ pc[c] = "restoring"
      /\ heap' \in {heap, [heap EXCEPT ![r.store] = AddDocument(@, r.doc, r.text)]}
      /\ Reply(c)
      /\ UNCHANGED <<stores, blob, told>>

\* handleCreateBucket, handleDeleteBucket: one critical section each.
CreateBucket(c, b) ==
  /\ Free(c, "create")
  /\ stores[b] = NULL
  /\ stores' = [stores EXCEPT ![b] = Fresh]
  /\ heap' = [heap EXCEPT ![Fresh] = NewStore]
  /\ UNCHANGED <<blob, pc, task, told>>

\* Wrong variant of DropBucket: the blob stays.
DropUnpersisted(c, b) ==
  /\ Free(c, "drop")
  /\ b # Default /\ stores[b] # NULL
  /\ stores' = [stores EXCEPT ![b] = NULL]
  /\ told' = told \ {b}
  /\ UNCHANGED <<heap, blob, pc, task>>

\* The error of blob.Delete is dropped.
DropBucket(c, b) ==
  /\ Free(c, "drop")
  /\ b # Default /\ stores[b] # NULL
  /\ stores' = [stores EXCEPT ![b] = NULL]
  /\ \/ blob' = [blob EXCEPT ![b] = NULL]
     \/ "remove" \in use.failures /\ UNCHANGED blob
  /\ told' = told \ {b}
  /\ UNCHANGED <<heap, pc, task>>

-----------------------------------------------------------------------------
(* startEntBuild and the build.                                             *)

\* Wrong variant of StartBuild: the build reads the default bucket.
StartBuildOfDefault(c) ==
  LET b == task[c].bucket
  IN  /\ pc[c] = "handling" /\ task[c].call = "build"
      /\ IF pc[b] = "idle"
         THEN /\ pc' = [pc EXCEPT ![c] = "streaming", ![b] = "extracting"]
              /\ task' = [task EXCEPT ![b] = [task[c] EXCEPT !.store = stores[Default]]]
         ELSE Goto(c, "streaming") /\ UNCHANGED task
      /\ UNCHANGED <<stores, heap, blob, told>>

\* A request joins the build that runs for the bucket's name, or starts one.
StartBuild(c) ==
  LET b == task[c].bucket
  IN  /\ pc[c] = "handling" /\ task[c].call = "build"
      /\ IF pc[b] = "idle"
         THEN /\ pc' = [pc EXCEPT ![c] = "streaming", ![b] = "extracting"]
              /\ task' = [task EXCEPT ![b] = task[c]]
         ELSE Goto(c, "streaming") /\ UNCHANGED task
      /\ UNCHANGED <<stores, heap, blob, told>>

\* The streams of a build end with it.
JobEnds(b) ==
  LET ended == {b} \cup {c \in Clients : pc[c] = "streaming" /\ task[c].bucket = b}
  IN  /\ pc' = [a \in Actors |-> IF a \in ended THEN "idle" ELSE pc[a]]
      /\ task' = [a \in Actors |-> IF a \in ended THEN NoTask ELSE task[a]]

\* The model is asked about every chunk; the error of a build ends the streams.
BuildEntityGraph(b) ==
  /\ pc[b] = "extracting"
  /\ \/ Becomes(b, [heap[task[b].store] EXCEPT !.graph = TRUE]) /\ Goto(b, "saving") /\ UNCHANGED task
     \/ JobEnds(b) /\ UNCHANGED heap
  /\ UNCHANGED <<stores, blob, told>>

-----------------------------------------------------------------------------
(* Server.persist and Manager.Save.  The result is part of the reply to an  *)
(* ingest and a save, and nobody's otherwise.                               *)

\* Wrong variant of Reports: an ingest drops the error.
ReportsSaves(a) == task[a].call = "save"

Reports(a) == task[a].call \in {"ingest", "save"}

Done(a) == IF a \in Names THEN JobEnds(a) ELSE Reply(a)

SaveFails(a) ==
  /\ told' = IF Reports(a) THEN told \cup {task[a].bucket} ELSE told
  /\ Done(a)
  /\ UNCHANGED <<stores, heap, blob>>

\* The bucket may be gone, or another store by now.
SaveGet(a) ==
  LET h == stores[task[a].bucket]
  IN  /\ pc[a] = "saving"
      /\ IF h = NULL THEN SaveFails(a)
         ELSE /\ task' = [task EXCEPT ![a].store = h]
              /\ Goto(a, "serialising")
              /\ UNCHANGED <<stores, heap, blob, told>>

\* Wrong variant of SaveLean: it saves a store that was never indexed.
SaveLeanEmpty(a) ==
  /\ pc[a] = "serialising"
  /\ task' = [task EXCEPT ![a].snap = heap[task[a].store]]
  /\ Goto(a, "putting")
  /\ UNCHANGED <<stores, heap, blob, told>>

\* SaveLean refuses a store that was never indexed.
SaveLean(a) ==
  /\ pc[a] = "serialising"
  /\ IF ~heap[task[a].store].indexed THEN SaveFails(a)
     ELSE /\ task' = [task EXCEPT ![a].snap = heap[task[a].store]]
          /\ Goto(a, "putting")
          /\ UNCHANGED <<stores, heap, blob, told>>

\* Wrong variant of Put: it starts by removing what is there.
PutInPlace(a) ==
  /\ pc[a] = "putting"
  /\ IF blob[task[a].bucket] \notin {NULL, task[a].snap}
     THEN blob' = [blob EXCEPT ![task[a].bucket] = NULL] /\ UNCHANGED <<stores, heap, told, pc, task>>
     ELSE /\ blob' = [blob EXCEPT ![task[a].bucket] = task[a].snap]
          /\ told' = told \ {task[a].bucket}
          /\ Done(a)
          /\ UNCHANGED <<stores, heap>>

\* Blob.Put replaces the blob as a whole.
Put(a) ==
  /\ pc[a] = "putting"
  /\ \/ /\ blob' = [blob EXCEPT ![task[a].bucket] = task[a].snap]
        /\ told' = told \ {task[a].bucket}
        /\ Done(a)
        /\ UNCHANGED <<stores, heap>>
     \/ "put" \in use.failures /\ SaveFails(a)

-----------------------------------------------------------------------------
(* The server starts, after a stop or a crash: NewManagerBlob loads every   *)
(* bucket and passes over what it cannot read; cmdServe makes the default   *)
(* one if it is not there.                                                  *)

Restart(loaded) ==
  LET bound == loaded \cup {Default}
  IN  /\ "restart" \in use.calls
      /\ loaded = {b \in Names : blob[b] # NULL} \/ "read" \in use.failures
      /\ stores' = CHOOSE m \in [Names -> Objects \cup {NULL}] :
           \A b, e \in Names : (m[b] # NULL <=> b \in bound) /\ (b # e /\ m[b] = m[e] => m[b] = NULL)
      /\ heap' = [h \in Objects |->
           IF \E b \in loaded : stores'[b] = h
           THEN Load(blob[CHOOSE b \in loaded : stores'[b] = h]) ELSE NewStore]
      /\ pc' = [a \in Actors |-> "idle"] /\ task' = [a \in Actors |-> NoTask]
      /\ told' = {}
      /\ UNCHANGED blob

Starts == \E loaded \in SUBSET {b \in Names : blob[b] # NULL} : Restart(loaded)

-----------------------------------------------------------------------------

Init ==
  /\ use \in Uses
  /\ stores = [b \in Names |-> IF b = Default THEN CHOOSE h \in Objects : TRUE ELSE NULL]
  /\ heap = [h \in Objects |-> NewStore]
  /\ blob = [b \in Names |-> NULL]
  /\ pc = [a \in Actors |-> "idle"] /\ task = [a \in Actors |-> NoTask]
  /\ told = {}

Handler(c) ==
  \/ \E call \in use.calls, b \in Names, d \in Docs, t \in use.texts : Request(c, call, b, d, t)
  \/ Get(c) \/ Create(c) \/ GetAgain(c)
  \/ Query(c) \/ Ingest(c) \/ Delete(c) \/ ReadVersion(c) \/ Restore(c) \/ StartBuild(c)
  \/ \E b \in Names : CreateBucket(c, b) \/ DropBucket(c, b)

Persist(a) == SaveGet(a) \/ SaveLean(a) \/ Put(a)

Next ==
  /\ \/ \E c \in Clients : Handler(c)
     \/ \E b \in Names : BuildEntityGraph(b)
     \/ \E a \in Actors : Persist(a)
     \/ Starts
  /\ UNCHANGED use

Spec == Init /\ [][Next]_vars
-----------------------------------------------------------------------------
(* Properties.                                                              *)

\* No object is two buckets, a snapshot is of a store that was indexed, and an
\* actor that has a store works on it.
TypeOK ==
  /\ stores \in [Names -> Objects \cup {NULL}]
  /\ \A b, e \in Names : b # e /\ stores[b] = stores[e] => stores[b] = NULL
  /\ heap \in [Objects -> StoreObject]
  /\ \A b \in Names : blob[b] # NULL => blob[b] \in StoreObject /\ blob[b].indexed
  /\ \A a \in Actors : pc[a] \in {"handling", "restoring", "extracting", "streaming", "serialising", "putting"}
                         => task[a].store \in Objects
  /\ told \subseteq Names

Busy(b) == \E a \in Actors : task[a].bucket = b

\* What a server that starts now would make of b.
Reopened(b) == IF blob[b] = NULL THEN NewStore ELSE Load(blob[b])

\* When no handler works on a bucket, a restart would find it as it is, unless a
\* reply has said that it could not be saved (server.go:339-341).
SavedIsCurrent ==
  \A b \in Names : stores[b] # NULL /\ ~Busy(b) /\ b \notin told => Load(heap[stores[b]]) = Reopened(b)

\* Alone: one request at a time, none of which outlives its reply, and every blob is
\* read when the server starts and removed with its bucket.
Alone == use.atOnce = 1 /\ "build" \notin use.calls /\ use.failures \subseteq {"put"}

\* A bucket that was deleted has no blob, so it does not come back
\* (manager.go:181).
DroppedStaysGone == \A b \in Names : stores[b] = NULL /\ ~Busy(b) => blob[b] = NULL

\* On a server that handles one request at a time a restart finds what there was: every
\* bucket as it is, if it restores no version, and deletes no document while the blob
\* store fails to put; and no bucket that was deleted.
RestartFindsBuckets ==
  /\ TypeOK
  /\ Alone /\ "restore" \notin use.calls /\ ("put" \in use.failures => "delete" \notin use.calls)
       => SavedIsCurrent
  /\ Alone => DroppedStaysGone

\* However requests race to create a bucket on first use, the store in which one
\* of them already writes is not replaced by another (manager.go:166-179) while the
\* server runs.
StoreNotReplaced ==
  [][(\A b \in Names : stores[b] # NULL => stores'[b] \in {stores[b], NULL}) \/ Starts]_vars

\* At no moment, a crash in the middle of a save included, is a bucket that has
\* been saved without its blob (storage.go:46-47).
BlobGoesWithBucket ==
  [][\A b \in Names : blob[b] # NULL /\ blob'[b] = NULL => stores[b] # NULL /\ stores'[b] = NULL]_vars

\* A client whose build is reported done, and whose store is still its bucket's,
\* has the entity graph in it (entitybuild.go:61-63), as long as no bucket is deleted.
BuildReachesBucket ==
  [][\A c \in Clients :
       LET b == task[c].bucket
       IN  "drop" \notin use.calls /\ pc[c] = "streaming" /\ pc'[c] = "idle"
             /\ pc[b] # "extracting" /\ stores[b] = task[c].store
             => heap[stores[b]].graph]_vars
=============================================================================
