----------------------------- MODULE StoreFile -----------------------------
(***************************************************************************)
(* Processes of the command line working on the same store files:          *)
(* cmd/turbograph/agent.go (editStore, readStore, and the commands that    *)
(* use them), rag/lock.go and lock_unix.go, saveStore of main.go.          *)
(*                                                                         *)
(* A command locks the sidecar of its store, loads the store, works on the *)
(* copy in memory, saves it by rename and unlocks.  The lock is flock's:   *)
(* it belongs to the open file, so a process that opens the sidecar again  *)
(* competes with itself, and it goes when the process ends, however it     *)
(* ends.  `ingest` loads and saves the same file without the lock.         *)
(*                                                                         *)
(* What a command does to a store is in module SharedStore.  A process     *)
(* runs one command.                                                       *)
(***************************************************************************)
EXTENDS Naturals, Sequences

CONSTANTS
  Paths,     \* store files, each with its sidecar
  Docs, Texts,
  Procs,     \* processes, one command each
  Initial,   \* what the store files may hold before any of them runs
  Commands,  \* the command lines they may be started with
  NULL

Kinds == {"add", "forget", "merge", "entities", "search", "ingest"}

Command == [kind : Kinds, store : Paths, doc : Docs, text : Texts, srcs : Seq(Paths)]

VARIABLES
  files,     \* files[s]: the store at path s, or NULL
  exclusive, \* exclusive[s]: the process with the write lock on s, or NULL
  shared,    \* shared[s]: the processes with a read lock on s
  command,
  pc,
  mem,       \* mem[p]: the store p has in memory
  exit,      \* exit[p]: how p ended, NULL while it runs
  seen       \* history: the stores p has read as a source or to search

vars == <<files, exclusive, shared, command, pc, mem, exit, seen>>

\* What has become of p's command, seen from outside.
OutcomeOf(p) == IF exit[p] # NULL THEN exit[p]
                ELSE IF pc[p] = "replying" THEN "applied" ELSE "pending"

Outcome == [p \in Procs |-> OutcomeOf(p)]

Knowledge == INSTANCE SharedStore WITH outcome <- Outcome

Content ==
  {f \in [docs : [Docs -> Texts \cup {NULL}], read : SUBSET Texts] :
     \A t \in f.read : Knowledge!Holds(f, t)}

ASSUME CommandsAssumption == Commands \subseteq Command
ASSUME InitialAssumption == Initial \subseteq [Paths -> Content \cup {NULL}]
ASSUME NullAssumption ==
  NULL \notin Procs \cup Texts \cup Content \cup {"ok", "error", "killed"}

Store(p) == command[p].store
Kind(p) == command[p].kind

-----------------------------------------------------------------------------
(* The locks, and the end of a process.                                     *)

\* Wrong variant of MayLock: a writer waits for the readers only.
MayLockBehindReaders(s) == shared[s] = {}

MayLock(s) == exclusive[s] = NULL /\ shared[s] = {}
MayShare(s) == exclusive[s] = NULL

\* Wrong variant of End: the sidecar of a process that fails or is killed stays locked.
EndHolding(p, how) ==
  /\ pc' = [pc EXCEPT ![p] = "gone"] /\ exit' = [exit EXCEPT ![p] = how]
  /\ mem' = [mem EXCEPT ![p] = NULL]
  /\ exclusive' = [s \in Paths |-> IF how = "ok" /\ exclusive[s] = p THEN NULL ELSE exclusive[s]]
  /\ shared' = [s \in Paths |-> shared[s] \ {p}]

\* Everything p holds is released when it ends.
End(p, how) ==
  /\ pc' = [pc EXCEPT ![p] = "gone"]
  /\ exit' = [exit EXCEPT ![p] = how]
  /\ mem' = [mem EXCEPT ![p] = NULL]
  /\ exclusive' = [s \in Paths |-> IF exclusive[s] = p THEN NULL ELSE exclusive[s]]
  /\ shared' = [s \in Paths |-> shared[s] \ {p}]

Fails(p) == End(p, "error") /\ UNCHANGED <<files, command, seen>>

Goto(p, l) == pc' = [pc EXCEPT ![p] = l]

\* A kill may come anywhere.
Kill(p) ==
  /\ pc[p] # "gone"
  /\ End(p, "killed")
  /\ UNCHANGED <<files, command, seen>>

-----------------------------------------------------------------------------
(* editStore: lock, open or create.                                         *)

Editors == {"add", "forget", "merge", "entities"}

LockStore(p) ==
  /\ pc[p] = "start" /\ Kind(p) \in Editors
  /\ MayLock(Store(p))
  /\ exclusive' = [exclusive EXCEPT ![Store(p)] = p]
  /\ Goto(p, "opening")
  /\ UNCHANGED <<files, shared, command, mem, exit, seen>>

\* cmdIngest opens the store without a lock.
IngestOpens(p) == pc[p] = "start" /\ Kind(p) = "ingest"

OpenStore(p) ==
  /\ pc[p] = "opening" \/ IngestOpens(p)
  /\ IF files[Store(p)] = NULL /\ Kind(p) \notin {"add", "merge", "ingest"}
     THEN Fails(p)
     ELSE /\ mem' = [mem EXCEPT ![p] = Knowledge!OrEmpty(files[Store(p)])]
          /\ Goto(p, "editing")
          /\ UNCHANGED <<files, exclusive, shared, command, exit, seen>>

-----------------------------------------------------------------------------
(* The work on the copy in memory.                                          *)

Edits(p, m) ==
  /\ mem' = [mem EXCEPT ![p] = m]
  /\ Goto(p, "saving")
  /\ UNCHANGED <<files, exclusive, shared, command, exit, seen>>

\* The embedder may fail; nothing is committed then.
AddDocument(p) ==
  /\ pc[p] = "editing" /\ Kind(p) \in {"add", "ingest"}
  /\ Edits(p, Knowledge!Put(mem[p], command[p].doc, command[p].text)) \/ Fails(p)

ForgetDocument(p) ==
  /\ pc[p] = "editing" /\ Kind(p) = "forget"
  /\ IF mem[p].docs[command[p].doc] = NULL THEN Fails(p)
     ELSE Edits(p, Knowledge!Drop(mem[p], command[p].doc))

\* SaveLean refuses a store that has nothing in it and never had.
Savable(p) == Kind(p) = "forget" \/ mem[p].docs # Knowledge!Empty.docs

\* BuildEntityGraph caches more extractions; its checkpoint saves the store and
\* carries on whether or not that worked; a timeout ends the command.
Extract(p) ==
  /\ pc[p] = "editing" /\ Kind(p) = "entities"
  /\ \/ \E t \in Texts \ mem[p].read :
          /\ Knowledge!Holds(mem[p], t)
          /\ mem' = [mem EXCEPT ![p] = Knowledge!WithRead(@, t)]
          /\ UNCHANGED <<files, exclusive, shared, command, pc, exit, seen>>
     \/ Savable(p)
        /\ files' = [files EXCEPT ![Store(p)] = mem[p]]
        /\ UNCHANGED <<exclusive, shared, command, pc, mem, exit, seen>>
     \/ Edits(p, mem[p])
     \/ Fails(p)

\* Wrong variant of Take: the source's version of a document replaces the one there.
TakeOver(f, src) ==
  Knowledge!Holding([f EXCEPT !.read = @ \cup src.read],
    [d \in Docs |-> IF src.docs[d] # NULL /\ ~Knowledge!Holds(f, src.docs[d])
                    THEN src.docs[d] ELSE f.docs[d]])

\* Merge, a document at a time: one that is there by id or by text is skipped.
Take(f, src) ==
  IF src = Knowledge!Empty THEN f
  ELSE LET docs == [d \in Docs |-> IF f.docs[d] = NULL /\ src.docs[d] # NULL
                                      /\ ~Knowledge!Holds(f, src.docs[d])
                                   THEN src.docs[d] ELSE f.docs[d]]
       IN  Knowledge!Holding([f EXCEPT !.read = @ \cup src.read], docs)

NextSource(p) == command[p].srcs[Len(seen[p]) + 1]

SourcesLeft(p) == Len(seen[p]) < Len(command[p].srcs)

\* readStore of a source, while the destination is locked.
LockSource(p) ==
  /\ pc[p] = "editing" /\ Kind(p) = "merge" /\ SourcesLeft(p)
  /\ MayShare(NextSource(p))
  /\ shared' = [shared EXCEPT ![NextSource(p)] = @ \cup {p}]
  /\ Goto(p, "reading")
  /\ UNCHANGED <<files, exclusive, command, mem, exit, seen>>

ReadSource(p) ==
  LET s == NextSource(p)
  IN  /\ pc[p] = "reading" /\ Kind(p) = "merge"
      /\ IF files[s] = NULL THEN Fails(p)
         ELSE /\ seen' = [seen EXCEPT ![p] = Append(@, files[s])]
              /\ mem' = [mem EXCEPT ![p] = Take(@, files[s])]
              /\ shared' = [shared EXCEPT ![s] = @ \ {p}]
              /\ Goto(p, "editing")
              /\ UNCHANGED <<files, exclusive, command, exit>>

MergeDone(p) ==
  /\ pc[p] = "editing" /\ Kind(p) = "merge" /\ ~SourcesLeft(p)
  /\ Edits(p, mem[p])

-----------------------------------------------------------------------------
(* commit: save by rename, then unlock.                                     *)

SaveStore(p) ==
  /\ pc[p] = "saving"
  /\ \/ /\ Savable(p)
        /\ files' = [files EXCEPT ![Store(p)] = mem[p]]
        /\ Goto(p, "replying")
        /\ UNCHANGED <<exclusive, shared, command, mem, exit, seen>>
     \/ Fails(p)

Reply(p) ==
  /\ pc[p] = "replying"
  /\ End(p, "ok")
  /\ UNCHANGED <<files, command, seen>>

-----------------------------------------------------------------------------
(* readStore and a query on the copy it loaded.                             *)

LockForReading(p) ==
  /\ pc[p] = "start" /\ Kind(p) = "search"
  /\ MayShare(Store(p))
  /\ shared' = [shared EXCEPT ![Store(p)] = @ \cup {p}]
  /\ Goto(p, "reading")
  /\ UNCHANGED <<files, exclusive, command, mem, exit, seen>>

LoadToSearch(p) ==
  /\ pc[p] = "reading" /\ Kind(p) = "search"
  /\ IF files[Store(p)] = NULL THEN Fails(p)
     ELSE /\ seen' = [seen EXCEPT ![p] = Append(@, files[Store(p)])]
          /\ mem' = [mem EXCEPT ![p] = files[Store(p)]]
          /\ shared' = [shared EXCEPT ![Store(p)] = @ \ {p}]
          /\ Goto(p, "searching")
          /\ UNCHANGED <<files, exclusive, command, exit>>

Search(p) ==
  /\ pc[p] = "searching"
  /\ \E how \in {"ok", "error"} : End(p, how)
  /\ UNCHANGED <<files, command, seen>>

-----------------------------------------------------------------------------

Init ==
  /\ files \in Initial
  /\ exclusive = [s \in Paths |-> NULL]
  /\ shared = [s \in Paths |-> {}]
  /\ command \in [Procs -> Commands]
  /\ pc = [p \in Procs |-> "start"]
  /\ mem = [p \in Procs |-> NULL]
  /\ exit = [p \in Procs |-> NULL]
  /\ seen = [p \in Procs |-> <<>>]

Step(p) ==
  \/ LockStore(p) \/ OpenStore(p)
  \/ AddDocument(p) \/ ForgetDocument(p) \/ Extract(p)
  \/ LockSource(p) \/ ReadSource(p) \/ MergeDone(p)
  \/ SaveStore(p) \/ Reply(p)
  \/ LockForReading(p) \/ LoadToSearch(p) \/ Search(p)

Next == \E p \in Procs : Step(p) \/ Kill(p)

Spec == Init /\ [][Next]_vars

\* The operating system runs every process that can run, and grants a lock that
\* stays free to one that waits for it.
FairSpec == Spec /\ \A p \in Procs : WF_vars(Step(p))

-----------------------------------------------------------------------------
(* Properties.                                                              *)

\* A lock is held by the processes that are between taking and releasing it.
TypeOK ==
  /\ files \in [Paths -> Content \cup {NULL}]
  /\ exclusive \in [Paths -> Procs \cup {NULL}]
  /\ shared \in [Paths -> SUBSET Procs]
  /\ command \in [Procs -> Commands]
  /\ pc \in [Procs -> {"start", "opening", "editing", "reading", "searching", "saving", "replying", "gone"}]
  /\ mem \in [Procs -> Content \cup {NULL}]
  /\ exit \in [Procs -> {NULL, "ok", "error", "killed"}]
  /\ seen \in [Procs -> Seq(Content)]

Editing(p) ==
  Kind(p) \in Editors /\ pc[p] \in {"opening", "editing", "reading", "saving", "replying"}

\* While a process may still overwrite a store, no other does, and none is loading
\* it under the reader's lock (rag/lock.go:27).
EditorsExclude ==
  \A p, q \in Procs :
    p # q /\ Editing(p) =>
      /\ Editing(q) => Store(p) # Store(q)
      /\ pc[q] = "reading" =>
           Store(p) # IF Kind(q) = "search" THEN Store(q) ELSE NextSource(q)

\* No save annihilates what another command did (rag/lock.go:12-16): every
\* command takes effect at once, on the store as it is at that moment.
NothingIsLost == Knowledge!Spec

\* Every command ends: no process waits for ever on a lock.
CommandsEnd == \A p \in Procs : <>(pc[p] = "gone")
=============================================================================
