------------------------------- MODULE Ingest -------------------------------
(***************************************************************************)
(* A resumable bulk ingestion, `turbograph ingest` (rag/ingest.go,         *)
(* rag/journal.go, cmdIngest, streamDocs and saveStore of                  *)
(* cmd/turbograph/main.go): one goroutine walks the source tree, workers   *)
(* prepare the documents, the main goroutine installs them, checkpoints    *)
(* the store and then the journal.  The process may be interrupted, be     *)
(* killed, or meet a full disk, and is run again.                          *)
(*                                                                         *)
(* A document is its id; its text does not change while it is ingested,    *)
(* and Text[d] is its content hash.  The store is the set of documents     *)
(* installed in it: how it installs one is module Store.  The file system  *)
(* keeps what a killed process has written; PowerLoss is the machine going *)
(* down, when only what was fsynced is sure to survive.                    *)
(***************************************************************************)
EXTENDS Naturals, FiniteSets, Sequences

CONSTANTS
  Files,           \* document ids under the source directory
  Text,            \* Text[d]: the content hash of d
  Workers,
  CheckpointEvery, \* IngestOptions.CheckpointEvery; 0 for a final save only
  Notes,           \* documents other processes add to the same store file
  Forgets,         \* documents other processes remove from it
  OpenFails,       \* whether a store file that exists may be refused to a reader
  PowerCut,        \* whether the machine may lose power
  NULL

Docs == Files \cup Notes

ASSUME FilesAssumption == Files \cap Notes = {} /\ IsFiniteSet(Docs)
ASSUME ForgetsAssumption == Forgets \subseteq Docs
ASSUME TextAssumption == DOMAIN Text = Docs
ASSUME WorkersAssumption == IsFiniteSet(Workers) /\ Workers # {}
ASSUME EveryAssumption == CheckpointEvery \in Nat
ASSUME NullAssumption == NULL \notin Docs
ASSUME StatesAssumption == "waiting" \notin Docs /\ "exited" \notin Docs

VARIABLES
  disk,       \* the documents of the store file
  durable,    \* the store file a power loss would leave
  journal,    \* the ids the journal file records as done
  torn,       \* the journal file ends in an incomplete line
  pc,         \* where the main goroutine is, "down" if there is no process
  last,       \* it is in the final checkpoint
  failed,     \* loopErr # nil
  exit,       \* how the last process ended
  mem,        \* the documents of the store in memory
  done,       \* Journal.done
  broken,     \* the journal's writer holds a write error
  pending,    \* installed, not yet checkpointed
  prog,       \* Progress
  walk,       \* the files streamDocs has not reached
  offered,    \* the document it offers to the workers, or NULL
  worker,     \* worker[w]: the document it prepares, "waiting" or "exited"
  results,    \* the results channel
  cancelled,  \* ctx is done
  handed,     \* history: the documents the workers of this run received
  editor      \* the store a `turbograph add` or `forget` has loaded and not saved, or NULL

fileVars == <<disk, durable, journal, torn>>
mainVars == <<pc, last, failed, exit, mem, done, broken, pending, prog>>
pipeVars == <<walk, offered, worker, results, cancelled, handed>>
vars == <<fileVars, mainVars, pipeVars, editor>>

-----------------------------------------------------------------------------

Backlog == 2 * Cardinality(Workers)

Result == [doc : Files, kind : {"prepared", "failed", "skipped"}]

Elems(s) == {s[i] : i \in DOMAIN s}

Idle == [w \in Workers |-> "exited"]

NoProgress == [done |-> 0, failed |-> 0, skipped |-> 0]

Counted(kind) == [prog EXCEPT ![kind] = @ + 1]

Init ==
  /\ disk = {} /\ durable = {} /\ journal = {} /\ torn = FALSE
  /\ pc = "down" /\ last = FALSE /\ failed = FALSE /\ exit = "none"
  /\ mem = {} /\ done = {} /\ broken = FALSE /\ pending = <<>> /\ prog = NoProgress
  /\ walk = {} /\ offered = NULL /\ worker = Idle /\ results = <<>> /\ cancelled = FALSE
  /\ handed = {}
  /\ editor = NULL

-----------------------------------------------------------------------------
(* The process: load the store and replay the journal; an interrupt; a kill.*)

\* Any error in opening the store file starts an empty store.
Start ==
  /\ pc = "down"
  /\ pc' = "loop"
  /\ last' = FALSE /\ failed' = FALSE /\ exit' = "none"
  /\ mem' \in IF OpenFails THEN {disk, {}} ELSE {disk}
  /\ done' = journal /\ broken' = FALSE /\ pending' = <<>>
  /\ prog' = NoProgress
  /\ walk' = Files /\ offered' = NULL /\ results' = <<>> /\ cancelled' = FALSE
  /\ handed' = {}
  /\ worker' = [w \in Workers |-> "waiting"]
  /\ UNCHANGED <<fileVars, editor>>

Interrupt ==
  /\ pc # "down" /\ ~cancelled
  /\ cancelled' = TRUE
  /\ UNCHANGED <<fileVars, mainVars, walk, offered, worker, results, handed, editor>>

Ended(how) ==
  /\ pc' = "down" /\ exit' = how
  /\ mem' = {} /\ done' = {} /\ pending' = <<>>
  /\ walk' = {} /\ offered' = NULL /\ worker' = Idle /\ results' = <<>>
  /\ handed' = {} /\ prog' = NoProgress
  /\ last' = FALSE /\ failed' = FALSE /\ broken' = FALSE /\ cancelled' = FALSE

\* MarkDone writes a line for each of these, in order.  If it gets to the n-th
\* of pending, a replay reads all of them but the first after a torn line, which
\* is one line with it.
ToMark == {i \in DOMAIN pending : pending[i] \notin done}

Readable(n) == {pending[i] : i \in {i \in ToMark : i <= n /\ (torn => \E j \in ToMark : j < i)}}

\* The write of those lines stops somewhere.
WrittenInPart ==
  \E n \in 0..Len(pending) :
    /\ journal' = journal \cup Readable(n)
    /\ torn' \in IF n = 0 THEN {torn, TRUE} ELSE BOOLEAN

Kill ==
  /\ pc # "down"
  /\ Ended("killed")
  /\ IF pc = "marking" /\ ~broken THEN WrittenInPart ELSE UNCHANGED <<journal, torn>>
  /\ UNCHANGED <<disk, durable, editor>>

\* The journal is fsynced; the store file is not, so what the machine finds is
\* the last content it wrote back on its own.
PowerLoss ==
  /\ PowerCut
  /\ disk' = durable
  /\ Ended("killed")
  /\ editor' = NULL
  /\ UNCHANGED <<durable, journal, torn>>

WriteBack ==
  /\ PowerCut
  /\ durable' = disk
  /\ UNCHANGED <<disk, journal, torn, mainVars, pipeVars, editor>>

-----------------------------------------------------------------------------
(* streamDocs: offer every file neither the journal nor the store knows.    *)

\* A file that is known, unreadable or has no extractable text is passed over.
Skip(d) ==
  /\ pc # "down"
  /\ d \in walk /\ offered = NULL
  /\ walk' = walk \ {d}
  /\ UNCHANGED <<fileVars, mainVars, offered, worker, results, cancelled, handed, editor>>

\* Wrong variant of Offer: files the store or the journal knows are offered too.
OfferAll(d) ==
  /\ d \in walk /\ offered = NULL
  /\ walk' = walk \ {d} /\ offered' = d
  /\ UNCHANGED <<fileVars, mainVars, worker, results, cancelled, handed, editor>>

Offer(d) ==
  /\ d \in walk /\ offered = NULL
  /\ d \notin done \cup mem
  /\ walk' = walk \ {d} /\ offered' = d
  /\ UNCHANGED <<fileVars, mainVars, worker, results, cancelled, handed, editor>>

\* ctx is done while the offer waits: filepath.SkipAll.
Abandon ==
  /\ cancelled
  /\ offered # NULL
  /\ walk' = {} /\ offered' = NULL
  /\ UNCHANGED <<fileVars, mainVars, worker, results, cancelled, handed, editor>>

-----------------------------------------------------------------------------
(* A worker: select between ctx.Done and the next document, prepare it,     *)
(* send the result.                                                         *)

\* Wrong variant of Receive: a closed channel yields a document too, the zero one.
ReceiveClosed(w) ==
  /\ worker[w] = "waiting"
  /\ offered # NULL \/ walk = {}
  /\ worker' = [worker EXCEPT ![w] = offered] /\ offered' = NULL
  /\ handed' = handed \cup {offered}
  /\ UNCHANGED <<fileVars, mainVars, walk, results, cancelled, editor>>

Receive(w) ==
  /\ worker[w] = "waiting"
  /\ offered # NULL
  /\ worker' = [worker EXCEPT ![w] = offered] /\ offered' = NULL
  /\ handed' = handed \cup {offered}
  /\ UNCHANGED <<fileVars, mainVars, walk, results, cancelled, editor>>

\* Wrong variant of Leave: the documents channel is never closed.
LeaveOnCancel(w) ==
  /\ worker[w] = "waiting" /\ cancelled
  /\ worker' = [worker EXCEPT ![w] = "exited"]
  /\ UNCHANGED <<fileVars, mainVars, walk, offered, results, cancelled, handed, editor>>

Leave(w) ==
  /\ worker[w] = "waiting"
  /\ cancelled \/ (walk = {} /\ offered = NULL)
  /\ worker' = [worker EXCEPT ![w] = "exited"]
  /\ UNCHANGED <<fileVars, mainVars, walk, offered, results, cancelled, handed, editor>>

\* Wrong variant of OwnedByOther: the contents of the last checkpoint are asked.
OwnedOnDisk(d) == \E e \in disk : e # d /\ Text[e] = Text[d]

OwnedByOther(d) == \E e \in mem : e # d /\ Text[e] = Text[d]

\* prepareForIngest: skip what is known; otherwise embed, which may fail (it
\* does so once ctx is done) or find no chunks.
PreparedAs(d, kind) ==
  IF d \in done \cup mem \/ OwnedByOther(d) THEN kind = "skipped" ELSE kind \in {"prepared", "failed", "skipped"}

\* Wrong variant of Prepare: the result is not sent once ctx is done.
PrepareDropping(w, kind) ==
  /\ worker[w] \in Files /\ Len(results) < Backlog
  /\ PreparedAs(worker[w], kind)
  /\ results' = IF cancelled THEN results ELSE Append(results, [doc |-> worker[w], kind |-> kind])
  /\ worker' = [worker EXCEPT ![w] = "waiting"]
  /\ UNCHANGED <<fileVars, mainVars, walk, offered, cancelled, handed, editor>>

Prepare(w, kind) ==
  /\ worker[w] \in Files
  /\ Len(results) < Backlog
  /\ PreparedAs(worker[w], kind)
  /\ results' = Append(results, [doc |-> worker[w], kind |-> kind])
  /\ worker' = [worker EXCEPT ![w] = "waiting"]
  /\ UNCHANGED <<fileVars, mainVars, walk, offered, cancelled, handed, editor>>

-----------------------------------------------------------------------------
(* The main loop over the results.                                          *)

\* Wrong variant of CheckpointDue: one document late.
CheckpointLate(p) == CheckpointEvery > 0 /\ Len(p) > CheckpointEvery

CheckpointDue(p) == CheckpointEvery > 0 /\ Len(p) >= CheckpointEvery

\* applyPrepared; a duplicate that won the race counts as skipped.  When the
\* checkpoint is due the loop enters it.
Apply ==
  LET r == Head(results)
      installed == r.kind = "prepared" /\ ~OwnedByOther(r.doc)
  IN  /\ pc = "loop"
      /\ results # <<>>
      /\ results' = Tail(results)
      /\ IF installed
         THEN /\ mem' = mem \cup {r.doc}
              /\ pending' = Append(pending, r.doc)
              /\ prog' = Counted("done")
              /\ pc' = IF CheckpointDue(pending') THEN "saving" ELSE "loop"
         ELSE /\ prog' = Counted(IF r.kind = "failed" THEN "failed" ELSE "skipped")
              /\ UNCHANGED <<mem, pending, pc>>
      \* MarkFailed ends a torn line with its own newline; its error is dropped.
      /\ IF r.kind = "failed" /\ ~broken
         THEN \/ torn' = FALSE /\ UNCHANGED broken
              \/ torn' \in {torn, TRUE} /\ broken' = TRUE
         ELSE UNCHANGED <<torn, broken>>
      /\ UNCHANGED <<disk, durable, journal, last, failed, exit, done,
                     walk, offered, worker, cancelled, handed, editor>>

\* Wrong variant of Drained: the last documents are journaled before they are saved.
DrainedUnsaved ==
  /\ pc = "loop" /\ results = <<>>
  /\ \A w \in Workers : worker[w] = "exited"
  /\ pc' = "marking" /\ last' = TRUE
  /\ UNCHANGED <<fileVars, failed, exit, mem, done, broken, pending, prog, pipeVars, editor>>

Drained ==
  /\ pc = "loop"
  /\ results = <<>>
  /\ \A w \in Workers : worker[w] = "exited"
  /\ pc' = "saving" /\ last' = TRUE
  /\ UNCHANGED <<fileVars, failed, exit, mem, done, broken, pending, prog, pipeVars, editor>>

\* Where the main goroutine goes when checkpoint returns.
AfterCheckpoint == pc' = IF last THEN "closing" ELSE "loop"

\* Wrong variant of Save: os.Create truncates the store file first.
SaveInPlace ==
  /\ pc = "saving"
  /\ IF disk # {} /\ disk # mem
     THEN disk' = {} /\ UNCHANGED <<pc, failed>>
     ELSE disk' = mem /\ pc' = "marking" /\ UNCHANGED failed
  /\ UNCHANGED <<durable, journal, torn, last, exit, mem, done, broken, pending, prog, pipeVars, editor>>

\* saveStore writes a temporary file and renames it; an empty store is an error.
Save ==
  /\ pc = "saving"
  /\ \/ /\ mem # {}
        /\ disk' = mem
        /\ pc' = "marking"
        /\ UNCHANGED failed
     \/ /\ failed' = TRUE
        /\ AfterCheckpoint
        /\ UNCHANGED disk
  /\ UNCHANGED <<durable, journal, torn, last, exit, mem, done, broken, pending, prog, pipeVars, editor>>

\* MarkDone: write, flush and fsync.  A write error leaves the first lines
\* written, and sticks to the bufio.Writer.
MarkDone ==
  /\ pc = "marking"
  /\ \/ /\ ~broken
        /\ journal' = journal \cup Readable(Len(pending))
        /\ torn' = IF ToMark = {} THEN torn ELSE FALSE
        /\ pending' = <<>>
        /\ UNCHANGED <<failed, broken>>
     \/ /\ pending # <<>>
        /\ IF broken THEN UNCHANGED <<journal, torn>>
           ELSE WrittenInPart
        /\ broken' = TRUE
        /\ failed' = TRUE
        /\ UNCHANGED pending
     \/ /\ pending = <<>>
        /\ UNCHANGED <<journal, torn, pending, failed, broken>>
  /\ done' = done \cup Elems(pending)
  /\ AfterCheckpoint
  /\ UNCHANGED <<disk, durable, last, exit, mem, prog, pipeVars, editor>>

\* Wrong variant of Close: an interrupted run trusts its last checkpoint.
CloseTrusting ==
  /\ pc = "closing"
  /\ \/ /\ mem # {}
        /\ disk' = IF cancelled THEN disk ELSE mem
        /\ Ended(IF cancelled THEN "paused" ELSE IF failed THEN "error" ELSE "ok")
     \/ Ended("error") /\ UNCHANGED disk
  /\ UNCHANGED <<durable, journal, torn, editor>>

\* Back in cmdIngest: Reindex, then one more saveStore whose failure is the
\* command's error; an interrupt hides the error of the run.
Close ==
  /\ pc = "closing"
  /\ \/ /\ mem # {}
        /\ disk' = mem
        /\ Ended(IF cancelled THEN "paused" ELSE IF failed THEN "error" ELSE "ok")
     \/ /\ Ended("error")
        /\ UNCHANGED disk
  /\ UNCHANGED <<durable, journal, torn, editor>>

-----------------------------------------------------------------------------
(* `turbograph add` or `forget` on the same store file.  It holds the        *)
(* store's lock while it works, which an ingest does not take.              *)

EditorLoads ==
  /\ Notes \cup Forgets # {}
  /\ editor = NULL
  /\ editor' = disk
  /\ UNCHANGED <<fileVars, mainVars, pipeVars>>

EditorSaves(n) ==
  /\ editor # NULL
  /\ disk' = editor \cup {n}
  /\ editor' = NULL
  /\ UNCHANGED <<durable, journal, torn, mainVars, pipeVars>>

\* A store without documents is not saved.
EditorForgets(d) ==
  /\ editor # NULL /\ d \in editor
  /\ disk' = IF editor = {d} THEN disk ELSE editor \ {d}
  /\ editor' = NULL
  /\ UNCHANGED <<durable, journal, torn, mainVars, pipeVars>>

-----------------------------------------------------------------------------

Stream == Abandon \/ \E d \in Files : Skip(d) \/ Offer(d)

Work(w) == Receive(w) \/ Leave(w) \/ \E kind \in {"prepared", "failed", "skipped"} : Prepare(w, kind)

Main == Apply \/ Drained \/ Save \/ MarkDone \/ Close

Next ==
  \/ Start \/ Interrupt \/ Kill \/ PowerLoss \/ WriteBack
  \/ Stream
  \/ \E w \in Workers : Work(w)
  \/ Main
  \/ EditorLoads \/ (\E n \in Notes : EditorSaves(n)) \/ \E d \in Forgets : EditorForgets(d)

Spec == Init /\ [][Next]_vars

\* The Go scheduler runs every goroutine that can run; every call to the
\* embedder, the file system and the extractor returns.
FairSpec == Spec /\ WF_vars(Stream) /\ (\A w \in Workers : WF_vars(Work(w))) /\ WF_vars(Main)

-----------------------------------------------------------------------------
(* Properties.                                                              *)

\* The files hold documents, the counters numbers, a worker a file or a state of
\* its loop, and the results channel no more than its capacity.
TypeOK ==
  /\ disk \subseteq Docs /\ durable \subseteq Docs /\ journal \subseteq Files /\ torn \in BOOLEAN
  /\ pc \in {"down", "loop", "saving", "marking", "closing"}
  /\ last \in BOOLEAN /\ failed \in BOOLEAN /\ broken \in BOOLEAN /\ cancelled \in BOOLEAN
  /\ exit \in {"none", "killed", "ok", "paused", "error"}
  /\ mem \subseteq Docs /\ done \subseteq Files
  /\ pending \in Seq(Files) /\ results \in Seq(Result)
  /\ Len(results) <= Backlog
  /\ prog \in [done : Nat, failed : Nat, skipped : Nat]
  /\ walk \subseteq Files /\ offered \in Files \cup {NULL} /\ handed \subseteq Files
  /\ worker \in [Workers -> Files \cup {"waiting", "exited"}]
  /\ editor = NULL \/ editor \subseteq Docs

\* A done entry of the journal implies that the document is in the store file,
\* at every point a run can be killed at (journal.go:12-15).
DoneIsRecoverable == journal \subseteq disk

\* A crash loses at most CheckpointEvery documents' embeddings as long as the
\* checkpoints succeed (ingest.go:30), and a resumed run embeds no document that a run
\* before it saved (ingest.go:23).
WorkIsKept ==
  /\ CheckpointEvery > 0 /\ pc # "down" /\ ~failed => Cardinality(mem \ disk) <= CheckpointEvery
  /\ \A w \in Workers : worker[w] \in Files => worker[w] \notin disk

\* However the workers race, no content is installed under two ids.
ContentsDistinct == \A d, e \in mem : d # e => Text[d] # Text[e]

\* A run that ends with status 0, finished or paused, has saved all it installed and
\* journaled it unless the journal could not be written.
ExitIsDurable ==
  [][pc # "down" /\ exit' \in {"ok", "paused"} => disk' = mem /\ (failed \/ Elems(pending) = {})]_vars

\* Every document handed to a worker is counted once, or is still with a worker
\* or in the channel: a run that ends its loop has left nothing behind.
ResultsAccounted ==
  Cardinality(handed) =
    prog.done + prog.failed + prog.skipped + Len(results)
      + Cardinality({w \in Workers : worker[w] \in Files})

\* A document once saved stays saved, whatever is interrupted or fails.
ProgressIsKept == [][disk \subseteq disk']_disk

\* Every run ends, and an interrupt does not keep it from doing so.
RunEnds == pc = "loop" ~> pc = "down"
=============================================================================
