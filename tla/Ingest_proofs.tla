---------------------------- MODULE Ingest_proofs ----------------------------
(***************************************************************************)
(* Theorems about Ingest for any number of files, of workers and any       *)
(* checkpoint interval: the state is well typed, the journal never claims  *)
(* more than the store file holds, no content is installed twice, no       *)
(* checkpoint loses what an earlier one saved, and a crash loses little.   *)
(* The last four are about a store file no other process writes, on a      *)
(* machine that stays up.  Of every run: its counters balance, and a run   *)
(* that ends well is on disk.                                              *)
(***************************************************************************)
EXTENDS Ingest, FiniteSetTheorems, TLAPS

-----------------------------------------------------------------------------
(* Facts about the helpers.                                                 *)

LEMMA EmptySeqs == <<>> \in Seq(Files) /\ <<>> \in Seq(Result)
  OBVIOUS

\* An empty channel is never over its capacity, which is a number.
LEMMA BacklogType == Backlog \in Nat /\ Len(<<>>) <= Backlog
  BY WorkersAssumption, FS_CardinalityType DEF Backlog

LEMMA ElemsOfFiles == ASSUME NEW s \in Seq(Files) PROVE Elems(s) \subseteq Files
  BY DEF Elems

LEMMA ElemsOfAppend ==
  ASSUME NEW s \in Seq(Files), NEW d \in Files
  PROVE  Append(s, d) \in Seq(Files) /\ Elems(Append(s, d)) = Elems(s) \cup {d}
<1>1. Append(s, d) \in Seq(Files) /\ DOMAIN Append(s, d) = 1..Len(s) + 1
  OBVIOUS
<1>2. \A i \in 1..Len(s) : Append(s, d)[i] = s[i]
  OBVIOUS
<1>3. Append(s, d)[Len(s) + 1] = d
  OBVIOUS
<1>4. DOMAIN s = 1..Len(s) /\ Len(s) \in Nat
  OBVIOUS
<1>5. 1..Len(s) + 1 = 1..Len(s) \cup {Len(s) + 1}
  BY <1>4
<1> QED BY <1>1, <1>2, <1>3, <1>4, <1>5 DEF Elems

\* What MarkDone has written, in full or in part, is about pending documents.
LEMMA ReadablePending == ASSUME NEW n PROVE Readable(n) \subseteq Elems(pending)
  BY DEF Readable, ToMark, Elems

LEMMA ReadTypes == ASSUME TypeOK, NEW n PROVE Readable(n) \subseteq Files
  BY ReadablePending, ElemsOfFiles DEF TypeOK

\* A process that ends leaves well-typed, empty memory behind.
LEMMA EndedTypes ==
  ASSUME NEW how, Ended(how), how \in {"killed", "ok", "paused", "error"}
  PROVE  /\ pc' = "down" /\ mem' = {} /\ done' = {} /\ pending' = <<>> /\ results' = <<>>
         /\ exit' \in {"none", "killed", "ok", "paused", "error"}
         /\ last' \in BOOLEAN /\ failed' \in BOOLEAN /\ broken' \in BOOLEAN /\ cancelled' \in BOOLEAN
         /\ pending' \in Seq(Files) /\ results' \in Seq(Result) /\ Len(results') <= Backlog
         /\ prog' \in [done : Nat, failed : Nat, skipped : Nat]
         /\ walk' \subseteq Files /\ offered' \in Files \cup {NULL} /\ handed' \subseteq Files
         /\ worker' \in [Workers -> Files \cup {"waiting", "exited"}]
  BY EmptySeqs, BacklogType DEF Ended, Idle, NoProgress

LEMMA CountedTypes ==
  ASSUME prog \in [done : Nat, failed : Nat, skipped : Nat], NEW kind \in {"done", "failed", "skipped"}
  PROVE  Counted(kind) \in [done : Nat, failed : Nat, skipped : Nat]
<1>1. CASE kind = "done"
  BY <1>1 DEF Counted
<1>2. CASE kind = "failed"
  BY <1>2 DEF Counted
<1>3. CASE kind = "skipped"
  BY <1>3 DEF Counted
<1> QED BY <1>1, <1>2, <1>3

-----------------------------------------------------------------------------
(* Type correctness.                                                        *)

LEMMA InitType == Init => TypeOK
<1> SUFFICES ASSUME Init PROVE TypeOK
  OBVIOUS
<1>1. prog \in [done : Nat, failed : Nat, skipped : Nat]
  BY DEF Init, NoProgress
<1>2. worker \in [Workers -> Files \cup {"waiting", "exited"}]
  BY DEF Init, Idle
<1>3. pending \in Seq(Files) /\ results \in Seq(Result) /\ Len(results) <= Backlog
  BY EmptySeqs, BacklogType DEF Init
<1>4. /\ torn \in BOOLEAN /\ last \in BOOLEAN /\ failed \in BOOLEAN
      /\ broken \in BOOLEAN /\ cancelled \in BOOLEAN
  BY DEF Init
<1> QED BY <1>1, <1>2, <1>3, <1>4 DEF Init, TypeOK

LEMMA NextType == TypeOK /\ [Next]_vars => TypeOK'
<1> SUFFICES ASSUME TypeOK, [Next]_vars PROVE TypeOK'
  OBVIOUS
<1>1. CASE Start
  BY <1>1, EmptySeqs, BacklogType DEF Start, TypeOK, fileVars, NoProgress, Docs
<1>2. CASE Interrupt
  BY <1>2 DEF Interrupt, TypeOK, fileVars, mainVars
<1>3. CASE Kill
  <2>1. journal' \subseteq Files /\ torn' \in BOOLEAN
    BY <1>3, ReadTypes DEF Kill, WrittenInPart, TypeOK
  <2> QED BY <1>3, <2>1, EndedTypes DEF Kill, TypeOK
<1>4. CASE PowerLoss
  BY <1>4, EndedTypes DEF PowerLoss, TypeOK
<1>5. CASE WriteBack
  BY <1>5 DEF WriteBack, TypeOK, mainVars, pipeVars
<1>6. CASE Stream
  BY <1>6 DEF Stream, Abandon, Skip, Offer, TypeOK, fileVars, mainVars
<1>7. ASSUME NEW w \in Workers, Work(w) PROVE TypeOK'
  <2>1. CASE Receive(w)
    BY <2>1 DEF Receive, TypeOK, fileVars, mainVars
  <2>2. CASE Leave(w)
    BY <2>2 DEF Leave, TypeOK, fileVars, mainVars
  <2>3. ASSUME NEW kind \in {"prepared", "failed", "skipped"}, Prepare(w, kind) PROVE TypeOK'
    <3>1. [doc |-> worker[w], kind |-> kind] \in Result
      BY <2>3 DEF Prepare, Result
    <3>2. results' \in Seq(Result) /\ Len(results') <= Backlog
      BY <2>3, <3>1, BacklogType DEF Prepare, TypeOK
    <3> QED BY <2>3, <3>2 DEF Prepare, TypeOK, fileVars, mainVars
  <2> QED BY <1>7, <2>1, <2>2, <2>3 DEF Work
<1>8. CASE Apply
  <2>1. results' \in Seq(Result) /\ Len(results') <= Backlog /\ Head(results) \in Result
    BY <1>8, BacklogType DEF Apply, TypeOK
  <2>2. Head(results).doc \in Files
    BY <2>1 DEF Result
  <2>3. pending' \in Seq(Files)
    BY <1>8, <2>2, ElemsOfAppend DEF Apply, TypeOK
  <2>4. mem' \subseteq Docs /\ pc' \in {"down", "loop", "saving", "marking", "closing"}
    BY <1>8, <2>2 DEF Apply, TypeOK, Docs
  <2>5. prog' \in [done : Nat, failed : Nat, skipped : Nat]
    BY <1>8, CountedTypes DEF Apply, TypeOK
  <2>6. torn' \in BOOLEAN /\ broken' \in BOOLEAN
    BY <1>8 DEF Apply, TypeOK
  <2> QED BY <1>8, <2>1, <2>3, <2>4, <2>5, <2>6 DEF Apply, TypeOK
<1>9. CASE Drained
  BY <1>9 DEF Drained, TypeOK, fileVars, pipeVars
<1>10. CASE Save
  BY <1>10 DEF Save, AfterCheckpoint, TypeOK, pipeVars
<1>11. CASE MarkDone
  <2>1. journal' \subseteq Files /\ torn' \in BOOLEAN
    BY <1>11, ReadTypes DEF MarkDone, WrittenInPart, TypeOK
  <2>2. done' \subseteq Files
    BY <1>11, ElemsOfFiles DEF MarkDone, TypeOK
  <2>3. pending' \in Seq(Files)
    <3>1. pending' = <<>> \/ pending' = pending
      BY <1>11 DEF MarkDone
    <3> QED BY <3>1, EmptySeqs DEF TypeOK
  <2> QED BY <1>11, <2>1, <2>2, <2>3 DEF MarkDone, AfterCheckpoint, TypeOK, pipeVars
<1>12. CASE Close
  <2>1. PICK how \in {"ok", "paused", "error"} : Ended(how)
    BY <1>12 DEF Close
  <2>2. disk' \subseteq Docs
    BY <1>12 DEF Close, TypeOK
  <2> QED BY <1>12, <2>1, <2>2, EndedTypes DEF Close, TypeOK
<1>13. CASE EditorLoads
  BY <1>13 DEF EditorLoads, TypeOK, fileVars, mainVars, pipeVars
<1>14. ASSUME NEW n \in Notes, EditorSaves(n) PROVE TypeOK'
  BY <1>14 DEF EditorSaves, TypeOK, mainVars, pipeVars, Docs
<1>15. ASSUME NEW d \in Forgets, EditorForgets(d) PROVE TypeOK'
  BY <1>15 DEF EditorForgets, TypeOK, mainVars, pipeVars, Docs
<1>16. CASE UNCHANGED vars
  BY <1>16 DEF TypeOK, vars, fileVars, mainVars, pipeVars
<1> QED
  BY <1>1, <1>2, <1>3, <1>4, <1>5, <1>6, <1>7, <1>8, <1>9, <1>10, <1>11, <1>12, <1>13, <1>14, <1>15, <1>16
  DEF Next, Main

\* Every reachable state of an ingestion is well typed (rag/ingest.go, rag/journal.go),
\* whatever is killed, fails, loses power or is written by another process.
THEOREM TypeCorrect == Spec => []TypeOK
  BY InitType, NextType, PTL DEF Spec

-----------------------------------------------------------------------------
(* The journal and the store file.  The journal is written after the store  *)
(* file, so it stays within it as long as the file only grows; the file     *)
(* only grows because the store in memory starts from it and keeps it.      *)

\* No other process writes the store file, which can be read if it exists, and the
\* machine stays up.
OnlyWriter == Notes = {} /\ Forgets = {} /\ OpenFails = FALSE /\ ~PowerCut

Distinct(S) == \A d, e \in S : d # e => Text[d] # Text[e]

SafeInv ==
  /\ journal \subseteq disk
  /\ pc # "down" => disk \subseteq mem /\ Elems(pending) \subseteq mem
  /\ pc = "marking" => Elems(pending) \subseteq disk
  /\ Distinct(disk) /\ Distinct(mem)

LEMMA InitSafe == Init => SafeInv
  BY DEF Init, SafeInv, Elems, Distinct

\* Steps that leave the files, the store in memory and what is pending alone.
LEMMA FrameSafe ==
  ASSUME SafeInv, UNCHANGED <<disk, journal, mem, pending>>, pc # "down", pc' # "down",
         pc' = "marking" => pc = "marking", Notes = {}
  PROVE  SafeInv'
  BY DEF SafeInv, Elems, Distinct

LEMMA EmptyElems == Elems(<<>>) = {}
  BY DEF Elems

\* A step of a run without power loss and without other writers keeps the
\* invariant and never takes a document out of the store file.
LEMMA NextSafe ==
  ASSUME OnlyWriter, TypeOK, SafeInv, [Next]_vars
  PROVE  SafeInv' /\ disk \subseteq disk'
<1>1. CASE Start
  BY <1>1, EmptyElems DEF Start, SafeInv, fileVars, Distinct, OnlyWriter
<1>2. CASE Interrupt
  BY <1>2 DEF Interrupt, SafeInv, fileVars, mainVars, Elems, Distinct
<1>3. CASE Kill
  <2>1. UNCHANGED disk /\ pc' = "down" /\ mem' = {} /\ UNCHANGED editor
    BY <1>3 DEF Kill, Ended
  <2>2. pc = "marking" \/ UNCHANGED journal
    BY <1>3 DEF Kill
  <2>3. CASE UNCHANGED journal
    BY <2>1, <2>3 DEF SafeInv, Distinct
  <2>4. CASE pc = "marking"
    <3>1. Elems(pending) \subseteq disk
      BY <2>4 DEF SafeInv
    <3>2. journal' \subseteq disk
      BY <1>3, <3>1, ReadablePending DEF Kill, WrittenInPart, SafeInv
    <3> QED BY <2>1, <3>2 DEF SafeInv, Distinct
  <2> QED BY <2>2, <2>3, <2>4
<1>4. CASE PowerLoss \/ WriteBack
  BY <1>4 DEF PowerLoss, WriteBack, OnlyWriter
<1>5. CASE Stream
  BY <1>5 DEF Stream, Abandon, Skip, Offer, SafeInv, fileVars, mainVars, Elems, Distinct
<1>6. ASSUME NEW w \in Workers, Work(w) PROVE SafeInv' /\ disk \subseteq disk'
  BY <1>6 DEF Work, Receive, Leave, Prepare, SafeInv, fileVars, mainVars, Elems, Distinct
<1>7. CASE Apply
  <2> DEFINE d == Head(results).doc
  <2>1. d \in Files /\ pending \in Seq(Files)
    <3>1. results # <<>> /\ results \in Seq(Result) /\ pending \in Seq(Files)
      BY <1>7 DEF Apply, TypeOK
    <3>2. Head(results) \in Result
      BY <3>1
    <3> QED BY <3>1, <3>2 DEF Result
  <2>2. UNCHANGED <<disk, journal, editor>> /\ pc = "loop" /\ pc' \in {"loop", "saving"}
    BY <1>7 DEF Apply
  <2>3. CASE UNCHANGED <<mem, pending>>
    BY <2>2, <2>3 DEF SafeInv, Elems, Distinct
  <2>4. CASE mem' = mem \cup {d} /\ pending' = Append(pending, d) /\ ~OwnedByOther(d)
    <3>1. Elems(pending') = Elems(pending) \cup {d}
      BY <2>1, <2>4, ElemsOfAppend
    <3>2. Distinct(mem')
      BY <2>4 DEF Distinct, OwnedByOther, SafeInv
    <3> QED BY <2>2, <2>4, <3>1, <3>2 DEF SafeInv, Distinct
  <2> QED BY <1>7, <2>3, <2>4 DEF Apply
<1>8. CASE Drained
  BY <1>8 DEF Drained, SafeInv, fileVars, pipeVars, Elems, Distinct
<1>9. CASE Save
  BY <1>9 DEF Save, AfterCheckpoint, SafeInv, Elems, Distinct
<1>10. CASE MarkDone
  <2>1. Elems(pending) \subseteq disk /\ disk \subseteq mem
    BY <1>10 DEF MarkDone, SafeInv
  <2>2. UNCHANGED <<disk, mem, editor>> /\ pc' \in {"loop", "closing"}
    BY <1>10 DEF MarkDone, AfterCheckpoint
  <2>3. journal' \subseteq disk
    BY <1>10, <2>1, ReadablePending DEF MarkDone, WrittenInPart, SafeInv
  <2>4. pending' = <<>> \/ pending' = pending
    BY <1>10 DEF MarkDone
  <2>5. Elems(pending') \subseteq mem
    BY <2>1, <2>4, EmptyElems DEF Elems
  <2> QED BY <2>1, <2>2, <2>3, <2>5 DEF SafeInv, Distinct
<1>11. CASE Close
  <2>1. pc = "closing" /\ pc' = "down" /\ mem' = {} /\ UNCHANGED <<journal, editor>>
    BY <1>11 DEF Close, Ended
  <2>2. disk' = mem \/ disk' = disk
    BY <1>11 DEF Close
  <2> QED BY <2>1, <2>2 DEF SafeInv, Distinct
<1>12. CASE EditorLoads \/ (\E n \in Notes : EditorSaves(n)) \/ \E d \in Forgets : EditorForgets(d)
  BY <1>12 DEF EditorLoads, OnlyWriter
<1>13. CASE UNCHANGED vars
  BY <1>13 DEF SafeInv, vars, fileVars, mainVars, pipeVars, Elems, Distinct
<1> QED
  BY <1>1, <1>2, <1>3, <1>4, <1>5, <1>6, <1>7, <1>8, <1>9, <1>10, <1>11, <1>12, <1>13
  DEF Next, Main

LEMMA Safe == ASSUME OnlyWriter PROVE Spec => [](TypeOK /\ SafeInv)
<1>1. TypeOK /\ SafeInv /\ [Next]_vars => (TypeOK /\ SafeInv)'
  BY NextType, NextSafe
<1> QED BY <1>1, InitType, InitSafe, PTL DEF Spec

\* A done entry of the journal implies the document is in the store file
\* (rag/journal.go:12-15), for any number of runs, kills and failed writes.
THEOREM JournalImpliesStore == ASSUME OnlyWriter PROVE Spec => []DoneIsRecoverable
<1>1. SafeInv => DoneIsRecoverable
  BY DEF SafeInv, DoneIsRecoverable
<1> QED BY <1>1, Safe, PTL

\* Whatever the order in which the workers' results arrive, no content is
\* installed under two ids (rag/update.go applyPreparedLocked).
THEOREM NoTwins == ASSUME OnlyWriter PROVE Spec => []ContentsDistinct
<1>1. SafeInv => ContentsDistinct
  BY DEF SafeInv, ContentsDistinct, Distinct
<1> QED BY <1>1, Safe, PTL

\* No checkpoint, final save, kill or failure takes a saved document out of the
\* store file (cmd/turbograph/main.go saveStore).
THEOREM ProgressKept == ASSUME OnlyWriter PROVE Spec => ProgressIsKept
<1>1. TypeOK /\ SafeInv /\ [Next]_vars => [disk \subseteq disk']_disk
  BY NextSafe
<1> QED BY <1>1, Safe, PTL DEF Spec, ProgressIsKept

-----------------------------------------------------------------------------
(* The documents on their way.  A file is offered once in a run, so the     *)
(* documents with the offer, with the workers and in the channel differ,    *)
(* and none of them but those in the channel can be in the store.           *)

Busy == {w \in Workers : worker[w] \in Files}

FlowInv ==
  /\ pc = "down" => worker = Idle /\ mem = {}
  /\ walk \cap handed = {}
  /\ offered # NULL => offered \notin walk \cup handed \cup mem
  /\ \A i \in DOMAIN results : results[i].doc \in handed
  /\ \A w \in Busy : /\ worker[w] \in handed \ mem
                     /\ \A v \in Busy \ {w} : worker[v] # worker[w]
                     /\ \A i \in DOMAIN results : results[i].doc # worker[w]

LEMMA NullIsNoFile == NULL \notin Files /\ "waiting" \notin Files /\ "exited" \notin Files
  BY NullAssumption, StatesAssumption DEF Docs

LEMMA EndedFlow == ASSUME NEW how, Ended(how) PROVE FlowInv'
<1>1. worker' = Idle /\ mem' = {} /\ offered' = NULL /\ results' = <<>> /\ walk' = {}
  BY DEF Ended
<1>2. Busy' = {}
  BY <1>1, NullIsNoFile DEF Busy, Idle
<1> QED BY <1>1, <1>2 DEF FlowInv

LEMMA InitFlow == Init => FlowInv
<1> SUFFICES ASSUME Init PROVE FlowInv
  OBVIOUS
<1>1. Busy = {}
  BY NullIsNoFile DEF Init, Busy, Idle
<1> QED BY <1>1 DEF Init, FlowInv

LEMMA NextFlow == ASSUME TypeOK, FlowInv, [Next]_vars PROVE FlowInv'
<1>1. CASE Start
  <2>1. Busy' = {}
    BY <1>1, NullIsNoFile DEF Start, Busy
  <2> QED BY <1>1, <2>1 DEF Start, FlowInv
<1>2. CASE UNCHANGED <<walk, handed, offered, results, worker, mem>> /\ (pc' = "down" => pc = "down")
  BY <1>2 DEF FlowInv, Busy, Idle
<1>3. CASE Interrupt \/ WriteBack \/ Drained \/ Save \/ MarkDone \/ EditorLoads
           \/ (\E n \in Notes : EditorSaves(n)) \/ \E d \in Forgets : EditorForgets(d)
  BY <1>2, <1>3 DEF Interrupt, WriteBack, Drained, Save, MarkDone, AfterCheckpoint, EditorLoads,
                    EditorSaves, EditorForgets, mainVars, pipeVars
<1>4. CASE Kill \/ PowerLoss \/ Close
  <2>1. \E how \in {"killed", "ok", "paused", "error"} : Ended(how)
    BY <1>4 DEF Kill, PowerLoss, Close
  <2> QED BY <2>1, EndedFlow
<1>5. CASE Stream
  <2>1. UNCHANGED <<pc, mem, worker, results, handed>> /\ Busy' = Busy
    BY <1>5 DEF Stream, Abandon, Skip, Offer, mainVars, Busy
  <2>2. walk' \subseteq walk
    BY <1>5 DEF Stream, Abandon, Skip, Offer
  <2>3. offered' # NULL => offered' \notin walk' \cup handed \cup mem
    BY <1>5 DEF Stream, Abandon, Skip, Offer, FlowInv
  <2> QED BY <2>1, <2>2, <2>3 DEF FlowInv, Idle
<1>6. ASSUME NEW w \in Workers, Receive(w) PROVE FlowInv'
  <2>1. /\ offered \in Files \ (walk \cup handed \cup mem) /\ worker[w] = "waiting"
        /\ worker' = [worker EXCEPT ![w] = offered] /\ offered' = NULL
        /\ handed' = handed \cup {offered} /\ UNCHANGED <<walk, results, mem, pc>>
    BY <1>6 DEF Receive, TypeOK, FlowInv, mainVars
  <2>2. pc # "down"
    BY <2>1 DEF FlowInv, Idle
  <2>3. w \notin Busy /\ Busy' = Busy \cup {w} /\ worker'[w] = offered
        /\ \A v \in Busy : worker'[v] = worker[v]
    BY <2>1, NullIsNoFile DEF Busy, TypeOK
  <2>4. \A v \in Busy : worker[v] # offered
    BY <2>1 DEF FlowInv
  <2>5. \A i \in DOMAIN results : results[i].doc # offered
    BY <2>1 DEF FlowInv
  <2>6. \A v \in Busy' : /\ worker'[v] \in handed' \ mem'
                         /\ \A u \in Busy' \ {v} : worker'[u] # worker'[v]
                         /\ \A i \in DOMAIN results : results[i].doc # worker'[v]
    BY <2>1, <2>3, <2>4, <2>5 DEF FlowInv
  <2> QED BY <2>1, <2>2, <2>6 DEF FlowInv
<1>7. ASSUME NEW w \in Workers, Leave(w) PROVE FlowInv'
  <2>1. Busy' = Busy /\ \A v \in Busy : worker'[v] = worker[v]
    BY <1>7, NullIsNoFile DEF Leave, Busy, TypeOK
  <2>2. pc # "down"
    BY <1>7 DEF Leave, FlowInv, Idle
  <2> QED BY <1>7, <2>1, <2>2 DEF Leave, FlowInv, mainVars
<1>8. ASSUME NEW w \in Workers, NEW kind, Prepare(w, kind) PROVE FlowInv'
  <2> DEFINE r == [doc |-> worker[w], kind |-> kind]
  <2>1. /\ w \in Busy /\ results' = Append(results, r) /\ worker' = [worker EXCEPT ![w] = "waiting"]
        /\ UNCHANGED <<walk, offered, handed, mem, pc>>
    BY <1>8 DEF Prepare, Busy, mainVars
  <2>2. Busy' = Busy \ {w} /\ \A v \in Busy' : worker'[v] = worker[v]
    BY <2>1, NullIsNoFile DEF Busy, TypeOK
  <2>3. pc # "down"
    BY <2>1, NullIsNoFile DEF FlowInv, Idle, Busy
  <2>4. \A i \in DOMAIN results' : results'[i] = r \/ (i \in DOMAIN results /\ results'[i] = results[i])
    BY <2>1 DEF TypeOK
  <2>5. r.doc = worker[w] /\ worker[w] \in handed
    BY <2>1 DEF FlowInv
  <2>6. \A i \in DOMAIN results' : results'[i].doc \in handed'
    BY <2>1, <2>4, <2>5 DEF FlowInv
  <2>7. \A v \in Busy', i \in DOMAIN results' : results'[i].doc # worker'[v]
    BY <2>1, <2>2, <2>4, <2>5 DEF FlowInv
  <2> QED BY <2>1, <2>2, <2>3, <2>6, <2>7 DEF FlowInv
<1>9. CASE Apply
  <2> DEFINE d == Head(results).doc
  <2>1. results # <<>> /\ results' = Tail(results) /\ mem' \subseteq mem \cup {d} /\ pc' # "down"
        /\ UNCHANGED <<walk, offered, worker, handed>>
    BY <1>9 DEF Apply
  <2>2. 1 \in DOMAIN results /\ d = results[1].doc
    BY <2>1 DEF TypeOK
  <2>3. \A i \in DOMAIN results' : i + 1 \in DOMAIN results /\ results'[i] = results[i + 1]
    BY <2>1 DEF TypeOK
  <2>4. d \in handed /\ \A w \in Busy : worker[w] # d
    BY <2>2 DEF FlowInv
  <2>5. Busy' = Busy
    BY <2>1 DEF Busy
  <2> QED BY <2>1, <2>3, <2>4, <2>5 DEF FlowInv
<1>10. CASE UNCHANGED vars
  BY <1>2, <1>10 DEF vars, mainVars, pipeVars
<1> QED BY <1>1, <1>3, <1>4, <1>5, <1>6, <1>7, <1>8, <1>9, <1>10 DEF Next, Main, Work

LEMMA Flow == Spec => [](TypeOK /\ FlowInv)
<1>1. TypeOK /\ FlowInv /\ [Next]_vars => (TypeOK /\ FlowInv)'
  BY NextType, NextFlow
<1> QED BY <1>1, InitType, InitFlow, PTL DEF Spec

\* Files and workers are finite, so what the accounts count is.
LEMMA FiniteCounts ==
  ASSUME TypeOK
  PROVE  /\ IsFiniteSet(handed) /\ Cardinality(handed) \in Nat
         /\ IsFiniteSet(Busy) /\ Cardinality(Busy) \in Nat
<1>1. IsFiniteSet(Files)
  BY FilesAssumption, FS_Subset DEF Docs
<1>2. IsFiniteSet(handed)
  BY <1>1, FS_Subset DEF TypeOK
<1>3. IsFiniteSet(Busy)
  BY WorkersAssumption, FS_Subset DEF Busy
<1> QED BY <1>2, <1>3, FS_CardinalityType

CountedDocs == prog.done + prog.failed + prog.skipped

LEMMA CountOne ==
  ASSUME prog \in [done : Nat, failed : Nat, skipped : Nat], NEW kind \in {"done", "failed", "skipped"},
         prog' = Counted(kind)
  PROVE  CountedDocs' = CountedDocs + 1
<1>1. CASE kind = "done"
  BY <1>1 DEF Counted, CountedDocs
<1>2. CASE kind = "failed"
  BY <1>2 DEF Counted, CountedDocs
<1>3. CASE kind = "skipped"
  BY <1>3 DEF Counted, CountedDocs
<1> QED BY <1>1, <1>2, <1>3

LEMMA AccountsAre ==
  ResultsAccounted <=> Cardinality(handed) = CountedDocs + Len(results) + Cardinality(Busy)
  BY DEF ResultsAccounted, CountedDocs, Busy

\* A process that has ended, or one that starts, has nothing to account for.
LEMMA EmptyAccounts ==
  ASSUME handed' = {}, prog' = NoProgress, results' = <<>>, NEW state, worker' = [w \in Workers |-> state],
         state \notin Files
  PROVE  ResultsAccounted'
<1>1. Busy' = {}
  BY DEF Busy
<1>2. CountedDocs' = 0
  BY DEF CountedDocs, NoProgress
<1>3. Cardinality(handed') = CountedDocs' + Len(results') + Cardinality(Busy')
  BY <1>1, <1>2, FS_EmptySet
<1> QED BY <1>3 DEF ResultsAccounted, CountedDocs, Busy

LEMMA InitAccounts == Init => ResultsAccounted
<1> SUFFICES ASSUME Init PROVE ResultsAccounted
  OBVIOUS
<1>1. Busy = {}
  BY NullIsNoFile DEF Init, Busy, Idle
<1>2. CountedDocs = 0 /\ handed = {} /\ results = <<>>
  BY DEF Init, CountedDocs, NoProgress
<1> QED BY <1>1, <1>2, FS_EmptySet, AccountsAre

LEMMA NextAccounts ==
  ASSUME TypeOK, TypeOK', FlowInv, ResultsAccounted, [Next]_vars
  PROVE  ResultsAccounted'
<1> USE DEF CountedDocs
<1>0. Cardinality(handed) = CountedDocs + Len(results) + Cardinality(Busy)
  BY AccountsAre
<1>1. SUFFICES Cardinality(handed') = CountedDocs' + Len(results') + Cardinality(Busy')
  BY DEF ResultsAccounted, Busy
<1>2. CASE Start \/ Kill \/ PowerLoss \/ Close
  <2>1. ResultsAccounted'
    BY <1>2, NullIsNoFile, EmptyAccounts DEF Start, Kill, PowerLoss, Close, Ended, Idle
  <2> QED BY <2>1 DEF ResultsAccounted, Busy
<1>3. CASE UNCHANGED <<handed, prog, results>> /\ Busy' = Busy
  BY <1>0, <1>3
<1>4. CASE Interrupt \/ WriteBack \/ Drained \/ Save \/ MarkDone \/ EditorLoads \/ Stream
           \/ (\E n \in Notes : EditorSaves(n)) \/ (\E d \in Forgets : EditorForgets(d)) \/ UNCHANGED vars
  BY <1>3, <1>4 DEF Interrupt, WriteBack, Drained, Save, MarkDone, EditorLoads, EditorSaves, EditorForgets,
                    Stream, Skip, Offer, Abandon, mainVars, pipeVars, vars, Busy
<1>5. ASSUME NEW w \in Workers, Receive(w) PROVE Cardinality(handed') = CountedDocs' + Len(results') + Cardinality(Busy')
  <2>1. /\ offered \in Files \ handed /\ worker[w] = "waiting"
        /\ worker' = [worker EXCEPT ![w] = offered]
        /\ handed' = handed \cup {offered} /\ UNCHANGED <<results, prog>>
    BY <1>5 DEF Receive, TypeOK, FlowInv, mainVars
  <2>2. w \notin Busy /\ Busy' = Busy \cup {w}
    BY <2>1, NullIsNoFile DEF Busy, TypeOK
  <2>3. Cardinality(handed') = Cardinality(handed) + 1
    BY <2>1, FiniteCounts, FS_AddElement
  <2>4. Cardinality(Busy') = Cardinality(Busy) + 1
    BY <2>2, FiniteCounts, FS_AddElement
  <2> QED BY <1>0, <2>1, <2>3, <2>4, FiniteCounts DEF TypeOK
<1>6. ASSUME NEW w \in Workers, Leave(w) PROVE Cardinality(handed') = CountedDocs' + Len(results') + Cardinality(Busy')
  <2>1. Busy' = Busy
    BY <1>6, NullIsNoFile DEF Leave, Busy, TypeOK
  <2> QED BY <1>3, <1>6, <2>1 DEF Leave, mainVars
<1>7. ASSUME NEW w \in Workers, NEW kind \in {"prepared", "failed", "skipped"}, Prepare(w, kind)
      PROVE  Cardinality(handed') = CountedDocs' + Len(results') + Cardinality(Busy')
  <2>1. /\ w \in Busy /\ worker' = [worker EXCEPT ![w] = "waiting"] /\ UNCHANGED <<prog, handed>>
    BY <1>7 DEF Prepare, Busy, mainVars
  <2>2. Busy' = Busy \ {w}
    BY <2>1, NullIsNoFile DEF Busy, TypeOK
  <2>3. Cardinality(Busy') = Cardinality(Busy) - 1
    BY <2>1, <2>2, FiniteCounts, FS_RemoveElement
  <2>4. Len(results') = Len(results) + 1 /\ Len(results) \in Nat
    BY <1>7 DEF Prepare, TypeOK
  <2> QED BY <1>0, <2>1, <2>3, <2>4, FiniteCounts DEF TypeOK
<1>8. CASE Apply
  <2>1. Len(results) \in Nat \ {0} /\ Len(results') = Len(results) - 1 /\ UNCHANGED handed /\ Busy' = Busy
    BY <1>8 DEF Apply, TypeOK, Busy
  <2>2. \E kind \in {"done", "failed", "skipped"} : prog' = Counted(kind)
    BY <1>8 DEF Apply
  <2>3. CountedDocs' = CountedDocs + 1
    BY <2>2, CountOne DEF TypeOK
  <2> QED BY <1>0, <2>1, <2>3, FiniteCounts DEF TypeOK
<1> QED BY <1>2, <1>4, <1>5, <1>6, <1>7, <1>8 DEF Next, Main, Work

\* Every document handed to a worker is counted once in the report, or is still in the
\* pipeline (rag/ingest.go, Ingest), whatever is interrupted, fails or is killed.
THEOREM AccountsBalance == Spec => []ResultsAccounted
<1>1. Init => TypeOK /\ FlowInv /\ ResultsAccounted
  BY InitType, InitFlow, InitAccounts
<1>2. (TypeOK /\ FlowInv /\ ResultsAccounted) /\ [Next]_vars => (TypeOK /\ FlowInv /\ ResultsAccounted)'
  BY NextType, NextFlow, NextAccounts
<1> QED BY <1>1, <1>2, PTL DEF Spec

-----------------------------------------------------------------------------
(* How a run ends, and what it has not saved in the meantime.               *)

\* A run has no exit status before it ends, and the final checkpoint of one in which
\* nothing failed leaves nothing to journal.
ExitInv ==
  /\ pc # "down" => exit = "none"
  /\ pc = "closing" /\ ~failed => pending = <<>>

LEMMA InitExit == Init => ExitInv
  BY DEF Init, ExitInv

LEMMA NextExit ==
  ASSUME ExitInv, [Next]_vars
  PROVE  /\ ExitInv'
         /\ pc # "down" /\ exit' \in {"ok", "paused"} => disk' = mem /\ (failed \/ pending = <<>>)
<1>1. CASE Start
  BY <1>1 DEF Start, ExitInv
<1>2. CASE UNCHANGED <<pc, exit, failed, pending>>
  BY <1>2 DEF ExitInv
<1>3. CASE Interrupt \/ WriteBack \/ Stream \/ (\E w \in Workers : Work(w)) \/ EditorLoads
           \/ (\E n \in Notes : EditorSaves(n)) \/ (\E d \in Forgets : EditorForgets(d)) \/ UNCHANGED vars
  BY <1>2, <1>3 DEF Interrupt, WriteBack, Stream, Skip, Offer, Abandon, Work, Receive, Leave, Prepare,
                    EditorLoads, EditorSaves, EditorForgets, mainVars, vars
<1>4. CASE Kill \/ PowerLoss
  BY <1>4 DEF Kill, PowerLoss, Ended, ExitInv
<1>5. CASE Apply
  BY <1>5 DEF Apply, ExitInv
<1>6. CASE Drained \/ Save
  BY <1>6 DEF Drained, Save, AfterCheckpoint, ExitInv
<1>7. CASE MarkDone
  <2>1. pc = "marking" /\ exit' = exit /\ pc' \in {"loop", "closing"}
    BY <1>7 DEF MarkDone, AfterCheckpoint
  <2>2. failed' \/ pending' = <<>>
    BY <1>7 DEF MarkDone
  <2> QED BY <2>1, <2>2 DEF ExitInv
<1>8. CASE Close
  BY <1>8 DEF Close, Ended, ExitInv
<1> QED BY <1>1, <1>3, <1>4, <1>5, <1>6, <1>7, <1>8 DEF Next, Main

\* A run that ends with status 0, finished or interrupted, has saved every document it
\* installed, and has journaled them unless that failed (rag/ingest.go, Ingest; cmdIngest).
THEOREM ExitDurable == Spec => ExitIsDurable
<1>1. ExitInv /\ [Next]_vars => ExitInv'
  BY NextExit
<1>2. ExitInv /\ [Next]_vars =>
        [pc # "down" /\ exit' \in {"ok", "paused"} => disk' = mem /\ (failed \/ Elems(pending) = {})]_vars
  BY NextExit, EmptyElems
<1> QED BY <1>1, <1>2, InitExit, PTL DEF Spec, ExitIsDurable

\* Between two checkpoints, what is not in the store file is pending, and the loop
\* checkpoints before more than CheckpointEvery documents are.
KeptInv ==
  /\ pc = "marking" => mem \subseteq disk
  /\ pc # "down" /\ ~failed =>
       /\ mem \ disk \subseteq Elems(pending)
       /\ CheckpointEvery > 0 =>
            /\ Len(pending) <= CheckpointEvery
            /\ pc = "loop" => Len(pending) < CheckpointEvery

LEMMA InitKept == Init => KeptInv
  BY DEF Init, KeptInv

\* Steps that leave what is installed, saved and pending alone.
LEMMA FrameKept ==
  ASSUME KeptInv, UNCHANGED <<mem, disk, pending, failed>>, pc # "down",
         pc' = pc \/ pc' \in {"down", "saving"}
  PROVE  KeptInv'
  BY DEF KeptInv, Elems

LEMMA NextKept ==
  ASSUME OnlyWriter, TypeOK, SafeInv, ExitInv, KeptInv, [Next]_vars
  PROVE  KeptInv'
<1>1. CASE Start
  BY <1>1, EmptyElems, EveryAssumption DEF Start, KeptInv, fileVars, OnlyWriter
<1>2. CASE PowerLoss \/ WriteBack \/ EditorLoads \/ (\E n \in Notes : EditorSaves(n))
           \/ (\E d \in Forgets : EditorForgets(d))
  BY <1>2 DEF PowerLoss, WriteBack, EditorLoads, OnlyWriter
<1>3. CASE Kill \/ Close
  BY <1>3 DEF Kill, Close, Ended, KeptInv
<1>4. CASE UNCHANGED <<mem, disk, pending, failed, pc>>
  BY <1>4 DEF KeptInv, Elems
<1>5. CASE Interrupt \/ Stream \/ (\E w \in Workers : Work(w)) \/ UNCHANGED vars
  BY <1>4, <1>5 DEF Interrupt, Stream, Skip, Offer, Abandon, Work, Receive, Leave, Prepare, fileVars, mainVars, vars
<1>6. CASE Apply
  <2> DEFINE d == Head(results).doc
  <2>1. pc = "loop" /\ pending \in Seq(Files) /\ d \in Files /\ UNCHANGED <<disk, failed>>
    <3>1. results # <<>> /\ results \in Seq(Result)
      BY <1>6 DEF Apply, TypeOK
    <3>2. Head(results) \in Result
      BY <3>1
    <3> QED BY <1>6, <3>2 DEF Apply, TypeOK, Result
  <2>2. CASE UNCHANGED <<mem, pending, pc>>
    BY <1>4, <2>1, <2>2
  <2>3. CASE /\ mem' = mem \cup {d} /\ pending' = Append(pending, d)
             /\ pc' = IF CheckpointDue(pending') THEN "saving" ELSE "loop"
    <3>1. Elems(pending') = Elems(pending) \cup {d} /\ Len(pending') = Len(pending) + 1 /\ Len(pending) \in Nat
      BY <2>1, <2>3, ElemsOfAppend
    <3>2. ~failed => mem' \ disk' \subseteq Elems(pending')
      BY <2>1, <2>3, <3>1 DEF KeptInv
    <3>3. ~failed /\ CheckpointEvery > 0 => Len(pending') <= CheckpointEvery
      BY <2>1, <3>1, EveryAssumption DEF KeptInv
    <3>4. CheckpointEvery > 0 /\ pc' = "loop" => Len(pending') < CheckpointEvery
      BY <2>3, <3>1, EveryAssumption DEF CheckpointDue
    <3> QED BY <2>1, <2>3, <3>2, <3>3, <3>4 DEF KeptInv
  <2> QED BY <1>6, <2>2, <2>3 DEF Apply
<1>7. CASE Drained
  BY <1>7, FrameKept DEF Drained, fileVars
<1>8. CASE Save
  <2>1. pc = "saving" /\ UNCHANGED <<mem, pending>>
    BY <1>8 DEF Save
  <2>2. CASE disk' = mem /\ pc' = "marking" /\ UNCHANGED failed
    BY <2>1, <2>2 DEF KeptInv
  <2>3. CASE failed' /\ pc' \in {"loop", "closing"}
    BY <2>3 DEF KeptInv
  <2> QED BY <1>8, <2>2, <2>3 DEF Save, AfterCheckpoint
<1>9. CASE MarkDone
  <2>1. mem \subseteq disk /\ UNCHANGED <<mem, disk>> /\ pc' \in {"loop", "closing"}
    BY <1>9 DEF MarkDone, AfterCheckpoint, KeptInv
  <2>2. failed' \/ pending' = <<>>
    BY <1>9 DEF MarkDone
  <2> QED BY <2>1, <2>2, EveryAssumption DEF KeptInv
<1> QED BY <1>1, <1>2, <1>3, <1>5, <1>6, <1>7, <1>8, <1>9 DEF Next, Main

\* A sequence has no more elements than its length.
LEMMA FewElems ==
  ASSUME NEW s \in Seq(Files)
  PROVE  IsFiniteSet(Elems(s)) /\ Cardinality(Elems(s)) <= Len(s)
<1>1. Len(s) \in Nat /\ DOMAIN s = 1..Len(s)
  OBVIOUS
<1>2. IsFiniteSet(1..Len(s)) /\ Cardinality(1..Len(s)) = Len(s)
  BY <1>1, FS_Interval
<1>3. s \in Surjection(1..Len(s), Elems(s))
  BY <1>1 DEF Surjection, Elems
<1> QED BY <1>2, <1>3, FS_Surjection

LEMMA KeptBounds ==
  ASSUME TypeOK, SafeInv, FlowInv, KeptInv
  PROVE  WorkIsKept
<1>1. ASSUME CheckpointEvery > 0, pc # "down", ~failed PROVE Cardinality(mem \ disk) <= CheckpointEvery
  <2>1. mem \ disk \subseteq Elems(pending) /\ Len(pending) <= CheckpointEvery /\ pending \in Seq(Files)
    BY <1>1 DEF KeptInv, TypeOK
  <2>2. IsFiniteSet(Elems(pending)) /\ Cardinality(Elems(pending)) <= Len(pending)
    BY <2>1, FewElems
  <2>3. IsFiniteSet(mem \ disk) /\ Cardinality(mem \ disk) <= Cardinality(Elems(pending))
    BY <2>1, <2>2, FS_Subset
  <2> QED BY <2>1, <2>2, <2>3, EveryAssumption, FS_CardinalityType
<1>2. ASSUME NEW w \in Workers, worker[w] \in Files PROVE worker[w] \notin disk
  <2>1. w \in Busy /\ worker[w] \notin mem
    BY <1>2 DEF Busy, FlowInv
  <2>2. pc # "down"
    BY <1>2, NullIsNoFile DEF FlowInv, Idle
  <2> QED BY <2>1, <2>2 DEF SafeInv
<1> QED BY <1>1, <1>2 DEF WorkIsKept

\* A crash loses at most CheckpointEvery documents while the checkpoints succeed, and no
\* document that an earlier run saved is embedded again (rag/ingest.go:23-30).
THEOREM WorkKept == ASSUME OnlyWriter PROVE Spec => []WorkIsKept
<1>1. ExitInv /\ KeptInv /\ TypeOK /\ SafeInv /\ [Next]_vars => (ExitInv /\ KeptInv)'
  BY NextExit, NextKept
<1>2. TypeOK /\ SafeInv /\ FlowInv /\ KeptInv => WorkIsKept
  BY KeptBounds
<1> QED BY <1>1, <1>2, InitExit, InitKept, Safe, Flow, PTL DEF Spec
=============================================================================
