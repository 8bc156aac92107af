-------------------------- MODULE StoreFile_proofs --------------------------
(***************************************************************************)
(* Theorems about StoreFile for any number of processes, store files and   *)
(* command lines without `ingest`: the lock excludes, and no command's     *)
(* work is lost, that is, StoreFile implements SharedStore.                *)
(***************************************************************************)
EXTENDS StoreFile, TLAPS

\* Every command takes the store's lock.
AllLock == \A c \in Commands : c.kind # "ingest"

USE DEF Store, Kind

-----------------------------------------------------------------------------
(* What the commands do to a content keeps it a content.                    *)

LEMMA HoldingContent ==
  ASSUME NEW r \in SUBSET Texts, NEW f, f.read = r, NEW ds \in [Docs -> Texts \cup {NULL}]
  PROVE  Knowledge!Holding(f, ds) \in Content
  BY DEF Knowledge!Holding, Knowledge!Holds, Content

LEMMA EmptyContent == Knowledge!Empty \in Content
  BY DEF Knowledge!Empty, Knowledge!Holds, Content

LEMMA PutContent ==
  ASSUME NEW f \in Content, NEW d \in Docs, NEW t \in Texts
  PROVE  Knowledge!Put(f, d, t) \in Content
<1>1. f.read \in SUBSET Texts /\ [f.docs EXCEPT ![d] = t] \in [Docs -> Texts \cup {NULL}]
  BY DEF Content
<1> QED BY <1>1, HoldingContent DEF Knowledge!Put

LEMMA DropContent ==
  ASSUME NEW f \in Content, NEW d \in Docs
  PROVE  Knowledge!Drop(f, d) \in Content
<1>1. f.read \in SUBSET Texts /\ [f.docs EXCEPT ![d] = NULL] \in [Docs -> Texts \cup {NULL}]
  BY DEF Content
<1> QED BY <1>1, HoldingContent DEF Knowledge!Drop

LEMMA OrEmptyContent ==
  ASSUME NEW f \in Content \cup {NULL}
  PROVE  Knowledge!OrEmpty(f) \in Content
  BY EmptyContent DEF Knowledge!OrEmpty

\* What Take adds to f comes from the source and is under no id and has no text
\* that f has; no extraction of f is lost.
LEMMA TakeContent ==
  ASSUME NEW f \in Content, NEW src \in Content
  PROVE  /\ Take(f, src) \in Content
         /\ \A d \in Docs : f.docs[d] # NULL => Take(f, src).docs[d] = f.docs[d]
         /\ \A d \in Docs : Take(f, src).docs[d] # f.docs[d] =>
              Take(f, src).docs[d] = src.docs[d] /\ ~Knowledge!Holds(f, Take(f, src).docs[d])
         /\ f.read \subseteq Take(f, src).read
<1> DEFINE docs == [d \in Docs |-> IF f.docs[d] = NULL /\ src.docs[d] # NULL
                                      /\ ~Knowledge!Holds(f, src.docs[d])
                                   THEN src.docs[d] ELSE f.docs[d]]
           g == [f EXCEPT !.read = @ \cup src.read]
<1>1. /\ f.docs \in [Docs -> Texts \cup {NULL}] /\ src.docs \in [Docs -> Texts \cup {NULL}]
      /\ f.read \in SUBSET Texts /\ src.read \in SUBSET Texts
      /\ \A t \in f.read : \E d \in Docs : f.docs[d] = t
      /\ f = [docs |-> f.docs, read |-> f.read]
  BY DEF Content, Knowledge!Holds
<1>2. CASE src = Knowledge!Empty
  BY <1>2, <1>1 DEF Take
<1>3. CASE src # Knowledge!Empty
  <2>1. Take(f, src) = Knowledge!Holding(g, docs)
    BY <1>3 DEF Take
  <2>2. docs \in [Docs -> Texts \cup {NULL}]
    BY <1>1
  <2>3. g.read = f.read \cup src.read
    BY <1>1
  <2>4. Take(f, src) \in Content
    BY <1>1, <2>1, <2>2, <2>3, HoldingContent
  <2>5. Take(f, src).docs = docs
    BY <2>1 DEF Knowledge!Holding
  <2>6. \A d \in Docs : f.docs[d] # NULL => docs[d] = f.docs[d]
    OBVIOUS
  <2>7. \A t \in f.read : t # NULL /\ \E d \in Docs : docs[d] = t
    BY <1>1, <2>6, NullAssumption
  <2>8. f.read \subseteq Take(f, src).read
    BY <2>1, <2>3, <2>7 DEF Knowledge!Holding
  <2> QED BY <2>4, <2>5, <2>6, <2>8
<1> QED BY <1>2, <1>3

\* Taking one source more is absorbing one source more.
LEMMA AbsorbOne ==
  ASSUME NEW f \in Content, NEW g \in Content, NEW src \in Content, NEW S \in Seq(Content),
         Knowledge!Absorbs(f, g, S)
  PROVE  Knowledge!Absorbs(f, Take(g, src), Append(S, src))
<1> DEFINE h == Take(g, src)
<1>1. /\ \A d \in Docs : f.docs[d] # NULL => h.docs[d] = f.docs[d]
      /\ f.read \subseteq h.read
  BY TakeContent DEF Knowledge!Absorbs
<1>2. /\ \A i \in DOMAIN S : i \in DOMAIN Append(S, src) /\ Append(S, src)[i] = S[i]
      /\ Len(S) + 1 \in DOMAIN Append(S, src) /\ Append(S, src)[Len(S) + 1] = src
  OBVIOUS
<1>3. ASSUME NEW d \in Docs, h.docs[d] # f.docs[d]
      PROVE  /\ \E i \in DOMAIN Append(S, src) : Append(S, src)[i].docs[d] = h.docs[d]
             /\ ~Knowledge!Holds(f, h.docs[d])
  <2>1. CASE h.docs[d] = g.docs[d]
    BY <1>2, <1>3, <2>1 DEF Knowledge!Absorbs
  <2>2. CASE h.docs[d] # g.docs[d]
    <3>1. h.docs[d] = src.docs[d] /\ ~Knowledge!Holds(g, h.docs[d])
      BY <2>2, TakeContent
    <3>2. f.docs[d] = NULL
      BY <1>3, <1>1
    <3>3. h.docs[d] # NULL
      BY <1>3, <3>2
    <3>4. ~Knowledge!Holds(f, h.docs[d])
      BY <3>1, <3>3 DEF Knowledge!Absorbs, Knowledge!Holds
    <3> QED BY <1>2, <3>1, <3>4
  <2> QED BY <2>1, <2>2
<1> QED BY <1>1, <1>3 DEF Knowledge!Absorbs

LEMMA AbsorbNone ==
  ASSUME NEW f \in Content
  PROVE  Knowledge!Absorbs(f, f, <<>>) /\ Knowledge!Reads(f, f)
  BY DEF Knowledge!Absorbs, Knowledge!Reads

-----------------------------------------------------------------------------
(* Type correctness.                                                        *)

LEMMA CommandFacts ==
  ASSUME TypeOK, NEW p \in Procs
  PROVE  /\ command[p] \in Command /\ command[p] \in Commands
         /\ Store(p) \in Paths /\ Kind(p) \in Kinds
         /\ command[p].doc \in Docs /\ command[p].text \in Texts /\ command[p].srcs \in Seq(Paths)
         /\ seen[p] \in Seq(Content)
  BY CommandsAssumption DEF TypeOK, Command

\* The source a merge reads next is a path.
LEMMA NextSourceType ==
  ASSUME TypeOK, NEW p \in Procs, SourcesLeft(p)
  PROVE  NextSource(p) \in Paths
  BY CommandFacts DEF NextSource, SourcesLeft

LEMMA EndTypes ==
  ASSUME TypeOK, NEW p \in Procs, NEW how \in {"ok", "error", "killed"}, End(p, how),
         UNCHANGED <<files, command, seen>>
  PROVE  TypeOK'
  BY DEF End, TypeOK

LEMMA InitType == Init => TypeOK
<1> SUFFICES ASSUME Init PROVE TypeOK
  OBVIOUS
<1>1. <<>> \in Seq(Content)
  OBVIOUS
<1> QED BY <1>1, InitialAssumption DEF Init, TypeOK

\* In TypeOK a step changes little; this is what the edits of a copy share.
LEMMA EditsTypes ==
  ASSUME TypeOK, NEW p \in Procs, NEW m \in Content, Edits(p, m)
  PROVE  TypeOK'
  BY DEF Edits, Goto, TypeOK

\* A process that works on a copy of the store has one.
HasCopy == \A p \in Procs :
  /\ pc[p] \in {"editing", "saving"} => mem[p] \in Content
  /\ pc[p] = "reading" /\ Kind(p) = "merge" => mem[p] \in Content /\ SourcesLeft(p)
  /\ pc[p] = "reading" => Kind(p) \in {"merge", "search"}

LEMMA StepType ==
  ASSUME TypeOK, HasCopy, NEW p \in Procs, Step(p) \/ Kill(p)
  PROVE  TypeOK'
<1>0. /\ Store(p) \in Paths /\ command[p].doc \in Docs /\ command[p].text \in Texts
      /\ seen[p] \in Seq(Content) /\ files[Store(p)] \in Content \cup {NULL}
  BY CommandFacts DEF TypeOK
<1>1. CASE LockStore(p)
  BY <1>1, <1>0 DEF LockStore, Goto, TypeOK
<1>2. CASE OpenStore(p)
  <2>1. CASE Fails(p)
    BY <2>1, EndTypes DEF Fails
  <2>2. CASE /\ mem' = [mem EXCEPT ![p] = Knowledge!OrEmpty(files[Store(p)])] /\ Goto(p, "editing")
             /\ UNCHANGED <<files, exclusive, shared, command, exit, seen>>
    BY <2>2, <1>0, OrEmptyContent DEF Goto, TypeOK
  <2> QED BY <1>2, <2>1, <2>2 DEF OpenStore
<1>3. CASE AddDocument(p)
  BY <1>3, <1>0, PutContent, EditsTypes, EndTypes DEF AddDocument, Fails, HasCopy
<1>4. CASE ForgetDocument(p)
  BY <1>4, <1>0, DropContent, EditsTypes, EndTypes DEF ForgetDocument, Fails, HasCopy
<1>5. CASE Extract(p)
  <2>0. mem[p] \in Content
    BY <1>5 DEF Extract, HasCopy
  <2>1. ASSUME NEW t \in Texts, Knowledge!Holds(mem[p], t), mem' = [mem EXCEPT ![p] = Knowledge!WithRead(@, t)],
               UNCHANGED <<files, exclusive, shared, command, pc, exit, seen>>
        PROVE  TypeOK'
    <3>1. Knowledge!WithRead(mem[p], t) \in Content
      BY <2>0, <2>1 DEF Content, Knowledge!Holds, Knowledge!WithRead
    <3> QED BY <2>1, <3>1 DEF TypeOK
  <2>2. CASE /\ files' = [files EXCEPT ![Store(p)] = mem[p]]
             /\ UNCHANGED <<exclusive, shared, command, pc, mem, exit, seen>>
    BY <2>2, <2>0, <1>0 DEF TypeOK
  <2> QED BY <1>5, <2>0, <2>1, <2>2, EditsTypes, EndTypes DEF Extract, Fails
<1>6. CASE LockSource(p)
  <2>1. NextSource(p) \in Paths
    BY <1>6, NextSourceType DEF LockSource
  <2> QED BY <1>6, <2>1 DEF LockSource, Goto, TypeOK
<1>7. CASE ReadSource(p)
  <2>1. SourcesLeft(p) /\ mem[p] \in Content
    BY <1>7 DEF ReadSource, HasCopy
  <2>2. NextSource(p) \in Paths
    BY <2>1, NextSourceType
  <2>3. CASE Fails(p)
    BY <2>3, EndTypes DEF Fails
  <2>4. CASE ~Fails(p)
    <3> DEFINE s == NextSource(p)
    <3>1. files[s] \in Content
      BY <1>7, <2>2, <2>4 DEF ReadSource, TypeOK
    <3>2. Append(seen[p], files[s]) \in Seq(Content) /\ Take(mem[p], files[s]) \in Content
      BY <3>1, <2>1, <1>0, TakeContent
    <3>3. /\ seen' = [seen EXCEPT ![p] = Append(seen[p], files[s])]
          /\ mem' = [mem EXCEPT ![p] = Take(mem[p], files[s])]
          /\ shared' = [shared EXCEPT ![s] = shared[s] \ {p}]
          /\ pc' = [pc EXCEPT ![p] = "editing"]
          /\ UNCHANGED <<files, exclusive, command, exit>>
      BY <1>7, <2>4 DEF ReadSource, Goto
    <3> QED BY <2>2, <3>2, <3>3 DEF TypeOK
  <2> QED BY <2>3, <2>4
<1>8. CASE MergeDone(p)
  BY <1>8, EditsTypes DEF MergeDone, HasCopy
<1>9. CASE SaveStore(p)
  <2>1. CASE Fails(p)
    BY <2>1, EndTypes DEF Fails
  <2>2. CASE ~Fails(p)
    <3>1. mem[p] \in Content
      BY <1>9 DEF SaveStore, HasCopy
    <3>2. /\ files' = [files EXCEPT ![Store(p)] = mem[p]]
          /\ pc' = [pc EXCEPT ![p] = "replying"]
          /\ UNCHANGED <<exclusive, shared, command, mem, exit, seen>>
      BY <1>9, <2>2 DEF SaveStore, Goto
    <3> QED BY <3>1, <3>2, <1>0 DEF TypeOK
  <2> QED BY <2>1, <2>2
<1>10. CASE Reply(p) \/ Kill(p)
  BY <1>10, EndTypes DEF Reply, Kill
<1>11. CASE LockForReading(p)
  BY <1>11, <1>0 DEF LockForReading, Goto, TypeOK
<1>12. CASE LoadToSearch(p)
  <2>1. CASE Fails(p)
    BY <2>1, EndTypes DEF Fails
  <2>2. CASE ~Fails(p)
    <3>1. files[Store(p)] \in Content
      BY <1>12, <2>2, <1>0 DEF LoadToSearch
    <3>2. Append(seen[p], files[Store(p)]) \in Seq(Content)
      BY <3>1, <1>0
    <3>3. /\ seen' = [seen EXCEPT ![p] = Append(seen[p], files[Store(p)])]
          /\ mem' = [mem EXCEPT ![p] = files[Store(p)]]
          /\ shared' = [shared EXCEPT ![Store(p)] = shared[Store(p)] \ {p}]
          /\ pc' = [pc EXCEPT ![p] = "searching"]
          /\ UNCHANGED <<files, exclusive, command, exit>>
      BY <1>12, <2>2 DEF LoadToSearch, Goto
    <3> QED BY <3>1, <3>2, <3>3, <1>0 DEF TypeOK
  <2> QED BY <2>1, <2>2
<1>13. CASE Search(p)
  BY <1>13, EndTypes DEF Search
<1> QED
  BY <1>1, <1>2, <1>3, <1>4, <1>5, <1>6, <1>7, <1>8, <1>9, <1>10, <1>11, <1>12, <1>13 DEF Step

-----------------------------------------------------------------------------
(* The inductive invariant.  An editor holds the lock of its store from the *)
(* moment it loads it, so the file is what it loaded until it saves, and    *)
(* the copy in memory stays what its command makes of the file.             *)

LoadsFrom(p) == IF Kind(p) = "search" THEN Store(p) ELSE NextSource(p)

HoldsLocks(p) ==
  /\ Editing(p) => exclusive[Store(p)] = p
  /\ pc[p] = "reading" => p \in shared[LoadsFrom(p)]

Shape(p) ==
  /\ pc[p] \in {"opening", "editing", "saving", "replying"} => Kind(p) \in Editors
  /\ pc[p] = "reading" => Kind(p) \in {"merge", "search"}
  /\ pc[p] \in {"editing", "saving"} => mem[p] \in Content
  /\ pc[p] = "reading" /\ Kind(p) = "merge" => mem[p] \in Content /\ SourcesLeft(p)
  /\ pc[p] = "searching" => Kind(p) = "search" /\ seen[p] # <<>>
  /\ pc[p] = "gone" <=> exit[p] # NULL
  /\ Kind(p) = "merge" => Len(seen[p]) <= Len(command[p].srcs)
  /\ pc[p] \in {"start", "opening"} => seen[p] = <<>>

Draft(p) ==
  LET f == files[Store(p)]
  IN  /\ pc[p] \in {"editing", "reading"} /\ Kind(p) = "merge"
           => Knowledge!Absorbs(Knowledge!OrEmpty(f), mem[p], seen[p])
      /\ pc[p] = "editing" /\ Kind(p) = "add" => mem[p] = Knowledge!OrEmpty(f)
      /\ pc[p] = "editing" /\ Kind(p) = "forget" => f # NULL /\ mem[p] = f
      /\ pc[p] = "editing" /\ Kind(p) = "entities" => f # NULL /\ Knowledge!Reads(f, mem[p])
      /\ pc[p] = "saving" => Knowledge!Effect(p, f, mem[p])

LockRule == \A s \in Paths : exclusive[s] = NULL \/ shared[s] = {}

Inv == TypeOK /\ LockRule /\ \A p \in Procs : HoldsLocks(p) /\ Shape(p) /\ Draft(p)

LEMMA InitInv == ASSUME Init PROVE Inv
<1>1. ASSUME NEW p \in Procs PROVE HoldsLocks(p) /\ Shape(p) /\ Draft(p)
  <2>1. /\ pc[p] = "start" /\ exit[p] = NULL /\ seen[p] = <<>> /\ command[p] \in Command
    BY CommandsAssumption DEF Init
  <2>2. Len(command[p].srcs) \in Nat
    BY <2>1 DEF Command
  <2> QED BY <2>1, <2>2 DEF HoldsLocks, Shape, Draft, Editing
<1>2. LockRule
  BY DEF Init, LockRule
<1> QED BY <1>1, <1>2, InitType DEF Inv

\* Only a process that edits a store writes its file.
LEMMA OnlyEditorsWrite ==
  ASSUME Inv, NEW p \in Procs, Step(p) \/ Kill(p)
  PROVE  \/ UNCHANGED files
         \/ Editing(p) /\ files' = [files EXCEPT ![Store(p)] = mem[p]]
<1>1. CASE Extract(p)
  BY <1>1 DEF Extract, Edits, Fails, Editing, Editors
<1>2. CASE SaveStore(p)
  BY <1>2 DEF SaveStore, Fails, Editing, Inv, Shape
<1>3. CASE ~Extract(p) /\ ~SaveStore(p)
  BY <1>3 DEF Step, Kill, LockStore, OpenStore, AddDocument, ForgetDocument, LockSource, ReadSource,
     MergeDone, Reply, LockForReading, LoadToSearch, Search, Edits, Fails
<1> QED BY <1>1, <1>2, <1>3

\* A step of p changes nothing that is q's.
LEMMA LocalFrame ==
  ASSUME TypeOK, NEW p \in Procs, NEW q \in Procs \ {p}, Step(p) \/ Kill(p)
  PROVE  /\ pc'[q] = pc[q] /\ mem'[q] = mem[q] /\ seen'[q] = seen[q] /\ exit'[q] = exit[q]
         /\ command' = command
<1>1. CASE LockStore(p) \/ OpenStore(p)
  BY <1>1 DEF LockStore, OpenStore, Fails, End, Goto, TypeOK
<1>2. CASE AddDocument(p) \/ ForgetDocument(p) \/ Extract(p) \/ MergeDone(p)
  BY <1>2 DEF AddDocument, ForgetDocument, Extract, MergeDone, Edits, Fails, End, Goto, TypeOK
<1>3. CASE LockSource(p) \/ ReadSource(p)
  BY <1>3 DEF LockSource, ReadSource, Fails, End, Goto, TypeOK
<1>4. CASE SaveStore(p) \/ Reply(p) \/ Kill(p)
  BY <1>4 DEF SaveStore, Reply, Kill, Fails, End, Goto, TypeOK
<1>5. CASE LockForReading(p) \/ LoadToSearch(p) \/ Search(p)
  BY <1>5 DEF LockForReading, LoadToSearch, Search, Fails, End, Goto, TypeOK
<1> QED BY <1>1, <1>2, <1>3, <1>4, <1>5 DEF Step

\* It takes a lock that is free or gives up one of its own.
LEMMA LockFrame ==
  ASSUME Inv, NEW p \in Procs, Step(p) \/ Kill(p)
  PROVE  /\ LockRule'
         /\ \A q \in Procs \ {p}, s \in Paths :
              /\ exclusive[s] = q => exclusive'[s] = q
              /\ q \in shared[s] => q \in shared'[s]
<1>0. /\ TypeOK /\ Store(p) \in Paths /\ NULL \notin Procs
      /\ \A s \in Paths : exclusive[s] \in Procs \cup {NULL} /\ shared[s] \in SUBSET Procs
      /\ \A s \in Paths : exclusive[s] = NULL \/ shared[s] = {}
  BY CommandFacts, NullAssumption DEF Inv, TypeOK, LockRule
<1> DEFINE Kept == \A q \in Procs \ {p}, s \in Paths :
                     /\ exclusive[s] = q => exclusive'[s] = q
                     /\ q \in shared[s] => q \in shared'[s]
<1>1. ASSUME NEW how, End(p, how) PROVE LockRule' /\ Kept
  BY <1>0, <1>1 DEF End, LockRule
<1>2. ASSUME NEW s \in Paths, MayLock(s), exclusive' = [exclusive EXCEPT ![s] = p], UNCHANGED shared
      PROVE  LockRule' /\ Kept
  BY <1>0, <1>2 DEF MayLock, LockRule, TypeOK
<1>3. ASSUME NEW s \in Paths, MayShare(s), shared' = [shared EXCEPT ![s] = @ \cup {p}], UNCHANGED exclusive
      PROVE  LockRule' /\ Kept
  BY <1>0, <1>3 DEF MayShare, LockRule, TypeOK
<1>4. ASSUME NEW s \in Paths, shared' = [shared EXCEPT ![s] = @ \ {p}], UNCHANGED exclusive
      PROVE  LockRule' /\ Kept
  BY <1>0, <1>4 DEF LockRule, TypeOK
<1>5. CASE UNCHANGED <<exclusive, shared>>
  BY <1>0, <1>5 DEF LockRule
<1>6. CASE LockStore(p)
  BY <1>6, <1>0, <1>2 DEF LockStore
<1>7. CASE LockSource(p)
  BY <1>7, <1>0, <1>3, NextSourceType DEF LockSource
<1>8. CASE ReadSource(p)
  <2>1. NextSource(p) \in Paths
    BY <1>8, NextSourceType DEF ReadSource, Inv, Shape
  <2> QED BY <1>8, <2>1, <1>1, <1>4 DEF ReadSource, Fails
<1>9. CASE LockForReading(p)
  BY <1>9, <1>0, <1>3 DEF LockForReading
<1>10. CASE LoadToSearch(p)
  BY <1>10, <1>0, <1>1, <1>4 DEF LoadToSearch, Fails
<1>11. CASE OpenStore(p) \/ AddDocument(p) \/ ForgetDocument(p) \/ MergeDone(p)
  BY <1>11, <1>1, <1>5 DEF OpenStore, AddDocument, ForgetDocument, MergeDone, Edits, Fails
<1>12. CASE Extract(p) \/ SaveStore(p)
  BY <1>12, <1>1, <1>5 DEF Extract, SaveStore, Edits, Fails
<1>13. CASE Reply(p) \/ Search(p) \/ Kill(p)
  BY <1>13, <1>1 DEF Reply, Search, Kill
<1> QED
  BY <1>6, <1>7, <1>8, <1>9, <1>10, <1>11, <1>12, <1>13 DEF Step

\* What holds of q still does after a step of p: q's file is not written, for p
\* would need the lock q has.
LEMMA OthersInv ==
  ASSUME Inv, NEW p \in Procs, NEW q \in Procs \ {p}, Step(p) \/ Kill(p)
  PROVE  HoldsLocks(q)' /\ Shape(q)' /\ Draft(q)'
<1>1. /\ pc'[q] = pc[q] /\ mem'[q] = mem[q] /\ seen'[q] = seen[q] /\ exit'[q] = exit[q]
      /\ command' = command
  BY LocalFrame DEF Inv
<1>2. HoldsLocks(q) /\ Shape(q) /\ Draft(q) /\ Store(q) \in Paths
  BY CommandFacts DEF Inv
<1>3. Shape(q)'
  BY <1>1, <1>2 DEF Shape, SourcesLeft
<1>4. pc[q] = "reading" => LoadsFrom(q) \in Paths /\ LoadsFrom(q)' = LoadsFrom(q)
  BY <1>1, <1>2, NextSourceType DEF LoadsFrom, NextSource, Shape, Inv
<1>5. HoldsLocks(q)'
  <2>1. Editing(q)' <=> Editing(q)
    BY <1>1 DEF Editing
  <2>2. Editing(q) => exclusive'[Store(q)] = q
    BY <1>2, LockFrame DEF HoldsLocks
  <2>3. pc[q] = "reading" => q \in shared'[LoadsFrom(q)]
    BY <1>2, <1>4, LockFrame DEF HoldsLocks
  <2> QED BY <1>1, <1>4, <2>1, <2>2, <2>3 DEF HoldsLocks
<1>6. Editing(q) => files'[Store(q)] = files[Store(q)]
  <2>1. CASE UNCHANGED files
    BY <2>1
  <2>2. CASE Editing(p) /\ files' = [files EXCEPT ![Store(p)] = mem[p]]
    <3>1. Editing(q) => Store(p) # Store(q)
      BY <1>2, <2>2 DEF Inv, HoldsLocks
    <3> QED BY <1>2, <2>2, <3>1 DEF Inv, TypeOK
  <2> QED BY <2>1, <2>2, OnlyEditorsWrite
<1>7. Draft(q)'
  <2>1. CASE Editing(q)
    BY <1>1, <1>2, <1>6, <2>1 DEF Draft, Knowledge!Effect
  <2>2. CASE ~Editing(q)
    <3>1. Kind(q) \in Editors => pc[q] \notin {"editing", "reading", "saving"}
      BY <2>2 DEF Editing
    <3>2. pc[q] # "saving"
      BY <3>1, <1>2 DEF Shape
    <3> QED BY <1>1, <3>1, <3>2 DEF Draft, Editors
  <2> QED BY <2>1, <2>2
<1> QED BY <1>3, <1>5, <1>7

-----------------------------------------------------------------------------
(* A step of p keeps what holds of p.                                       *)

LEMMA EndOwn ==
  ASSUME Inv, NEW p \in Procs, NEW how \in {"ok", "error", "killed"}, End(p, how),
         UNCHANGED <<files, command, seen>>
  PROVE  HoldsLocks(p)' /\ Shape(p)' /\ Draft(p)'
<1>1. pc'[p] = "gone" /\ exit'[p] = how /\ seen'[p] = seen[p] /\ command' = command /\ how # NULL
  BY NullAssumption DEF End, Inv, TypeOK
<1>2. HoldsLocks(p)' /\ Draft(p)'
  BY <1>1 DEF HoldsLocks, Editing, Draft
<1>3. Kind(p) = "merge" => Len(seen[p]) <= Len(command[p].srcs)
  BY DEF Inv, Shape
<1> QED BY <1>1, <1>2, <1>3 DEF Shape

\* p has finished its copy: locks stay, the copy is the effect of the command.
LEMMA EditsOwn ==
  ASSUME Inv, NEW p \in Procs, NEW m \in Content, pc[p] = "editing", Edits(p, m),
         Knowledge!Effect(p, files[Store(p)], m)
  PROVE  HoldsLocks(p)' /\ Shape(p)' /\ Draft(p)'
<1>1. /\ pc'[p] = "saving" /\ mem'[p] = m
      /\ UNCHANGED <<files, exclusive, shared, command, exit, seen>>
  BY DEF Edits, Goto, Inv, TypeOK
<1>2. Kind(p) \in Editors /\ exclusive[Store(p)] = p /\ exit[p] = NULL
  BY DEF Inv, Shape, HoldsLocks, Editing
<1>3. Knowledge!Effect(p, files[Store(p)], m)'
  BY <1>1 DEF Knowledge!Effect
<1>4. Draft(p)'
  BY <1>1, <1>3 DEF Draft, Knowledge!Effect
<1>5. HoldsLocks(p)' /\ Shape(p)'
  BY <1>1, <1>2 DEF HoldsLocks, Editing, Shape, Inv
<1> QED BY <1>4, <1>5

\* `ingest` aside, a store is opened with its lock held, and the copy is then
\* what is in the file, or an empty store for a command that may create one.
LEMMA OpenOwn ==
  ASSUME AllLock, Inv, NEW p \in Procs, OpenStore(p), ~Fails(p)
  PROVE  HoldsLocks(p)' /\ Shape(p)' /\ Draft(p)'
<1> DEFINE f == files[Store(p)]
<1>1. Kind(p) # "ingest" /\ pc[p] = "opening"
  BY CommandFacts DEF AllLock, OpenStore, IngestOpens, Inv
<1>2. /\ Kind(p) \in Editors /\ exclusive[Store(p)] = p /\ exit[p] = NULL /\ seen[p] = <<>>
      /\ f \in Content \cup {NULL} /\ Len(seen[p]) = 0
      /\ Kind(p) = "merge" => Len(seen[p]) <= Len(command[p].srcs)
  BY <1>1, CommandFacts DEF Inv, Shape, HoldsLocks, Editing, TypeOK
<1>3. /\ pc'[p] = "editing" /\ mem'[p] = Knowledge!OrEmpty(f)
      /\ UNCHANGED <<files, exclusive, shared, command, exit, seen>>
      /\ Kind(p) \in {"forget", "entities"} => f # NULL
  BY <1>2 DEF OpenStore, Goto, Inv, TypeOK, Editors
<1>4. Knowledge!OrEmpty(f) \in Content /\ (f # NULL => Knowledge!OrEmpty(f) = f)
  BY <1>2, OrEmptyContent DEF Knowledge!OrEmpty
<1>5. HoldsLocks(p)' /\ Shape(p)'
  BY <1>2, <1>3, <1>4 DEF HoldsLocks, Editing, Shape
<1>6. Knowledge!Absorbs(Knowledge!OrEmpty(f), Knowledge!OrEmpty(f), <<>>)
  BY <1>4, AbsorbNone
<1>7. f # NULL => Knowledge!Reads(f, f)
  BY <1>2, AbsorbNone
<1>8. Draft(p)'
  BY <1>2, <1>3, <1>4, <1>6, <1>7 DEF Draft
<1> QED BY <1>5, <1>8

LEMMA ReadSourceOwn ==
  ASSUME Inv, NEW p \in Procs, ReadSource(p), ~Fails(p)
  PROVE  HoldsLocks(p)' /\ Shape(p)' /\ Draft(p)'
<1> DEFINE f == Knowledge!OrEmpty(files[Store(p)])
           src == files[NextSource(p)]
<1>1. /\ pc[p] = "reading" /\ Kind(p) = "merge" /\ SourcesLeft(p) /\ mem[p] \in Content
      /\ exclusive[Store(p)] = p /\ exit[p] = NULL
      /\ Knowledge!Absorbs(f, mem[p], seen[p])
  BY DEF ReadSource, Inv, Shape, Draft, HoldsLocks, Editing, Editors
<1>2. NextSource(p) \in Paths /\ seen[p] \in Seq(Content) /\ f \in Content
  BY <1>1, NextSourceType, CommandFacts, OrEmptyContent DEF Inv, TypeOK
<1>3. src \in Content
  BY <1>2 DEF ReadSource, Inv, TypeOK
<1>4. /\ pc'[p] = "editing" /\ mem'[p] = Take(mem[p], src) /\ seen'[p] = Append(seen[p], src)
      /\ UNCHANGED <<files, exclusive, command, exit>>
  BY DEF ReadSource, Goto, Inv, TypeOK
<1>5. Knowledge!Absorbs(f, Take(mem[p], src), Append(seen[p], src)) /\ Take(mem[p], src) \in Content
  BY <1>1, <1>2, <1>3, AbsorbOne, TakeContent
<1>6. Len(Append(seen[p], src)) <= Len(command[p].srcs)
  BY <1>1, <1>2, <1>3, CommandFacts DEF SourcesLeft, Inv
<1>7. HoldsLocks(p)' /\ Shape(p)'
  BY <1>1, <1>4, <1>5, <1>6 DEF HoldsLocks, Editing, Shape, Editors
<1>8. Draft(p)'
  BY <1>1, <1>4, <1>5 DEF Draft
<1> QED BY <1>7, <1>8

LEMMA ExtractOwn ==
  ASSUME Inv, NEW p \in Procs, Extract(p), ~Fails(p)
  PROVE  HoldsLocks(p)' /\ Shape(p)' /\ Draft(p)'
<1> DEFINE f == files[Store(p)]
<1>1. /\ pc[p] = "editing" /\ Kind(p) = "entities" /\ mem[p] \in Content /\ Kind(p) \in Editors
      /\ exclusive[Store(p)] = p /\ exit[p] = NULL /\ f # NULL /\ Knowledge!Reads(f, mem[p])
  BY DEF Extract, Inv, Shape, Draft, HoldsLocks, Editing, Editors
<1>2. ASSUME NEW t \in Texts, Knowledge!Holds(mem[p], t),
             mem' = [mem EXCEPT ![p] = Knowledge!WithRead(@, t)],
             UNCHANGED <<files, exclusive, shared, command, pc, exit, seen>>
      PROVE  HoldsLocks(p)' /\ Shape(p)' /\ Draft(p)'
  <2>1. mem'[p] = Knowledge!WithRead(mem[p], t)
    BY <1>2 DEF Inv, TypeOK
  <2>2. Knowledge!WithRead(mem[p], t) \in Content /\ Knowledge!Reads(f, Knowledge!WithRead(mem[p], t))
    BY <1>1, <1>2 DEF Content, Knowledge!Holds, Knowledge!WithRead, Knowledge!Reads
  <2>3. HoldsLocks(p)' /\ Shape(p)'
    BY <1>1, <1>2, <2>1, <2>2 DEF HoldsLocks, Editing, Shape
  <2>4. Draft(p)'
    BY <1>1, <1>2, <2>1, <2>2 DEF Draft
  <2> QED BY <2>3, <2>4
<1>3. CASE /\ files' = [files EXCEPT ![Store(p)] = mem[p]]
           /\ UNCHANGED <<exclusive, shared, command, pc, mem, exit, seen>>
  <2>1. files'[Store(p)] = mem[p] /\ mem[p] # NULL
    BY <1>1, <1>3, CommandFacts, NullAssumption DEF Inv, TypeOK
  <2>2. HoldsLocks(p)' /\ Shape(p)'
    BY <1>1, <1>3 DEF HoldsLocks, Editing, Shape
  <2>3. Draft(p)'
    BY <1>1, <1>3, <2>1, AbsorbNone DEF Draft
  <2> QED BY <2>2, <2>3
<1>4. CASE Edits(p, mem[p])
  <2>1. Knowledge!Effect(p, f, mem[p])
    BY <1>1 DEF Knowledge!Effect
  <2> QED BY <1>1, <1>4, <2>1, EditsOwn
<1> QED BY <1>2, <1>3, <1>4 DEF Extract

LEMMA StepOwn ==
  ASSUME AllLock, Inv, NEW p \in Procs, Step(p) \/ Kill(p)
  PROVE  HoldsLocks(p)' /\ Shape(p)' /\ Draft(p)'
<1> DEFINE f == files[Store(p)]
<1>0. /\ TypeOK /\ HoldsLocks(p) /\ Shape(p) /\ Draft(p) /\ Store(p) \in Paths
      /\ command[p].doc \in Docs /\ command[p].text \in Texts /\ seen[p] \in Seq(Content)
      /\ Kind(p) # "ingest"
  BY CommandFacts DEF Inv, AllLock
<1>1. CASE Fails(p)
  BY <1>1, EndOwn DEF Fails
<1>2. CASE Reply(p) \/ Kill(p) \/ Search(p)
  BY <1>2, EndOwn DEF Reply, Kill, Search
<1>3. CASE LockStore(p)
  <2>1. /\ pc[p] = "start" /\ pc'[p] = "opening" /\ exclusive'[Store(p)] = p /\ Kind(p) \in Editors
        /\ UNCHANGED <<files, shared, command, mem, exit, seen>>
    BY <1>0, <1>3 DEF LockStore, Goto, TypeOK
  <2> QED BY <1>0, <2>1 DEF HoldsLocks, Shape, Draft
<1>4. CASE OpenStore(p) /\ ~Fails(p)
  BY <1>4, OpenOwn
<1>5. CASE AddDocument(p) /\ ~Fails(p)
  <2>1. pc[p] = "editing" /\ Kind(p) = "add" /\ mem[p] = Knowledge!OrEmpty(f) /\ mem[p] \in Content
    BY <1>0, <1>5 DEF AddDocument, Draft, Shape
  <2>2. Knowledge!Effect(p, f, Knowledge!Put(mem[p], command[p].doc, command[p].text))
    BY <2>1 DEF Knowledge!Effect
  <2> QED BY <1>0, <1>5, <2>1, <2>2, PutContent, EditsOwn DEF AddDocument
<1>6. CASE ForgetDocument(p) /\ ~Fails(p)
  <2>1. pc[p] = "editing" /\ Kind(p) = "forget" /\ mem[p] = f /\ f # NULL /\ mem[p] \in Content
    BY <1>0, <1>6 DEF ForgetDocument, Draft, Shape
  <2>2. Knowledge!Effect(p, f, Knowledge!Drop(mem[p], command[p].doc))
    BY <2>1 DEF Knowledge!Effect
  <2> QED BY <1>0, <1>6, <2>1, <2>2, DropContent, EditsOwn DEF ForgetDocument
<1>7. CASE Extract(p) /\ ~Fails(p)
  BY <1>7, ExtractOwn
<1>8. CASE LockSource(p)
  <2>1. NextSource(p) \in Paths
    BY <1>8, <1>0, NextSourceType DEF LockSource
  <2>2. /\ pc[p] = "editing" /\ pc'[p] = "reading" /\ Kind(p) = "merge" /\ SourcesLeft(p)
        /\ p \in shared'[NextSource(p)]
        /\ UNCHANGED <<files, exclusive, command, mem, exit, seen>>
    BY <1>0, <1>8, <2>1 DEF LockSource, Goto, TypeOK
  <2>3. Kind(p)' = Kind(p) /\ NextSource(p)' = NextSource(p) /\ SourcesLeft(p)'
    BY <2>2 DEF NextSource, SourcesLeft
  <2>4. HoldsLocks(p)' /\ Shape(p)'
    BY <1>0, <2>2, <2>3 DEF HoldsLocks, LoadsFrom, Editing, Shape
  <2>5. Draft(p)'
    BY <1>0, <2>2 DEF Draft
  <2> QED BY <2>4, <2>5
<1>9. CASE ReadSource(p) /\ ~Fails(p)
  BY <1>9, ReadSourceOwn
<1>10. CASE MergeDone(p)
  <2>1. /\ pc[p] = "editing" /\ Kind(p) = "merge" /\ Len(seen[p]) = Len(command[p].srcs)
        /\ mem[p] \in Content /\ Knowledge!Absorbs(Knowledge!OrEmpty(f), mem[p], seen[p])
    BY <1>0, <1>10, CommandFacts DEF MergeDone, SourcesLeft, Shape, Draft
  <2>2. Knowledge!Effect(p, f, mem[p])
    BY <2>1 DEF Knowledge!Effect
  <2> QED BY <1>10, <2>1, <2>2, EditsOwn DEF MergeDone
<1>11. CASE SaveStore(p) /\ ~Fails(p)
  <2>1. /\ pc[p] = "saving" /\ pc'[p] = "replying"
        /\ UNCHANGED <<exclusive, shared, command, mem, exit, seen>>
    BY <1>0, <1>11 DEF SaveStore, Goto, TypeOK
  <2> QED BY <1>0, <2>1 DEF HoldsLocks, Editing, Shape, Draft
<1>12. CASE LockForReading(p)
  <2>1. /\ pc[p] = "start" /\ pc'[p] = "reading" /\ Kind(p) = "search" /\ p \in shared'[Store(p)]
        /\ UNCHANGED <<files, exclusive, command, mem, exit, seen>>
    BY <1>0, <1>12 DEF LockForReading, Goto, TypeOK
  <2> QED BY <1>0, <2>1 DEF HoldsLocks, LoadsFrom, Editing, Editors, Shape, Draft
<1>13. CASE LoadToSearch(p) /\ ~Fails(p)
  <2>1. /\ pc[p] = "reading" /\ pc'[p] = "searching" /\ Kind(p) = "search"
        /\ seen'[p] = Append(seen[p], f)
        /\ UNCHANGED <<files, exclusive, command, exit>>
    BY <1>0, <1>13 DEF LoadToSearch, Goto, TypeOK
  <2>2. f \in Content
    BY <1>0, <1>13 DEF LoadToSearch, TypeOK
  <2>3. Append(seen[p], f) # <<>>
    BY <1>0, <2>2
  <2> QED BY <1>0, <2>1, <2>3 DEF HoldsLocks, Editing, Editors, Shape, Draft
<1> QED
  BY <1>1, <1>2, <1>3, <1>4, <1>5, <1>6, <1>7, <1>8, <1>9, <1>10, <1>11, <1>12, <1>13 DEF Step

LEMMA NextInv ==
  ASSUME AllLock, Inv, [Next]_vars
  PROVE  Inv'
<1>1. CASE UNCHANGED vars
  BY <1>1 DEF vars, Inv, TypeOK, LockRule, HoldsLocks, Editing, LoadsFrom, NextSource, Shape, SourcesLeft,
     Draft, Knowledge!Effect
<1>2. ASSUME NEW p \in Procs, Step(p) \/ Kill(p)
      PROVE  Inv'
  <2>1. TypeOK /\ HasCopy
    BY DEF Inv, Shape, HasCopy
  <2>2. TypeOK'
    BY <1>2, <2>1, StepType
  <2>3. LockRule'
    BY <1>2, LockFrame
  <2>4. ASSUME NEW q \in Procs PROVE HoldsLocks(q)' /\ Shape(q)' /\ Draft(q)'
    <3>1. CASE q = p
      BY <1>2, <3>1, StepOwn
    <3>2. CASE q # p
      BY <1>2, <3>2, OthersInv
    <3> QED BY <3>1, <3>2
  <2> QED BY <2>2, <2>3, <2>4 DEF Inv
<1> QED BY <1>1, <1>2 DEF Next

LEMMA SpecInv == AllLock /\ Spec => []Inv
<1>1. Init => Inv
  BY InitInv
<1>2. AllLock /\ Inv /\ [Next]_vars => Inv'
  BY NextInv
<1>3. CASE AllLock
  BY <1>1, <1>2, <1>3, PTL DEF Spec
<1> QED BY <1>3

-----------------------------------------------------------------------------

\* Files, copies and histories are contents of stores, whatever the processes do.
THEOREM TypeCorrect == AllLock /\ Spec => []TypeOK
<1>1. Inv => TypeOK
  BY DEF Inv
<1> QED BY <1>1, SpecInv, PTL

\* No store is loaded or saved by one process while another edits it
\* (LockStore of rag/lock.go, editStore of cmd/turbograph/agent.go).
THEOREM Exclusion == AllLock /\ Spec => []EditorsExclude
<1>1. ASSUME Inv PROVE EditorsExclude
  <2>1. SUFFICES ASSUME NEW p \in Procs, NEW q \in Procs, p # q, Editing(p)
                 PROVE  /\ Editing(q) => Store(p) # Store(q)
                        /\ pc[q] = "reading" => Store(p) # LoadsFrom(q)
    BY DEF EditorsExclude, LoadsFrom
  <2>2. exclusive[Store(p)] = p /\ p # NULL /\ Store(p) \in Paths
    BY <2>1, <1>1, CommandFacts, NullAssumption DEF Inv, HoldsLocks
  <2>3. shared[Store(p)] = {}
    BY <2>2, <1>1 DEF Inv, LockRule
  <2> QED BY <2>1, <2>2, <2>3, <1>1 DEF Inv, HoldsLocks
<1>2. Inv => EditorsExclude
  BY <1>1
<1> QED BY <1>2, SpecInv, PTL

-----------------------------------------------------------------------------
(* The refinement: each step is a step of SharedStore or changes nothing    *)
(* that can be seen from outside.                                           *)

LEMMA OutcomeStep ==
  ASSUME TypeOK, NEW p \in Procs, Step(p) \/ Kill(p)
  PROVE  Outcome' = [Outcome EXCEPT ![p] = OutcomeOf(p)']
<1>1. \A q \in Procs \ {p} : OutcomeOf(q)' = OutcomeOf(q)
  BY LocalFrame DEF OutcomeOf
<1> QED BY <1>1 DEF Outcome

LEMMA InitRefines == ASSUME Init PROVE Knowledge!Init
<1>1. \A p \in Procs : OutcomeOf(p) = "pending"
  BY DEF Init, OutcomeOf
<1> QED BY <1>1 DEF Init, Knowledge!Init, Outcome

LEMMA EndRefines ==
  ASSUME Inv, NEW p \in Procs, Step(p) \/ Kill(p), NEW how \in {"ok", "error", "killed"}, End(p, how),
         UNCHANGED <<files, command, seen>>
  PROVE  Outcome' = [Outcome EXCEPT ![p] = how]
<1>1. exit'[p] = how /\ how # NULL
  BY NullAssumption DEF End, Inv, TypeOK
<1> QED BY <1>1, OutcomeStep DEF OutcomeOf, Inv

LEMMA StepRefines ==
  ASSUME AllLock, Inv, NEW p \in Procs, Step(p) \/ Kill(p)
  PROVE  Knowledge!Next \/ UNCHANGED Knowledge!sharedVars
<1> DEFINE s == Store(p)
<1>0. /\ TypeOK /\ HoldsLocks(p) /\ Shape(p) /\ Draft(p) /\ s \in Paths
      /\ pc[p] # "gone" => exit[p] = NULL
  BY CommandFacts DEF Inv, Shape
<1>1. Outcome[p] = OutcomeOf(p) /\ Outcome \in [Procs -> {OutcomeOf(q) : q \in Procs}]
  BY DEF Outcome
<1>2. pc[p] \notin {"gone", "replying"} => Outcome[p] = "pending"
  BY <1>0, <1>1 DEF OutcomeOf
\* A step that ends nothing and replies to nothing.
<1>3. ASSUME pc'[p] \notin {"gone", "replying"}, exit' = exit, pc[p] \notin {"gone", "replying"}
      PROVE  Outcome' = Outcome
  <2>1. OutcomeOf(p)' = OutcomeOf(p)
    BY <1>3, <1>0 DEF OutcomeOf
  <2> QED BY <1>1, <2>1, <1>0, OutcomeStep
<1>4. CASE Fails(p) /\ pc[p] \notin {"gone", "replying"}
  <2>1. Outcome' = [Outcome EXCEPT ![p] = "error"]
    BY <1>4, EndRefines DEF Fails
  <2>2. Knowledge!Fail(p)
    BY <1>2, <1>4, <2>1 DEF Fails, Knowledge!Fail
  <2> QED BY <2>2 DEF Knowledge!Next
<1>5. CASE Kill(p)
  <2>1. Outcome' = [Outcome EXCEPT ![p] = "killed"]
    BY <1>5, EndRefines DEF Kill
  <2>2. Outcome[p] \in {"pending", "applied"}
    BY <1>0, <1>1, <1>5 DEF Kill, OutcomeOf
  <2>3. Knowledge!Die(p)
    BY <2>1, <2>2, <1>5 DEF Kill, Knowledge!Die
  <2> QED BY <2>3 DEF Knowledge!Next
<1>6. CASE Reply(p)
  <2>1. Outcome' = [Outcome EXCEPT ![p] = "ok"]
    BY <1>6, EndRefines DEF Reply
  <2>2. Outcome[p] = "applied"
    BY <1>0, <1>1, <1>6 DEF Reply, OutcomeOf
  <2>3. Knowledge!Reply(p)
    BY <2>1, <2>2, <1>6 DEF Reply, Knowledge!Reply
  <2> QED BY <2>3 DEF Knowledge!Next
<1>7. CASE Search(p)
  <2>1. pc[p] = "searching" /\ Kind(p) = "search" /\ seen[p] # <<>> /\ Outcome[p] = "pending"
    BY <1>0, <1>2, <1>7 DEF Search, Shape
  <2>2. CASE End(p, "ok")
    <3>1. Outcome' = [Outcome EXCEPT ![p] = "ok"]
      BY <1>7, <2>2, EndRefines DEF Search
    <3>2. Knowledge!Reply(p)
      BY <2>1, <3>1, <1>7 DEF Search, Knowledge!Reply
    <3> QED BY <3>2 DEF Knowledge!Next
  <2>3. CASE End(p, "error")
    BY <1>4, <1>7, <2>1, <2>3 DEF Search, Fails
  <2> QED BY <1>7, <2>2, <2>3 DEF Search
<1>8. CASE SaveStore(p) /\ ~Fails(p)
  <2>1. /\ pc[p] = "saving" /\ mem[p] \in Content /\ Knowledge!Effect(p, files[s], mem[p])
        /\ exit[p] = NULL /\ mem[p] # NULL
    BY <1>0, <1>8, NullAssumption DEF SaveStore, Shape, Draft
  <2>2. /\ files' = [files EXCEPT ![s] = mem[p]] /\ pc'[p] = "replying"
        /\ UNCHANGED <<command, seen, exit>>
    BY <1>0, <1>8 DEF SaveStore, Goto, TypeOK
  <2>3. files'[s] = mem[p]
    BY <1>0, <2>2 DEF TypeOK
  <2>4. OutcomeOf(p)' = "applied" /\ Outcome[p] = "pending"
    BY <1>2, <2>1, <2>2 DEF OutcomeOf
  <2>5. Outcome' = [Outcome EXCEPT ![p] = "applied"]
    BY <1>0, <2>4, OutcomeStep
  <2>6. Knowledge!Commit(p)
    BY <2>1, <2>2, <2>3, <2>4, <2>5 DEF Knowledge!Commit
  <2> QED BY <2>6 DEF Knowledge!Next
<1>9. CASE Extract(p) /\ ~Fails(p)
  <2>1. /\ pc[p] = "editing" /\ Kind(p) = "entities" /\ mem[p] \in Content /\ mem[p] # NULL
        /\ files[s] # NULL /\ Knowledge!Reads(files[s], mem[p])
    BY <1>0, <1>9, NullAssumption DEF Extract, Shape, Draft
  <2>2. CASE /\ files' = [files EXCEPT ![s] = mem[p]]
             /\ UNCHANGED <<exclusive, shared, command, pc, mem, exit, seen>>
    <3>1. Outcome' = Outcome /\ files'[s] = mem[p] /\ Outcome[p] = "pending"
      BY <1>0, <1>2, <1>3, <2>1, <2>2 DEF TypeOK
    <3>2. Knowledge!Checkpoint(p)
      BY <2>1, <2>2, <3>1 DEF Knowledge!Checkpoint
    <3> QED BY <3>2 DEF Knowledge!Next
  <2>3. CASE ~(/\ files' = [files EXCEPT ![s] = mem[p]]
               /\ UNCHANGED <<exclusive, shared, command, pc, mem, exit, seen>>)
    <3>1. pc'[p] \in {"editing", "saving"} /\ UNCHANGED <<files, command, seen, exit>>
      BY <1>0, <1>9, <2>1, <2>3 DEF Extract, Edits, Goto, TypeOK
    <3> QED BY <1>3, <2>1, <3>1 DEF Knowledge!sharedVars
  <2> QED BY <2>2, <2>3
<1>10. CASE ReadSource(p) /\ ~Fails(p)
  <2>1. /\ pc[p] = "reading" /\ pc'[p] = "editing" /\ files[NextSource(p)] # NULL
        /\ seen' = [seen EXCEPT ![p] = Append(@, files[NextSource(p)])]
        /\ UNCHANGED <<files, command, exit>>
    BY <1>0, <1>10 DEF ReadSource, Goto, TypeOK
  <2>2. NextSource(p) \in Paths
    BY <1>0, <1>10, NextSourceType DEF ReadSource, Shape
  <2>3. Knowledge!Look(p, NextSource(p))
    BY <1>2, <1>3, <2>1 DEF Knowledge!Look
  <2> QED BY <2>2, <2>3 DEF Knowledge!Next
<1>11. CASE LoadToSearch(p) /\ ~Fails(p)
  <2>1. /\ pc[p] = "reading" /\ pc'[p] = "searching" /\ files[s] # NULL
        /\ seen' = [seen EXCEPT ![p] = Append(@, files[s])]
        /\ UNCHANGED <<files, command, exit>>
    BY <1>0, <1>11 DEF LoadToSearch, Goto, TypeOK
  <2>2. Knowledge!Look(p, s)
    BY <1>2, <1>3, <2>1 DEF Knowledge!Look
  <2> QED BY <1>0, <2>2 DEF Knowledge!Next
<1>12. CASE LockStore(p) \/ LockSource(p) \/ LockForReading(p) \/ MergeDone(p)
  <2>1. /\ pc[p] \in {"start", "editing"} /\ pc'[p] \in {"opening", "reading", "saving"}
        /\ UNCHANGED <<files, command, seen, exit>>
    BY <1>0, <1>12 DEF LockStore, LockSource, LockForReading, MergeDone, Edits, Goto, TypeOK
  <2> QED BY <1>3, <2>1 DEF Knowledge!sharedVars
<1>13. CASE (OpenStore(p) \/ AddDocument(p) \/ ForgetDocument(p)) /\ ~Fails(p)
  <2>1. /\ pc[p] \in {"start", "opening", "editing"} /\ pc'[p] \in {"editing", "saving"}
        /\ UNCHANGED <<files, command, seen, exit>>
    BY <1>0, <1>13 DEF OpenStore, IngestOpens, AddDocument, ForgetDocument, Edits, Goto, TypeOK
  <2> QED BY <1>3, <2>1 DEF Knowledge!sharedVars
<1>14. ASSUME Fails(p), ~Kill(p), ~Reply(p)
       PROVE  pc[p] \notin {"gone", "replying"}
  BY <1>14 DEF Step, LockStore, OpenStore, IngestOpens, AddDocument, ForgetDocument, Extract, LockSource,
     ReadSource, MergeDone, SaveStore, LockForReading, LoadToSearch, Search
<1> QED
  BY <1>4, <1>5, <1>6, <1>7, <1>8, <1>9, <1>10, <1>11, <1>12, <1>13, <1>14 DEF Step

\* Processes that lock, load, save by rename and unlock implement commands that
\* take effect in one step: nobody's document is overwritten by a save of a copy
\* loaded before it was added (rag/lock.go:12-16), for any number of processes.
THEOREM NoLostUpdate == AllLock /\ Spec => NothingIsLost
<1>1. Init => Knowledge!Init
  BY InitRefines
<1>2. AllLock /\ Inv /\ [Next]_vars => [Knowledge!Next]_(Knowledge!sharedVars)
  <2>1. SUFFICES ASSUME AllLock, Inv, [Next]_vars
                 PROVE  Knowledge!Next \/ UNCHANGED Knowledge!sharedVars
    OBVIOUS
  <2>2. CASE UNCHANGED vars
    BY <2>2 DEF vars, Knowledge!sharedVars, Outcome, OutcomeOf
  <2>3. CASE Next
    BY <2>1, <2>3, StepRefines DEF Next
  <2> QED BY <2>1, <2>2, <2>3
<1>3. CASE AllLock
  BY <1>1, <1>2, <1>3, SpecInv, PTL DEF Spec, NothingIsLost, Knowledge!Spec
<1> QED BY <1>3
=============================================================================
