---------------------------- MODULE SharedStore ----------------------------
(***************************************************************************)
(* What agents sharing store files may rely on (rag/lock.go, the comment   *)
(* on Lock; cmd/turbograph/agent.go): a command takes effect in one step,  *)
(* on the store as it is then, whatever other commands do; one that fails  *)
(* has no effect, and one that reports success had its effect.             *)
(*                                                                         *)
(* A store holds a text per document id and the set of texts whose model   *)
(* extraction is cached.                                                   *)
(***************************************************************************)
EXTENDS Naturals, Sequences

CONSTANTS
  Paths, Docs, Texts, Procs,
  Initial,   \* what the store files may hold before any of the processes runs
  Commands,  \* the command lines they may be started with
  NULL

VARIABLES
  files,    \* files[s]: the content of the store at path s, or NULL
  command,  \* command[p]: what process p was started to do
  seen,     \* seen[p]: the stores p has read so far
  outcome   \* what became of p

sharedVars == <<files, command, seen, outcome>>

-----------------------------------------------------------------------------
(* What a command does to a store.                                          *)

Empty == [docs |-> [d \in Docs |-> NULL], read |-> {}]

OrEmpty(f) == IF f = NULL THEN Empty ELSE f

Holds(f, t) == \E d \in Docs : f.docs[d] = t

\* The content with documents ds: extractions of texts no document has go.
Holding(f, ds) == [docs |-> ds, read |-> {t \in f.read : \E d \in Docs : ds[d] = t}]

\* AddDocuments of one document: a text that is already there is left alone.
Put(f, d, t) == IF Holds(f, t) THEN f ELSE Holding(f, [f.docs EXCEPT ![d] = t])

Drop(f, d) == Holding(f, [f.docs EXCEPT ![d] = NULL])

\* An extraction of text t is cached.
WithRead(f, t) == [docs |-> f.docs, read |-> f.read \cup {t}]

\* g is f with documents of the stores in `sources` added, none of them under an
\* id or with a text that was there.
Absorbs(f, g, sources) ==
  /\ \A d \in Docs : f.docs[d] # NULL => g.docs[d] = f.docs[d]
  /\ \A d \in Docs : g.docs[d] # f.docs[d] =>
       /\ \E i \in DOMAIN sources : sources[i].docs[d] = g.docs[d]
       /\ ~Holds(f, g.docs[d])
  /\ f.read \subseteq g.read

Reads(f, g) == g.docs = f.docs /\ f.read \subseteq g.read

-----------------------------------------------------------------------------

Init ==
  /\ files \in Initial
  /\ command \in [Procs -> Commands]
  /\ seen = [p \in Procs |-> <<>>]
  /\ outcome = [p \in Procs |-> "pending"]

\* p reads a store.
Look(p, s) ==
  /\ outcome[p] = "pending" /\ files[s] # NULL
  /\ seen' = [seen EXCEPT ![p] = Append(@, files[s])]
  /\ UNCHANGED <<files, command, outcome>>

\* The store g that p's command makes of f.
Effect(p, f, g) ==
  \/ command[p].kind \in {"add", "ingest"} /\ g = Put(OrEmpty(f), command[p].doc, command[p].text)
  \/ command[p].kind = "forget" /\ f # NULL /\ g = Drop(f, command[p].doc)
  \/ command[p].kind = "merge" /\ Len(seen[p]) = Len(command[p].srcs) /\ Absorbs(OrEmpty(f), g, seen[p])
  \/ command[p].kind = "entities" /\ f # NULL /\ Reads(f, g)

Commit(p) ==
  LET s == command[p].store
  IN  /\ outcome[p] = "pending" /\ files'[s] # NULL
      /\ Effect(p, files[s], files'[s])
      /\ files' = [files EXCEPT ![s] = files'[s]]
      /\ outcome' = [outcome EXCEPT ![p] = "applied"]
      /\ UNCHANGED <<command, seen>>

\* A long extraction saves what it has read so far.
Checkpoint(p) ==
  LET s == command[p].store
  IN  /\ outcome[p] = "pending" /\ command[p].kind = "entities"
      /\ files[s] # NULL /\ files'[s] # NULL
      /\ Reads(files[s], files'[s])
      /\ files' = [files EXCEPT ![s] = files'[s]]
      /\ UNCHANGED <<command, seen, outcome>>

Reply(p) ==
  /\ outcome[p] = "applied" \/ (outcome[p] = "pending" /\ command[p].kind = "search" /\ seen[p] # <<>>)
  /\ outcome' = [outcome EXCEPT ![p] = "ok"]
  /\ UNCHANGED <<files, command, seen>>

Fail(p) ==
  /\ outcome[p] = "pending"
  /\ outcome' = [outcome EXCEPT ![p] = "error"]
  /\ UNCHANGED <<files, command, seen>>

\* p is killed; its effect, if it had one, stays.
Die(p) ==
  /\ outcome[p] \in {"pending", "applied"}
  /\ outcome' = [outcome EXCEPT ![p] = "killed"]
  /\ UNCHANGED <<files, command, seen>>

Next ==
  \E p \in Procs :
    \/ \E s \in Paths : Look(p, s)
    \/ Commit(p) \/ Checkpoint(p) \/ Reply(p) \/ Fail(p) \/ Die(p)

Spec == Init /\ [][Next]_sharedVars
=============================================================================
