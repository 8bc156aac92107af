------------------------------- MODULE Corpus -------------------------------
(***************************************************************************)
(* What the registry of a store promises its callers: a set of documents,  *)
(* each with one current content, in which no content is held under two    *)
(* ids (rag/store.go AddDocuments: identical content is a no-op), that     *)
(* comes back after a restart as it was at the last save.                  *)
(*                                                                         *)
(* One step per call, whatever the store does in between: Put is a         *)
(* document added or updated, Absorb the documents a merge takes over,     *)
(* Replace a rebuild.                                                      *)
(***************************************************************************)
CONSTANTS Docs, Contents, NULL

VARIABLES
  docs,   \* docs[d]: the content indexed under id d, or NULL
  saved   \* docs as the last saved store has them

Nothing == [d \in Docs |-> NULL]

Init == docs = Nothing /\ saved = Nothing

Held(c) == \E d \in Docs : docs[d] = c

Put(d, c) ==
  /\ ~Held(c)
  /\ docs' = [docs EXCEPT ![d] = c]
  /\ UNCHANGED saved

Remove(d) ==
  /\ docs' = [docs EXCEPT ![d] = NULL]
  /\ UNCHANGED saved

Absorb(src) ==
  /\ \A d \in Docs : src[d] # NULL =>
       docs[d] = NULL /\ ~Held(src[d]) /\ \A e \in Docs \ {d} : src[e] # src[d]
  /\ docs' = [d \in Docs |-> IF src[d] # NULL THEN src[d] ELSE docs[d]]
  /\ UNCHANGED saved

\* The whole corpus is built anew.
Replace(new) ==
  /\ \A d, e \in Docs : d # e /\ new[d] # NULL => new[d] # new[e]
  /\ docs' = new
  /\ UNCHANGED saved

Save == saved' = docs /\ UNCHANGED docs

Reopen == docs' = saved /\ UNCHANGED saved

Next ==
  \/ \E d \in Docs, c \in Contents : Put(d, c)
  \/ \E d \in Docs : Remove(d)
  \/ \E src \in [Docs -> Contents \cup {NULL}] : Absorb(src) \/ Replace(src)
  \/ Save
  \/ Reopen

Spec == Init /\ [][Next]_<<docs, saved>>
=============================================================================
