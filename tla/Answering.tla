----------------------------- MODULE Answering -----------------------------
(***************************************************************************)
(* How a server answers a question from a bucket: the chat, the query and  *)
(* the OpenAI-shaped requests (server/web.go, server/decompose.go,         *)
(* server/openai.go, server/verify.go), beside the requests of module      *)
(* Settings that index documents and edit the configuration.               *)
(*                                                                         *)
(* A request retrieves under the read lock of the store, once for each     *)
(* subquery, and reads the store again for each passage that it widens; a  *)
(* model call between them takes no lock.  Whatever else is sent may run   *)
(* between any two.                                                        *)
(*                                                                         *)
(* Abstractions.  A query is a name, and Score gives what a chunk's text   *)
(* scores for it: how is the subject of module Ranking.  Documents stand   *)
(* in the store in the order of DocOrder.  A model answers anything it may *)
(* be taken to say; what it says of the claims of an answer changes        *)
(* nothing.  A reranker gives an order of its own.                         *)
(***************************************************************************)
EXTENDS Settings, Ordering

CONSTANTS
  Score,     \* Score[q][t]: what text t scores for query q
  DocOrder,  \* DocOrder[d]: where document d stands among those of a store
  Guesses,   \* the scores that vectors of two embedders may give
  Rewrites,  \* Rewrites[q]: what a model may make of a dependent query
  Splits     \* Splits[q]: the subqueries a model may split it into

Queries == DOMAIN Score

AsksQuestion(r) == r.kind \in {"chat", "openai", "query"}

ASSUME OrderAssumption ==
  /\ IsFiniteSet(Docs) /\ DocOrder \in [Docs -> Nat]
  /\ \A d, e \in Docs : DocOrder[d] = DocOrder[e] => d = e

\* The topK of a request is the one in force, after the default of its handler.
ASSUME QuestionsAssumption ==
  /\ \A q \in Queries, t \in Texts : Score[q][t] \in Nat
  /\ Guesses \subseteq Nat
  /\ \A q \in Queries : Rewrites[q] \subseteq Queries /\ Splits[q] \subseteq Seq(Queries) \ {<<>>}
  /\ \A r \in Requests : AsksQuestion(r) =>
       r.query \in Queries /\ r.topK \in Nat /\ r.window \in Nat /\ r.rerank \in BOOLEAN

-----------------------------------------------------------------------------
(* Retrieval.                                                               *)

Positions(st, d) == IF st.docs[d] = NULL THEN {} ELSE DOMAIN st.docs[d].chunks

\* The chunks of a store, by their document and their position in it.
Places(st) == UNION {{<<d, i>> : i \in Positions(st, d)} : d \in Docs}

Wording(doc) == [i \in DOMAIN doc.chunks |-> doc.chunks[i].text]

\* The chunk at x as it is retrieved, with the texts its document has at the time.
Result(st, x, score) ==
  [id |-> x, text |-> st.docs[x[1]].chunks[x[2]].text, whole |-> Wording(st.docs[x[1]]), score |-> score]

Precedes(x, y) == Earlier(<<DocOrder[x[1]], x[2]>>, <<DocOrder[y[1]], y[2]>>)

First(k, s) == SubSeq(s, 1, Min({k, Len(s)}))

\* The k best chunks that score at all: by score, then as the chunks stand.
Best(st, score, k) ==
  LET found == {x \in Places(st) : score[x] > 0}
      better == {u \in found \X found :
                   score[u[1]] > score[u[2]] \/ (score[u[1]] = score[u[2]] /\ Precedes(u[1], u[2]))}
      order == InOrder(found, better)
  IN  First(k, [n \in DOMAIN order |-> Result(st, order[n], score[order[n]])])

Scored(st, q) == [x \in Places(st) |-> Score[q][st.docs[x[1]].chunks[x[2]].text]]

Found(st, q, k) == Best(st, Scored(st, q), k)

QueryDim(st) == Dim[st.embedder.model]

\* A query vector longer than those of the index is copied past the end of a buffer.
Panics(st) == Places(st) # {} /\ QueryDim(st) > st.dim

\* The query is embedded by the embedder of the store, which after a start may be another
\* than a chunk was embedded with: of such a chunk the score is anything.
Foreign(st) == {x \in Places(st) : st.docs[x[1]].chunks[x[2]].vec.by.model # st.embedder.model}

Retrieved(st, q, k) ==
  {Best(st, [x \in Places(st) |-> IF x \in Foreign(st) THEN guess[x] ELSE Scored(st, q)[x]], k) :
     guess \in [Foreign(st) -> Guesses]}

\* What one hop found, the nth of it: every hop in turn, best first.
Turns(hops) == InTurn(DOMAIN hops, [i \in DOMAIN hops |-> DOMAIN hops[i]])

\* Best first, and then as they stand.
sortByScoreDesc(s) ==
  LET at    == DOMAIN s
      order == InOrder(at, {u \in at \X at :
                              s[u[1]].score > s[u[2]].score \/ (s[u[1]].score = s[u[2]].score /\ u[1] < u[2])})
  IN  [n \in DOMAIN order |-> s[order[n]]]

Stands(s, id) == \E n \in DOMAIN s : s[n].id = id

\* Wrong variant of Put: a chunk keeps the score of the hop that found it first.
PutFirst(s, c) == IF Stands(s, c.id) THEN s ELSE Append(s, c)

\* A chunk that is new comes last, and one that scores better than before takes its place.
Put(s, c) ==
  IF Stands(s, c.id) THEN [n \in DOMAIN s |-> IF s[n].id = c.id /\ c.score > s[n].score THEN c ELSE s[n]]
  ELSE Append(s, c)

\* One chunk of each id, with the best score it was found with, as they were first found.
Kept(found) ==
  LET put[n \in 0..Len(found)] == IF n = 0 THEN <<>> ELSE Put(put[n - 1], found[n])
  IN  put[Len(found)]

\* The chunks of all hops, each with its best score, best first and then as they were
\* first found, hop by hop.
Union(hops) ==
  LET at == Turns(hops)
  IN  sortByScoreDesc(Kept([n \in DOMAIN at |-> hops[at[n][1]][at[n][2]]]))

ShouldAbstain(res, minSim) == res = <<>> \/ (minSim > 0 /\ res[1].score < minSim)

\* Wrong variant of ExpandWindow: the position alone is looked at.
ExpandAnywhere(st, id, window) ==
  LET near == {x \in Places(st) : id[2] <= x[2] + window /\ x[2] <= id[2] + window}
      order == InOrder(near, {u \in near \X near : Precedes(u[1], u[2])})
  IN  [n \in DOMAIN order |-> Result(st, order[n], 0).text]

\* The texts of a chunk and of its neighbours in its document; none if the store has no
\* such chunk.
ExpandWindow(st, id, window) ==
  LET pieces == Ordered({i \in Positions(st, id[1]) : id[2] <= i + window /\ i <= id[2] + window})
  IN  IF id[2] \in Positions(st, id[1])
      THEN [n \in DOMAIN pieces |-> st.docs[id[1]].chunks[pieces[n]].text] ELSE <<>>

-----------------------------------------------------------------------------
(* A request that asks a question.                                          *)

Model(r) == IF r.model = "" THEN srv.genModel ELSE r.model

Asked(p, r, l) ==
  /\ srv' = [srv EXCEPT !.stores[r.bucket] = GetOrCreate(r.bucket)]
  /\ Goto(p, l)
  /\ Set(p, [req |-> r, model |-> Model(r), query |-> r.query, hops |-> <<NULL>>, subs |-> <<r.query>>,
             failed |-> FALSE])
  /\ UNCHANGED <<file, blob>>

ChatReceive(p, r) ==
  /\ Sends(p, r) /\ r.kind = "chat"
  /\ Asked(p, r, "chat: rewrite")

\* The last message of a user is the query, and those before it are the history.  Without
\* a model the request is refused.
CompletionReceive(p, r) ==
  /\ Sends(p, r) /\ r.kind = "openai"
  /\ IF Model(r) = "" THEN UNCHANGED <<serverVars, pc, task>> ELSE Asked(p, r, "chat: rewrite")

QueryReceive(p, r) ==
  /\ Sends(p, r) /\ r.kind = "query"
  /\ Asked(p, r, "chat: hops")

\* A follow-up is rewritten for retrieval only, and a failed or unfit rewrite is none.
Rewrite(p) ==
  /\ At(p, "chat: rewrite")
  /\ \E q \in {task[p].query} \cup
              (IF task[p].req.followUp /\ task[p].model # "" THEN Rewrites[task[p].query] ELSE {}) :
       Set(p, [task[p] EXCEPT !.query = q])
  /\ Goto(p, "chat: split")
  /\ UNCHANGED serverVars

Split(p) ==
  /\ At(p, "chat: split")
  /\ \E subs \in {<<task[p].query>>} \cup
                 (IF task[p].req.decompose /\ task[p].model # "" THEN Splits[task[p].query] ELSE {}) :
       Set(p, [task[p] EXCEPT !.subs = subs, !.hops = [i \in DOMAIN subs |-> NULL]])
  /\ Goto(p, "chat: hops")
  /\ UNCHANGED serverVars

\* recoverPanic: a panic in the goroutine of a handler ends its request.
Recovered(p) == End(p) /\ UNCHANGED srv

Crash == srv' = NULL /\ pc' = [q \in Clients |-> "idle"] /\ task' = [q \in Clients |-> NULL]

\* Reranking asks for more than it keeps.
Candidates(r) == IF r.rerank THEN Max({4 * r.topK, 20}) ELSE r.topK

\* One retrieval, in any order with those of the other hops; its error ends the request
\* once all are back.  The hops of a question that is split have goroutines of their own,
\* which no handler recovers.
Hop(p, i) ==
  /\ At(p, "chat: hops") /\ i \in DOMAIN task[p].hops /\ task[p].hops[i] = NULL
  /\ LET st == Store(p)
     IN  \/ /\ Set(p, [task[p] EXCEPT !.hops[i] = <<>>, !.failed = TRUE])
            /\ UNCHANGED <<srv, pc>>
         \/ /\ Places(st) # {} /\ ~Panics(st)
            /\ \E res \in Retrieved(st, task[p].subs[i], Candidates(task[p].req)) :
                 Set(p, [task[p] EXCEPT !.hops[i] = res])
            /\ UNCHANGED <<srv, pc>>
         \/ Panics(st) /\ Len(task[p].subs) = 1 /\ Recovered(p)
         \/ Panics(st) /\ Len(task[p].subs) > 1 /\ Crash
  /\ UNCHANGED <<file, blob>>

\* The hops are merged; without one that found enough the answer is that there is none.
\* A query is answered with its results.
Merge(p) ==
  /\ At(p, "chat: hops") /\ \A i \in DOMAIN task[p].hops : task[p].hops[i] # NULL
  /\ LET res == Union(task[p].hops)
     IN  IF task[p].failed \/ task[p].req.kind = "query" \/ ShouldAbstain(res, task[p].req.minSim)
         THEN End(p)
         ELSE Set(p, [req |-> task[p].req, model |-> task[p].model, subs |-> task[p].subs, res |-> res])
              /\ Goto(p, "chat: rank")
  /\ UNCHANGED serverVars

\* The orders a reranker may put passages in.
Reranked(res) == {o \in [DOMAIN res -> DOMAIN res] : IsInjective(o)}

\* The sources are sent, the reranker's choice or the best; then, without a model, the
\* request ends.
Rank(p) ==
  /\ At(p, "chat: rank")
  /\ LET r   == task[p].req
         res == task[p].res
         orders == IF r.rerank /\ task[p].model # "" /\ Len(res) > 1
                   THEN Reranked(res) ELSE {[n \in DOMAIN res |-> n]}
     IN  \E o \in orders :
           IF task[p].model = "" THEN End(p)
           ELSE /\ Set(p, [req |-> r, model |-> task[p].model, passages |-> <<>>,
                           res |-> First(r.topK, [n \in DOMAIN o |-> res[o[n]]])])
                /\ Goto(p, "chat: expand")
  /\ UNCHANGED serverVars

\* One passage of the prompt: the source, widened if a window was asked for and the
\* store still has a chunk of that id.
Expand(p) ==
  /\ At(p, "chat: expand") /\ Len(task[p].passages) < Len(task[p].res)
  /\ LET source == task[p].res[Len(task[p].passages) + 1]
         wide   == IF task[p].req.window > 0 THEN ExpandWindow(Store(p), source.id, task[p].req.window) ELSE <<>>
     IN  Set(p, [task[p] EXCEPT !.passages = Append(@, IF wide = <<>> THEN <<source.text>> ELSE wide)])
  /\ UNCHANGED <<serverVars, pc>>

Prompted(p) == At(p, "chat: expand") /\ Len(task[p].passages) = Len(task[p].res)

\* The model answers or fails, and may be asked to verify what it said.
Answer(p) ==
  /\ Prompted(p) /\ task[p].req.kind = "chat"
  /\ \/ task[p].req.verify /\ Goto(p, "chat: verify") /\ UNCHANGED task
     \/ End(p)
  /\ UNCHANGED serverVars

Complete(p) ==
  /\ Prompted(p) /\ task[p].req.kind = "openai"
  /\ End(p)
  /\ UNCHANGED serverVars

Verify(p) ==
  /\ At(p, "chat: verify")
  /\ End(p)
  /\ UNCHANGED serverVars

Chat(p) ==
  \/ \E r \in Requests : ChatReceive(p, r)
  \/ \E r \in Requests : CompletionReceive(p, r)
  \/ \E r \in Requests : QueryReceive(p, r)
  \/ Rewrite(p)
  \/ Split(p)
  \/ \E i \in 1..5 : Hop(p, i)
  \/ Merge(p)
  \/ Rank(p)
  \/ Expand(p)
  \/ Answer(p)
  \/ Complete(p)
  \/ Verify(p)

\* All requests are sent and done, or the start that would follow is left out.
Finished ==
  /\ \/ srv # NULL /\ sent = use.total /\ \A p \in Clients : pc[p] = "idle"
     \/ srv = NULL /\ Ragged
  /\ UNCHANGED vars

Next == SettingsNext \/ (\E p \in Clients : Chat(p)) \/ Finished

Spec == Init /\ [][Next]_vars

-----------------------------------------------------------------------------
(* Properties.                                                              *)

\* What is put before a model under the number of a source is consecutive text of its
\* document in order, with the text that the source was shown with in its place and no
\* more on either side than was asked for: unless its document was replaced after it was
\* found.
PromptHoldsSources ==
  [][\A p \in Clients :
       pc[p] = "chat: expand" /\ pc'[p] = "chat: expand" /\ task'[p] # task[p] =>
         LET n      == Len(task'[p].passages)
             source == task[p].res[n]
             window == task[p].req.window
             doc    == Store(p).docs[source.id[1]]
         IN  doc # NULL /\ Wording(doc) = source.whole =>
               \E lo, hi \in DOMAIN source.whole :
                 /\ source.id[2] \in lo..hi /\ source.whole[source.id[2]] = source.text
                 /\ source.id[2] <= lo + window /\ hi <= source.id[2] + window
                 /\ task'[p].passages[n] = SubSeq(source.whole, lo, hi)]_vars

\* The sources of a question split into hops are those that the hops find one after the
\* other: every chunk of any, once and with the best of its scores, the best first and
\* then the first found, whatever order the hops came back in.
HopsAgree ==
  \A p \in Clients : pc[p] = "chat: rank" /\ Alone /\ Foreign(Store(p)) = {} =>
    LET t == task[p]
        hop(i)   == Found(Store(p), t.subs[i], Candidates(t.req))
        found    == UNION {ToSet(hop(i)) : i \in DOMAIN t.subs}
        spots(c) == UNION {{<<i, n>> : n \in {n \in DOMAIN hop(i) : hop(i)[n].id = c.id}} : i \in DOMAIN t.subs}
    IN  /\ ToSet(t.res) = {c \in found : \A e \in found : e.id = c.id => e.score <= c.score}
        /\ \A m, n \in DOMAIN t.res : m < n =>
             \/ t.res[m].score > t.res[n].score
             \/ /\ t.res[m].score = t.res[n].score
                /\ \E u \in spots(t.res[m]) : \A v \in spots(t.res[n]) : Earlier(u, v)

\* The server ends when it is stopped, and never for a request.
RequestsDoNotEndIt == [][srv # NULL /\ srv' = NULL => restarts < use.restarts]_vars
=============================================================================
