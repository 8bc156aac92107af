---------------------------- MODULE MCAnswering ----------------------------
(* Answering for TLC: the requests, and programs of a few of them. *)
EXTENDS Answering

CONSTANTS d1, d2

-----------------------------------------------------------------------------
(* Requests that edit the configuration.                                    *)

Groq(key) == [name |-> "groq", url |-> "u1", key |-> key]
Mine(key) == [name |-> "mine", url |-> "u2", key |-> key]

MCFlags == [providers |-> <<>>, genApi |-> "ollama", genUrl |-> "", genKey |-> "", genModel |-> "m1",
            embedApi |-> "", embedUrl |-> "", embedKey |-> "", embedModel |-> "e1", ollamaUrl |-> "u0",
            chunk |-> "recursive", words |-> 0]

Config(fields) == [kind |-> "config", fields |-> fields]

AddGroq == Config([providers |-> <<Groq("$KEY")>>, genApi |-> "groq", genModel |-> "m2"])
AddMine == Config([providers |-> <<Groq(""), Mine("k2")>>, embedApi |-> "mine", embedModel |-> "e2"])
Partial == Config([chunk |-> "word", genKey |-> "k3"])
Sized   == Config([chunk |-> "word", words |-> 50])
Wrong   == Config([genApi |-> "nosuch"])
Back    == Config([genApi |-> "ollama", providers |-> <<Groq("")>>])
NoModel == Config([genModel |-> ""])
EmbedBack == Config([embedApi |-> "", embedModel |-> "e1"])
Configs == {AddGroq, AddMine, Partial, Wrong, Back}

MCEnv == [r \in {"$KEY"} |-> "k1"]
MCDim == [e1 |-> 1, e2 |-> 2]

-----------------------------------------------------------------------------
(* Requests that index a document: contents that share texts, of one length *)
(* and of another, and one without a chunk.                                 *)

MCPieces ==
  [s \in Chunkings |->
     IF s.strategy = "word"
     THEN [a |-> <<"pq">>, b |-> <<"pr">>, c |-> <<"pq", "r">>, z |-> <<>>]
     ELSE [a |-> <<"p", "q">>, b |-> <<"p", "r">>, c |-> <<"p", "q", "r">>, z |-> <<>>]]

Text(d, c, contextual, transform, replace) ==
  [kind |-> "text", bucket |-> "b1", doc |-> d, content |-> c, contextual |-> contextual, transform |-> transform,
   replace |-> replace]

Plain(d, c) == Text(d, c, FALSE, "none", FALSE)

Files(d, c, contextual, transform) == [Text(d, c, contextual, transform, FALSE) EXCEPT !.kind = "files"]

Restore(d, n) == [kind |-> "restore", bucket |-> "b1", doc |-> d, version |-> n]

Ingests ==
  {Text(d1, "a", TRUE, "none", FALSE), Plain(d1, "b"), Text(d1, "b", TRUE, "unknown", FALSE),
   Text(d2, "a", FALSE, "known", FALSE), Text(d2, "b", FALSE, "none", TRUE),
   Files(d2, "z", TRUE, "none"), Files(d2, "b", FALSE, "unknown"), Restore(d1, 1)}

-----------------------------------------------------------------------------
(* Questions.                                                               *)

MCScore ==
  [x |-> [p |-> 2, q |-> 3, r |-> 1, pq |-> 3, pr |-> 1],
   y |-> [p |-> 2, q |-> 0, r |-> 3, pq |-> 0, pr |-> 3]]

MCDocOrder == d1 :> 1 @@ d2 :> 2
MCRewrites == [x |-> {"y"}, y |-> {"x"}]
MCSplits   == [x |-> {<<"x", "y">>, <<"y", "x">>}, y |-> {<<"y", "x">>}]

Asks(q, decompose, rerank, window) ==
  [kind |-> "chat", bucket |-> "b1", query |-> q, model |-> "", followUp |-> FALSE, decompose |-> decompose,
   rerank |-> rerank, window |-> window, verify |-> FALSE, topK |-> 2, minSim |-> 0]

FollowUp == [Asks("x", FALSE, FALSE, 0) EXCEPT !.followUp = TRUE, !.verify = TRUE, !.minSim = 3]
OpenAI   == [Asks("x", FALSE, FALSE, 0) EXCEPT !.kind = "openai", !.model = "m3"]
Default  == [OpenAI EXCEPT !.model = ""]
Query    == [Asks("y", FALSE, FALSE, 0) EXCEPT !.kind = "query"]

Questions == {Asks("x", TRUE, FALSE, 0), Asks("y", TRUE, TRUE, 1), FollowUp, OpenAI, Query}

MCRequests ==
  {EmbedBack, NoModel, Default, Sized} \cup Configs \cup Ingests \cup Questions
    \cup {Plain(d2, "b"), Plain(d1, "a"), Plain(d1, "c"), Files(d2, "a", TRUE, "known"), Asks("x", FALSE, FALSE, 0), Asks("x", FALSE, FALSE, 1)}

-----------------------------------------------------------------------------
(* Programs: settings alone and at once, and read back; buckets made under  *)
(* them; documents; documents under other settings; questions, also of no   *)
(* model; a question while a document changes; questions and updates after a*)
(* start with another embedder.                                             *)

Pr(rs, total, atOnce, starts) == [requests |-> rs, total |-> total, atOnce |-> atOnce, restarts |-> starts]

Programs ==
  {Pr(Configs, 3, 1, 1),
   Pr({AddGroq, Partial}, 2, 2, 0),
   Pr({Partial, Sized, AddMine, Plain(d1, "a")}, 3, 1, 1),
   Pr(Ingests, 4, 1, 0),
   Pr({Files(d2, "a", TRUE, "known")}, 2, 1, 0),
   Pr({AddMine, Text(d1, "a", TRUE, "none", FALSE), Plain(d2, "b")}, 3, 1, 1),
   Pr(Questions \cup {Plain(d1, "a"), Plain(d2, "b")}, 4, 1, 0),
   Pr({NoModel, Plain(d1, "a"), Default, Asks("x", FALSE, FALSE, 0)}, 3, 1, 0),
   Pr({Plain(d1, "a"), Plain(d1, "b"), Asks("x", FALSE, FALSE, 1)}, 4, 2, 0),
   Pr({AddMine, Plain(d1, "a"), Asks("x", TRUE, FALSE, 0)}, 3, 1, 1),
   Pr({AddMine, Plain(d1, "a"), Plain(d1, "b")}, 3, 1, 1),
   Pr({Sized, AddMine, Text(d1, "a", TRUE, "none", FALSE), Plain(d1, "b")}, 4, 1, 1),
   Pr({AddMine, Plain(d1, "a"), Plain(d1, "c"), Asks("x", TRUE, FALSE, 0)}, 4, 1, 2),
   Pr({AddMine, EmbedBack, Plain(d1, "a"), Asks("x", FALSE, FALSE, 1)}, 4, 1, 1),
   Pr({AddMine, EmbedBack, Plain(d1, "a"), Plain(d1, "b")}, 5, 1, 2)}
=============================================================================
