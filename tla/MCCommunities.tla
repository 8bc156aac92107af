---------------------------- MODULE MCCommunities ----------------------------
(***************************************************************************)
(* Model values for Communities: documents of one chunk, near to each other*)
(* to different degrees, and one of two chunks that are not; two functions *)
(* that a seed may stand for; and programs.                                *)
(***************************************************************************)
EXTENDS Communities

MCPieces == [a |-> <<"p">>, b |-> <<"q">>, c |-> <<"r">>, d |-> <<"s", "t">>]
MCContents == DOMAIN MCPieces

\* "p" is near "q", "q" as near to "r"; "s" is nearer to "r" than "q" is.
MCSimilarity ==
  [ts \in {{t, u} : t, u \in Texts} |->
     CASE ts = {"p", "q"} -> 2 [] ts = {"q", "r"} -> 2 [] ts = {"r", "s"} -> 3
       [] ts = {"p", "s"} -> 1 [] OTHER -> 0]

\* The sweeps of one detection visit the nodes in turn from a first node that
\* moves on, upwards or downwards.
Rotation(n, k) == [i \in 1..n |-> ((i + k) % n) + 1]
Upwards == [n \in 0..4 |-> [k \in 1..MaxIter |-> Rotation(n, k)]]
Downwards == [n \in 0..4 |-> [k \in 1..MaxIter |-> Reverse(Rotation(n, 2 * k))]]
MCOrders == {Upwards, Downwards}

CONSTANTS d1, d2, d3

Doc(id, content) == [id |-> id, content |-> content]
Program(calls, atOnce, docs, order) ==
  [calls |-> calls, atOnce |-> atOnce, docs |-> docs, order |-> order]

\* A library program that indexes, summarises and answers.
Alone(order) ==
  Program({"add", "delete", "summarize", "global"}, 1,
          {Doc(d1, "a"), Doc(d2, "b"), Doc(d2, "d"), Doc(d3, "c")}, order)

\* A server with two requests at a time, and one that ingests in bulk.
Serving == Program({"add", "summarize", "global"}, 2, {Doc(d1, "a"), Doc(d2, "b")}, Upwards)
Ingesting ==
  Program({"ingest", "summarize", "global"}, 1, {Doc(d1, "b"), Doc(d2, "c"), Doc(d1, "a")}, Upwards)

\* A server that is restarted.
Restarted ==
  Program({"add", "summarize", "global", "restart"}, 1, {Doc(d1, "a"), Doc(d2, "b"), Doc(d3, "c")}, Upwards)

Programs == {Alone(order) : order \in MCOrders} \cup {Serving, Ingesting, Restarted}
=============================================================================
