----------------------------- MODULE MCBuckets -----------------------------
(***************************************************************************)
(* Model values for Buckets: the default bucket and another, one document  *)
(* and two texts it may have, and ways of using a server.                  *)
(***************************************************************************)
EXTENDS Buckets, TLC

CONSTANTS default, x, y

Server(calls, atOnce, texts, failures) ==
  [calls |-> calls, atOnce |-> atOnce, texts |-> texts, failures |-> failures]

\* One request at a time, with a blob store that works and with one that does not.
OneUser == Server(Endpoints \ {"restore", "build"}, 1, {x, y}, {})
OneUserFailing == Server(Endpoints \ {"delete", "restore", "build"}, 1, {x}, {"put"})

\* One request at a time, and starts that pass over buckets.
OneUserUnread == Server({"ingest", "delete", "save", "drop", "restart"}, 1, {x}, {"read"})

\* Two requests at once, and anything may fail.
TwoUsers == Server(Endpoints \ {"query", "build", "restart"}, 2, {x}, {"put", "remove"})

\* Two requests that start, or join, entity builds.
Builders == Server({"ingest", "build", "save"}, 2, {x}, {})

Servers == {OneUser, OneUserFailing, OneUserUnread, TwoUsers, Builders}

\* Two requests that change one bucket.
Changing == {Server({"ingest", "delete"}, 2, {x}, {})}

Symmetry == Permutations(Clients)
=============================================================================
