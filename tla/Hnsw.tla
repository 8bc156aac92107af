-------------------------------- MODULE Hnsw --------------------------------
(***************************************************************************)
(* The vector index of index/hnsw.go: a hierarchy of proximity graphs, the *)
(* insertion of a vector into it, and the search through it.               *)
(*                                                                         *)
(* Add and Search hold the index's lock, for writing and for reading, from *)
(* beginning to end, and a search leaves nothing behind: one call at a     *)
(* time is what any schedule amounts to.  Their loops are the actions      *)
(* here, one iteration each, so that every access to a neighbour list is a *)
(* step whose operands the invariants speak of.                            *)
(*                                                                         *)
(* Abstractions.  A distance, 1 - cosine, is a number given by Dist.  A    *)
(* neighbour list is a set, and of equal distances any may come first: the *)
(* code's order depends on its heaps and an unstable sort.  The level of a *)
(* new node is any.  Ordinals start at 1, and 0 is the code's -1.          *)
(***************************************************************************)
EXTENDS Integers, FiniteSets

CONSTANTS
  Vectors,
  Dist,            \* Dist[u][v]: the distance of two vectors
  M,               \* the degree on upper layers, twice that on layer 0
  EfConstruction,  \* the width of the search for a new node's neighbours
  MaxLevel,        \* a bound on the level of a node
  Capacity,        \* a bound on the number of nodes
  Queries          \* the searches: [vec, k, ef, accept], accept the ordinals that may be found

Ordinals == 1..Capacity
Layers == 0..MaxLevel

ASSUME DistAssumption == Dist \in [Vectors -> [Vectors -> Nat]] /\ Vectors # {}
\* A degree of 1 has no level factor, 1 / ln M.
ASSUME DegreeAssumption == M \in Nat \ {0, 1} /\ EfConstruction \in Nat \ {0}
ASSUME BoundsAssumption == MaxLevel \in Nat /\ Capacity \in Nat
ASSUME QueriesAssumption ==
  Queries \subseteq [vec : Vectors, k : Nat \ {0}, ef : Nat, accept : SUBSET Ordinals]

VARIABLES
  size,     \* the number of nodes; their ordinals are 1..size
  vec,      \* vec[n], level[n]: the vector and the highest layer of node n
  level,
  friends,  \* friends[n][l]: the neighbours of n on layer l
  entry,    \* the entry point, 0 if there is none
  top,      \* its layer
  pc,       \* where the call in progress is
  cur,      \* the node being added, 0 in a search
  goal,     \* the search: [vec, k, ef, accept]
  layer,    \* the layer the call is on
  ep,       \* where it enters that layer, or stands in a greedy descent
  visited, frontier, result,  \* searchLayer: the nodes seen, to expand, and kept
  scan,     \* what is left of the neighbours of the node being expanded
  owner,    \* the node whose neighbours are being selected
  cands,    \* the candidates left, and those chosen
  chosen,
  todo      \* the new node's neighbours that do not link back yet

graphVars == <<size, vec, level, friends, entry, top>>
walkVars == <<layer, ep, visited, frontier, result, scan>>
linkVars == <<owner, cands, chosen, todo>>
vars == <<graphVars, pc, cur, goal, walkVars, linkVars>>

-----------------------------------------------------------------------------

Nodes == 1..size

\* The distance of a node to the vector that is searched for.
D(n) == Dist[goal.vec][vec[n]]

Nearest(S) == {n \in S : \A k \in S : D(n) <= D(k)}
Farthest(S) == {n \in S : \A k \in S : D(k) <= D(n)}

MaxConn(l) == IF l = 0 THEN 2 * M ELSE M

Max2(a, b) == IF a > b THEN a ELSE b

\* A call enters the graph at its top.
Enter(n, g) ==
  /\ pc' = "descending"
  /\ cur' = n /\ goal' = g
  /\ layer' = top /\ ep' = entry
  /\ UNCHANGED <<visited, frontier, result, scan, linkVars>>

Add(v, l) ==
  LET n == size + 1
  IN  /\ pc = "idle" /\ size < Capacity
      /\ size' = n
      /\ vec' = [vec EXCEPT ![n] = v] /\ level' = [level EXCEPT ![n] = l]
      /\ IF entry = 0
         THEN entry' = n /\ top' = l /\ UNCHANGED <<pc, cur, goal, walkVars, linkVars>>
         ELSE /\ Enter(n, [vec |-> v, k |-> 1, ef |-> EfConstruction, accept |-> Ordinals])
              /\ UNCHANGED <<entry, top>>
      /\ UNCHANGED friends

\* Search, and SearchFiltered if not every node is accepted.
Search(q) ==
  /\ pc = "idle" /\ entry # 0
  /\ Enter(0, [q EXCEPT !.ef = Max2(q.ef, q.k)])
  /\ UNCHANGED graphVars

-----------------------------------------------------------------------------
(* greedyDescend, on the layers above the one where the work starts.        *)

\* Wrong variant of Floor: an insertion starts at the top whatever its level.
FloorTop == IF cur = 0 THEN 0 ELSE top

Floor == IF cur = 0 THEN 0 ELSE level[cur]

\* Wrong variant of Closer: a neighbour at the same distance is moved to.
NotFarther(n) == D(n) <= D(ep)

Closer(n) == D(n) < D(ep)

Descend ==
  LET near == {n \in Nearest(friends[ep][layer]) : Closer(n)}
  IN  /\ pc = "descending" /\ layer > Floor
      /\ IF near = {} THEN layer' = layer - 1 /\ UNCHANGED ep
                      ELSE ep' \in near /\ UNCHANGED layer
      /\ UNCHANGED <<graphVars, pc, cur, goal, visited, frontier, result, scan, linkVars>>

-----------------------------------------------------------------------------
(* searchLayerFiltered.                                                     *)

SearchLayer ==
  /\ pc = "descending" /\ layer <= Floor
  /\ pc' = "searching"
  /\ visited' = {ep} /\ frontier' = {ep} /\ scan' = {}
  /\ result' = {ep} \cap goal.accept
  /\ UNCHANGED <<graphVars, cur, goal, layer, ep, linkVars>>

Full == Cardinality(result) >= goal.ef

\* The result is full and c is farther than its worst.
Beyond(c) == Full /\ \A r \in result : D(r) < D(c)

Expand(c) ==
  /\ pc = "searching" /\ scan = {}
  /\ c \in Nearest(frontier) /\ ~Beyond(c)
  /\ frontier' = frontier \ {c}
  /\ scan' = friends[c][layer]
  /\ UNCHANGED <<graphVars, pc, cur, goal, layer, ep, visited, result, linkVars>>

\* Wrong variant of Admitted: the best one is pushed out.
AdmittedWorst(n) ==
  LET r == result \cup {n}
  IN  IF Cardinality(r) > goal.ef THEN {r \ {w} : w \in Nearest(r)} ELSE {r}

\* n enters the result, which may push the worst one out.
Admitted(n) ==
  LET r == result \cup {n}
  IN  IF Cardinality(r) > goal.ef THEN {r \ {w} : w \in Farthest(r)} ELSE {r}

\* Wrong variant of Look: only accepted nodes are walked through.
LookAccepted(n) ==
  /\ pc = "searching" /\ n \in scan
  /\ scan' = scan \ {n} /\ visited' = visited \cup {n}
  /\ IF n \notin visited /\ (~Full \/ \E r \in result : D(n) < D(r)) /\ n \in goal.accept
     THEN frontier' = frontier \cup {n} /\ result' \in Admitted(n)
     ELSE UNCHANGED <<frontier, result>>
  /\ UNCHANGED <<graphVars, pc, cur, goal, layer, ep, linkVars>>

\* A neighbour that is near enough is walked through, and kept if accepted.
Look(n) ==
  /\ pc = "searching" /\ n \in scan
  /\ scan' = scan \ {n}
  /\ visited' = visited \cup {n}
  /\ IF n \notin visited /\ (~Full \/ \E r \in result : D(n) < D(r))
     THEN /\ frontier' = frontier \cup {n}
          /\ result' \in IF n \in goal.accept THEN Admitted(n) ELSE {result}
     ELSE UNCHANGED <<frontier, result>>
  /\ UNCHANGED <<graphVars, pc, cur, goal, layer, ep, linkVars>>

\* A search is left with its result, an insertion goes on to select neighbours.
LayerDone ==
  /\ pc = "searching" /\ scan = {}
  /\ frontier = {} \/ \E c \in Nearest(frontier) : Beyond(c)
  /\ IF cur = 0 THEN pc' = "found" /\ UNCHANGED linkVars
     ELSE /\ pc' = "selecting"
          /\ owner' = cur /\ cands' = result /\ chosen' = {}
          /\ UNCHANGED todo
  /\ UNCHANGED <<graphVars, cur, goal, walkVars>>

\* The k nearest of the result are returned.
Return ==
  /\ pc = "found"
  /\ pc' = "idle"
  /\ \E S \in SUBSET result :
       /\ Cardinality(S) = IF goal.k < Cardinality(result) THEN goal.k ELSE Cardinality(result)
       /\ \A n \in S, k \in result \ S : D(n) <= D(k)
       /\ result' = S
  /\ UNCHANGED <<graphVars, cur, goal, layer, ep, visited, frontier, scan, linkVars>>

-----------------------------------------------------------------------------
(* selectNeighbors, for the new node and for one that has too many, and the *)
(* links back.                                                              *)

FromOwner(n) == Dist[vec[owner]][vec[n]]

\* The next candidate is taken unless one that was is closer to it than owner.
Select(c) ==
  /\ pc = "selecting"
  /\ Cardinality(chosen) < MaxConn(layer)
  /\ c \in cands /\ \A k \in cands : FromOwner(c) <= FromOwner(k)
  /\ cands' = cands \ {c}
  /\ chosen' = IF \E s \in chosen : Dist[vec[c]][vec[s]] < FromOwner(c) THEN chosen
               ELSE chosen \cup {c}
  /\ UNCHANGED <<graphVars, pc, cur, goal, walkVars, owner, todo>>

Selected ==
  /\ pc = "selecting"
  /\ cands = {} \/ Cardinality(chosen) >= MaxConn(layer)
  /\ friends' = [friends EXCEPT ![owner][layer] = chosen]
  /\ todo' = IF owner = cur THEN chosen ELSE todo
  /\ pc' = "linking"
  /\ UNCHANGED <<size, vec, level, entry, top, cur, goal, walkVars, owner, cands, chosen>>

\* Wrong variant of LinkBack: a neighbour keeps what it is given.
LinkBackUnpruned(n) ==
  /\ pc = "linking" /\ n \in todo
  /\ todo' = todo \ {n}
  /\ friends' = [friends EXCEPT ![n][layer] = @ \cup {cur}]
  /\ UNCHANGED <<size, vec, level, entry, top, pc, cur, goal, walkVars, owner, cands, chosen>>

\* Wrong variant of LinkBack: links go one way.
LinkBackNever(n) ==
  /\ pc = "linking" /\ n \in todo
  /\ todo' = todo \ {n}
  /\ UNCHANGED <<graphVars, pc, cur, goal, walkVars, owner, cands, chosen>>

\* A neighbour that has too many now selects again (pruneConnections).
LinkBack(n) ==
  LET linked == friends[n][layer] \cup {cur}
  IN  /\ pc = "linking" /\ n \in todo
      /\ todo' = todo \ {n}
      /\ friends' = [friends EXCEPT ![n][layer] = linked]
      /\ IF Cardinality(linked) > MaxConn(layer)
         THEN pc' = "selecting" /\ owner' = n /\ cands' = linked /\ chosen' = {}
         ELSE UNCHANGED <<pc, owner, cands, chosen>>
      /\ UNCHANGED <<size, vec, level, entry, top, cur, goal, walkVars>>

\* Wrong variant of NextLayer: there is one below layer 0.
NextLayerTooFar ==
  /\ pc = "linking" /\ todo = {} /\ layer >= 0
  /\ pc' = "descending"
  /\ layer' = layer - 1
  /\ IF result = {} THEN UNCHANGED ep ELSE ep' \in Nearest(result)
  /\ UNCHANGED <<graphVars, cur, goal, visited, frontier, result, scan, linkVars>>

\* The next layer is entered at the nearest node found on this one.
NextLayer ==
  /\ pc = "linking" /\ todo = {} /\ layer > 0
  /\ pc' = "descending"
  /\ layer' = layer - 1
  /\ IF result = {} THEN UNCHANGED ep ELSE ep' \in Nearest(result)
  /\ UNCHANGED <<graphVars, cur, goal, visited, frontier, result, scan, linkVars>>

\* Wrong variant of Added: the entry point stays.
AddedBelow ==
  /\ pc = "linking" /\ todo = {} /\ layer = 0
  /\ pc' = "idle"
  /\ top' = Max2(top, level[cur])
  /\ UNCHANGED <<size, vec, level, friends, entry, cur, goal, walkVars, linkVars>>

\* A node above all others becomes the entry point.
Added ==
  /\ pc = "linking" /\ todo = {} /\ layer = 0
  /\ pc' = "idle"
  /\ IF level[cur] > top THEN top' = level[cur] /\ entry' = cur ELSE UNCHANGED <<top, entry>>
  /\ UNCHANGED <<size, vec, level, friends, cur, goal, walkVars, linkVars>>

-----------------------------------------------------------------------------

Init ==
  /\ size = 0 /\ entry = 0 /\ top = 0
  /\ vec \in [Ordinals -> {CHOOSE v \in Vectors : TRUE}]
  /\ level = [n \in Ordinals |-> 0]
  /\ friends = [n \in Ordinals |-> [l \in Layers |-> {}]]
  /\ pc = "idle" /\ cur = 0
  /\ goal = [vec |-> CHOOSE v \in Vectors : TRUE, k |-> 1, ef |-> 1, accept |-> {}]
  /\ layer = 0 /\ ep = 0 /\ visited = {} /\ frontier = {} /\ result = {} /\ scan = {}
  /\ owner = 0 /\ cands = {} /\ chosen = {} /\ todo = {}

Walk == Descend \/ SearchLayer \/ (\E n \in Nodes : Expand(n) \/ Look(n)) \/ LayerDone \/ Return

Link == (\E n \in Nodes : Select(n) \/ LinkBack(n)) \/ Selected \/ NextLayer \/ Added

Next ==
  \/ \E v \in Vectors, l \in Layers : Add(v, l)
  \/ \E q \in Queries : Search(q)
  \/ Walk
  \/ Link

Spec == Init /\ [][Next]_vars

\* A call that has begun runs on.
FairSpec == Spec /\ WF_vars(Walk) /\ WF_vars(Link)

-----------------------------------------------------------------------------

Goals == [vec : Vectors, k : Nat \ {0}, ef : Nat \ {0}, accept : SUBSET Ordinals]

TypeOK ==
  /\ size \in 0..Capacity
  /\ vec \in [Ordinals -> Vectors] /\ level \in [Ordinals -> Layers]
  /\ friends \in [Ordinals -> [Layers -> SUBSET Ordinals]]
  /\ entry \in 0..size /\ top \in Layers
  /\ pc \in {"idle", "descending", "searching", "found", "selecting", "linking"}
  /\ cur \in 0..size /\ goal \in Goals
  /\ layer \in Layers /\ ep \in 0..size
  /\ visited \subseteq Nodes /\ frontier \subseteq Nodes /\ result \subseteq Nodes
  /\ scan \subseteq Nodes
  /\ owner \in 0..size
  /\ cands \subseteq Nodes /\ chosen \subseteq Nodes /\ todo \subseteq Nodes

\* The nodes on a layer.
On(l) == {n \in Nodes : level[n] >= l}

\* A link joins two different nodes that are both on its layer: friends[l] exists for
\* no other node, and following such a link would index past the end (hnsw.go:194, :241),
\* as would an ordinal that no node has.
LinksInLayer ==
  \A n \in Ordinals, l \in Layers :
    friends[n][l] # {} => n \in On(l) /\ friends[n][l] \subseteq On(l) \ {n}

\* No node keeps more neighbours than its layer allows, but for the one that is about
\* to select among them (hnsw.go:173): the cost of a search rests on it.
DegreeBounded ==
  \A n \in Ordinals, l \in Layers :
    \/ Cardinality(friends[n][l]) <= MaxConn(l)
    \/ /\ pc = "selecting" /\ n = owner /\ l = layer
       /\ Cardinality(friends[n][l]) = MaxConn(l) + 1

\* Between calls, every node but a single one has a neighbour on layer 0: a search that
\* stands on it gets away, however often its list was pruned.
NobodyIsolated ==
  pc = "idle" /\ size > 1 => \A n \in Nodes : friends[n][0] # {}

\* Lists are short and never empty, however often they are pruned.
Degrees == DegreeBounded /\ NobodyIsolated

\* Between calls the entry point is on the top layer, and no node above it: what is
\* above could be found from nowhere (hnsw.go:181).
EntryOnTop ==
  pc = "idle" =>
    /\ entry = 0 <=> size = 0
    /\ entry # 0 => level[entry] = top /\ \A n \in Nodes : level[n] <= top

\* Links stay on their layer, and every node whose neighbour list a call reads is on the
\* layer it reads (hnsw.go:194, :241, :172), whichever layer the entry point, the
\* candidates of the layer above and the level of the new node have led it to.
WalkInLayer ==
  /\ LinksInLayer
  /\ EntryOnTop
  /\ pc \in {"descending", "searching"} => ep \in On(layer)
  /\ pc = "searching" => frontier \subseteq On(layer)
  /\ pc = "linking" => todo \subseteq On(layer)
  /\ pc \in {"selecting", "linking"} => cur \in On(layer)

\* A node that was seen, may be found and is not in the result is no nearer than any that
\* is, and the result is full: neither the early stop nor the eviction of the worst loses
\* a nearer one (hnsw.go:248-253).
BestSoFar ==
  pc \in {"searching", "found"} =>
    \A n \in (visited \cap goal.accept) \ result :
      Full /\ \A r \in result : D(r) <= D(n)

\* The nodes that links lead to from n on layer l.
Closed(S, l) == \A s \in S : friends[s][l] \subseteq S
Reachable(n, l) == {k \in Nodes : \A S \in SUBSET Nodes : n \in S /\ Closed(S, l) => k \in S}

\* A search whose result is not full has found all it could: every node that may be found
\* and that the links lead to. What the filter refuses does not cut off what is behind it
\* (hnsw.go:217-221), and the early stop does not set in (hnsw.go:238).
SearchIsComplete ==
  pc = "found" /\ ~Full => result = Reachable(ep, layer) \cap goal.accept

\* Every call ends: the descent, which has no other limit, strictly approaches the query
\* (hnsw.go:196), also among nodes with the same vector.
CallEnds == pc # "idle" ~> pc = "idle"
=============================================================================
