----------------------------- MODULE Graphs_proofs -----------------------------
(***************************************************************************)
(* Theorems of the two graphs over the chunks of a store: the search index *)
(* (Hnsw), for every distance, degree, width and set of searches, and the  *)
(* similarity graph and its communities (Communities), for every corpus,   *)
(* similarity, order of visits and program.                                *)
(*                                                                         *)
(* The links of the index are well formed because a call stays on nodes of *)
(* the layer it works on, and never meets the node it is adding before it  *)
(* links to it: Structure says so, and is inductive.  The other invariants *)
(* of Hnsw rest on it.                                                     *)
(*                                                                         *)
(* The partition fits the chunks because the graph does, whenever no       *)
(* ordinal has moved since it was built (CommunitiesOK), and because every *)
(* label of a detection is that of a node a path leads to.  A detection    *)
(* makes progress because the weight inside the communities changes, in a  *)
(* visit, by twice what the visited node gains.                            *)
(***************************************************************************)
EXTENDS Hnsw, Communities, Ordering_proofs, FunctionTheorems

-----------------------------------------------------------------------------
(* The index.                                                               *)

\* Where a call may be on its layer: anywhere but at the node it adds.
Place == On(layer) \ {cur}

\* The entry point is on the top layer; only the node that is being added is above it.
Entered ==
  /\ entry = 0 <=> size = 0
  /\ entry # 0 => level[entry] = top
  /\ \A n \in Nodes : level[n] <= top \/ (pc # "idle" /\ n = cur)
  /\ pc # "idle" => entry # 0 /\ entry # cur

\* What a call holds is on its layer.
Placed ==
  /\ pc \in {"descending", "searching", "selecting", "linking"} => ep \in Place
  /\ pc = "searching" => visited \cup frontier \cup result \cup scan \subseteq Place
  /\ pc = "searching" /\ cur # 0 => cur \in On(layer)
  /\ pc \in {"selecting", "linking"} => result \cup todo \subseteq Place /\ cur \in On(layer)
  /\ pc = "selecting" => owner \in On(layer) /\ cands \cup chosen \subseteq On(layer) \ {owner}
  /\ pc \notin {"selecting", "linking"} => todo = {}
  /\ pc = "found" => cur = 0

\* No link leads to the node that is being added on the layers still to come, nor on this
\* one before its neighbours link back.
NotYetLinked ==
  pc # "idle" =>
    \A n \in Ordinals, l \in Layers : cur \in friends[n][l] =>
      l > layer \/ (l = layer /\ (pc = "linking" \/ (pc = "selecting" /\ owner # cur)))

Structure == TypeOK /\ LinksInLayer /\ Entered /\ Placed /\ NotYetLinked

-----------------------------------------------------------------------------

LEMMA InitStructure == Init => Structure
  BY DistAssumption, BoundsAssumption
     DEF Init, Structure, TypeOK, LinksInLayer, Entered, Placed, NotYetLinked, Nodes, Goals,
         Ordinals, Layers

LEMMA AddStructure ==
  ASSUME Structure, NEW v \in Vectors, NEW l \in Layers, Add(v, l)
  PROVE  Structure'
<1> DEFINE n == size + 1
<1> USE BoundsAssumption
<1>0. /\ TypeOK /\ LinksInLayer /\ Entered /\ Placed /\ NotYetLinked
      /\ pc = "idle" /\ n \in Ordinals /\ n \notin Nodes /\ size' = n /\ size' \in 0..Capacity
      /\ Nodes' = Nodes \cup {n} /\ Nodes \subseteq Ordinals
  BY DEF Structure, Add, TypeOK, Nodes, Ordinals
<1>1. /\ vec' = [vec EXCEPT ![n] = v] /\ level' = [level EXCEPT ![n] = l]
      /\ friends' = friends
  BY DEF Add
<1>2. /\ vec' \in [Ordinals -> Vectors] /\ level' \in [Ordinals -> Layers]
      /\ level'[n] = l /\ \A k \in Nodes : level'[k] = level[k]
  BY <1>0, <1>1 DEF TypeOK
<1>3. \A k \in Layers : On(k) \subseteq On(k)' /\ n \notin On(k)
  BY <1>0, <1>2 DEF On
<1>4. LinksInLayer'
  BY <1>0, <1>1, <1>3 DEF LinksInLayer
<1>5. CASE entry = 0
  <2>1. /\ entry' = n /\ top' = l
        /\ UNCHANGED <<pc, cur, goal, walkVars, linkVars>>
    BY <1>5 DEF Add
  <2>2. size = 0 /\ Nodes = {}
    BY <1>0, <1>5 DEF Entered, Nodes, TypeOK
  <2>3. TypeOK'
    BY <1>0, <1>1, <1>2, <2>1 DEF TypeOK, walkVars, linkVars
  <2>4. Entered'
    BY <1>0, <1>2, <2>1, <2>2 DEF Entered, TypeOK, Layers, Ordinals
  <2>5. Placed' /\ NotYetLinked'
    BY <1>0, <2>1 DEF Placed, NotYetLinked, walkVars, linkVars
  <2> QED
    BY <1>4, <2>3, <2>4, <2>5 DEF Structure
<1>6. CASE entry # 0
  <2> DEFINE g == [vec |-> v, k |-> 1, ef |-> EfConstruction, accept |-> Ordinals]
  <2>1. /\ entry' = entry /\ top' = top /\ pc' = "descending" /\ cur' = n /\ goal' = g
        /\ layer' = top /\ ep' = entry
        /\ UNCHANGED <<visited, frontier, result, scan, linkVars>>
    BY <1>6 DEF Add, Enter
  <2>2. g \in Goals
    BY DegreeAssumption DEF Goals
  <2>3. TypeOK'
    BY <1>0, <1>1, <1>2, <2>1, <2>2 DEF TypeOK, linkVars
  <2>4. Entered'
    BY <1>0, <1>2, <1>6, <2>1 DEF Entered, TypeOK, Nodes, Ordinals
  <2>5. Placed'
    BY <1>0, <1>2, <1>6, <2>1 DEF Placed, Place, On, Entered, TypeOK, Nodes, Ordinals, Layers, linkVars
  <2>6. NotYetLinked'
    BY <1>0, <1>1, <1>3, <2>1 DEF NotYetLinked, LinksInLayer
  <2> QED
    BY <1>4, <2>3, <2>4, <2>5, <2>6 DEF Structure
<1> QED
  BY <1>5, <1>6

LEMMA SearchStructure ==
  ASSUME Structure, NEW q \in Queries, Search(q)
  PROVE  Structure'
<1> USE BoundsAssumption
<1> DEFINE g == [q EXCEPT !.ef = Max2(q.ef, q.k)]
<1>1. /\ TypeOK /\ LinksInLayer /\ Entered /\ Placed /\ NotYetLinked
  BY DEF Structure
<1>2. /\ pc = "idle" /\ entry # 0
      /\ pc' = "descending" /\ cur' = 0 /\ goal' = g /\ layer' = top /\ ep' = entry
      /\ UNCHANGED <<visited, frontier, result, scan, linkVars, graphVars>>
  BY DEF Search, Enter
<1>3. g \in Goals
  BY QueriesAssumption DEF Goals, Max2
<1>4. TypeOK'
  BY <1>1, <1>2, <1>3 DEF TypeOK, Nodes, linkVars, graphVars
<1>5. LinksInLayer'
  BY <1>1, <1>2 DEF LinksInLayer, On, Nodes, graphVars
<1>6. Entered'
  BY <1>1, <1>2 DEF Entered, Nodes, graphVars
<1>7. Placed'
  BY <1>1, <1>2 DEF Placed, Place, On, Entered, TypeOK, Nodes, Ordinals, Layers, linkVars, graphVars
<1>8. NotYetLinked'
  BY <1>1, <1>2 DEF NotYetLinked, LinksInLayer, On, Nodes, graphVars
<1> QED
  BY <1>4, <1>5, <1>6, <1>7, <1>8 DEF Structure

-----------------------------------------------------------------------------
(* The walk changes no link.                                                *)

\* What a walk reads on its layer is on it, and is not the node being added.
LEMMA NeighboursInPlace ==
  ASSUME Structure, pc \in {"descending", "searching"}, NEW n \in Place
  PROVE  /\ n \in Nodes /\ n \in Ordinals
         /\ friends[n][layer] \subseteq Place
<1>1. /\ TypeOK /\ LinksInLayer /\ NotYetLinked
  BY DEF Structure
<1>2. n \in Nodes /\ n \in Ordinals
  BY <1>1, BoundsAssumption DEF Place, On, Nodes, TypeOK, Ordinals
<1>3. friends[n][layer] \subseteq On(layer)
  BY <1>1, <1>2 DEF LinksInLayer, TypeOK
<1>4. cur \notin friends[n][layer]
  BY <1>1, <1>2 DEF NotYetLinked, TypeOK, Layers
<1> QED
  BY <1>2, <1>3, <1>4 DEF Place

\* A step that leaves the graph and the call alone keeps what is said of links.
LEMMA SameLinks ==
  ASSUME LinksInLayer, UNCHANGED graphVars
  PROVE  LinksInLayer' /\ Nodes' = Nodes /\ \A l \in Layers : On(l)' = On(l)
  BY DEF LinksInLayer, On, Nodes, graphVars

LEMMA WalkStructure ==
  ASSUME Structure, Walk
  PROVE  Structure'
<1> USE BoundsAssumption
<1>0. /\ TypeOK /\ LinksInLayer /\ Entered /\ Placed /\ NotYetLinked
  BY DEF Structure
<1>1. UNCHANGED graphVars /\ UNCHANGED <<cur, goal>>
  BY DEF Walk, Descend, SearchLayer, Expand, Look, LayerDone, Return
<1>2. LinksInLayer' /\ Nodes' = Nodes /\ \A l \in Layers : On(l)' = On(l)
  BY <1>0, <1>1, SameLinks
<1>3. CASE Descend
  <2>1. /\ pc = "descending" /\ layer > Floor /\ pc' = pc
        /\ UNCHANGED <<visited, frontier, result, scan, linkVars>>
    BY <1>3 DEF Descend
  <2>2. ep \in Place
    BY <1>0, <2>1 DEF Placed
  <2>3. Floor \in Nat
    BY <1>0 DEF Floor, TypeOK, Layers, Ordinals, Nodes
  <2>4. \/ layer' = layer - 1 /\ layer' \in Layers /\ ep' = ep
        \/ layer' = layer /\ ep' \in Place
    BY <1>0, <1>3, <2>1, <2>2, <2>3, NeighboursInPlace DEF Descend, Nearest, TypeOK, Layers
  <2>5. ep' \in Place' /\ layer' \in Layers /\ layer' <= layer
    BY <1>0, <1>1, <1>2, <2>2, <2>4 DEF Place, On, TypeOK, Layers, Nodes, Ordinals
  <2>6. TypeOK'
    BY <1>0, <1>1, <1>2, <2>1, <2>5 DEF TypeOK, graphVars, linkVars, Place, On, Nodes
  <2>7. Entered' /\ Placed' /\ NotYetLinked'
    BY <1>0, <1>1, <1>2, <2>1, <2>5 DEF Entered, Placed, NotYetLinked, graphVars, linkVars, TypeOK, Layers
  <2> QED
    BY <1>2, <2>6, <2>7 DEF Structure
<1>4. CASE SearchLayer
  <2>1. /\ pc = "descending" /\ layer <= Floor /\ pc' = "searching"
        /\ visited' = {ep} /\ frontier' = {ep} /\ scan' = {}
        /\ result' = {ep} \cap goal.accept
        /\ UNCHANGED <<layer, ep, linkVars>>
    BY <1>4 DEF SearchLayer
  <2>2. ep \in Place /\ ep \in Nodes
    BY <1>0, <2>1 DEF Placed, Place, On
  <2>3. cur # 0 => cur \in On(layer)
    BY <1>0, <2>1 DEF Floor, On, TypeOK, Nodes, Layers
  <2>4. TypeOK'
    BY <1>0, <1>1, <1>2, <2>1, <2>2 DEF TypeOK, graphVars, linkVars
  <2>5. Place' = Place
    BY <1>0, <1>1, <1>2, <2>1 DEF Place, TypeOK
  <2>6. Placed'
    BY <1>0, <1>1, <1>2, <2>1, <2>2, <2>3, <2>5 DEF Placed, TypeOK, linkVars
  <2>7. Entered' /\ NotYetLinked'
    BY <1>0, <1>1, <1>2, <2>1 DEF Entered, NotYetLinked, graphVars
  <2> QED
    BY <1>2, <2>4, <2>6, <2>7 DEF Structure
<1>5. ASSUME NEW n \in Nodes, Expand(n) \/ Look(n)
      PROVE  Structure'
  <2>1. /\ pc = "searching" /\ pc' = pc
        /\ UNCHANGED <<layer, ep, linkVars>>
    BY <1>5 DEF Expand, Look
  <2>2. /\ {ep} \cup visited \cup frontier \cup result \cup scan \subseteq Place
        /\ Place' = Place
    BY <1>0, <1>1, <1>2, <2>1 DEF Placed, Place, TypeOK
  <2>3. Expand(n) => n \in Place
    BY <2>2 DEF Expand, Nearest
  <2>4. Expand(n) => friends[n][layer] \subseteq Place
    BY <2>1, <2>3, NeighboursInPlace
  <2>5. visited' \cup frontier' \cup result' \cup scan' \subseteq Place
    BY <1>5, <2>2, <2>4 DEF Expand, Look, Admitted
  <2>6. TypeOK'
    BY <1>0, <1>1, <1>2, <2>1, <2>5 DEF TypeOK, graphVars, linkVars, Place, On
  <2>7. Placed'
    BY <1>0, <1>1, <1>2, <2>1, <2>2, <2>5 DEF Placed, TypeOK, linkVars
  <2>8. Entered' /\ NotYetLinked'
    BY <1>0, <1>1, <1>2, <2>1 DEF Entered, NotYetLinked, graphVars
  <2> QED
    BY <1>2, <2>6, <2>7, <2>8 DEF Structure
<1>6. CASE LayerDone
  <2>1. /\ pc = "searching" /\ UNCHANGED walkVars
        /\ \/ cur = 0 /\ pc' = "found" /\ UNCHANGED linkVars
           \/ /\ cur # 0 /\ pc' = "selecting"
              /\ owner' = cur /\ cands' = result /\ chosen' = {} /\ todo' = todo
    BY <1>6 DEF LayerDone
  <2>2. Place' = Place /\ result \subseteq Place /\ ep \in Place /\ layer' = layer
    BY <1>0, <1>1, <1>2, <2>1 DEF Placed, Place, TypeOK, walkVars
  <2>3. TypeOK'
    BY <1>0, <1>1, <1>2, <2>1, <2>2 DEF TypeOK, graphVars, walkVars, linkVars, Place, On
  <2>4. Placed'
    BY <1>0, <1>1, <1>2, <2>1, <2>2 DEF Placed, Place, TypeOK, walkVars, linkVars
  <2>5. Entered' /\ NotYetLinked'
    BY <1>0, <1>1, <1>2, <2>1 DEF Entered, NotYetLinked, graphVars, walkVars
  <2> QED
    BY <1>2, <2>3, <2>4, <2>5 DEF Structure
<1>7. CASE Return
  <2>1. /\ pc = "found" /\ pc' = "idle" /\ result' \subseteq result
        /\ UNCHANGED <<layer, ep, visited, frontier, scan, linkVars>>
    BY <1>7 DEF Return
  <2>2. TypeOK'
    BY <1>0, <1>1, <1>2, <2>1 DEF TypeOK, graphVars, linkVars
  <2>3. Placed' /\ NotYetLinked'
    BY <1>0, <2>1 DEF Placed, NotYetLinked, linkVars
  <2>4. Entered'
    BY <1>0, <1>1, <1>2, <2>1 DEF Entered, Placed, Nodes, graphVars, TypeOK
  <2> QED
    BY <1>2, <2>2, <2>3, <2>4 DEF Structure
<1> QED
  BY <1>3, <1>4, <1>5, <1>6, <1>7 DEF Walk

-----------------------------------------------------------------------------
(* Linking changes no level.                                                *)

LEMMA LinkStructure ==
  ASSUME Structure, Link
  PROVE  Structure'
<1> USE BoundsAssumption
<1>0. /\ TypeOK /\ LinksInLayer /\ Entered /\ Placed /\ NotYetLinked
  BY DEF Structure
<1>1. UNCHANGED <<size, vec, level, cur, goal>>
  BY DEF Link, Select, LinkBack, Selected, NextLayer, Added, graphVars
<1>2. Nodes' = Nodes /\ \A l \in Layers : On(l)' = On(l)
  BY <1>1 DEF On, Nodes
<1>3. pc \in {"selecting", "linking"} /\ Nodes \subseteq Ordinals
  <2>1. pc \in {"selecting", "linking"}
    BY DEF Link, Select, LinkBack, Selected, NextLayer, Added
  <2>2. Nodes \subseteq Ordinals
    BY <1>0 DEF TypeOK, Nodes, Ordinals
  <2> QED
    BY <2>1, <2>2
<1>4. /\ ep \in Place /\ result \cup todo \subseteq Place /\ cur \in On(layer) /\ cur \in Nodes
  BY <1>0, <1>3 DEF Placed, On
<1>5. ASSUME NEW n \in Nodes, Select(n)
      PROVE  Structure'
  <2>1. /\ pc = "selecting" /\ pc' = pc
        /\ cands' \subseteq cands /\ chosen' \subseteq chosen \cup cands
        /\ UNCHANGED <<graphVars, walkVars, owner, todo>>
    BY <1>5 DEF Select
  <2>2. TypeOK'
    BY <1>0, <1>1, <1>2, <2>1 DEF TypeOK, graphVars, walkVars
  <2>3. Placed'
    BY <1>0, <1>1, <1>2, <2>1 DEF Placed, Place, TypeOK, walkVars
  <2>4. Entered' /\ NotYetLinked' /\ LinksInLayer'
    BY <1>0, <1>1, <1>2, <2>1 DEF Entered, NotYetLinked, LinksInLayer, graphVars, walkVars
  <2> QED
    BY <2>2, <2>3, <2>4 DEF Structure
<1>6. CASE Selected
  <2>1. /\ pc = "selecting" /\ pc' = "linking"
        /\ friends' = [friends EXCEPT ![owner][layer] = chosen]
        /\ todo' = IF owner = cur THEN chosen ELSE todo
        /\ UNCHANGED <<entry, top, walkVars, owner, cands, chosen>>
    BY <1>6 DEF Selected
  <2>2. owner \in On(layer) /\ owner \in Ordinals /\ chosen \subseteq On(layer) \ {owner}
    BY <1>0, <1>3, <2>1 DEF Placed, On
  <2>3. /\ friends' \in [Ordinals -> [Layers -> SUBSET Ordinals]]
        /\ \A n \in Ordinals, l \in Layers :
             friends'[n][l] = IF n = owner /\ l = layer THEN chosen ELSE friends[n][l]
    BY <1>0, <1>3, <2>1, <2>2 DEF TypeOK
  <2>4. TypeOK'
    BY <1>0, <1>1, <1>2, <2>1, <2>3 DEF TypeOK, walkVars
  <2>5. LinksInLayer'
    <3>1. layer \in Layers
      BY <1>0 DEF TypeOK
    <3> SUFFICES ASSUME NEW n \in Ordinals, NEW l \in Layers, friends'[n][l] # {}
                 PROVE  n \in On(l) /\ friends'[n][l] \subseteq On(l) \ {n}
      BY <1>2 DEF LinksInLayer
    <3>2. CASE n = owner /\ l = layer
      BY <2>2, <2>3, <3>1, <3>2
    <3>3. CASE ~(n = owner /\ l = layer)
      BY <1>0, <2>3, <3>3 DEF LinksInLayer
    <3> QED
      BY <3>2, <3>3
  <2>6. Placed'
    BY <1>0, <1>1, <1>2, <2>1, <2>2 DEF Placed, Place, TypeOK, walkVars
  <2>7. NotYetLinked'
    BY <1>0, <1>1, <2>1, <2>2, <2>3 DEF NotYetLinked, TypeOK, walkVars
  <2>8. Entered'
    BY <1>0, <1>1, <1>2, <2>1 DEF Entered
  <2> QED
    BY <2>4, <2>5, <2>6, <2>7, <2>8 DEF Structure
<1>7. ASSUME NEW n \in Nodes, LinkBack(n)
      PROVE  Structure'
  <2> DEFINE linked == friends[n][layer] \cup {cur}
  <2>1. /\ pc = "linking" /\ n \in todo /\ todo' = todo \ {n}
        /\ friends' = [friends EXCEPT ![n][layer] = linked]
        /\ \/ pc' = "selecting" /\ owner' = n /\ cands' = linked /\ chosen' = {}
           \/ UNCHANGED <<pc, owner, cands, chosen>>
        /\ UNCHANGED <<entry, top, walkVars>>
    BY <1>7 DEF LinkBack
  <2>2. n \in On(layer) /\ n # cur /\ n \in Ordinals
    BY <1>3, <1>4, <2>1 DEF Place
  <2>3. linked \subseteq On(layer) \ {n}
    BY <1>0, <1>4, <2>2 DEF LinksInLayer, TypeOK
  <2>4. /\ friends' \in [Ordinals -> [Layers -> SUBSET Ordinals]]
        /\ \A k \in Ordinals, l \in Layers :
             friends'[k][l] = IF k = n /\ l = layer THEN linked ELSE friends[k][l]
    BY <1>0, <1>3, <1>4, <2>1, <2>2 DEF TypeOK
  <2>5. TypeOK'
    <3>1. linked \subseteq Nodes
      BY <2>3 DEF On
    <3>2. cands' \subseteq Nodes /\ chosen' \subseteq Nodes /\ todo' \subseteq Nodes
      BY <1>0, <2>1, <3>1 DEF TypeOK
    <3>3. owner' \in 0..size
      BY <1>0, <2>1 DEF TypeOK, Nodes
    <3> QED
      BY <1>0, <1>1, <1>2, <2>1, <2>4, <3>2, <3>3 DEF TypeOK, walkVars
  <2>6. LinksInLayer'
    BY <1>0, <1>1, <1>2, <2>2, <2>3, <2>4 DEF LinksInLayer, TypeOK
  <2>7. Placed'
    BY <1>0, <1>1, <1>2, <2>1, <2>2, <2>3 DEF Placed, Place, TypeOK, walkVars
  <2>8. NotYetLinked'
    BY <1>0, <1>1, <2>1, <2>2, <2>4 DEF NotYetLinked, TypeOK, walkVars
  <2>9. Entered'
    BY <1>0, <1>1, <1>2, <2>1 DEF Entered
  <2> QED
    BY <2>5, <2>6, <2>7, <2>8, <2>9 DEF Structure
<1>8. CASE NextLayer
  <2>1. /\ pc = "linking" /\ pc' = "descending" /\ todo = {} /\ layer > 0 /\ layer' = layer - 1
        /\ UNCHANGED <<graphVars, visited, frontier, result, scan, linkVars>>
    BY <1>8 DEF NextLayer
  <2>2. ep' = ep \/ ep' \in result
    BY <1>8 DEF NextLayer, Nearest
  <2>3. layer' \in Layers /\ layer' < layer
    BY <1>0, <2>1 DEF TypeOK, Layers
  <2>4. ep' \in Place'
    <3>1. On(layer) \subseteq On(layer')
      BY <1>0, <1>3, <2>3 DEF On, TypeOK, Layers
    <3>2. Place \subseteq Place'
      BY <1>1, <1>2, <2>3, <3>1 DEF Place
    <3> QED
      BY <1>4, <2>2, <3>2
  <2>5. TypeOK'
    BY <1>0, <1>1, <1>2, <2>1, <2>3, <2>4 DEF TypeOK, graphVars, linkVars, Place, On, Nodes
  <2>6. Placed'
    BY <2>1, <2>4 DEF Placed, linkVars
  <2>7. NotYetLinked'
    BY <1>0, <1>1, <2>1, <2>3 DEF NotYetLinked, TypeOK, Layers, graphVars
  <2>8. Entered' /\ LinksInLayer'
    BY <1>0, <1>1, <1>2, <2>1 DEF Entered, LinksInLayer, graphVars
  <2> QED
    BY <2>5, <2>6, <2>7, <2>8 DEF Structure
<1>9. CASE Added
  <2>1. /\ pc = "linking" /\ pc' = "idle" /\ todo = {}
        /\ IF level[cur] > top THEN top' = level[cur] /\ entry' = cur ELSE UNCHANGED <<top, entry>>
        /\ UNCHANGED <<friends, walkVars, linkVars>>
    BY <1>9 DEF Added
  <2>2. cur \in Nodes /\ level[cur] \in Layers /\ top \in Layers
    BY <1>0, <1>3, <1>4 DEF TypeOK
  <2>3. TypeOK'
    BY <1>0, <1>1, <1>2, <2>1, <2>2 DEF TypeOK, walkVars, linkVars, Nodes
  <2>4. Entered'
    BY <1>0, <1>1, <1>2, <1>3, <2>1, <2>2 DEF Entered, TypeOK, Nodes, Layers, Ordinals
  <2>5. Placed' /\ NotYetLinked' /\ LinksInLayer'
    BY <1>0, <1>2, <2>1 DEF Placed, NotYetLinked, LinksInLayer, linkVars
  <2> QED
    BY <2>3, <2>4, <2>5 DEF Structure
<1> QED
  BY <1>5, <1>6, <1>7, <1>8, <1>9 DEF Link

LEMMA IdleStructure == Structure /\ UNCHANGED vars => Structure'
  BY DEF Structure, TypeOK, LinksInLayer, Entered, Placed, NotYetLinked, Place, On, Nodes,
         vars, graphVars, walkVars, linkVars

\* Structure is inductive.
THEOREM StructureHolds == Spec => []Structure
<1>1. Structure /\ [Next]_vars => Structure'
  BY AddStructure, SearchStructure, WalkStructure, LinkStructure, IdleStructure DEF Next
<1> QED
  BY <1>1, InitStructure, PTL DEF Spec

\* The state is well typed (TypeOK of Hnsw).
THEOREM TypeCorrect == Spec => []TypeOK
  BY StructureHolds, PTL DEF Structure

\* Every link joins two nodes of its layer (hnsw.go:169-175).
THEOREM WellLinked == Spec => []LinksInLayer
  BY StructureHolds, PTL DEF Structure

\* Links stay on their layer, and no call reads a list that a node does not have
\* (hnsw.go:172, :194, :241).
THEOREM StaysInLayer == Spec => []WalkInLayer
<1>1. Structure => WalkInLayer
  BY DEF Structure, Placed, Place, Entered, EntryOnTop, WalkInLayer
<1> QED
  BY <1>1, StructureHolds, PTL

\* Nothing is above the entry point (hnsw.go:181).
THEOREM EntryHighest == Spec => []EntryOnTop
<1>1. Structure => EntryOnTop
  BY DEF Structure, Entered, EntryOnTop
<1> QED
  BY <1>1, StructureHolds, PTL

-----------------------------------------------------------------------------
(* Degrees.  While a node's neighbours are being selected its list may have *)
(* one too many, and what is selected never has.                            *)

ChosenBounded == pc = "selecting" => Cardinality(chosen) <= MaxConn(layer)

LEMMA MaxConnNat == \A l \in Layers : MaxConn(l) \in Nat \ {0}
  BY DegreeAssumption DEF MaxConn

\* Sets of ordinals are finite.
LEMMA OrdinalsFinite ==
  ASSUME NEW S \in SUBSET Ordinals
  PROVE  /\ IsFiniteSet(S) /\ Cardinality(S) \in Nat
         /\ \A n : Cardinality(S \cup {n}) = IF n \in S THEN Cardinality(S) ELSE Cardinality(S) + 1
<1>1. IsFiniteSet(Ordinals)
  BY BoundsAssumption, FS_Interval DEF Ordinals
<1>2. IsFiniteSet(S)
  BY <1>1, FS_Subset
<1> QED
  BY <1>2, FS_CardinalityType, FS_AddElement

LEMMA DegreeStep ==
  ASSUME Structure, DegreeBounded, ChosenBounded, [Next]_vars
  PROVE  DegreeBounded' /\ ChosenBounded'
<1>0. TypeOK /\ layer \in Layers /\ MaxConn(layer) \in Nat \ {0}
  BY MaxConnNat DEF Structure, TypeOK
<1>1. ASSUME NEW n \in Nodes, Select(n)
      PROVE  DegreeBounded' /\ ChosenBounded'
  <2>1. /\ pc = "selecting" /\ pc' = pc /\ layer' = layer /\ friends' = friends /\ owner' = owner
        /\ Cardinality(chosen) < MaxConn(layer)
        /\ chosen' = chosen \/ chosen' = chosen \cup {n}
    BY <1>1 DEF Select, graphVars, walkVars
  <2>2. chosen \in SUBSET Ordinals
    BY <1>0, BoundsAssumption DEF TypeOK, Nodes, Ordinals
  <2>3. Cardinality(chosen') <= MaxConn(layer)
    BY <1>0, <2>1, <2>2, OrdinalsFinite
  <2> QED
    BY <2>1, <2>3 DEF DegreeBounded, ChosenBounded, MaxConn
<1>2. CASE Selected
  <2>1. /\ pc = "selecting" /\ pc' = "linking" /\ layer' = layer /\ owner' = owner
        /\ friends' = [friends EXCEPT ![owner][layer] = chosen]
    BY <1>2 DEF Selected, walkVars
  <2>2. Cardinality(chosen) <= MaxConn(layer)
    BY <2>1 DEF ChosenBounded
  <2>3. \A n \in Ordinals, l \in Layers :
           friends'[n][l] = IF n = owner /\ l = layer THEN chosen ELSE friends[n][l]
    BY <1>0, <2>1 DEF TypeOK
  <2> QED
    BY <2>1, <2>2, <2>3 DEF DegreeBounded, ChosenBounded, MaxConn
<1>3. ASSUME NEW n \in Nodes, LinkBack(n)
      PROVE  DegreeBounded' /\ ChosenBounded'
  <2> DEFINE linked == friends[n][layer] \cup {cur}
  <2>1. /\ pc = "linking" /\ layer' = layer /\ n \in Ordinals
        /\ friends' = [friends EXCEPT ![n][layer] = linked]
        /\ \/ Cardinality(linked) > MaxConn(layer) /\ pc' = "selecting" /\ owner' = n /\ chosen' = {}
           \/ ~(Cardinality(linked) > MaxConn(layer)) /\ pc' = "linking"
    BY <1>0, <1>3, BoundsAssumption DEF LinkBack, walkVars, TypeOK, Nodes, Ordinals
  <2>2. \A k \in Ordinals, l \in Layers : Cardinality(friends[k][l]) <= MaxConn(l)
    BY <2>1 DEF DegreeBounded
  <2>3. friends[n][layer] \in SUBSET Ordinals
    BY <1>0, <2>1 DEF TypeOK
  <2>4. Cardinality(linked) \in Nat /\ Cardinality(linked) <= MaxConn(layer) + 1
    BY <1>0, <2>1, <2>2, <2>3, OrdinalsFinite
  <2>5. \A k \in Ordinals, l \in Layers :
           friends'[k][l] = IF k = n /\ l = layer THEN linked ELSE friends[k][l]
    BY <1>0, <2>1 DEF TypeOK
  <2>6. DegreeBounded'
    <3> SUFFICES ASSUME NEW k \in Ordinals, NEW l \in Layers
                 PROVE  \/ Cardinality(friends'[k][l]) <= MaxConn(l)
                        \/ /\ pc' = "selecting" /\ k = owner' /\ l = layer'
                           /\ Cardinality(friends'[k][l]) = MaxConn(l) + 1
      BY DEF DegreeBounded, MaxConn
    <3>1. CASE k = n /\ l = layer
      <4>1. friends'[k][l] = linked
        BY <2>5, <3>1
      <4>2. Cardinality(linked) <= MaxConn(layer) \/ Cardinality(linked) = MaxConn(layer) + 1
        BY <1>0, <2>4
      <4>3. CASE Cardinality(linked) <= MaxConn(layer)
        BY <3>1, <4>1, <4>3
      <4>4. CASE Cardinality(linked) = MaxConn(layer) + 1
        <5>1. pc' = "selecting" /\ owner' = n /\ layer' = layer
          BY <1>0, <2>1, <4>4
        <5> QED
          BY <3>1, <4>1, <4>4, <5>1
      <4> QED
        BY <4>2, <4>3, <4>4
    <3>2. CASE ~(k = n /\ l = layer)
      BY <2>2, <2>5, <3>2
    <3> QED
      BY <3>1, <3>2
  <2>7. ChosenBounded'
    <3>1. pc' = "selecting" => chosen' = {}
      BY <2>1
    <3> QED
      BY <1>0, <2>1, <3>1, FS_EmptySet DEF ChosenBounded, MaxConn
  <2> QED
    BY <2>6, <2>7
<1>4. CASE LayerDone
  <2>1. pc = "searching" /\ layer' = layer /\ friends' = friends /\ (pc' = "selecting" => chosen' = {})
    BY <1>4 DEF LayerDone, graphVars, walkVars
  <2> QED
    BY <1>0, <2>1, FS_EmptySet DEF DegreeBounded, ChosenBounded, MaxConn
<1>5. ASSUME \/ \E v \in Vectors, l \in Layers : Add(v, l)
             \/ \E q \in Queries : Search(q)
             \/ Descend \/ SearchLayer \/ Return \/ NextLayer \/ Added
             \/ \E n \in Nodes : Expand(n) \/ Look(n)
      PROVE  DegreeBounded' /\ ChosenBounded'
  <2>1. pc # "selecting" /\ pc' # "selecting" /\ friends' = friends
    BY <1>5 DEF Add, Search, Enter, Descend, SearchLayer, Return, NextLayer, Added, Expand, Look, graphVars
  <2> QED
    BY <2>1 DEF DegreeBounded, ChosenBounded, MaxConn
<1>6. CASE UNCHANGED vars
  BY <1>6 DEF DegreeBounded, ChosenBounded, MaxConn, vars, graphVars, walkVars, linkVars
<1> QED
  BY <1>1, <1>2, <1>3, <1>4, <1>5, <1>6 DEF Next, Walk, Link

\* No neighbour list outgrows its layer (hnsw.go:164-167, :173).
THEOREM DegreesBounded == Spec => []DegreeBounded
<1>1. Init => DegreeBounded /\ ChosenBounded
  <2>1. Init => pc = "idle" /\ \A n \in Ordinals, l \in Layers : friends[n][l] = {}
    BY DEF Init
  <2> QED
    BY <2>1, MaxConnNat, FS_EmptySet DEF DegreeBounded, ChosenBounded
<1> QED
  BY <1>1, DegreeStep, StructureHolds, PTL DEF Spec

-----------------------------------------------------------------------------
(* Searches.  What a walk has seen can be reached from where it began; while *)
(* the result is not full, it turns away from nothing.                      *)

Searched ==
  pc \in {"searching", "found"} =>
    /\ ep \in visited /\ result \subseteq visited \cap goal.accept
    /\ visited \cup scan \cup frontier \subseteq Reachable(ep, layer)
    /\ ~Full => \A m \in visited \ frontier : friends[m][layer] \subseteq visited \cup scan
    /\ pc = "found" /\ ~Full => frontier = {} /\ scan = {}

\* Distances are numbers.
LEMMA DNat ==
  ASSUME TypeOK, NEW n \in Nodes
  PROVE  D(n) \in Nat
<1>1. goal.vec \in Vectors /\ vec[n] \in Vectors
  BY BoundsAssumption DEF TypeOK, Goals, Nodes, Ordinals
<1> QED
  BY <1>1, DistAssumption DEF D

\* A look at n leaves the result alone or admits n.
LEMMA LookResult ==
  ASSUME TypeOK, pc = "searching", NEW n \in Nodes, Look(n)
  PROVE  /\ Full => Full'
         /\ UNCHANGED <<pc, goal, vec, friends, layer, ep, size>>
         /\ scan' = scan \ {n} /\ visited' = visited \cup {n} /\ n \in scan
         /\ \/ /\ UNCHANGED <<frontier, result>>
               /\ n \in visited \/ (Full /\ \A r \in result : ~(D(n) < D(r)))
            \/ /\ frontier' = frontier \cup {n}
               /\ ~Full \/ \E r \in result : D(n) < D(r)
               /\ \/ result' = result /\ n \notin goal.accept
                  \/ result' = result \cup {n} /\ n \in goal.accept
                  \/ /\ n \in goal.accept /\ Full'
                     /\ \E w \in Farthest(result \cup {n}) : result' = (result \cup {n}) \ {w}
<1> DEFINE r == result \cup {n}
<1>1. /\ result \in SUBSET Ordinals /\ r \in SUBSET Ordinals /\ goal.ef \in Nat \ {0}
  BY BoundsAssumption DEF TypeOK, Nodes, Ordinals, Goals
<1>2. Cardinality(r) \in Nat /\ Cardinality(result) \in Nat /\ Cardinality(r) >= Cardinality(result)
  BY <1>1, OrdinalsFinite
<1>3. \A w \in r : Cardinality(r \ {w}) = Cardinality(r) - 1
  BY <1>1, OrdinalsFinite, FS_RemoveElement
<1>4. /\ UNCHANGED <<pc, goal, vec, friends, layer, ep, size>>
      /\ scan' = scan \ {n} /\ visited' = visited \cup {n} /\ n \in scan
  BY DEF Look, graphVars
<1>5. CASE ~(n \notin visited /\ (~Full \/ \E q \in result : D(n) < D(q)))
  <2>1. UNCHANGED <<frontier, result>>
    BY <1>5 DEF Look
  <2> QED
    BY <1>4, <1>5, <2>1 DEF Full
<1>6. CASE n \notin visited /\ (~Full \/ \E q \in result : D(n) < D(q))
  <2>1. frontier' = frontier \cup {n} /\ result' \in IF n \in goal.accept THEN Admitted(n) ELSE {result}
    BY <1>6 DEF Look
  <2>2. CASE n \notin goal.accept
    <3>1. result' = result
      BY <2>1, <2>2
    <3> QED
      BY <1>4, <1>6, <2>1, <2>2, <3>1 DEF Full
  <2>3. CASE n \in goal.accept /\ Cardinality(r) > goal.ef
    <3>1. PICK w \in Farthest(r) : result' = r \ {w}
      BY <2>1, <2>3 DEF Admitted
    <3>2. Cardinality(result') >= goal.ef
      BY <1>1, <1>2, <1>3, <2>3, <3>1 DEF Farthest
    <3>3. Full'
      BY <1>4, <3>2 DEF Full
    <3> QED
      BY <1>4, <1>6, <2>1, <2>3, <3>1, <3>3
  <2>4. CASE n \in goal.accept /\ ~(Cardinality(r) > goal.ef)
    <3>1. result' = r
      BY <2>1, <2>4 DEF Admitted
    <3>2. Full => Full'
      BY <1>1, <1>2, <1>4, <3>1 DEF Full
    <3> QED
      BY <1>4, <1>6, <2>1, <2>4, <3>1, <3>2
  <2> QED
    BY <2>2, <2>3, <2>4
<1> QED
  BY <1>5, <1>6

LEMMA BestStep ==
  ASSUME Structure, Searched, BestSoFar, [Next]_vars
  PROVE  BestSoFar'
<1>0. TypeOK
  BY DEF Structure
<1>1. CASE SearchLayer
  <2>1. visited' = {ep} /\ result' = {ep} \cap goal.accept /\ goal' = goal
    BY <1>1 DEF SearchLayer
  <2> QED
    BY <2>1 DEF BestSoFar
<1>2. ASSUME NEW n \in Nodes, Look(n)
      PROVE  BestSoFar'
  <2>1. pc = "searching" /\ result \subseteq Nodes /\ visited \subseteq Nodes
    BY <1>0, <1>2 DEF Look, TypeOK
  <2>2. \A m \in Nodes : D(m) \in Nat /\ D(m)' = D(m)
    BY <1>0, <1>2, <2>1, DNat, LookResult DEF D
  <2>3. \A m \in (visited \cap goal.accept) \ result : Full /\ Full' /\ \A r \in result : D(r) <= D(m)
    BY <1>0, <1>2, <2>1, LookResult DEF BestSoFar
  <2>4. /\ goal' = goal /\ visited' = visited \cup {n} /\ n \in Nodes
        /\ Full => Full'
    BY <1>0, <1>2, <2>1, LookResult
  <2>5. result' \subseteq Nodes
    BY <1>0, <1>2, <2>1, LookResult
  <2>6. SUFFICES ASSUME NEW m \in (visited' \cap goal.accept) \ result'
                 PROVE  Full' /\ \A r \in result' : D(r) <= D(m)
    BY <2>1, <2>2, <2>4, <2>5 DEF BestSoFar, TypeOK
  <2>7. CASE UNCHANGED <<frontier, result>> /\ (n \in visited \/ (Full /\ \A r \in result : ~(D(n) < D(r))))
    BY <2>1, <2>2, <2>3, <2>4, <2>7
  <2>8. CASE result' = result /\ n \notin goal.accept
    BY <2>3, <2>4, <2>8
  <2>9. CASE /\ result' = result \cup {n} /\ n \in goal.accept
             /\ ~Full \/ \E r \in result : D(n) < D(r)
    <3>1. m \in (visited \cap goal.accept) \ result
      BY <2>4, <2>9
    <3>2. Full /\ Full' /\ \A r \in result : D(r) <= D(m)
      BY <2>3, <3>1
    <3>3. PICK r \in result : D(n) < D(r)
      BY <2>9, <3>2
    <3>4. D(n) <= D(m)
      BY <2>1, <2>2, <3>1, <3>2, <3>3
    <3> QED
      BY <2>9, <3>2, <3>4
  <2>10. CASE /\ n \in goal.accept /\ Full'
              /\ ~Full \/ \E r \in result : D(n) < D(r)
              /\ \E w \in Farthest(result \cup {n}) : result' = (result \cup {n}) \ {w}
    <3>1. PICK w \in Farthest(result \cup {n}) : result' = (result \cup {n}) \ {w}
      BY <2>10
    <3>2. CASE m = w
      BY <2>10, <3>1, <3>2 DEF Farthest
    <3>3. CASE m # w
      <4>1. m \in (visited \cap goal.accept) \ result
        BY <2>4, <3>1, <3>3
      <4>2. Full /\ \A r \in result : D(r) <= D(m)
        BY <2>3, <4>1
      <4>3. PICK r \in result : D(n) < D(r)
        BY <2>10, <4>2
      <4>4. D(n) <= D(m)
        BY <2>1, <2>2, <4>1, <4>2, <4>3
      <4> QED
        BY <2>10, <3>1, <4>2, <4>4
    <3> QED
      BY <3>2, <3>3
  <2> QED
    BY <1>0, <1>2, <2>1, <2>7, <2>8, <2>9, <2>10, LookResult
<1>3. ASSUME LayerDone \/ (\E n \in Nodes : Expand(n)) \/ UNCHANGED vars
      PROVE  BestSoFar'
  <2>1. /\ UNCHANGED <<visited, goal, result, vec>>
        /\ pc' \in {"searching", "found"} => pc \in {"searching", "found"}
    BY <1>3 DEF LayerDone, Expand, vars, graphVars, walkVars
  <2> QED
    BY <2>1 DEF BestSoFar, Full, D
<1>4. ASSUME \/ \E v \in Vectors, l \in Layers : Add(v, l)
             \/ \E q \in Queries : Search(q)
             \/ Descend \/ Return \/ Link
      PROVE  BestSoFar'
  <2>1. pc' \notin {"searching", "found"}
    BY <1>4 DEF Add, Search, Enter, Descend, Return, Link, Select, LinkBack, Selected, NextLayer, Added
  <2> QED
    BY <2>1 DEF BestSoFar
<1> QED
  BY <1>1, <1>2, <1>3, <1>4 DEF Next, Walk

LEMMA SearchedStep ==
  ASSUME Structure, Searched, BestSoFar, [Next]_vars
  PROVE  Searched'
<1>0. TypeOK /\ Nodes \subseteq Ordinals
  BY BoundsAssumption DEF Structure, TypeOK, Nodes, Ordinals
<1>1. CASE SearchLayer
  <2>1. /\ pc = "descending" /\ pc' = "searching"
        /\ visited' = {ep} /\ frontier' = {ep} /\ scan' = {} /\ result' = {ep} \cap goal.accept
        /\ UNCHANGED <<size, friends, goal, layer, ep>>
    BY <1>1 DEF SearchLayer, graphVars
  <2>2. ep \in Nodes
    BY <2>1 DEF Structure, Placed, Place, On
  <2>3. ep' \in Reachable(ep, layer)'
    BY <2>1, <2>2 DEF Reachable, Nodes
  <2> QED
    BY <2>1, <2>3 DEF Searched
<1>2. ASSUME NEW n \in Nodes, Expand(n)
      PROVE  Searched'
  <2>1. /\ pc = "searching" /\ pc' = pc /\ scan = {} /\ n \in frontier
        /\ frontier' = frontier \ {n} /\ scan' = friends[n][layer]
        /\ UNCHANGED <<size, friends, goal, layer, ep, visited, result>>
    BY <1>2 DEF Expand, Nearest, graphVars
  <2>2. Reachable(ep, layer)' = Reachable(ep, layer) /\ Full' = Full
    BY <2>1 DEF Reachable, Closed, Nodes, Full
  <2>3. n \in Place
    BY <2>1 DEF Structure, Placed
  <2>4. friends[n][layer] \subseteq Nodes
    BY <2>1, <2>3, NeighboursInPlace DEF Place, On
  <2>5. friends[n][layer] \subseteq Reachable(ep, layer)
    <3>1. n \in Reachable(ep, layer)
      BY <2>1 DEF Searched
    <3> QED
      BY <2>4, <3>1 DEF Reachable, Closed
  <2>6. ~Full => \A m \in visited \ frontier' : friends[m][layer] \subseteq visited \cup scan'
    BY <2>1 DEF Searched
  <2> QED
    BY <2>1, <2>2, <2>5, <2>6 DEF Searched
<1>3. ASSUME NEW n \in Nodes, Look(n)
      PROVE  Searched'
  <2>1. pc = "searching"
    BY <1>3 DEF Look
  <2>2. /\ Full => Full'
        /\ UNCHANGED <<pc, goal, friends, layer, ep, size>>
        /\ scan' = scan \ {n} /\ visited' = visited \cup {n} /\ n \in scan
        /\ frontier \subseteq frontier' /\ frontier' \subseteq frontier \cup {n}
        /\ n \in visited \/ Full \/ n \in frontier'
        /\ result' \subseteq result \cup ({n} \cap goal.accept)
    BY <1>0, <1>3, <2>1, LookResult DEF Farthest
  <2>3. Reachable(ep, layer)' = Reachable(ep, layer)
    BY <2>2 DEF Reachable, Closed, Nodes
  <2>4. ~Full' => \A m \in visited' \ frontier' : friends[m][layer] \subseteq visited' \cup scan'
    BY <2>1, <2>2 DEF Searched
  <2> QED
    BY <2>1, <2>2, <2>3, <2>4 DEF Searched
<1>4. CASE LayerDone
  <2>1. /\ pc = "searching" /\ scan = {}
        /\ UNCHANGED <<size, friends, goal, layer, ep, visited, frontier, result, scan>>
        /\ frontier = {} \/ \E c \in Nearest(frontier) : Beyond(c)
    BY <1>4 DEF LayerDone, graphVars, walkVars
  <2>2. ~Full => frontier = {}
    BY <2>1 DEF Beyond
  <2>3. Reachable(ep, layer)' = Reachable(ep, layer) /\ Full' = Full
    BY <2>1 DEF Reachable, Closed, Nodes, Full
  <2> QED
    BY <2>1, <2>2, <2>3 DEF Searched
<1>5. ASSUME \/ \E v \in Vectors, l \in Layers : Add(v, l)
             \/ \E q \in Queries : Search(q)
             \/ Descend \/ Return \/ Link
      PROVE  Searched'
  <2>1. pc' \notin {"searching", "found"}
    BY <1>5 DEF Add, Search, Enter, Descend, Return, Link, Select, LinkBack, Selected, NextLayer, Added
  <2> QED
    BY <2>1 DEF Searched
<1>6. CASE UNCHANGED vars
  <2>1. Reachable(ep, layer)' = Reachable(ep, layer) /\ Full' = Full
    BY <1>6 DEF Reachable, Closed, Nodes, Full, vars, graphVars, walkVars
  <2> QED
    BY <1>6, <2>1 DEF Searched, vars, graphVars, walkVars
<1> QED
  BY <1>1, <1>2, <1>3, <1>4, <1>5, <1>6 DEF Next, Walk

LEMMA SearchInvariant == Spec => [](Searched /\ BestSoFar)
<1>1. Init => Searched /\ BestSoFar
  BY DEF Init, Searched, BestSoFar
<1> QED
  BY <1>1, BestStep, SearchedStep, StructureHolds, PTL DEF Spec

\* No nearer node that was seen is lost (hnsw.go:238, :248-253).
THEOREM NearestKept == Spec => []BestSoFar
  BY SearchInvariant, PTL

\* A search with room left has found everything that can be reached and may be found
\* (hnsw.go:217-221).
THEOREM SearchComplete == Spec => []SearchIsComplete
<1>1. ASSUME Structure, Searched, BestSoFar, pc = "found", ~Full
      PROVE  result = Reachable(ep, layer) \cap goal.accept
  <2>1. /\ frontier = {} /\ scan = {} /\ ep \in visited
        /\ \A m \in visited : friends[m][layer] \subseteq visited
        /\ visited \subseteq Reachable(ep, layer)
        /\ result \subseteq visited \cap goal.accept
    BY <1>1 DEF Searched
  <2>2. visited \in SUBSET Nodes /\ Closed(visited, layer)
    BY <1>1, <2>1 DEF Structure, TypeOK, Closed
  <2>3. Reachable(ep, layer) \subseteq visited
    BY <2>1, <2>2 DEF Reachable
  <2>4. visited \cap goal.accept \subseteq result
    BY <1>1 DEF BestSoFar
  <2> QED
    BY <2>1, <2>3, <2>4
<1>2. Structure /\ Searched /\ BestSoFar => SearchIsComplete
  BY <1>1 DEF SearchIsComplete
<1> QED
  BY <1>2, SearchInvariant, StructureHolds, PTL

-----------------------------------------------------------------------------
(* Nobody is isolated: a selection always takes its first candidate, and an *)
(* insertion always has one, the node its walk began at.                    *)

LinkingBack == pc = "linking" \/ (pc = "selecting" /\ owner # cur)

Connected ==
  /\ pc = "idle" \/ cur = 0 => \A n \in Nodes : size > 1 => friends[n][0] # {}
  /\ pc # "idle" /\ cur # 0 =>
       /\ cur = size /\ size > 1 /\ goal.accept = Ordinals
       /\ \A n \in Nodes \ {cur} : size > 2 => friends[n][0] # {}
  /\ pc = "selecting" => cands \cup chosen # {}
  /\ LinkingBack /\ layer = 0 =>
       /\ friends[cur][0] # {}
       /\ \A n \in Nodes \ {cur} : friends[n][0] # {} \/ n \in todo

LEMMA ConnectedStep ==
  ASSUME Structure, Searched, BestSoFar, Connected, [Next]_vars
  PROVE  Connected'
<1> USE BoundsAssumption
<1>0. /\ TypeOK /\ Placed /\ Entered /\ Nodes \subseteq Ordinals /\ 0 \in Layers
      /\ size \in Nat /\ MaxConn(layer) \in Nat \ {0}
  BY MaxConnNat DEF Structure, TypeOK, Nodes, Ordinals, Layers
<1>1. ASSUME NEW v \in Vectors, NEW l \in Layers, Add(v, l)
      PROVE  Connected'
  <2>1. /\ pc = "idle" /\ size' = size + 1 /\ friends' = friends
        /\ \/ entry = 0 /\ UNCHANGED <<pc, cur>>
           \/ /\ entry # 0 /\ pc' = "descending" /\ cur' = size + 1
              /\ goal'.accept = Ordinals
    BY <1>1 DEF Add, Enter
  <2>2. entry = 0 <=> size = 0
    BY <1>0 DEF Entered
  <2>3. \A n \in Nodes' \ {size + 1} : n \in Nodes
    BY <1>0, <2>1 DEF Nodes
  <2>4. CASE entry = 0
    BY <1>0, <2>1, <2>2, <2>4 DEF Connected, LinkingBack
  <2>5. CASE entry # 0
    BY <1>0, <2>1, <2>2, <2>3, <2>5 DEF Connected, LinkingBack
  <2> QED
    BY <2>4, <2>5
<1>2. ASSUME \/ \E q \in Queries : Search(q)
             \/ Descend \/ SearchLayer \/ Return
             \/ \E n \in Nodes : Expand(n) \/ Look(n)
      PROVE  Connected'
  <2>1. /\ pc \notin {"selecting", "linking"} /\ pc' \notin {"selecting", "linking"}
        /\ UNCHANGED <<size, friends>>
        /\ \/ pc = "idle" /\ cur' = 0
           \/ pc # "idle" /\ cur' = cur /\ goal' = goal
    BY <1>2 DEF Search, Enter, Descend, SearchLayer, Return, Expand, Look, graphVars
  <2>2. pc' = "idle" => cur = 0
    BY <1>0, <1>2 DEF Search, Enter, Descend, SearchLayer, Return, Expand, Look, Placed
  <2>3. Nodes' = Nodes
    BY <2>1 DEF Nodes
  <2> QED
    BY <2>1, <2>2, <2>3 DEF Connected, LinkingBack
<1>3. CASE LayerDone
  <2>1. /\ pc = "searching" /\ UNCHANGED <<size, friends, cur, goal, layer>>
        /\ \/ cur = 0 /\ pc' = "found"
           \/ cur # 0 /\ pc' = "selecting" /\ owner' = cur /\ cands' = result /\ chosen' = {}
    BY <1>3 DEF LayerDone, graphVars, walkVars
  <2>2. Nodes' = Nodes
    BY <2>1 DEF Nodes
  <2>3. cur # 0 => result # {}
    <3>1. ep \in visited /\ ep \in Ordinals
      BY <1>0, <2>1 DEF Searched, Placed, Place, On
    <3>2. cur # 0 => ep \in result \/ Full
      BY <2>1, <3>1 DEF Connected, BestSoFar
    <3>3. goal.ef \in Nat \ {0}
      BY <1>0 DEF TypeOK, Goals
    <3> QED
      BY <3>2, <3>3, FS_EmptySet DEF Full
  <2> QED
    BY <2>1, <2>2, <2>3 DEF Connected, LinkingBack
<1>4. ASSUME NEW n \in Nodes, Select(n)
      PROVE  Connected'
  <2>1. /\ pc = "selecting" /\ pc' = pc /\ n \in cands
        /\ chosen' = chosen \/ chosen' = chosen \cup {n}
        /\ chosen = {} => chosen' = chosen \cup {n}
        /\ UNCHANGED <<size, friends, cur, goal, layer, owner, todo>>
    BY <1>4 DEF Select, graphVars, walkVars
  <2>2. Nodes' = Nodes
    BY <2>1 DEF Nodes
  <2> QED
    BY <2>1, <2>2 DEF Connected, LinkingBack
<1>5. CASE Selected
  <2>1. /\ pc = "selecting" /\ pc' = "linking"
        /\ friends' = [friends EXCEPT ![owner][layer] = chosen]
        /\ todo' = IF owner = cur THEN chosen ELSE todo
        /\ cands = {} \/ Cardinality(chosen) >= MaxConn(layer)
        /\ UNCHANGED <<size, cur, goal, layer>>
    BY <1>5 DEF Selected, walkVars
  <2>2. chosen # {}
    BY <1>0, <2>1, FS_EmptySet DEF Connected
  <2>3. /\ owner \in Nodes /\ cur \in Nodes /\ cur # 0
        /\ chosen \subseteq Nodes \ {owner} /\ Nodes' = Nodes
    BY <1>0, <2>1 DEF Placed, On, Nodes
  <2>4. \A k \in Ordinals : friends'[k][0] = IF k = owner /\ layer = 0 THEN chosen ELSE friends[k][0]
    BY <1>0, <2>1 DEF TypeOK
  <2>5. owner = cur /\ layer = 0 => \A k \in Nodes \ {cur} : friends[k][0] # {} \/ k \in chosen
    <3>1. cur = size /\ size > 1 /\ \A k \in Nodes \ {cur} : size > 2 => friends[k][0] # {}
      BY <2>1, <2>3 DEF Connected
    <3>2. size = 2 => Nodes \ {cur} = {1}
      BY <3>1 DEF Nodes
    <3>3. owner = cur => \E k \in chosen : k \in Nodes \ {cur}
      BY <2>2, <2>3
    <3> QED
      BY <1>0, <3>1, <3>2, <3>3
  <2>6. layer = 0 => /\ friends'[cur][0] # {}
                     /\ \A k \in Nodes \ {cur} : friends'[k][0] # {} \/ k \in todo'
    <3>1. CASE owner = cur
      BY <1>0, <2>1, <2>2, <2>3, <2>4, <2>5, <3>1
    <3>2. CASE owner # cur
      BY <1>0, <2>1, <2>2, <2>3, <2>4, <3>2 DEF Connected, LinkingBack
    <3> QED
      BY <3>1, <3>2
  <2>7. \A k \in Nodes \ {cur} : size > 2 => friends'[k][0] # {}
    BY <1>0, <2>1, <2>2, <2>3, <2>4 DEF Connected
  <2> QED
    BY <2>1, <2>3, <2>6, <2>7 DEF Connected, LinkingBack
<1>6. ASSUME NEW n \in Nodes, LinkBack(n)
      PROVE  Connected'
  <2> DEFINE linked == friends[n][layer] \cup {cur}
  <2>1. /\ pc = "linking" /\ n \in todo /\ todo' = todo \ {n}
        /\ friends' = [friends EXCEPT ![n][layer] = linked]
        /\ \/ pc' = "selecting" /\ cands' = linked /\ owner' = n
           \/ pc' = "linking"
        /\ UNCHANGED <<size, cur, goal, layer>>
    BY <1>6 DEF LinkBack, walkVars
  <2>2. n # cur /\ cur \in Nodes /\ cur # 0 /\ Nodes' = Nodes
    BY <1>0, <2>1 DEF Placed, Place, On, Nodes
  <2>3. \A k \in Ordinals : friends'[k][0] = IF k = n /\ layer = 0 THEN linked ELSE friends[k][0]
    BY <1>0, <2>1 DEF TypeOK
  <2>4. /\ layer = 0 => /\ friends'[cur][0] # {}
                        /\ \A k \in Nodes \ {cur} : friends'[k][0] # {} \/ k \in todo'
        /\ \A k \in Nodes \ {cur} : size > 2 => friends'[k][0] # {}
    BY <1>0, <2>1, <2>2, <2>3 DEF Connected, LinkingBack
  <2> QED
    BY <2>1, <2>2, <2>4 DEF Connected, LinkingBack
<1>7. CASE NextLayer
  <2>1. /\ pc = "linking" /\ pc' = "descending" /\ UNCHANGED <<size, friends, cur, goal>>
    BY <1>7 DEF NextLayer, graphVars
  <2> QED
    BY <2>1 DEF Connected, LinkingBack, Nodes
<1>8. CASE Added
  <2>1. /\ pc = "linking" /\ pc' = "idle" /\ todo = {} /\ layer = 0
        /\ UNCHANGED <<size, friends, cur, goal>>
    BY <1>8 DEF Added
  <2>2. \A n \in Nodes : friends[n][0] # {}
    BY <2>1 DEF Connected, LinkingBack
  <2>3. cur # 0
    BY <1>0, <2>1 DEF Placed, On, Nodes
  <2> QED
    BY <2>1, <2>2, <2>3 DEF Connected, LinkingBack, Nodes
<1>9. CASE UNCHANGED vars
  BY <1>9 DEF Connected, LinkingBack, Nodes, vars, graphVars, walkVars, linkVars
<1> QED
  BY <1>1, <1>2, <1>3, <1>4, <1>5, <1>6, <1>7, <1>8, <1>9 DEF Next, Walk, Link

\* However often lists are pruned, every node keeps a neighbour on layer 0 (hnsw.go:269-303).
THEOREM NoneIsolated == Spec => []NobodyIsolated
<1>1. Init => Connected
  BY DEF Init, Connected, LinkingBack, Nodes
<1>2. Connected => NobodyIsolated
  BY DEF Connected, NobodyIsolated
<1> QED
  BY <1>1, <1>2, ConnectedStep, SearchInvariant, StructureHolds, PTL DEF Spec

\* Every neighbour list is short and none is empty.
THEOREM DegreesHold == Spec => []Degrees
  BY DegreesBounded, NoneIsolated, PTL DEF Degrees

\* A graph of n nodes: its weights are the same in both directions, and none is a loop.
Weighted(g, n) ==
  /\ n \in Nat /\ g \in [1..n -> [1..n -> Nat]]
  /\ \A i, j \in 1..n : g[i][j] = g[j][i]
  /\ \A i \in 1..n : g[i][i] = 0

-----------------------------------------------------------------------------
(* Paths.                                                                   *)

\* Joined is an equivalence on the nodes that every edge respects.
LEMMA JoinedSelf ==
  ASSUME NEW g, NEW i \in DOMAIN g
  PROVE  Joined(g, i, i)
BY DEF Joined

LEMMA JoinedAdjacent ==
  ASSUME NEW g, NEW i \in DOMAIN g, NEW j \in Adjacent(g, i)
  PROVE  Joined(g, i, j)
BY DEF Joined

LEMMA JoinedOn ==
  ASSUME NEW g, NEW i, NEW j, NEW k, Joined(g, i, j), Joined(g, j, k)
  PROVE  Joined(g, i, k)
BY DEF Joined

\* No edge enters a set that none leaves, so the rest of the nodes is such a set too.
LEMMA JoinedBack ==
  ASSUME NEW g, NEW n, Weighted(g, n), NEW i \in 1..n, NEW j \in 1..n, Joined(g, i, j)
  PROVE  Joined(g, j, i)
<1> DOMAIN g = 1..n
  BY DEF Weighted
<1> SUFFICES ASSUME NEW S \in SUBSET (1..n), j \in S, \A a \in S : Adjacent(g, a) \subseteq S, i \notin S
             PROVE  FALSE
  BY DEF Joined
<1> DEFINE T == (1..n) \ S
<1>1. ASSUME NEW a \in T, NEW b \in Adjacent(g, a) PROVE b \in T
  <2>1. b \in 1..n /\ a \in 1..n /\ g[a][b] > 0 /\ g[b][a] = g[a][b]
    BY <1>1 DEF Adjacent, Weighted
  <2>2. a \in Adjacent(g, b)
    BY <2>1 DEF Adjacent
  <2> QED BY <1>1, <2>1, <2>2
<1>2. i \in T /\ T \in SUBSET DOMAIN g /\ \A a \in T : Adjacent(g, a) \subseteq T
  BY <1>1
<1>3. j \in T
  <2> HIDE DEF T
  <2> QED BY <1>2 DEF Joined
<1> QED BY <1>3

-----------------------------------------------------------------------------
(* Labels renumbered.                                                       *)

\* The least of a set of naturals.
LEMMA LeastOf ==
  ASSUME NEW S \in SUBSET Nat, S # {}
  PROVE  Min(S) \in S /\ \A x \in S : Min(S) <= x
BY LeastNumber DEF Min

\* Two nodes have the same number exactly if they have the same label, and the numbers
\* are 1..C.
LEMMA CompactNumbers ==
  ASSUME NEW n \in Nat, NEW labels \in [1..n -> Nat]
  PROVE  /\ compact(labels) \in [1..n -> Nat]
         /\ \A i, j \in 1..n : compact(labels)[i] = compact(labels)[j] <=> labels[i] = labels[j]
         /\ Cardinality(Labels(compact(labels))) \in Nat
         /\ Labels(compact(labels)) = 1..Cardinality(Labels(compact(labels)))
<1> DEFINE same(i) == {j \in 1..n : labels[j] = labels[i]}
           first == [i \in 1..n |-> Min(same(i))]
           firsts == {first[i] : i \in 1..n}
           c == compact(labels)
<1>1. ASSUME NEW i \in 1..n PROVE first[i] \in 1..n /\ labels[first[i]] = labels[i]
  <2>1. i \in same(i) /\ same(i) \in SUBSET Nat /\ same(i) # {}
    OBVIOUS
  <2>2. Min(same(i)) \in same(i)
    <3> HIDE DEF same
    <3> QED BY <2>1, LeastOf
  <2> QED BY <2>2
<1>2. ASSUME NEW i \in 1..n, NEW j \in 1..n, labels[i] = labels[j] PROVE first[i] = first[j]
  <2>1. same(i) = same(j)
    BY <1>2
  <2> QED BY <2>1
<1>3. firsts \in SUBSET (1..n) /\ firsts \in SUBSET Nat /\ IsFiniteSet(firsts)
  <2>1. firsts \in SUBSET (1..n)
    <3> HIDE DEF first
    <3> QED BY <1>1
  <2>2. IsFiniteSet(1..n)
    BY FS_Interval
  <2> HIDE DEF firsts
  <2>3. IsFiniteSet(firsts)
    BY <2>1, <2>2, FS_Subset
  <2> QED BY <2>1, <2>3
<1>4. /\ Cardinality(firsts) \in Nat
      /\ \A k \in 1..Cardinality(firsts) : \E e \in firsts : PlaceIn(firsts, e) = k
      /\ \A a, b \in firsts : PlaceIn(firsts, a) = PlaceIn(firsts, b) => a = b
  <2> HIDE DEF firsts
  <2> QED BY <1>3, PlaceBijective
<1>5. \A a \in firsts : PlaceIn(firsts, a) \in 1..Cardinality(firsts)
  <2> HIDE DEF firsts
  <2> QED BY <1>3, PlaceType
<1>6. c = [i \in 1..n |-> PlaceIn(firsts, first[i])]
  BY DEF compact
<1>7. \A i \in 1..n : first[i] \in firsts
  OBVIOUS
<1>8. \A a \in firsts : \E i \in 1..n : first[i] = a
  OBVIOUS
<1> HIDE DEF first, firsts, c, same
<1>9. c \in [1..n -> 1..Cardinality(firsts)]
  BY <1>5, <1>6, <1>7
<1>10. Labels(c) = 1..Cardinality(firsts)
  <2>1. ASSUME NEW k \in 1..Cardinality(firsts) PROVE \E i \in 1..n : c[i] = k
    BY <1>4, <1>6, <1>8
  <2>2. \A i \in DOMAIN c : c[i] \in 1..Cardinality(firsts)
    BY <1>9
  <2>3. DOMAIN c = 1..n
    BY <1>9
  <2> QED BY <2>1, <2>2, <2>3 DEF Labels
<1>11. Cardinality(1..Cardinality(firsts)) = Cardinality(firsts)
  <2> DEFINE m == Cardinality(firsts)
  <2>1. m \in Nat
    BY <1>4
  <2>2. Cardinality(1..m) = m
    <3> HIDE DEF m
    <3> QED BY <2>1, FS_Interval
  <2> QED BY <2>2
<1>12. Cardinality(Labels(c)) = Cardinality(firsts)
  BY <1>10, <1>11
<1>13. ASSUME NEW i \in 1..n, NEW j \in 1..n PROVE c[i] = c[j] <=> labels[i] = labels[j]
  <2>1. c[i] = c[j] <=> first[i] = first[j]
    BY <1>4, <1>6, <1>7
  <2>2. first[i] = first[j] <=> labels[i] = labels[j]
    BY <1>1, <1>2
  <2> QED BY <2>1, <2>2
<1>14. c \in [1..n -> Nat]
  BY <1>9, <1>4
<1>15. Labels(c) = 1..Cardinality(Labels(c)) /\ Cardinality(Labels(c)) \in Nat
  BY <1>10, <1>12, <1>4
<1> QED BY <1>13, <1>14, <1>15 DEF c

-----------------------------------------------------------------------------
(* Weights as numbers of units.                                             *)

LEMMA NodesFinite ==
  ASSUME NEW n \in Nat
  PROVE  IsFiniteSet(1..n)
BY FS_Interval

LEMMA UnitsAtFinite ==
  ASSUME NEW g, NEW n, Weighted(g, n), NEW i \in 1..n
  PROVE  /\ IsFiniteSet(UnitsAt(g, i))
         /\ UnitsAt(g, i) = {p \in Nat \X Nat : p[1] \in 1..n /\ p[2] \in 1..g[i][p[1]]}
<1> DEFINE T == [j \in 1..n |-> 1..g[i][j]]
<1>1. DOMAIN g = 1..n /\ n \in Nat /\ \A j \in 1..n : g[i][j] \in Nat
  BY DEF Weighted
<1>2. IsFiniteSet(1..n)
  <2>1. n \in Nat
    BY DEF Weighted
  <2> QED BY <2>1, NodesFinite
<1>3. \A j \in 1..n : IsFiniteSet(T[j]) /\ T[j] \in SUBSET Nat
  <2> TAKE j \in 1..n
  <2> DEFINE w == g[i][j]
  <2>1. w \in Nat
    BY <1>1
  <2>2. IsFiniteSet(1..w) /\ 1..w \in SUBSET Nat
    <3> HIDE DEF w
    <3> QED BY <2>1, FS_Interval
  <2> QED BY <2>2
<1>4. Loops(1..n, T)
  BY <1>1, <1>2, <1>3 DEF Loops
<1>5. UnitsAt(g, i) = Pairs(1..n, T)
  BY <1>1 DEF UnitsAt
<1>6. \A j \in 1..n : T[j] = 1..g[i][j]
  OBVIOUS
<1> HIDE DEF T
<1> DEFINE S == 1..n
<1> HIDE DEF S
<1>7. Loops(S, T)
  BY <1>4 DEF S
<1>8. /\ IsFiniteSet(Pairs(S, T))
      /\ Pairs(S, T) = {p \in Nat \X Nat : p[1] \in S /\ p[2] \in T[p[1]]}
  BY <1>7, PairsFinite
<1> QED BY <1>5, <1>6, <1>8 DEF S

\* The units that pull at node i to label l.
Pulling(g, labels, i, l) == {u \in UnitsAt(g, i) : labels[u[1]] = l}

LEMMA PullType ==
  ASSUME NEW g, NEW n, Weighted(g, n), NEW i \in 1..n, NEW labels, NEW l
  PROVE  /\ IsFiniteSet(Pulling(g, labels, i, l))
         /\ Pull(g, labels, i, l) \in 0..Cardinality(UnitsAt(g, i))
         /\ Cardinality(UnitsAt(g, i)) \in Nat
<1>1. IsFiniteSet(UnitsAt(g, i))
  BY UnitsAtFinite
<1> DEFINE S == UnitsAt(g, i)
           P == Pulling(g, labels, i, l)
<1>2. P \in SUBSET S
  BY DEF Pulling
<1> HIDE DEF S, P
<1>3. IsFiniteSet(P) /\ Cardinality(P) <= Cardinality(S)
  BY <1>1, <1>2, FS_Subset DEF S
<1>4. Cardinality(P) \in Nat /\ Cardinality(S) \in Nat
  BY <1>1, <1>3, FS_CardinalityType DEF S
<1> QED BY <1>3, <1>4 DEF S, P, Pull, Pulling

\* A label pulls at a node exactly if a neighbour has it.
LEMMA PullNear ==
  ASSUME NEW g, NEW n, Weighted(g, n), NEW i \in 1..n, NEW labels \in [1..n -> Nat], NEW l
  PROVE  Pull(g, labels, i, l) > 0 <=> l \in LabelsNear(g, labels, i)
<1> DEFINE P == Pulling(g, labels, i, l)
<1>1. Cardinality(P) \in Nat /\ (Cardinality(P) = 0 <=> P = {})
  <2>1. IsFiniteSet(P)
    BY PullType
  <2> HIDE DEF P
  <2> QED BY <2>1, FS_EmptySet, FS_CardinalityType
<1>2. UnitsAt(g, i) = {p \in Nat \X Nat : p[1] \in 1..n /\ p[2] \in 1..g[i][p[1]]}
  BY UnitsAtFinite
<1>3. DOMAIN g = 1..n /\ \A j \in 1..n : g[i][j] \in Nat
  BY DEF Weighted
<1>4. ASSUME NEW j \in Adjacent(g, i), labels[j] = l PROVE P # {}
  <2>1. j \in 1..n /\ g[i][j] \in Nat /\ g[i][j] > 0
    BY <1>3 DEF Adjacent
  <2>2. <<j, 1>> \in UnitsAt(g, i)
    BY <1>2, <2>1
  <2> QED BY <1>4, <2>2 DEF Pulling
<1>5. ASSUME NEW u \in P PROVE \E j \in Adjacent(g, i) : labels[j] = l
  <2>1. u[1] \in 1..n /\ u[2] \in 1..g[i][u[1]] /\ labels[u[1]] = l
    BY <1>2 DEF Pulling
  <2>2. g[i][u[1]] > 0
    BY <2>1, <1>3
  <2> QED BY <2>1, <2>2, <1>3 DEF Adjacent
<1>6. Pull(g, labels, i, l) = Cardinality(P)
  BY DEF Pull, Pulling
<1> HIDE DEF P
<1>7. P # {} <=> l \in LabelsNear(g, labels, i)
  BY <1>4, <1>5 DEF LabelsNear
<1> QED BY <1>1, <1>6, <1>7

\* A finite measure is greatest somewhere.
LEMMA GreatestOf ==
  ASSUME NEW S \in SUBSET Nat, S # {}, NEW W \in Nat, NEW f, \A x \in S : f[x] \in 0..W
  PROVE  \E x \in S : \A y \in S : f[x] >= f[y]
<1> DEFINE T == {W - f[x] : x \in S}
<1>1. T \in SUBSET Nat /\ T # {}
  OBVIOUS
<1>2. \E d \in T : \A e \in T : d <= e
  <2> HIDE DEF T
  <2> QED BY <1>1, LeastNumber
<1>3. PICK x \in S : \A y \in S : W - f[x] <= W - f[y]
  BY <1>2
<1>4. \A y \in S : f[x] >= f[y]
  BY <1>3
<1> QED BY <1>4

\* What a visit chooses: the label of a neighbour, or what it was; none pulls more, and a
\* label that is left for one that pulls as much is greater.
LEMMA HeaviestChosen ==
  ASSUME NEW g, NEW n, Weighted(g, n), NEW i \in 1..n, NEW labels \in [1..n -> Nat]
  PROVE  LET b == Heaviest(g, labels, i)
         IN  /\ b \in Nat
             /\ b = labels[i] \/ \E j \in Adjacent(g, i) : b = labels[j]
             /\ \A l : Pull(g, labels, i, l) <= Pull(g, labels, i, b)
             /\ b # labels[i] => \/ Pull(g, labels, i, labels[i]) < Pull(g, labels, i, b)
                                 \/ /\ Pull(g, labels, i, labels[i]) = Pull(g, labels, i, b)
                                    /\ b < labels[i]
<1> DEFINE near == LabelsNear(g, labels, i)
           pull(l) == Pull(g, labels, i, l)
           most == {l \in near : \A k \in near : pull(l) >= pull(k)}
           b == Heaviest(g, labels, i)
           W == Cardinality(UnitsAt(g, i))
<1>1. Adjacent(g, i) \in SUBSET (1..n)
  BY DEF Adjacent, Weighted
<1>2. near \in SUBSET Nat
  BY <1>1 DEF LabelsNear
<1>3. \A l : pull(l) \in 0..W /\ W \in Nat
  BY PullType
<1>4. \A l : pull(l) > 0 <=> l \in near
  BY PullNear
<1>5. b = IF near = {} THEN labels[i] ELSE Min(most)
  BY DEF Heaviest
<1> HIDE DEF near, pull, b, W
<1>6. CASE near = {}
  <2>1. b = labels[i] /\ b \in Nat
    BY <1>5, <1>6
  <2>2. \A l : pull(l) = 0
    BY <1>3, <1>4, <1>6
  <2> QED BY <2>1, <2>2 DEF b, pull
<1>7. CASE near # {}
  <2> DEFINE f == [l \in near |-> pull(l)]
  <2>1. \A l \in near : f[l] \in 0..W
    BY <1>3
  <2>2. \E l \in near : \A k \in near : f[l] >= f[k]
    <3> HIDE DEF f, most
    <3> QED BY <1>2, <1>3, <1>7, <2>1, GreatestOf
  <2>3. most # {} /\ most \in SUBSET Nat
    BY <1>2, <2>2
  <2>4. Min(most) \in most /\ \A x \in most : Min(most) <= x
    <3> HIDE DEF most
    <3> QED BY <2>3, LeastOf
  <2>5. b \in near /\ (\A k \in near : pull(b) >= pull(k)) /\ (\A x \in most : b <= x)
    BY <1>5, <1>7, <2>4
  <2>6. \A l : pull(l) <= pull(b)
    BY <1>3, <1>4, <2>5
  <2>7. b \in Nat /\ \E j \in Adjacent(g, i) : b = labels[j]
    BY <1>2, <2>5 DEF near, LabelsNear
  <2>8. ASSUME b # labels[i], ~(pull(labels[i]) < pull(b)) PROVE pull(labels[i]) = pull(b) /\ b < labels[i]
    <3>1. pull(labels[i]) = pull(b)
      BY <1>3, <2>6, <2>8
    <3>2. labels[i] \in near
      BY <1>3, <1>4, <2>5, <3>1
    <3>3. labels[i] \in most
      BY <2>5, <3>1, <3>2
    <3>4. b <= labels[i] /\ labels[i] \in Nat
      BY <2>5, <3>3
    <3> QED BY <2>7, <2>8, <3>1, <3>4
  <2> QED BY <2>6, <2>7, <2>8 DEF b, pull
<1> QED BY <1>6, <1>7


-----------------------------------------------------------------------------
(* The weight inside communities, as a visit changes it.                    *)

LEMMA UnitsFinite ==
  ASSUME NEW g, NEW n, Weighted(g, n)
  PROVE  /\ IsFiniteSet(Units(g))
         /\ Units(g) = {x \in Nat \X (Nat \X Nat) : /\ x[1] \in 1..n /\ x[2][1] \in 1..n
                                                    /\ x[2][2] \in 1..g[x[1]][x[2][1]]}
<1> DEFINE f == [i \in 1..n |-> {i} \X UnitsAt(g, i)]
           R == {{i} \X UnitsAt(g, i) : i \in 1..n}
<1>0. DOMAIN g = 1..n /\ n \in Nat
  BY DEF Weighted
<1>1. f \in Surjection(1..n, R)
  BY DEF Surjection
<1>2. IsFiniteSet(R)
  <2>1. IsFiniteSet(1..n)
    BY <1>0, NodesFinite
  <2> HIDE DEF f, R
  <2> QED BY <1>1, <2>1, FS_Surjection
<1>3. \A X \in R : IsFiniteSet(X)
  <2>1. ASSUME NEW i \in 1..n PROVE IsFiniteSet({i} \X UnitsAt(g, i))
    <3>1. IsFiniteSet({i}) /\ IsFiniteSet(UnitsAt(g, i))
      BY FS_Singleton, UnitsAtFinite
    <3> QED BY <3>1, FS_Product
  <2> QED BY <2>1
<1>4. IsFiniteSet(UNION R)
  <2> HIDE DEF R
  <2> QED BY <1>2, <1>3, FS_UNION
<1>5. UNION R = Units(g)
  BY <1>0 DEF Units, Pairs
<1>6. ASSUME NEW i \in 1..n
      PROVE  UnitsAt(g, i) = {p \in Nat \X Nat : p[1] \in 1..n /\ p[2] \in 1..g[i][p[1]]}
  BY UnitsAtFinite
<1>7. ASSUME NEW x \in UNION R
      PROVE  /\ x \in Nat \X (Nat \X Nat) /\ x[1] \in 1..n /\ x[2][1] \in 1..n
             /\ x[2][2] \in 1..g[x[1]][x[2][1]]
  <2>1. PICK i \in 1..n : x \in {i} \X UnitsAt(g, i)
    OBVIOUS
  <2>2. x[1] = i /\ x[2] \in UnitsAt(g, i) /\ x = <<x[1], x[2]>>
    BY <2>1
  <2>3. x[2] \in Nat \X Nat /\ x[2][1] \in 1..n /\ x[2][2] \in 1..g[i][x[2][1]]
    BY <1>6, <2>2
  <2>4. x \in Nat \X (Nat \X Nat)
    BY <2>2, <2>3, <1>0
  <2> QED BY <2>2, <2>3, <2>4
<1>8. ASSUME NEW x \in Nat \X (Nat \X Nat), x[1] \in 1..n, x[2][1] \in 1..n,
             x[2][2] \in 1..g[x[1]][x[2][1]]
      PROVE  x \in UNION R
  <2>1. x[2] \in UnitsAt(g, x[1])
    BY <1>6, <1>8
  <2>2. x \in {x[1]} \X UnitsAt(g, x[1])
    BY <2>1
  <2> QED BY <1>8, <2>2
<1> HIDE DEF R
<1>9. UNION R = {x \in Nat \X (Nat \X Nat) : /\ x[1] \in 1..n /\ x[2][1] \in 1..n
                                             /\ x[2][2] \in 1..g[x[1]][x[2][1]]}
  BY <1>7, <1>8
<1> QED BY <1>4, <1>5, <1>9

\* The units inside, those of them that do not touch node b, and those from b to nodes
\* labelled l and back.
Within(g, labels) == {u \in Units(g) : labels[u[1]] = labels[u[2][1]]}
Away(g, labels, b) == {u \in Within(g, labels) : u[1] # b /\ u[2][1] # b}
Out(g, labels, b, l) == {u \in Units(g) : u[1] = b /\ labels[u[2][1]] = l}
Back(g, labels, b, l) == {u \in Units(g) : u[2][1] = b /\ labels[u[1]] = l}

\* Both are as many as pull at b to l.
LEMMA OutAndBack ==
  ASSUME NEW g, NEW n, Weighted(g, n), NEW b \in 1..n, NEW labels, NEW l
  PROVE  /\ IsFiniteSet(Out(g, labels, b, l)) /\ Cardinality(Out(g, labels, b, l)) = Pull(g, labels, b, l)
         /\ IsFiniteSet(Back(g, labels, b, l)) /\ Cardinality(Back(g, labels, b, l)) = Pull(g, labels, b, l)
<1> DEFINE P == Pulling(g, labels, b, l)
           O == Out(g, labels, b, l)
           B == Back(g, labels, b, l)
           out == [y \in P |-> <<b, y>>]
           back == [y \in P |-> <<y[1], <<b, y[2]>>>>]
<1>1. UnitsAt(g, b) = {p \in Nat \X Nat : p[1] \in 1..n /\ p[2] \in 1..g[b][p[1]]}
  BY UnitsAtFinite
<1>2. Units(g) = {x \in Nat \X (Nat \X Nat) : /\ x[1] \in 1..n /\ x[2][1] \in 1..n
                                              /\ x[2][2] \in 1..g[x[1]][x[2][1]]}
  BY UnitsFinite
<1>3. n \in Nat /\ \A i, j \in 1..n : g[i][j] = g[j][i]
  BY DEF Weighted
<1>4. IsFiniteSet(P) /\ Cardinality(P) = Pull(g, labels, b, l)
  <2>1. IsFiniteSet(P)
    BY PullType
  <2>2. Cardinality(P) = Pull(g, labels, b, l)
    BY DEF Pull, Pulling
  <2> QED BY <2>1, <2>2
<1>5. ASSUME NEW y \in P
      PROVE  y \in Nat \X Nat /\ y[1] \in 1..n /\ y[2] \in 1..g[b][y[1]] /\ labels[y[1]] = l
  BY <1>1 DEF Pulling
<1>6. ASSUME NEW y \in P PROVE <<b, y>> \in O
  <2>1. y \in Nat \X Nat /\ y[1] \in 1..n /\ y[2] \in 1..g[b][y[1]] /\ labels[y[1]] = l
    BY <1>5
  <2>2. <<b, y>> \in Units(g)
    BY <1>2, <1>3, <2>1
  <2> QED BY <2>1, <2>2 DEF Out
<1>7. ASSUME NEW x \in O PROVE x[2] \in P /\ x = <<b, x[2]>>
  <2>1. /\ x \in Nat \X (Nat \X Nat) /\ x[1] = b /\ x[2][1] \in 1..n
        /\ x[2][2] \in 1..g[b][x[2][1]] /\ labels[x[2][1]] = l
    BY <1>2 DEF Out
  <2>2. x[2] \in UnitsAt(g, b)
    BY <1>1, <2>1
  <2> QED BY <2>1, <2>2 DEF Pulling
<1>8. ASSUME NEW y \in P PROVE <<y[1], <<b, y[2]>>>> \in B
  <2>1. y \in Nat \X Nat /\ y[1] \in 1..n /\ y[2] \in 1..g[b][y[1]] /\ labels[y[1]] = l
    BY <1>5
  <2>2. <<y[1], <<b, y[2]>>>> \in Units(g)
    BY <1>2, <1>3, <2>1
  <2> QED BY <2>1, <2>2 DEF Back
<1>9. ASSUME NEW x \in B PROVE <<x[1], x[2][2]>> \in P /\ x = <<x[1], <<b, x[2][2]>>>>
  <2>1. /\ x \in Nat \X (Nat \X Nat) /\ x[2][1] = b /\ x[1] \in 1..n
        /\ x[2][2] \in 1..g[x[1]][b] /\ labels[x[1]] = l
    BY <1>2 DEF Back
  <2>2. <<x[1], x[2][2]>> \in UnitsAt(g, b)
    BY <1>1, <1>3, <2>1
  <2> QED BY <2>1, <2>2 DEF Pulling
<1> HIDE DEF P, O, B
<1>10. out \in Bijection(P, O)
  <2>1. out \in [P -> O] /\ \A x \in O : \E y \in P : out[y] = x
    BY <1>6, <1>7
  <2>2. \A y, z \in P : out[y] = out[z] => y = z
    OBVIOUS
  <2> QED BY <2>1, <2>2 DEF Bijection, Injection, Surjection, IsInjective
<1>11. back \in Bijection(P, B)
  <2>1. back \in [P -> B]
    BY <1>8
  <2>2. ASSUME NEW x \in B PROVE \E y \in P : back[y] = x
    <3> DEFINE y == <<x[1], x[2][2]>>
    <3>1. y \in P /\ x = <<y[1], <<b, y[2]>>>>
      BY <1>9
    <3>2. back[y] = x
      BY <3>1
    <3> QED BY <3>1, <3>2
  <2>3. \A y, z \in P : back[y] = back[z] => y = z
    <3> TAKE y, z \in P
    <3> HAVE back[y] = back[z]
    <3>1. y \in Nat \X Nat /\ z \in Nat \X Nat
      BY <1>5
    <3>2. y[1] = z[1] /\ y[2] = z[2]
      OBVIOUS
    <3> QED BY <3>1, <3>2
  <2> HIDE DEF back
  <2> QED BY <2>1, <2>2, <2>3 DEF Bijection, Injection, Surjection, IsInjective
<1>12. ExistsBijection(P, O) /\ ExistsBijection(P, B)
  <2> HIDE DEF out, back
  <2> QED BY <1>10, <1>11 DEF ExistsBijection
<1>13. /\ IsFiniteSet(O) /\ Cardinality(O) = Cardinality(P)
       /\ IsFiniteSet(B) /\ Cardinality(B) = Cardinality(P)
  BY <1>4, <1>12, FS_Bijection
<1> QED BY <1>4, <1>13 DEF O, B


LEMMA CardinalityOfThree ==
  ASSUME NEW A, NEW B, NEW C, IsFiniteSet(A), IsFiniteSet(B), IsFiniteSet(C),
         A \cap B = {}, A \cap C = {}, B \cap C = {}, NEW S, S = A \cup B \cup C
  PROVE  /\ Cardinality(A) \in Nat /\ Cardinality(B) \in Nat /\ Cardinality(C) \in Nat
         /\ Cardinality(S) = Cardinality(A) + Cardinality(B) + Cardinality(C)
<1>1. IsFiniteSet(A \cup B) /\ Cardinality(A \cup B) = Cardinality(A) + Cardinality(B) - Cardinality(A \cap B)
  BY FS_Union
<1>2. Cardinality({}) = 0
  BY FS_EmptySet
<1>3. (A \cup B) \cap C = {}
  OBVIOUS
<1>4. Cardinality((A \cup B) \cup C) = Cardinality(A \cup B) + Cardinality(C) - Cardinality((A \cup B) \cap C)
  BY <1>1, FS_Union
<1>5. Cardinality(A) \in Nat /\ Cardinality(B) \in Nat /\ Cardinality(C) \in Nat
  BY FS_CardinalityType
<1>6. Cardinality(A \cap B) = 0 /\ Cardinality((A \cup B) \cap C) = 0
  BY <1>2, <1>3
<1> QED BY <1>1, <1>4, <1>5, <1>6

\* The weight inside is that which does not touch b, and twice what pulls at b to its own label.
LEMMA InsideAt ==
  ASSUME NEW g, NEW n, Weighted(g, n), NEW b \in 1..n, NEW labels
  PROVE  /\ Cardinality(Away(g, labels, b)) \in Nat /\ Pull(g, labels, b, labels[b]) \in Nat
         /\ Inside(g, labels) = Cardinality(Away(g, labels, b)) + 2 * Pull(g, labels, b, labels[b])
<1> DEFINE A == Away(g, labels, b)
           O == Out(g, labels, b, labels[b])
           B == Back(g, labels, b, labels[b])
<1>1. IsFiniteSet(O) /\ Cardinality(O) = Pull(g, labels, b, labels[b])
      /\ IsFiniteSet(B) /\ Cardinality(B) = Pull(g, labels, b, labels[b])
  BY OutAndBack
<1>2. IsFiniteSet(A)
  <2>1. IsFiniteSet(Units(g))
    BY UnitsFinite
  <2>2. A \in SUBSET Units(g)
    BY DEF Away, Within
  <2> HIDE DEF A
  <2> QED BY <2>1, <2>2, FS_Subset
<1>3. A \cap O = {} /\ A \cap B = {}
  BY DEF Away, Out, Back
<1>4. O \cap B = {}
  <2> SUFFICES ASSUME NEW u \in O, u \in B PROVE FALSE
    OBVIOUS
  <2>1. u \in Units(g) /\ u[1] = b /\ u[2][1] = b
    BY DEF Out, Back
  <2>2. u[2][2] \in 1..g[b][b] /\ g[b][b] = 0
    <3>1. Units(g) = {x \in Nat \X (Nat \X Nat) : /\ x[1] \in 1..n /\ x[2][1] \in 1..n
                                                  /\ x[2][2] \in 1..g[x[1]][x[2][1]]}
      BY UnitsFinite
    <3> QED BY <2>1, <3>1 DEF Weighted
  <2> QED BY <2>2
<1>5. Within(g, labels) = A \cup O \cup B
  BY DEF Within, Away, Out, Back
<1>6. Inside(g, labels) = Cardinality(Within(g, labels))
  BY DEF Inside, Within
<1> HIDE DEF A, O, B
<1>7. /\ Cardinality(A) \in Nat /\ Cardinality(B) \in Nat /\ Cardinality(O) \in Nat
      /\ Cardinality(Within(g, labels)) = Cardinality(A) + Cardinality(O) + Cardinality(B)
  <2>1. IsFiniteSet(A) /\ IsFiniteSet(O) /\ IsFiniteSet(B)
    BY <1>1, <1>2
  <2> QED BY <2>1, <1>3, <1>4, <1>5, CardinalityOfThree
<1>8. Inside(g, labels) = Cardinality(A) + 2 * Pull(g, labels, b, labels[b])
  BY <1>1, <1>6, <1>7
<1> QED BY <1>1, <1>7, <1>8 DEF A

\* The labels after node b has got label q for p.
Relabelled(g, n, labels, b, p, q, new) ==
  /\ Weighted(g, n) /\ labels \in [1..n -> Nat] /\ b \in 1..n /\ q \in Nat
  /\ p = labels[b] /\ new = [labels EXCEPT ![b] = q]

\* What a node's new label brings inside.
LEMMA InsideMoves ==
  ASSUME NEW g, NEW n, NEW labels, NEW b, NEW p, NEW q, NEW new, Relabelled(g, n, labels, b, p, q, new)
  PROVE  \E rest \in Nat : /\ Inside(g, new) = rest + 2 * Pull(g, labels, b, q)
                           /\ Inside(g, labels) = rest + 2 * Pull(g, labels, b, p)
<1>0. Weighted(g, n) /\ labels \in [1..n -> Nat] /\ b \in 1..n /\ q \in Nat /\ p = labels[b]
  BY DEF Relabelled
<1>1. new[b] = q /\ \A i \in 1..n : i # b => new[i] = labels[i]
  BY DEF Relabelled
<1>2. Units(g) = {x \in Nat \X (Nat \X Nat) : /\ x[1] \in 1..n /\ x[2][1] \in 1..n
                                              /\ x[2][2] \in 1..g[x[1]][x[2][1]]}
  BY <1>0, UnitsFinite
<1>3. UnitsAt(g, b) = {u \in Nat \X Nat : u[1] \in 1..n /\ u[2] \in 1..g[b][u[1]]}
  BY <1>0, UnitsAtFinite
<1>4. Away(g, new, b) = Away(g, labels, b)
  <2>1. \A u \in Units(g) : u[1] \in 1..n /\ u[2][1] \in 1..n
    BY <1>2
  <2> QED BY <1>0, <1>1, <2>1 DEF Away, Within
<1>5. Pull(g, new, b, q) = Pull(g, labels, b, q)
  <2>1. \A u \in UnitsAt(g, b) : u[1] \in 1..n /\ u[1] # b
    BY <1>0, <1>3 DEF Weighted
  <2>2. {u \in UnitsAt(g, b) : new[u[1]] = q} = {u \in UnitsAt(g, b) : labels[u[1]] = q}
    BY <1>1, <2>1
  <2> QED BY <2>2 DEF Pull
<1>6. /\ Cardinality(Away(g, labels, b)) \in Nat /\ Pull(g, labels, b, labels[b]) \in Nat
      /\ Inside(g, labels) = Cardinality(Away(g, labels, b)) + 2 * Pull(g, labels, b, labels[b])
  BY <1>0, InsideAt
<1>7. /\ Pull(g, new, b, new[b]) \in Nat
      /\ Inside(g, new) = Cardinality(Away(g, new, b)) + 2 * Pull(g, new, b, new[b])
  BY <1>0, InsideAt
<1>8. Pull(g, new, b, new[b]) = Pull(g, labels, b, q)
  BY <1>1, <1>5
<1>9. Inside(g, new) = Cardinality(Away(g, labels, b)) + 2 * Pull(g, labels, b, q) /\ Pull(g, labels, b, q) \in Nat
  BY <1>4, <1>7, <1>8
<1> QED BY <1>0, <1>6, <1>9

\* A smaller label makes the sum of the labels smaller.
LEMMA HeightFalls ==
  ASSUME NEW g, NEW n, NEW labels, NEW b, NEW p, NEW q, NEW new, Relabelled(g, n, labels, b, p, q, new), q < p
  PROVE  Height(new) < Height(labels)
<1> DEFINE S == Pairs(1..n, [i \in 1..n |-> 1..labels[i]])
           T == Pairs(1..n, [i \in 1..n |-> 1..new[i]])
<1>0. /\ n \in Nat /\ labels \in [1..n -> Nat] /\ b \in 1..n /\ q \in Nat
      /\ new = [labels EXCEPT ![b] = q] /\ q < labels[b]
  BY DEF Relabelled, Weighted
<1>1. DOMAIN labels = 1..n /\ DOMAIN new = 1..n
  BY <1>0
<1>2. Height(labels) = Cardinality(S) /\ Height(new) = Cardinality(T)
  BY <1>1 DEF Height
<1>3. \A i \in 1..n : new[i] \in Nat /\ new[i] <= labels[i]
  BY <1>0
<1>4. IsFiniteSet(S)
  <2> DEFINE N == 1..n
             L == [i \in N |-> 1..labels[i]]
  <2>1. ASSUME NEW i \in N PROVE L[i] \in SUBSET Nat /\ IsFiniteSet(L[i])
    <3> DEFINE w == labels[i]
    <3>1. w \in Nat
      BY <1>0
    <3>2. IsFiniteSet(1..w)
      <4> HIDE DEF w
      <4> QED BY <3>1, FS_Interval
    <3>3. 1..w \in SUBSET Nat
      OBVIOUS
    <3> QED BY <3>2, <3>3
  <2>2. N \in SUBSET Nat /\ IsFiniteSet(N)
    BY <1>0, NodesFinite
  <2> HIDE DEF N, L
  <2>3. Loops(N, L)
    BY <2>1, <2>2 DEF Loops
  <2>4. IsFiniteSet(Pairs(N, L))
    BY <2>3, PairsFinite
  <2> QED BY <2>4 DEF N, L
<1>5. T \in SUBSET S
  <2> SUFFICES ASSUME NEW x \in T PROVE x \in S
    OBVIOUS
  <2>1. PICK i \in 1..n : x \in {i} \X (1..new[i])
    BY DEF Pairs
  <2>2. x \in {i} \X (1..labels[i])
    BY <1>0, <1>3, <2>1
  <2> QED BY <2>2 DEF Pairs
<1>6. <<b, labels[b]>> \in S /\ <<b, labels[b]>> \notin T
  <2>1. <<b, labels[b]>> \in S
    <3>1. labels[b] \in 1..labels[b]
      BY <1>0
    <3> QED BY <1>0, <3>1 DEF Pairs
  <2>2. ASSUME <<b, labels[b]>> \in T PROVE FALSE
    <3>1. PICK i \in 1..n : <<b, labels[b]>> \in {i} \X (1..new[i])
      BY <2>2 DEF Pairs
    <3>2. i = b /\ labels[b] \in 1..new[b]
      BY <3>1
    <3> QED BY <1>0, <3>2
  <2> QED BY <2>1, <2>2
<1> HIDE DEF S, T
<1>7. Cardinality(T) <= Cardinality(S) /\ Cardinality(T) # Cardinality(S)
  <2>1. /\ Cardinality(T) <= Cardinality(S)
        /\ Cardinality(S) = Cardinality(T) => S = T
    BY <1>4, <1>5, FS_Subset
  <2> QED BY <1>6, <2>1
<1>8. Cardinality(S) \in Nat /\ Cardinality(T) \in Nat
  <2>1. IsFiniteSet(T)
    BY <1>4, <1>5, FS_Subset
  <2> QED BY <1>4, <2>1, FS_CardinalityType
<1>9. Cardinality(T) < Cardinality(S)
  BY <1>7, <1>8
<1> QED BY <1>2, <1>9


\* A visit that changes a label makes progress.
LEMMA VisitProgress ==
  ASSUME NEW g, NEW n, Weighted(g, n), NEW b \in 1..n, NEW labels \in [1..n -> Nat],
         Heaviest(g, labels, b) # labels[b], NEW new, new = [labels EXCEPT ![b] = Heaviest(g, labels, b)]
  PROVE  \/ Inside(g, new) > Inside(g, labels)
         \/ Inside(g, new) = Inside(g, labels) /\ Height(new) < Height(labels)
<1> DEFINE q == Heaviest(g, labels, b)
           p == labels[b]
           here == Pull(g, labels, b, p)
           there == Pull(g, labels, b, q)
<1>0. n \in Nat
  BY DEF Weighted
<1>1. q \in Nat /\ (here < there \/ (here = there /\ q < p))
  BY HeaviestChosen
<1>n. Relabelled(g, n, labels, b, p, q, new)
  BY <1>1 DEF Relabelled
<1> HIDE DEF p, q
<1>2. \E rest \in Nat : Inside(g, new) = rest + 2 * there /\ Inside(g, labels) = rest + 2 * here
  BY <1>n, InsideMoves
<1>4. here \in Nat /\ there \in Nat
  <2>1. \A l : Pull(g, labels, b, l) \in 0..Cardinality(UnitsAt(g, b))
    BY PullType
  <2> QED BY <2>1
<1>3. q < p => Height(new) < Height(labels)
  BY <1>n, HeightFalls
<1>5. Inside(g, new) > Inside(g, labels) \/ (Inside(g, new) = Inside(g, labels) /\ Height(new) < Height(labels))
  BY <1>1, <1>2, <1>3, <1>4
<1> QED BY <1>5

\* Labels that no visit changes are settled, and stay so when they are renumbered.
LEMMA FixpointSettled ==
  ASSUME NEW g, NEW n, Weighted(g, n), NEW labels \in [1..n -> Nat],
         \A i \in 1..n : Heaviest(g, labels, i) = labels[i]
  PROVE  Settled(g, compact(labels))
<1> DEFINE c == compact(labels)
<1>0. DOMAIN g = 1..n /\ n \in Nat
  BY DEF Weighted
<1>1. /\ c \in [1..n -> Nat]
      /\ \A i, j \in 1..n : c[i] = c[j] <=> labels[i] = labels[j]
  BY <1>0, CompactNumbers
<1> HIDE DEF c
<1>2. ASSUME NEW i \in 1..n, NEW j \in 1..n
      PROVE  Pull(g, c, i, c[i]) >= Pull(g, c, i, c[j])
  <2>1. UnitsAt(g, i) = {p \in Nat \X Nat : p[1] \in 1..n /\ p[2] \in 1..g[i][p[1]]}
    BY UnitsAtFinite
  <2>2. ASSUME NEW k \in 1..n PROVE Pull(g, c, i, c[k]) = Pull(g, labels, i, labels[k])
    <3>1. \A u \in UnitsAt(g, i) : u[1] \in 1..n
      BY <2>1
    <3>2. {u \in UnitsAt(g, i) : c[u[1]] = c[k]} = {u \in UnitsAt(g, i) : labels[u[1]] = labels[k]}
      BY <1>1, <3>1
    <3> QED BY <3>2 DEF Pull
  <2>3. Pull(g, labels, i, labels[j]) <= Pull(g, labels, i, labels[i])
    BY HeaviestChosen
  <2>4. Pull(g, labels, i, labels[j]) \in Nat /\ Pull(g, labels, i, labels[i]) \in Nat
    <3>1. \A l : Pull(g, labels, i, l) \in 0..Cardinality(UnitsAt(g, i))
      BY PullType
    <3> QED BY <3>1
  <2> QED BY <2>2, <2>3, <2>4
<1> QED BY <1>0, <1>2 DEF Settled, c

-----------------------------------------------------------------------------
(* The graph that a rebuild makes.                                          *)

Chunk == [doc : Docs, text : Texts]

StoreFields ==
  {"content", "chunks", "edges", "indexedUpTo", "needsRebuild", "deferGraph", "g", "comm", "summaries"}

StoreRecord(m) ==
  /\ DOMAIN m = StoreFields
  /\ m.content \in [Docs -> Contents \cup {NULL}] /\ m.chunks \in Seq(Chunk)
  /\ m.indexedUpTo \in Nat /\ m.needsRebuild \in BOOLEAN /\ m.deferGraph \in BOOLEAN

\* The weights are similarities of the first n chunks, or those of a document's order.
GraphOf(g, chunks, n) ==
  /\ Weighted(g, n)
  /\ \A i, j \in 1..n : \/ g[i][j] \in {0, Near(chunks, i, j)}
                        \/ chunks[i].doc = chunks[j].doc /\ g[i][j] = SequentialWeight

EdgesOf(m) ==
  /\ m.indexedUpTo <= Len(m.chunks)
  /\ \A e \in m.edges : \E i, j \in 1..m.indexedUpTo : e.ends = {i, j} /\ e.w = Near(m.chunks, i, j)

\* Unless ordinals have moved, the edges and the graph are those of the chunks that
\* have been searched for.
Indexed(m) == ~m.needsRebuild => EdgesOf(m) /\ (m.g # NULL => GraphOf(m.g, m.chunks, m.indexedUpTo))

LEMMA NearFacts ==
  ASSUME NEW chunks \in Seq(Chunk), NEW i \in 1..Len(chunks), NEW j \in 1..Len(chunks)
  PROVE  Near(chunks, i, j) \in Nat /\ Near(chunks, i, j) = Near(chunks, j, i)
<1>1. chunks[i] \in Chunk /\ chunks[j] \in Chunk
  OBVIOUS
<1>2. chunks[i].text \in Texts /\ chunks[j].text \in Texts
  BY <1>1 DEF Chunk
<1>3. {chunks[i].text, chunks[j].text} = {chunks[j].text, chunks[i].text}
  OBVIOUS
<1> QED BY <1>2, <1>3, SimilarityAssumption DEF Near

LEMMA GreatestOfTwo ==
  ASSUME NEW a \in Nat, NEW b \in Nat, NEW S \in SUBSET {a, b}, S # {}
  PROVE  Max(S) \in S /\ Max(S) \in Nat
<1>1. \E x \in S : \A y \in S : x >= y
  <2>1. \A x \in S : x = a \/ x = b
    OBVIOUS
  <2>2. CASE a \in S /\ a >= b
    <3>1. \A y \in S : a >= y
      BY <2>1, <2>2
    <3> QED BY <2>2, <3>1
  <2>3. CASE b \in S /\ b >= a
    <3>1. \A y \in S : b >= y
      BY <2>1, <2>3
    <3> QED BY <2>3, <3>1
  <2>4. CASE a \notin S \/ b \notin S
    <3>1. PICK x \in S : TRUE
      OBVIOUS
    <3>2. \A y \in S : y = x
      BY <2>1, <2>4
    <3>3. \A y \in S : x >= y
      BY <2>1, <3>2
    <3> QED BY <3>1, <3>3
  <2> QED BY <2>2, <2>3, <2>4
<1>2. Max(S) \in S
  BY <1>1 DEF Max
<1> QED BY <1>2

\* A rebuild gives the graph of all the chunks, when they have been searched for.
LEMMA AddEdgesGraph ==
  ASSUME NEW m, StoreRecord(m), EdgesOf(m), m.indexedUpTo = Len(m.chunks)
  PROVE  GraphOf(AddEdges(m), m.chunks, Len(m.chunks))
<1> DEFINE n == Len(m.chunks)
           weights(i, j) == {e.w : e \in {e \in m.edges : e.ends = {i, j}}}
                            \cup {SequentialWeight : k \in {k \in {i - 1, i + 1} \cap {j} :
                                                              m.chunks[i].doc = m.chunks[j].doc}}
           g == AddEdges(m)
<1>1. n \in Nat /\ DOMAIN m.chunks = 1..n /\ m.chunks \in Seq(Chunk) /\ SequentialWeight \in Nat
  BY LimitsAssumption DEF StoreRecord
<1>2. g = [i \in 1..n |-> [j \in 1..n |-> IF i = j \/ weights(i, j) = {} THEN 0 ELSE Max(weights(i, j))]]
  BY <1>1 DEF AddEdges
<1>3. ASSUME NEW i \in 1..n, NEW j \in 1..n
      PROVE  /\ weights(i, j) = weights(j, i)
             /\ weights(i, j) \in SUBSET {Near(m.chunks, i, j), SequentialWeight}
             /\ SequentialWeight \in weights(i, j) \ {Near(m.chunks, i, j)} => m.chunks[i].doc = m.chunks[j].doc
  <2>1. {i, j} = {j, i} /\ i \in Int /\ j \in Int
    BY <1>1
  <2>2. j \in {i - 1, i + 1} <=> i \in {j - 1, j + 1}
    BY <2>1
  <2>3. ASSUME NEW e \in m.edges, e.ends = {i, j} PROVE e.w = Near(m.chunks, i, j)
    <3>1. PICK a, b \in 1..n : e.ends = {a, b} /\ e.w = Near(m.chunks, a, b)
      BY DEF EdgesOf
    <3>2. (a = i /\ b = j) \/ (a = j /\ b = i)
      BY <2>3, <3>1
    <3>3. Near(m.chunks, a, b) = Near(m.chunks, b, a)
      BY <1>1, NearFacts
    <3> QED BY <3>1, <3>2, <3>3
  <2>4. weights(i, j) \in SUBSET {Near(m.chunks, i, j), SequentialWeight}
    BY <2>3
  <2>5. weights(i, j) = weights(j, i)
    <3>1. \A e \in m.edges : e.ends = {i, j} <=> e.ends = {j, i}
      BY <2>1
    <3>2. {e \in m.edges : e.ends = {i, j}} = {e \in m.edges : e.ends = {j, i}}
      BY <3>1
    <3>3. \A x : x \in {SequentialWeight : k \in {k \in {i - 1, i + 1} \cap {j} : m.chunks[i].doc = m.chunks[j].doc}}
                 <=> x = SequentialWeight /\ j \in {i - 1, i + 1} /\ m.chunks[i].doc = m.chunks[j].doc
      OBVIOUS
    <3>4. \A x : x \in {SequentialWeight : k \in {k \in {j - 1, j + 1} \cap {i} : m.chunks[j].doc = m.chunks[i].doc}}
                 <=> x = SequentialWeight /\ i \in {j - 1, j + 1} /\ m.chunks[j].doc = m.chunks[i].doc
      OBVIOUS
    <3> QED BY <3>2, <3>3, <3>4, <2>2
  <2>6. SequentialWeight \in weights(i, j) \ {Near(m.chunks, i, j)} => m.chunks[i].doc = m.chunks[j].doc
    BY <2>3
  <2> QED BY <2>4, <2>5, <2>6
<1>4. ASSUME NEW i \in 1..n, NEW j \in 1..n
      PROVE  Near(m.chunks, i, j) \in Nat
  BY <1>1, NearFacts
<1> HIDE DEF weights, g, n
<1>5. ASSUME NEW i \in 1..n, NEW j \in 1..n, i # j, weights(i, j) # {}
      PROVE  Max(weights(i, j)) \in weights(i, j) /\ Max(weights(i, j)) \in Nat
  <2>1. weights(i, j) \in SUBSET {Near(m.chunks, i, j), SequentialWeight} /\ Near(m.chunks, i, j) \in Nat
    BY <1>3, <1>4
  <2> QED BY <1>1, <1>5, <2>1, GreatestOfTwo
<1>6. ASSUME NEW i \in 1..n, NEW j \in 1..n
      PROVE  /\ g[i][j] \in Nat /\ g[i][j] = g[j][i] /\ g[i][i] = 0
             /\ g[i][j] \in {0, Near(m.chunks, i, j)} \/ (m.chunks[i].doc = m.chunks[j].doc /\ g[i][j] = SequentialWeight)
  <2>1. g[i][j] = IF i = j \/ weights(i, j) = {} THEN 0 ELSE Max(weights(i, j))
    BY <1>2
  <2>2. g[j][i] = IF j = i \/ weights(j, i) = {} THEN 0 ELSE Max(weights(j, i))
    BY <1>2
  <2>3. g[i][i] = 0
    BY <1>2
  <2>4. weights(i, j) = weights(j, i)
    BY <1>3
  <2>5. g[i][j] \in Nat
    BY <2>1, <1>5
  <2>6. g[i][j] = 0 \/ g[i][j] \in weights(i, j)
    BY <2>1, <1>5
  <2>7. g[i][j] \in {0, Near(m.chunks, i, j)} \/ (m.chunks[i].doc = m.chunks[j].doc /\ g[i][j] = SequentialWeight)
    BY <1>3, <2>6
  <2> QED BY <2>1, <2>2, <2>3, <2>4, <2>5, <2>7
<1>7. g \in [1..n -> [1..n -> Nat]]
  <2>1. \A i, j \in 1..n : (IF i = j \/ weights(i, j) = {} THEN 0 ELSE Max(weights(i, j))) \in Nat
    BY <1>5
  <2> QED BY <1>2, <2>1
<1> QED BY <1>1, <1>6, <1>7 DEF GraphOf, Weighted, g, n


-----------------------------------------------------------------------------
(* The store between critical sections, and in them.                        *)

PartitionOf(g, comm) ==
  /\ DOMAIN comm = DOMAIN g
  /\ Labels(comm) = 1..Cardinality(Labels(comm))
  /\ \A i, j \in DOMAIN comm : comm[i] = comm[j] => Joined(g, i, j)

StoreOK(m) ==
  /\ StoreRecord(m) /\ Indexed(m)
  /\ m.deferGraph => m.g = NULL
  /\ m.comm # NULL => m.g # NULL /\ PartitionOf(m.g, m.comm)

\* The graph, if it is not put off, is that of all the chunks.
UpToDate(m) == ~m.needsRebuild /\ m.indexedUpTo = Len(m.chunks)
Complete(m) == m.deferGraph \/ UpToDate(m)

\* A graph has its partition, or is new.
Partitioned(m) == m.g # NULL => m.comm # NULL
Ready(m) == StoreOK(m) /\ (Partitioned(m) \/ UpToDate(m))

\* What no step of a rebuild touches.
SameTexts(m, r) ==
  r.content = m.content /\ r.chunks = m.chunks /\ r.summaries = m.summaries /\ r.deferGraph = m.deferGraph

LEMMA RebuildReady ==
  ASSUME NEW m, StoreRecord(m), EdgesOf(m), UpToDate(m), ~m.deferGraph
  PROVE  /\ Ready(rebuildGraph(m)) /\ Complete(rebuildGraph(m))
         /\ SameTexts(m, rebuildGraph(m))
<1> DEFINE r == rebuildGraph(m)
<1>1. /\ r.content = m.content /\ r.chunks = m.chunks /\ r.edges = m.edges /\ r.indexedUpTo = m.indexedUpTo
      /\ r.needsRebuild = m.needsRebuild /\ r.deferGraph = m.deferGraph /\ r.summaries = m.summaries
      /\ r.g = AddEdges(m) /\ r.comm = NULL
      /\ DOMAIN r = StoreFields
  BY DEF rebuildGraph, StoreRecord, StoreFields
<1> HIDE DEF r
<1>2. StoreRecord(r)
  BY <1>1 DEF StoreRecord
<1>3. EdgesOf(r)
  BY <1>1 DEF EdgesOf
<1>4. GraphOf(AddEdges(m), m.chunks, Len(m.chunks))
  BY AddEdgesGraph DEF UpToDate
<1>5. Indexed(r)
  BY <1>1, <1>3, <1>4 DEF Indexed, UpToDate
<1>6. UpToDate(r)
  BY <1>1 DEF UpToDate
<1> QED BY <1>1, <1>2, <1>5, <1>6 DEF Ready, StoreOK, Complete, SameTexts, r

LEMMA DiscoverSearched ==
  ASSUME NEW m, StoreRecord(m), EdgesOf(m), ~m.needsRebuild
  PROVE  /\ StoreRecord(discoverEdges(m)) /\ EdgesOf(discoverEdges(m)) /\ UpToDate(discoverEdges(m))
         /\ discoverEdges(m).deferGraph = m.deferGraph /\ SameTexts(m, discoverEdges(m))
<1> DEFINE T == [i \in DOMAIN m.chunks |-> Neighbours(m.chunks, i)]
           near == Pairs(m.indexedUpTo + 1..Len(m.chunks), T)
           fresh == {[ends |-> {p[1], p[2]}, w |-> Near(m.chunks, p[1], p[2])] : p \in near}
           r == discoverEdges(m)
           n == Len(m.chunks)
<1>0. n \in Nat /\ DOMAIN m.chunks = 1..n /\ m.indexedUpTo \in Nat /\ m.indexedUpTo <= n
  BY DEF StoreRecord, EdgesOf
<1>1. /\ r.content = m.content /\ r.chunks = m.chunks /\ r.edges = m.edges \cup fresh /\ r.indexedUpTo = n
      /\ r.needsRebuild = m.needsRebuild /\ r.deferGraph = m.deferGraph /\ r.summaries = m.summaries
      /\ DOMAIN r = StoreFields
  <2> HIDE DEF near
  <2> QED BY DEF discoverEdges, StoreRecord, StoreFields, near
<1>2. ASSUME NEW e \in fresh
      PROVE  \E i, j \in 1..n : e.ends = {i, j} /\ e.w = Near(m.chunks, i, j)
  <2>1. PICK p \in near : e = [ends |-> {p[1], p[2]}, w |-> Near(m.chunks, p[1], p[2])]
    <3> HIDE DEF near
    <3> QED BY <1>2
  <2>2. PICK i \in m.indexedUpTo + 1..n : p \in {i} \X Neighbours(m.chunks, i)
    <3>1. PICK i \in m.indexedUpTo + 1..n : p \in {i} \X T[i]
      <4> HIDE DEF T
      <4> QED BY DEF Pairs
    <3>2. i \in 1..n
      BY <1>0
    <3> QED BY <1>0, <3>1, <3>2
  <2>3. p[1] \in 1..n /\ p[2] \in 1..n
    BY <1>0, <2>2 DEF Neighbours
  <2>4. e.ends = {p[1], p[2]} /\ e.w = Near(m.chunks, p[1], p[2])
    BY <2>1
  <2> HIDE DEF near
  <2> QED BY <2>3, <2>4
<1>3. ASSUME NEW e \in m.edges
      PROVE  \E i, j \in 1..n : e.ends = {i, j} /\ e.w = Near(m.chunks, i, j)
  <2>1. PICK i, j \in 1..m.indexedUpTo : e.ends = {i, j} /\ e.w = Near(m.chunks, i, j)
    BY DEF EdgesOf
  <2>2. i \in 1..n /\ j \in 1..n
    BY <1>0
  <2> QED BY <2>1, <2>2
<1> HIDE DEF fresh, near, r
<1>4. EdgesOf(r)
  <2>1. \A e \in r.edges : \E i, j \in 1..n : e.ends = {i, j} /\ e.w = Near(m.chunks, i, j)
    BY <1>1, <1>2, <1>3
  <2> QED BY <1>0, <1>1, <2>1 DEF EdgesOf
<1>5. StoreRecord(r)
  BY <1>0, <1>1 DEF StoreRecord
<1>6. UpToDate(r)
  BY <1>1 DEF UpToDate
<1> QED BY <1>1, <1>4, <1>5, <1>6 DEF r, SameTexts

\* The mutation's last part: the graph is rebuilt if it has to be.
LEMMA ReindexReady ==
  ASSUME NEW m, Ready(m)
  PROVE  /\ Ready(reindexLocked(m)) /\ Complete(reindexLocked(m))
         /\ SameTexts(m, reindexLocked(m))
<1> DEFINE r == IF m.needsRebuild
                THEN [m EXCEPT !.needsRebuild = FALSE, !.edges = {}, !.indexedUpTo = 0] ELSE m
<1> USE DEF Ready
<1>0. /\ m.indexedUpTo \in Nat /\ Len(m.chunks) \in Nat /\ m.needsRebuild \in BOOLEAN /\ m.deferGraph \in BOOLEAN
      /\ StoreRecord(m)
  BY DEF StoreOK, StoreRecord
<1>1. /\ r.content = m.content /\ r.chunks = m.chunks /\ r.summaries = m.summaries
      /\ r.deferGraph = m.deferGraph /\ r.g = m.g /\ r.comm = m.comm /\ ~r.needsRebuild
      /\ StoreRecord(r) /\ EdgesOf(r) /\ r.indexedUpTo \in Nat
      /\ m.needsRebuild => r.indexedUpTo = 0
  <2>1. CASE ~m.needsRebuild
    BY <1>0, <2>1 DEF StoreOK, Indexed
  <2>2. CASE m.needsRebuild
    <3>1. /\ r.content = m.content /\ r.chunks = m.chunks /\ r.summaries = m.summaries
          /\ r.deferGraph = m.deferGraph /\ r.g = m.g /\ r.comm = m.comm /\ r.needsRebuild = FALSE
          /\ r.edges = {} /\ r.indexedUpTo = 0
          /\ DOMAIN r = StoreFields
      BY <1>0, <2>2 DEF StoreRecord, StoreFields
    <3> HIDE DEF r
    <3>b. r.needsRebuild \in BOOLEAN /\ r.deferGraph \in BOOLEAN
      BY <1>0, <3>1
    <3>2. StoreRecord(r)
      BY <1>0, <3>1, <3>b DEF StoreRecord
    <3>3. EdgesOf(r)
      BY <1>0, <3>1 DEF EdgesOf
    <3> QED BY <3>1, <3>2, <3>3
  <2> QED BY <1>0, <2>1, <2>2
<1>2. reindexLocked(m) = IF r.deferGraph THEN r
                         ELSE IF r.indexedUpTo >= Len(r.chunks)
                              THEN IF r.g = NULL \/ r.indexedUpTo = 0 THEN rebuildGraph(r) ELSE r
                              ELSE rebuildGraph(discoverEdges(r))
  BY DEF reindexLocked
<1>3. ~m.needsRebuild => r = m
  OBVIOUS
<1>4. SameTexts(m, r) /\ r.indexedUpTo <= Len(r.chunks)
  BY <1>1 DEF SameTexts, EdgesOf
<1> HIDE DEF r
<1>5. CASE r.deferGraph
  <2>1. r.g = NULL /\ r.comm = NULL
    BY <1>1, <1>5 DEF StoreOK
  <2>2. StoreOK(r)
    BY <1>1, <1>5, <2>1 DEF StoreOK, Indexed
  <2> QED BY <1>2, <1>4, <1>5, <2>1, <2>2 DEF Ready, Partitioned, Complete
<1>6. CASE ~r.deferGraph /\ r.indexedUpTo >= Len(r.chunks)
  <2>1. UpToDate(r)
    BY <1>0, <1>1, <1>4, <1>6 DEF UpToDate
  <2>2. CASE r.g = NULL \/ r.indexedUpTo = 0
    <3>1. Ready(rebuildGraph(r)) /\ Complete(rebuildGraph(r)) /\ SameTexts(r, rebuildGraph(r))
      BY <1>1, <1>6, <2>1, RebuildReady
    <3>2. reindexLocked(m) = rebuildGraph(r)
      BY <1>2, <1>6, <2>2
    <3> QED BY <1>4, <3>1, <3>2 DEF SameTexts
  <2>3. CASE ~(r.g = NULL \/ r.indexedUpTo = 0)
    <3>1. reindexLocked(m) = m /\ r = m
      BY <1>0, <1>1, <1>2, <1>3, <1>6, <2>3
    <3> QED BY <1>4, <2>1, <3>1 DEF Ready, Complete
  <2> QED BY <2>2, <2>3
<1>7. CASE ~r.deferGraph /\ ~(r.indexedUpTo >= Len(r.chunks))
  <2> DEFINE d == discoverEdges(r)
  <2>1. StoreRecord(d) /\ EdgesOf(d) /\ UpToDate(d) /\ d.deferGraph = r.deferGraph /\ SameTexts(r, d)
    BY <1>1, DiscoverSearched
  <2>2. reindexLocked(m) = rebuildGraph(d)
    BY <1>2, <1>7
  <2> HIDE DEF d
  <2>3. Ready(rebuildGraph(d)) /\ Complete(rebuildGraph(d)) /\ SameTexts(d, rebuildGraph(d))
    BY <1>7, <2>1, RebuildReady
  <2> QED BY <1>4, <2>1, <2>2, <2>3 DEF SameTexts
<1> QED BY <1>0, <1>1, <1>5, <1>6, <1>7

LEMMA EnsureReady ==
  ASSUME NEW m, StoreOK(m), Partitioned(m)
  PROVE  /\ Ready(ensureGraphLocked(m))
         /\ Complete(m) => Complete(ensureGraphLocked(m))
<1>1. CASE ~m.deferGraph
  BY <1>1 DEF ensureGraphLocked, Ready
<1>2. CASE m.deferGraph
  <2> DEFINE r == [m EXCEPT !.deferGraph = FALSE, !.edges = {}, !.indexedUpTo = 0]
  <2>1. /\ r.content = m.content /\ r.chunks = m.chunks /\ r.summaries = m.summaries
        /\ r.deferGraph = FALSE /\ r.g = m.g /\ r.comm = m.comm /\ r.needsRebuild = m.needsRebuild
        /\ r.edges = {} /\ r.indexedUpTo = 0
        /\ DOMAIN r = StoreFields
    BY DEF StoreOK, StoreRecord, StoreFields
  <2>2. ensureGraphLocked(m) = reindexLocked(r)
    BY <1>2 DEF ensureGraphLocked
  <2> HIDE DEF r
  <2>3. r.g = NULL /\ r.comm = NULL
    BY <1>2, <2>1 DEF StoreOK
  <2>4. StoreRecord(r) /\ Len(r.chunks) \in Nat
    <3>1. StoreRecord(m)
      BY DEF StoreOK
    <3>b. r.deferGraph \in BOOLEAN
      BY <2>1
    <3> QED BY <2>1, <3>1, <3>b DEF StoreRecord
  <2>5. EdgesOf(r)
    BY <2>1, <2>4 DEF EdgesOf
  <2>6. StoreOK(r) /\ Partitioned(r)
    BY <2>1, <2>3, <2>4, <2>5 DEF StoreOK, Indexed, Partitioned
  <2>7. Ready(reindexLocked(r)) /\ Complete(reindexLocked(r))
    BY <2>6, ReindexReady DEF Ready
  <2> QED BY <2>2, <2>7
<1> QED BY <1>1, <1>2


-----------------------------------------------------------------------------
(* Documents that go and come.                                              *)

\* Chunks without those of a document; as many as there were, they are the same.
LEMMA NoneOfKeeps ==
  ASSUME NEW s \in Seq(Chunk), NEW id
  PROVE  /\ NoneOf(s, id) \in Seq(Chunk)
         /\ Len(NoneOf(s, id)) = Len(s) => NoneOf(s, id) = s
<1> DEFINE n == Len(s)
           S == 1..n
           K == {i \in DOMAIN s : s[i].doc # id}
           kept == Ordered(K)
<1>0. n \in Nat /\ DOMAIN s = S /\ s = [i \in S |-> s[i]] /\ \A i \in S : s[i] \in Chunk
  OBVIOUS
<1>1. S \in SUBSET Nat /\ IsFiniteSet(S) /\ K \in SUBSET S
  <2>1. IsFiniteSet(1..n)
    <3> HIDE DEF n
    <3> QED BY <1>0, FS_Interval
  <2> QED BY <1>0, <2>1
<1> HIDE DEF K, n
<1>2. K \in SUBSET Nat /\ IsFiniteSet(K)
  <2> HIDE DEF S
  <2> QED BY <1>1, FS_Subset
<1>3. /\ Cardinality(K) \in Nat /\ kept \in [1..Cardinality(K) -> K]
      /\ kept \in Seq(K) /\ Len(kept) = Cardinality(K)
  BY <1>2, OrderedLists
<1>4. NoneOf(s, id) = [i \in 1..Cardinality(K) |-> s[kept[i]]]
  <2>1. NoneOf(s, id) = [i \in DOMAIN kept |-> s[kept[i]]]
    BY DEF NoneOf, K
  <2> HIDE DEF kept
  <2> QED BY <1>3, <2>1
<1> HIDE DEF kept
<1>5. NoneOf(s, id) \in Seq(Chunk) /\ Len(NoneOf(s, id)) = Cardinality(K)
  <2>1. \A i \in 1..Cardinality(K) : s[kept[i]] \in Chunk
    BY <1>0, <1>1, <1>3
  <2> QED BY <1>3, <1>4, <2>1
<1>6. ASSUME Len(NoneOf(s, id)) = n PROVE NoneOf(s, id) = s
  <2>1. Ordered(S) = [i \in S |-> i]
    BY <1>0, IdentityOrdered
  <2>2. Len(Ordered(S)) = n
    BY <1>0, <2>1
  <2>3. Len(Ordered(S)) = Len(Ordered(K))
    BY <1>3, <1>5, <1>6, <2>2 DEF kept
  <2>4. S = K
    <3> HIDE DEF S
    <3> QED BY <1>1, <2>3, SameSize
  <2>5. kept = [i \in S |-> i] /\ Cardinality(K) = n
    BY <1>5, <1>6, <2>1, <2>4 DEF kept
  <2> QED BY <1>0, <1>4, <2>5
<1> QED BY <1>5, <1>6 DEF n

\* A partition and its graph stay what they were; the chunks may move.
SameGraph(m, r) ==
  r.g = m.g /\ r.comm = m.comm /\ r.deferGraph = m.deferGraph /\ r.summaries = m.summaries

LEMMA RemoveOK ==
  ASSUME NEW m, StoreOK(m), NEW id \in Docs
  PROVE  StoreOK(removeDocLocked(m, id)) /\ SameGraph(m, removeDocLocked(m, id))
<1> DEFINE kept == NoneOf(m.chunks, id)
           r == removeDocLocked(m, id)
<1>0. StoreRecord(m) /\ m.chunks \in Seq(Chunk)
  BY DEF StoreOK, StoreRecord
<1>1. kept \in Seq(Chunk) /\ (Len(kept) = Len(m.chunks) => kept = m.chunks)
  BY <1>0, NoneOfKeeps
<1>2. /\ r.content = [m.content EXCEPT ![id] = NULL] /\ r.chunks = kept
      /\ r.edges = m.edges /\ r.indexedUpTo = m.indexedUpTo
      /\ r.needsRebuild = (m.needsRebuild \/ Len(kept) # Len(m.chunks)) /\ r.deferGraph = m.deferGraph
      /\ r.g = m.g /\ r.comm = m.comm /\ r.summaries = m.summaries /\ DOMAIN r = StoreFields
  <2> HIDE DEF kept
  <2> QED BY <1>0 DEF removeDocLocked, StoreRecord, StoreFields, kept
<1> HIDE DEF kept, r
<1>3. r.needsRebuild \in BOOLEAN
  BY <1>0, <1>2 DEF StoreRecord
<1>4. r.content \in [Docs -> Contents \cup {NULL}]
  BY <1>0, <1>2 DEF StoreRecord
<1>5. StoreRecord(r)
  BY <1>0, <1>1, <1>2, <1>3, <1>4 DEF StoreRecord
<1>6. Indexed(r)
  <2> SUFFICES ASSUME ~r.needsRebuild PROVE EdgesOf(r) /\ (r.g # NULL => GraphOf(r.g, r.chunks, r.indexedUpTo))
    BY DEF Indexed
  <2>1. ~m.needsRebuild /\ r.chunks = m.chunks
    BY <1>1, <1>2
  <2> QED BY <1>2, <2>1 DEF StoreOK, Indexed, EdgesOf
<1> QED BY <1>2, <1>5, <1>6 DEF StoreOK, SameGraph, r

LEMMA ApplyOK ==
  ASSUME NEW m, StoreOK(m), NEW id \in Docs, NEW content \in Contents
  PROVE  StoreOK(applyPreparedLocked(m, id, content)) /\ SameGraph(m, applyPreparedLocked(m, id, content))
<1>1. CASE Duplicate(m, content)
  BY <1>1 DEF applyPreparedLocked, SameGraph
<1>2. CASE ~Duplicate(m, content)
  <2> DEFINE d == removeDocLocked(m, id)
             more == ChunksOf(id, content)
             r == applyPreparedLocked(m, id, content)
  <2>1. StoreOK(d) /\ SameGraph(m, d)
    BY RemoveOK
  <2>2. r = [d EXCEPT !.chunks = @ \o more, !.content[id] = content]
    BY <1>2 DEF applyPreparedLocked
  <2>3. more \in Seq(Chunk)
    <3>1. Pieces[content] \in Seq(Texts)
      BY PiecesAssumption
    <3> DEFINE P == Pieces[content]
               n == Len(P)
    <3>2. P \in Seq(Texts) /\ n \in Nat /\ DOMAIN P = 1..n /\ \A i \in 1..n : P[i] \in Texts
      BY <3>1
    <3>3. more = [i \in 1..n |-> [doc |-> id, text |-> P[i]]]
      BY <3>2 DEF ChunksOf
    <3> HIDE DEF P, n, more
    <3>4. \A i \in 1..n : [doc |-> id, text |-> P[i]] \in Chunk
      BY <3>2 DEF Chunk
    <3> QED BY <3>2, <3>3, <3>4
  <2> HIDE DEF d, more, r
  <2>4. StoreRecord(d)
    BY <2>1 DEF StoreOK
  <2>5. /\ r.content = [d.content EXCEPT ![id] = content] /\ r.chunks = d.chunks \o more
        /\ r.edges = d.edges /\ r.indexedUpTo = d.indexedUpTo
        /\ r.needsRebuild = d.needsRebuild /\ r.deferGraph = d.deferGraph
        /\ r.g = d.g /\ r.comm = d.comm /\ r.summaries = d.summaries /\ DOMAIN r = StoreFields
    BY <2>2, <2>4 DEF StoreRecord, StoreFields
  <2>6. /\ r.chunks \in Seq(Chunk) /\ Len(d.chunks) \in Nat /\ Len(d.chunks) <= Len(r.chunks)
        /\ \A i \in 1..Len(d.chunks) : r.chunks[i] = d.chunks[i]
    <3>1. d.chunks \in Seq(Chunk)
      BY <2>4 DEF StoreRecord
    <3> QED BY <2>3, <2>5, <3>1
  <2>7. r.content \in [Docs -> Contents \cup {NULL}]
    BY <2>4, <2>5 DEF StoreRecord
  <2>8. StoreRecord(r)
    BY <2>4, <2>5, <2>6, <2>7 DEF StoreRecord
  <2>9. Indexed(r)
    <3> SUFFICES ASSUME ~r.needsRebuild
                 PROVE  EdgesOf(r) /\ (r.g # NULL => GraphOf(r.g, r.chunks, r.indexedUpTo))
      BY DEF Indexed
    <3>1. EdgesOf(d) /\ (d.g # NULL => GraphOf(d.g, d.chunks, d.indexedUpTo))
      BY <2>1, <2>5 DEF StoreOK, Indexed
    <3>2. d.indexedUpTo \in Nat /\ d.indexedUpTo <= Len(d.chunks) /\ Len(r.chunks) \in Nat
      BY <2>4, <2>6, <3>1 DEF StoreRecord, EdgesOf
    <3>3. \A i \in 1..d.indexedUpTo : r.chunks[i] = d.chunks[i]
      BY <2>6, <3>2
    <3>4. \A i, j \in 1..d.indexedUpTo : Near(r.chunks, i, j) = Near(d.chunks, i, j)
      BY <3>3 DEF Near
    <3>5. EdgesOf(r)
      <4>1. ASSUME NEW e \in r.edges
            PROVE  \E i, j \in 1..r.indexedUpTo : e.ends = {i, j} /\ e.w = Near(r.chunks, i, j)
        <5>1. PICK i, j \in 1..d.indexedUpTo : e.ends = {i, j} /\ e.w = Near(d.chunks, i, j)
          BY <2>5, <3>1 DEF EdgesOf
        <5>2. Near(r.chunks, i, j) = Near(d.chunks, i, j)
          BY <3>4
        <5> QED BY <2>5, <5>1, <5>2
      <4>2. r.indexedUpTo <= Len(r.chunks)
        BY <2>5, <2>6, <3>2
      <4> QED BY <4>1, <4>2 DEF EdgesOf
    <3>6. ASSUME r.g # NULL PROVE GraphOf(r.g, r.chunks, r.indexedUpTo)
      <4> DEFINE n == d.indexedUpTo
                 g == d.g
      <4>1. /\ Weighted(g, n)
            /\ \A i, j \in 1..n : \/ g[i][j] \in {0, Near(d.chunks, i, j)}
                                  \/ d.chunks[i].doc = d.chunks[j].doc /\ g[i][j] = SequentialWeight
        BY <2>5, <3>1, <3>6 DEF GraphOf
      <4>2. r.g = g /\ r.indexedUpTo = n
        BY <2>5
      <4> HIDE DEF n, g
      <4>3. ASSUME NEW i \in 1..n, NEW j \in 1..n
            PROVE  \/ g[i][j] \in {0, Near(r.chunks, i, j)}
                   \/ r.chunks[i].doc = r.chunks[j].doc /\ g[i][j] = SequentialWeight
        <5>1. Near(r.chunks, i, j) = Near(d.chunks, i, j) /\ r.chunks[i] = d.chunks[i] /\ r.chunks[j] = d.chunks[j]
          BY <3>3, <3>4 DEF n
        <5> QED BY <4>1, <5>1
      <4> QED BY <4>1, <4>2, <4>3 DEF GraphOf
    <3> QED BY <3>5, <3>6
  <2>10. StoreOK(r)
    BY <2>1, <2>5, <2>8, <2>9 DEF StoreOK
  <2>11. SameGraph(m, r)
    BY <2>1, <2>5 DEF SameGraph
  <2> QED BY <2>10, <2>11 DEF r
<1> QED BY <1>1, <1>2


-----------------------------------------------------------------------------
(* Detections.                                                              *)

\* Every label is that of a node a path leads to; in a sweep that has changed nothing, the
\* nodes it has visited have the label they would choose.
DetectionOK(g, n, s) ==
  /\ s.labels \in [1..n -> 1..n] /\ s.iter \in 1..MaxIter /\ s.todo \in Seq(1..n)
  /\ \A i \in 1..n : Joined(g, i, s.labels[i])
  /\ ~s.changed => \A i \in 1..n : i \in ToSet(s.todo) \/ Heaviest(g, s.labels, i) = s.labels[i]

SweepOK(m, s) ==
  s # NULL => /\ s \in Detection /\ m.g # NULL /\ m.comm = NULL /\ UpToDate(m)
              /\ DetectionOK(m.g, Len(m.chunks), s)

LEMMA NodesAreNumbers ==
  ASSUME NEW n \in Nat, NEW q \in Seq(1..n)
  PROVE  q \in Seq(Nat)
OBVIOUS

LEMMA LabelsAreNumbers ==
  ASSUME NEW n \in Nat, NEW labels \in [1..n -> 1..n]
  PROVE  labels \in [1..n -> Nat] /\ labels \in Seq(Nat)
OBVIOUS

LEMMA OrderVisits ==
  ASSUME use \in Uses, NEW n \in Nat, NEW k \in 1..MaxIter
  PROVE  Order(n, k) \in Seq(1..n) /\ ToSet(Order(n, k)) = 1..n
<1>1. CASE n \in DOMAIN use.order
  <2>1. use.order \in Orders
    BY UsesAssumption DEF Use
  <2>2. use.order[n][k] \in [1..n -> 1..n] /\ ToSet(use.order[n][k]) = 1..n
    BY <1>1, <2>1, OrdersAssumption
  <2>3. Order(n, k) = use.order[n][k]
    BY <1>1 DEF Order
  <2> QED BY <2>2, <2>3
<1>2. CASE n \notin DOMAIN use.order
  <2>1. Order(n, k) = [i \in 1..n |-> i]
    BY <1>2 DEF Order
  <2>2. Order(n, k) \in Seq(1..n)
    BY <2>1
  <2>3. \A i \in 1..n : i \in ToSet(Order(n, k))
    BY <2>1 DEF ToSet
  <2>4. ToSet(Order(n, k)) \in SUBSET (1..n)
    BY <2>1 DEF ToSet
  <2> QED BY <2>2, <2>3, <2>4
<1> QED BY <1>1, <1>2

LEMMA SweepBegins ==
  ASSUME use \in Uses, NEW g, NEW n \in Nat, NEW k \in 1..MaxIter, NEW labels \in [1..n -> 1..n],
         \A i \in 1..n : Joined(g, i, labels[i])
  PROVE  Sweep(n, k, labels) \in Detection /\ DetectionOK(g, n, Sweep(n, k, labels))
<1> DEFINE s == Sweep(n, k, labels)
           visits == Order(n, k)
<1>1. visits \in Seq(1..n) /\ ToSet(visits) = 1..n
  BY OrderVisits
<1>2. s = [labels |-> labels, iter |-> k, todo |-> visits, changed |-> FALSE]
  BY DEF Sweep
<1> HIDE DEF s, visits
<1>3. s.labels = labels /\ s.iter = k /\ s.todo = visits /\ s.changed = FALSE
  BY <1>2
<1>4. s \in Detection
  <2>1. labels \in Seq(Nat) /\ visits \in Seq(Nat) /\ k \in Nat
    <3>1. visits \in Seq(Nat)
      BY <1>1, NodesAreNumbers
    <3>2. labels \in Seq(Nat)
      BY LabelsAreNumbers
    <3>3. k \in Nat
      BY LimitsAssumption
    <3> QED BY <3>1, <3>2, <3>3
  <2>2. FALSE \in BOOLEAN
    OBVIOUS
  <2> QED BY <1>2, <2>1, <2>2 DEF Detection
<1>5. DetectionOK(g, n, s)
  BY <1>1, <1>3 DEF DetectionOK
<1> QED BY <1>4, <1>5 DEF s

\* What a visit makes of a detection.
Visited(g, s) ==
  LET i == Head(s.todo)
      best == Heaviest(g, s.labels, i)
  IN  [s EXCEPT !.todo = Tail(@), !.labels[i] = best, !.changed = @ \/ best # s.labels[i]]

LEMMA VisitedOK ==
  ASSUME NEW g, NEW n, Weighted(g, n), NEW s \in Detection, DetectionOK(g, n, s), s.todo # <<>>
  PROVE  Visited(g, s) \in Detection /\ DetectionOK(g, n, Visited(g, s))
<1> DEFINE b == Head(s.todo)
           rest == Tail(s.todo)
           best == Heaviest(g, s.labels, b)
           new == [s.labels EXCEPT ![b] = best]
           r == Visited(g, s)
<1>0. n \in Nat /\ DOMAIN g = 1..n
  BY DEF Weighted
<1>1. b \in 1..n /\ rest \in Seq(1..n) /\ s.labels \in [1..n -> 1..n] /\ s.labels \in [1..n -> Nat]
  <2>1. s.todo \in Seq(1..n) /\ s.labels \in [1..n -> 1..n]
    BY DEF DetectionOK
  <2>2. s.labels \in [1..n -> Nat]
    BY <1>0, <2>1, LabelsAreNumbers
  <2>3. b \in 1..n /\ rest \in Seq(1..n)
    <3> DEFINE S == 1..n
               q == s.todo
    <3>1. q \in Seq(S) /\ q # <<>>
      BY <2>1
    <3>2. Head(q) \in S /\ Tail(q) \in Seq(S)
      <4> HIDE DEF S, q
      <4> QED BY <3>1
    <3> QED BY <3>2
  <2> QED BY <2>1, <2>2, <2>3
<1>2. ToSet(s.todo) = {b} \cup ToSet(rest)
  <2>1. s.todo \in Seq(1..n) /\ s.todo # <<>>
    BY DEF DetectionOK
  <2> DEFINE q == s.todo
             m == Len(q)
  <2>2. m \in Nat /\ m >= 1 /\ DOMAIN q = 1..m /\ b = q[1] /\ DOMAIN rest = 1..(m - 1)
        /\ \A i \in 1..(m - 1) : rest[i] = q[i + 1]
    BY <2>1
  <2> HIDE DEF q, m, b, rest
  <2>3. \A x \in ToSet(q) : x = b \/ x \in ToSet(rest)
    <3> SUFFICES ASSUME NEW i \in 1..m PROVE q[i] = b \/ q[i] \in ToSet(rest)
      BY <2>2 DEF ToSet
    <3>1. CASE i = 1
      BY <2>2, <3>1
    <3>2. CASE i # 1
      <4>1. i - 1 \in 1..(m - 1) /\ q[i] = rest[i - 1]
        BY <2>2, <3>2
      <4> QED BY <2>2, <4>1 DEF ToSet
    <3> QED BY <3>1, <3>2
  <2>4. b \in ToSet(q)
    BY <2>2 DEF ToSet
  <2>5. ToSet(rest) \subseteq ToSet(q)
    <3> SUFFICES ASSUME NEW i \in 1..(m - 1) PROVE rest[i] \in ToSet(q)
      BY <2>2 DEF ToSet
    <3>1. i + 1 \in 1..m /\ rest[i] = q[i + 1]
      BY <2>2
    <3> QED BY <2>2, <3>1 DEF ToSet
  <2> QED BY <2>3, <2>4, <2>5 DEF q
<1>3. /\ best \in Nat
      /\ best = s.labels[b] \/ \E j \in Adjacent(g, b) : best = s.labels[j]
  BY <1>1, HeaviestChosen
<1>4. \A i \in 1..n : Joined(g, i, s.labels[i])
  BY DEF DetectionOK
<1>5. best \in 1..n /\ Joined(g, b, best)
  <2>1. CASE best = s.labels[b]
    BY <1>1, <1>4, <2>1
  <2>2. CASE \E j \in Adjacent(g, b) : best = s.labels[j]
    <3>1. PICK j \in Adjacent(g, b) : best = s.labels[j]
      BY <2>2
    <3>2. j \in 1..n
      BY <1>0 DEF Adjacent
    <3>3. Joined(g, b, j)
      BY <1>0, <1>1, JoinedAdjacent
    <3>4. Joined(g, b, s.labels[j])
      BY <1>4, <3>2, <3>3, JoinedOn
    <3> QED BY <1>1, <3>1, <3>2, <3>4
  <2> QED BY <1>3, <2>1, <2>2
<1>6. /\ r.todo = rest /\ r.labels = new /\ r.iter = s.iter
      /\ r.changed = (s.changed \/ best # s.labels[b])
      /\ r \in Detection
  <2> HIDE DEF b, rest, best, r
  <2>1. new \in Seq(Nat) /\ rest \in Seq(Nat)
    <3>1. rest \in Seq(Nat)
      BY <1>0, <1>1, NodesAreNumbers
    <3>2. new \in [1..n -> 1..n]
      BY <1>1, <1>5
    <3>3. new \in Seq(Nat)
      BY <1>0, <3>2, LabelsAreNumbers
    <3> QED BY <3>1, <3>3
  <2>2. r = [s EXCEPT !.todo = rest, !.labels[b] = best, !.changed = s.changed \/ best # s.labels[b]]
    BY DEF Visited, r, b, rest, best
  <2> HIDE DEF new
  <2>3. (s.changed \/ best # s.labels[b]) \in BOOLEAN
    BY DEF Detection
  <2>4. s.labels \in Seq(Nat) /\ s.iter \in Nat /\ DOMAIN s = {"labels", "iter", "todo", "changed"}
    BY DEF Detection
  <2>5. r.todo = rest /\ r.labels = new /\ r.iter = s.iter /\ r.changed = (s.changed \/ best # s.labels[b])
    BY <2>2, <2>4 DEF new
  <2>6. r = [labels |-> new, iter |-> s.iter, todo |-> rest, changed |-> (s.changed \/ best # s.labels[b])]
    BY <2>2, <2>4, <2>5 DEF new, Detection
  <2>7. r \in Detection
    BY <2>1, <2>3, <2>4, <2>6 DEF Detection
  <2> QED BY <2>5, <2>7
<1> HIDE DEF r, rest, b, best
<1>7. new \in [1..n -> 1..n] /\ \A i \in 1..n : Joined(g, i, new[i])
  BY <1>1, <1>4, <1>5
<1>8. ASSUME ~r.changed
      PROVE  \A i \in 1..n : i \in ToSet(r.todo) \/ Heaviest(g, r.labels, i) = r.labels[i]
  <2>1. ~s.changed /\ best = s.labels[b]
    BY <1>6, <1>8
  <2>2. new = s.labels
    BY <1>1, <2>1
  <2>3. \A i \in 1..n : i \in ToSet(s.todo) \/ Heaviest(g, s.labels, i) = s.labels[i]
    BY <2>1 DEF DetectionOK
  <2>4. Heaviest(g, s.labels, b) = s.labels[b]
    BY <2>1 DEF best
  <2> HIDE DEF new
  <2> QED BY <1>2, <1>6, <2>2, <2>3, <2>4
<1>9. s.iter \in 1..MaxIter
  BY DEF DetectionOK
<1> HIDE DEF new
<1> QED BY <1>1, <1>6, <1>7, <1>8, <1>9 DEF DetectionOK, r

\* Nodes with the same label are joined, since each is joined to the node that gave it.
LEMMA DetectedPartition ==
  ASSUME NEW g, NEW n, Weighted(g, n), NEW s, DetectionOK(g, n, s)
  PROVE  PartitionOf(g, compact(s.labels)) /\ compact(s.labels) \in Seq(Nat) /\ compact(s.labels) # NULL
<1> DEFINE labels == s.labels
           c == compact(labels)
<1>0. n \in Nat /\ DOMAIN g = 1..n
  BY DEF Weighted
<1>1. labels \in [1..n -> 1..n] /\ labels \in [1..n -> Nat] /\ \A i \in 1..n : Joined(g, i, labels[i])
  BY <1>0 DEF DetectionOK
<1> HIDE DEF labels
<1>2. /\ c \in [1..n -> Nat] /\ Labels(c) = 1..Cardinality(Labels(c))
      /\ \A i, j \in 1..n : c[i] = c[j] <=> labels[i] = labels[j]
  BY <1>0, <1>1, CompactNumbers
<1> HIDE DEF c
<1>3. ASSUME NEW i \in 1..n, NEW j \in 1..n, c[i] = c[j] PROVE Joined(g, i, j)
  <2>1. labels[i] = labels[j] /\ labels[j] \in 1..n
    BY <1>1, <1>2, <1>3
  <2>2. Joined(g, labels[j], j)
    BY <1>1, <2>1, JoinedBack
  <2>3. Joined(g, i, labels[j])
    BY <1>1, <2>1
  <2> QED BY <2>2, <2>3, JoinedOn
<1>4. c \in Seq(Nat)
  BY <1>0, <1>2
<1>5. c # NULL
  BY <1>4, NullAssumption
<1> QED BY <1>0, <1>2, <1>3, <1>4, <1>5 DEF PartitionOf, c, labels


-----------------------------------------------------------------------------
(* The invariant.                                                           *)

Stages == {"idle", "ingesting", "copying", "summarizing", "persisting", "gathering", "answering"}

CallsOK ==
  /\ use \in Uses /\ stage \in [Clients -> Stages] /\ DOMAIN task = Clients
  /\ \A c \in Clients : /\ DOMAIN task[c] = {"docs", "jobs", "todo", "found", "answer"}
                        /\ task[c].docs \subseteq [id : Docs, content : Contents]

DiskOK ==
  disk # NULL => disk.content \in [Docs -> Contents \cup {NULL}] /\ disk.chunks \in Seq(Chunk)

GraphOK == StoreOK(store) /\ SweepOK(store, sweep) /\ (sweep = NULL => Partitioned(store))

\* An ingestion has still to reindex, or the graph is complete.
CompleteOK == (\E c \in Clients : stage[c] = "ingesting") \/ Complete(store)

CommunitiesOK == CallsOK /\ DiskOK /\ GraphOK /\ CompleteOK

\* The end of a critical section.
LEMMA DetectOK ==
  ASSUME use \in Uses, NEW m, Ready(m), Detect(m)
  PROVE  GraphOK' /\ (Complete(m) => Complete(store')) /\ SameTexts(m, store')
<1> DEFINE n == Len(m.chunks)
<1>0. n \in Nat /\ StoreOK(m) /\ StoreRecord(m)
  BY DEF Ready, StoreOK, StoreRecord
<1>1. CASE m.g = NULL \/ m.comm # NULL
  <2>1. store' = m /\ sweep' = NULL
    BY <1>1 DEF Detect
  <2>2. Partitioned(m)
    BY <1>1 DEF Partitioned
  <2> QED BY <1>0, <2>1, <2>2 DEF GraphOK, SweepOK, Partitioned, SameTexts
<1>2. CASE m.g # NULL /\ m.comm = NULL
  <2>1. UpToDate(m) /\ GraphOf(m.g, m.chunks, n) /\ Weighted(m.g, n)
    BY <1>0, <1>2 DEF Ready, Partitioned, UpToDate, StoreOK, Indexed, GraphOf
  <2>2. CASE n = 0
    <3> DEFINE r == [m EXCEPT !.comm = <<>>]
    <3>1. store' = r /\ sweep' = NULL
      BY <1>2, <2>2 DEF Detect
    <3>2. /\ r.content = m.content /\ r.chunks = m.chunks /\ r.edges = m.edges /\ r.indexedUpTo = m.indexedUpTo
          /\ r.needsRebuild = m.needsRebuild /\ r.deferGraph = m.deferGraph /\ r.summaries = m.summaries
          /\ r.g = m.g /\ r.comm = <<>> /\ DOMAIN r = StoreFields
      BY <1>0 DEF StoreRecord, StoreFields
    <3> HIDE DEF r
    <3>3. r.comm # NULL
      <4>1. <<>> \in Seq(Nat)
        OBVIOUS
      <4> QED BY <3>2, <4>1, NullAssumption
    <3>4. PartitionOf(r.g, r.comm)
      <4>1. DOMAIN r.comm = {} /\ DOMAIN r.g = {}
        BY <2>1, <2>2, <3>2 DEF Weighted
      <4>2. Labels(r.comm) = {}
        BY <4>1 DEF Labels
      <4>3. Cardinality({}) = 0
        BY FS_EmptySet
      <4>4. Labels(r.comm) = 1..Cardinality(Labels(r.comm))
        BY <4>2, <4>3
      <4> QED BY <4>1, <4>4 DEF PartitionOf
    <3>5. StoreRecord(r) /\ Indexed(r)
      BY <1>0, <3>2 DEF StoreOK, StoreRecord, Indexed, EdgesOf
    <3>6. StoreOK(r)
      BY <1>0, <1>2, <3>2, <3>4, <3>5 DEF StoreOK
    <3> QED BY <3>1, <3>2, <3>3, <3>6 DEF GraphOK, SweepOK, Partitioned, SameTexts, Complete, UpToDate
  <2>3. CASE n # 0
    <3> DEFINE labels == [i \in 1..n |-> i]
               s == Sweep(n, 1, labels)
    <3>1. store' = m /\ sweep' = s
      BY <1>2, <2>3 DEF Detect
    <3>2. labels \in [1..n -> 1..n] /\ \A i \in 1..n : Joined(m.g, i, labels[i])
      <4>1. DOMAIN m.g = 1..n
        BY <2>1 DEF Weighted
      <4> QED BY <4>1, JoinedSelf
    <3>3. 1 \in 1..MaxIter
      BY LimitsAssumption
    <3> HIDE DEF labels, n
    <3>4. s \in Detection /\ DetectionOK(m.g, n, s)
      BY <1>0, <3>2, <3>3, SweepBegins
    <3>5. s # NULL
      BY <3>4, NullAssumption
    <3> HIDE DEF s
    <3> QED BY <1>0, <1>2, <2>1, <3>1, <3>4, <3>5 DEF GraphOK, SweepOK, SameTexts, n
  <2> QED BY <2>2, <2>3
<1> QED BY <1>1, <1>2

\* A critical section that begins with the lock held by nobody.
LEMMA ReindexOK ==
  ASSUME use \in Uses, NEW m, StoreOK(m), Partitioned(m), Detect(reindexLocked(m))
  PROVE  GraphOK' /\ Complete(store') /\ SameTexts(m, store')
<1>0. Ready(m)
  BY DEF Ready
<1>1. Ready(reindexLocked(m)) /\ Complete(reindexLocked(m)) /\ SameTexts(m, reindexLocked(m))
  BY <1>0, ReindexReady
<1> QED BY <1>1, DetectOK DEF SameTexts

LEMMA EnsureOK ==
  ASSUME use \in Uses, NEW m, StoreOK(m), Partitioned(m), Detect(ensureGraphLocked(m))
  PROVE  GraphOK' /\ (Complete(m) => Complete(store'))
<1>1. /\ Ready(ensureGraphLocked(m))
      /\ Complete(m) => Complete(ensureGraphLocked(m))
  BY EnsureReady
<1> QED BY <1>1, DetectOK

\* Summaries are forgotten with the graph they were written for.
LEMMA ForgetOK ==
  ASSUME NEW m, StoreOK(m), Partitioned(m), NEW found
  PROVE  /\ StoreOK([m EXCEPT !.summaries = found]) /\ Partitioned([m EXCEPT !.summaries = found])
         /\ Complete(m) => Complete([m EXCEPT !.summaries = found])
<1> DEFINE r == [m EXCEPT !.summaries = found]
<1>1. /\ r.content = m.content /\ r.chunks = m.chunks /\ r.edges = m.edges /\ r.indexedUpTo = m.indexedUpTo
      /\ r.needsRebuild = m.needsRebuild /\ r.deferGraph = m.deferGraph
      /\ r.g = m.g /\ r.comm = m.comm /\ DOMAIN r = StoreFields
  BY DEF StoreOK, StoreRecord, StoreFields
<1> HIDE DEF r
<1> QED BY <1>1 DEF StoreOK, StoreRecord, Indexed, EdgesOf, Partitioned, Complete, UpToDate, r

\* A store that has no graph yet: the chunks, if there are any, wait for one.
LEMMA EmptyOK ==
  ASSUME NEW m, DOMAIN m = StoreFields, m.content \in [Docs -> Contents \cup {NULL}], m.chunks \in Seq(Chunk),
         m.edges = {}, m.indexedUpTo = 0, m.needsRebuild = FALSE, m.g = NULL, m.comm = NULL,
         m.deferGraph = (m.chunks # <<>>)
  PROVE  StoreOK(m) /\ Complete(m) /\ Partitioned(m)
<1>1. m.needsRebuild \in BOOLEAN /\ m.deferGraph \in BOOLEAN
  OBVIOUS
<1>2. StoreRecord(m) /\ Len(m.chunks) \in Nat
  BY <1>1 DEF StoreRecord
<1>3. Indexed(m)
  BY <1>2 DEF Indexed, EdgesOf
<1>4. Complete(m)
  <2>1. Len(<<>>) = 0
    OBVIOUS
  <2> QED BY <2>1 DEF Complete, UpToDate
<1> QED BY <1>2, <1>3, <1>4 DEF StoreOK, Partitioned

LEMMA InitOK == CommunitiesInit => CommunitiesOK
<1> SUFFICES ASSUME CommunitiesInit PROVE CommunitiesOK
  OBVIOUS
<1>1. CallsOK
  BY DEF CommunitiesInit, CallsOK, NoTask, Stages
<1>2. StoreOK(EmptyStore) /\ Complete(EmptyStore) /\ Partitioned(EmptyStore)
  <2> DEFINE m == EmptyStore
  <2>1. /\ m.content = [d \in Docs |-> NULL] /\ m.chunks = <<>> /\ m.edges = {} /\ m.indexedUpTo = 0
        /\ m.needsRebuild = FALSE /\ m.deferGraph = FALSE /\ m.g = NULL /\ m.comm = NULL
        /\ DOMAIN m = StoreFields
    BY DEF EmptyStore, StoreFields
  <2>2. <<>> \in Seq(Chunk)
    OBVIOUS
  <2> HIDE DEF m
  <2>3. m.content \in [Docs -> Contents \cup {NULL}] /\ m.deferGraph = (m.chunks # <<>>)
    BY <2>1
  <2>4. m.chunks \in Seq(Chunk)
    BY <2>1, <2>2
  <2> QED BY <2>1, <2>3, <2>4, EmptyOK DEF m
<1> QED BY <1>1, <1>2 DEF CommunitiesInit, CommunitiesOK, DiskOK, GraphOK, SweepOK, CompleteOK

-----------------------------------------------------------------------------
(* The steps.                                                               *)

\* What a step that leaves the store and the detection alone has to keep.
LEMMA SameStoreOK ==
  ASSUME GraphOK, DiskOK, UNCHANGED <<store, sweep, disk>>
  PROVE  GraphOK' /\ DiskOK'
BY DEF GraphOK, DiskOK, SweepOK

\* A call moves on, from anywhere but an ingestion.
LEMMA GotoOK ==
  ASSUME CallsOK, CompleteOK, NEW c \in Clients, stage[c] # "ingesting", NEW l \in Stages, Goto(c, l),
         Complete(store) => Complete(store')
  PROVE  stage' \in [Clients -> Stages] /\ CompleteOK'
<1>1. stage' \in [Clients -> Stages] /\ \A b \in Clients : b # c => stage'[b] = stage[b]
  BY DEF CallsOK, Goto
<1>2. CompleteOK'
  <2>1. CASE \E b \in Clients : stage[b] = "ingesting"
    BY <1>1, <2>1 DEF CompleteOK
  <2>2. CASE ~\E b \in Clients : stage[b] = "ingesting"
    <3>1. Complete(store)
      BY <2>2 DEF CompleteOK
    <3>2. Complete(store')
      BY <3>1
    <3>3. Complete(store)'
      BY <3>2 DEF Complete, UpToDate
    <3> QED BY <3>3 DEF CompleteOK
  <2> QED BY <2>1, <2>2
<1> QED BY <1>1, <1>2

LEMMA TaskFields ==
  ASSUME CallsOK, UNCHANGED use, stage' \in [Clients -> Stages], NEW c \in Clients, NEW t,
         task' = [task EXCEPT ![c] = t],
         DOMAIN t = {"docs", "jobs", "todo", "found", "answer"}, t.docs \subseteq [id : Docs, content : Contents]
  PROVE  CallsOK'
<1>1. DOMAIN task' = Clients
  BY DEF CallsOK
<1>2. task'[c] = t /\ \A b \in Clients : b # c => task'[b] = task[b]
  BY DEF CallsOK
<1>3. \A b \in Clients : /\ DOMAIN task'[b] = {"docs", "jobs", "todo", "found", "answer"}
                         /\ task'[b].docs \subseteq [id : Docs, content : Contents]
  BY <1>2 DEF CallsOK
<1> QED BY <1>1, <1>3 DEF CallsOK

LEMMA FinishOK ==
  ASSUME CallsOK, UNCHANGED use, NEW c \in Clients, Finish(c)
  PROVE  CallsOK'
<1>1. stage' \in [Clients -> Stages]
  BY DEF CallsOK, Finish, Goto, Stages
<1>2. task' = [task EXCEPT ![c] = NoTask] /\ DOMAIN NoTask = {"docs", "jobs", "todo", "found", "answer"}
      /\ NoTask.docs \subseteq [id : Docs, content : Contents]
  BY DEF Finish, NoTask
<1> QED BY <1>1, <1>2, TaskFields

LEMMA VisitOK ==
  ASSUME CommunitiesOK, Visit, UNCHANGED use
  PROVE  CommunitiesOK'
<1>1. GraphOK'
  <2>1. sweep \in Detection /\ store.g # NULL /\ store.comm = NULL /\ UpToDate(store)
        /\ DetectionOK(store.g, Len(store.chunks), sweep) /\ StoreOK(store)
    BY DEF CommunitiesOK, GraphOK, SweepOK, Visit
  <2>2. Weighted(store.g, Len(store.chunks))
    BY <2>1 DEF StoreOK, Indexed, UpToDate, GraphOf
  <2>3. sweep' = Visited(store.g, sweep) /\ store' = store /\ sweep.todo # <<>>
    BY DEF Visit, Visited
  <2>4. sweep' \in Detection /\ DetectionOK(store.g, Len(store.chunks), sweep')
    BY <2>1, <2>2, <2>3, VisitedOK
  <2>5. sweep' # NULL
    BY <2>4, NullAssumption
  <2> QED BY <2>1, <2>3, <2>4, <2>5 DEF GraphOK, SweepOK
<1>2. CallsOK' /\ DiskOK' /\ CompleteOK'
  BY DEF CommunitiesOK, CallsOK, DiskOK, CompleteOK, Visit
<1> QED BY <1>1, <1>2 DEF CommunitiesOK

LEMMA SweepEndOK ==
  ASSUME CommunitiesOK, SweepEnd, UNCHANGED use
  PROVE  CommunitiesOK'
<1>0. /\ sweep # NULL /\ sweep \in Detection /\ store.g # NULL /\ store.comm = NULL /\ UpToDate(store)
      /\ DetectionOK(store.g, Len(store.chunks), sweep) /\ StoreOK(store) /\ StoreRecord(store)
  BY DEF CommunitiesOK, GraphOK, SweepOK, SweepEnd, StoreOK
<1>1. Weighted(store.g, Len(store.chunks))
  BY <1>0 DEF StoreOK, Indexed, UpToDate, GraphOf
<1>2. CASE sweep.changed /\ sweep.iter < MaxIter
  <2> DEFINE s == Sweep(Len(store.chunks), sweep.iter + 1, sweep.labels)
  <2>1. sweep' = s /\ store' = store
    BY <1>2 DEF SweepEnd
  <2>2. sweep.iter + 1 \in 1..MaxIter
    BY <1>0, <1>2, LimitsAssumption DEF DetectionOK
  <2>3. /\ sweep.labels \in [1..Len(store.chunks) -> 1..Len(store.chunks)]
        /\ \A i \in 1..Len(store.chunks) : Joined(store.g, i, sweep.labels[i])
    BY <1>0 DEF DetectionOK
  <2>4. Len(store.chunks) \in Nat /\ use \in Uses
    BY <1>0 DEF StoreRecord, CommunitiesOK, CallsOK
  <2>5. s \in Detection /\ DetectionOK(store.g, Len(store.chunks), s)
    BY <2>2, <2>3, <2>4, SweepBegins
  <2>6. s # NULL
    BY <2>5, NullAssumption
  <2> HIDE DEF s
  <2>7. GraphOK'
    BY <1>0, <2>1, <2>5, <2>6 DEF GraphOK, SweepOK
  <2>8. CallsOK' /\ DiskOK' /\ CompleteOK'
    BY <2>1 DEF CommunitiesOK, CallsOK, DiskOK, CompleteOK, SweepEnd
  <2> QED BY <2>7, <2>8 DEF CommunitiesOK
<1>3. CASE ~(sweep.changed /\ sweep.iter < MaxIter)
  <2> DEFINE c == compact(sweep.labels)
             r == [store EXCEPT !.comm = c]
  <2>1. store' = r /\ sweep' = NULL
    BY <1>3 DEF SweepEnd
  <2>2. PartitionOf(store.g, c) /\ c # NULL
    BY <1>0, <1>1, DetectedPartition
  <2> HIDE DEF c
  <2>3. /\ r.content = store.content /\ r.chunks = store.chunks /\ r.edges = store.edges
        /\ r.indexedUpTo = store.indexedUpTo /\ r.needsRebuild = store.needsRebuild
        /\ r.deferGraph = store.deferGraph /\ r.g = store.g /\ r.comm = c /\ DOMAIN r = StoreFields
    BY <1>0 DEF StoreRecord, StoreFields
  <2> HIDE DEF r
  <2>4. StoreOK(r)
    BY <1>0, <2>2, <2>3 DEF StoreOK, StoreRecord, Indexed, EdgesOf
  <2>5. Partitioned(r) /\ Complete(r)
    BY <1>0, <2>2, <2>3 DEF Partitioned, Complete, UpToDate
  <2>6. GraphOK'
    BY <2>1, <2>4, <2>5 DEF GraphOK, SweepOK
  <2>7. CallsOK' /\ DiskOK' /\ CompleteOK'
    BY <2>1, <2>5 DEF CommunitiesOK, CallsOK, DiskOK, CompleteOK, SweepEnd
  <2> QED BY <2>6, <2>7 DEF CommunitiesOK
<1> QED BY <1>2, <1>3


\* A critical section that changed the texts of the store.
LEMMA SectionOK ==
  ASSUME CommunitiesOK, UNCHANGED <<use, disk, stage, task>>, GraphOK', Complete(store')
  PROVE  CommunitiesOK'
<1>1. CallsOK' /\ DiskOK'
  BY DEF CommunitiesOK, CallsOK, DiskOK
<1>2. Complete(store)'
  BY DEF Complete, UpToDate
<1> QED BY <1>1, <1>2 DEF CommunitiesOK, CompleteOK

LEMMA DocumentsOK ==
  ASSUME use \in Uses, NEW d \in use.docs
  PROVE  d.id \in Docs /\ d.content \in Contents
<1>1. use.docs \subseteq [id : Docs, content : Contents]
  BY UsesAssumption DEF Use
<1> QED BY <1>1

LEMMA UnlockedOK ==
  ASSUME GraphOK, Unlocked
  PROVE  sweep = NULL /\ StoreOK(store) /\ Partitioned(store) /\ Ready(store) /\ StoreRecord(store)
BY DEF GraphOK, Unlocked, StoreOK, Ready

LEMMA AddDocumentsOK ==
  ASSUME CommunitiesOK, UNCHANGED use, NEW c \in Clients, NEW d \in use.docs,
         AddDocuments(c, d.id, d.content)
  PROVE  CommunitiesOK'
<1> DEFINE a == applyPreparedLocked(store, d.id, d.content)
           m == [a EXCEPT !.summaries = <<>>]
<1>1. use \in Uses /\ StoreOK(store) /\ Partitioned(store)
  BY UnlockedOK DEF CommunitiesOK, CallsOK, AddDocuments
<1>2. d.id \in Docs /\ d.content \in Contents
  BY <1>1, DocumentsOK
<1>3. StoreOK(a) /\ SameGraph(store, a)
  BY <1>1, <1>2, ApplyOK
<1>4. Detect(reindexLocked(m)) /\ UNCHANGED <<disk, stage, task>>
  BY DEF AddDocuments
<1> HIDE DEF a
<1>5. Partitioned(a)
  BY <1>1, <1>3 DEF Partitioned, SameGraph
<1>6. StoreOK(m) /\ Partitioned(m)
  BY <1>3, <1>5, ForgetOK
<1> HIDE DEF m
<1>7. GraphOK' /\ Complete(store')
  BY <1>1, <1>4, <1>6, ReindexOK
<1> QED BY <1>4, <1>7, SectionOK

LEMMA DeleteDocumentOK ==
  ASSUME CommunitiesOK, UNCHANGED use, NEW c \in Clients, NEW id \in Docs, DeleteDocument(c, id)
  PROVE  CommunitiesOK'
<1> DEFINE a == removeDocLocked(store, id)
           m == [a EXCEPT !.summaries = <<>>]
<1>1. use \in Uses /\ StoreOK(store) /\ Partitioned(store)
  BY UnlockedOK DEF CommunitiesOK, CallsOK, DeleteDocument
<1>3. StoreOK(a) /\ SameGraph(store, a)
  BY <1>1, RemoveOK
<1>4. Detect(reindexLocked(m)) /\ UNCHANGED <<disk, stage, task>>
  BY DEF DeleteDocument
<1> HIDE DEF a
<1>5. Partitioned(a)
  BY <1>1, <1>3 DEF Partitioned, SameGraph
<1>6. StoreOK(m) /\ Partitioned(m)
  BY <1>3, <1>5, ForgetOK
<1> HIDE DEF m
<1>7. GraphOK' /\ Complete(store')
  BY <1>1, <1>4, <1>6, ReindexOK
<1> QED BY <1>4, <1>7, SectionOK

LEMMA IngestStartOK ==
  ASSUME CommunitiesOK, UNCHANGED use, NEW c \in Clients, NEW docs \in SUBSET use.docs, IngestStart(c, docs)
  PROVE  CommunitiesOK'
<1> DEFINE t == [task[c] EXCEPT !.docs = docs]
<1>1. /\ use \in Uses /\ CallsOK /\ stage' = [stage EXCEPT ![c] = "ingesting"]
      /\ task' = [task EXCEPT ![c].docs = docs] /\ UNCHANGED <<store, sweep, disk>>
  BY DEF CommunitiesOK, CallsOK, IngestStart, Goto
<1>2. docs \subseteq [id : Docs, content : Contents]
  BY <1>1, UsesAssumption DEF Use
<1>3. stage' \in [Clients -> Stages] /\ stage'[c] = "ingesting"
  BY <1>1 DEF CallsOK, Stages
<1>4. DOMAIN t = {"docs", "jobs", "todo", "found", "answer"} /\ t.docs = docs /\ task' = [task EXCEPT ![c] = t]
  BY <1>1 DEF CallsOK
<1> HIDE DEF t
<1>5. CallsOK'
  BY <1>1, <1>2, <1>3, <1>4, TaskFields
<1>6. GraphOK' /\ DiskOK'
  BY <1>1, SameStoreOK DEF CommunitiesOK
<1>7. CompleteOK'
  BY <1>3 DEF CompleteOK
<1> QED BY <1>5, <1>6, <1>7 DEF CommunitiesOK

LEMMA IngestApplyOK ==
  ASSUME CommunitiesOK, UNCHANGED use, NEW c \in Clients, IngestApply(c)
  PROVE  CommunitiesOK'
<1>1. CallsOK /\ stage[c] = "ingesting" /\ StoreOK(store) /\ Partitioned(store) /\ sweep = NULL
  BY UnlockedOK DEF CommunitiesOK, IngestApply
<1>2. PICK d \in task[c].docs :
        /\ store' = applyPreparedLocked(store, d.id, d.content)
        /\ task' = [task EXCEPT ![c].docs = @ \ {d}]
  BY DEF IngestApply
<1> DEFINE t == [task[c] EXCEPT !.docs = @ \ {d}]
<1>3. d.id \in Docs /\ d.content \in Contents /\ task[c].docs \subseteq [id : Docs, content : Contents]
  BY <1>1 DEF CallsOK
<1>4. StoreOK(store') /\ SameGraph(store, store')
  BY <1>1, <1>2, <1>3, ApplyOK
<1>5. Partitioned(store')
  BY <1>1, <1>4 DEF Partitioned, SameGraph
<1>6. stage' = stage /\ sweep' = sweep /\ disk' = disk
  BY DEF IngestApply
<1>7. GraphOK'
  BY <1>1, <1>4, <1>5, <1>6 DEF GraphOK, SweepOK
<1>8. /\ DOMAIN t = {"docs", "jobs", "todo", "found", "answer"} /\ t.docs \subseteq task[c].docs
      /\ task' = [task EXCEPT ![c] = t]
  BY <1>1, <1>2 DEF CallsOK
<1> HIDE DEF t
<1>9. CallsOK'
  <2>1. stage' \in [Clients -> Stages] /\ t.docs \subseteq [id : Docs, content : Contents]
    BY <1>1, <1>3, <1>6, <1>8 DEF CallsOK
  <2> QED BY <1>1, <1>8, <2>1, TaskFields
<1>10. CompleteOK' /\ DiskOK'
  BY <1>1, <1>6 DEF CompleteOK, CommunitiesOK, DiskOK
<1> QED BY <1>7, <1>9, <1>10 DEF CommunitiesOK

\* What an ingestion ends with, whether the graph was put off or not.
LEMMA EnsuredReindexOK ==
  ASSUME use \in Uses, StoreOK(store), Partitioned(store), Detect(reindexLocked(ensureGraphLocked(store)))
  PROVE  GraphOK' /\ Complete(store')
<1>1. Ready(ensureGraphLocked(store))
  BY EnsureReady
<1>2. Ready(reindexLocked(ensureGraphLocked(store))) /\ Complete(reindexLocked(ensureGraphLocked(store)))
  BY <1>1, ReindexReady
<1> QED BY <1>2, DetectOK

LEMMA ReindexStepOK ==
  ASSUME CommunitiesOK, UNCHANGED use, NEW c \in Clients, Reindex(c)
  PROVE  CommunitiesOK'
<1>1. use \in Uses /\ CallsOK /\ StoreOK(store) /\ Partitioned(store)
  BY UnlockedOK DEF CommunitiesOK, CallsOK, Reindex
<1>2. GraphOK' /\ Complete(store')
  BY <1>1, EnsuredReindexOK DEF Reindex
<1>3. CallsOK'
  BY <1>1, FinishOK DEF Reindex
<1>4. DiskOK' /\ CompleteOK'
  <2>1. Complete(store)'
    BY <1>2 DEF Complete, UpToDate
  <2> QED BY <2>1 DEF CompleteOK, CommunitiesOK, DiskOK, Reindex
<1> QED BY <1>2, <1>3, <1>4 DEF CommunitiesOK

\* A step of a call that leaves the store alone.
LEMMA QuietOK ==
  ASSUME CommunitiesOK, UNCHANGED <<use, store, sweep>>, CallsOK', DiskOK', NEW c \in Clients,
         stage[c] # "ingesting", NEW l \in Stages, stage' = [stage EXCEPT ![c] = l]
  PROVE  CommunitiesOK'
<1>1. GraphOK'
  BY DEF CommunitiesOK, GraphOK, SweepOK
<1>2. CompleteOK'
  <2>1. Goto(c, l) /\ (Complete(store) => Complete(store'))
    BY DEF Goto
  <2> QED BY <2>1, GotoOK DEF CommunitiesOK
<1> QED BY <1>1, <1>2 DEF CommunitiesOK

\* A call moves on, whatever it noted, with the documents it had.
LEMMA MovedOK ==
  ASSUME CommunitiesOK, UNCHANGED <<use, store, sweep, disk>>, NEW c \in Clients,
         stage[c] # "ingesting", NEW l \in Stages, stage' = [stage EXCEPT ![c] = l],
         NEW t, task' = [task EXCEPT ![c] = t], DOMAIN t = DOMAIN task[c], t.docs \subseteq task[c].docs
  PROVE  CommunitiesOK'
<1>1. CallsOK /\ DiskOK'
  BY DEF CommunitiesOK, DiskOK
<1>2. stage' \in [Clients -> Stages]
  BY <1>1 DEF CallsOK
<1>3. /\ DOMAIN t = {"docs", "jobs", "todo", "found", "answer"}
      /\ t.docs \subseteq [id : Docs, content : Contents]
  BY <1>1 DEF CallsOK
<1>4. CallsOK'
  BY <1>1, <1>2, <1>3, TaskFields
<1> QED BY <1>1, <1>4, QuietOK

LEMMA FinishedOK ==
  ASSUME CommunitiesOK, UNCHANGED <<use, store, sweep>>, DiskOK', NEW c \in Clients,
         stage[c] # "ingesting", Finish(c)
  PROVE  CommunitiesOK'
<1>1. CallsOK'
  BY FinishOK DEF CommunitiesOK
<1>2. stage' = [stage EXCEPT ![c] = "idle"] /\ "idle" \in Stages
  BY DEF Finish, Goto, Stages
<1> QED BY <1>1, <1>2, QuietOK

\* A call that makes sure of the graph, and of its partition.
LEMMA EnsuringOK ==
  ASSUME CommunitiesOK, UNCHANGED <<use, disk, task>>, Unlocked, NEW c \in Clients, stage[c] = "idle",
         NEW l \in Stages, Goto(c, l), Detect(ensureGraphLocked(store))
  PROVE  CommunitiesOK'
<1>1. use \in Uses /\ CallsOK /\ CompleteOK /\ StoreOK(store) /\ Partitioned(store)
  BY UnlockedOK DEF CommunitiesOK, CallsOK
<1>2. GraphOK' /\ (Complete(store) => Complete(store'))
  BY <1>1, EnsureOK
<1>3. stage' \in [Clients -> Stages] /\ CompleteOK'
  BY <1>1, <1>2, GotoOK
<1>4. CallsOK' /\ DiskOK'
  BY <1>1, <1>3 DEF CallsOK, CommunitiesOK, DiskOK
<1> QED BY <1>2, <1>3, <1>4 DEF CommunitiesOK

LEMMA BuildBeginOK ==
  ASSUME CommunitiesOK, UNCHANGED use, NEW c \in Clients, BuildBegin(c)
  PROVE  CommunitiesOK'
<1>1. "copying" \in Stages
  BY DEF Stages
<1> QED BY <1>1, EnsuringOK DEF BuildBegin, Idle

LEMMA GlobalBeginOK ==
  ASSUME CommunitiesOK, UNCHANGED use, NEW c \in Clients, GlobalBegin(c)
  PROVE  CommunitiesOK'
<1>1. "gathering" \in Stages
  BY DEF Stages
<1> QED BY <1>1, EnsuringOK DEF GlobalBegin, Idle

LEMMA BuildCopyOK ==
  ASSUME CommunitiesOK, UNCHANGED use, NEW c \in Clients, BuildCopy(c)
  PROVE  CommunitiesOK'
<1>0. /\ UNCHANGED <<store, sweep, disk>> /\ stage[c] = "copying" /\ DOMAIN task = Clients
      /\ "persisting" \in Stages /\ "summarizing" \in Stages
      /\ DOMAIN task[c] = {"docs", "jobs", "todo", "found", "answer"}
  BY DEF BuildCopy, Stages, CommunitiesOK, CallsOK
<1>1. CASE Jobs(store) = {}
  <2>1. stage' = [stage EXCEPT ![c] = "persisting"] /\ task' = task
    BY <1>1 DEF BuildCopy, Goto
  <2>2. stage' \in [Clients -> Stages]
    BY <1>0, <2>1 DEF CommunitiesOK, CallsOK
  <2>3. CallsOK' /\ DiskOK'
    BY <1>0, <2>1, <2>2 DEF CommunitiesOK, CallsOK, DiskOK
  <2>4. stage[c] # "ingesting"
    BY <1>0
  <2> QED BY <1>0, <2>1, <2>3, <2>4, QuietOK
<1>2. CASE Jobs(store) # {}
  <2> DEFINE J == [l \in Jobs(store) |-> Passages(store.chunks, store.comm, l)]
             t == [task[c] EXCEPT !.jobs = J, !.todo = Jobs(store)]
  <2>1. /\ stage' = [stage EXCEPT ![c] = "summarizing"]
        /\ task' = [task EXCEPT ![c].jobs = J, ![c].todo = Jobs(store)]
    BY <1>2 DEF BuildCopy, Goto
  <2> HIDE DEF J
  <2>2. task' = [task EXCEPT ![c] = t] /\ DOMAIN t = DOMAIN task[c] /\ t.docs \subseteq task[c].docs
    BY <1>0, <2>1
  <2> HIDE DEF t
  <2> QED BY <1>0, <2>1, <2>2, MovedOK
<1> QED BY <1>1, <1>2

LEMMA SummarizeOK ==
  ASSUME CommunitiesOK, UNCHANGED use, NEW c \in Clients, Summarize(c)
  PROVE  CommunitiesOK'
<1>0. /\ UNCHANGED <<store, sweep, disk>> /\ stage[c] = "summarizing" /\ DOMAIN task = Clients
      /\ stage' = stage /\ stage \in [Clients -> Stages] /\ "summarizing" \in Stages
      /\ DOMAIN task[c] = {"docs", "jobs", "todo", "found", "answer"}
  BY DEF Summarize, Stages, CommunitiesOK, CallsOK
<1>1. stage' = [stage EXCEPT ![c] = "summarizing"]
  BY <1>0
<1>2. PICK l \in task[c].todo :
        \/ task' = [task EXCEPT ![c].todo = @ \ {l}, ![c].found = Restrict(task[c].jobs, DOMAIN @ \cup {l})]
        \/ task' = [task EXCEPT ![c].todo = @ \ {l}]
  BY DEF Summarize
<1> DEFINE more == Restrict(task[c].jobs, DOMAIN task[c].found \cup {l})
<1>3. CASE task' = [task EXCEPT ![c].todo = @ \ {l}, ![c].found = Restrict(task[c].jobs, DOMAIN @ \cup {l})]
  <2> DEFINE t == [task[c] EXCEPT !.todo = @ \ {l}, !.found = more]
  <2>1. task' = [task EXCEPT ![c].todo = @ \ {l}, ![c].found = more]
    BY <1>3
  <2> HIDE DEF more
  <2>2. task' = [task EXCEPT ![c] = t] /\ DOMAIN t = DOMAIN task[c] /\ t.docs \subseteq task[c].docs
    BY <1>0, <2>1
  <2> HIDE DEF t
  <2> QED BY <1>0, <1>1, <2>2, MovedOK
<1>4. CASE task' = [task EXCEPT ![c].todo = @ \ {l}]
  <2> DEFINE t == [task[c] EXCEPT !.todo = @ \ {l}]
  <2>2. task' = [task EXCEPT ![c] = t] /\ DOMAIN t = DOMAIN task[c] /\ t.docs \subseteq task[c].docs
    BY <1>0, <1>4
  <2> HIDE DEF t
  <2> QED BY <1>0, <1>1, <2>2, MovedOK
<1> QED BY <1>2, <1>3, <1>4

LEMMA BuildCancelledOK ==
  ASSUME CommunitiesOK, UNCHANGED use, NEW c \in Clients, BuildCancelled(c)
  PROVE  CommunitiesOK'
<1>1. DiskOK' /\ stage[c] # "ingesting"
  BY DEF CommunitiesOK, DiskOK, BuildCancelled
<1> QED BY <1>1, FinishedOK DEF BuildCancelled

LEMMA BuildInstallOK ==
  ASSUME CommunitiesOK, UNCHANGED use, NEW c \in Clients, BuildInstall(c)
  PROVE  CommunitiesOK'
<1> DEFINE found == task[c].found
           m == [store EXCEPT !.summaries = found]
<1>1. /\ CallsOK /\ CompleteOK /\ StoreOK(store) /\ Partitioned(store) /\ sweep = NULL
      /\ sweep' = sweep /\ disk' = disk /\ task' = task
  BY UnlockedOK DEF CommunitiesOK, BuildInstall
<1>2. store' = m /\ Goto(c, "persisting") /\ "persisting" \in Stages /\ stage[c] # "ingesting"
  BY DEF BuildInstall, Stages
<1> HIDE DEF found
<1>3. StoreOK(m) /\ Partitioned(m) /\ (Complete(store) => Complete(m))
  BY <1>1, ForgetOK
<1> HIDE DEF m
<1>4. GraphOK'
  BY <1>1, <1>2, <1>3 DEF GraphOK, SweepOK
<1>5. stage' \in [Clients -> Stages] /\ CompleteOK'
  BY <1>1, <1>2, <1>3, GotoOK
<1>6. CallsOK' /\ DiskOK'
  BY <1>1, <1>5 DEF CallsOK, CommunitiesOK, DiskOK
<1> QED BY <1>4, <1>5, <1>6 DEF CommunitiesOK

LEMMA PersistOK ==
  ASSUME CommunitiesOK, UNCHANGED use, NEW c \in Clients, Persist(c)
  PROVE  CommunitiesOK'
<1>1. StoreRecord(store) /\ UNCHANGED <<store, sweep>> /\ stage[c] # "ingesting" /\ Finish(c)
  BY UnlockedOK DEF CommunitiesOK, Persist
<1>2. disk' = [content |-> store.content, chunks |-> store.chunks, summaries |-> store.summaries]
  BY DEF Persist
<1>3. DiskOK'
  BY <1>1, <1>2 DEF DiskOK, StoreRecord
<1> QED BY <1>1, <1>3, FinishedOK

LEMMA GlobalGatherOK ==
  ASSUME CommunitiesOK, UNCHANGED use, NEW c \in Clients, GlobalGather(c)
  PROVE  CommunitiesOK'
<1>0. /\ UNCHANGED <<store, sweep, disk>> /\ stage[c] = "gathering" /\ DOMAIN task = Clients
      /\ DOMAIN task[c] = {"docs", "jobs", "todo", "found", "answer"} /\ "answering" \in Stages
  BY DEF GlobalGather, Stages, CommunitiesOK, CallsOK
<1>1. CASE Finish(c)
  <2>1. DiskOK' /\ stage[c] # "ingesting"
    BY <1>0 DEF CommunitiesOK, DiskOK
  <2> QED BY <1>0, <1>1, <2>1, FinishedOK
<1>2. CASE ~Finish(c)
  <2>1. PICK best \in SUBSET CommunitySummaries(store) :
          task' = [task EXCEPT ![c].answer = best] /\ Goto(c, "answering")
    BY <1>2 DEF GlobalGather
  <2> DEFINE t == [task[c] EXCEPT !.answer = best]
  <2>2. task' = [task EXCEPT ![c] = t] /\ DOMAIN t = DOMAIN task[c] /\ t.docs \subseteq task[c].docs
    BY <1>0, <2>1
  <2>3. stage' = [stage EXCEPT ![c] = "answering"]
    BY <2>1 DEF Goto
  <2> HIDE DEF t
  <2> QED BY <1>0, <2>2, <2>3, MovedOK
<1> QED BY <1>1, <1>2

LEMMA GlobalAnswerOK ==
  ASSUME CommunitiesOK, UNCHANGED use, NEW c \in Clients, GlobalAnswer(c)
  PROVE  CommunitiesOK'
<1>1. DiskOK' /\ stage[c] # "ingesting"
  BY DEF CommunitiesOK, DiskOK, GlobalAnswer
<1> QED BY <1>1, FinishedOK DEF GlobalAnswer

LEMMA RestartOK ==
  ASSUME CommunitiesOK, UNCHANGED use, Restart
  PROVE  CommunitiesOK'
<1>1. CallsOK'
  BY DEF CommunitiesOK, CallsOK, Restart, NoTask, Stages
<1>2. DiskOK'
  BY DEF CommunitiesOK, DiskOK, Restart
<1>3. StoreOK(store') /\ Complete(store') /\ Partitioned(store')
  <2> DEFINE e == EmptyStore
  <2>1. /\ e.content = [d \in Docs |-> NULL] /\ e.chunks = <<>> /\ e.edges = {} /\ e.indexedUpTo = 0
        /\ e.needsRebuild = FALSE /\ e.deferGraph = FALSE /\ e.g = NULL /\ e.comm = NULL
        /\ DOMAIN e = StoreFields
    BY DEF EmptyStore, StoreFields
  <2>2. <<>> \in Seq(Chunk)
    OBVIOUS
  <2>3. CASE disk = NULL
    <3>1. store' = e
      BY <2>3 DEF Restart
    <3> HIDE DEF e
    <3>2. e.content \in [Docs -> Contents \cup {NULL}] /\ e.deferGraph = (e.chunks # <<>>) /\ e.chunks \in Seq(Chunk)
      BY <2>1, <2>2
    <3> QED BY <2>1, <3>1, <3>2, EmptyOK
  <2>4. CASE disk # NULL
    <3> DEFINE m == [e EXCEPT !.content = disk.content, !.chunks = disk.chunks,
                              !.summaries = disk.summaries, !.deferGraph = disk.chunks # <<>>]
    <3>1. store' = m
      BY <2>4 DEF Restart
    <3>2. disk.content \in [Docs -> Contents \cup {NULL}] /\ disk.chunks \in Seq(Chunk)
      BY <2>4 DEF CommunitiesOK, DiskOK
    <3> HIDE DEF e
    <3>3. /\ m.content = disk.content /\ m.chunks = disk.chunks /\ m.edges = {} /\ m.indexedUpTo = 0
          /\ m.needsRebuild = FALSE /\ m.deferGraph = (m.chunks # <<>>) /\ m.g = NULL /\ m.comm = NULL
          /\ DOMAIN m = StoreFields
      BY <2>1 DEF StoreFields
    <3> HIDE DEF m
    <3>4. m.content \in [Docs -> Contents \cup {NULL}] /\ m.chunks \in Seq(Chunk)
      BY <3>2, <3>3
    <3> QED BY <3>1, <3>3, <3>4, EmptyOK
  <2> QED BY <2>3, <2>4
<1>4. GraphOK' /\ CompleteOK'
  <2>1. Complete(store)'
    BY <1>3 DEF Complete, UpToDate
  <2>2. sweep' = NULL
    BY DEF Restart
  <2> QED BY <1>3, <2>1, <2>2 DEF GraphOK, SweepOK, CompleteOK
<1> QED BY <1>1, <1>2, <1>4 DEF CommunitiesOK

LEMMA CommunitiesStepOK ==
  ASSUME CommunitiesOK, [CommunitiesNext]_communityVars
  PROVE  CommunitiesOK'
<1>1. CASE UNCHANGED communityVars
  BY <1>1 DEF communityVars, CommunitiesOK, CallsOK, DiskOK, GraphOK, SweepOK, CompleteOK
<1>2. CASE CommunitiesNext
  <2>0. UNCHANGED use
    BY <1>2 DEF CommunitiesNext
  <2>1. CASE Detecting
    BY <2>0, <2>1, VisitOK, SweepEndOK DEF Detecting
  <2>2. CASE Restart
    BY <2>0, <2>2, RestartOK
  <2>3. ASSUME NEW c \in Clients, Calling(c) PROVE CommunitiesOK'
    BY <2>0, <2>3, IngestApplyOK, ReindexStepOK, BuildCopyOK, SummarizeOK, BuildInstallOK, PersistOK,
       GlobalGatherOK, GlobalAnswerOK DEF Calling
  <2>4. ASSUME NEW c \in Clients, NEW d \in use.docs, AddDocuments(c, d.id, d.content) PROVE CommunitiesOK'
    BY <2>0, <2>4, AddDocumentsOK
  <2>5. ASSUME NEW c \in Clients, NEW id \in Docs, DeleteDocument(c, id) PROVE CommunitiesOK'
    BY <2>0, <2>5, DeleteDocumentOK
  <2>6. ASSUME NEW c \in Clients, NEW docs \in kSubset(1, use.docs) \cup kSubset(2, use.docs), IngestStart(c, docs)
        PROVE  CommunitiesOK'
    <3>1. docs \in SUBSET use.docs
      BY DEF kSubset
    <3> QED BY <2>0, <2>6, <3>1, IngestStartOK
  <2>7. ASSUME NEW c \in Clients, BuildBegin(c) \/ BuildCancelled(c) \/ GlobalBegin(c) PROVE CommunitiesOK'
    BY <2>0, <2>7, BuildBeginOK, BuildCancelledOK, GlobalBeginOK
  <2> QED BY <1>2, <2>1, <2>2, <2>3, <2>4, <2>5, <2>6, <2>7 DEF CommunitiesNext
<1> QED BY <1>1, <1>2

\* In every state the stores, the detection in progress and the saved store are such.
THEOREM CommunitiesInvariant == CommunitiesSpec => []CommunitiesOK
<1>1. CommunitiesInit => CommunitiesOK
  BY InitOK
<1>2. CommunitiesOK /\ [CommunitiesNext]_communityVars => CommunitiesOK'
  BY CommunitiesStepOK
<1> QED BY <1>1, <1>2, PTL DEF CommunitiesSpec

\* A partition read between critical sections is one of the chunks that are there: one
\* label per chunk, labels 1..C, and no community that the graph does not connect
\* (store.go:786 rebuildGraph, community.go:83 DetectCommunities).
THEOREM PartitionHolds == CommunitiesSpec => []PartitionFits
<1>1. CommunitiesOK => PartitionFits
  <2> SUFFICES ASSUME CommunitiesOK PROVE PartitionFits
    OBVIOUS
  <2>0. StoreOK(store) /\ StoreRecord(store)
    BY DEF CommunitiesOK, GraphOK, StoreOK
  <2>1. store.content \in [Docs -> Contents \cup {NULL}]
    BY <2>0 DEF StoreRecord
  <2>2. ASSUME sweep = NULL, store.comm # NULL, \A c \in Clients : stage[c] # "ingesting"
        PROVE  /\ GraphFits
               /\ DOMAIN store.comm = DOMAIN store.chunks
               /\ Labels(store.comm) = 1..Cardinality(Labels(store.comm))
               /\ \A i, j \in DOMAIN store.comm : store.comm[i] = store.comm[j] => Joined(store.g, i, j)
    <3>1. Complete(store) /\ store.g # NULL /\ PartitionOf(store.g, store.comm)
      BY <2>0, <2>2 DEF CommunitiesOK, CompleteOK, StoreOK
    <3>2. GraphOf(store.g, store.chunks, Len(store.chunks))
      BY <2>0, <3>1 DEF StoreOK, Complete, UpToDate, Indexed
    <3>3. DOMAIN store.g = 1..Len(store.chunks) /\ DOMAIN store.chunks = 1..Len(store.chunks)
      BY <2>0, <3>2 DEF GraphOf, Weighted, StoreRecord
    <3>4. \A i, j \in 1..Len(store.chunks) : store.g[i][j] = store.g[j][i]
      BY <3>2 DEF GraphOf, Weighted
    <3>5. GraphFits
      BY <3>2, <3>3, <3>4 DEF GraphFits, GraphOf
    <3>6. DOMAIN store.comm = DOMAIN store.chunks
      BY <3>1, <3>3 DEF PartitionOf
    <3> QED BY <3>1, <3>5, <3>6 DEF PartitionOf
  <2> QED BY <2>1, <2>2 DEF PartitionFits
<1> QED BY <1>1, CommunitiesInvariant, PTL

-----------------------------------------------------------------------------
(* Detections end in a fixed point.                                         *)

\* A step of a detection: a visit makes progress, and the last sweep changed nothing.
VisitGains ==
  \/ sweep'.labels = sweep.labels
  \/ Inside(store.g, sweep'.labels) > Inside(store.g, sweep.labels)
  \/ /\ Inside(store.g, sweep'.labels) = Inside(store.g, sweep.labels)
     /\ Height(sweep'.labels) < Height(sweep.labels)

SweepGains ==
  sweep # NULL =>
    /\ sweep' # NULL /\ Len(sweep'.todo) < Len(sweep.todo) => VisitGains
    /\ store'.comm # NULL => Settled(store'.g, store'.comm) \/ sweep.iter = MaxIter

LEMMA SweepFacts ==
  ASSUME CommunitiesOK, sweep # NULL
  PROVE  /\ store.comm = NULL /\ sweep \in Detection /\ StoreOK(store) /\ StoreRecord(store)
         /\ DetectionOK(store.g, Len(store.chunks), sweep) /\ Weighted(store.g, Len(store.chunks))
         /\ Len(sweep.todo) \in Nat
<1>1. /\ store.comm = NULL /\ sweep \in Detection /\ StoreOK(store) /\ StoreRecord(store)
      /\ DetectionOK(store.g, Len(store.chunks), sweep) /\ UpToDate(store) /\ store.g # NULL
  BY DEF CommunitiesOK, GraphOK, SweepOK, StoreOK
<1>2. Weighted(store.g, Len(store.chunks))
  BY <1>1 DEF StoreOK, Indexed, UpToDate, GraphOf
<1>3. Len(sweep.todo) \in Nat
  BY <1>1 DEF Detection
<1> QED BY <1>1, <1>2, <1>3

LEMMA VisitGainsStep ==
  ASSUME CommunitiesOK, Visit
  PROVE  SweepGains
<1> DEFINE n == Len(store.chunks)
           g == store.g
           labels == sweep.labels
           b == Head(sweep.todo)
           q == Heaviest(g, labels, b)
           new == [labels EXCEPT ![b] = q]
<1>1. sweep # NULL /\ sweep.todo # <<>> /\ store' = store
  BY DEF Visit
<1>2. store.comm = NULL /\ sweep \in Detection /\ DetectionOK(g, n, sweep) /\ Weighted(g, n)
  BY <1>1, SweepFacts
<1>3. b \in 1..n /\ labels \in [1..n -> 1..n] /\ n \in Nat
  <2>1. sweep.todo \in Seq(1..n) /\ labels \in [1..n -> 1..n] /\ n \in Nat
    BY <1>2 DEF DetectionOK, Weighted
  <2> DEFINE S == 1..n
             r == sweep.todo
  <2>2. r \in Seq(S) /\ r # <<>>
    BY <1>1, <2>1
  <2>3. Head(r) \in S
    <3> HIDE DEF S, r
    <3> QED BY <2>2
  <2> QED BY <2>1, <2>3
<1>4. labels \in [1..n -> Nat]
  BY <1>3, LabelsAreNumbers
<1>5. sweep'.labels = new
  <2>1. sweep' = [sweep EXCEPT !.todo = Tail(@), !.labels[b] = q, !.changed = @ \/ q # sweep.labels[b]]
    BY DEF Visit
  <2>2. DOMAIN sweep = {"labels", "iter", "todo", "changed"}
    BY <1>2 DEF Detection
  <2> HIDE DEF q, b
  <2> QED BY <2>1, <2>2
<1> HIDE DEF q, b, n, labels
<1>6. VisitGains
  <2>1. CASE q = labels[b]
    <3>1. new = labels
      BY <1>4, <2>1
    <3> QED BY <1>5, <3>1 DEF VisitGains, labels
  <2>2. CASE q # labels[b]
    <3>0. Heaviest(g, labels, b) # labels[b] /\ new = [labels EXCEPT ![b] = Heaviest(g, labels, b)]
      BY <2>2 DEF q
    <3> DEFINE k == new
    <3> HIDE DEF k
    <3>1. \/ Inside(g, k) > Inside(g, labels)
          \/ Inside(g, k) = Inside(g, labels) /\ Height(k) < Height(labels)
      BY <1>2, <1>3, <1>4, <3>0, VisitProgress DEF k
    <3> QED BY <1>5, <3>1 DEF VisitGains, labels, k
  <2> QED BY <2>1, <2>2
<1> QED BY <1>1, <1>2, <1>6 DEF SweepGains

LEMMA SweepEndGains ==
  ASSUME CommunitiesOK, CommunitiesOK', SweepEnd
  PROVE  SweepGains
<1> DEFINE n == Len(store.chunks)
<1>1. sweep # NULL /\ sweep.todo = <<>>
  BY DEF SweepEnd
<1>2. /\ store.comm = NULL /\ DetectionOK(store.g, n, sweep) /\ Weighted(store.g, n)
      /\ StoreRecord(store) /\ sweep \in Detection
  BY <1>1, SweepFacts
<1>3. ASSUME sweep' # NULL PROVE ~(Len(sweep'.todo) < Len(sweep.todo))
  <2>1. Len(sweep'.todo) \in Nat
    <3>1. sweep' \in Detection
      BY <1>3 DEF CommunitiesOK, GraphOK, SweepOK
    <3> QED BY <3>1 DEF Detection
  <2>2. Len(sweep.todo) = 0
    BY <1>1
  <2> QED BY <2>1, <2>2
<1>4. ASSUME store'.comm # NULL, sweep.iter # MaxIter PROVE Settled(store'.g, store'.comm)
  <2>1. ~(sweep.changed /\ sweep.iter < MaxIter)
    BY <1>2, <1>4 DEF SweepEnd
  <2>2. store' = [store EXCEPT !.comm = compact(sweep.labels)]
    BY <2>1 DEF SweepEnd
  <2>3. store'.g = store.g /\ store'.comm = compact(sweep.labels)
    <3> DEFINE k == compact(sweep.labels)
    <3>1. store' = [store EXCEPT !.comm = k]
      BY <2>2
    <3> HIDE DEF k
    <3>2. store'.g = store.g /\ store'.comm = k
      BY <1>2, <3>1 DEF StoreRecord, StoreFields
    <3> QED BY <3>2 DEF k
  <2>4. ~sweep.changed
    <3>1. sweep.iter \in 1..MaxIter /\ MaxIter \in Nat
      BY <1>2, LimitsAssumption DEF DetectionOK
    <3> QED BY <1>4, <2>1, <3>1
  <2>5. \A i \in 1..n : Heaviest(store.g, sweep.labels, i) = sweep.labels[i]
    <3>1. \A i \in 1..n : i \in ToSet(sweep.todo) \/ Heaviest(store.g, sweep.labels, i) = sweep.labels[i]
      BY <1>2, <2>4 DEF DetectionOK
    <3>2. ToSet(sweep.todo) = {}
      BY <1>1 DEF ToSet
    <3> QED BY <3>1, <3>2
  <2>6. n \in Nat /\ sweep.labels \in [1..n -> 1..n]
    BY <1>2 DEF DetectionOK, Weighted
  <2>7. sweep.labels \in [1..n -> Nat]
    BY <2>6, LabelsAreNumbers
  <2>8. Settled(store.g, compact(sweep.labels))
    BY <1>2, <2>5, <2>7, FixpointSettled
  <2> QED BY <2>3, <2>8
<1> QED BY <1>3, <1>4 DEF SweepGains

\* No other step touches a detection in progress, or stores a partition while there is one.
LEMMA OtherStepsGain ==
  ASSUME CommunitiesOK, CommunitiesOK', UNCHANGED sweep, UNCHANGED store
  PROVE  SweepGains
<1>1. CASE sweep = NULL
  BY <1>1 DEF SweepGains
<1>2. CASE sweep # NULL
  <2>1. store.comm = NULL /\ Len(sweep.todo) \in Nat
    BY <1>2, SweepFacts
  <2> QED BY <2>1 DEF SweepGains
<1> QED BY <1>1, <1>2

\* Propagation cannot come back to labels it had, and the partition of a detection that
\* MaxIter does not cut off is one that no node would leave (graph/community.go:109-148).
THEOREM SweepsAlwaysProgress == CommunitiesSpec => SweepsProgress
<1>1. CommunitiesOK /\ CommunitiesOK' /\ [CommunitiesNext]_communityVars => [SweepGains]_communityVars
  <2> SUFFICES ASSUME CommunitiesOK, CommunitiesOK', CommunitiesNext PROVE SweepGains
    OBVIOUS
  <2>1. CASE Detecting
    BY <2>1, VisitGainsStep, SweepEndGains DEF Detecting
  <2>2. CASE Restart
    <3>1. store'.comm = NULL
      BY <2>2 DEF Restart, EmptyStore
    <3> QED BY <2>2, <3>1 DEF Restart, SweepGains
  <2>3. ASSUME NEW c \in Clients, Calling(c) PROVE SweepGains
    <3>1. CASE UNCHANGED <<sweep, store>>
      BY <3>1, OtherStepsGain
    <3>2. CASE Unlocked
      BY <3>2 DEF Unlocked, SweepGains
    <3> QED BY <2>3, <3>1, <3>2 DEF Calling, IngestApply, Reindex, BuildCopy, Summarize, BuildInstall, Persist,
                                    GlobalGather, GlobalAnswer
  <2>4. ASSUME Unlocked PROVE SweepGains
    BY <2>4 DEF Unlocked, SweepGains
  <2>5. ASSUME NEW c \in Clients, NEW d \in use.docs, AddDocuments(c, d.id, d.content) PROVE SweepGains
    BY <2>4, <2>5 DEF AddDocuments
  <2>6. ASSUME NEW c \in Clients, NEW id \in Docs, DeleteDocument(c, id) PROVE SweepGains
    BY <2>4, <2>6 DEF DeleteDocument
  <2>7. ASSUME NEW c \in Clients, NEW docs, IngestStart(c, docs) PROVE SweepGains
    BY <2>7, OtherStepsGain DEF IngestStart
  <2>8. ASSUME NEW c \in Clients, BuildBegin(c) \/ BuildCancelled(c) \/ GlobalBegin(c) PROVE SweepGains
    BY <2>4, <2>8, OtherStepsGain DEF BuildBegin, BuildCancelled, GlobalBegin
  <2> QED BY <2>1, <2>2, <2>3, <2>5, <2>6, <2>7, <2>8 DEF CommunitiesNext
<1> QED BY <1>1, CommunitiesInvariant, PTL DEF CommunitiesSpec, SweepsProgress, SweepGains, VisitGains

-----------------------------------------------------------------------------
(* Programs that make one call at a time, and neither ingest in bulk nor    *)
(* restart.                                                                 *)

Alone == use.atOnce = 1 /\ use.calls \cap {"ingest", "restart"} = {}

Written(found) == \A l \in DOMAIN found : found[l] = Passages(store.chunks, store.comm, l)

\* The graph is never put off, and the summaries are those of the partition there is.
StoreFits ==
  ~store.deferGraph /\ (sweep # NULL => store.summaries = <<>>) /\ Written(store.summaries)

\* No call is underway while a detection is, and what a call has copied, written or
\* gathered agrees with the partition.
CallFits(c) ==
  /\ stage[c] # "ingesting" /\ (sweep # NULL => stage[c] = "idle")
  /\ stage[c] \in {"idle", "copying"} => task[c].found = <<>>
  /\ stage[c] = "summarizing" =>
       Written(task[c].jobs) /\ Written(task[c].found)
       /\ task[c].todo \cup DOMAIN task[c].found \subseteq DOMAIN task[c].jobs
  /\ stage[c] = "answering" => \A s \in task[c].answer : s.summary = s.texts

AloneOK == Alone => StoreFits /\ \A c \in Clients : CallFits(c)

LEMMA NobodyElse ==
  ASSUME Alone, NEW c, NEW call, Idle(c, call)
  PROVE  \A b \in Clients : stage[b] = "idle"
<1> DEFINE S == {b \in Clients : stage[b] # "idle"}
<1>1. Cardinality(S) < 1
  BY DEF Alone, Idle
<1>2. IsFiniteSet(S)
  BY ClientsAssumption, FS_Subset
<1> HIDE DEF S
<1>3. Cardinality(S) \in Nat
  BY <1>2, FS_CardinalityType
<1>4. Cardinality(S) = 0
  BY <1>1, <1>3
<1>5. S = {}
  BY <1>2, <1>4, FS_EmptySet
<1> QED BY <1>5 DEF S

\* A call that does not move keeps what it has, while nobody changes the partition.
LEMMA FitsKept ==
  ASSUME NEW b \in Clients, CallFits(b), stage'[b] = stage[b], task'[b] = task[b],
         \/ stage[b] = "idle"
         \/ /\ store'.chunks = store.chunks /\ store'.comm = store.comm
            /\ sweep' = sweep \/ sweep' = NULL
  PROVE  CallFits(b)'
<1>1. CASE stage[b] = "idle"
  BY <1>1 DEF CallFits
<1>2. CASE /\ store'.chunks = store.chunks /\ store'.comm = store.comm
           /\ sweep' = sweep \/ sweep' = NULL
  BY <1>2 DEF CallFits, Written
<1> QED BY <1>1, <1>2

\* A change of the documents forgets the summaries.
LEMMA ForgottenFits ==
  ASSUME AloneOK, Alone, UNCHANGED <<use, stage, task>>, \A b \in Clients : stage[b] = "idle",
         ~store'.deferGraph, store'.summaries = <<>>
  PROVE  AloneOK'
<1>1. StoreFits'
  BY DEF StoreFits, Written
<1>2. ASSUME NEW b \in Clients PROVE CallFits(b)'
  BY FitsKept DEF AloneOK
<1> QED BY <1>1, <1>2 DEF AloneOK

LEMMA AddDocumentsFits ==
  ASSUME CommunitiesOK, AloneOK, Alone, UNCHANGED use, NEW c \in Clients, NEW d \in use.docs,
         AddDocuments(c, d.id, d.content)
  PROVE  AloneOK'
<1> DEFINE a == applyPreparedLocked(store, d.id, d.content)
           m == [a EXCEPT !.summaries = <<>>]
<1>1. use \in Uses /\ StoreOK(store) /\ Partitioned(store) /\ Idle(c, "add")
  BY UnlockedOK DEF CommunitiesOK, CallsOK, AddDocuments
<1>2. d.id \in Docs /\ d.content \in Contents
  BY <1>1, DocumentsOK
<1>3. StoreOK(a) /\ SameGraph(store, a)
  BY <1>1, <1>2, ApplyOK
<1>4. Detect(reindexLocked(m)) /\ UNCHANGED <<disk, stage, task>>
  BY DEF AddDocuments
<1> HIDE DEF a
<1>5. Partitioned(a) /\ ~a.deferGraph
  BY <1>1, <1>3 DEF Partitioned, SameGraph, AloneOK, StoreFits
<1>6. StoreOK(m) /\ Partitioned(m) /\ ~m.deferGraph /\ m.summaries = <<>>
  <2>1. StoreOK(m) /\ Partitioned(m)
    BY <1>3, <1>5, ForgetOK
  <2>2. ~m.deferGraph /\ m.summaries = <<>>
    BY <1>3, <1>5 DEF StoreOK, StoreRecord, StoreFields
  <2> QED BY <2>1, <2>2
<1> HIDE DEF m
<1>7. SameTexts(m, store')
  BY <1>1, <1>4, <1>6, ReindexOK
<1>8. \A b \in Clients : stage[b] = "idle"
  BY <1>1, NobodyElse
<1> QED BY <1>4, <1>6, <1>7, <1>8, ForgottenFits DEF SameTexts

LEMMA DeleteDocumentFits ==
  ASSUME CommunitiesOK, AloneOK, Alone, UNCHANGED use, NEW c \in Clients, NEW id \in Docs, DeleteDocument(c, id)
  PROVE  AloneOK'
<1> DEFINE a == removeDocLocked(store, id)
           m == [a EXCEPT !.summaries = <<>>]
<1>1. use \in Uses /\ StoreOK(store) /\ Partitioned(store) /\ Idle(c, "delete")
  BY UnlockedOK DEF CommunitiesOK, CallsOK, DeleteDocument
<1>3. StoreOK(a) /\ SameGraph(store, a)
  BY <1>1, RemoveOK
<1>4. Detect(reindexLocked(m)) /\ UNCHANGED <<disk, stage, task>>
  BY DEF DeleteDocument
<1> HIDE DEF a
<1>5. Partitioned(a) /\ ~a.deferGraph
  BY <1>1, <1>3 DEF Partitioned, SameGraph, AloneOK, StoreFits
<1>6. StoreOK(m) /\ Partitioned(m) /\ ~m.deferGraph /\ m.summaries = <<>>
  <2>1. StoreOK(m) /\ Partitioned(m)
    BY <1>3, <1>5, ForgetOK
  <2>2. ~m.deferGraph /\ m.summaries = <<>>
    BY <1>3, <1>5 DEF StoreOK, StoreRecord, StoreFields
  <2> QED BY <2>1, <2>2
<1> HIDE DEF m
<1>7. SameTexts(m, store')
  BY <1>1, <1>4, <1>6, ReindexOK
<1>8. \A b \in Clients : stage[b] = "idle"
  BY <1>1, NobodyElse
<1> QED BY <1>4, <1>6, <1>7, <1>8, ForgottenFits DEF SameTexts

\* Steps that keep the partition: all that is to be seen is that the call that moves fits.
LEMMA MovedFits ==
  ASSUME CallsOK, AloneOK, Alone, UNCHANGED use, NEW c \in Clients,
         store'.chunks = store.chunks, store'.comm = store.comm, store'.deferGraph = store.deferGraph,
         sweep' = sweep \/ sweep' = NULL, Written(store'.summaries), sweep' # NULL => store'.summaries = <<>>,
         \A b \in Clients \ {c} : stage'[b] = stage[b] /\ task'[b] = task[b], CallFits(c)'
  PROVE  AloneOK'
<1>1. StoreFits'
  BY DEF AloneOK, StoreFits, Written
<1>2. ASSUME NEW b \in Clients PROVE CallFits(b)'
  <2>1. CASE b = c
    BY <2>1
  <2>2. CASE b # c
    BY <2>2, FitsKept DEF AloneOK
  <2> QED BY <2>1, <2>2
<1> QED BY <1>1, <1>2 DEF AloneOK

LEMMA QuietFits ==
  ASSUME CallsOK, AloneOK, Alone, UNCHANGED <<use, store, sweep>>, NEW c \in Clients,
         \A b \in Clients \ {c} : stage'[b] = stage[b] /\ task'[b] = task[b], CallFits(c)'
  PROVE  AloneOK'
BY MovedFits DEF AloneOK, StoreFits

LEMMA FinishFits ==
  ASSUME CallsOK, AloneOK, Alone, UNCHANGED <<use, store, sweep>>, NEW c \in Clients, Finish(c)
  PROVE  AloneOK'
<1>1. stage' = [stage EXCEPT ![c] = "idle"] /\ task' = [task EXCEPT ![c] = NoTask]
  BY DEF Finish, Goto
<1>2. stage'[c] = "idle" /\ task'[c] = NoTask /\ \A b \in Clients \ {c} : stage'[b] = stage[b] /\ task'[b] = task[b]
  BY <1>1 DEF CallsOK
<1>3. CallFits(c)'
  BY <1>2 DEF CallFits, NoTask
<1> QED BY <1>2, <1>3, QuietFits

LEMMA EnsuringFits ==
  ASSUME CommunitiesOK, AloneOK, Alone, UNCHANGED <<use, task>>, Unlocked, NEW c \in Clients, stage[c] = "idle",
         NEW l \in {"copying", "gathering"}, Goto(c, l), Detect(ensureGraphLocked(store))
  PROVE  AloneOK'
<1>1. CallsOK /\ Partitioned(store) /\ sweep = NULL /\ CallFits(c) /\ ~store.deferGraph
  BY UnlockedOK DEF CommunitiesOK, AloneOK, StoreFits
<1>2. store' = store /\ sweep' = sweep
  BY <1>1 DEF ensureGraphLocked, Detect, Partitioned
<1>3. stage'[c] = l /\ \A b \in Clients \ {c} : stage'[b] = stage[b]
  BY <1>1 DEF CallsOK, Goto
<1>4. CallFits(c)'
  BY <1>1, <1>2, <1>3 DEF CallFits
<1> QED BY <1>1, <1>2, <1>3, <1>4, QuietFits

LEMMA BuildCopyFits ==
  ASSUME CallsOK, AloneOK, Alone, UNCHANGED use, NEW c \in Clients, BuildCopy(c)
  PROVE  AloneOK'
<1>1. UNCHANGED <<store, sweep>> /\ stage[c] = "copying" /\ sweep = NULL /\ CallFits(c)
  BY DEF BuildCopy, Unlocked, AloneOK
<1>2. CASE Jobs(store) = {}
  <2>1. stage' = [stage EXCEPT ![c] = "persisting"] /\ task' = task
    BY <1>2 DEF BuildCopy, Goto
  <2>2. stage'[c] = "persisting" /\ \A b \in Clients \ {c} : stage'[b] = stage[b] /\ task'[b] = task[b]
    BY <2>1 DEF CallsOK
  <2>3. CallFits(c)'
    BY <1>1, <2>2 DEF CallFits
  <2> QED BY <1>1, <2>2, <2>3, QuietFits
<1>3. CASE Jobs(store) # {}
  <2> DEFINE J == [l \in Jobs(store) |-> Passages(store.chunks, store.comm, l)]
  <2>1. /\ stage' = [stage EXCEPT ![c] = "summarizing"]
        /\ task' = [task EXCEPT ![c].jobs = J, ![c].todo = Jobs(store)]
    BY <1>3 DEF BuildCopy, Goto
  <2>2. DOMAIN J = Jobs(store) /\ Written(J)
    BY DEF Written
  <2> HIDE DEF J
  <2>3. DOMAIN task = Clients /\ DOMAIN task[c] = {"docs", "jobs", "todo", "found", "answer"}
    BY DEF CallsOK
  <2>4. task'[c].jobs = J /\ task'[c].todo = Jobs(store) /\ task'[c].found = task[c].found
    BY <2>1, <2>3
  <2>5. stage'[c] = "summarizing" /\ \A b \in Clients \ {c} : stage'[b] = stage[b] /\ task'[b] = task[b]
    BY <2>1, <2>3 DEF CallsOK
  <2>6. Written(task[c].found) /\ DOMAIN task[c].found = {}
    BY <1>1 DEF CallFits, Written
  <2>7. CallFits(c)'
    BY <1>1, <2>2, <2>4, <2>5, <2>6 DEF CallFits, Written
  <2> QED BY <1>1, <2>5, <2>7, QuietFits
<1> QED BY <1>2, <1>3

LEMMA SummarizeFits ==
  ASSUME CallsOK, AloneOK, Alone, UNCHANGED use, NEW c \in Clients, Summarize(c)
  PROVE  AloneOK'
<1>1. UNCHANGED <<store, sweep, stage>> /\ stage[c] = "summarizing" /\ CallFits(c)
  BY DEF Summarize, AloneOK
<1>2. PICK l \in task[c].todo :
        \/ task' = [task EXCEPT ![c].todo = @ \ {l}, ![c].found = Restrict(task[c].jobs, DOMAIN @ \cup {l})]
        \/ task' = [task EXCEPT ![c].todo = @ \ {l}]
  BY DEF Summarize
<1>3. /\ Written(task[c].jobs) /\ Written(task[c].found)
      /\ task[c].todo \subseteq DOMAIN task[c].jobs /\ DOMAIN task[c].found \subseteq DOMAIN task[c].jobs
      /\ sweep = NULL
  BY <1>1 DEF CallFits
<1>4. DOMAIN task = Clients /\ DOMAIN task[c] = {"docs", "jobs", "todo", "found", "answer"}
  BY DEF CallsOK
<1> DEFINE more == Restrict(task[c].jobs, DOMAIN task[c].found \cup {l})
<1>5. Written(more)
  <2>1. DOMAIN task[c].found \cup {l} \subseteq DOMAIN task[c].jobs
    BY <1>2, <1>3
  <2> QED BY <1>3, <2>1 DEF Written, Restrict
<1>6. task'[c].jobs = task[c].jobs /\ task'[c].todo \subseteq task[c].todo
      /\ task'[c].found \in {more, task[c].found} /\ \A b \in Clients \ {c} : task'[b] = task[b]
  <2>1. CASE task' = [task EXCEPT ![c].todo = @ \ {l}, ![c].found = Restrict(task[c].jobs, DOMAIN @ \cup {l})]
    <3>1. task' = [task EXCEPT ![c].todo = @ \ {l}, ![c].found = more]
      BY <2>1
    <3> HIDE DEF more
    <3> QED BY <1>4, <3>1
  <2>2. CASE task' = [task EXCEPT ![c].todo = @ \ {l}]
    <3> HIDE DEF more
    <3> QED BY <1>4, <2>2
  <2> QED BY <1>2, <2>1, <2>2
<1>n. DOMAIN more \subseteq DOMAIN task[c].jobs
  BY <1>2, <1>3 DEF Restrict
<1> HIDE DEF more
<1>7. CallFits(c)'
  BY <1>1, <1>3, <1>5, <1>6, <1>n DEF CallFits, Written
<1> QED BY <1>1, <1>6, <1>7, QuietFits

LEMMA BuildInstallFits ==
  ASSUME CommunitiesOK, AloneOK, Alone, UNCHANGED use, NEW c \in Clients, BuildInstall(c)
  PROVE  AloneOK'
<1> DEFINE found == task[c].found
<1>1. /\ CallsOK /\ StoreRecord(store) /\ sweep = NULL /\ sweep' = sweep /\ task' = task /\ CallFits(c)
      /\ stage[c] = "summarizing"
  BY UnlockedOK DEF CommunitiesOK, BuildInstall, AloneOK
<1>2. Written(found)
  BY <1>1 DEF CallFits
<1>3. store' = [store EXCEPT !.summaries = found] /\ stage' = [stage EXCEPT ![c] = "persisting"]
  BY DEF BuildInstall, Goto
<1> HIDE DEF found
<1>4. store'.chunks = store.chunks /\ store'.comm = store.comm /\ store'.deferGraph = store.deferGraph
      /\ store'.summaries = found
  BY <1>1, <1>3 DEF StoreRecord, StoreFields
<1>5. stage'[c] = "persisting" /\ \A b \in Clients \ {c} : stage'[b] = stage[b] /\ task'[b] = task[b]
  BY <1>1, <1>3 DEF CallsOK
<1>6. CallFits(c)'
  BY <1>1, <1>5 DEF CallFits
<1> QED BY <1>1, <1>2, <1>4, <1>5, <1>6, MovedFits

LEMMA GlobalGatherFits ==
  ASSUME CallsOK, AloneOK, Alone, UNCHANGED use, NEW c \in Clients, GlobalGather(c)
  PROVE  AloneOK'
<1>1. UNCHANGED <<store, sweep>> /\ stage[c] = "gathering" /\ sweep = NULL /\ StoreFits
  BY DEF GlobalGather, Unlocked, AloneOK
<1>2. CASE Finish(c)
  BY <1>1, <1>2, FinishFits
<1>3. CASE ~Finish(c)
  <2>1. PICK best \in SUBSET CommunitySummaries(store) :
          task' = [task EXCEPT ![c].answer = best] /\ Goto(c, "answering")
    BY <1>3 DEF GlobalGather
  <2>2. ASSUME NEW s \in best PROVE s.summary = s.texts
    <3>1. PICK l \in DOMAIN store.summaries :
            s = [summary |-> store.summaries[l], texts |-> Passages(store.chunks, store.comm, l)]
      BY <2>1 DEF CommunitySummaries
    <3> QED BY <1>1, <3>1 DEF StoreFits, Written
  <2>3. task'[c].answer = best /\ \A b \in Clients \ {c} : task'[b] = task[b]
    BY <2>1 DEF CallsOK
  <2>4. stage'[c] = "answering" /\ \A b \in Clients \ {c} : stage'[b] = stage[b]
    BY <2>1 DEF CallsOK, Goto
  <2>5. CallFits(c)'
    BY <1>1, <2>2, <2>3, <2>4 DEF CallFits
  <2> QED BY <1>1, <2>3, <2>4, <2>5, QuietFits
<1> QED BY <1>2, <1>3

\* A detection in progress: no call is underway, and there are no summaries.
LEMMA DetectingFits ==
  ASSUME CommunitiesOK, CommunitiesOK', AloneOK, Alone, UNCHANGED use, Detecting
  PROVE  AloneOK'
<1>1. sweep # NULL /\ UNCHANGED <<stage, task>> /\ StoreFits /\ \A b \in Clients : CallFits(b)
  BY DEF Detecting, Visit, SweepEnd, AloneOK
<1>2. store.summaries = <<>> /\ ~store.deferGraph /\ \A b \in Clients : stage[b] = "idle"
  BY <1>1 DEF StoreFits, CallFits
<1>3. store'.summaries = <<>> /\ ~store'.deferGraph
  <2>1. CASE store' = store
    BY <1>2, <2>1
  <2>2. CASE store' # store
    <3> DEFINE k == compact(sweep.labels)
    <3>1. store' = [store EXCEPT !.comm = k]
      BY <2>2 DEF Detecting, Visit, SweepEnd
    <3>2. StoreRecord(store)
      BY DEF CommunitiesOK, GraphOK, StoreOK
    <3> HIDE DEF k
    <3> QED BY <1>2, <3>1, <3>2 DEF StoreRecord, StoreFields
  <2> QED BY <2>1, <2>2
<1> QED BY <1>1, <1>2, <1>3, ForgottenFits

LEMMA AloneStepOK ==
  ASSUME CommunitiesOK, CommunitiesOK', AloneOK, [CommunitiesNext]_communityVars
  PROVE  AloneOK'
<1>1. CASE UNCHANGED communityVars
  BY <1>1 DEF communityVars, AloneOK, Alone, StoreFits, CallFits, Written
<1>2. CASE CommunitiesNext /\ ~Alone
  BY <1>2 DEF CommunitiesNext, AloneOK, Alone
<1>3. CASE CommunitiesNext /\ Alone
  <2>0. UNCHANGED use /\ Alone /\ CallsOK
    BY <1>3 DEF CommunitiesNext, CommunitiesOK
  <2>1. CASE Detecting
    BY <2>0, <2>1, DetectingFits
  <2>2. CASE Restart
    BY <2>0, <2>2 DEF Restart, Alone
  <2>3. ASSUME NEW c \in Clients, Calling(c) PROVE AloneOK'
    <3>1. stage[c] # "ingesting"
      BY <2>0 DEF AloneOK, CallFits
    <3>2. CASE BuildCopy(c) \/ Summarize(c) \/ BuildInstall(c) \/ GlobalGather(c)
      BY <2>0, <3>2, BuildCopyFits, SummarizeFits, BuildInstallFits, GlobalGatherFits
    <3>3. CASE Persist(c) \/ GlobalAnswer(c)
      BY <2>0, <3>3, FinishFits DEF Persist, GlobalAnswer
    <3> QED BY <2>3, <3>1, <3>2, <3>3 DEF Calling, IngestApply, Reindex
  <2>4. ASSUME NEW c \in Clients, NEW d \in use.docs, AddDocuments(c, d.id, d.content) PROVE AloneOK'
    BY <2>0, <2>4, AddDocumentsFits
  <2>5. ASSUME NEW c \in Clients, NEW id \in Docs, DeleteDocument(c, id) PROVE AloneOK'
    BY <2>0, <2>5, DeleteDocumentFits
  <2>6. ASSUME NEW c \in Clients, NEW docs, IngestStart(c, docs) PROVE AloneOK'
    BY <2>0, <2>6 DEF IngestStart, Idle, Alone
  <2>7. ASSUME NEW c \in Clients, BuildBegin(c) \/ GlobalBegin(c) PROVE AloneOK'
    BY <2>0, <2>7, EnsuringFits DEF BuildBegin, GlobalBegin, Idle
  <2>8. ASSUME NEW c \in Clients, BuildCancelled(c) PROVE AloneOK'
    BY <2>0, <2>8, FinishFits DEF BuildCancelled
  <2> QED BY <1>3, <2>1, <2>2, <2>3, <2>4, <2>5, <2>6, <2>7, <2>8 DEF CommunitiesNext
<1> QED BY <1>1, <1>2, <1>3

\* In a program with one call at a time, without bulk ingestion and restarts, the passages
\* an answer cites for a summary are those the summary was written from (store.go:369,
\* rag/community.go:63-158).
THEOREM AnswersFitAlone == CommunitiesSpec => []AnswerFitsAlone
<1>1. CommunitiesInit => AloneOK
  BY DEF CommunitiesInit, AloneOK, StoreFits, CallFits, Written, EmptyStore, NoTask
<1>2. CommunitiesOK /\ CommunitiesOK' /\ AloneOK /\ [CommunitiesNext]_communityVars => AloneOK'
  BY AloneStepOK
<1>3. AloneOK => AnswerFitsAlone
  BY DEF AloneOK, Alone, CallFits, AnswerFitsAlone, AnswerFits
<1> QED BY <1>1, <1>2, <1>3, CommunitiesInvariant, PTL DEF CommunitiesSpec
=============================================================================
