-------------------------------- MODULE Hnsw --------------------------------
(***************************************************************************)
(* HnswIndex (rustyhdf5-ann/src/hnsw.rs): the index is built by inserting  *)
(* vector after vector into a stack of graphs, and searched by a greedy    *)
(* walk through the upper layers and a best-first search of the last.      *)
(* greedy_closest and search_layer are used by both, and so are the        *)
(* actions for them.  A list of neighbours is a set here: its order only   *)
(* decides between equal distances, and here either may win.               *)
(***************************************************************************)
EXTENDS Integers, FiniteSets

CONSTANTS
  Points,             \* vectors, as far as distances tell them apart
  Distance(_, _),     \* compute_distance
  Inputs,             \* what build_with_metric is called with: functions 0..n-1 -> Points
  Level(_),            \* Level(node) = assign_level(node, M)
  M,                  \* m
  EfConstruction,     \* ef_construction
  Requests            \* searches: records of query, k and ef

VARIABLES
  vectors,
  graph,              \* graph[layer][node]: the neighbours
  entry_point,
  ep_level,
  i,                  \* the node being inserted; all are in when i = Size
  pc,
  layer,
  ep,
  request,
  candidates,         \* search_layer: to be expanded
  results,            \*   the best so far
  visited,
  todo,               \* neighbours still to be visited, or to be linked
  answer

vars == <<vectors, graph, entry_point, ep_level, i, pc, layer, ep, request,
          candidates, results, visited, todo, answer>>
index == <<vectors, graph, entry_point, ep_level, i>>
search == <<candidates, results, visited, todo>>

ASSUME ParameterAssumption ==
  M \in Nat /\ M >= 2 /\ EfConstruction \in Nat
ASSUME DistanceAssumption == \A a, b \in Points : Distance(a, b) \in Nat
ASSUME InputAssumption ==
  /\ \A v \in Inputs :
       /\ IsFiniteSet(DOMAIN v)
       /\ DOMAIN v # {}
       /\ v \in [0 .. Cardinality(DOMAIN v) - 1 -> Points]
       /\ \A n \in DOMAIN v : Level(n) \in Nat
  /\ \A r \in Requests : r \in [query : Points, k : Nat, ef : Nat]
-------------------------------------------------------------------------------
Nodes == DOMAIN vectors
Building == i \in Nodes
Inserted == {n \in Nodes : n < i}

\* Layers are made for the levels of all nodes, before the first is inserted.
Layers(v) == UNION {0 .. Level(n) : n \in DOMAIN v}

Larger(a, b) == IF a >= b THEN a ELSE b
Smaller(a, b) == IF a <= b THEN a ELSE b

Query == IF Building THEN vectors[i] ELSE request.query
\* Fault: every search has the width of building.
EfIgnored == EfConstruction

Ef == IF Building THEN EfConstruction ELSE Larger(request.ef, request.k)
\* Fault: a node is connected on all layers.
BottomOnTop == ep_level

\* The walk is greedy above this layer.
Bottom == IF Building THEN Level(i) ELSE 0
MaxConnections(l) == IF l = 0 THEN 2 * M ELSE M

D(n) == Distance(Query, vectors[n])
Nearest(S) == {n \in S : \A o \in S : D(n) <= D(o)}
Furthest(S) == {n \in S : \A o \in S : D(n) >= D(o)}

\* Ways to keep the k elements of S nearest to p.
Closest(p, S, k) ==
  {A \in SUBSET S :
     /\ Cardinality(A) = Smaller(k, Cardinality(S))
     /\ \A a \in A, b \in S \ A : Distance(p, vectors[a]) <= Distance(p, vectors[b])}

NoRequest == [query |-> vectors[0], k |-> 0, ef |-> 0]

Init ==
  /\ vectors \in Inputs
  /\ graph = [l \in Layers(vectors) |-> [n \in Nodes |-> {}]]
  /\ entry_point = 0
  /\ ep_level = Level(0)
  /\ i = 1
  /\ pc = "ready"
  /\ layer = 0
  /\ ep = 0
  /\ request = NoRequest
  /\ candidates = {}
  /\ results = {}
  /\ visited = {}
  /\ todo = {}
  /\ answer = {}

\* The locals of greedy_closest and search_layer are gone.
Return ==
  /\ layer' = 0
  /\ ep' = 0
  /\ candidates' = {}
  /\ results' = {}
  /\ visited' = {}
  /\ todo' = {}

\* Go on with layer l from node e.
Enter(l, e) ==
  /\ layer' = l
  /\ ep' = e
  /\ IF l > Bottom
     THEN /\ pc' = "greedy"
          /\ UNCHANGED search
     ELSE /\ pc' = "expand"
          /\ candidates' = {e}
          /\ results' = {e}
          /\ visited' = {e}
          /\ todo' = {}

\* The loop of build_with_metric: the next vector.
Insert ==
  /\ pc = "ready"
  /\ Building
  /\ Enter(ep_level, entry_point)
  /\ UNCHANGED <<index, request, answer>>

Search(r) ==
  /\ pc = "ready"
  /\ ~Building
  /\ request' = r
  /\ pc' = "start"
  /\ UNCHANGED <<index, layer, ep, search, answer>>

TopLayer == CHOOSE top \in DOMAIN graph : \A l \in DOMAIN graph : l <= top

Start ==
  /\ pc = "start"
  /\ Enter(TopLayer, entry_point)
  /\ UNCHANGED <<index, request, answer>>

\* Fault: equally close counts as closer.
AsClose(n) == D(n) <= D(ep)

Closer(n) == D(n) < D(ep)

\* greedy_closest: one pass over the neighbours of ep.
Greedy ==
  /\ pc = "greedy"
  /\ LET better == {n \in graph[layer][ep] : Closer(n)}
     IN IF better = {} THEN Enter(layer - 1, ep)
        ELSE /\ ep' \in Nearest(better)
             /\ UNCHANGED <<pc, layer, search>>
  /\ UNCHANGED <<index, request, answer>>

Hopeless(c) ==
  /\ \A f \in results : D(f) < D(c)
  /\ Cardinality(results) >= Ef

\* search_layer: take the nearest candidate.
Expand ==
  /\ pc = "expand"
  /\ IF candidates = {} THEN pc' = "select" /\ UNCHANGED <<candidates, todo>>
     ELSE \E c \in Nearest(candidates) :
            /\ candidates' = candidates \ {c}
            /\ IF Hopeless(c) THEN pc' = "select" /\ UNCHANGED todo
               ELSE pc' = "visit" /\ todo' = graph[layer][c]
  /\ UNCHANGED <<index, layer, ep, request, results, visited, answer>>

Promising(n) ==
  \/ \E f \in results : D(n) < D(f)
  \/ Cardinality(results) < Ef

\* search_layer: one neighbour of the candidate taken.
Visit ==
  /\ pc = "visit"
  /\ IF todo = {} THEN pc' = "expand" /\ UNCHANGED search
     ELSE \E n \in todo :
            /\ todo' = todo \ {n}
            /\ visited' = visited \cup {n}
            /\ pc' = pc
            /\ IF n \notin visited /\ Promising(n)
               THEN /\ candidates' = candidates \cup {n}
                    /\ IF Cardinality(results) + 1 > Ef
                       THEN \E f \in Furthest(results \cup {n}) : results' = (results \cup {n}) \ {f}
                       ELSE results' = results \cup {n}
               ELSE UNCHANGED <<candidates, results>>
  /\ UNCHANGED <<index, layer, ep, request, answer>>

\* Choose the neighbours of node i on this layer.
Connect ==
  /\ pc = "select"
  /\ Building
  /\ \E selected \in Closest(Query, results, MaxConnections(layer)) :
       /\ graph' = [graph EXCEPT ![layer][i] = selected]
       /\ todo' = selected
       /\ ep' \in Nearest(selected)
  /\ pc' = "link"
  /\ UNCHANGED <<vectors, entry_point, ep_level, i, layer, request, candidates, results, visited, answer>>

\* Fault: the link back is not counted.
LinkedBackUnpruned(n) == {graph[layer][n] \cup {i}}

\* The lists node n may have once i is its neighbour: see prune_connections.
LinkedBack(n) == Closest(vectors[n], graph[layer][n] \cup {i}, MaxConnections(layer))

Link ==
  /\ pc = "link"
  /\ \E n \in todo :
       /\ graph' \in {[graph EXCEPT ![layer][n] = list] : list \in LinkedBack(n)}
       /\ todo' = todo \ {n}
  /\ UNCHANGED <<vectors, entry_point, ep_level, i, pc, layer, ep, request, candidates, results, visited, answer>>

\* Fault: the entry point does not move up.
EntryStays == UNCHANGED <<entry_point, ep_level>>

MoveEntry ==
  IF Level(i) > ep_level THEN entry_point' = i /\ ep_level' = Level(i)
  ELSE UNCHANGED <<entry_point, ep_level>>

\* All linked: the next layer, or the next vector.
Linked ==
  /\ pc = "link"
  /\ todo = {}
  /\ IF layer > 0
     THEN Enter(layer - 1, ep) /\ UNCHANGED <<index, request, answer>>
     ELSE /\ MoveEntry
          /\ i' = i + 1
          /\ pc' = "ready"
          /\ Return
          /\ UNCHANGED <<vectors, graph, request, answer>>

Answer ==
  /\ pc = "select"
  /\ ~Building
  /\ answer' \in Closest(request.query, results, request.k)
  /\ pc' = "answered"
  /\ UNCHANGED <<index, layer, ep, request, search>>

Done ==
  /\ pc = "answered"
  /\ pc' = "ready"
  /\ request' = NoRequest
  /\ answer' = {}
  /\ Return
  /\ UNCHANGED index

Step ==
  \/ Insert
  \/ Start
  \/ Greedy
  \/ Expand
  \/ Visit
  \/ Connect
  \/ Link
  \/ Linked
  \/ Answer
  \/ Done

Next == Step \/ \E r \in Requests : Search(r)

Spec == Init /\ [][Next]_vars /\ WF_vars(Step)
-------------------------------------------------------------------------------
\* Every layer links only nodes of at least that level, whatever layer a search
\* entered on and wherever its walk went (build_with_metric starts each layer with
\* the node found on the layer above).
Layered ==
  \A l \in DOMAIN graph : \A n \in Nodes :
    graph[l][n] # {} => \A o \in graph[l][n] \cup {n} : Level(o) >= l /\ o <= i

\* No node has more neighbours than its layer allows, although every later node
\* may add itself to its list, and none is its own neighbour.
Degrees ==
  \A l \in DOMAIN graph : \A n \in Nodes :
    n \notin graph[l][n] /\ Cardinality(graph[l][n]) <= MaxConnections(l)

\* The entry point is on the highest layer in use: the walk of the next insertion
\* or search can start there.
EntryOnTop ==
  pc = "ready" =>
    /\ ep_level = Level(entry_point)
    /\ \A n \in Inserted : Level(n) <= ep_level

\* The nodes the search of the last layer can get to from where it starts.
Reachable ==
  LET within[d \in 0 .. Cardinality(Nodes)] ==
        IF d = 0 THEN {ep}
        ELSE within[d - 1] \cup UNION {graph[0][n] : n \in within[d - 1]}
  IN within[Cardinality(Nodes)]

\* A search whose ef is the size of the index misses nothing it can reach.
ExactWhenWide ==
  pc = "answered" /\ request.ef >= Cardinality(Nodes) =>
    answer \in Closest(request.query, visited, request.k) /\ visited = Reachable

\* Every insertion and every search comes to an end.
Terminates == []<>(pc = "ready")
===============================================================================
