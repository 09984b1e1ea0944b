----------------------------- MODULE HnswProofs -----------------------------
(***************************************************************************)
(* Proofs about Hnsw and HnswFile, for any vectors, distances, levels, m   *)
(* and widths: layers link only nodes of their level, lists keep to their  *)
(* limits, and the walks start on the highest layer in use.  Everything a  *)
(* walk looks at is an inserted node of the layer it is on (Walk), which   *)
(* is what makes the links it leads to right.  A search as wide as the     *)
(* index drops nothing it sees (Seen), and so answers exactly; and what is *)
(* saved is loaded, for rows are read where their lists were put (Ends).   *)
(***************************************************************************)
EXTENDS HnswFile, Induction, SequenceTheorems

\* A node that is in, on layer l.
On(n, l) == n \in Inserted /\ Level(n) >= l

Types ==
  /\ vectors \in Inputs
  /\ graph \in [Layers(vectors) -> [Nodes -> SUBSET Nodes]]
  /\ i \in Nat
  /\ i <= Cardinality(Nodes)
  /\ pc \in {"ready", "start", "greedy", "expand", "visit", "select", "link", "answered"}
  /\ pc = "link" => Building
  /\ pc \in {"start", "answered"} => ~Building
  /\ layer \in Nat

Top ==
  /\ entry_point \in Inserted
  /\ ep_level = Level(entry_point)
  /\ \A n \in Inserted : Level(n) <= ep_level

Walk ==
  /\ pc \in {"greedy", "expand", "visit", "select", "link"} =>
       layer \in Layers(vectors) /\ On(ep, layer)
  /\ pc = "greedy" => layer > Bottom
  /\ pc \in {"expand", "visit", "select", "link"} => layer <= Bottom
  /\ pc \in {"expand", "visit", "select"} =>
       \A n \in candidates \cup results \cup todo : On(n, layer)
  /\ pc = "link" => \A n \in todo : On(n, layer)

\* Layers the current insertion has not linked yet.
Fresh(l) ==
  \/ pc \in {"ready", "start", "answered"}
  \/ l < layer
  \/ l = layer /\ pc # "link"

Links ==
  \A l \in DOMAIN graph : \A n \in Nodes :
    /\ graph[l][n] # {} => Level(n) >= l /\ n <= i
    /\ \A o \in graph[l][n] : o # n /\ o <= i /\ Level(o) >= l
    /\ Fresh(l) => \A o \in graph[l][n] : o < i
    /\ Cardinality(graph[l][n]) <= MaxConnections(l)

IInv == Types /\ Top /\ Walk /\ Links
-------------------------------------------------------------------------------
\* Nodes are numbered from zero.
LEMMA NodesAreNumbers ==
  ASSUME vectors \in Inputs
  PROVE  /\ Cardinality(Nodes) \in Nat
         /\ Nodes = 0 .. Cardinality(Nodes) - 1
         /\ 0 \in Nodes
         /\ IsFiniteSet(Nodes)
         /\ \A n \in Nodes : Level(n) \in Nat
<1> DEFINE v == vectors
           c == Cardinality(DOMAIN v)
<1>1. /\ IsFiniteSet(DOMAIN v)
      /\ DOMAIN v # {}
      /\ v \in [0 .. c - 1 -> Points]
      /\ \A n \in DOMAIN v : Level(n) \in Nat
  BY InputAssumption
<1>2. c \in Nat
  BY <1>1, FS_CardinalityType
<1>3. DOMAIN v = 0 .. c - 1
  BY <1>1
<1> HIDE DEF c
<1>4. 0 \in DOMAIN v
  BY <1>1, <1>2, <1>3
<1> QED
  BY <1>1, <1>2, <1>3, <1>4 DEF Nodes, c

\* What is kept of a list is part of it and no longer than asked (prune_connections).
LEMMA ClosestBounded ==
  ASSUME NEW p, NEW S, IsFiniteSet(S), NEW k \in Nat, NEW A \in Closest(p, S, k)
  PROVE  A \subseteq S /\ Cardinality(A) <= k
<1>1. Cardinality(S) \in Nat
  BY FS_CardinalityType
<1>2. A \subseteq S /\ Cardinality(A) = Smaller(k, Cardinality(S))
  BY DEF Closest
<1> QED
  BY <1>1, <1>2 DEF Smaller

\* The layers below a layer are layers.
LEMMA LayersGoDown ==
  ASSUME vectors \in Inputs, NEW l \in Layers(vectors), NEW k \in 0 .. l
  PROVE  k \in Layers(vectors) /\ l \in Nat
<1>1. PICK n \in Nodes : l \in 0 .. Level(n)
  BY DEF Layers, Nodes
<1>2. Level(n) \in Nat
  BY <1>1, NodesAreNumbers
<1>3. k \in 0 .. Level(n) /\ l \in Nat
  BY <1>1, <1>2
<1> QED
  BY <1>1, <1>3 DEF Layers, Nodes

\* The level of a node is a layer.
LEMMA LevelIsLayer ==
  ASSUME vectors \in Inputs, NEW n \in Nodes
  PROVE  Level(n) \in Layers(vectors)
<1>1. Level(n) \in 0 .. Level(n)
  BY NodesAreNumbers
<1> QED
  BY <1>1 DEF Layers, Nodes

\* All nodes are in once building is over.
LEMMA AllInserted ==
  ASSUME Types, ~Building
  PROVE  Inserted = Nodes /\ i = Cardinality(Nodes)
<1>1. /\ Cardinality(Nodes) \in Nat
      /\ Nodes = 0 .. Cardinality(Nodes) - 1
  BY NodesAreNumbers DEF Types
<1> DEFINE c == Cardinality(Nodes)
<1>2. i \in Nat /\ i <= c /\ i \notin Nodes
  BY DEF Types, Building
<1> HIDE DEF c
<1>3. i = c
  BY <1>1, <1>2 DEF c
<1>4. \A n \in Nodes : n < i
  BY <1>1, <1>3 DEF c
<1> QED
  BY <1>3, <1>4 DEF Inserted, c

\* The top layer is that of the entry point.
LEMMA TopIsEntry ==
  ASSUME IInv, ~Building
  PROVE  TopLayer \in Layers(vectors) /\ TopLayer <= ep_level
<1>1. DOMAIN graph = Layers(vectors) /\ vectors \in Inputs
  BY DEF IInv, Types
<1>2. entry_point \in Nodes /\ ep_level = Level(entry_point)
  BY DEF IInv, Top, Inserted
<1>3. ep_level \in Layers(vectors)
  BY <1>1, <1>2, LevelIsLayer
<1>4. \A l \in Layers(vectors) : l \in Nat /\ l <= ep_level
  <2> TAKE l \in Layers(vectors)
  <2>1. PICK n \in Nodes : l \in 0 .. Level(n)
    BY DEF Layers, Nodes
  <2>2. n \in Inserted
    BY AllInserted DEF IInv
  <2>3. Level(n) <= ep_level
    BY <2>2 DEF IInv, Top
  <2>4. Level(n) \in Nat /\ ep_level \in Nat
    BY <1>1, <1>2, NodesAreNumbers
  <2> QED
    BY <2>1, <2>3, <2>4
<1>5. \E top \in DOMAIN graph : \A l \in DOMAIN graph : l <= top
  BY <1>1, <1>3, <1>4
<1>6. TopLayer \in DOMAIN graph
  BY <1>5 DEF TopLayer
<1> QED
  BY <1>1, <1>4, <1>6
-------------------------------------------------------------------------------
LEMMA BottomIsNumber ==
  ASSUME vectors \in Inputs
  PROVE  Bottom \in Nat
<1>1. CASE Building
  BY <1>1, NodesAreNumbers DEF Bottom, Building
<1>2. CASE ~Building
  BY <1>2 DEF Bottom
<1> QED
  BY <1>1, <1>2

\* A layer is entered from a node on it; nothing on it or below has been linked.
LEMMA EnterKeeps ==
  ASSUME IInv, NEW l \in Layers(vectors), NEW e, On(e, l),
         \A k \in DOMAIN graph : k <= l => Fresh(k),
         Enter(l, e), UNCHANGED <<index, request, answer>>
  PROVE  IInv'
<1>1. /\ vectors' = vectors /\ graph' = graph /\ i' = i
      /\ entry_point' = entry_point /\ ep_level' = ep_level
  BY DEF index
<1>2. /\ layer' = l
      /\ ep' = e
      /\ pc' \in {"greedy", "expand"}
      /\ pc' = "greedy" => l > Bottom
      /\ pc' = "expand" => ~(l > Bottom) /\ candidates' = {e} /\ results' = {e} /\ todo' = {}
  BY DEF Enter
<1>3. vectors \in Inputs
  BY DEF IInv, Types
<1>4. l \in Nat
  <2>1. l \in UNION {0 .. Level(n) : n \in Nodes}
    BY DEF Layers, Nodes
  <2> QED
    BY <2>1
<1>5. Types'
  BY <1>1, <1>2, <1>4 DEF IInv, Types, Nodes, Building
<1>6. Top'
  BY <1>1 DEF IInv, Top, Inserted, Nodes
<1>7. Walk'
  <2>1. Bottom' = Bottom /\ Bottom \in Nat
    BY <1>1, <1>3, BottomIsNumber DEF Bottom, Building, Nodes
  <2>2. \A n, k : On(n, k)' <=> On(n, k)
    BY <1>1 DEF On, Inserted, Nodes
  <2>3. On(e, l)'
    BY <2>2
  <2> QED
    BY <1>1, <1>2, <1>4, <2>1, <2>3 DEF Walk, On, Inserted, Nodes
<1>8. Links'
  <2>1. \A k \in DOMAIN graph : Fresh(k)' => Fresh(k)
    <3> SUFFICES ASSUME NEW k \in DOMAIN graph, Fresh(k)' PROVE Fresh(k)
      OBVIOUS
    <3>1. DOMAIN graph = Layers(vectors)
      BY DEF IInv, Types
    <3>2. k \in Nat
      <4>1. k \in UNION {0 .. Level(n) : n \in Nodes}
        BY <3>1 DEF Layers, Nodes
      <4> QED
        BY <4>1
    <3>3. k < l \/ k = l
      BY <1>2 DEF Fresh
    <3> QED
      BY <1>4, <3>2, <3>3
  <2> QED
    BY <1>1, <2>1 DEF IInv, Links, Nodes, MaxConnections
<1> QED
  BY <1>5, <1>6, <1>7, <1>8 DEF IInv

LEMMA InitIInv == Init => IInv
<1> SUFFICES ASSUME Init PROVE IInv
  OBVIOUS
<1>1. vectors \in Inputs
  BY DEF Init
<1>2. /\ Cardinality(Nodes) \in Nat
      /\ Nodes = 0 .. Cardinality(Nodes) - 1
      /\ 0 \in Nodes
      /\ \A n \in Nodes : Level(n) \in Nat
  BY <1>1, NodesAreNumbers
<1> DEFINE c == Cardinality(Nodes)
<1> HIDE DEF c
<1>3. c >= 1
  BY <1>2 DEF c
<1>4. Types
  BY <1>1, <1>2, <1>3 DEF Init, Types, c
<1>5. Top
  <2>1. Inserted = {0}
    BY <1>2 DEF Init, Inserted, c
  <2> QED
    BY <1>2, <2>1 DEF Init, Top
<1>6. Walk
  BY DEF Init, Walk
<1>7. Links
  <2>1. Cardinality({}) = 0
    BY FS_EmptySet
  <2>2. \A l : MaxConnections(l) >= 0 /\ MaxConnections(l) \in Nat
    BY ParameterAssumption DEF MaxConnections
  <2>3. \A l \in DOMAIN graph : \A n \in Nodes : graph[l][n] = {}
    BY DEF Init
  <2> QED
    BY <2>1, <2>2, <2>3 DEF Links
<1> QED
  BY <1>4, <1>5, <1>6, <1>7 DEF IInv
-------------------------------------------------------------------------------
LEMMA InsertKeeps ==
  ASSUME IInv, Insert
  PROVE  IInv'
<1>1. vectors \in Inputs /\ entry_point \in Inserted /\ ep_level = Level(entry_point)
  BY DEF IInv, Types, Top
<1>2. ep_level \in Layers(vectors)
  BY <1>1, LevelIsLayer DEF Inserted
<1>3. ep_level \in Nat
  BY <1>1, NodesAreNumbers DEF Inserted
<1>4. On(entry_point, ep_level)
  BY <1>1, <1>3 DEF On
<1>5. \A k \in DOMAIN graph : k <= ep_level => Fresh(k)
  BY DEF Insert, Fresh
<1>6. Enter(ep_level, entry_point) /\ UNCHANGED <<index, request, answer>>
  BY DEF Insert
<1> DEFINE l == ep_level
           e == entry_point
<1> HIDE DEF l, e
<1>7. IInv'
  <2>1. /\ l \in Layers(vectors)
        /\ On(e, l)
        /\ \A k \in DOMAIN graph : k <= l => Fresh(k)
        /\ Enter(l, e)
    BY <1>2, <1>4, <1>5, <1>6 DEF l, e
  <2> QED
    BY <2>1, <1>6, EnterKeeps
<1> QED
  BY <1>7

LEMMA StartKeeps ==
  ASSUME IInv, Start
  PROVE  IInv'
<1>1. /\ vectors \in Inputs
      /\ entry_point \in Inserted
      /\ ep_level = Level(entry_point)
      /\ ~Building
  BY DEF IInv, Types, Top, Start
<1>2. TopLayer \in Layers(vectors) /\ TopLayer <= ep_level
  BY <1>1, TopIsEntry
<1> DEFINE l == TopLayer
           e == entry_point
<1> HIDE DEF l, e
<1>3. On(e, l)
  BY <1>1, <1>2 DEF On, l, e
<1>4. \A k \in DOMAIN graph : k <= l => Fresh(k)
  BY DEF Start, Fresh
<1>5. Enter(l, e) /\ UNCHANGED <<index, request, answer>>
  BY DEF Start, l, e
<1> QED
  BY <1>2, <1>3, <1>4, <1>5, EnterKeeps DEF l

\* The neighbours a walk sees are inserted nodes of its layer.
LEMMA NeighboursAreOn ==
  ASSUME IInv, layer \in Layers(vectors), Fresh(layer), NEW n \in Nodes
  PROVE  \A o \in graph[layer][n] : On(o, layer)
<1>1. graph[layer][n] \subseteq Nodes /\ layer \in DOMAIN graph
  BY DEF IInv, Types
<1>2. \A o \in graph[layer][n] : o < i /\ Level(o) >= layer
  BY <1>1 DEF IInv, Links
<1> QED
  BY <1>1, <1>2 DEF On, Inserted

LEMMA GreedyKeeps ==
  ASSUME IInv, Greedy
  PROVE  IInv'
<1> DEFINE better == {n \in graph[layer][ep] : Closer(n)}
<1>1. /\ pc = "greedy"
      /\ vectors \in Inputs
      /\ layer \in Layers(vectors)
      /\ On(ep, layer)
      /\ layer > Bottom
  BY DEF IInv, Types, Walk, Greedy
<1>2. CASE better = {}
  <2> DEFINE l == layer - 1
             e == ep
  <2>1. layer \in Nat /\ Bottom \in Nat
    BY <1>1, BottomIsNumber DEF IInv, Types
  <2>2. l \in 0 .. layer
    BY <1>1, <2>1
  <2>3. l \in Layers(vectors)
    BY <1>1, <2>2, LayersGoDown
  <2>4. On(e, l)
    BY <1>1, <2>1, NodesAreNumbers DEF On, Inserted
  <2>5. \A k \in DOMAIN graph : k <= l => Fresh(k)
    <3> SUFFICES ASSUME NEW k \in DOMAIN graph, k <= l PROVE Fresh(k)
      OBVIOUS
    <3>1. k \in Layers(vectors) /\ vectors \in Inputs
      BY DEF IInv, Types
    <3>2. k \in UNION {0 .. Level(n) : n \in Nodes}
      BY <3>1 DEF Layers, Nodes
    <3>3. k \in Nat
      BY <3>2
    <3> QED
      BY <2>1, <3>3 DEF Fresh
  <2>6. Enter(l, e) /\ UNCHANGED <<index, request, answer>>
    BY <1>2 DEF Greedy
  <2> HIDE DEF l, e
  <2> QED
    BY <2>3, <2>4, <2>5, <2>6, EnterKeeps
<1>3. CASE better # {}
  <2>1. /\ ep' \in Nearest(better)
        /\ UNCHANGED <<pc, layer, search, index, request, answer>>
    BY <1>3 DEF Greedy
  <2>2. ep' \in graph[layer][ep]
    BY <2>1 DEF Nearest
  <2>3. ep \in Nodes /\ Fresh(layer)
    BY <1>1 DEF On, Inserted, Fresh
  <2>4. On(ep', layer)
    BY <1>1, <2>2, <2>3, NeighboursAreOn
  <2>5. Types' /\ Top' /\ Links'
    BY <2>1 DEF IInv, Types, Top, Links, Fresh, Nodes, Inserted, Building, MaxConnections, index
  <2>6. Walk'
    BY <1>1, <2>1, <2>4 DEF Walk, On, Inserted, Nodes, Bottom, Building, index, search
  <2> QED
    BY <2>5, <2>6 DEF IInv
<1> QED
  BY <1>2, <1>3

\* Steps that leave the index alone and stay on their layer.
LEMMA SameLayer ==
  ASSUME IInv, UNCHANGED <<index, layer, ep, request>>,
         pc \in {"expand", "visit", "select"}, pc' \in {"expand", "visit", "select"},
         \A n \in (candidates \cup results \cup todo)' : On(n, layer)
  PROVE  IInv'
<1>1. Types' /\ Top' /\ Links'
  BY DEF IInv, Types, Top, Links, Fresh, Nodes, Inserted, Building, MaxConnections, index
<1>2. Walk'
  BY DEF IInv, Walk, On, Inserted, Nodes, Bottom, Building, index
<1> QED
  BY <1>1, <1>2 DEF IInv

LEMMA ExpandKeeps ==
  ASSUME IInv, Expand
  PROVE  IInv'
<1>1. /\ pc = "expand"
      /\ layer \in Layers(vectors)
      /\ \A n \in candidates \cup results \cup todo : On(n, layer)
  BY DEF IInv, Walk, Expand
<1>2. /\ UNCHANGED <<index, layer, ep, request, results, visited, answer>>
      /\ pc' \in {"visit", "select"}
      /\ candidates' \subseteq candidates
      /\ todo' = todo \/ \E c \in candidates : todo' = graph[layer][c]
  BY <1>1 DEF Expand, Nearest
<1>3. \A c \in candidates : \A n \in graph[layer][c] : On(n, layer)
  BY <1>1, NeighboursAreOn DEF Fresh, On, Inserted
<1>4. \A n \in (candidates \cup results \cup todo)' : On(n, layer)
  BY <1>1, <1>2, <1>3
<1> QED
  BY <1>1, <1>2, <1>4, SameLayer

LEMMA VisitKeeps ==
  ASSUME IInv, Visit
  PROVE  IInv'
<1>1. /\ pc = "visit"
      /\ \A n \in candidates \cup results \cup todo : On(n, layer)
  BY DEF IInv, Walk, Visit
<1>2. UNCHANGED <<index, layer, ep, request>> /\ pc' \in {"visit", "expand"}
  BY <1>1 DEF Visit
<1>3. /\ candidates' \subseteq candidates \cup todo
      /\ results' \subseteq results \cup todo
      /\ todo' \subseteq todo
  <2>1. CASE todo = {}
    BY <2>1 DEF Visit, search
  <2>2. CASE todo # {}
    <3>1. PICK n \in todo :
            /\ todo' = todo \ {n}
            /\ \/ UNCHANGED <<candidates, results>>
               \/ /\ candidates' = candidates \cup {n}
                  /\ results' \subseteq results \cup {n}
      <4> HIDE DEF Promising, Furthest, Ef
      <4> QED
        BY <2>2 DEF Visit
    <3> QED
      BY <3>1
  <2> QED
    BY <2>1, <2>2
<1>4. \A n \in (candidates \cup results \cup todo)' : On(n, layer)
  BY <1>1, <1>3
<1> QED
  BY <1>1, <1>2, <1>4, SameLayer

LEMMA ConnectKeeps ==
  ASSUME IInv, Connect
  PROVE  IInv'
<1>1. /\ pc = "select"
      /\ Building
      /\ vectors \in Inputs
      /\ layer \in Layers(vectors)
      /\ layer <= Bottom
      /\ \A n \in results : On(n, layer)
  BY DEF IInv, Types, Walk, Connect
<1>2. PICK selected \in Closest(Query, results, MaxConnections(layer)) :
        /\ graph' = [graph EXCEPT ![layer][i] = selected]
        /\ todo' = selected
        /\ ep' \in Nearest(selected)
  BY DEF Connect
<1>3. /\ pc' = "link"
      /\ UNCHANGED <<vectors, entry_point, ep_level, i, layer, request>>
  BY DEF Connect
<1>4. layer \in Nat /\ Bottom = Level(i) /\ i \in Nodes /\ i \in Nat /\ Level(i) \in Nat
  BY <1>1, NodesAreNumbers DEF IInv, Types, Bottom, Building
<1>5. selected \subseteq results /\ Cardinality(selected) <= MaxConnections(layer)
  <2>1. results \subseteq Nodes
    BY <1>1 DEF On, Inserted
  <2>2. IsFiniteSet(results)
    BY <1>1, <2>1, NodesAreNumbers, FS_Subset
  <2>3. MaxConnections(layer) \in Nat
    BY ParameterAssumption DEF MaxConnections
  <2> QED
    BY <2>2, <2>3, ClosestBounded
<1>6. ep' \in results
  BY <1>2, <1>5 DEF Nearest
<1>7. selected \subseteq Nodes
  BY <1>1, <1>5 DEF On, Inserted
<1>8. Types'
  BY <1>1, <1>2, <1>3, <1>4, <1>7 DEF IInv, Types, Nodes, Building
<1>9. Top'
  BY <1>3 DEF IInv, Top, Inserted, Nodes
<1>10. Walk'
  BY <1>1, <1>2, <1>3, <1>5, <1>6 DEF Walk, On, Inserted, Nodes, Bottom, Building
<1>11. Links'
  <2> SUFFICES ASSUME NEW l \in DOMAIN graph, NEW n \in Nodes
               PROVE  /\ graph'[l][n] # {} => Level(n) >= l /\ n <= i
                      /\ \A o \in graph'[l][n] : o # n /\ o <= i /\ Level(o) >= l
                      /\ Fresh(l)' => \A o \in graph'[l][n] : o < i
                      /\ Cardinality(graph'[l][n]) <= MaxConnections(l)
    BY <1>2, <1>3 DEF IInv, Types, Links, Nodes, MaxConnections
  <2>1. Fresh(l)' => Fresh(l)
    BY <1>1, <1>3 DEF Fresh
  <2>2. CASE l = layer /\ n = i
    <3>1. graph'[l][n] = selected
      BY <1>2, <2>2 DEF IInv, Types
    <3>2. \A o \in selected : o < i /\ o \in Nat /\ Level(o) >= layer
      BY <1>1, <1>5, NodesAreNumbers DEF On, Inserted
    <3> QED
      BY <1>1, <1>4, <1>5, <2>2, <3>1, <3>2
  <2>3. CASE ~(l = layer /\ n = i)
    <3>1. graph'[l][n] = graph[l][n]
      BY <1>2, <2>3 DEF IInv, Types
    <3> QED
      BY <2>1, <3>1 DEF IInv, Links
  <2> QED
    BY <2>2, <2>3
<1> QED
  BY <1>8, <1>9, <1>10, <1>11 DEF IInv

LEMMA LinkKeeps ==
  ASSUME IInv, Link
  PROVE  IInv'
<1>1. /\ pc = "link"
      /\ Building
      /\ vectors \in Inputs
      /\ layer \in Layers(vectors)
      /\ layer <= Bottom
      /\ \A n \in todo : On(n, layer)
  BY DEF IInv, Types, Walk, Link
<1>0. PICK n \in todo : \E list \in LinkedBack(n) :
        /\ graph' = [graph EXCEPT ![layer][n] = list]
        /\ todo' = todo \ {n}
  BY DEF Link
<1>2. PICK list \in LinkedBack(n) :
        /\ graph' = [graph EXCEPT ![layer][n] = list]
        /\ todo' = todo \ {n}
  BY <1>0
<1>3. UNCHANGED <<vectors, entry_point, ep_level, i, pc, layer, ep, request>>
  BY DEF Link
<1>4. /\ layer \in Nat /\ Bottom = Level(i) /\ i \in Nodes /\ i \in Nat /\ Level(i) \in Nat
      /\ n \in Nodes /\ n \in Nat /\ n < i /\ Level(n) >= layer
  BY <1>1, NodesAreNumbers DEF IInv, Types, Bottom, Building, On, Inserted
<1>5. graph[layer][n] \subseteq Nodes
  BY <1>1, <1>4 DEF IInv, Types
<1> DEFINE old == graph[layer][n]
<1>6. \A o \in old : o # n /\ o <= i /\ Level(o) >= layer
  BY <1>1, <1>4 DEF IInv, Types, Links
<1>7. list \subseteq old \cup {i} /\ Cardinality(list) <= MaxConnections(layer)
  <2>1. old \cup {i} \subseteq Nodes
    BY <1>4, <1>5
  <2>2. IsFiniteSet(old \cup {i})
    BY <1>1, <2>1, NodesAreNumbers, FS_Subset
  <2>3. MaxConnections(layer) \in Nat
    BY ParameterAssumption DEF MaxConnections
  <2>4. list \in Closest(vectors[n], old \cup {i}, MaxConnections(layer))
    BY DEF LinkedBack
  <2> DEFINE S == old \cup {i}
             p == vectors[n]
             k == MaxConnections(layer)
  <2> HIDE DEF S, p, k
  <2>5. list \subseteq S /\ Cardinality(list) <= k
    BY <2>2, <2>3, <2>4, ClosestBounded DEF S, p, k
  <2> QED
    BY <2>5 DEF S, k
<1>8. list \subseteq Nodes
  BY <1>4, <1>5, <1>7
<1>9. Types'
  BY <1>2, <1>3, <1>4, <1>8 DEF IInv, Types, Nodes, Building
<1>10. Top'
  BY <1>3 DEF IInv, Top, Inserted, Nodes
<1>11. Walk'
  BY <1>1, <1>2, <1>3 DEF IInv, Walk, On, Inserted, Nodes, Bottom, Building
<1>12. Links'
  <2> SUFFICES ASSUME NEW l \in DOMAIN graph, NEW m \in Nodes
               PROVE  /\ graph'[l][m] # {} => Level(m) >= l /\ m <= i
                      /\ \A o \in graph'[l][m] : o # m /\ o <= i /\ Level(o) >= l
                      /\ Fresh(l)' => \A o \in graph'[l][m] : o < i
                      /\ Cardinality(graph'[l][m]) <= MaxConnections(l)
    BY <1>2, <1>3 DEF IInv, Types, Links, Nodes, MaxConnections
  <2>1. Fresh(l)' <=> Fresh(l)
    BY <1>3 DEF Fresh
  <2>2. CASE l = layer /\ m = n
    <3>1. graph'[l][m] = list
      BY <1>2, <2>2 DEF IInv, Types
    <3>2. ~Fresh(l)
      BY <1>1, <1>4, <2>2 DEF Fresh
    <3>3. \A o \in list : o # n /\ o <= i /\ Level(o) >= layer
      BY <1>1, <1>4, <1>6, <1>7
    <3> QED
      BY <1>4, <1>7, <2>1, <2>2, <3>1, <3>2, <3>3
  <2>3. CASE ~(l = layer /\ m = n)
    <3>1. graph'[l][m] = graph[l][m]
      BY <1>2, <2>3 DEF IInv, Types
    <3> QED
      BY <2>1, <3>1 DEF IInv, Links
  <2> QED
    BY <2>2, <2>3
<1> QED
  BY <1>9, <1>10, <1>11, <1>12 DEF IInv

LEMMA LinkedKeeps ==
  ASSUME IInv, Linked
  PROVE  IInv'
<1>1. /\ pc = "link"
      /\ Building
      /\ vectors \in Inputs
      /\ layer \in Layers(vectors)
      /\ layer \in Nat
      /\ On(ep, layer)
  BY DEF IInv, Types, Walk, Linked
<1>2. CASE layer > 0
  <2> DEFINE l == layer - 1
             e == ep
  <2>1. l \in 0 .. layer
    BY <1>1, <1>2
  <2>2. l \in Layers(vectors)
    BY <1>1, <2>1, LayersGoDown
  <2>3. On(e, l)
    BY <1>1, NodesAreNumbers DEF On, Inserted
  <2>4. \A k \in DOMAIN graph : k <= l => Fresh(k)
    <3> SUFFICES ASSUME NEW k \in DOMAIN graph, k <= l PROVE Fresh(k)
      OBVIOUS
    <3>1. k \in UNION {0 .. Level(n) : n \in Nodes}
      BY DEF IInv, Types, Layers, Nodes
    <3>2. k \in Nat
      BY <3>1
    <3> QED
      BY <1>1, <3>2 DEF Fresh
  <2>5. Enter(l, e) /\ UNCHANGED <<index, request, answer>>
    BY <1>2 DEF Linked
  <2> HIDE DEF l, e
  <2> QED
    BY <2>2, <2>3, <2>4, <2>5, EnterKeeps
<1>3. CASE ~(layer > 0)
  <2>1. /\ MoveEntry
        /\ i' = i + 1
        /\ pc' = "ready"
        /\ layer' = 0
        /\ UNCHANGED <<vectors, graph, request>>
    BY <1>3 DEF Linked, Return
  <2>2. /\ Cardinality(Nodes) \in Nat
        /\ Nodes = 0 .. Cardinality(Nodes) - 1
        /\ \A n \in Nodes : Level(n) \in Nat
        /\ i \in Nodes /\ i \in Nat
    BY <1>1, NodesAreNumbers DEF Building, IInv, Types
  <2>3. Types'
    <3>1. Cardinality(Nodes)' = Cardinality(Nodes)
      BY <2>1 DEF Nodes
    <3> DEFINE c == Cardinality(Nodes)
    <3> HIDE DEF c
    <3>2. i + 1 <= c
      BY <2>2 DEF c
    <3> QED
      BY <2>1, <2>2, <3>1, <3>2 DEF IInv, Types, Nodes, c
  <2>4. Inserted' = Inserted \cup {i}
    BY <2>1, <2>2 DEF Inserted, Nodes
  <2>5. Top'
    <3>1. CASE Level(i) > ep_level
      BY <2>1, <2>2, <2>4, <3>1 DEF IInv, Top, MoveEntry, Inserted
    <3>2. CASE ~(Level(i) > ep_level)
      BY <2>1, <2>2, <2>4, <3>2 DEF IInv, Top, MoveEntry, Inserted
    <3> QED
      BY <3>1, <3>2
  <2>6. Walk'
    BY <2>1 DEF Walk
  <2>7. Links'
    <3> SUFFICES ASSUME NEW l \in DOMAIN graph, NEW n \in Nodes
                 PROVE  /\ graph[l][n] # {} => Level(n) >= l /\ n <= i + 1
                        /\ \A o \in graph[l][n] : o # n /\ o <= i + 1 /\ Level(o) >= l /\ o < i + 1
                        /\ Cardinality(graph[l][n]) <= MaxConnections(l)
      BY <2>1 DEF Links, Nodes, MaxConnections
    <3>1. graph[l][n] \subseteq Nodes
      BY DEF IInv, Types
    <3>2. /\ graph[l][n] # {} => Level(n) >= l /\ n <= i
          /\ \A o \in graph[l][n] : o # n /\ o <= i /\ Level(o) >= l
          /\ Cardinality(graph[l][n]) <= MaxConnections(l)
      BY DEF IInv, Links
    <3>3. \A o \in Nodes : o <= i => o <= i + 1 /\ o < i + 1
      BY <2>2
    <3> QED
      BY <3>1, <3>2, <3>3
  <2> QED
    BY <2>3, <2>5, <2>6, <2>7 DEF IInv
<1> QED
  BY <1>2, <1>3
-------------------------------------------------------------------------------
LEMMA NextIInv == IInv /\ [Next]_vars => IInv'
<1> SUFFICES ASSUME IInv, [Next]_vars PROVE IInv'
  OBVIOUS
<1>1. CASE Insert
  BY <1>1, InsertKeeps
<1>2. CASE Start
  BY <1>2, StartKeeps
<1>3. CASE Greedy
  BY <1>3, GreedyKeeps
<1>4. CASE Expand
  BY <1>4, ExpandKeeps
<1>5. CASE Visit
  BY <1>5, VisitKeeps
<1>6. CASE Connect
  BY <1>6, ConnectKeeps
<1>7. CASE Link
  BY <1>7, LinkKeeps
<1>8. CASE Linked
  BY <1>8, LinkedKeeps
\* Nothing is linked after building: every layer is untouched, before and after.
<1>9. ASSUME UNCHANGED index, ~Building, pc' \in {"start", "answered", "ready"},
             layer' \in Nat, \A l \in DOMAIN graph : \A n \in Nodes : \A o \in graph[l][n] : o < i
      PROVE  IInv'
  <2>1. Types' /\ Top' /\ Walk'
    BY <1>9 DEF IInv, Types, Top, Walk, Nodes, Inserted, Building, index
  <2>2. Links'
    BY <1>9 DEF IInv, Links, Nodes, MaxConnections, index
  <2> QED
    BY <2>1, <2>2 DEF IInv
<1>10. ASSUME ~Building
       PROVE  \A l \in DOMAIN graph : \A n \in Nodes : \A o \in graph[l][n] : o < i
  <2>1. \A n \in Nodes : n < i
    BY <1>10, AllInserted DEF IInv, Inserted
  <2> QED
    BY <2>1 DEF IInv, Types
<1>11. CASE \E r \in Requests : Search(r)
  BY <1>9, <1>10, <1>11 DEF Search, IInv, Types
<1>12. CASE Answer
  BY <1>9, <1>10, <1>12 DEF Answer, IInv, Types
<1>13. CASE Done
  BY <1>9, <1>10, <1>13 DEF Done, Return, IInv, Types
<1>14. CASE UNCHANGED vars
  BY <1>14 DEF vars, IInv, Types, Top, Walk, Links, Fresh, On, Nodes, Inserted, Building, Bottom, MaxConnections
<1> QED
  BY <1>1, <1>2, <1>3, <1>4, <1>5, <1>6, <1>7, <1>8, <1>11, <1>12, <1>13, <1>14 DEF Next, Step

THEOREM InvariantHolds == Spec => []IInv
<1> QED
  BY InitIInv, NextIInv, PTL DEF Spec

\* A layer links only nodes of its level (build_with_metric), for all vectors,
\* levels and widths, whichever way ties between distances fall.
THEOREM LayersHold == Spec => []Layered
<1>1. IInv => Layered
  <2> SUFFICES ASSUME IInv, NEW l \in DOMAIN graph, NEW n \in Nodes, graph[l][n] # {},
                      NEW o \in graph[l][n] \cup {n}
               PROVE  Level(o) >= l /\ o <= i
    BY DEF Layered
  <2> QED
    BY DEF IInv, Links
<1> QED
  BY <1>1, InvariantHolds, PTL

\* No neighbour list outgrows the limit of its layer (prune_connections).
THEOREM DegreesHold == Spec => []Degrees
<1>1. IInv => Degrees
  BY DEF IInv, Links, Degrees
<1> QED
  BY <1>1, InvariantHolds, PTL

\* Searches and insertions start on the highest layer in use (build_with_metric,
\* search).
THEOREM EntryHolds == Spec => []EntryOnTop
<1>1. IInv => EntryOnTop
  BY DEF IInv, Top, EntryOnTop
<1> QED
  BY <1>1, InvariantHolds, PTL
-------------------------------------------------------------------------------
\* A search as wide as the index: nothing it sees is dropped.
Wide == ~Building /\ request.ef >= Cardinality(Nodes)

Asked == request \in [query : Points, k : Nat, ef : Nat]

Seen ==
  /\ pc \in {"expand", "visit", "select", "answered"} =>
       /\ layer = 0
       /\ ep \in Nodes
       /\ results = visited
       /\ ep \in visited
       /\ visited \subseteq Reachable
       /\ candidates \subseteq visited
       /\ todo \subseteq Reachable
       /\ \A n \in visited \ candidates : graph[0][n] \subseteq visited \cup todo
  /\ pc \in {"expand", "select", "answered"} => todo = {}
  /\ pc \in {"select", "answered"} => candidates = {}
  /\ pc = "answered" => answer \in Closest(request.query, results, request.k)

WideInv == Asked /\ (Wide => Seen)

\* u[d] is what is within d links.
IsWithin(u) ==
  u = [d \in 0 .. Cardinality(Nodes) |->
         IF d = 0 THEN {ep} ELSE u[d - 1] \cup UNION {graph[0][n] : n \in u[d - 1]}]

LEMMA WithinExists ==
  ASSUME Types, ep \in Nodes, 0 \in Layers(vectors)
  PROVE  \E u \in [0 .. Cardinality(Nodes) -> SUBSET Nodes] : IsWithin(u)
<1> DEFINE c == Cardinality(Nodes)
           V == SUBSET Nodes
           step == [d \in 1 .. c |-> [s \in V |-> s \cup UNION {graph[0][n] : n \in s}]]
<1>1. c \in Nat
  BY NodesAreNumbers DEF Types
<1>2. \A n \in Nodes : graph[0][n] \in V
  BY DEF Types
<1>3. \A s \in V : s \cup UNION {graph[0][n] : n \in s} \in V
  BY <1>2
<1>4. step \in [1 .. c -> [V -> V]] /\ {ep} \in V
  BY <1>3
<1> HIDE DEF V, c
<1>5. PICK u \in [0 .. c -> V] : IsFold(u, c, {ep}, step)
  <2> HIDE DEF step
  <2> QED
    BY <1>1, <1>4, FoldExists
<1>6. ASSUME NEW d \in 0 .. c
      PROVE  u[d] = IF d = 0 THEN {ep} ELSE u[d - 1] \cup UNION {graph[0][n] : n \in u[d - 1]}
  <2>1. CASE d = 0
    BY <1>5, <2>1 DEF IsFold
  <2>2. CASE d # 0
    <3>1. d \in 1 .. c /\ d - 1 \in 0 .. c
      BY <1>1, <2>2
    <3>2. u[d] = step[d][u[d - 1]]
      BY <1>5, <3>1 DEF IsFold
    <3>3. u[d - 1] \in V
      BY <1>5, <3>1
    <3> QED
      BY <2>2, <3>1, <3>2, <3>3
  <2> QED
    BY <2>1, <2>2
<1>7. IsWithin(u)
  <2> HIDE DEF step
  <2> QED
    BY <1>5, <1>6 DEF IsWithin, c
<1> QED
  BY <1>5, <1>7 DEF c, V

\* What can be reached: the start, with every neighbour of what is in, and no more.
LEMMA ReachableIs ==
  ASSUME Types, ep \in Nodes, 0 \in Layers(vectors)
  PROVE  /\ ep \in Reachable
         /\ Reachable \subseteq Nodes
         /\ \A n \in Reachable : graph[0][n] \subseteq Reachable
         /\ \A S \in SUBSET Nodes : ep \in S /\ (\A n \in S : graph[0][n] \subseteq S) => Reachable \subseteq S
<1> DEFINE c == Cardinality(Nodes)
           w == CHOOSE u : IsWithin(u)
           More(s) == s \cup UNION {graph[0][n] : n \in s}
<1>1. c \in Nat /\ IsFiniteSet(Nodes)
  BY NodesAreNumbers DEF Types
<1>2. Reachable = w[c]
  BY DEF Reachable, IsWithin
<1>3. IsWithin(w)
  <2>1. \E u : IsWithin(u)
    BY WithinExists
  <2> QED
    BY <2>1
<1> HIDE DEF w, c
<1>4. w[0] = {ep} /\ \A d \in 1 .. c : w[d] = More(w[d - 1])
  BY <1>1, <1>3 DEF IsWithin, c
<1>5. \A n \in Nodes : graph[0][n] \in SUBSET Nodes
  BY DEF Types
\* Until it is closed, every step adds a node.
<1> DEFINE Closed(s) == \A n \in s : graph[0][n] \subseteq s
             R == {d \in 0 .. c : /\ ep \in w[d]
                                  /\ w[d] \subseteq Nodes
                                  /\ Closed(w[d]) \/ Cardinality(w[d]) >= d + 1
                                  /\ \A S \in SUBSET Nodes : ep \in S /\ Closed(S) => w[d] \subseteq S}
<1>7. 0 \in R
  <2>1. Cardinality(w[0]) = 1
    BY <1>4, FS_Singleton
  <2>2. ep \in w[0] /\ w[0] \subseteq Nodes /\ 0 \in 0 .. c
    BY <1>1, <1>4
  <2>3. \A S \in SUBSET Nodes : ep \in S /\ Closed(S) => w[0] \subseteq S
    BY <1>4
  <2>4. Closed(w[0]) \/ Cardinality(w[0]) >= 0 + 1
    BY <2>1
  <2> HIDE DEF Closed
  <2> QED
    BY <2>2, <2>3, <2>4
<1>8. ASSUME NEW d \in 0 .. c - 1, d \in R PROVE d + 1 \in R
  <2>1. w[d + 1] = More(w[d]) /\ d + 1 \in 0 .. c
    BY <1>1, <1>4
  <2>2. ep \in w[d] /\ w[d] \subseteq Nodes /\ (Closed(w[d]) \/ Cardinality(w[d]) >= d + 1)
    BY <1>8
  <2>3. ep \in w[d + 1] /\ w[d + 1] \subseteq Nodes /\ w[d] \subseteq w[d + 1]
    BY <1>5, <2>1, <2>2
  <2>4. Closed(w[d + 1]) \/ Cardinality(w[d + 1]) >= d + 2
    <3>1. CASE Closed(w[d])
      <4>1. w[d + 1] = w[d]
        BY <2>1, <3>1
      <4> QED
        BY <3>1, <4>1
    <3>2. CASE ~Closed(w[d])
      <4>1. PICK x \in w[d + 1] : x \notin w[d]
        BY <2>1, <3>2
      <4>2. IsFiniteSet(w[d]) /\ IsFiniteSet(w[d + 1])
        BY <1>1, <2>2, <2>3, FS_Subset
      <4>3. Cardinality(w[d] \cup {x}) = Cardinality(w[d]) + 1
        BY <4>1, <4>2, FS_AddElement
      <4>4. w[d] \cup {x} \in SUBSET w[d + 1]
        BY <2>3, <4>1
      <4>5. Cardinality(w[d] \cup {x}) <= Cardinality(w[d + 1])
        BY <4>2, <4>4, FS_Subset
      <4>6. Cardinality(w[d]) \in Nat /\ Cardinality(w[d + 1]) \in Nat
        BY <4>2, FS_CardinalityType
      <4> HIDE DEF Closed
      <4> QED
        BY <2>2, <3>2, <4>3, <4>5, <4>6
    <3> QED
      BY <3>1, <3>2
  <2>5. ASSUME NEW S \in SUBSET Nodes, ep \in S, Closed(S) PROVE w[d + 1] \subseteq S
    <3>1. w[d] \subseteq S
      BY <1>8, <2>5
    <3> QED
      BY <2>1, <2>5, <3>1
  <2> HIDE DEF Closed
  <2> QED
    BY <1>1, <2>1, <2>3, <2>4, <2>5
<1>9. c \in R
  <2> HIDE DEF R
  <2>1. 0 .. c \subseteq R
    BY <1>1, <1>7, <1>8, RangeInduction
  <2> QED
    BY <1>1, <2>1
<1>10. Closed(w[c])
  <2>1. IsFiniteSet(w[c]) /\ Cardinality(w[c]) <= c /\ Cardinality(w[c]) \in Nat
    BY <1>1, <1>9, FS_Subset, FS_CardinalityType DEF c
  <2>2. ~(Cardinality(w[c]) >= c + 1)
    BY <1>1, <2>1
  <2> HIDE DEF Closed
  <2> QED
    BY <1>9, <2>2
<1> QED
  BY <1>2, <1>9, <1>10

LEMMA InitWide == Init => WideInv
<1> SUFFICES ASSUME Init PROVE WideInv
  OBVIOUS
<1>1. vectors \in Inputs /\ request = NoRequest /\ pc = "ready"
  BY DEF Init
<1>2. 0 \in Nodes /\ vectors \in [0 .. Cardinality(DOMAIN vectors) - 1 -> Points]
  BY <1>1, NodesAreNumbers, InputAssumption
<1>3. vectors[0] \in Points
  BY <1>2 DEF Nodes
<1>4. Asked
  BY <1>1, <1>3 DEF Asked, NoRequest
<1> QED
  BY <1>1, <1>4 DEF WideInv, Seen

\* Steps outside the search of the last layer.
LEMMA Elsewhere ==
  ASSUME WideInv, request' = request, vectors' = vectors,
         pc' \in {"ready", "start", "greedy", "link"} \/ Building'
  PROVE  WideInv'
<1>1. Asked'
  BY DEF WideInv, Asked
<1>2. Wide' => Seen'
  BY DEF Wide, Seen
<1> QED
  BY <1>1, <1>2 DEF WideInv

\* The bottom layer is a layer, and no search goes below it.
LEMMA SearchLayer ==
  ASSUME IInv, ~Building, pc \in {"expand", "visit", "select"}
  PROVE  layer = 0 /\ layer \in Layers(vectors) /\ ep \in Nodes
<1>1. layer \in Nat /\ layer <= Bottom /\ layer \in Layers(vectors) /\ On(ep, layer)
  BY DEF IInv, Types, Walk
<1>2. Bottom = 0
  BY DEF Bottom
<1> QED
  BY <1>1, <1>2 DEF On, Inserted

\* A search comes to a layer.
LEMMA EnterWide ==
  ASSUME IInv, IInv', WideInv, NEW l, NEW e, Enter(l, e), UNCHANGED <<index, request, answer>>
  PROVE  WideInv'
<1>1. vectors' = vectors /\ request' = request /\ (Building' <=> Building)
  BY DEF index, Building, Nodes
<1>2. CASE Building \/ pc' = "greedy"
  BY <1>1, <1>2, Elsewhere
<1>3. CASE ~Building /\ pc' # "greedy"
  <2>1. pc' = "expand" /\ candidates' = {e} /\ results' = {e} /\ visited' = {e} /\ todo' = {} /\ ep' = e
    BY <1>3 DEF Enter
  <2>2. layer' = 0 /\ ep' \in Nodes' /\ Types' /\ 0 \in Layers(vectors)'
    <3>1. (IInv /\ ~Building /\ pc \in {"expand", "visit", "select"} =>
             layer = 0 /\ layer \in Layers(vectors) /\ ep \in Nodes)'
      BY SearchLayer, PTL
    <3> QED
      BY <1>1, <1>3, <2>1, <3>1 DEF IInv
  <2>3. ep' \in Reachable'
    <3>1. (Types /\ ep \in Nodes /\ 0 \in Layers(vectors) => ep \in Reachable)'
      BY ReachableIs, PTL
    <3> QED
      BY <2>2, <3>1
  <2>4. Seen'
    BY <2>1, <2>2, <2>3 DEF Seen
  <2>5. Asked'
    BY <1>1 DEF WideInv, Asked
  <2> QED
    BY <2>4, <2>5 DEF WideInv
<1> QED
  BY <1>2, <1>3

\* A wide search in progress.
Searching == IInv /\ WideInv /\ Wide /\ pc \in {"expand", "visit", "select"}

LEMMA WideIs ==
  ASSUME Searching
  PROVE  /\ Seen /\ layer = 0 /\ ep \in Nodes /\ Types /\ 0 \in Layers(vectors)
         /\ Cardinality(Nodes) \in Nat /\ IsFiniteSet(Nodes)
         /\ visited \subseteq Nodes
         /\ Ef \in Nat /\ Ef >= Cardinality(Nodes)
         /\ \A n \in Nodes : D(n) \in Nat
<1>1. Seen /\ Types /\ ~Building
  BY DEF Searching, WideInv, Wide, IInv
<1>2. layer = 0 /\ layer \in Layers(vectors) /\ ep \in Nodes
  BY <1>1, SearchLayer DEF Searching
<1>3. Cardinality(Nodes) \in Nat /\ IsFiniteSet(Nodes)
  BY <1>1, NodesAreNumbers DEF Types
<1>4. visited \subseteq Reachable
  BY <1>1 DEF Seen, Searching
<1>5. visited \subseteq Nodes
  BY <1>1, <1>2, <1>4, ReachableIs
<1>6. request.ef \in Nat /\ request.k \in Nat /\ request.ef >= Cardinality(Nodes) /\ request.query \in Points
  BY DEF Searching, WideInv, Asked, Wide
<1>7. Ef = Larger(request.ef, request.k)
  BY <1>1 DEF Ef
<1>8. Ef \in Nat /\ Ef >= Cardinality(Nodes)
  BY <1>3, <1>6, <1>7 DEF Larger
<1>9. ASSUME NEW n \in Nodes PROVE D(n) \in Nat
  <2>1. vectors[n] \in Points
    BY <1>1, InputAssumption DEF Types, Nodes
  <2>2. Query = request.query
    BY <1>1 DEF Query
  <2> QED
    BY <1>6, <2>1, <2>2, DistanceAssumption DEF D
<1> QED
  BY <1>1, <1>2, <1>3, <1>5, <1>8, <1>9

\* A step that goes on with a wide search.
LEMMA GoesOn ==
  ASSUME Searching, UNCHANGED <<index, layer, ep, request>>, pc' \in {"expand", "visit", "select"},
         results' = visited', ep \in visited', visited' \subseteq Reachable, candidates' \subseteq visited',
         todo' \subseteq Reachable,
         \A n \in visited' \ candidates' : graph[0][n] \subseteq visited' \cup todo',
         pc' \in {"expand", "select"} => todo' = {},
         pc' = "select" => candidates' = {}
  PROVE  WideInv'
<1>1. layer' = 0 /\ ep' \in Nodes' /\ graph' = graph /\ ep' = ep
  BY WideIs DEF index, Nodes
<1>2. Reachable' = Reachable
  BY DEF Reachable, Nodes, index
<1>3. Asked'
  BY DEF Searching, WideInv, Asked, index
<1>4. Seen'
  BY <1>1, <1>2 DEF Seen
<1> QED
  BY <1>3, <1>4 DEF WideInv

LEMMA ExpandWide ==
  ASSUME Searching, Expand
  PROVE  WideInv'
<1>1. /\ pc = "expand"
      /\ UNCHANGED <<index, layer, ep, request, results, visited>>
      /\ Seen /\ layer = 0 /\ ep \in Nodes /\ Types /\ 0 \in Layers(vectors)
      /\ visited \subseteq Nodes /\ \A n \in Nodes : D(n) \in Nat
  BY WideIs DEF Expand
<1>2. /\ results = visited /\ ep \in visited /\ visited \subseteq Reachable
      /\ candidates \subseteq visited /\ todo = {}
      /\ \A n \in visited \ candidates : graph[0][n] \subseteq visited \cup todo
  BY <1>1 DEF Seen
<1>3. CASE candidates = {}
  <2>1. pc' = "select" /\ candidates' = candidates /\ todo' = todo
    BY <1>3 DEF Expand
  <2> QED
    BY <1>1, <1>2, <1>3, <2>1, GoesOn
<1>4. CASE candidates # {}
  <2>1. PICK c \in Nearest(candidates) :
          /\ candidates' = candidates \ {c}
          /\ IF Hopeless(c) THEN pc' = "select" /\ UNCHANGED todo
             ELSE pc' = "visit" /\ todo' = graph[layer][c]
    BY <1>4 DEF Expand
  <2>2. c \in candidates
    BY DEF Nearest
  \* The candidate is a result itself.
  <2>3. ~Hopeless(c)
    <3>1. c \in results /\ D(c) \in Nat
      BY <1>1, <1>2, <2>2
    <3>2. ~(D(c) < D(c))
      BY <3>1
    <3> QED
      BY <3>1, <3>2 DEF Hopeless
  <2>4. pc' = "visit" /\ todo' = graph[0][c]
    BY <1>1, <2>1, <2>3
  <2>5. todo' \subseteq Reachable
    BY <1>1, <1>2, <2>2, <2>4, ReachableIs
  <2>6. \A n \in visited' \ candidates' : graph[0][n] \subseteq visited' \cup todo'
    BY <1>1, <1>2, <2>1, <2>4
  <2> QED
    BY <1>1, <1>2, <2>1, <2>4, <2>5, <2>6, GoesOn
<1> QED
  BY <1>3, <1>4

LEMMA VisitWide ==
  ASSUME Searching, Visit
  PROVE  WideInv'
<1>1. /\ pc = "visit"
      /\ UNCHANGED <<index, layer, ep, request>>
      /\ Seen /\ layer = 0 /\ ep \in Nodes /\ Types /\ 0 \in Layers(vectors)
      /\ Cardinality(Nodes) \in Nat /\ IsFiniteSet(Nodes)
      /\ visited \subseteq Nodes /\ Ef \in Nat /\ Ef >= Cardinality(Nodes)
  BY WideIs DEF Visit
<1>2. /\ results = visited /\ ep \in visited /\ visited \subseteq Reachable
      /\ candidates \subseteq visited /\ todo \subseteq Reachable
      /\ \A n \in visited \ candidates : graph[0][n] \subseteq visited \cup todo
  BY <1>1 DEF Seen
<1>3. CASE todo = {}
  <2>1. pc' = "expand" /\ UNCHANGED search
    BY <1>3 DEF Visit
  <2>2. UNCHANGED <<candidates, results, visited, todo>>
    BY <2>1 DEF search
  <2> QED
    BY <1>1, <1>2, <1>3, <2>1, <2>2, GoesOn
<1>4. CASE todo # {}
  <2>1. PICK n \in todo :
          /\ todo' = todo \ {n}
          /\ visited' = visited \cup {n}
          /\ pc' = pc
          /\ IF n \notin visited /\ Promising(n)
             THEN /\ candidates' = candidates \cup {n}
                  /\ IF Cardinality(results) + 1 > Ef
                     THEN \E f \in Furthest(results \cup {n}) : results' = (results \cup {n}) \ {f}
                     ELSE results' = results \cup {n}
             ELSE UNCHANGED <<candidates, results>>
    BY <1>4 DEF Visit
  \* There is room for a node not seen before.
  <2>2. ASSUME n \notin visited
        PROVE  Promising(n) /\ ~(Cardinality(results) + 1 > Ef)
    <3>1. n \in Nodes
      BY <1>1, <1>2, ReachableIs
    <3>2. IsFiniteSet(visited) /\ Cardinality(visited) \in Nat
      BY <1>1, FS_Subset, FS_CardinalityType
    <3>3. Cardinality(visited \cup {n}) = Cardinality(visited) + 1
      BY <2>2, <3>2, FS_AddElement
    <3>4. visited \cup {n} \in SUBSET Nodes
      BY <1>1, <3>1
    <3>5. Cardinality(visited \cup {n}) <= Cardinality(Nodes)
      BY <1>1, <3>4, FS_Subset
    <3>6. Cardinality(results) \in Nat /\ Cardinality(results) + 1 <= Cardinality(Nodes)
      BY <1>2, <3>2, <3>3, <3>5
    <3>7. Cardinality(results) < Ef /\ ~(Cardinality(results) + 1 > Ef)
      BY <1>1, <3>6
    <3> QED
      BY <3>7 DEF Promising
  <2>3. results' = visited' /\ candidates' \subseteq visited' /\ candidates \subseteq candidates'
        /\ (n \notin visited => n \in candidates')
    <3>1. CASE n \in visited
      <4>1. candidates' = candidates /\ results' = results
        BY <2>1, <3>1
      <4> QED
        BY <1>2, <2>1, <3>1, <4>1
    <3>2. CASE n \notin visited
      <4>1. candidates' = candidates \cup {n} /\ results' = results \cup {n}
        BY <2>1, <2>2, <3>2
      <4> QED
        BY <1>2, <2>1, <4>1
    <3> QED
      BY <3>1, <3>2
  <2>4. \A m \in visited' \ candidates' : graph[0][m] \subseteq visited' \cup todo'
    BY <1>2, <2>1, <2>3
  <2>5. visited' \subseteq Reachable /\ todo' \subseteq Reachable /\ ep \in visited' /\ pc' = "visit"
    BY <1>1, <1>2, <2>1
  <2> QED
    BY <1>1, <2>3, <2>4, <2>5, GoesOn
<1> QED
  BY <1>3, <1>4

\* Searches that are not wide are of no concern.
LEMMA NotWide ==
  ASSUME WideInv, UNCHANGED <<index, request>>, ~Wide
  PROVE  WideInv'
<1>1. ~Wide'
  BY DEF Wide, Building, Nodes, index
<1>2. Asked'
  BY DEF WideInv, Asked
<1> QED
  BY <1>1, <1>2 DEF WideInv

LEMMA AnswerWide ==
  ASSUME IInv, WideInv, Wide, Answer
  PROVE  WideInv'
<1>1. /\ pc = "select" /\ pc' = "answered"
      /\ UNCHANGED <<index, layer, ep, request, search>>
      /\ answer' \in Closest(request.query, results, request.k)
  BY DEF Answer
<1>2. /\ vectors' = vectors /\ graph' = graph /\ request' = request /\ ep' = ep /\ layer' = layer
      /\ candidates' = candidates /\ results' = results /\ visited' = visited /\ todo' = todo
  BY <1>1 DEF index, search
<1>3. Seen
  BY DEF WideInv
<1>4. Reachable' = Reachable
  BY <1>2 DEF Reachable, Nodes
<1>5. Closest(request.query, results, request.k)' = Closest(request.query, results, request.k)
  BY <1>2 DEF Closest
<1>6. Seen'
  BY <1>1, <1>2, <1>3, <1>4, <1>5 DEF Seen, Nodes
<1>7. Asked'
  BY <1>2 DEF WideInv, Asked
<1> QED
  BY <1>6, <1>7 DEF WideInv

LEMMA NextWide == IInv /\ IInv' /\ WideInv /\ [Next]_vars => WideInv'
<1> SUFFICES ASSUME IInv, IInv', WideInv, [Next]_vars PROVE WideInv'
  OBVIOUS
<1>1. CASE Insert
  BY <1>1, EnterWide DEF Insert
<1>2. CASE Start
  BY <1>2, EnterWide DEF Start
<1>3. CASE Greedy
  <2>1. UNCHANGED <<index, request, answer>> /\ vectors' = vectors /\ request' = request
    BY <1>3 DEF Greedy, index
  <2>2. Enter(layer - 1, ep) \/ pc' = "greedy"
    BY <1>3 DEF Greedy
  <2>3. CASE Enter(layer - 1, ep)
    <3> DEFINE l == layer - 1
               e == ep
    <3>1. Enter(l, e)
      BY <2>3
    <3> HIDE DEF l, e
    <3> QED
      BY <2>1, <3>1, EnterWide
  <2>4. CASE pc' = "greedy"
    BY <2>1, <2>4, Elsewhere
  <2> QED
    BY <2>2, <2>3, <2>4
<1>4. CASE Expand
  <2>1. UNCHANGED <<index, request>> /\ pc = "expand"
    BY <1>4 DEF Expand
  <2>2. CASE Wide
    BY <1>4, <2>1, <2>2, ExpandWide DEF Searching
  <2> QED
    BY <2>1, <2>2, NotWide
<1>5. CASE Visit
  <2>1. UNCHANGED <<index, request>> /\ pc = "visit"
    BY <1>5 DEF Visit
  <2>2. CASE Wide
    BY <1>5, <2>1, <2>2, VisitWide DEF Searching
  <2> QED
    BY <2>1, <2>2, NotWide
<1>6. CASE Connect
  BY <1>6, Elsewhere DEF Connect
<1>7. CASE Link
  BY <1>7, Elsewhere DEF Link, IInv, Types
<1>8. CASE Linked
  <2>1. CASE layer > 0
    <3> DEFINE l == layer - 1
               e == ep
    <3>1. Enter(l, e) /\ UNCHANGED <<index, request, answer>>
      BY <1>8, <2>1 DEF Linked
    <3> HIDE DEF l, e
    <3> QED
      BY <3>1, EnterWide
  <2>2. CASE ~(layer > 0)
    BY <1>8, <2>2, Elsewhere DEF Linked
  <2> QED
    BY <2>1, <2>2
<1>9. CASE \E r \in Requests : Search(r)
  <2>1. PICK r \in Requests : Search(r)
    BY <1>9
  <2>2. Asked'
    BY <2>1, InputAssumption DEF Search, Asked
  <2> QED
    BY <2>1, <2>2 DEF Search, WideInv, Seen
<1>10. CASE Answer
  <2>1. UNCHANGED <<index, request>>
    BY <1>10 DEF Answer
  <2>2. CASE Wide
    BY <1>10, <2>2, AnswerWide
  <2> QED
    BY <2>1, <2>2, NotWide
<1>11. CASE Done
  <2>1. pc' = "ready" /\ request' = NoRequest /\ vectors' = vectors
    BY <1>11 DEF Done, index
  <2>2. vectors \in Inputs
    BY DEF IInv, Types
  <2>3. 0 \in Nodes /\ vectors \in [0 .. Cardinality(DOMAIN vectors) - 1 -> Points]
    BY <2>2, NodesAreNumbers, InputAssumption
  <2>4. vectors[0] \in Points
    BY <2>3 DEF Nodes
  <2>5. Asked'
    BY <2>1, <2>4 DEF Asked, NoRequest
  <2> QED
    BY <2>1, <2>5 DEF WideInv, Seen
<1>12. CASE UNCHANGED vars
  <2>1. WideInv' <=> WideInv
    BY <1>12 DEF vars, WideInv, Asked, Wide, Seen, Building, Nodes, Reachable, Closest
  <2> QED
    BY <2>1
<1> QED
  BY <1>1, <1>2, <1>3, <1>4, <1>5, <1>6, <1>7, <1>8, <1>9, <1>10, <1>11, <1>12 DEF Next, Step

\* A search whose ef is the size of the index answers with the nearest of all it
\* can reach (search_layer, search), for all vectors, distances and graphs.
THEOREM WideIsExact == Spec => []ExactWhenWide
<1>1. Spec => []WideInv
  BY InitIInv, NextIInv, InitWide, NextWide, PTL DEF Spec
<1>2. IInv /\ WideInv => ExactWhenWide
  <2> SUFFICES ASSUME IInv, WideInv, pc = "answered", request.ef >= Cardinality(Nodes)
               PROVE  answer \in Closest(request.query, visited, request.k) /\ visited = Reachable
    BY DEF ExactWhenWide
  <2>1. ~Building /\ Types
    BY DEF IInv, Types
  <2>2. Seen
    BY <2>1 DEF WideInv, Wide
  <2>3. /\ results = visited /\ ep \in visited /\ visited \subseteq Reachable /\ ep \in Nodes
        /\ todo = {} /\ candidates = {}
        /\ \A n \in visited \ candidates : graph[0][n] \subseteq visited \cup todo
        /\ answer \in Closest(request.query, results, request.k)
    BY <2>2 DEF Seen
  <2>4. 0 \in Layers(vectors)
    <3>1. 0 \in Nodes /\ Level(0) \in Nat /\ vectors \in Inputs
      BY <2>1, NodesAreNumbers DEF Types
    <3>2. Level(0) \in Layers(vectors) /\ 0 \in 0 .. Level(0)
      BY <3>1, LevelIsLayer
    <3> QED
      BY <3>1, <3>2, LayersGoDown
  <2>5. visited \in SUBSET Nodes
    BY <2>1, <2>3, <2>4, ReachableIs
  <2>6. Reachable \subseteq visited
    BY <2>1, <2>3, <2>4, <2>5, ReachableIs
  <2> QED
    BY <2>3, <2>6
<1> QED
  BY <1>1, <1>2, InvariantHolds, PTL
-------------------------------------------------------------------------------
\* Rows of lists.  A function from 1 .. n is a sequence.
LEMMA FunctionIsSeq ==
  ASSUME NEW S, NEW n \in Nat, NEW f \in [1 .. n -> S]
  PROVE  f \in Seq(S) /\ Len(f) = n /\ DOMAIN f = 1 .. n
<1>1. f \in Seq(S)
  BY SeqDef
<1>2. Len(f) = n
  BY <1>1, LenProperties
<1> QED
  BY <1>1, <1>2

\* A finite set is listed whole.
LEMMA ListedWhole ==
  ASSUME NEW S, IsFiniteSet(S)
  PROVE  SetToSeq(S) \in Seq(S) /\ Range(SetToSeq(S)) = S
<1> DEFINE c == Cardinality(S)
           f == SetToSeq(S)
<1>1. c \in Nat /\ ExistsBijection(1 .. c, S)
  BY FS_CardinalityType
<1>2. \E g \in [1 .. c -> S] : IsInjective(g)
  BY <1>1 DEF ExistsBijection, Bijection, Injection
<1>3. f \in [1 .. c -> S] /\ IsInjective(f)
  BY <1>2 DEF SetToSeq
<1> HIDE DEF f, c
<1>4. f \in Injection(1 .. c, S)
  BY <1>3 DEF Injection
<1>5. IsFiniteSet(1 .. c) /\ Cardinality(1 .. c) = c
  <2>1. 1 \in Int /\ c \in Int
    BY <1>1
  <2>2. IsFiniteSet(1 .. c) /\ Cardinality(1 .. c) = IF 1 > c THEN 0 ELSE c - 1 + 1
    BY <2>1, FS_Interval
  <2> QED
    BY <1>1, <2>2
<1>6. f \in Surjection(1 .. c, S)
  BY <1>4, <1>5, FS_Injection DEF c
<1>7. \A x \in S : \E k \in 1 .. c : f[k] = x
  BY <1>6 DEF Surjection
<1>8. Range(f) = S
  <2>1. DOMAIN f = 1 .. c
    BY <1>3
  <2> QED
    BY <1>3, <1>7, <2>1 DEF Range
<1>9. f \in Seq(S)
  BY <1>1, <1>3, FunctionIsSeq
<1> QED
  BY <1>8, <1>9 DEF f

\* u[k] is the first k of the sequences s, one behind the other.
IsJoin(u, s, n) == u[0] = << >> /\ \A k \in 1 .. n : u[k] = u[k - 1] \o s[k]

IsFlatten(u, s) == u = [k \in 1 .. Len(s) |-> IF k = 1 THEN s[k] ELSE u[k - 1] \o s[k]]

LEMMA FlattenIsJoin ==
  ASSUME NEW V, NEW n \in Nat \ {0}, NEW s \in [1 .. n -> Seq(V)]
  PROVE  \E u \in [0 .. n -> Seq(V)] : IsJoin(u, s, n) /\ FlattenSeq(s) = u[n]
<1> DEFINE W == Seq(V)
           step == [k \in 1 .. n |-> [t \in W |-> t \o s[k]]]
<1>1. << >> \in W
  OBVIOUS
<1>2. \A k \in 1 .. n : \A t \in W : t \o s[k] \in W
  BY ConcatProperties
<1>3. step \in [1 .. n -> [W -> W]]
  BY <1>2
<1>4. PICK u \in [0 .. n -> W] : IsFold(u, n, << >>, step)
  <2> HIDE DEF W, step
  <2> QED
    BY <1>1, <1>3, FoldExists
<1>5. IsJoin(u, s, n)
  <2>1. u[0] = << >>
    BY <1>4 DEF IsFold
  <2>2. ASSUME NEW k \in 1 .. n PROVE u[k] = u[k - 1] \o s[k]
    <3>1. u[k] = step[k][u[k - 1]]
      BY <1>4 DEF IsFold
    <3>2. k - 1 \in 0 .. n
      OBVIOUS
    <3>3. u[k - 1] \in W
      BY <1>4, <3>2
    <3> QED
      BY <3>1, <3>3
  <2> QED
    BY <2>1, <2>2 DEF IsJoin
<1>6. Len(s) = n
  BY FunctionIsSeq
<1> DEFINE v == [k \in 1 .. n |-> u[k]]
           w == CHOOSE x : IsFlatten(x, s)
<1>7. IsFlatten(v, s)
  <2>1. ASSUME NEW k \in 1 .. n
        PROVE  u[k] = IF k = 1 THEN s[k] ELSE v[k - 1] \o s[k]
    <3>1. u[k] = u[k - 1] \o s[k] /\ s[k] \in Seq(V)
      BY <1>5 DEF IsJoin
    <3>2. CASE k = 1
      <4>1. u[0] = << >>
        BY <1>5 DEF IsJoin
      <4>2. << >> \o s[k] = s[k]
        BY <3>1, ConcatEmptySeq
      <4>3. k - 1 = 0
        BY <3>2
      <4>4. u[k] = s[k]
        BY <3>1, <4>1, <4>2, <4>3
      <4> QED
        BY <3>2, <4>4
    <3>3. CASE k # 1
      <4>1. k - 1 \in 1 .. n
        BY <3>3
      <4> QED
        BY <3>1, <3>3, <4>1
    <3> QED
      BY <3>2, <3>3
  <2> QED
    BY <1>6, <2>1 DEF IsFlatten
<1>8. IsFlatten(w, s)
  <2>1. \E x : IsFlatten(x, s)
    BY <1>7
  <2> HIDE DEF v
  <2> QED
    BY <2>1
<1>9. FlattenSeq(s) = w[n]
  <2>1. Len(s) # 0
    BY <1>6
  <2>2. FlattenSeq(s) = w[Len(s)]
    BY <2>1 DEF FlattenSeq, IsFlatten
  <2> QED
    BY <1>6, <2>2
<1> HIDE DEF w, v
<1> DEFINE S == {m \in 0 .. n : m = 0 \/ w[m] = u[m]}
<1>10. 0 \in S
  OBVIOUS
<1>11. /\ \A k \in 1 .. n : w[k] = IF k = 1 THEN s[k] ELSE w[k - 1] \o s[k]
       /\ \A k \in 1 .. n : u[k] = u[k - 1] \o s[k]
       /\ u[0] = << >>
  BY <1>5, <1>6, <1>8, Zenon DEF IsFlatten, IsJoin
<1>14. ASSUME NEW m \in 0 .. n - 1, m \in S PROVE m + 1 \in S
  <2>1. PICK k \in 1 .. n : k = m + 1 /\ k - 1 = m
    OBVIOUS
  <2>2. w[k] = u[k]
    <3>1. CASE m = 0
      <4>1. k = 1
        BY <2>1, <3>1
      <4>2. w[k] = s[k]
        BY <1>11, <4>1
      <4>3. s[k] \in Seq(V)
        OBVIOUS
      <4>4. << >> \o s[k] = s[k]
        BY <4>3, ConcatEmptySeq
      <4>5. u[k] = << >> \o s[k]
        BY <1>11, <2>1, <3>1
      <4> QED
        BY <4>2, <4>4, <4>5
    <3>2. CASE m # 0
      <4>1. w[m] = u[m] /\ k # 1
        BY <1>14, <2>1, <3>2
      <4>2. w[k] = w[k - 1] \o s[k] /\ u[k] = u[k - 1] \o s[k]
        BY <1>11, <4>1
      <4> QED
        BY <2>1, <4>1, <4>2
    <3> QED
      BY <3>1, <3>2
  <2> QED
    BY <2>1, <2>2
<1>12. 0 .. n \subseteq S
  <2> HIDE DEF S
  <2> QED
    BY <1>10, <1>14, RangeInduction
<1>13. w[n] = u[n]
  BY <1>12
<1> QED
  BY <1>4, <1>5, <1>9, <1>13

\* ends[k] is where list k ends in its row.
Ends(ends, ls, n) == ends[0] = 0 /\ \A k \in 1 .. n : ends[k] = ends[k - 1] + 1 + Len(ls[k])

Placed(row, ls, ends, k) ==
  /\ row[ends[k - 1] + 1] = Len(ls[k])
  /\ \A j \in 1 .. Len(ls[k]) : row[ends[k - 1] + 1 + j] = ls[k][j]

\* A row has every list, behind its length.
LEMMA RowIs ==
  ASSUME NEW n \in Nat \ {0}, NEW ls \in [1 .. n -> Seq(Nat)]
  PROVE  /\ Flattened(ls) \in Seq(Nat)
         /\ \E ends \in [0 .. n -> Nat] :
              /\ Ends(ends, ls, n)
              /\ ends[n] = Len(Flattened(ls))
              /\ \A m \in 0 .. n : \A k \in 1 .. m : ends[k] <= ends[m]
              /\ \A k \in 1 .. n : Placed(Flattened(ls), ls, ends, k)
<1> DEFINE s == [k \in DOMAIN ls |-> <<Len(ls[k])>> \o ls[k]]
<1>1. ASSUME NEW k \in 1 .. n
      PROVE  /\ ls[k] \in Seq(Nat) /\ Len(ls[k]) \in Nat
             /\ s[k] \in Seq(Nat) /\ Len(s[k]) = 1 + Len(ls[k])
             /\ s[k][1] = Len(ls[k])
             /\ \A j \in 1 .. Len(ls[k]) : s[k][1 + j] = ls[k][j]
  <2>1. ls[k] \in Seq(Nat) /\ Len(ls[k]) \in Nat
    OBVIOUS
  <2>2. <<Len(ls[k])>> \in Seq(Nat) /\ Len(<<Len(ls[k])>>) = 1 /\ <<Len(ls[k])>>[1] = Len(ls[k])
    BY <2>1
  <2>3. s[k] = <<Len(ls[k])>> \o ls[k]
    OBVIOUS
  <2> DEFINE h == <<Len(ls[k])>>
             l == ls[k]
  <2> HIDE DEF h, l, s
  <2>4. h \in Seq(Nat) /\ l \in Seq(Nat) /\ Len(h) = 1 /\ s[k] = h \o l /\ h[1] = Len(l) /\ Len(l) \in Nat
    BY <2>1, <2>2, <2>3 DEF h, l
  <2>8. /\ h \o l \in Seq(Nat) /\ Len(h \o l) = Len(h) + Len(l)
        /\ \A j \in 1 .. Len(h) + Len(l) : (h \o l)[j] = IF j <= Len(h) THEN h[j] ELSE l[j - Len(h)]
    BY <2>4, ConcatProperties
  <2>5. /\ h \o l \in Seq(Nat) /\ Len(h \o l) = 1 + Len(l)
        /\ \A j \in 1 .. 1 + Len(l) : (h \o l)[j] = IF j <= 1 THEN h[j] ELSE l[j - 1]
    BY <2>4, <2>8
  <2>6. s[k][1] = Len(l)
    BY <2>4, <2>5
  <2>7. ASSUME NEW j \in 1 .. Len(l) PROVE s[k][1 + j] = l[j]
    <3>1. PICK q \in 1 .. 1 + Len(l) : q = 1 + j /\ q - 1 = j /\ ~(q <= 1)
      BY <2>4
    <3> QED
      BY <2>4, <2>5, <3>1
  <2> QED
    BY <2>4, <2>5, <2>6, <2>7 DEF l
<1>2. s \in [1 .. n -> Seq(Nat)]
  <2>1. DOMAIN ls = 1 .. n
    OBVIOUS
  <2>2. DOMAIN s = 1 .. n /\ s = [k \in 1 .. n |-> s[k]]
    BY <2>1
  <2> HIDE DEF s
  <2> QED
    BY <1>1, <2>2
<1>3. Flattened(ls) = FlattenSeq(s)
  BY DEF Flattened
<1> HIDE DEF s
<1>4. PICK u \in [0 .. n -> Seq(Nat)] : IsJoin(u, s, n) /\ FlattenSeq(s) = u[n]
  BY <1>2, FlattenIsJoin
<1> DEFINE ends == [k \in 0 .. n |-> Len(u[k])]
<1>5. ends \in [0 .. n -> Nat] /\ \A k \in 0 .. n : ends[k] = Len(u[k])
  OBVIOUS
<1>6. u[0] = << >> /\ \A k \in 1 .. n : u[k] = u[k - 1] \o s[k]
  BY <1>4 DEF IsJoin
<1>7. ends[0] = 0
  BY <1>5, <1>6
<1> HIDE DEF ends
<1>8. ASSUME NEW k \in 1 .. n
      PROVE  /\ k - 1 \in 0 .. n
             /\ ends[k] = ends[k - 1] + 1 + Len(ls[k])
             /\ \A j \in 1 .. ends[k - 1] : u[k][j] = u[k - 1][j]
             /\ Placed(u[k], ls, ends, k)
  <2> DEFINE a == u[k - 1]
             b == s[k]
             e == ends[k - 1]
  <2>1. k - 1 \in 0 .. n
    OBVIOUS
  <2>10. a \in Seq(Nat) /\ b \in Seq(Nat)
    BY <1>1, <2>1
  <2>15. u[k] = a \o b
    BY <1>6, Zenon
  <2>16. e = Len(a)
    BY <1>5, <2>1, Zenon
  <2>17. k \in 0 .. n
    OBVIOUS
  <2>18. ends[k] = Len(u[k])
    BY <1>5, <2>17, Zenon
  <2>11. u[k] = a \o b /\ e = Len(a) /\ ends[k] = Len(u[k])
    BY <2>15, <2>16, <2>18
  <2> HIDE DEF a, b
  <2>2. a \in Seq(Nat) /\ b \in Seq(Nat) /\ u[k] = a \o b /\ e = Len(a) /\ e \in Nat /\ ends[k] = Len(u[k])
    BY <2>10, <2>11
  <2> HIDE DEF e
  <2>12. /\ Len(a \o b) = Len(a) + Len(b)
         /\ \A j \in 1 .. Len(a) + Len(b) : (a \o b)[j] = IF j <= Len(a) THEN a[j] ELSE b[j - Len(a)]
    BY <2>2, ConcatProperties
  <2>3. /\ Len(u[k]) = e + Len(b)
        /\ \A j \in 1 .. e + Len(b) : u[k][j] = IF j <= e THEN a[j] ELSE b[j - e]
    BY <2>2, <2>12
  <2>4. Len(b) = 1 + Len(ls[k]) /\ Len(ls[k]) \in Nat /\ b[1] = Len(ls[k])
        /\ \A j \in 1 .. Len(ls[k]) : b[1 + j] = ls[k][j]
    BY <1>1 DEF b
  <2>13. PICK d \in Nat : d = Len(ls[k])
    BY <2>4
  <2>14. e + Len(b) = e + 1 + d /\ e \in Nat
    BY <2>2, <2>4, <2>13
  <2>19. \A j \in 1 .. e : j \in 1 .. e + Len(b) /\ j <= e
    BY <2>14
  <2>5. \A j \in 1 .. e : u[k][j] = a[j]
    BY <2>3, <2>19, Zenon
  <2>6. u[k][e + 1] = Len(ls[k])
    <3>1. PICK q \in 1 .. e + Len(b) : q = e + 1 /\ q - e = 1 /\ ~(q <= e)
      BY <2>14
    <3> QED
      BY <2>3, <2>4, <3>1
  <2>7. ASSUME NEW j \in 1 .. Len(ls[k]) PROVE u[k][e + 1 + j] = ls[k][j]
    <3>1. PICK q \in 1 .. e + Len(b) : q = e + 1 + j /\ q - e = 1 + j /\ ~(q <= e)
      BY <2>13, <2>14
    <3> QED
      BY <2>3, <2>4, <3>1
  <2>8. Placed(u[k], ls, ends, k)
    BY <2>6, <2>7 DEF Placed, e
  <2>9. ends[k] = e + 1 + Len(ls[k])
    BY <2>2, <2>3, <2>4
  <2> QED
    BY <2>1, <2>5, <2>8, <2>9 DEF a, e
<1> DEFINE S == {m \in 0 .. n : \A k \in 1 .. m : ends[k] <= ends[m] /\ Placed(u[m], ls, ends, k)}
<1>9. 0 \in S
  OBVIOUS
<1>10. ASSUME NEW m \in 0 .. n - 1, m \in S PROVE m + 1 \in S
  <2>1. PICK t \in 1 .. n : t = m + 1 /\ t - 1 = m
    OBVIOUS
  <2>2. /\ ends[t] = ends[m] + 1 + Len(ls[t]) /\ Len(ls[t]) \in Nat /\ ends[m] \in Nat
        /\ \A j \in 1 .. ends[m] : u[t][j] = u[m][j]
        /\ Placed(u[t], ls, ends, t)
    <3>1. /\ ends[t] = ends[t - 1] + 1 + Len(ls[t])
          /\ \A j \in 1 .. ends[t - 1] : u[t][j] = u[t - 1][j]
          /\ Placed(u[t], ls, ends, t)
      BY <1>8, Zenon
    <3>2. Len(ls[t]) \in Nat
      BY <1>1
    <3>3. ends[m] \in Nat
      BY <1>5
    <3> QED
      BY <2>1, <3>1, <3>2, <3>3
  <2>3. ASSUME NEW k \in 1 .. t PROVE ends[k] <= ends[t] /\ Placed(u[t], ls, ends, k)
    <3>1. CASE k = t
      BY <2>2, <3>1
    <3>2. CASE k # t
      <4>1. k \in 1 .. m /\ k \in 1 .. n /\ k \in 0 .. n /\ k - 1 \in 0 .. n
        BY <2>1, <3>2
      <4>2. ends[k] <= ends[m] /\ Placed(u[m], ls, ends, k)
        BY <1>10, <4>1
      <4>3. ends[k] = ends[k - 1] + 1 + Len(ls[k]) /\ Len(ls[k]) \in Nat /\ ends[k] \in Nat /\ ends[k - 1] \in Nat
        BY <1>1, <1>5, <1>8, <4>1
      <4>6. PICK x \in Nat, y \in Nat, z \in Nat, d \in Nat :
              x = ends[k - 1] /\ y = ends[k] /\ z = ends[m] /\ d = Len(ls[k])
        BY <2>2, <4>3
      <4>7. y = x + 1 + d /\ y <= z
        BY <4>2, <4>3, <4>6
      <4>8. x + 1 \in 1 .. z /\ \A j \in 1 .. d : x + 1 + j \in 1 .. z
        BY <4>7
      <4>4. ends[k - 1] + 1 \in 1 .. ends[m] /\ \A j \in 1 .. Len(ls[k]) : ends[k - 1] + 1 + j \in 1 .. ends[m]
        BY <4>6, <4>8
      <4>5. Placed(u[t], ls, ends, k)
        BY <2>2, <4>2, <4>4 DEF Placed
      <4>9. PICK v \in Nat, w \in Nat : v = ends[t] /\ w = Len(ls[t])
        BY <2>2
      <4>10. v = z + 1 + w
        BY <2>2, <4>6, <4>9
      <4>11. y <= v
        BY <4>7, <4>10
      <4> QED
        BY <4>5, <4>6, <4>9, <4>11
    <3> QED
      BY <3>1, <3>2
  <2> QED
    BY <2>1, <2>3
<1>11. 0 .. n \subseteq S
  <2> HIDE DEF S
  <2> QED
    BY <1>9, <1>10, RangeInduction
<1>12. ends[n] = Len(u[n]) /\ u[n] \in Seq(Nat) /\ Flattened(ls) = u[n]
  BY <1>3, <1>4, <1>5
<1>13. Ends(ends, ls, n)
  BY <1>7, <1>8 DEF Ends
<1>14. \A m \in 0 .. n : \A k \in 1 .. m : ends[k] <= ends[m]
  BY <1>11
<1>15. \A k \in 1 .. n : Placed(u[n], ls, ends, k)
  <2>1. n \in S
    BY <1>11
  <2> QED
    BY <2>1
<1> QED
  BY <1>5, <1>12, <1>13, <1>14, <1>15

\* What Lists reads from position p on, when u is what it reads behind.
Part(u, row, p) ==
  IF p > Len(row) THEN << >>
  ELSE IF p + 1 + row[p] > Len(row) + 1 THEN <<Cut>>
       ELSE <<SubSeq(row, p + 1, (p + 1 + row[p]) - 1)>> \o u[p + 1 + row[p]]

IsLists(u, row) == u = [p \in 1 .. Len(row) + 1 |-> Part(u, row, p)]

Rows == Seq(Seq(Int))

LEMMA PartIs ==
  ASSUME NEW row \in Seq(Nat), NEW f \in [1 .. Len(row) + 1 -> Rows], NEW p \in 1 .. Len(row) + 1
  PROVE  /\ Part(f, row, p) \in Rows
         /\ p <= Len(row) /\ ~(p + 1 + row[p] > Len(row) + 1) =>
              p + 1 + row[p] \in p + 1 .. Len(row) + 1
<1>1. Len(row) \in Nat
  OBVIOUS
<1>2. CASE p > Len(row)
  <2>1. << >> \in Rows
    BY DEF Rows
  <2> QED
    BY <1>1, <1>2, <2>1 DEF Part
<1>3. CASE p <= Len(row)
  <2>1. p \in 1 .. Len(row) /\ row[p] \in Nat /\ ~(p > Len(row))
    BY <1>1, <1>3
  <2> DEFINE next == p + 1 + row[p]
  <2>2. next \in Nat /\ next >= p + 1 /\ p + 1 \in Int /\ next - 1 \in Int
    BY <2>1
  <2>3. CASE next > Len(row) + 1
    <3>1. Cut \in Seq(Int)
      BY DEF Cut
    <3>2. <<Cut>> \in Rows
      BY <3>1 DEF Rows
    <3>3. Part(f, row, p) = <<Cut>>
      BY <2>1, <2>3 DEF Part
    <3> QED
      BY <2>3, <3>2, <3>3
  <2>4. CASE ~(next > Len(row) + 1)
    <3>1. next \in p + 1 .. Len(row) + 1 /\ next \in 1 .. Len(row) + 1
      BY <1>1, <2>1, <2>2, <2>4
    <3>2. ASSUME NEW i_ \in p + 1 .. next - 1 PROVE row[i_] \in Int
      <4>1. PICK x \in 1 .. Len(row) : x = i_
        BY <1>1, <2>2, <3>1
      <4>2. row[x] \in Nat
        BY <4>1
      <4> QED
        BY <4>1, <4>2
    <3>3. SubSeq(row, p + 1, next - 1) \in Seq(Int)
      <4> DEFINE a == p + 1
                 b == next - 1
      <4>1. a \in Int /\ b \in Int /\ \A i_ \in a .. b : row[i_] \in Int
        BY <2>2, <3>2
      <4> HIDE DEF a, b
      <4>2. SubSeq(row, a, b) \in Seq(Int)
        BY <4>1, SubSeqProperties
      <4> QED
        BY <4>2 DEF a, b
    <3> DEFINE h == SubSeq(row, p + 1, next - 1)
    <3>4. f[next] \in Rows
      BY <3>1
    <3>5. Part(f, row, p) = <<h>> \o f[next]
      BY <2>1, <2>4 DEF Part
    <3> HIDE DEF h, next
    <3>6. <<h>> \in Seq(Seq(Int))
      BY <3>3 DEF h
    <3>7. <<h>> \o f[next] \in Rows
      BY <3>4, <3>6, ConcatProperties DEF Rows
    <3> QED
      BY <3>1, <3>5, <3>7 DEF next
  <2> QED
    BY <2>3, <2>4
<1> QED
  BY <1>1, <1>2, <1>3

LEMMA ListsExist ==
  ASSUME NEW row \in Seq(Nat)
  PROVE  \E u \in [1 .. Len(row) + 1 -> Rows] : IsLists(u, row)
<1> DEFINE n == Len(row) + 1
           F == [1 .. n -> Rows]
           S == {m \in 0 .. n : \E f \in F : \A p \in 1 .. n : p > n - m => f[p] = Part(f, row, p)}
<1>1. Len(row) \in Nat /\ n \in Nat
  OBVIOUS
<1>2. 0 \in S
  <2> DEFINE f == [p \in 1 .. n |-> << >>]
  <2>1. << >> \in Rows
    BY DEF Rows
  <2>2. f \in F
    BY <2>1
  <2>3. \A p \in 1 .. n : ~(p > n - 0)
    BY <1>1
  <2> HIDE DEF f, F
  <2> QED
    BY <1>1, <2>2, <2>3
<1>3. ASSUME NEW m \in 0 .. n - 1, m \in S PROVE m + 1 \in S
  <2>1. PICK f \in F : \A p \in 1 .. n : p > n - m => f[p] = Part(f, row, p)
    BY <1>3
  <2>7. n - m \in 1 .. n
    <3> HIDE DEF n
    <3> QED
      BY <1>1
  <2>2. PICK q \in 1 .. n : q = n - m
    BY <2>7
  <2> DEFINE g == [f EXCEPT ![q] = Part(f, row, q)]
  <2>3. Part(f, row, q) \in Rows
    BY PartIs
  <2>4. g \in F /\ g[q] = Part(f, row, q) /\ \A p \in 1 .. n : p # q => g[p] = f[p]
    BY <2>3
  <2> HIDE DEF g
  <2>5. ASSUME NEW p \in 1 .. n, p > n - (m + 1) PROVE g[p] = Part(g, row, p)
    <3>1. p >= q
      BY <1>1, <2>2, <2>5
    <3>2. Part(g, row, p) = Part(f, row, p)
      <4>1. CASE p <= Len(row) /\ ~(p + 1 + row[p] > Len(row) + 1)
        <5>1. p + 1 + row[p] \in p + 1 .. n
          BY <2>4, <4>1, PartIs
        <5>2. p + 1 + row[p] \in 1 .. n /\ p + 1 + row[p] # q
          BY <1>1, <3>1, <5>1
        <5>3. g[p + 1 + row[p]] = f[p + 1 + row[p]]
          BY <2>4, <5>2
        <5> QED
          BY <5>3 DEF Part
      <4>2. CASE p > Len(row)
        BY <4>2 DEF Part
      <4>3. CASE p + 1 + row[p] > Len(row) + 1
        BY <4>3 DEF Part
      <4> QED
        BY <1>1, <4>1, <4>2, <4>3
    <3>3. CASE p = q
      BY <2>4, <3>2, <3>3
    <3>4. CASE p # q
      <4>1. p > n - m
        BY <1>1, <2>2, <3>1, <3>4
      <4>2. f[p] = Part(f, row, p)
        BY <2>1, <4>1
      <4> QED
        BY <2>4, <3>2, <3>4, <4>2
    <3> QED
      BY <3>3, <3>4
  <2>6. m + 1 \in 0 .. n
    BY <1>1
  <2> HIDE DEF F
  <2> QED
    BY <2>4, <2>5, <2>6
<1>4. n \in S
  <2> HIDE DEF S, n
  <2>1. 0 .. n \subseteq S
    BY <1>1, <1>2, <1>3, RangeInduction
  <2> QED
    BY <1>1, <2>1
<1>5. PICK f \in F : \A p \in 1 .. n : p > n - n => f[p] = Part(f, row, p)
  BY <1>4
<1>6. \A p \in 1 .. n : f[p] = Part(f, row, p)
  BY <1>1, <1>5
<1>7. IsLists(f, row)
  BY <1>6 DEF IsLists
<1> QED
  BY <1>7

LEMMA ListsUnfold ==
  ASSUME NEW row \in Seq(Nat)
  PROVE  \E u : /\ Lists(row) = u[1]
                /\ \A p \in 1 .. Len(row) + 1 : u[p] = Part(u, row, p)
<1> DEFINE w == CHOOSE u : IsLists(u, row)
<1>1. \E u : IsLists(u, row)
  BY ListsExist
<1>2. IsLists(w, row)
  BY <1>1
<1>3. Lists(row) = w[1]
  BY DEF Lists, IsLists, Part
<1> HIDE DEF w
<1>4. \A p \in 1 .. Len(row) + 1 : w[p] = Part(w, row, p)
  BY <1>2, Zenon DEF IsLists
<1> QED
  BY <1>3, <1>4

LEMMA Prepended ==
  ASSUME NEW V, NEW x \in V, NEW t \in Seq(V)
  PROVE  /\ <<x>> \o t \in Seq(V) /\ Len(<<x>> \o t) = Len(t) + 1
         /\ (<<x>> \o t)[1] = x
         /\ \A j \in 1 .. Len(t) : (<<x>> \o t)[j + 1] = t[j]
<1> DEFINE h == <<x>>
<1>1. h \in Seq(V) /\ Len(h) = 1 /\ h[1] = x /\ Len(t) \in Nat
  OBVIOUS
<1> HIDE DEF h
<1>2. /\ h \o t \in Seq(V) /\ Len(h \o t) = Len(h) + Len(t)
      /\ \A j \in 1 .. Len(h) + Len(t) : (h \o t)[j] = IF j <= Len(h) THEN h[j] ELSE t[j - Len(h)]
  BY <1>1, ConcatProperties
<1>3. \A j \in 1 .. 1 + Len(t) : (h \o t)[j] = IF j <= 1 THEN h[j] ELSE t[j - 1]
  BY <1>1, <1>2
<1>4. (h \o t)[1] = x
  BY <1>1, <1>3
<1>5. ASSUME NEW j \in 1 .. Len(t) PROVE (h \o t)[j + 1] = t[j]
  <2>1. PICK q \in 1 .. 1 + Len(t) : q = j + 1 /\ q - 1 = j /\ ~(q <= 1)
    BY <1>1
  <2> QED
    BY <1>3, <2>1
<1>6. Len(h \o t) = Len(t) + 1
  BY <1>1, <1>2
<1> QED
  BY <1>2, <1>4, <1>5, <1>6 DEF h

\* One list is read as it was written, and the rest behind it.
LEMMA ListRead ==
  ASSUME NEW n \in Nat, NEW ls \in [1 .. n -> Seq(Nat)], NEW ends \in [0 .. n -> Nat], Ends(ends, ls, n),
         NEW row \in Seq(Nat), NEW u, NEW k \in 1 .. n, ends[k] <= Len(row), Placed(row, ls, ends, k),
         \A p \in 1 .. Len(row) + 1 : u[p] = Part(u, row, p)
  PROVE  u[ends[k - 1] + 1] = <<ls[k]>> \o u[ends[k] + 1]
<1>1. k - 1 \in 0 .. n /\ k \in 0 .. n /\ ls[k] \in Seq(Nat)
  OBVIOUS
<1>2. Len(ls[k]) \in Nat /\ Len(row) \in Nat
  BY <1>1
<1>3. PICK a \in Nat, b \in Nat, d \in Nat, l \in Nat :
        a = ends[k - 1] /\ b = ends[k] /\ d = Len(ls[k]) /\ l = Len(row)
  BY <1>1, <1>2
<1>4. b = a + 1 + d
  BY <1>3 DEF Ends
<1>5. row[a + 1] = d /\ \A j \in 1 .. d : row[a + 1 + j] = ls[k][j]
  BY <1>3 DEF Placed
<1>6. b <= l
  BY <1>3
<1>7. SubSeq(row, a + 2, b) = ls[k]
  <2> DEFINE s == SubSeq(row, a + 2, b)
  <2>1. a + 2 \in Int /\ b \in Int /\ \A i_ \in a + 2 .. b : row[i_] \in Nat
    <3>1. \A i_ \in 1 .. l : row[i_] \in Nat
      BY <1>3
    <3>2. \A i_ \in a + 2 .. b : i_ \in 1 .. l
      BY <1>6
    <3>3. \A i_ \in a + 2 .. b : row[i_] \in Nat
      BY <3>1, <3>2, Zenon
    <3>4. a + 2 \in Int /\ b \in Int
      BY <1>3
    <3> QED
      BY <3>3, <3>4, Zenon
  <2> DEFINE x == a + 2
  <2>2. /\ SubSeq(row, x, b) \in Seq(Nat)
        /\ Len(SubSeq(row, x, b)) = IF x <= b THEN b - x + 1 ELSE 0
        /\ \A i_ \in 1 .. b - x + 1 : SubSeq(row, x, b)[i_] = row[x + i_ - 1]
    <3> HIDE DEF x
    <3>1. x \in Int /\ b \in Int /\ \A i_ \in x .. b : row[i_] \in Nat
      BY <2>1 DEF x
    <3> QED
      BY <3>1, SubSeqProperties
  <2>3. b - x + 1 = d /\ (IF x <= b THEN b - x + 1 ELSE 0) = d
    BY <1>4
  <2>4. Len(s) = d /\ s \in Seq(Nat)
    BY <2>2, <2>3
  <2>5. ASSUME NEW j \in 1 .. d PROVE s[j] = ls[k][j]
    <3>1. s[j] = row[x + j - 1]
      BY <2>2, <2>3
    <3>2. x + j - 1 = a + 1 + j
      OBVIOUS
    <3> QED
      BY <1>5, <3>1, <3>2
  <2> HIDE DEF s
  <2> QED
    BY <1>1, <1>3, <2>4, <2>5, SeqEqual DEF s
<1>8. a + 1 \in 1 .. l + 1 /\ ~(a + 1 > l) /\ ~(a + 1 + 1 + d > l + 1) /\ a + 1 + 1 + d = b + 1
      /\ a + 1 + 1 = a + 2 /\ (a + 1 + 1 + d) - 1 = b
  BY <1>4, <1>6
<1>9. u[a + 1] = Part(u, row, a + 1)
  BY <1>3, <1>8
<1>10. Part(u, row, a + 1) = <<SubSeq(row, a + 1 + 1, (a + 1 + 1 + d) - 1)>> \o u[a + 1 + 1 + d]
  BY <1>3, <1>5, <1>8 DEF Part
<1> QED
  BY <1>3, <1>7, <1>8, <1>9, <1>10

\* A row is read to its end; one cut short inside a list is noticed.
LEMMA ListsRead ==
  ASSUME NEW n \in Nat, NEW ls \in [1 .. n -> Seq(Nat)], NEW ends \in [0 .. n -> Nat], Ends(ends, ls, n),
         NEW row \in Seq(Nat), NEW m \in 0 .. n, ends[m] <= Len(row),
         \A k \in 1 .. m : ends[k] <= ends[m] /\ Placed(row, ls, ends, k)
  PROVE  /\ ends[m] = Len(row) => Lists(row) = [k \in 1 .. m |-> ls[k]]
         /\ ends[m] < Len(row) /\ ends[m] + 2 + row[ends[m] + 1] > Len(row) + 1 => Cut \in Range(Lists(row))
<1>0. m \in Nat
  OBVIOUS
<1>1. PICK u : Lists(row) = u[1] /\ \A p \in 1 .. Len(row) + 1 : u[p] = Part(u, row, p)
  BY ListsUnfold
<1>2. ASSUME NEW k \in 1 .. m PROVE u[ends[k - 1] + 1] = <<ls[k]>> \o u[ends[k] + 1]
  <2>1. k \in 1 .. n /\ k \in 0 .. n /\ Placed(row, ls, ends, k) /\ ends[k] <= ends[m]
    OBVIOUS
  <2>2. ends[k] \in Nat /\ ends[m] \in Nat /\ Len(row) \in Nat
    BY <2>1
  <2>3. ends[k] <= Len(row)
    BY <2>1, <2>2
  <2> QED
    BY <1>1, <2>1, <2>3, ListRead, Zenon
<1>3. ends[m] \in Nat /\ Len(row) \in Nat /\ ends[m] + 1 \in 1 .. Len(row) + 1 /\ ends[0] = 0
  BY DEF Ends
<1>4. ASSUME ends[m] = Len(row) PROVE Lists(row) = [k \in 1 .. m |-> ls[k]]
  <2> DEFINE T(d) == [j \in 1 .. d |-> ls[m - d + j]]
             S == {d \in 0 .. m : u[ends[m - d] + 1] = T(d)}
  <2>1. ASSUME NEW d \in 0 .. m PROVE T(d) \in Seq(Seq(Nat)) /\ Len(T(d)) = d
    <3>1. \A j \in 1 .. d : ls[m - d + j] \in Seq(Nat)
      OBVIOUS
    <3>2. T(d) \in [1 .. d -> Seq(Nat)] /\ d \in Nat
      BY <3>1
    <3> HIDE DEF T
    <3> QED
      BY <3>2, FunctionIsSeq
  <2>2. 0 \in S
    <3>1. u[ends[m] + 1] = << >>
      <4> DEFINE p == ends[m] + 1
      <4>1. p \in 1 .. Len(row) + 1 /\ p > Len(row)
        BY <1>3, <1>4
      <4> HIDE DEF p
      <4>2. u[p] = Part(u, row, p) /\ Part(u, row, p) = << >>
        BY <1>1, <4>1 DEF Part
      <4> QED
        BY <4>2 DEF p
    <3>2. T(0) = << >>
      <4>1. T(0) \in Seq(Seq(Nat)) /\ Len(T(0)) = 0
        BY <2>1
      <4> HIDE DEF T
      <4> QED
        BY <4>1, EmptySeq
    <3>3. m - 0 = m
      OBVIOUS
    <3> HIDE DEF T
    <3> QED
      BY <3>1, <3>2, <3>3
  <2>3. ASSUME NEW d \in 0 .. m - 1, d \in S PROVE d + 1 \in S
    <3>1. PICK k \in 1 .. m : k = m - d /\ k - 1 = m - (d + 1) /\ d + 1 \in 0 .. m /\ d \in 0 .. m
      OBVIOUS
    <3>2. u[ends[k] + 1] = T(d) /\ u[ends[k - 1] + 1] = <<ls[k]>> \o u[ends[k] + 1]
      BY <1>2, <2>3, <3>1
    <3>3. ls[k] \in Seq(Nat) /\ T(d) \in Seq(Seq(Nat)) /\ Len(T(d)) = d /\ T(d + 1) \in Seq(Seq(Nat)) /\ Len(T(d + 1)) = d + 1
      BY <2>1, <3>1
    <3>4. /\ <<ls[k]>> \o T(d) \in Seq(Seq(Nat)) /\ Len(<<ls[k]>> \o T(d)) = d + 1
          /\ (<<ls[k]>> \o T(d))[1] = ls[k]
          /\ \A j \in 1 .. d : (<<ls[k]>> \o T(d))[j + 1] = T(d)[j]
      <4> DEFINE V == Seq(Nat)
                 x == ls[k]
                 t == T(d)
      <4> HIDE DEF T
      <4>1. x \in V /\ t \in Seq(V) /\ Len(t) = d
        BY <3>3
      <4> HIDE DEF V, x, t
      <4>2. /\ <<x>> \o t \in Seq(V) /\ Len(<<x>> \o t) = Len(t) + 1
            /\ (<<x>> \o t)[1] = x
            /\ \A j \in 1 .. Len(t) : (<<x>> \o t)[j + 1] = t[j]
        BY <4>1, Prepended
      <4>3. Len(<<x>> \o t) = d + 1 /\ \A j \in 1 .. d : (<<x>> \o t)[j + 1] = t[j]
        BY <4>1, <4>2
      <4> QED
        BY <4>2, <4>3 DEF V, x, t
    <3>5. ASSUME NEW j \in 1 .. d + 1 PROVE (<<ls[k]>> \o T(d))[j] = T(d + 1)[j]
      <4>1. T(d + 1)[j] = ls[m - (d + 1) + j]
        BY <3>1
      <4>2. CASE j = 1
        <5>1. m - (d + 1) + j = k
          BY <3>1, <4>2
        <5> HIDE DEF T
        <5> QED
          BY <3>4, <4>1, <4>2, <5>1
      <4>3. CASE j # 1
        <5>1. PICK i_ \in 1 .. d : j = i_ + 1
          <6>1. j - 1 \in 1 .. d /\ j = (j - 1) + 1
            BY <4>3
          <6> QED
            BY <6>1
        <5>2. T(d)[i_] = ls[m - d + i_]
          OBVIOUS
        <5>3. m - d + i_ = m - (d + 1) + j
          BY <5>1
        <5> HIDE DEF T
        <5> QED
          BY <3>4, <4>1, <5>1, <5>2, <5>3
      <4> QED
        BY <4>2, <4>3
    <3>6. <<ls[k]>> \o T(d) = T(d + 1)
      <4> HIDE DEF T
      <4> DEFINE s == <<ls[k]>> \o T(d)
                 t == T(d + 1)
      <4>1. s \in Seq(Seq(Nat)) /\ t \in Seq(Seq(Nat)) /\ Len(s) = Len(t) /\ \A j \in 1 .. Len(s) : s[j] = t[j]
        BY <3>3, <3>4, <3>5
      <4> HIDE DEF s, t
      <4>2. s = t
        BY <4>1, SeqEqual
      <4> QED
        BY <4>2 DEF s, t
    <3>7. u[ends[m - (d + 1)] + 1] = T(d + 1)
      <4> HIDE DEF T
      <4> QED
        BY <3>1, <3>2, <3>6
    <3> HIDE DEF T
    <3> QED
      BY <3>1, <3>7
  <2>4. m \in S
    <3> HIDE DEF S
    <3>1. 0 .. m \subseteq S
      BY <1>0, <2>2, <2>3, RangeInduction
    <3> QED
      BY <1>0, <3>1
  <2>5. u[ends[m - m] + 1] = T(m) /\ m - m = 0
    BY <2>4
  <2>6. T(m) = [k \in 1 .. m |-> ls[k]]
    <3>1. \A j \in 1 .. m : ls[m - m + j] = ls[j]
      OBVIOUS
    <3> QED
      BY <3>1
  <2>7. ends[m - m] + 1 = 1
    BY <1>3
  <2> HIDE DEF T
  <2> QED
    BY <1>1, <2>5, <2>6, <2>7
<1>5. ASSUME ends[m] < Len(row), ends[m] + 2 + row[ends[m] + 1] > Len(row) + 1
      PROVE  Cut \in Range(Lists(row))
  <2> DEFINE Has(s) == s \in Rows /\ \E j \in 1 .. Len(s) : s[j] = Cut
             S == {d \in 0 .. m : Has(u[ends[m - d] + 1])}
  <2>1. 0 \in S
    <3> DEFINE p == ends[m] + 1
    <3>1. p \in 1 .. Len(row) + 1 /\ ~(p > Len(row)) /\ row[p] \in Nat
      BY <1>3, <1>5
    <3>2. p + 1 + row[p] > Len(row) + 1
      BY <1>3, <1>5, <3>1
    <3>3. u[p] = <<Cut>>
      BY <1>1, <3>1, <3>2 DEF Part
    <3>4. Cut \in Seq(Int)
      BY DEF Cut
    <3>5. <<Cut>> \in Rows /\ Len(<<Cut>>) = 1 /\ <<Cut>>[1] = Cut
      BY <3>4 DEF Rows
    <3>6. Has(u[p])
      <4>1. 1 \in 1 .. Len(<<Cut>>)
        BY <3>5
      <4> QED
        BY <3>3, <3>5, <4>1
    <3> QED
      BY <3>6
  <2>2. ASSUME NEW d \in 0 .. m - 1, d \in S PROVE d + 1 \in S
    <3>1. PICK k \in 1 .. m : k = m - d /\ k - 1 = m - (d + 1) /\ d + 1 \in 0 .. m /\ d \in 0 .. m
      OBVIOUS
    <3> DEFINE t == u[ends[k] + 1]
    <3>2. Has(t) /\ u[ends[k - 1] + 1] = <<ls[k]>> \o t
      BY <1>2, <2>2, <3>1
    <3>3. ls[k] \in Seq(Int) /\ t \in Seq(Seq(Int))
      <4>1. ls[k] \in Seq(Nat)
        OBVIOUS
      <4> QED
        BY <3>2, <4>1 DEF Rows
    <3>4. PICK j \in 1 .. Len(t) : t[j] = Cut
      BY <3>2
    <3> HIDE DEF t
    <3>5. /\ <<ls[k]>> \o t \in Rows /\ Len(<<ls[k]>> \o t) = Len(t) + 1
          /\ (<<ls[k]>> \o t)[j + 1] = t[j]
      BY <3>3, Prepended DEF Rows
    <3>6. j + 1 \in 1 .. Len(<<ls[k]>> \o t)
      BY <3>3, <3>5
    <3>7. Has(<<ls[k]>> \o t)
      BY <3>4, <3>5, <3>6
    <3> HIDE DEF Has
    <3> QED
      BY <3>1, <3>2, <3>7
  <2>3. m \in S
    <3> HIDE DEF S
    <3>1. 0 .. m \subseteq S
      BY <1>0, <2>1, <2>2, RangeInduction
    <3> QED
      BY <1>0, <3>1
  <2>4. m - m = 0 /\ ends[m - m] + 1 = 1
    BY <1>3
  <2>5. Has(u[1])
    <3>1. Has(u[ends[m - m] + 1])
      BY <2>3
    <3> HIDE DEF Has
    <3> QED
      BY <2>4, <3>1
  <2>6. PICK j \in 1 .. Len(u[1]) : u[1][j] = Cut
    BY <2>5
  <2>7. DOMAIN u[1] = 1 .. Len(u[1])
    BY <2>5 DEF Rows
  <2> QED
    BY <1>1, <2>6, <2>7 DEF Range
<1> QED
  BY <1>4, <1>5

\* What is read back of a row, or of a part of it.
LEMMA WholeRow ==
  ASSUME NEW n \in Nat \ {0}, NEW ls \in [1 .. n -> Seq(Nat)]
  PROVE  Lists(Flattened(ls)) = ls
<1> DEFINE row == Flattened(ls)
<1>1. row \in Seq(Nat)
  BY RowIs
<1>2. PICK ends \in [0 .. n -> Nat] :
        /\ Ends(ends, ls, n) /\ ends[n] = Len(row)
        /\ \A m \in 0 .. n : \A k \in 1 .. m : ends[k] <= ends[m]
        /\ \A k \in 1 .. n : Placed(row, ls, ends, k)
  BY RowIs
<1> HIDE DEF row
<1>3. n \in Nat /\ n \in 0 .. n /\ ends[n] <= Len(row)
  BY <1>1, <1>2
<1>7. PICK m \in 0 .. n : m = n
  BY <1>3
<1>4. \A k \in 1 .. m : ends[k] <= ends[m] /\ Placed(row, ls, ends, k)
  BY <1>2, <1>3, <1>7
<1>9. n \in Nat /\ ends[m] <= Len(row)
  BY <1>3, <1>7
<1>8. /\ ends[m] = Len(row) => Lists(row) = [k \in 1 .. m |-> ls[k]]
      /\ ends[m] < Len(row) /\ ends[m] + 2 + row[ends[m] + 1] > Len(row) + 1 => Cut \in Range(Lists(row))
  BY <1>1, <1>2, <1>4, <1>9, ListsRead
<1>5. ends[n] = Len(row) => Lists(row) = [k \in 1 .. n |-> ls[k]]
  BY <1>7, <1>8
<1>6. [k \in 1 .. n |-> ls[k]] = ls
  OBVIOUS
<1> QED
  BY <1>2, <1>5, <1>6 DEF row

\* Lists of a row are the first of ls, or one was cut.
AreFirst(lists, ls, n) == Cut \in Range(lists) \/ \E m \in 0 .. n : lists = [k \in 1 .. m |-> ls[k]]

LEMMA CutRow ==
  ASSUME NEW n \in Nat \ {0}, NEW ls \in [1 .. n -> Seq(Nat)], NEW p \in 0 .. Len(Flattened(ls))
  PROVE  AreFirst(Lists(SubSeq(Flattened(ls), 1, p)), ls, n)
<1> DEFINE all == Flattened(ls)
           row == SubSeq(Flattened(ls), 1, p)
<1>1. all \in Seq(Nat) /\ Len(all) \in Nat
  BY RowIs
<1>2. PICK ends \in [0 .. n -> Nat] :
        /\ Ends(ends, ls, n) /\ ends[n] = Len(all)
        /\ \A m \in 0 .. n : \A k \in 1 .. m : ends[k] <= ends[m]
        /\ \A k \in 1 .. n : Placed(all, ls, ends, k)
  BY RowIs
<1>3. row = SubSeq(all, 1, p) /\ p \in 0 .. Len(all)
  OBVIOUS
<1> HIDE DEF all, row
<1>4. row \in Seq(Nat) /\ Len(row) = p /\ \A x \in 1 .. p : row[x] = all[x]
  <2>1. 1 \in Int /\ p \in Int /\ \A x \in 1 .. p : all[x] \in Nat
    BY <1>1, <1>3
  <2>2. /\ SubSeq(all, 1, p) \in Seq(Nat)
        /\ Len(SubSeq(all, 1, p)) = IF 1 <= p THEN p - 1 + 1 ELSE 0
        /\ \A x \in 1 .. p - 1 + 1 : SubSeq(all, 1, p)[x] = all[1 + x - 1]
    BY <2>1, SubSeqProperties
  <2>3. p - 1 + 1 = p /\ (IF 1 <= p THEN p - 1 + 1 ELSE 0) = p
    BY <1>1, <1>3
  <2>4. \A x \in 1 .. p : 1 + x - 1 = x
    OBVIOUS
  <2> QED
    BY <1>3, <2>2, <2>3, <2>4
<1> DEFINE R == {k \in 0 .. n : ends[k] <= p}
<1>5. PICK m \in R : \A r \in R : r <= m
  <2>1. 0 \in R
    BY <1>1, <1>2, <1>3 DEF Ends
  <2>2. R \in SUBSET (0 .. n) /\ R # {} /\ n \in Nat
    BY <2>1
  <2> HIDE DEF R
  <2> QED
    BY <2>2, NatMax
<1>6. m \in 0 .. n /\ ends[m] <= p /\ ends[m] \in Nat /\ p \in Nat
  BY <1>1, <1>3
<1>7. \A k \in 1 .. m : ends[k] <= ends[m] /\ Placed(row, ls, ends, k)
  <2> TAKE k \in 1 .. m
  <2>1. k \in 1 .. n /\ k \in 0 .. n /\ k - 1 \in 0 .. n /\ ends[k] <= ends[m] /\ Placed(all, ls, ends, k)
    BY <1>2, <1>6
  <2>2. ls[k] \in Seq(Nat) /\ ends[k] = ends[k - 1] + 1 + Len(ls[k])
    BY <1>2, <2>1 DEF Ends
  <2>3. PICK a \in Nat, b \in Nat, d \in Nat : a = ends[k - 1] /\ b = ends[k] /\ d = Len(ls[k])
    <3>1. ends[k - 1] \in Nat /\ ends[k] \in Nat
      BY <1>2, <2>1, Zenon
    <3>2. Len(ls[k]) \in Nat
      BY <2>2
    <3> QED
      BY <3>1, <3>2, Zenon
  <2>4. b = a + 1 + d /\ b <= p
    BY <1>6, <2>1, <2>2, <2>3
  <2>5. a + 1 \in 1 .. p /\ \A j \in 1 .. d : a + 1 + j \in 1 .. p
    BY <1>6, <2>4
  <2>6. row[a + 1] = d /\ \A j \in 1 .. d : row[a + 1 + j] = ls[k][j]
    BY <1>4, <2>1, <2>3, <2>5 DEF Placed
  <2>7. Placed(row, ls, ends, k)
    BY <2>3, <2>6 DEF Placed
  <2> QED
    BY <2>1, <2>7
<1>8. /\ ends[m] = Len(row) => Lists(row) = [k \in 1 .. m |-> ls[k]]
      /\ ends[m] < Len(row) /\ ends[m] + 2 + row[ends[m] + 1] > Len(row) + 1 => Cut \in Range(Lists(row))
  <2>1. n \in Nat /\ ends[m] <= Len(row)
    BY <1>4, <1>6
  <2> QED
    BY <1>2, <1>4, <1>6, <1>7, <2>1, ListsRead
<1>9. CASE ends[m] = p
  BY <1>4, <1>6, <1>8, <1>9 DEF row, AreFirst
<1>10. CASE ends[m] # p
  <2>1. m # n
    BY <1>1, <1>2, <1>3, <1>6, <1>10
  <2>2. PICK k \in 1 .. n : k = m + 1 /\ k - 1 = m
    BY <1>6, <2>1
  <2>3. ~(k <= m) /\ k \in 0 .. n
    BY <1>6, <2>2
  <2>4. ~(ends[k] <= p)
    BY <1>5, <2>3
  <2>5. ls[k] \in Seq(Nat) /\ ends[k] = ends[m] + 1 + Len(ls[k]) /\ all[ends[m] + 1] = Len(ls[k])
    BY <1>2, <2>2 DEF Ends, Placed
  <2>6. PICK a \in Nat, d \in Nat : a = ends[m] /\ d = Len(ls[k])
    BY <1>6, <2>5
  <2>7. a < p /\ ~(a + 1 + d <= p)
    BY <1>6, <1>10, <2>4, <2>5, <2>6
  <2>8. a + 1 \in 1 .. p /\ a + 2 + d > p + 1
    BY <1>6, <2>7
  <2>9. row[a + 1] = d
    BY <1>4, <2>5, <2>6, <2>8
  <2>10. Cut \in Range(Lists(row))
    BY <1>4, <1>8, <2>6, <2>7, <2>8, <2>9
  <2> QED
    BY <2>10 DEF row, AreFirst
<1> QED
  BY <1>9, <1>10
-------------------------------------------------------------------------------
\* Layers are numbered from zero, too.
LEMMA LayersAreNumbers ==
  ASSUME vectors \in Inputs
  PROVE  /\ Cardinality(Layers(vectors)) \in Nat \ {0}
         /\ Layers(vectors) = 0 .. Cardinality(Layers(vectors)) - 1
<1> DEFINE c == Cardinality(Nodes)
           Upto(m) == UNION {0 .. Level(n) : n \in 0 .. m}
           S == {m \in 0 .. c - 1 : \E t \in Nat : Upto(m) = 0 .. t}
<1>1. c \in Nat /\ Nodes = 0 .. c - 1 /\ 0 \in Nodes /\ \A n \in Nodes : Level(n) \in Nat
  BY NodesAreNumbers
<1> HIDE DEF c
<1>2. c - 1 \in Nat
  BY <1>1
<1>3. 0 \in S
  <2>2. 0 .. 0 = {0}
    OBVIOUS
  <2>3. UNION {0 .. Level(n) : n \in {0}} = 0 .. Level(0)
    OBVIOUS
  <2>1. Upto(0) = 0 .. Level(0)
    BY <2>2, <2>3
  <2> QED
    BY <1>1, <1>2, <2>1
<1>4. ASSUME NEW m \in 0 .. c - 1 - 1, m \in S PROVE m + 1 \in S
  <2>1. PICK t \in Nat : Upto(m) = 0 .. t
    BY <1>4
  <2>2. m + 1 \in 0 .. c - 1 /\ Level(m + 1) \in Nat
    BY <1>1, <1>2
  <2>3. Upto(m + 1) = Upto(m) \cup 0 .. Level(m + 1)
    <3>1. 0 .. m + 1 = (0 .. m) \cup {m + 1}
      BY <1>2
    <3> QED
      BY <3>1
  <2>4. Upto(m + 1) = 0 .. IF Level(m + 1) >= t THEN Level(m + 1) ELSE t
    BY <2>1, <2>2, <2>3
  <2> HIDE DEF Upto
  <2> QED
    BY <2>2, <2>4
<1>5. c - 1 \in S
  <2> HIDE DEF S
  <2>1. 0 .. c - 1 \subseteq S
    BY <1>2, <1>3, <1>4, RangeInduction
  <2> QED
    BY <1>2, <2>1
<1>6. PICK t \in Nat : Layers(vectors) = 0 .. t
  BY <1>1, <1>5 DEF Layers, Nodes
<1>7. Cardinality(0 .. t) = t + 1
  <2>1. 0 \in Int /\ t \in Int
    OBVIOUS
  <2>2. Cardinality(0 .. t) = IF 0 > t THEN 0 ELSE t - 0 + 1
    BY <2>1, FS_Interval
  <2> QED
    BY <2>2
<1> QED
  BY <1>6, <1>7

\* The neighbours of the nodes on layer l, in order.
Listed(l) == [n \in 1 .. Size |-> SetToSeq(graph[l - 1][n - 1])]

LEMMA ListedIs ==
  ASSUME Types
  PROVE  /\ Size \in Nat \ {0} /\ Nodes = 0 .. Size - 1
         /\ Cardinality(DOMAIN graph) \in Nat \ {0} /\ DOMAIN graph = 0 .. Cardinality(DOMAIN graph) - 1
         /\ \A l \in 1 .. Cardinality(DOMAIN graph) :
              /\ Listed(l) \in [1 .. Size -> Seq(Nat)]
              /\ \A n \in 1 .. Size : Range(Listed(l)[n]) = graph[l - 1][n - 1]
<1>1. vectors \in Inputs /\ graph \in [Layers(vectors) -> [Nodes -> SUBSET Nodes]] /\ DOMAIN graph = Layers(vectors)
  BY DEF Types
<1>2. Size \in Nat /\ Nodes = 0 .. Size - 1 /\ 0 \in Nodes /\ IsFiniteSet(Nodes)
  BY <1>1, NodesAreNumbers DEF Size
<1>3. Size # 0
  BY <1>2
<1> DEFINE h == Cardinality(DOMAIN graph)
<1>4. h \in Nat \ {0} /\ DOMAIN graph = 0 .. h - 1
  BY <1>1, LayersAreNumbers
<1> HIDE DEF h
<1>5. ASSUME NEW l \in 1 .. h, NEW n \in 1 .. Size
      PROVE  SetToSeq(graph[l - 1][n - 1]) \in Seq(Nat) /\ Range(SetToSeq(graph[l - 1][n - 1])) = graph[l - 1][n - 1]
  <2> DEFINE s == graph[l - 1][n - 1]
  <2>1. l - 1 \in DOMAIN graph /\ n - 1 \in Nodes
    BY <1>2, <1>4
  <2>2. s \in SUBSET Nodes
    BY <1>1, <2>1
  <2>3. IsFiniteSet(s) /\ s \subseteq Nat
    BY <1>2, <2>2, FS_Subset
  <2> HIDE DEF s
  <2>4. SetToSeq(s) \in Seq(s) /\ Range(SetToSeq(s)) = s
    BY <2>3, ListedWhole
  <2>5. SetToSeq(s) \in Seq(Nat)
    BY <2>3, <2>4, SeqMonotonic
  <2> QED
    BY <2>4, <2>5 DEF s
<1>6. ASSUME NEW l \in 1 .. h
      PROVE  /\ Listed(l) \in [1 .. Size -> Seq(Nat)]
             /\ \A n \in 1 .. Size : Range(Listed(l)[n]) = graph[l - 1][n - 1]
  BY <1>5 DEF Listed
<1> QED
  BY <1>2, <1>3, <1>4, <1>6 DEF h

\* A file of this index, but for its rows.
IsFileOf(file, rows) ==
  file = [vectors    |-> [n \in 1 .. Size |-> vectors[n - 1]],
          layers     |-> rows,
          levels     |-> [n \in 1 .. Size |-> Level(n - 1)],
          entryPoint |-> entry_point,
          count      |-> Size]

LEMMA SavedIs ==
  ASSUME Types
  PROVE  IsFileOf(Saved, [l \in 1 .. Cardinality(DOMAIN graph) |-> Flattened(Listed(l))])
<1>1. InOrder(LAMBDA n : vectors[n]) = [n \in 1 .. Size |-> vectors[n - 1]]
  BY DEF InOrder
<1>2. InOrder(Level) = [n \in 1 .. Size |-> Level(n - 1)]
  BY DEF InOrder
<1>3. ASSUME NEW l PROVE InOrder(LAMBDA n : SetToSeq(graph[l - 1][n])) = Listed(l)
  BY DEF InOrder, Listed
<1>4. [l \in 1 .. Cardinality(DOMAIN graph) |-> Flattened(InOrder(LAMBDA n : SetToSeq(graph[l - 1][n])))]
        = [l \in 1 .. Cardinality(DOMAIN graph) |-> Flattened(Listed(l))]
  BY <1>3
<1> QED
  BY <1>1, <1>2, <1>4 DEF Saved, IsFileOf

\* The lists read of a row, and no neighbours for the nodes behind.
LEMMA PaddedIs ==
  ASSUME NEW c \in Nat, NEW ls \in [1 .. c -> Seq(Nat)], NEW m \in 0 .. c
  PROVE  LET lists == Padded([k \in 1 .. m |-> ls[k]], c)
         IN  /\ Len(lists) = c
             /\ \A n \in 0 .. c - 1 : Range(lists[n + 1]) = IF n < m THEN Range(ls[n + 1]) ELSE {}
<1> DEFINE s == [k \in 1 .. m |-> ls[k]]
           t == [x \in 1 .. c - m |-> << >>]
           lists == Padded(s, c)
<1>1. m \in Nat /\ c - m \in Nat /\ m <= c
  OBVIOUS
<1>2. s \in [1 .. m -> Seq(Nat)] /\ \A k \in 1 .. m : s[k] = ls[k]
  OBVIOUS
<1>3. t \in [1 .. c - m -> Seq(Nat)] /\ \A k \in 1 .. c - m : t[k] = << >>
  <2>1. << >> \in Seq(Nat)
    OBVIOUS
  <2> QED
    BY <2>1
<1> HIDE DEF s
<1>4. s \in Seq(Seq(Nat)) /\ Len(s) = m
  BY <1>1, <1>2, FunctionIsSeq
<1>5. lists = s \o t
  BY <1>4 DEF Padded
<1> HIDE DEF t, lists
<1>6. t \in Seq(Seq(Nat)) /\ Len(t) = c - m
  <2> DEFINE d == c - m
  <2>1. d \in Nat /\ t \in [1 .. d -> Seq(Nat)]
    BY <1>1, <1>3
  <2> HIDE DEF d
  <2>2. t \in Seq(Seq(Nat)) /\ Len(t) = d
    BY <2>1, FunctionIsSeq
  <2> QED
    BY <2>2 DEF d
<1>7. /\ Len(s \o t) = Len(s) + Len(t)
      /\ \A k \in 1 .. Len(s) + Len(t) : (s \o t)[k] = IF k <= Len(s) THEN s[k] ELSE t[k - Len(s)]
  BY <1>4, <1>6, ConcatProperties
<1>8. Len(s) + Len(t) = c
  BY <1>1, <1>4, <1>6
<1>9. Len(lists) = c /\ \A k \in 1 .. c : lists[k] = IF k <= m THEN s[k] ELSE t[k - m]
  BY <1>4, <1>5, <1>7, <1>8
<1>10. ASSUME NEW n \in 0 .. c - 1 PROVE Range(lists[n + 1]) = IF n < m THEN Range(ls[n + 1]) ELSE {}
  <2>1. n + 1 \in 1 .. c
    OBVIOUS
  <2>2. CASE n < m
    <3>1. n + 1 <= m /\ n + 1 \in 1 .. m
      BY <1>1, <2>2
    <3>2. lists[n + 1] = ls[n + 1]
      BY <1>2, <1>9, <2>1, <3>1
    <3> QED
      BY <2>2, <3>2
  <2>3. CASE ~(n < m)
    <3>1. ~(n + 1 <= m) /\ (n + 1) - m \in 1 .. c - m
      BY <1>1, <2>3
    <3>2. lists[n + 1] = << >>
      BY <1>3, <1>9, <2>1, <3>1
    <3>3. Range(<< >>) = {}
      BY DEF Range
    <3> QED
      BY <2>3, <3>2, <3>3
  <2> QED
    BY <2>2, <2>3
<1> QED
  BY <1>9, <1>10 DEF lists, s

\* The rows have the lists of the first nodes, ms[l] of them on layer l.
Keeps(rows, ms, h) == \A l \in 1 .. h : Lists(rows[l]) = [k \in 1 .. ms[l] |-> Listed(l)[k]]

Kept(ms, h) ==
  [is |-> "index", vectors |-> vectors,
   graph |-> [l \in 0 .. h - 1 |-> [n \in Nodes |-> IF n < ms[l + 1] THEN graph[l][n] ELSE {}]],
   entry_point |-> entry_point,
   levels |-> [n \in Nodes |-> Level(n)]]

\* A file whose rows have the lists of the first nodes: what is loaded of it.
LEMMA LoadedIs ==
  ASSUME Types, NEW h, h = Cardinality(DOMAIN graph),
         NEW rows \in [1 .. h -> Seq(Nat)], NEW file, IsFileOf(file, rows),
         NEW ms \in [1 .. h -> 0 .. Size], Keeps(rows, ms, h)
  PROVE  Loaded(file) = Kept(ms, h)
<1> DEFINE c == Size
           lr == [l \in DOMAIN file.layers |-> Lists(file.layers[l])]
<1>1. /\ c \in Nat \ {0} /\ Nodes = 0 .. c - 1
      /\ h \in Nat \ {0} /\ DOMAIN graph = 0 .. h - 1
      /\ \A l \in 1 .. h : /\ Listed(l) \in [1 .. c -> Seq(Nat)]
                           /\ \A n \in 1 .. c : Range(Listed(l)[n]) = graph[l - 1][n - 1]
  BY ListedIs
<1>2. /\ file.vectors = [n \in 1 .. c |-> vectors[n - 1]]
      /\ file.layers = rows
      /\ file.levels = [n \in 1 .. c |-> Level(n - 1)]
      /\ file.entryPoint = entry_point
      /\ file.count = c
  BY DEF IsFileOf
<1> HIDE DEF c
<1>3. Len(file.vectors) = c /\ Len(file.levels) = c
  BY <1>1, <1>2
<1>4. DOMAIN lr = 1 .. h /\ Len(lr) = h /\ \A l \in 1 .. h : lr[l] = [k \in 1 .. ms[l] |-> Listed(l)[k]]
  BY <1>1, <1>2 DEF Keeps
<1>5. ~(Len(file.vectors) < file.count)
  BY <1>1, <1>2, <1>3
<1> HIDE DEF lr
<1>6. ~\E l \in DOMAIN lr : Cut \in Range(lr[l])
  <2> SUFFICES ASSUME NEW l \in 1 .. h, Cut \in Range(lr[l]) PROVE FALSE
    BY <1>4
  <2>1. PICK k \in 1 .. ms[l] : Cut = Listed(l)[k]
    <3> DEFINE f == [k \in 1 .. ms[l] |-> Listed(l)[k]]
    <3>2. lr[l] = f
      BY <1>4
    <3>3. DOMAIN f = 1 .. ms[l] /\ \A k \in 1 .. ms[l] : f[k] = Listed(l)[k]
      OBVIOUS
    <3> HIDE DEF f
    <3>4. Range(f) = {Listed(l)[k] : k \in 1 .. ms[l]}
      BY <3>3 DEF Range
    <3>1. Range(lr[l]) = {Listed(l)[k] : k \in 1 .. ms[l]}
      BY <3>2, <3>4
    <3> QED
      BY <3>1
  <2>2. k \in 1 .. c
    <3>1. ms[l] \in 0 .. c
      BY DEF c
    <3> QED
      BY <1>1, <3>1
  <2>3. Cut \in Seq(Nat)
    BY <1>1, <2>1, <2>2
  <2>4. Cut[1] \in Nat
    BY <2>3 DEF Cut
  <2>5. Cut[1] = -1
    BY DEF Cut
  <2> QED
    BY <2>4, <2>5
<1> DEFINE g == [l \in 0 .. Len(lr) - 1 |->
                   LET lists == Padded(lr[l + 1], file.count)
                   IN  [n \in 0 .. Len(lists) - 1 |-> Range(lists[n + 1])]]
<1>7. Loaded(file) = [is |-> "index",
                      vectors     |-> [n \in 0 .. file.count - 1 |-> file.vectors[n + 1]],
                      graph       |-> g,
                      entry_point |-> file.entryPoint,
                      levels      |-> [n \in 0 .. Len(file.levels) - 1 |-> file.levels[n + 1]]]
  BY <1>5, <1>6 DEF Loaded, lr
<1>8. [n \in 0 .. file.count - 1 |-> file.vectors[n + 1]] = vectors
  <2>1. \A n \in 0 .. c - 1 : n + 1 \in 1 .. c /\ (n + 1) - 1 = n
    BY <1>1
  <2>2. \A n \in 0 .. c - 1 : file.vectors[n + 1] = vectors[n]
    BY <1>2, <2>1
  <2>3. vectors = [n \in 0 .. c - 1 |-> vectors[n]]
    <3>1. vectors \in [0 .. Cardinality(DOMAIN vectors) - 1 -> Points]
      BY InputAssumption DEF Types
    <3> QED
      BY <1>1, <3>1 DEF Nodes
  <2>4. file.count - 1 = c - 1
    BY <1>2
  <2> QED
    BY <2>2, <2>3, <2>4
<1>9. [n \in 0 .. Len(file.levels) - 1 |-> file.levels[n + 1]] = [n \in Nodes |-> Level(n)]
  <2>1. \A n \in 0 .. c - 1 : n + 1 \in 1 .. c /\ (n + 1) - 1 = n
    BY <1>1
  <2>2. \A n \in 0 .. c - 1 : file.levels[n + 1] = Level(n)
    BY <1>2, <2>1
  <2> QED
    BY <1>1, <1>3, <2>2
<1>10. g = [l \in 0 .. h - 1 |-> [n \in Nodes |-> IF n < ms[l + 1] THEN graph[l][n] ELSE {}]]
  <2>1. ASSUME NEW l \in 0 .. h - 1
        PROVE  LET lists == Padded(lr[l + 1], file.count)
               IN  [n \in 0 .. Len(lists) - 1 |-> Range(lists[n + 1])]
                     = [n \in Nodes |-> IF n < ms[l + 1] THEN graph[l][n] ELSE {}]
    <3> DEFINE q == l + 1
    <3>1. q \in 1 .. h /\ q - 1 = l
      BY <1>1
    <3> HIDE DEF q
    <3> DEFINE ls == Listed(q)
               m == ms[q]
               lists == Padded(lr[q], file.count)
    <3>2. ls \in [1 .. c -> Seq(Nat)] /\ m \in 0 .. c /\ c \in Nat
          /\ \A n \in 1 .. c : Range(ls[n]) = graph[q - 1][n - 1]
      BY <1>1, <3>1 DEF c
    <3>3. lists = Padded([k \in 1 .. m |-> ls[k]], c)
      BY <1>2, <1>4, <3>1
    <3> HIDE DEF ls, m, lists
    <3>4. /\ Len(lists) = c
          /\ \A n \in 0 .. c - 1 : Range(lists[n + 1]) = IF n < m THEN Range(ls[n + 1]) ELSE {}
      BY <3>2, <3>3, PaddedIs
    <3>5. \A n \in 0 .. c - 1 : n + 1 \in 1 .. c /\ (n + 1) - 1 = n
      BY <1>1
    <3>6. \A n \in 0 .. c - 1 : Range(lists[n + 1]) = IF n < m THEN graph[l][n] ELSE {}
      BY <3>1, <3>2, <3>4, <3>5
    <3>7. [n \in 0 .. Len(lists) - 1 |-> Range(lists[n + 1])] = [n \in Nodes |-> IF n < m THEN graph[l][n] ELSE {}]
      BY <1>1, <3>4, <3>6
    <3> QED
      BY <3>7 DEF q, lists, m
  <2>2. Len(lr) - 1 = h - 1
    BY <1>4
  <2> QED
    BY <2>1, <2>2
<1> HIDE DEF g
<1> QED
  BY <1>2, <1>7, <1>8, <1>9, <1>10 DEF Kept

\* A saved index, with its last row whole or cut, is loaded as saved, refused, or
\* loaded without the neighbours of the last nodes.
LEMMA SavedIsLoaded ==
  ASSUME Types
  PROVE  SavedReadsBack
<1> DEFINE h == Cardinality(DOMAIN graph)
           rows == [l \in 1 .. h |-> Flattened(Listed(l))]
<1>1. /\ Size \in Nat \ {0} /\ Nodes = 0 .. Size - 1
      /\ h \in Nat \ {0} /\ DOMAIN graph = 0 .. h - 1
      /\ \A l \in 1 .. h : Listed(l) \in [1 .. Size -> Seq(Nat)]
  BY ListedIs
<1>2. IsFileOf(Saved, rows)
  BY SavedIs
<1>0. h = Cardinality(DOMAIN graph)
  OBVIOUS
<1> HIDE DEF h
<1>3. ASSUME NEW l \in 1 .. h PROVE Flattened(Listed(l)) \in Seq(Nat) /\ Lists(Flattened(Listed(l))) = Listed(l)
  BY <1>1, RowIs, WholeRow
<1>4. rows \in [1 .. h -> Seq(Nat)] /\ Saved.layers = rows /\ Len(rows) = h
  <2>1. rows \in [1 .. h -> Seq(Nat)]
    BY <1>3
  <2>2. Saved.layers = rows
    BY <1>2 DEF IsFileOf
  <2> HIDE DEF rows
  <2>3. Len(rows) = h
    BY <1>1, <2>1, FunctionIsSeq
  <2> QED
    BY <2>1, <2>2, <2>3
<1>5. \A l \in 1 .. h : rows[l] = Flattened(Listed(l))
  OBVIOUS
<1> HIDE DEF rows
<1>6. Loaded(Saved) = [is |-> "index", vectors |-> vectors, graph |-> graph, entry_point |-> entry_point,
                       levels |-> [n \in Nodes |-> Level(n)]]
  <2> DEFINE ms == [l \in 1 .. h |-> Size]
  <2>1. ms \in [1 .. h -> 0 .. Size] /\ \A l \in 1 .. h : ms[l] = Size
    BY <1>1
  <2>2. Keeps(rows, ms, h)
    <3> SUFFICES ASSUME NEW l \in 1 .. h PROVE Lists(rows[l]) = [k \in 1 .. ms[l] |-> Listed(l)[k]]
      BY DEF Keeps
    <3>1. Lists(rows[l]) = Listed(l)
      BY <1>3, <1>5
    <3>2. Listed(l) = [k \in 1 .. Size |-> Listed(l)[k]]
      BY <1>1
    <3> QED
      BY <2>1, <3>1, <3>2
  <2> HIDE DEF ms
  <2>3. Loaded(Saved) = Kept(ms, h)
    BY <1>0, <1>2, <1>4, <2>1, <2>2, LoadedIs
  <2>4. [l \in 0 .. h - 1 |-> [n \in Nodes |-> IF n < ms[l + 1] THEN graph[l][n] ELSE {}]] = graph
    <3>1. graph \in [0 .. h - 1 -> [Nodes -> SUBSET Nodes]]
      BY <1>1 DEF Types
    <3>2. ASSUME NEW l \in 0 .. h - 1
          PROVE  [n \in Nodes |-> IF n < ms[l + 1] THEN graph[l][n] ELSE {}] = graph[l]
      <4>1. l + 1 \in 1 .. h
        BY <1>1
      <4>2. \A n \in Nodes : n < ms[l + 1]
        BY <1>1, <2>1, <4>1
      <4>3. graph[l] \in [Nodes -> SUBSET Nodes]
        BY <3>1
      <4> QED
        BY <4>2, <4>3
    <3> QED
      BY <3>1, <3>2
  <2> QED
    BY <2>3, <2>4 DEF Kept
<1>7. ASSUME NEW p \in 0 .. Len(Saved.layers[h]), Loaded(CutTo(Saved, p)) # Truncated
      PROVE  \E n \in 0 .. Size : Loaded(CutTo(Saved, p)).graph[h - 1]
                                 = [m \in Nodes |-> IF m < n THEN graph[h - 1][m] ELSE {}]
  <2> DEFINE file == CutTo(Saved, p)
             cut == SubSeq(Flattened(Listed(h)), 1, p)
             parts == [rows EXCEPT ![h] = cut]
  <2>1. h \in 1 .. h /\ rows[h] = Flattened(Listed(h)) /\ Listed(h) \in [1 .. Size -> Seq(Nat)]
        /\ p \in 0 .. Len(Flattened(Listed(h)))
    BY <1>1, <1>4, <1>5
  <2>2. cut \in Seq(Nat)
    <3> DEFINE row == Flattened(Listed(h))
    <3>1. row \in Seq(Nat) /\ p \in 0 .. Len(row)
      BY <1>3, <2>1
    <3> HIDE DEF row
    <3>2. 1 \in Int /\ p \in Int /\ \A x \in 1 .. p : row[x] \in Nat
      BY <3>1
    <3>3. SubSeq(row, 1, p) \in Seq(Nat)
      BY <3>2, SubSeqProperties
    <3> QED
      BY <3>3 DEF row
  <2>3. IsFileOf(file, parts)
    <3>1. Saved.layers[h] = Flattened(Listed(h)) /\ Len(Saved.layers) = h
      BY <1>4, <2>1
    <3>2. file = [Saved EXCEPT !.layers = [Saved.layers EXCEPT ![h] = cut]]
      BY <3>1 DEF CutTo
    <3> HIDE DEF file, cut
    <3> QED
      BY <1>2, <1>4, <3>2 DEF IsFileOf
  <2>4. parts \in [1 .. h -> Seq(Nat)] /\ parts[h] = cut /\ \A l \in 1 .. h : l # h => parts[l] = rows[l]
    <3> HIDE DEF cut
    <3> QED
      BY <1>4, <2>1, <2>2
  <2>5. file.layers = parts /\ DOMAIN file.layers = 1 .. h
    <3> HIDE DEF file, parts
    <3> QED
      BY <2>3, <2>4 DEF IsFileOf
  <2> HIDE DEF file, parts
  <2>7. Cut \notin Range(Lists(cut))
    <3> HIDE DEF cut
    <3> SUFFICES ASSUME Cut \in Range(Lists(cut)) PROVE FALSE
      OBVIOUS
    <3>1. \E l \in DOMAIN [l \in DOMAIN file.layers |-> Lists(file.layers[l])] :
             Cut \in Range([l_ \in DOMAIN file.layers |-> Lists(file.layers[l_])][l])
      BY <2>1, <2>4, <2>5
    <3>2. Loaded(file) = Truncated
      BY <3>1 DEF Loaded
    <3> QED
      BY <1>7, <3>2 DEF file
  <2>8. PICK n \in 0 .. Size : Lists(cut) = [k \in 1 .. n |-> Listed(h)[k]]
    <3> DEFINE ls == Listed(h)
    <3>1. ls \in [1 .. Size -> Seq(Nat)] /\ p \in 0 .. Len(Flattened(ls)) /\ cut = SubSeq(Flattened(ls), 1, p)
      BY <2>1
    <3> HIDE DEF ls, cut
    <3>2. AreFirst(Lists(cut), ls, Size)
      BY <1>1, <3>1, CutRow
    <3>3. \E n \in 0 .. Size : Lists(cut) = [k \in 1 .. n |-> ls[k]]
      BY <2>7, <3>2 DEF AreFirst
    <3> QED
      BY <3>3 DEF ls
  <2> DEFINE ms == [l \in 1 .. h |-> IF l = h THEN n ELSE Size]
  <2>9. ms \in [1 .. h -> 0 .. Size] /\ ms[h] = n /\ \A l \in 1 .. h : l # h => ms[l] = Size
    BY <1>1
  <2> HIDE DEF ms, cut
  <2>10. Keeps(parts, ms, h)
    <3> SUFFICES ASSUME NEW l \in 1 .. h PROVE Lists(parts[l]) = [k \in 1 .. ms[l] |-> Listed(l)[k]]
      BY DEF Keeps
    <3>1. CASE l = h
      BY <2>4, <2>8, <2>9, <3>1
    <3>2. CASE l # h
      <4>1. Lists(parts[l]) = Listed(l)
        BY <1>3, <1>5, <2>4, <3>2
      <4>2. Listed(l) = [k \in 1 .. Size |-> Listed(l)[k]]
        BY <1>1
      <4> QED
        BY <2>9, <3>2, <4>1, <4>2
    <3> QED
      BY <3>1, <3>2
  <2>11. Loaded(file) = Kept(ms, h)
    BY <1>0, <2>3, <2>4, <2>9, <2>10, LoadedIs
  <2>12. h - 1 \in 0 .. h - 1 /\ (h - 1) + 1 = h
    BY <1>1
  <2>13. Loaded(file).graph = [l \in 0 .. h - 1 |-> [m \in Nodes |-> IF m < ms[l + 1] THEN graph[l][m] ELSE {}]]
    BY <2>11 DEF Kept
  <2>14. Loaded(file).graph[h - 1] = [m \in Nodes |-> IF m < n THEN graph[h - 1][m] ELSE {}]
    <3>1. PICK top : top = h - 1
      OBVIOUS
    <3>2. top \in 0 .. h - 1 /\ ms[top + 1] = n
      BY <2>9, <2>12, <3>1
    <3>3. Loaded(file).graph[top] = [m \in Nodes |-> IF m < ms[top + 1] THEN graph[top][m] ELSE {}]
      BY <2>13, <3>2
    <3> QED
      BY <3>1, <3>2, <3>3
  <2> QED
    BY <2>14 DEF file
<1>8. Len(Saved.layers) = h /\ (h - 1) + 1 = h
  BY <1>1, <1>4
<1> DEFINE top == Len(Saved.layers) - 1
<1>9. top = h - 1 /\ top + 1 = h
  BY <1>8
<1> HIDE DEF top
<1>10. \A p \in 0 .. Len(Saved.layers[top + 1]) :
         \A cut \in {Loaded(CutTo(Saved, p))} \ {Truncated} :
           \E n \in 0 .. Size : cut.graph[top] = [m \in Nodes |-> IF m < n THEN graph[top][m] ELSE {}]
  <2> TAKE p \in 0 .. Len(Saved.layers[top + 1])
  <2> SUFFICES ASSUME Loaded(CutTo(Saved, p)) # Truncated
               PROVE  \E n \in 0 .. Size : Loaded(CutTo(Saved, p)).graph[top]
                                           = [m \in Nodes |-> IF m < n THEN graph[top][m] ELSE {}]
    OBVIOUS
  <2>1. p \in 0 .. Len(Saved.layers[h])
    BY <1>9
  <2>2. \E n \in 0 .. Size : Loaded(CutTo(Saved, p)).graph[h - 1]
                           = [m \in Nodes |-> IF m < n THEN graph[h - 1][m] ELSE {}]
    BY <1>7, <2>1, Zenon
  <2> QED
    BY <1>9, <2>2, Zenon
<1> QED
  BY <1>6, <1>10, Zenon DEF SavedReadsBack, top

\* A saved index is loaded with every link (to_hdf5_bytes, load_from_hdf5), whatever
\* was built of whatever vectors; a row cut short is noticed or costs only the links
\* of its last nodes.
THEOREM SavedIsReadBack == Spec => []SavedReadsBack
<1>1. IInv => SavedReadsBack
  BY SavedIsLoaded DEF IInv
<1> QED
  BY <1>1, InvariantHolds, PTL
===============================================================================
