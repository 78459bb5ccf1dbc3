----------------------------- MODULE AssetGraph -----------------------------
(***************************************************************************)
(* engine/graph/core.py and engine/killchain/pathfinder.py: the graph of   *)
(* assets, the analyses of it in Python that stand in for the Rust core's, *)
(* and the search for the route of least resistance.                       *)
(*                                                                         *)
(* A node is a number; numbers are ordered as the names are.  What the     *)
(* metadata of a node decide is the cost of entering it.  Scores are in    *)
(* units of 1/Scale, so that they are integers.                            *)
(***************************************************************************)
EXTENDS Integers, Sequences, SequencesExt, FiniteSets, FiniteSetsExt

CONSTANTS Nodes,    \* the assets there may be
          Links,    \* the relations <<a, b>> that findings and callers may add
          Cost,     \* asset -> cost of entering it (SERVICE_COSTS, doubled)
          Queries,  \* the pairs <<entry_node, crown_jewel>> that are asked for
          Scale     \* a multiple of every number of equally short paths, doubled

ASSUME GraphAssumption ==
  /\ Nodes \subseteq Nat /\ IsFiniteSet(Nodes)
  /\ Links \subseteq Nodes \X Nodes /\ Queries \subseteq Nodes \X Nodes
  /\ Cost \in [Nodes -> Nat \ {0}] /\ Scale \in Nat \ {0}

VARIABLES
  nodes,    \* the keys of self.nodes, in the order of their insertion
  adj,      \* self.adj
  edges,    \* self._edges
  \* find_attack_path:
  search,   \* "none", "pop", "relax", "over"
  query,
  pq,       \* the heap, of tuples of a cost, a node and a path
  visited,  \* node -> the least cost it was pushed with
  cur,      \* the tuple in hand
  left,     \* its neighbours that are not looked at yet
  route     \* the answer

finding == <<query, pq, visited, cur, left, route>>
graph == <<nodes, adj, edges>>
graphVars == <<graph, search, finding>>

Known == ToSet(nodes)

-----------------------------------------------------------------------------
(***************************************************************************)
(* The graph                                                               *)
(***************************************************************************)
Insert(s, n) == IF Contains(s, n) THEN s ELSE Append(s, n)

\* add_node
AddNode(n) == nodes' = Insert(nodes, n) /\ UNCHANGED <<adj, edges>>

\* add_edge, which a node may have to itself
AddEdge(a, b) ==
  /\ nodes' = Insert(Insert(nodes, a), b)
  /\ adj' = [n \in Nodes |-> adj[n] \cup {x \in {a, b} : {n, x} = {a, b}}]
  /\ edges' = edges \cup {<<a, b>>}

\* ingest of a service on a host, or a caller's relation
Ingest(a, b) ==
  /\ search = "none" /\ <<a, b>> \in Links
  /\ AddEdge(a, b)
  /\ UNCHANGED <<search, finding>>

\* ingest of a subdomain
IngestAlone(n) ==
  /\ search = "none"
  /\ AddNode(n)
  /\ UNCHANGED <<search, finding>>

\* What of a sequence is in S, in its order.
Kept(s, S) ==
  LET kept[k \in 0..Len(s)] ==
        IF k = 0 THEN <<>> ELSE IF s[k] \in S THEN Append(kept[k - 1], s[k]) ELSE kept[k - 1]
  IN  kept[Len(s)]

\* Faulty variant: the neighbours in the order of their names.
Faulty_Neighbours(n) == Kept(SetToSortSeq(Known, LAMBDA x, y : x < y), adj[n] \ {n})

\* _neighbours: without the node itself, in the order of the nodes.
Neighbours(n) == Kept(nodes, adj[n] \ {n})

\* _index, _native_graph: the edges as pairs of positions.
Index(n) == SelectInSeq(nodes, LAMBDA x : x = n)
NativeGraph == {<<Index(e[1]), Index(e[2])>> : e \in {x \in edges : x[1] # x[2]}}

\* Graph::from_edges of the Rust core: sorted, without duplicates and loops.
FromEdges(es) ==
  [i \in DOMAIN nodes |->
     Kept([k \in DOMAIN nodes |-> k], {j \in DOMAIN nodes : i # j /\ {<<i, j>>, <<j, i>>} \cap es # {}})]

-----------------------------------------------------------------------------
(***************************************************************************)
(* _betweenness_python                                                     *)
(***************************************************************************)
\* Faulty variant: a predecessor is counted again when it is met from below.
Faulty_OnShortest(dist, v, w) == dist[w] >= dist[v]

OnShortest(dist, v, w) == dist[w] = dist[v] + 1

\* Node w, met as a neighbour of v
Meet(st, v, w) ==
  LET new == st.dist[w] < 0
      dist == IF new THEN [st.dist EXCEPT ![w] = st.dist[v] + 1] ELSE st.dist
      queue == IF new THEN Append(st.queue, w) ELSE st.queue
  IN  IF OnShortest(dist, v, w)
      THEN [queue |-> queue, dist |-> dist,
            sigma |-> [st.sigma EXCEPT ![w] = @ + st.sigma[v]],
            preds |-> [st.preds EXCEPT ![w] = Append(@, v)]]
      ELSE [st EXCEPT !.queue = queue, !.dist = dist]

\* The loop over a queue that grows; what was taken from it is the stack.
Explore(source) ==
  LET Visit(st, v) == FoldLeft(LAMBDA x, w : Meet(x, v, w), st, Neighbours(v))
  IN  FoldLeft(LAMBDA st, k : IF k > Len(st.queue) THEN st ELSE Visit(st, st.queue[k]),
               [queue |-> <<source>>, dist |-> [n \in Known |-> IF n = source THEN 0 ELSE -1],
                sigma |-> [n \in Known |-> IF n = source THEN 1 ELSE 0], preds |-> [n \in Known |-> <<>>]],
               [k \in DOMAIN nodes |-> k])

\* The dependencies of one source, summed up from the far end.
Delta(source) ==
  LET st == Explore(source)
      Share(d, w) == FoldLeft(LAMBDA x, v : [x EXCEPT ![v] = @ + (st.sigma[v] * (Scale + x[w])) \div st.sigma[w]], d, st.preds[w])
  IN  FoldLeft(Share, [n \in Known |-> 0], Reverse(st.queue))

Betweenness ==
  LET total == FoldLeft(LAMBDA sum, s : LET d == Delta(s) IN [n \in Known |-> IF n = s THEN sum[n] ELSE sum[n] + d[n]],
                        [n \in Known |-> 0], nodes)
  IN  [n \in Known |-> total[n] \div 2]

-----------------------------------------------------------------------------
(***************************************************************************)
(* Degrees, components and paths, in Python and in the Rust core           *)
(***************************************************************************)
\* degree_centrality: the number of links; both divide it by the same number.
DegreePython == [n \in Known |-> Len(Neighbours(n))]
DegreeRust == LET lists == FromEdges(NativeGraph) IN [n \in Known |-> Len(lists[Index(n)])]

\* A breadth-first search: node w, met as a neighbour of v; `prev` remembers who
\* met a node first.
Discover(st, v, w) ==
  IF w \in st.seen THEN st
  ELSE [queue |-> Append(st.queue, w), seen |-> st.seen \cup {w}, prev |-> [st.prev EXCEPT ![w] = v]]

LookAround(st, v, near) ==
  LET met[k \in 0..Len(near)] == IF k = 0 THEN st ELSE Discover(met[k - 1], v, near[k])
  IN  met[Len(near)]

Begin(source, all) == [queue |-> <<source>>, seen |-> {source}, prev |-> [n \in all |-> source]]

\* In Python, what was taken from the queue stays in front here.
Turn(st, k) == IF k > Len(st.queue) THEN st ELSE LookAround(st, st.queue[k], Neighbours(st.queue[k]))

\* The end at the node it is for leaves what is found up to there as it is.
Search(source) ==
  LET st[k \in 0..Len(nodes)] == IF k = 0 THEN Begin(source, Known) ELSE Turn(st[k - 1], k)
  IN  st[Len(nodes)]

\* The path back along `prev`, from the target to the source.
GoBack(p, prev, source) == IF Last(p) = source THEN p ELSE Append(p, prev[Last(p)])

Trace(prev, source, target) ==
  LET back[k \in 0..Len(nodes)] == IF k = 0 THEN <<target>> ELSE GoBack(back[k - 1], prev, source)
  IN  Reverse(back[Len(nodes)])

ShortestPathPython(source, target) ==
  LET st == Search(source)
  IN  IF target \in st.seen THEN Trace(st.prev, source, target) ELSE <<>>

\* connected_components: a search from every node that none has met.
Components ==
  LET found[k \in 0..Len(nodes)] ==
        IF k = 0 THEN {}
        ELSE IF nodes[k] \in UNION found[k - 1] THEN found[k - 1]
        ELSE found[k - 1] \cup {Search(nodes[k]).seen}
  IN  found[Len(nodes)]

\* shortest_hops_from of the Rust core: Dijkstra's algorithm on positions, every
\* link of the same weight; `dist` knows those that are reached.
Cheapest(heap) ==
  CHOOSE e \in heap : \A f \in heap : e.cost < f.cost \/ (e.cost = f.cost /\ e.node <= f.node)

AfterPop(st, e, lists) ==
  LET c == e.cost + 1
      near == {w \in ToSet(lists[e.node]) \ st.settled : w \in DOMAIN st.dist => c < st.dist[w]}
  IN  [dist |-> [w \in DOMAIN st.dist \cup near |-> IF w \in near THEN c ELSE st.dist[w]],
       settled |-> st.settled \cup {e.node},
       heap |-> (st.heap \ {e}) \cup {[cost |-> c, node |-> w] : w \in near}]

PopHeap(st, lists) ==
  LET e == Cheapest(st.heap)
  IN  IF st.heap = {} THEN st
      ELSE IF e.node \in st.settled THEN [st EXCEPT !.heap = @ \ {e}] ELSE AfterPop(st, e, lists)

\* No node comes on the heap twice: there are as many turns as nodes, at most.
HopsFrom(source, lists) ==
  LET after[k \in 0..Len(nodes)] ==
        IF k = 0 THEN [dist |-> [w \in {source} |-> 0], settled |-> {}, heap |-> {[cost |-> 0, node |-> source]}]
        ELSE PopHeap(after[k - 1], lists)
  IN  after[Len(nodes)].dist

\* shortest_path of the Rust core: one frontier, here `queue`, after the other, as
\* many as there are hops, then back and to names again.
NextFrontier(st, lists) ==
  LET done[k \in 0..Len(st.queue)] ==
        IF k = 0 THEN [st EXCEPT !.queue = <<>>] ELSE LookAround(done[k - 1], st.queue[k], lists[st.queue[k]])
  IN  done[Len(st.queue)]

Frontiers(source, lists, hops) ==
  LET after[h \in 0..hops] == IF h = 0 THEN Begin(source, DOMAIN nodes) ELSE NextFrontier(after[h - 1], lists)
  IN  after[hops]

ShortestPathRust(source, target) ==
  LET lists == FromEdges(NativeGraph)
      goal == Index(target)
      dist == HopsFrom(Index(source), lists)
      path == Trace(Frontiers(Index(source), lists, dist[goal]).prev, Index(source), goal)
  IN  IF goal \notin DOMAIN dist THEN <<>> ELSE [k \in DOMAIN path |-> nodes[path[k]]]

-----------------------------------------------------------------------------
(***************************************************************************)
(* find_attack_path                                                        *)
(***************************************************************************)
Entry(c, n, p) == [cost |-> c, node |-> n, path |-> p]

\* heapq orders tuples by their cost, then by the node, then by the path; no
\* two entries have both cost and node in common.
Least(e) == \A f \in pq : e.cost < f.cost \/ (e.cost = f.cost /\ e.node <= f.node)

FindAttackPath(q) ==
  /\ search = "none" /\ {q[1], q[2]} \subseteq Known
  /\ query' = q
  /\ pq' = {Entry(0, q[1], <<q[1]>>)}
  /\ visited' = [n \in {q[1]} |-> 0]
  /\ search' = "pop"
  /\ UNCHANGED <<graph, cur, left, route>>

Answer(e) == route' = e /\ search' = "over" /\ UNCHANGED <<cur, left>>

\* Faulty variant: the search is over when the jewel is first met.
Faulty_Arrived(e) == query[2] \in adj[e.node]

Arrived(e) == e.node = query[2]

\* heappop: the jewel, an entry that is out of date, or one to go on from.
PopEntry ==
  /\ search = "pop"
  /\ \E e \in pq :
       /\ Least(e)
       /\ pq' = pq \ {e}
       /\ IF Arrived(e) THEN Answer(e)
          ELSE /\ IF e.cost > visited[e.node] THEN UNCHANGED <<search, cur, left>>
                  ELSE cur' = e /\ left' = adj[e.node] /\ search' = "relax"
               /\ UNCHANGED route
  /\ UNCHANGED <<graph, query, visited>>

NoPath ==
  /\ search = "pop" /\ pq = {}
  /\ search' = "over"
  /\ UNCHANGED <<graph, finding>>

\* A neighbour, in whatever order the set gives them
Relax(n) ==
  /\ search = "relax" /\ n \in left
  /\ left' = left \ {n}
  /\ LET c == cur.cost + Cost[n]
     IN  IF n \in DOMAIN visited /\ c >= visited[n] THEN UNCHANGED <<pq, visited>>
         ELSE /\ visited' = [x \in DOMAIN visited \cup {n} |-> IF x = n THEN c ELSE visited[x]]
              /\ pq' = pq \cup {Entry(c, n, Append(cur.path, n))}
  /\ UNCHANGED <<graph, search, query, cur, route>>

EndRelax ==
  /\ search = "relax" /\ left = {}
  /\ search' = "pop"
  /\ UNCHANGED <<graph, finding>>

GraphInit ==
  /\ nodes = <<>> /\ adj = [n \in Nodes |-> {}] /\ edges = {}
  /\ search = "none" /\ query = <<>> /\ pq = {} /\ visited = <<>>
  /\ cur = Entry(0, 0, <<>>) /\ left = {} /\ route = Entry(0, 0, <<>>)

GraphNext ==
  \/ \E a, b \in Nodes : Ingest(a, b)
  \/ \E n \in Nodes : IngestAlone(n) \/ Relax(n)
  \/ \E q \in Queries : FindAttackPath(q)
  \/ PopEntry \/ NoPath \/ EndRelax

GraphSpec == GraphInit /\ [][GraphNext]_graphVars

-----------------------------------------------------------------------------
(***************************************************************************)
(* Properties                                                              *)
(***************************************************************************)
\* All paths that visit no node twice
Routes == {p \in SeqOf(Nodes, Cardinality(Nodes)) : p # <<>> /\ IsInjective(p)}
Paths == {p \in Routes : ToSet(p) \subseteq Known /\ \A i \in 1..(Len(p) - 1) : p[i + 1] \in adj[p[i]]}
From(s, t, paths) == {p \in paths : p[1] = s /\ Last(p) = t}
PathsOf(s, t) == From(s, t, Paths)
Shortest(s, t, paths) == LET all == From(s, t, paths) IN {p \in all : \A q \in all : Len(p) <= Len(q)}

\* The share of the shortest paths between other nodes that pass through n.
ShareOf(n, paths) ==
  MapThenSumSet(LAMBDA pair : LET all == Shortest(Min(pair), Max(pair), paths)
                              IN  IF all = {} THEN 0 ELSE (Scale * Cardinality({p \in all : Contains(p, n)})) \div Cardinality(all),
                kSubset(2, Known \ {n}))

\* The scores are the shares of the shortest paths, whatever the order in which
\* the nodes and the edges came, loops among them (_betweenness_python).
BetweennessIsShareOfPaths ==
  search = "none" => LET paths == Paths
                         scores == Betweenness
                     IN  \A n \in Known : scores[n] = ShareOf(n, paths)

\* Python and the Rust core agree: on the degrees, which come from two
\* representations of the graph, and on the path between every two nodes, one
\* of the shortest ("a byte-for-byte match for the Rust core on equal-length
\* routes"), or none for both.  The components are the sets of nodes with a path
\* to each other.
EnginesAgree ==
  search = "none" =>
    LET paths == Paths
    IN  /\ DegreePython = DegreeRust
        /\ \A s, t \in Known :
             LET best == Shortest(s, t, paths)
                 path == ShortestPathPython(s, t)
             IN  /\ IF best = {} THEN path = <<>> ELSE path \in best
                 /\ path = ShortestPathRust(s, t)
        /\ Components = {{t \in Known : From(s, t, paths) # {}} : s \in Known}

\* The cost of a path up to each of its nodes, and to its end; the first is
\* where one is already.
CostUpTo(p) ==
  LET sum[i \in 0..Len(p)] == IF i = 0 THEN 0 ELSE sum[i - 1] + (IF i = 1 THEN 0 ELSE Cost[p[i]])
  IN  sum
CostOf(p) == CostUpTo(p)[Len(p)]
LeastCost(s, t) == Min({CostOf(p) : p \in PathsOf(s, t)})

\* The node ahead of n on the route to it: of those on a cheapest path, the
\* cheapest, and of those the first by name.
Ahead(s, n) ==
  LET before == {m \in Known : n \in adj[m] /\ PathsOf(s, m) # {} /\ LeastCost(s, m) + Cost[n] = LeastCost(s, n)}
  IN  CHOOSE m \in before : \A k \in before :
        LeastCost(s, m) < LeastCost(s, k) \/ (LeastCost(s, m) = LeastCost(s, k) /\ m <= k)

\* The route found is the cheapest one, and which of several cheapest ones it
\* is does not depend on the order in which a set gives the neighbours
\* (find_attack_path).
RouteIsLeast ==
  search = "over" =>
    IF PathsOf(query[1], query[2]) = {} THEN route.path = <<>>
    ELSE /\ route.path \in PathsOf(query[1], query[2])
         /\ route.cost = CostOf(route.path) /\ route.cost = LeastCost(query[1], query[2])
         /\ \A i \in 2..Len(route.path) : route.path[i - 1] = Ahead(query[1], route.path[i])
=============================================================================
