---------------------------- MODULE GraphEngine ----------------------------
(***************************************************************************)
(* The graph engine (Data_Structures/03_Graph_Algorithm_Engine): LOAD      *)
(* builds a graph from a list or a matrix file, and every further command  *)
(* runs one algorithm over it and writes one answer to the log.            *)
(*                                                                         *)
(* A graph is its number of vertices and a partial function from pairs of  *)
(* vertices to weights: the rows of maps of ListGraph, the non-zero        *)
(* entries of MatrixGraph.                                                 *)
(***************************************************************************)
EXTENDS Integers, Sequences, SequencesExt, FiniteSetsExt, Functions, TLC

CONSTANTS Files,    \* what LOAD may read: see FilesOK
          INF       \* std::numeric_limits<long long>::max() / 4

VARIABLES graph,    \* the loaded graph, NULL before one and after some failures
          out       \* the last answer in the log

NULL == [size |-> 0, edge |-> <<>>]

(* A file: whether it opens with a valid header, its type letter, the     *)
(* vertex count, the edges its lines insert, and for a matrix how many of  *)
(* its entries can be read, row by row, before one that cannot.            *)
FilesOK ==
    /\ \A f \in Files : /\ f.header \in BOOLEAN
                        /\ f.type \in {"L", "M", "?"}
                        /\ f.size \in Nat \ {0}
                        /\ f.entries \in 0..f.size * f.size
                        /\ \A e \in DOMAIN f.edge : f.edge[e] < INF
    /\ INF \in Nat

V == 0..(graph.size - 1)
Ascending(S) == SetToSortSeq(S, <)
Lexical(a, b) == \E k \in DOMAIN a : a[k] < b[k] /\ \A i \in 1..(k - 1) : a[i] = b[i]
Option == {"O", "X"}
Arg == -1..graph.size           \* vertex arguments: one too small, one too large

Answer(cmd, opt, s, ok, res) ==
    out' = [cmd |-> cmd, opt |-> opt, s |-> s, ok |-> ok, res |-> res]

Init == /\ graph = NULL
        /\ out = [cmd |-> "", opt |-> "", s |-> 0, ok |-> TRUE, res |-> <<>>]

-----------------------------------------------------------------------------
(* Adjacency: the row of v, and for an undirected reading the column too,  *)
(* the lighter of the two directions.                                      *)

getAdjacentEdgesDirect(v) ==
    [j \in {i \in V : <<v, i>> \in DOMAIN graph.edge} |-> graph.edge[<<v, j>>]]

getAdjacentEdges(v) ==
    [j \in {i \in V : {<<v, i>>, <<i, v>>} \cap DOMAIN graph.edge # {}} |->
        Min({graph.edge[e] : e \in {<<v, j>>, <<j, v>>} \cap DOMAIN graph.edge})]

Adjacent(opt, v) ==
    IF opt = "O" THEN getAdjacentEdgesDirect(v) ELSE getAdjacentEdges(v)

insertEdge(f) == Restrict(f.edge, {e \in DOMAIN f.edge : e[1] \in 0..(f.size - 1)
                                                      /\ e[2] \in 0..(f.size - 1)})

\* A matrix keeps no zero, and what comes before an unreadable entry only.
insertEntries(f) ==
    Restrict(insertEdge(f),
             {e \in DOMAIN f.edge : f.edge[e] # 0 /\ e[1] * f.size + e[2] < f.entries})

\* Only such a file is loaded with success.
Whole(f) == f.header /\ (f.type = "L" \/ (f.type = "M" /\ f.entries = f.size * f.size))

\* LOAD: the old graph goes once the header is read, so a file of another
\* type leaves none, and a matrix that breaks off leaves its first entries.
LOAD == \E f \in Files :
    \* bound: a run loads, then asks; a second LOAD is one that fails
    /\ out.cmd = "" \/ (out.cmd = "LOAD" /\ ~Whole(f))
    /\ graph' = CASE ~f.header      -> graph
                  [] f.type = "?"   -> NULL
                  [] f.type = "L"   -> [size |-> f.size, edge |-> insertEdge(f)]
                  [] OTHER          -> [size |-> f.size, edge |-> insertEntries(f)]
    /\ Answer("LOAD", "", 0, Whole(f), <<>>)

PRINT == /\ Answer("PRINT", "", 0, graph # NULL, graph.edge)
         /\ UNCHANGED graph

-----------------------------------------------------------------------------
(* Traversals. In BFS the queue is the tail of the order visited so far.   *)

RECURSIVE BFSFrom(_, _, _)
BFSFrom(opt, order, k) ==
    IF k > Len(order) THEN order
    ELSE BFSFrom(opt,
                 order \o Ascending(DOMAIN Adjacent(opt, order[k]) \ Range(order)),
                 k + 1)

BFS == \E opt \in Option, v \in Arg :
    /\ IF v \in V THEN Answer("BFS", opt, v, TRUE, BFSFrom(opt, <<v>>, 1))
                  ELSE Answer("BFS", opt, v, FALSE, <<>>)
    /\ UNCHANGED graph

\* The neighbours that were new when v was entered are all entered, even
\* those a deeper call has visited in the meantime.
RECURSIVE dfsUnchecked(_, _, _)
dfsUnchecked(opt, v, order) ==
    FoldLeft(LAMBDA seen, n : IF n \in Range(order) \cup {v} THEN seen
                                                   ELSE dfsUnchecked(opt, n, seen),
             Append(order, v), Ascending(DOMAIN Adjacent(opt, v)))

RECURSIVE dfsRecursive(_, _, _)
dfsRecursive(opt, v, order) ==
    FoldLeft(LAMBDA seen, n : IF n \in Range(seen) THEN seen
                                                   ELSE dfsRecursive(opt, n, seen),
             Append(order, v), Ascending(DOMAIN Adjacent(opt, v)))

DFS == \E opt \in Option, v \in Arg :
    /\ IF v \in V THEN Answer("DFS", opt, v, TRUE, dfsRecursive(opt, v, <<>>))
                  ELSE Answer("DFS", opt, v, FALSE, <<>>)
    /\ UNCHANGED graph

-----------------------------------------------------------------------------
(* Kruskal: the lighter edge of each pair, by weight, and a forest kept as *)
(* the parent of every vertex.                                             *)

isConnectedUndirected == Range(BFSFrom("X", <<0>>, 1)) = V

EdgeMap == {[u |-> i, v |-> j, w |-> getAdjacentEdges(i)[j]] :
               <<i, j>> \in {p \in V \X V : p[1] <= p[2] /\ p[2] \in DOMAIN getAdjacentEdges(p[1])}}

\* The edges as the map holds them, never sorted.
UnsortedEdges ==
    SetToSortSeq(EdgeMap, LAMBDA a, b : Lexical(<<a.u, a.v>>, <<b.u, b.v>>))

\* std::sort over the at most 16 edges of a small map is an insertion sort:
\* equal weights keep the order of the map.
SortedEdges ==
    SetToSortSeq(EdgeMap, LAMBDA a, b : Lexical(<<a.w, a.u, a.v>>, <<b.w, b.u, b.v>>))

RECURSIVE findParent(_, _)
findParent(parent, x) == IF parent[x] = x THEN x ELSE findParent(parent, parent[x])

unionParent(parent, a, b) == [parent EXCEPT ![Max({a, b})] = Min({a, b})]

MST == FoldLeft(LAMBDA t, e :
                    LET pu == findParent(t.parent, e.u)
                        pv == findParent(t.parent, e.v)
                    IN IF pu = pv \/ Cardinality(t.tree) = graph.size - 1 THEN t
                       ELSE [parent |-> unionParent(t.parent, pu, pv),
                             tree |-> t.tree \cup {e}],
                [parent |-> [x \in V |-> x], tree |-> {}], SortedEdges)

KRUSKAL ==
    /\ IF graph # NULL /\ isConnectedUndirected
       THEN Answer("KRUSKAL", "", 0, TRUE, MST.tree)
       ELSE Answer("KRUSKAL", "", 0, FALSE, {})
    /\ UNCHANGED graph

-----------------------------------------------------------------------------
(* Shortest paths. A row of distances and predecessors, -1 for none.       *)

hasNegativeEdge == \E e \in DOMAIN graph.edge : graph.edge[e] < 0

Start(s) == [dist |-> [v \in V |-> IF v = s THEN 0 ELSE INF],
             prev |-> [v \in V |-> -1]]

\* A vertex that has a distance is never given a better one.
RelaxOnce(r, u, v, w) ==
    IF r.dist[u] # INF /\ r.dist[v] = INF
    THEN [dist |-> [r.dist EXCEPT ![v] = r.dist[u] + w],
          prev |-> [r.prev EXCEPT ![v] = u]]
    ELSE r

\* One relaxation of the edge from u to v of weight w.
Relax(r, u, v, w) ==
    IF r.dist[u] # INF /\ r.dist[u] + w < r.dist[v]
    THEN [dist |-> [r.dist EXCEPT ![v] = r.dist[u] + w],
          prev |-> [r.prev EXCEPT ![v] = u]]
    ELSE r

\* The first of the nearest vertices not selected yet.
Nearest(r, selected) ==
    LET near == {v \in V \ selected : r.dist[v] # INF}
    IN Min({v \in near : \A u \in near : r.dist[v] <= r.dist[u]})

RECURSIVE Select(_, _, _)
Select(opt, r, selected) ==
    IF \A v \in V \ selected : r.dist[v] = INF THEN r
    ELSE LET u == Nearest(r, selected)
             adj == Adjacent(opt, u)
         IN Select(opt, FoldLeft(LAMBDA x, v : Relax(x, u, v, adj[v]),
                                 r, Ascending(DOMAIN adj)),
                   selected \cup {u})

\* The vertices a row's predecessors lead through, from the start to v.
RECURSIVE PathTo(_, _)
PathTo(r, v) == IF v = -1 THEN <<>> ELSE Append(PathTo(r, r.prev[v]), v)

Line(r, v) == IF r.dist[v] = INF THEN [path |-> <<>>, cost |-> INF]
                                 ELSE [path |-> PathTo(r, v), cost |-> r.dist[v]]

DIJKSTRA == \E opt \in Option, s \in Arg :
    /\ IF s \in V /\ ~hasNegativeEdge
       THEN LET r == Select(opt, Start(s), {})
            IN Answer("DIJKSTRA", opt, s, TRUE, [v \in V |-> Line(r, v)])
       ELSE Answer("DIJKSTRA", opt, s, FALSE, <<>>)
    /\ UNCHANGED graph

\* The edge list of Bellman-Ford: by vertex, then by neighbour.
EdgeList(opt) ==
    FlattenSeq([k \in 1..graph.size |->
        LET adj == Adjacent(opt, k - 1)
            to == Ascending(DOMAIN adj)
        IN [j \in DOMAIN to |-> <<k - 1, to[j], adj[to[j]]>>]])

Round(edges, r) == FoldLeft(LAMBDA x, e : Relax(x, e[1], e[2], e[3]), r, edges)

\* size - 1 rounds; a round that changes nothing ends them early.
RECURSIVE Rounds(_, _, _)
Rounds(edges, r, n) ==
    IF n = 0 THEN r
    ELSE LET next == Round(edges, r) IN IF next = r THEN r ELSE Rounds(edges, next, n - 1)

BELLMANFORD == \E opt \in Option :
  LET edges == EdgeList(opt) IN
  \E s \in Arg :
    LET r == Rounds(edges, Start(s), graph.size - 1)
        cycle == Round(edges, r) # r     \* one more improvement: a negative cycle
    IN /\ \E t \in Arg :
             IF {s, t} \subseteq V /\ ~cycle
             THEN Answer("BELLMANFORD", opt, s, TRUE, t :> Line(r, t))
             ELSE Answer("BELLMANFORD", opt, s, FALSE, t :> <<>>)
       /\ UNCHANGED graph

-----------------------------------------------------------------------------
(* Floyd-Warshall in place over the matrix, and closeness centrality.      *)

FloydStart(opt) ==
    LET adj == [v \in V |-> Adjacent(opt, v)]
        Edge(u, v) == IF v \in DOMAIN adj[u] THEN {adj[u][v]} ELSE {}
    IN [p \in V \X V |-> Min({IF p[1] = p[2] THEN 0 ELSE INF} \cup Edge(p[1], p[2]))]

\* Every <<k, i, j>> in the order of the three loops.
Triples == LET n == graph.size
           IN [x \in 1..(n * n * n) |->
                 <<(x - 1) \div (n * n), ((x - 1) \div n) % n, (x - 1) % n>>]

buildFloydMatrix(opt) ==
    FoldLeft(LAMBDA d, t :
                 LET ik == d[<<t[2], t[1]>>]
                     kj == d[<<t[1], t[3]>>]
                 IN IF ik # INF /\ kj # INF /\ ik + kj < d[<<t[2], t[3]>>]
                    THEN [d EXCEPT ![<<t[2], t[3]>>] = ik + kj] ELSE d,
             FloydStart(opt), Triples)

NoCycle(d) == \A v \in V : d[<<v, v>>] >= 0

FLOYD == \E opt \in Option :
    LET d == buildFloydMatrix(opt)
    IN /\ IF graph # NULL /\ NoCycle(d) THEN Answer("FLOYD", opt, 0, TRUE, d)
                                        ELSE Answer("FLOYD", opt, 0, FALSE, <<>>)
       /\ UNCHANGED graph

\* The sum of a vertex's distances, 0 when it has none to give.
Denominator(d, v) ==
    IF \E u \in V : d[<<u, v>>] = INF THEN 0
    ELSE FoldLeft(LAMBDA sum, u : sum + d[<<u, v>>], 0, Ascending(V \ {v}))

Centrality ==
    LET d == buildFloydMatrix("X")
    IN /\ IF graph # NULL /\ NoCycle(d)
          THEN Answer("CENTRALITY", "X", 0, TRUE, [v \in V |-> Denominator(d, v)])
          ELSE Answer("CENTRALITY", "X", 0, FALSE, <<>>)
       /\ UNCHANGED graph

\* EXIT ends the run; so does the end of the command file.
EXIT == Answer("EXIT", "", 0, TRUE, <<>>) /\ UNCHANGED graph

Asks(command) == out.cmd \in {"", "LOAD"} /\ command      \* bound, see LOAD

Next == \/ LOAD
        \/ Asks(PRINT) \/ Asks(BFS) \/ Asks(DFS) \/ Asks(KRUSKAL) \/ Asks(DIJKSTRA)
        \/ Asks(BELLMANFORD) \/ Asks(FLOYD) \/ Asks(Centrality) \/ Asks(EXIT)

Spec == Init /\ [][Next]_<<graph, out>>

-----------------------------------------------------------------------------
(* What the answers should be, from the graph alone.                       *)

\* Every sequence of distinct vertices.
Walks == UNION {{p \in [1..n -> V] : IsInjective(p)} : n \in 1..graph.size}

\* The edges that lead from u to v, either way round without directions.
Between(opt, u, v) ==
    (IF opt = "O" THEN {<<u, v>>} ELSE {<<u, v>>, <<v, u>>}) \cap DOMAIN graph.edge

Is(opt, p) == \A i \in 1..(Len(p) - 1) : Between(opt, p[i], p[i + 1]) # {}

Cost(opt, p) ==
    FoldLeft(LAMBDA sum, i : sum + Min({graph.edge[e] : e \in Between(opt, p[i], p[i + 1])}),
             0, [i \in 1..(Len(p) - 1) |-> i])

Reach(opt, s) == {p[Len(p)] : p \in {q \in Walks : q[1] = s /\ Is(opt, q)}}

Least(opt, s, t) ==
    Min({INF} \cup {Cost(opt, p) :
                      p \in {q \in Walks : q[1] = s /\ q[Len(q)] = t /\ Is(opt, q)}})

NegativeCycle(opt, S) ==
    \E p \in Walks : LET c == Append(p, p[1])
                     IN p[1] \in S /\ Is(opt, c) /\ Cost(opt, c) < 0

\* BFS and DFS visit what the start reaches, each vertex once. BFS visits
\* nearer vertices (in hops) first, and when DFS visits a vertex, an edge
\* leads to it from the deepest visited vertex that has a new neighbour.
TraversalsReach ==
    out.cmd \in {"BFS", "DFS"} /\ out.ok =>
        LET o == out.res
            NewAt(k, i) == {v \in V : Between(out.opt, o[i], v) # {}}
                               \ {o[j] : j \in 1..(k - 1)}
            Hops(v) == Min({Len(p) : p \in {q \in Walks : q[1] = out.s /\ q[Len(q)] = v
                                                          /\ Is(out.opt, q)}})
        IN /\ IsInjective(o)
           /\ Range(o) = Reach(out.opt, out.s)
           /\ out.cmd = "BFS" => \A i, j \in DOMAIN o : i < j => Hops(o[i]) <= Hops(o[j])
           /\ out.cmd = "DFS" =>
                \A k \in 2..Len(o) :
                   LET open == {i \in 1..(k - 1) : NewAt(k, i) # {}}
                   IN open # {} /\ o[k] = Min(NewAt(k, Max(open)))

\* KRUSKAL refuses exactly the graphs that no tree spans, and its tree is a
\* spanning tree than which there is no cheaper.
TreeCheapest ==
    out.cmd = "KRUSKAL" /\ graph # NULL =>
        LET Weight(T) == FoldLeft(LAMBDA sum, e : sum + e.w, 0, SetToSeq(T))
            Joins(T) == \A S \in SUBSET V \ {{}, V} :
                           \E e \in T : (e.u \in S) # (e.v \in S)
            pairs == {[u |-> p[1], v |-> p[2], w |-> Cost("X", p)] :
                         p \in {q \in Walks : Len(q) = 2 /\ q[1] < q[2] /\ Is("X", q)}}
            trees == {T \in kSubset(graph.size - 1, pairs) : Joins(T)}
        IN /\ out.ok <=> trees # {}
           /\ out.ok => /\ out.res \in trees
                        /\ \A T \in trees : Weight(out.res) <= Weight(T)

\* DIJKSTRA, BELLMANFORD and FLOYD answer with the least cost of a path and
\* (the first two) with a path of that cost. Asked for vertices of the graph
\* they refuse it exactly for a negative edge, a negative cycle the start
\* reaches, and any negative cycle, in this order (and CENTRALITY as FLOYD).
PathsShortest ==
    /\ out.cmd \in {"DIJKSTRA", "BELLMANFORD"} /\ out.ok =>
          \A v \in DOMAIN out.res :
             LET line == out.res[v] IN
             /\ line.cost = Least(out.opt, out.s, v)
             /\ line.path # <<>> => /\ line.path[1] = out.s
                                    /\ line.path[Len(line.path)] = v
                                    /\ Is(out.opt, line.path)
                                    /\ Cost(out.opt, line.path) = line.cost
    /\ out.cmd = "FLOYD" /\ out.ok =>
          \A p \in V \X V : out.res[p] = Least(out.opt, p[1], p[2])
    /\ out.cmd \in {"FLOYD", "CENTRALITY"} /\ graph # NULL =>
          (out.ok <=> ~NegativeCycle(out.opt, V))
    /\ out.cmd = "BELLMANFORD" /\ {out.s} \cup DOMAIN out.res \subseteq V =>
          (out.ok <=> ~NegativeCycle(out.opt, Reach(out.opt, out.s)))
    /\ out.cmd = "DIJKSTRA" /\ out.s \in V =>
          (out.ok <=> \A e \in DOMAIN graph.edge : graph.edge[e] >= 0)
=============================================================================
