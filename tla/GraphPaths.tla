------------------------------ MODULE GraphPaths ------------------------------
(***************************************************************************)
(* A waypoint graph of gsc_graph.cpp: what scripts do to build and change  *)
(* it, the A* search of graphFindPath, the shortest path trees that        *)
(* graphPrecomputePathsToNode caches, and the file of graphSave/graphLoad. *)
(*                                                                         *)
(* All of it runs on the game thread.  A search and the building of a tree *)
(* are one script call each; they are cut into one step per element taken  *)
(* from the heap, and nothing else happens until the call returns.         *)
(*                                                                         *)
(* Nodes are numbered from 1; they stand on a line, so that distances are  *)
(* whole numbers.  A type is a set of bits.  The heap is a set: it hands   *)
(* out a smallest entry, and which one of several is left open.            *)
(***************************************************************************)
EXTENDS Integers, Sequences, FiniteSets, Functions

CONSTANTS
    MaxNodes,    \* sv_graphMaxNodes
    MaxCaches,   \* how many trees are kept: 8
    IdRange,     \* searchId is counted modulo this: 2^32
    Origins,     \* where nodes may be put
    Types,       \* types given to nodes and edges: sets of bits
    Costs,       \* costs given to edges
    Files,       \* what graphSave may have left on the disk before
    Queries,     \* the arguments of graphFindPath, see Query below
    MaxEdits,    \* bound: changes of the graph
    MaxTrees,    \* bound: trees computed
    MaxSearches  \* bound: paths asked for

FltMax == 1000  \* FLT_MAX: farther than any path is long

(* A query: start and goal, skip (the nodes of the per-call list), nodeMask *)
(* and edgeMask, the bits to avoid, budget (maxExpansions, 0 for none), and *)
(* what the server's dvars say at that moment: ceiling                      *)
(* (sv_graphAstarMaxIterations) and weight (sv_graphAstarWeight).           *)
(* skipless: no skip list was passed, not even an empty one.                *)

ASSUME GraphAssumption ==
    /\ MaxNodes \in Nat /\ MaxCaches \in Nat \ {0} /\ IdRange \in Nat \ {0, 1}
    /\ Costs \subseteq Nat /\ Origins \subseteq Int /\ {} \in Types

ASSUME QueryAssumption ==
    \A q \in Queries : /\ q.weight \in Nat \ {0} /\ q.budget \in Nat /\ q.ceiling \in Nat
                       /\ q.skipless => q.skip = {}

\* What graphSave writes: the tables of a graph and the number of its edges.
ASSUME FileAssumption ==
    \A f \in Files :
        /\ f.nodes \in Seq([origin : Int, type : Types, removed : BOOLEAN])
        /\ f.edges \in [DOMAIN f.edges -> [type : Types, cost : Nat]]
        /\ f.edgeCount = Cardinality(DOMAIN f.edges)
        /\ DOMAIN f.edges \subseteq (DOMAIN f.nodes) \X (DOMAIN f.nodes)

VARIABLES
    graph,    \* nodes, edges, edgeCount and persist; NoGraph when there is none
    caches,   \* precomputes, the oldest first
    scratch,  \* GraphScratch: stamps, scores and parents of earlier searches
    job,      \* the search or tree in progress, or Idle
    answer,   \* what graphFindPath returned, until the next call
    file,     \* the graph file, or NoFile
    edits, trees, searches  \* counted for the bounds

counters == <<edits, trees, searches>>
vars == <<graph, caches, scratch, job, answer, file, edits, trees, searches>>

NoGraph == [none |-> "graph"]
NoFile == [none |-> "file"]
NoAnswer == [none |-> "answer"]
Idle == [op |-> "idle"]

Ids(g) == DOMAIN g.nodes
Live(g, n) == n \in Ids(g) /\ ~g.nodes[n].removed
Distance(g, a, b) == LET d == g.nodes[a].origin - g.nodes[b].origin
                     IN  IF d < 0 THEN -d ELSE d
Meets(type, mask) == type \cap mask # {}
Over(new, old) == [x \in DOMAIN new \cup DOMAIN old |->
                     IF x \in DOMAIN new THEN new[x] ELSE old[x]]
Touching(g, n) == {e \in DOMAIN g.edges : n \in {e[1], e[2]}}

NoScratch == [id |-> 0, size |-> 0, g |-> <<>>, f |-> <<>>, parent |-> <<>>,
              stamp |-> <<>>, closed |-> <<>>]

Init == /\ graph = NoGraph
        /\ caches = <<>>
        /\ scratch = NoScratch
        /\ job = Idle
        /\ answer = NoAnswer
        /\ file \in Files \cup {NoFile}
        /\ edits = 0 /\ trees = 0 /\ searches = 0

-----------------------------------------------------------------------------
(* Building and changing a graph *)

Ready == job = Idle /\ graph # NoGraph

\* Every change of a graph drops every tree: graphInvalidatePrecompute.
Changed(g) ==
    /\ edits < MaxEdits
    /\ edits' = edits + 1
    /\ graph' = g
    /\ caches' = <<>>
    /\ answer' = NoAnswer
    /\ UNCHANGED <<scratch, job, file, trees, searches>>

Node(origin, type) == [origin |-> origin, type |-> type, removed |-> FALSE]

AddNode(origin, type) ==
    /\ Ready
    /\ Len(graph.nodes) < MaxNodes
    /\ Changed([graph EXCEPT !.nodes = Append(@, Node(origin, type))])

\* g with the edges of new, which it did not have.
WithEdges(g, new) == [g EXCEPT !.edges = Over(new, @),
                               !.edgeCount = @ + Cardinality(DOMAIN new)]

\* Without a cost an edge costs its length.
AddEdge(a, b, type, cost) ==
    /\ Ready
    /\ a # b /\ Live(graph, a) /\ Live(graph, b)
    /\ <<a, b>> \notin DOMAIN graph.edges
    /\ Changed(WithEdges(graph, [e \in {<<a, b>>} |-> [type |-> type, cost |-> cost]]))

SetEdgeCost(e, cost) == /\ Ready
                        /\ e \in DOMAIN graph.edges
                        /\ Changed([graph EXCEPT !.edges[e].cost = cost])

SetEdgeType(e, type) == /\ Ready
                        /\ e \in DOMAIN graph.edges
                        /\ Changed([graph EXCEPT !.edges[e].type = type])

RemoveEdge(e) ==
    /\ Ready
    /\ e \in DOMAIN graph.edges
    /\ Changed([graph EXCEPT !.edges = Restrict(@, DOMAIN @ \ {e}), !.edgeCount = @ - 1])

MutantSetNodeType(n, type) ==  \* trees are kept: only edges seem to matter
    /\ Ready
    /\ Live(graph, n) /\ edits < MaxEdits
    /\ graph' = [graph EXCEPT !.nodes[n].type = type]
    /\ edits' = edits + 1 /\ answer' = NoAnswer
    /\ UNCHANGED <<caches, scratch, job, file, trees, searches>>
SetNodeType(n, type) == /\ Ready
                        /\ Live(graph, n)
                        /\ Changed([graph EXCEPT !.nodes[n].type = type])

\* Every edge of a node that is moved costs its length again.
SetNodeOrigin(n, origin) ==
    LET moved == [graph EXCEPT !.nodes[n].origin = origin]
    IN  /\ Ready
        /\ Live(graph, n)
        /\ Changed([moved EXCEPT !.edges =
                        [e \in DOMAIN @ |->
                            IF e \in Touching(graph, n)
                            THEN [@[e] EXCEPT !.cost = Distance(moved, e[1], e[2])]
                            ELSE @[e]]])

\* The node stays as a tombstone, so that the others keep their numbers.
MutantWithoutNode(g, n) ==  \* the edges that leave it are not counted off
    [g EXCEPT !.nodes[n].removed = TRUE,
              !.edges = Restrict(@, DOMAIN @ \ Touching(g, n)),
              !.edgeCount = @ - Cardinality({e \in Touching(g, n) : e[2] = n})]
WithoutNode(g, n) == [g EXCEPT !.nodes[n].removed = TRUE,
                               !.edges = Restrict(@, DOMAIN @ \ Touching(g, n)),
                               !.edgeCount = @ - Cardinality(Touching(g, n))]
RemoveNode(n) == /\ Ready
                 /\ Live(graph, n)
                 /\ Changed(WithoutNode(graph, n))

\* graphAutodiscover from one seed: the first node is added before any cap is
\* looked at, further ones while there is room, each linked with its neighbour: a chain
\* both ways, as where walking alone discovers.
Discover(origins) ==
    LET first == Len(graph.nodes) + 1
        grown == [graph EXCEPT !.nodes =
                    @ \o [i \in DOMAIN origins |-> Node(origins[i], {})]]
        links == UNION {{<<n, n + 1>>, <<n + 1, n>>} :
                        n \in first .. (first + Len(origins) - 2)}
    IN  /\ Ready
        /\ Len(origins) > 1 => Len(grown.nodes) <= MaxNodes
        /\ Changed(WithEdges(grown, [e \in links |->
                        [type |-> {}, cost |-> Distance(grown, e[1], e[2])]]))

Edit == \/ \E origin \in Origins, type \in Types : AddNode(origin, type)
        \/ /\ graph # NoGraph
           /\ \E n \in Ids(graph) :
                \/ \E type \in Types : SetNodeType(n, type)
                \/ \E origin \in Origins : SetNodeOrigin(n, origin)
                \/ RemoveNode(n)
                \/ \E m \in Ids(graph), type \in Types :
                     \E cost \in Costs \cup {Distance(graph, n, m)} :
                       AddEdge(n, m, type, cost)
        \/ /\ graph # NoGraph
           /\ \E e \in DOMAIN graph.edges :
                \/ \E cost \in Costs : SetEdgeCost(e, cost)
                \/ \E type \in Types : SetEdgeType(e, type)
                \/ RemoveEdge(e)
        \/ \E a, b \in Origins : Discover(<<a>>) \/ Discover(<<a, b>>)

-----------------------------------------------------------------------------
(* The life of a graph *)

\* A graph with nothing searched in it yet.
Fresh(g) == /\ job = Idle
            /\ graph = NoGraph
            /\ graph' = g
            /\ UNCHANGED <<caches, scratch, job, answer, file, counters>>

Create(persist) ==
    Fresh([nodes |-> <<>>, edges |-> <<>>, edgeCount |-> 0, persist |-> persist])

\* What a file is checked for; its size is told by its two counts.
Loadable(f) ==
    /\ f # NoFile
    /\ Len(f.nodes) <= MaxNodes
    /\ f.edgeCount = Cardinality(DOMAIN f.edges)
    /\ \A e \in DOMAIN f.edges : Live(f, e[1]) /\ Live(f, e[2])

Load(persist) == /\ Loadable(file)
                 /\ Fresh([nodes |-> file.nodes, edges |-> file.edges,
                           edgeCount |-> file.edgeCount, persist |-> persist])

Save == /\ Ready
        /\ file' = [nodes |-> graph.nodes, edges |-> graph.edges,
                    edgeCount |-> graph.edgeCount]
        /\ UNCHANGED <<graph, caches, scratch, job, answer, counters>>

Erased == /\ graph' = NoGraph
          /\ caches' = <<>>
          /\ scratch' = NoScratch
          /\ answer' = NoAnswer
          /\ UNCHANGED <<job, file, counters>>

Remove == Ready /\ Erased

\* gsc_graph_cleanup_on_spawn_server
SpawnServer == Ready /\ ~graph.persist /\ Erased

-----------------------------------------------------------------------------
(* graphPrecomputePathsToNode: Dijkstra from the goal, against the edges *)

Smallest(heap) == {x \in heap : \A y \in heap : x.f <= y.f}

SameTree(t, q) == /\ t.goal = q.goal
                  /\ t.nodeMask = q.nodeMask
                  /\ t.edgeMask = q.edgeMask
\* The index of the first tree that fits, if there is one.
FindPrecompute(q) == {i \in DOMAIN caches :
                        /\ SameTree(caches[i], q)
                        /\ \A j \in 1 .. i - 1 : ~SameTree(caches[j], q)}

PrecomputePathsToNode(q) ==
    /\ Ready
    /\ trees < MaxTrees
    /\ Live(graph, q.goal)
    /\ trees' = trees + 1
    /\ answer' = NoAnswer
    /\ job' = [op |-> "tree",
               tree |-> [goal |-> q.goal, nodeMask |-> q.nodeMask, edgeMask |-> q.edgeMask,
                         cost |-> [n \in Ids(graph) |-> IF n = q.goal THEN 0 ELSE FltMax],
                         next |-> [n \in Ids(graph) |-> 0]],
               heap |-> {[f |-> 0, node |-> q.goal]},
               settled |-> {}]
    /\ UNCHANGED <<graph, caches, scratch, file, edits, searches>>

\* The predecessors that reach the goal cheaper by way of n.
Improved(t, n) ==
    {m \in Ids(graph) :
        /\ <<m, n>> \in DOMAIN graph.edges
        /\ ~Meets(graph.edges[<<m, n>>].type, t.edgeMask)
        /\ t.cost[n] + graph.edges[<<m, n>>].cost < t.cost[m]}
CostBy(t, n, m) == t.cost[n] + graph.edges[<<m, n>>].cost

\* A node of a skipped type keeps its cost, but nothing is led through it.
Settle(x) ==
    LET t == job.tree
        n == x.node
        stale == n \in job.settled \/ x.f # t.cost[n]
        better == IF stale \/ Meets(graph.nodes[n].type, t.nodeMask) THEN {}
                  ELSE Improved(t, n)
    IN  /\ job.op = "tree"
        /\ job' = [job EXCEPT
                     !.heap = (@ \ {x}) \cup
                              {[f |-> CostBy(t, n, m), node |-> m] : m \in better},
                     !.settled = IF stale THEN @ ELSE @ \cup {n},
                     !.tree = [t EXCEPT !.cost = Over([m \in better |-> CostBy(t, n, m)], @),
                                        !.next = Over([m \in better |-> n], @)]]
        /\ UNCHANGED <<graph, caches, scratch, answer, file, counters>>

\* A tree takes the place of one with its goal and masks, or of the oldest.
Store ==
    LET t == job.tree
        full == Len(caches) >= MaxCaches
    IN  /\ job.op = "tree"
        /\ job.heap = {}
        /\ caches' = IF FindPrecompute(t) # {}
                     THEN [i \in DOMAIN caches |->
                             IF SameTree(caches[i], t) THEN t ELSE caches[i]]
                     ELSE Append(IF full THEN Tail(caches) ELSE caches, t)
        /\ job' = Idle
        /\ UNCHANGED <<graph, scratch, answer, file, counters>>

-----------------------------------------------------------------------------
(* graphFindPath *)

\* scratchBegin: nothing is cleared, a new searchId makes the old stamps void.
MutantBegun(s) ==  \* the stamps are not reset when the counter wraps around
    LET size == IF s.size < Len(graph.nodes) THEN Len(graph.nodes) ELSE s.size
        grown(f) == [n \in 1 .. size |-> IF n \in DOMAIN f THEN f[n] ELSE 0]
    IN  [id |-> (s.id + 1) % IdRange, size |-> size,
         g |-> grown(s.g), f |-> grown(s.f), parent |-> grown(s.parent),
         stamp |-> grown(s.stamp), closed |-> grown(s.closed)]
Begun(s) ==
    LET size == IF s.size < Len(graph.nodes) THEN Len(graph.nodes) ELSE s.size
        grown(f) == [n \in 1 .. size |-> IF n \in DOMAIN f THEN f[n] ELSE 0]
        id == (s.id + 1) % IdRange
        stamps(f) == IF id = 0 THEN [n \in 1 .. size |-> 0] ELSE grown(f)
    IN  [id |-> IF id = 0 THEN 1 ELSE id, size |-> size,
         g |-> grown(s.g), f |-> grown(s.f), parent |-> grown(s.parent),
         stamp |-> stamps(s.stamp), closed |-> stamps(s.closed)]

\* graphMarkSkippedNodes
Marked(s, skip) ==
    [s EXCEPT !.closed = [n \in DOMAIN @ |->
                            IF n \in skip \cap Ids(graph) THEN s.id ELSE @[n]]]

\* The fewer of the caller's and the server's limit; 0 is no limit.
Limit(q) == IF q.ceiling > 0 /\ (q.budget = 0 \/ q.budget > q.ceiling)
            THEN q.ceiling ELSE q.budget

Answered(q, path, cached) ==
    answer' = [q |-> q, path |-> path, cached |-> cached]

\* When a tree may stand in for the search.
CacheAnswers(q) ==
    /\ q.skipless
    /\ q.budget = 0
    /\ q.weight <= 1
    /\ ~Meets(graph.nodes[q.goal].type, q.nodeMask)
    /\ \E i \in FindPrecompute(q) : caches[i].cost[q.start] < FltMax

\* The nodes from n to where the links end, at most size + 1 of them.
Walk(g, n, link, end) ==
    LET size == Len(g.nodes)
        walk[k \in 0 .. size] ==
            IF k = 0 THEN <<n>>
            ELSE LET w == walk[k - 1]
                     last == w[Len(w)]
                 IN  IF last = end \/ link[last] = 0 THEN w ELSE Append(w, link[last])
    IN  walk[size]
Reversed(w) == [i \in DOMAIN w |-> w[Len(w) + 1 - i]]

Called(q) == /\ Ready
             /\ searches < MaxSearches
             /\ Live(graph, q.start) /\ Live(graph, q.goal)
             /\ searches' = searches + 1
             /\ UNCHANGED <<graph, caches, file, edits, trees>>

FromCache(q) == /\ Called(q)
                /\ CacheAnswers(q)
                /\ \E i \in FindPrecompute(q) :
                     Answered(q, Walk(graph, q.start, caches[i].next, q.goal), TRUE)
                /\ UNCHANGED <<scratch, job>>

AtGoal(q) == /\ Called(q)
             /\ ~CacheAnswers(q)
             /\ q.start = q.goal
             /\ scratch' = Marked(Begun(scratch), q.skip)
             /\ Answered(q, <<q.start>>, FALSE)
             /\ UNCHANGED job

Begin(q) ==
    LET s == Marked(Begun(scratch), q.skip)
        h == Distance(graph, q.start, q.goal)
    IN  /\ Called(q)
        /\ ~CacheAnswers(q)
        /\ q.start # q.goal
        /\ scratch' = [s EXCEPT !.g[q.start] = 0, !.f[q.start] = h * q.weight,
                                !.parent[q.start] = q.start, !.stamp[q.start] = s.id]
        /\ job' = [op |-> "search", q |-> q, expansions |-> 0,
                   best |-> q.start, bestH |-> h,
                   heap |-> {[f |-> h * q.weight, node |-> q.start]}]
        /\ answer' = NoAnswer

FindPath(q) == FromCache(q) \/ AtGoal(q) \/ Begin(q)

Closed(s, n) == s.closed[n] = s.id
\* A heap entry that was overtaken by a better one, or whose node is done.
Stale(x) == x.f # scratch.f[x.node] \/ Closed(scratch, x.node)

\* The path that ends the search, read off the parents.
Found(n) == /\ Answered(job.q, Reversed(Walk(graph, n, scratch.parent, job.q.start)), FALSE)
            /\ job' = Idle
            /\ UNCHANGED <<graph, caches, file, counters>>

Skip(x) == /\ Stale(x)
           /\ job' = [job EXCEPT !.heap = @ \ {x}]
           /\ UNCHANGED <<graph, caches, scratch, answer, file, counters>>

Arrive(x) == /\ ~Stale(x)
             /\ x.node = job.q.goal
             /\ Found(x.node)
             /\ UNCHANGED scratch

Expansion(x) == /\ ~Stale(x)
                /\ x.node # job.q.goal

\* The limit is hit: the path to the node that came closest.
GiveUp(x) == /\ Expansion(x)
             /\ Limit(job.q) > 0 /\ job.expansions + 1 >= Limit(job.q)
             /\ scratch' = [scratch EXCEPT !.closed[x.node] = scratch.id]
             /\ Found(job.best)

\* The neighbours that are reached first, or cheaper, by way of n.
Relaxed(n) ==
    {m \in Ids(graph) :
        /\ <<n, m>> \in DOMAIN graph.edges
        /\ ~Meets(graph.edges[<<n, m>>].type, job.q.edgeMask)
        /\ ~Meets(graph.nodes[m].type, job.q.nodeMask)
        /\ ~Closed(scratch, m)
        /\ \/ scratch.stamp[m] # scratch.id
           \/ scratch.g[n] + graph.edges[<<n, m>>].cost < scratch.g[m]}

\* One of the nearest of the nodes that are nearer the goal than the best so far.
Nearer(ms) == LET h(m) == Distance(graph, m, job.q.goal)
              IN  {m \in ms : h(m) < job.bestH /\ \A o \in ms : h(m) <= h(o)}

Expand(x) ==
    LET n == x.node
        ms == Relaxed(n)
        g(m) == scratch.g[n] + graph.edges[<<n, m>>].cost
        f(m) == g(m) + Distance(graph, m, job.q.goal) * job.q.weight
    IN  /\ Expansion(x)
        /\ ~(Limit(job.q) > 0 /\ job.expansions + 1 >= Limit(job.q))
        /\ scratch' = [scratch EXCEPT !.g = Over([m \in ms |-> g(m)], @),
                                      !.f = Over([m \in ms |-> f(m)], @),
                                      !.parent = Over([m \in ms |-> n], @),
                                      !.stamp = Over([m \in ms |-> scratch.id], @),
                                      !.closed[n] = scratch.id]
        /\ \E best \in IF Nearer(ms) = {} THEN {job.best} ELSE Nearer(ms) :
             job' = [job EXCEPT !.heap = (@ \ {x}) \cup {[f |-> f(m), node |-> m] : m \in ms},
                                !.expansions = @ + 1,
                                !.best = best,
                                !.bestH = Distance(graph, best, job.q.goal)]
        /\ UNCHANGED <<graph, caches, answer, file, counters>>

Exhausted == /\ job.heap = {}
             /\ Found(job.best)
             /\ UNCHANGED scratch

SearchStep == /\ job.op = "search"
              /\ \/ \E x \in Smallest(job.heap) : Skip(x) \/ Arrive(x) \/ GiveUp(x) \/ Expand(x)
                 \/ Exhausted
TreeStep == /\ job.op = "tree"
            /\ (\E x \in Smallest(job.heap) : Settle(x)) \/ Store

Next == \/ Edit
        \/ \E persist \in BOOLEAN : Create(persist) \/ Load(persist)
        \/ Save \/ Remove \/ SpawnServer
        \/ \E q \in Queries : PrecomputePathsToNode(q) \/ FindPath(q)
        \/ SearchStep
        \/ TreeStep

Spec == Init /\ [][Next]_vars

-----------------------------------------------------------------------------
(* What is asked for: the definition the answers are held against *)

\* The edges a path may take.
Open(g, q) ==
    {e \in DOMAIN g.edges : /\ ~Meets(g.edges[e].type, q.edgeMask)
                            /\ ~Meets(g.nodes[e[2]].type, q.nodeMask)
                            /\ e[1] \notin q.skip /\ e[2] \notin q.skip}

\* What it costs to come to each node by one edge more than less counts.
Least(S) == CHOOSE c \in S : \A d \in S : c <= d
Further(g, q, less) ==
    [n \in Ids(g) |->
        Least({less[n]} \cup
              {less[e[1]] + g.edges[e].cost : e \in {d \in Open(g, q) : d[2] = n}})]

\* What it costs to come to each node, FltMax where no path leads.
Cheapest(g, q) ==
    LET upTo[k \in 0 .. Len(g.nodes)] ==
            IF k = 0 THEN [n \in Ids(g) |-> IF n = q.start THEN 0 ELSE FltMax]
            ELSE Further(g, q, upTo[k - 1])
    IN  upTo[Len(g.nodes)]

Links(path) == {i \in DOMAIN path : i > 1}
LinkAt(path, i) == <<path[i - 1], path[i]>>
PathCost(g, path) ==
    LET upTo[i \in DOMAIN path] ==
            IF i = 1 THEN 0 ELSE upTo[i - 1] + g.edges[LinkAt(path, i)].cost
    IN  upTo[Len(path)]

\* The straight line is never longer than an edge costs: what A* relies on.
Admissible(g) ==
    \A e \in DOMAIN g.edges : g.edges[e].cost >= Distance(g, e[1], e[2])

-----------------------------------------------------------------------------
(* Properties *)

\* Edges join living nodes, and edgeCount is their number, whatever was added
\* and removed: graphSave sizes its buffer by it and graphLoad refuses a file
\* where it or a removed node's edge is wrong.
EdgesCounted ==
    /\ graph # NoGraph =>
         /\ graph.edgeCount = Cardinality(DOMAIN graph.edges)
         /\ \A e \in DOMAIN graph.edges : Live(graph, e[1]) /\ Live(graph, e[2])
    /\ file # NoFile => file.edgeCount = Cardinality(DOMAIN file.edges)

\* What PathsWalkable says of the answer a.
Walkable(g, a) ==
    /\ a.path[1] = a.q.start
    /\ IsInjective(a.path)
    /\ \A i \in Links(a.path) : LinkAt(a.path, i) \in Open(g, a.q)

\* A path of graphFindPath, searched or cached, starts at the start, takes only
\* edges that exist and that neither masks nor the skip list close, and passes no
\* node twice, whatever was changed since trees and stamps were left behind.
PathsWalkable == answer # NoAnswer => Walkable(graph, answer)

\* What PathsCheapest says of the answer a.
CheapEnough(g, a) ==
    LET end == a.path[Len(a.path)]
        cost == Cheapest(g, a.q)
        near(n) == Distance(g, n, a.q.goal)
    IN  IF cost[a.q.goal] < FltMax
        THEN /\ end = a.q.goal
             /\ a.cached => PathCost(g, a.path) = cost[a.q.goal]
             /\ Admissible(g) => PathCost(g, a.path) <= a.q.weight * cost[a.q.goal]
        ELSE \A n \in Ids(g) : cost[n] < FltMax => near(end) <= near(n)

\* It goes to the goal if there is any way, and is at most weight times as long as
\* the cheapest (a cached one is the cheapest); else it goes to a node that is as
\* close as one can come.  A limit may cut a search short, and costs below the
\* straight line mislead it.
PathsCheapest ==
    answer # NoAnswer /\ (answer.cached \/ Limit(answer.q) = 0) => CheapEnough(graph, answer)

\* added_dvars.md: with sv_graphAstarWeight "1.0 is optimal (default)".
OptimalAtWeightOne ==
    answer # NoAnswer /\ answer.q.weight = 1 /\ Limit(answer.q) = 0 =>
        LET path == answer.path
        IN  path[Len(path)] = answer.q.goal =>
                PathCost(graph, path) = Cheapest(graph, answer.q)[answer.q.goal]

\* added_dvars.md: sv_graphMaxNodes "Caps graphAddNode, graphLoad,
\* graphAutodiscover and graphAutodiscoverEx."
NodesCapped == graph # NoGraph => Len(graph.nodes) <= MaxNodes
===============================================================================
