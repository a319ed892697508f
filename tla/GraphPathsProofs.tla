--------------------------- MODULE GraphPathsProofs ---------------------------
(* GraphPaths for graphs, costs and queries of every size: the edge count stays *)
(* exact, paths can be walked, and they are as cheap as promised.              *)
EXTENDS GraphPaths, FiniteSetTheorems, WellFoundedInduction, TLAPS

NodeRecord == [origin : Int, type : Types, removed : BOOLEAN]
EdgeRecord == [type : Types, cost : Nat]

\* What a graph and a file have in common.
Tables(g) ==
    /\ g.nodes \in Seq(NodeRecord)
    /\ DOMAIN g.edges \subseteq Ids(g) \X Ids(g)
    /\ g.edges \in [DOMAIN g.edges -> EdgeRecord]
    /\ g.edgeCount = Cardinality(DOMAIN g.edges)

Shaped(g) == g = [nodes |-> g.nodes, edges |-> g.edges,
                  edgeCount |-> g.edgeCount, persist |-> g.persist]
Living(g) == \A e \in DOMAIN g.edges : Live(g, e[1]) /\ Live(g, e[2])
GraphOK(g) == Shaped(g) /\ Tables(g) /\ Living(g)

-----------------------------------------------------------------------------
(* Numbers, functions and recursion *)

\* A set of numbers that is not empty has a least one.
LEMMA MinOf ==
  ASSUME NEW T, T \subseteq Nat, NEW x \in T
  PROVE  \E m \in T : \A y \in T : m <= y
  <1> DEFINE R == OpToRel(<, Nat)
  <1>1. IsWellFoundedOn(R, Nat)
    BY NatLessThanWellFounded
  <1>2. \A a, b \in Nat : a < b => <<a, b>> \in R
    BY DEF OpToRel
  <1> HIDE DEF R
  <1>3. PICK m \in T : \A y \in T : ~(<<y, m>> \in R)
    BY <1>1, WFMin
  <1>4. \A y \in T : ~(y < m)
    BY <1>2, <1>3
  <1> QED BY <1>3, <1>4

LEMMA LeastIs ==
  ASSUME NEW T, T \subseteq Nat, NEW x \in T
  PROVE  Least(T) \in T /\ \A y \in T : Least(T) <= y
  BY MinOf DEF Least

LEMMA SetInduction ==
  ASSUME NEW S, 0 \in S, \A n \in Nat : n \in S => n + 1 \in S
  PROVE  \A n \in Nat : n \in S
  <1> SUFFICES ASSUME NEW x \in Nat, x \notin S
               PROVE  FALSE
    OBVIOUS
  <1> DEFINE T == {n \in Nat : n \notin S}
  <1>1. PICK m \in T : \A y \in T : m <= y
    BY MinOf
  <1>2. m # 0 /\ m - 1 \in Nat /\ m - 1 < m /\ (m - 1) + 1 = m
    BY <1>1
  <1>3. m - 1 \notin T
    BY <1>1, <1>2
  <1> QED BY <1>1, <1>2, <1>3

LEMMA OverAt ==
  ASSUME NEW new, NEW old
  PROVE  /\ DOMAIN Over(new, old) = DOMAIN new \cup DOMAIN old
         /\ \A x \in DOMAIN new : Over(new, old)[x] = new[x]
         /\ \A x \in DOMAIN old : x \notin DOMAIN new => Over(new, old)[x] = old[x]
  BY DEF Over

\* f starts with x0 and goes on by the steps.
Iterates(f, a, b, x0, step) ==
    /\ f[a] = x0
    /\ \A k \in a .. b : k # a => f[k] = step[k][f[k - 1]]

\* A recursion along numbers has a solution.
LEMMA Recursion ==
  ASSUME NEW X, NEW x0 \in X, NEW a \in Nat, NEW b \in Nat, a <= b,
         NEW step \in [a .. b -> [X -> X]]
  PROVE  \E f \in [a .. b -> X] : Iterates(f, a, b, x0, step)
  <1> DEFINE N == b - a
  <1>0. N \in Nat /\ a + N = b
    OBVIOUS
  <1> HIDE DEF N
  <1> DEFINE Solves(f, c) == /\ f \in [a .. c -> X]
                             /\ f[a] = x0
                             /\ \A k \in a .. c : k # a => f[k] = step[k][f[k - 1]]
             S == {j \in Nat : j <= N => \E f : Solves(f, a + j)}
  <1>1. 0 \in S
    <2> DEFINE f == [n \in a .. a + 0 |-> x0]
    <2>1. \A n \in a .. a + 0 : n = a
      OBVIOUS
    <2>2. Solves(f, a + 0)
      BY <2>1
    <2> QED BY <2>2
  <1>2. ASSUME NEW j \in Nat, j \in S
        PROVE  j + 1 \in S
    <2> SUFFICES ASSUME j + 1 <= N
                 PROVE  \E f : Solves(f, a + (j + 1))
      OBVIOUS
    <2>1. PICK f : Solves(f, a + j)
      BY <1>0, <1>2
    <2> DEFINE c == a + (j + 1)
               v == step[c][f[a + j]]
               g == [n \in a .. c |-> IF n = c THEN v ELSE f[n]]
    <2>2. /\ c \in a .. b /\ c # a /\ c - 1 = a + j /\ a + j \in a .. a + j
          /\ \A n \in a .. c : n # c => n \in a .. a + j
          /\ \A n \in a .. c : n # a => n - 1 \in a .. c /\ n - 1 # c
          /\ a \in a .. c
      BY <1>0
    <2>3. v \in X
      BY <2>1, <2>2
    <2>4. g \in [a .. c -> X]
      BY <2>1, <2>2, <2>3
    <2>5. g[a] = x0
      BY <2>1, <2>2
    <2>6. ASSUME NEW n \in a .. c, n # a
          PROVE  g[n] = step[n][g[n - 1]]
      <3>1. g[n - 1] = f[n - 1]
        BY <2>2, <2>6
      <3>2. CASE n = c
        BY <2>2, <3>1, <3>2
      <3>3. CASE n # c
        <4>1. f[n] = step[n][f[n - 1]]
          BY <2>1, <2>2, <2>6, <3>3
        <4> QED BY <3>1, <3>3, <4>1
      <3> QED BY <3>2, <3>3
    <2> HIDE DEF g
    <2> QED BY <2>4, <2>5, <2>6
  <1> HIDE DEF S
  <1>3. N \in S
    BY <1>0, <1>1, <1>2, SetInduction
  <1>4. PICK f : Solves(f, b)
    BY <1>0, <1>3 DEF S
  <1> QED BY <1>4 DEF Iterates

\* More places than values: two places have the same.
LEMMA NoLonger ==
  ASSUME NEW N \in Nat, NEW k \in Nat, NEW w \in [1 .. k -> 1 .. N],
         \A i, j \in 1 .. k : i < j => w[i] # w[j]
  PROVE  k <= N
  <1> SUFFICES ASSUME N < k
               PROVE  FALSE
    OBVIOUS
  <1>1. IsFiniteSet(1 .. k) /\ Cardinality(1 .. k) = k
    BY FS_Interval
  <1>2. IsFiniteSet(1 .. N) /\ Cardinality(1 .. N) = N
    BY FS_Interval
  <1>3. PICK x, y \in 1 .. k : x # y /\ w[x] = w[y]
    BY <1>1, <1>2, FS_PigeonHole
  <1>4. x < y \/ y < x
    BY <1>3
  <1> QED BY <1>3, <1>4
-----------------------------------------------------------------------------
(* Walks along links *)

\* From every node of M but where they end the links lead to one of M of a lower
\* rank.
Ranked(M, r, link, end) ==
    /\ r \in [M -> Nat]
    /\ \A m \in M : m # end /\ link[m] # 0 => link[m] \in M /\ r[link[m]] < r[m]

\* w follows the links from n, and the ranks fall along it.
Follows(w, M, r, n, link, end) ==
    /\ w \in Seq(M)
    /\ Len(w) \in Nat \ {0}
    /\ w[1] = n
    /\ \A i \in 2 .. Len(w) : w[i] = link[w[i - 1]] /\ w[i - 1] # end /\ w[i] # 0
    /\ \A i, j \in 1 .. Len(w) : i < j => r[w[j]] < r[w[i]]

Ended(w, link, end) == w[Len(w)] = end \/ link[w[Len(w)]] = 0

LEMMA FollowOn ==
  ASSUME NEW M, 0 \notin M, NEW r, NEW n \in M, NEW link, NEW end, Ranked(M, r, link, end),
         NEW w, Follows(w, M, r, n, link, end), ~Ended(w, link, end)
  PROVE  /\ Follows(Append(w, link[w[Len(w)]]), M, r, n, link, end)
         /\ Len(Append(w, link[w[Len(w)]])) = Len(w) + 1
         /\ link[w[Len(w)]] \in M
  <1> DEFINE k == Len(w)
             x == link[w[k]]
             v == Append(w, x)
  <1>1. k \in Nat \ {0} /\ w \in Seq(M) /\ k \in 1 .. k
    BY DEF Follows
  <1>2. w[k] \in M /\ w[k] # end /\ x # 0
    BY <1>1 DEF Ended
  <1>3. x \in M /\ r[x] < r[w[k]]
    BY <1>2 DEF Ranked
  <1>4. v \in Seq(M) /\ Len(v) = k + 1
    BY <1>1, <1>3
  <1>5. \A i \in 1 .. k : v[i] = w[i]
    BY <1>1, <1>3
  <1>6. v[k + 1] = x
    BY <1>1, <1>3
  <1> HIDE DEF v, x
  <1>7. v[1] = n
    BY <1>1, <1>5 DEF Follows
  <1>8. ASSUME NEW i \in 2 .. Len(v)
        PROVE  v[i] = link[v[i - 1]] /\ v[i - 1] # end /\ v[i] # 0
    <2>1. CASE i = k + 1
      <3>1. i - 1 = k /\ v[i - 1] = w[k]
        BY <1>1, <1>5, <2>1
      <3> QED BY <1>2, <1>6, <2>1, <3>1 DEF x
    <2>2. CASE i # k + 1
      <3>1. i \in 2 .. k /\ i \in 1 .. k /\ i - 1 \in 1 .. k
        BY <1>1, <1>4, <2>2
      <3> QED BY <1>5, <3>1 DEF Follows
    <2> QED BY <2>1, <2>2
  <1>9. \A i \in 1 .. k : w[i] \in M /\ r[w[i]] \in Nat
    BY <1>1 DEF Ranked
  <1>10. r[x] \in Nat
    BY <1>3 DEF Ranked
  <1>11. ASSUME NEW i \in 1 .. Len(v), NEW j \in 1 .. Len(v), i < j
         PROVE  r[v[j]] < r[v[i]]
    <2>1. i \in 1 .. k
      BY <1>1, <1>4, <1>11
    <2>2. CASE j = k + 1
      <3>1. i = k \/ r[w[k]] < r[w[i]]
        BY <1>1, <2>1 DEF Follows
      <3> QED BY <1>1, <1>3, <1>5, <1>6, <1>9, <1>10, <2>1, <2>2, <3>1
    <2>3. CASE j # k + 1
      <3>1. j \in 1 .. k
        BY <1>1, <1>4, <2>3
      <3> QED BY <1>5, <1>11, <2>1, <3>1 DEF Follows
    <2> QED BY <2>2, <2>3
  <1>12. Len(v) \in Nat \ {0}
    BY <1>1, <1>4
  <1>13. Follows(v, M, r, n, link, end)
    BY <1>4, <1>7, <1>8, <1>11, <1>12 DEF Follows
  <1> QED BY <1>3, <1>4, <1>13 DEF v, x

\* Along falling ranks a walk has no node twice, so it is no longer than there are
\* nodes and ends where the links do.
LEMMA WalkIs ==
  ASSUME NEW g, g.nodes \in Seq(NodeRecord), NEW M, M \subseteq Ids(g), NEW r, NEW n \in M,
         NEW link, NEW end, Ranked(M, r, link, end)
  PROVE  LET w == Walk(g, n, link, end)
         IN  Follows(w, M, r, n, link, end) /\ Ended(w, link, end) /\ Len(w) <= Len(g.nodes)
  <1> DEFINE N == Len(g.nodes)
             first == <<n>>
             next(w) == IF w[Len(w)] = end \/ link[w[Len(w)]] = 0
                        THEN w ELSE Append(w, link[w[Len(w)]])
             F(f) == [k \in 0 .. N |->
                        IF k = 0 THEN <<n>>
                        ELSE LET w == f[k - 1]
                                 last == w[Len(w)]
                             IN  IF last = end \/ link[last] = 0
                                 THEN w ELSE Append(w, link[last])]
             walk == CHOOSE f : f = F(f)
             X == {w \in Seq(M) : Follows(w, M, r, n, link, end)}
             step == [k \in 0 .. N |-> [w \in X |-> next(w)]]
  <1>1. N \in Nat /\ Ids(g) = 1 .. N /\ 0 \notin M
    BY DEF Ids
  <1>2. Walk(g, n, link, end) = walk[N]
    BY DEF Walk
  <1>3. first \in X
    BY DEF Follows
  <1>4. ASSUME NEW w \in X
        PROVE  /\ next(w) \in X
               /\ Ended(w, link, end) => next(w) = w
               /\ ~Ended(w, link, end) => Len(next(w)) = Len(w) + 1
    <2>1. Follows(w, M, r, n, link, end)
      OBVIOUS
    <2>2. CASE Ended(w, link, end)
      BY <2>2 DEF Ended
    <2>3. CASE ~Ended(w, link, end)
      <3>1. next(w) = Append(w, link[w[Len(w)]])
        BY <2>3 DEF Ended
      <3>2. Follows(next(w), M, r, n, link, end) /\ Len(next(w)) = Len(w) + 1
        BY <1>1, <2>1, <2>3, <3>1, FollowOn
      <3> QED BY <2>3, <3>2 DEF Follows
    <2> QED BY <2>2, <2>3
  <1> HIDE DEF X, next, first
  <1>5. step \in [0 .. N -> [X -> X]]
    BY <1>4
  <1>51. \A k \in 0 .. N, w \in X : step[k][w] = next(w)
    OBVIOUS
  <1> HIDE DEF step
  <1>52. 0 \in Nat /\ 0 <= N
    BY <1>1
  <1>53. PICK h \in [0 .. N -> X] : Iterates(h, 0, N, first, step)
    BY <1>1, <1>3, <1>5, <1>52, Recursion
  <1>6. h[0] = first /\ \A k \in 0 .. N : k # 0 => h[k] = step[k][h[k - 1]]
    BY <1>53 DEF Iterates
  <1>7. ASSUME NEW k \in 0 .. N, k # 0
        PROVE  h[k] = next(h[k - 1])
    <2>1. k - 1 \in 0 .. N /\ k \in 0 .. N
      BY <1>1, <1>7
    <2>2. h[k - 1] \in X
      BY <1>6, <2>1
    <2>3. h[k] = step[k][h[k - 1]]
      BY <1>6, <1>7, <2>1
    <2> QED BY <1>51, <2>1, <2>2, <2>3
  <1>8. h = F(h)
    <2>1. h \in [0 .. N -> X]
      BY <1>1, <1>6
    <2>2. h = [k \in 0 .. N |-> h[k]]
      BY <2>1
    <2>3. \A k \in 0 .. N : h[k] = IF k = 0 THEN first ELSE next(h[k - 1])
      BY <1>6, <1>7
    <2> QED BY <2>2, <2>3 DEF next, first
  <1>9. walk = F(walk)
    <2> HIDE DEF F
    <2> QED BY <1>8
  <1> HIDE DEF walk
  <1>91. \A k \in 0 .. N : walk[k] = IF k = 0 THEN first ELSE next(walk[k - 1])
    BY <1>9 DEF next, first
  <1>10. walk[0] = first /\ \A k \in 0 .. N : k # 0 => walk[k] = next(walk[k - 1])
    BY <1>1, <1>91
  <1> HIDE DEF F
  <1> DEFINE T == {k \in Nat : k <= N =>
                     /\ walk[k] \in X
                     /\ Len(walk[k]) <= k + 1
                     /\ Ended(walk[k], link, end) \/ Len(walk[k]) = k + 1}
  <1>11. 0 \in T
    <2>1. Len(first) = 1
      BY DEF first
    <2>2. walk[0] \in X /\ Len(walk[0]) = 0 + 1 /\ Len(walk[0]) <= 0 + 1
      BY <1>3, <1>10, <2>1
    <2> QED BY <2>2
  <1>12. ASSUME NEW k \in Nat, k \in T
         PROVE  k + 1 \in T
    <2> SUFFICES ASSUME k + 1 <= N
                 PROVE  /\ walk[k + 1] \in X
                        /\ Len(walk[k + 1]) <= (k + 1) + 1
                        /\ Ended(walk[k + 1], link, end) \/ Len(walk[k + 1]) = (k + 1) + 1
      OBVIOUS
    <2>1. k + 1 \in 0 .. N /\ k + 1 # 0 /\ (k + 1) - 1 = k /\ k <= N
      BY <1>1
    <2>2. walk[k] \in X /\ walk[k + 1] = next(walk[k])
      BY <1>10, <1>12, <2>1
    <2>3. Len(walk[k]) \in Nat
      BY <2>2 DEF X, Follows
    <2>4. CASE Ended(walk[k], link, end)
      BY <1>4, <1>12, <2>1, <2>2, <2>3, <2>4
    <2>5. CASE ~Ended(walk[k], link, end)
      BY <1>4, <1>12, <2>1, <2>2, <2>3, <2>5
    <2> QED BY <2>4, <2>5
  <1>13. N \in T
    <2> HIDE DEF T
    <2> QED BY <1>1, <1>11, <1>12, SetInduction
  <1> DEFINE v == walk[N]
  <1>14. /\ Follows(v, M, r, n, link, end) /\ Len(v) <= N + 1
         /\ Ended(v, link, end) \/ Len(v) = N + 1
    BY <1>1, <1>13 DEF X
  <1> HIDE DEF v
  <1>15. Len(v) <= N
    <2>1. v \in Seq(M) /\ Len(v) \in Nat
      BY <1>14 DEF Follows
    <2>2. v \in [1 .. Len(v) -> 1 .. N]
      BY <1>1, <2>1
    <2>3. \A i \in 1 .. Len(v) : r[v[i]] \in Nat
      BY <2>1 DEF Ranked
    <2>4. \A i, j \in 1 .. Len(v) : i < j => v[i] # v[j]
      BY <1>14, <2>3 DEF Follows
    <2> QED BY <1>1, <2>1, <2>2, <2>4, NoLonger
  <1>16. Len(v) \in Nat
    BY <1>14 DEF Follows
  <1> QED BY <1>1, <1>2, <1>14, <1>15, <1>16 DEF v
-----------------------------------------------------------------------------
(* Costs *)

LEMMA OpenEdge ==
  ASSUME NEW g, Tables(g), NEW q, NEW e \in Open(g, q)
  PROVE  /\ e \in DOMAIN g.edges /\ e[1] \in Ids(g) /\ e[2] \in Ids(g)
         /\ e = <<e[1], e[2]>> /\ g.edges[e].cost \in Nat
  <1>1. e \in DOMAIN g.edges
    BY DEF Open
  <1>2. e \in Ids(g) \X Ids(g)
    BY <1>1 DEF Tables
  <1>3. g.edges[e] \in EdgeRecord
    BY <1>1 DEF Tables
  <1> QED BY <1>1, <1>2, <1>3 DEF EdgeRecord

\* What is less for a node comes by an edge.
Stepped(f, less, g, q) ==
    \A n \in Ids(g) :
        \/ f[n] = less[n]
        \/ \E e \in Open(g, q) : e[2] = n /\ f[n] = less[e[1]] + g.edges[e].cost

\* What one round gives: the least of what was known and what leads there.
LEMMA FurtherIs ==
  ASSUME NEW g, Tables(g), NEW q, NEW less \in [Ids(g) -> Nat]
  PROVE  /\ Further(g, q, less) \in [Ids(g) -> Nat]
         /\ \A n \in Ids(g) : Further(g, q, less)[n] <= less[n]
         /\ \A e \in Open(g, q) : Further(g, q, less)[e[2]] <= less[e[1]] + g.edges[e].cost
         /\ Stepped(Further(g, q, less), less, g, q)
  <1> DEFINE By(n) == {less[e[1]] + g.edges[e].cost : e \in {d \in Open(g, q) : d[2] = n}}
             All(n) == {less[n]} \cup By(n)
  <1>1. Further(g, q, less) = [n \in Ids(g) |-> Least(All(n))]
    BY DEF Further
  <1>2. \A e \in Open(g, q) : /\ e[1] \in Ids(g) /\ e[2] \in Ids(g)
                              /\ less[e[1]] \in Nat /\ g.edges[e].cost \in Nat
    BY OpenEdge
  <1>3. ASSUME NEW n \in Ids(g)
        PROVE  All(n) \subseteq Nat /\ less[n] \in All(n)
    <2>1. ASSUME NEW e \in Open(g, q)
          PROVE  less[e[1]] + g.edges[e].cost \in Nat
      BY <1>2
    <2> QED BY <2>1
  <1>4. \A e \in Open(g, q) : less[e[1]] + g.edges[e].cost \in All(e[2])
    OBVIOUS
  <1>5. \A n \in Ids(g) : \A x \in All(n) :
          \/ x = less[n]
          \/ \E e \in Open(g, q) : e[2] = n /\ x = less[e[1]] + g.edges[e].cost
    OBVIOUS
  <1> HIDE DEF All
  <1>6. \A n \in Ids(g) : Least(All(n)) \in All(n) /\ \A y \in All(n) : Least(All(n)) <= y
    BY <1>3, LeastIs
  <1>7. Further(g, q, less) \in [Ids(g) -> Nat]
    BY <1>1, <1>3, <1>6
  <1>8. \A n \in Ids(g) : Further(g, q, less)[n] <= less[n]
    BY <1>1, <1>3, <1>6
  <1>9. \A e \in Open(g, q) : Further(g, q, less)[e[2]] <= less[e[1]] + g.edges[e].cost
    BY <1>1, <1>2, <1>4, <1>6
  <1>10. Stepped(Further(g, q, less), less, g, q)
    BY <1>1, <1>5, <1>6 DEF Stepped
  <1> QED BY <1>7, <1>8, <1>9, <1>10

Rounds(u, g, q) ==
    /\ u[0] = [n \in Ids(g) |-> IF n = q.start THEN 0 ELSE FltMax]
    /\ \A k \in 1 .. Len(g.nodes) : u[k] = Further(g, q, u[k - 1])

\* The cheapest costs are the last of as many rounds as there are nodes.
LEMMA CheapestIs ==
  ASSUME NEW g, Tables(g), NEW q
  PROVE  \E u \in [0 .. Len(g.nodes) -> [Ids(g) -> Nat]] :
            Rounds(u, g, q) /\ Cheapest(g, q) = u[Len(g.nodes)]
  <1> DEFINE N == Len(g.nodes)
             X == [Ids(g) -> Nat]
             first == [n \in Ids(g) |-> IF n = q.start THEN 0 ELSE FltMax]
             step == [k \in 0 .. N |-> [x \in X |-> Further(g, q, x)]]
             F(f) == [k \in 0 .. N |->
                        IF k = 0 THEN [n \in Ids(g) |-> IF n = q.start THEN 0 ELSE FltMax]
                        ELSE Further(g, q, f[k - 1])]
             upTo == CHOOSE f : f = F(f)
  <1>1. N \in Nat /\ 0 \in Nat /\ 0 <= N
    BY DEF Tables
  <1>2. first \in X
    BY DEF FltMax
  <1>3. \A x \in X : Further(g, q, x) \in X
    BY FurtherIs
  <1>4. Cheapest(g, q) = upTo[N]
    BY DEF Cheapest
  <1> HIDE DEF X
  <1>5. step \in [0 .. N -> [X -> X]]
    BY <1>3
  <1>6. \A k \in 0 .. N, x \in X : step[k][x] = Further(g, q, x)
    OBVIOUS
  <1> HIDE DEF first, step, N
  <1>7. PICK h \in [0 .. N -> X] : Iterates(h, 0, N, first, step)
    BY <1>1, <1>2, <1>5, Recursion
  <1>8. h[0] = first /\ \A k \in 0 .. N : k # 0 => h[k] = step[k][h[k - 1]]
    BY <1>7 DEF Iterates
  <1>9. ASSUME NEW k \in 0 .. N, k # 0
        PROVE  h[k] = Further(g, q, h[k - 1])
    <2>1. k - 1 \in 0 .. N /\ h[k - 1] \in X
      BY <1>1, <1>7, <1>9
    <2> QED BY <1>6, <1>8, <1>9, <2>1
  <1>10. h = F(h)
    <2>1. h = [k \in 0 .. N |-> h[k]]
      BY <1>7
    <2>2. \A k \in 0 .. N : h[k] = IF k = 0 THEN first ELSE Further(g, q, h[k - 1])
      BY <1>8, <1>9
    <2> QED BY <2>1, <2>2 DEF first
  <1>11. upTo = F(upTo)
    <2> HIDE DEF F
    <2> QED BY <1>10
  <1> HIDE DEF upTo
  <1>12. \A k \in 0 .. N : upTo[k] = IF k = 0 THEN first ELSE Further(g, q, upTo[k - 1])
    BY <1>11 DEF first
  <1>13. upTo[0] = first /\ \A k \in 1 .. N : upTo[k] = Further(g, q, upTo[k - 1])
    BY <1>1, <1>12
  <1>14. DOMAIN upTo = 0 .. N /\ upTo = [k \in 0 .. N |-> upTo[k]]
    BY <1>11
  <1> HIDE DEF F
  <1> DEFINE T == {k \in Nat : k <= N => upTo[k] \in X}
  <1>15. 0 \in T
    BY <1>2, <1>13
  <1>16. ASSUME NEW k \in Nat, k \in T
         PROVE  k + 1 \in T
    <2> SUFFICES ASSUME k + 1 <= N
                 PROVE  upTo[k + 1] \in X
      OBVIOUS
    <2>1. k <= N /\ k + 1 \in 1 .. N /\ (k + 1) - 1 = k
      BY <1>1
    <2> QED BY <1>3, <1>13, <1>16, <2>1
  <1>17. \A k \in 0 .. N : upTo[k] \in X
    <2> HIDE DEF T
    <2>1. \A k \in Nat : k \in T
      BY <1>15, <1>16, SetInduction
    <2> QED BY <1>1, <2>1 DEF T
  <1>18. upTo \in [0 .. N -> X]
    BY <1>14, <1>17
  <1>19. Rounds(upTo, g, q)
    BY <1>13 DEF Rounds, first, N
  <1> QED BY <1>4, <1>18, <1>19 DEF X, N

Along(a, g, path) ==
    /\ a[1] = 0
    /\ \A i \in 2 .. Len(path) : a[i] = a[i - 1] + g.edges[LinkAt(path, i)].cost

\* The cost of a path is the last of the costs along it.
LEMMA PathCostIs ==
  ASSUME NEW g, NEW path, Len(path) \in Nat \ {0}, DOMAIN path = 1 .. Len(path),
         \A i \in 2 .. Len(path) : g.edges[LinkAt(path, i)].cost \in Nat
  PROVE  \E a \in [1 .. Len(path) -> Nat] : Along(a, g, path) /\ PathCost(g, path) = a[Len(path)]
  <1> DEFINE N == Len(path)
             C(i) == g.edges[LinkAt(path, i)].cost
             step == [k \in 1 .. N |-> [x \in Nat |-> IF k = 1 THEN 0 ELSE x + C(k)]]
             F(f) == [i \in DOMAIN path |->
                        IF i = 1 THEN 0 ELSE f[i - 1] + g.edges[LinkAt(path, i)].cost]
             upTo == CHOOSE f : f = F(f)
  <1>1. N \in Nat /\ 1 \in Nat /\ 1 <= N /\ 1 \in 1 .. N /\ 0 \in Nat
    OBVIOUS
  <1>2. PathCost(g, path) = upTo[N]
    BY DEF PathCost
  <1>3. \A i \in 1 .. N : i # 1 => C(i) \in Nat
    OBVIOUS
  <1> HIDE DEF C
  <1>5. step \in [1 .. N -> [Nat -> Nat]]
    <2>1. ASSUME NEW k \in 1 .. N, NEW x \in Nat
          PROVE  (IF k = 1 THEN 0 ELSE x + C(k)) \in Nat
      BY <1>3
    <2> QED BY <2>1
  <1>6. \A k \in 1 .. N, x \in Nat : k # 1 => step[k][x] = x + C(k)
    OBVIOUS
  <1> HIDE DEF step
  <1>61. DOMAIN path = 1 .. N
    OBVIOUS
  <1> HIDE DEF N
  <1>7. PICK h \in [1 .. N -> Nat] : Iterates(h, 1, N, 0, step)
    BY <1>1, <1>5, Recursion
  <1>8. h[1] = 0 /\ \A k \in 1 .. N : k # 1 => h[k] = step[k][h[k - 1]]
    BY <1>7 DEF Iterates
  <1>9. ASSUME NEW k \in 1 .. N, k # 1
        PROVE  h[k] = h[k - 1] + C(k)
    <2>1. k - 1 \in 1 .. N /\ h[k - 1] \in Nat
      BY <1>1, <1>7, <1>9
    <2> QED BY <1>6, <1>8, <1>9, <2>1
  <1>10. h = F(h)
    <2>1. h = [k \in DOMAIN path |-> h[k]]
      BY <1>7, <1>61
    <2>2. \A k \in DOMAIN path : h[k] = IF k = 1 THEN 0 ELSE h[k - 1] + C(k)
      BY <1>8, <1>9, <1>61
    <2> QED BY <2>1, <2>2 DEF C
  <1>11. upTo = F(upTo)
    <2> HIDE DEF F
    <2> QED BY <1>10
  <1> HIDE DEF upTo
  <1>12. \A k \in 1 .. N : upTo[k] = IF k = 1 THEN 0 ELSE upTo[k - 1] + C(k)
    BY <1>11, <1>61 DEF C
  <1>14. upTo = [k \in 1 .. N |-> upTo[k]]
    BY <1>11, <1>61
  <1> HIDE DEF F
  <1> DEFINE T == {k \in Nat : k + 1 <= N => upTo[k + 1] \in Nat}
  <1>15. 0 \in T
    BY <1>1, <1>12
  <1>16. ASSUME NEW k \in Nat, k \in T
         PROVE  k + 1 \in T
    <2> SUFFICES ASSUME (k + 1) + 1 <= N
                 PROVE  upTo[(k + 1) + 1] \in Nat
      OBVIOUS
    <2> DEFINE i == (k + 1) + 1
    <2>1. k + 1 <= N /\ i \in 1 .. N /\ i # 1 /\ i - 1 = k + 1
      BY <1>1
    <2>2. upTo[k + 1] \in Nat
      BY <1>16, <2>1
    <2>3. C(i) \in Nat /\ upTo[i] = upTo[k + 1] + C(i)
      BY <1>3, <1>12, <2>1
    <2> QED BY <2>2, <2>3
  <1>17. \A k \in 1 .. N : upTo[k] \in Nat
    <2> HIDE DEF T
    <2>1. \A k \in Nat : k \in T
      BY <1>15, <1>16, SetInduction
    <2> SUFFICES ASSUME NEW k \in 1 .. N
                 PROVE  upTo[k] \in Nat
      OBVIOUS
    <2>2. k - 1 \in Nat /\ (k - 1) + 1 = k /\ k <= N
      BY <1>1
    <2> QED BY <2>1, <2>2 DEF T
  <1>18. upTo \in [1 .. N -> Nat]
    BY <1>14, <1>17
  <1>19. Along(upTo, g, path)
    <2>1. upTo[1] = 0
      BY <1>1, <1>12
    <2>2. \A i \in 2 .. N : upTo[i] = upTo[i - 1] + C(i)
      BY <1>1, <1>12
    <2> QED BY <2>1, <2>2 DEF Along, C, N
  <1> QED BY <1>2, <1>18, <1>19 DEF N

\* A way from the start along open edges, with no more of them than nodes.
Way(g, q, path) ==
    /\ path \in Seq(Ids(g)) /\ Len(path) \in 1 .. Len(g.nodes)
    /\ path[1] = q.start
    /\ \A i \in 2 .. Len(path) : LinkAt(path, i) \in Open(g, q)

LEMMA WayCosts ==
  ASSUME NEW g, Tables(g), NEW q, NEW path, Way(g, q, path)
  PROVE  \E a \in [1 .. Len(path) -> Nat] : Along(a, g, path) /\ PathCost(g, path) = a[Len(path)]
  <1>1. Len(path) \in Nat \ {0} /\ DOMAIN path = 1 .. Len(path)
    BY DEF Way
  <1>2. \A i \in 2 .. Len(path) : g.edges[LinkAt(path, i)].cost \in Nat
    BY OpenEdge DEF Way
  <1> QED BY <1>1, <1>2, PathCostIs

\* No way is cheaper than the cheapest cost.
LEMMA CheapestBelow ==
  ASSUME NEW g, Tables(g), NEW q, NEW path, Way(g, q, path)
  PROVE  /\ Cheapest(g, q)[path[Len(path)]] \in Nat /\ PathCost(g, path) \in Nat
         /\ Cheapest(g, q)[path[Len(path)]] <= PathCost(g, path)
  <1> DEFINE N == Len(g.nodes)
             L == Len(path)
  <1>1. N \in Nat /\ L \in 1 .. N /\ L \in Nat /\ Ids(g) = 1 .. N
    BY DEF Tables, Way, Ids
  <1>2. \A i \in 1 .. L : path[i] \in Ids(g)
    BY DEF Way
  <1>3. PICK u \in [0 .. N -> [Ids(g) -> Nat]] : Rounds(u, g, q) /\ Cheapest(g, q) = u[N]
    BY CheapestIs
  <1>4. PICK a \in [1 .. L -> Nat] : Along(a, g, path) /\ PathCost(g, path) = a[L]
    BY WayCosts
  <1> DEFINE T == {k \in Nat : k <= N => \A i \in 1 .. L : i <= k + 1 => u[k][path[i]] <= a[i]}
  <1>5. 0 \in T
    <2>1. u[0][path[1]] = 0 /\ a[1] = 0
      BY <1>1, <1>2, <1>3, <1>4 DEF Rounds, Along, Way
    <2>2. \A i \in 1 .. L : i <= 0 + 1 => i = 1
      BY <1>1
    <2> QED BY <2>1, <2>2
  <1>6. ASSUME NEW k \in Nat, k \in T
        PROVE  k + 1 \in T
    <2> SUFFICES ASSUME k + 1 <= N, NEW i \in 1 .. L, i <= (k + 1) + 1
                 PROVE  u[k + 1][path[i]] <= a[i]
      OBVIOUS
    <2>1. k \in 0 .. N /\ k + 1 \in 1 .. N /\ (k + 1) - 1 = k /\ k + 1 \in 0 .. N
      BY <1>1
    <2>2. u[k] \in [Ids(g) -> Nat] /\ u[k + 1] = Further(g, q, u[k])
      BY <1>3, <2>1 DEF Rounds
    <2>3. u[k][path[i]] \in Nat /\ u[k + 1][path[i]] \in Nat /\ a[i] \in Nat
      BY <1>2, <1>3, <2>1
    <2>4. CASE i <= k + 1
      <3>1. u[k][path[i]] <= a[i]
        BY <1>6, <2>1, <2>4
      <3>2. u[k + 1][path[i]] <= u[k][path[i]]
        BY <1>2, <2>2, FurtherIs
      <3> QED BY <2>3, <3>1, <3>2
    <2>5. CASE ~(i <= k + 1)
      <3>1. i \in 2 .. L /\ i - 1 \in 1 .. L /\ i - 1 <= k + 1
        BY <1>1, <2>5
      <3> DEFINE e == LinkAt(path, i)
      <3>2. e \in Open(g, q) /\ e[1] = path[i - 1] /\ e[2] = path[i]
        BY <3>1 DEF Way, LinkAt
      <3>3. u[k][path[i - 1]] <= a[i - 1]
        BY <1>6, <2>1, <3>1
      <3>4. a[i] = a[i - 1] + g.edges[e].cost
        BY <1>4, <3>1 DEF Along
      <3>5. u[k + 1][path[i]] <= u[k][path[i - 1]] + g.edges[e].cost
        BY <2>2, <3>2, FurtherIs
      <3>6. /\ u[k][path[i - 1]] \in Nat /\ a[i - 1] \in Nat /\ g.edges[e].cost \in Nat
        BY <1>2, <1>4, <2>2, <3>1, <3>2, OpenEdge
      <3> HIDE DEF e
      <3> DEFINE before == u[k][path[i - 1]]
                 now == u[k + 1][path[i]]
                 paid == a[i - 1]
                 due == a[i]
                 cost == g.edges[e].cost
      <3>7. /\ before \in Nat /\ now \in Nat /\ paid \in Nat /\ due \in Nat /\ cost \in Nat
        BY <2>3, <3>6
      <3>8. before <= paid /\ due = paid + cost /\ now <= before + cost
        BY <3>3, <3>4, <3>5
      <3> HIDE DEF before, now, paid, due, cost
      <3>9. now <= due
        BY <3>7, <3>8
      <3> QED BY <3>9 DEF now, due
    <2> QED BY <2>4, <2>5
  <1>7. N \in T
    <2> HIDE DEF T
    <2> QED BY <1>1, <1>5, <1>6, SetInduction
  <1>8. u[N][path[L]] <= a[L]
    BY <1>1, <1>7
  <1>9. u[N][path[L]] \in Nat /\ a[L] \in Nat
    <2>1. N \in 0 .. N /\ L \in 1 .. L
      BY <1>1
    <2>2. u[N] \in [Ids(g) -> Nat] /\ path[L] \in Ids(g)
      BY <1>2, <1>3, <2>1
    <2> QED BY <1>4, <2>1, <2>2
  <1> QED BY <1>3, <1>4, <1>8, <1>9
-----------------------------------------------------------------------------
(* The invariant *)

TreeType(g) == [goal : Ids(g),
                nodeMask : {q.nodeMask : q \in Queries}, edgeMask : {q.edgeMask : q \in Queries},
                cost : [Ids(g) -> Nat], next : [Ids(g) -> Nat]]

\* The edges a tree is made of.
Passable(g, t) == {e \in DOMAIN g.edges : /\ ~Meets(g.edges[e].type, t.edgeMask)
                                          /\ ~Meets(g.nodes[e[2]].type, t.nodeMask)}

\* Where a node's link leads, by an edge that makes up the difference in cost.
Led(g, t, n) ==
    /\ t.next[n] \in Ids(g)
    /\ <<n, t.next[n]>> \in Passable(g, t)
    /\ t.cost[n] = t.cost[t.next[n]] + g.edges[<<n, t.next[n]>>].cost

\* Nodes with a cost but for the goal are led to ones of a lower rank.
TreeCore(g, t, r) ==
    /\ t \in TreeType(g)
    /\ t.cost[t.goal] = 0 /\ t.next[t.goal] = 0
    /\ r \in [Ids(g) -> Nat]
    /\ \A n \in Ids(g) : t.cost[n] <= FltMax
    /\ \A n \in Ids(g) \ {t.goal} :
         t.cost[n] < FltMax => Led(g, t, n) /\ r[t.next[n]] < r[n]

\* No edge is left that would make a node cheaper.
Relaxes(g, t, e) == t.cost[e[1]] <= t.cost[e[2]] + g.edges[e].cost
TreeOK(g, t) ==
    /\ \E r \in [Ids(g) -> Nat] : TreeCore(g, t, r)
    /\ \A e \in Passable(g, t) : Relaxes(g, t, e)

\* Ranks in the order in which nodes were done; the others have the next one.
RankedUpTo(g, r, done, K) ==
    \A n \in Ids(g) : IF n \in done THEN r[n] < K ELSE r[n] = K

\* A tree that is being built: what is settled is cheaper than what the heap holds.
TreeJob(g, j) ==
    /\ j.op = "tree"
    /\ j = [op |-> "tree", tree |-> j.tree, heap |-> j.heap, settled |-> j.settled]
    /\ j.settled \subseteq Ids(g)
    /\ j.heap \subseteq [f : Nat, node : Ids(g)]
    /\ \A x \in j.heap : x.f < FltMax /\ \A n \in j.settled : j.tree.cost[n] <= x.f
    /\ \A n \in Ids(g) \ j.settled :
         j.tree.cost[n] < FltMax => [f |-> j.tree.cost[n], node |-> n] \in j.heap
    /\ \A n \in j.settled : j.tree.cost[n] < FltMax
    /\ \A n \in Ids(g) \ {j.tree.goal} :
         j.tree.cost[n] < FltMax => j.tree.next[n] \in j.settled
    /\ \A e \in Passable(g, j.tree) : e[2] \in j.settled => Relaxes(g, j.tree, e)
    /\ \E r \in [Ids(g) -> Nat], K \in Nat :
         TreeCore(g, j.tree, r) /\ RankedUpTo(g, r, j.settled, K)

ScratchOK(s) ==
    /\ s = [id |-> s.id, size |-> s.size, g |-> s.g, f |-> s.f, parent |-> s.parent,
            stamp |-> s.stamp, closed |-> s.closed]
    /\ s.id \in 0 .. IdRange - 1 /\ s.size \in Nat
    /\ s.g \in [1 .. s.size -> Nat] /\ s.f \in [1 .. s.size -> Nat]
    /\ s.parent \in [1 .. s.size -> Nat]
    /\ s.stamp \in [1 .. s.size -> 0 .. s.id] /\ s.closed \in [1 .. s.size -> 0 .. s.id]

\* The nodes this search came to, and those of them it is done with.
Reached(g, s) == {n \in Ids(g) : s.stamp[n] = s.id}
Done(g, s) == {n \in Reached(g, s) : Closed(s, n)}

\* How a node was come to: from one that is done with, at that one's cost and the edge's.
CameBy(g, s, q, n) ==
    /\ n \notin q.skip
    /\ s.parent[n] \in Done(g, s)
    /\ <<s.parent[n], n>> \in Open(g, q)
    /\ s.g[n] = s.g[s.parent[n]] + g.edges[<<s.parent[n], n>>].cost

ReachedInv(g, s, q) ==
    /\ q \in Queries /\ q.start \in Ids(g) /\ q.goal \in Ids(g) /\ q.start # q.goal
    /\ s.size >= Len(g.nodes)
    /\ q.start \in Reached(g, s) /\ s.g[q.start] = 0
    /\ \A n \in Ids(g) : Closed(s, n) => n \in Reached(g, s) \/ n \in q.skip
    /\ \A n \in Ids(g) \cap q.skip : Closed(s, n)
    /\ q.goal \notin Done(g, s)
    /\ \A n \in Reached(g, s) :
         s.f[n] = s.g[n] + (Distance(g, n, q.goal) * q.weight)
    /\ \A n \in Reached(g, s) \ {q.start} : CameBy(g, s, q, n)
    /\ \E r \in [Ids(g) -> Nat], K \in Nat :
         /\ RankedUpTo(g, r, Done(g, s), K)
         /\ \A n \in Reached(g, s) \ {q.start} : r[s.parent[n]] < r[n]

\* From a node that is done with, every neighbour was reached, and as cheap unless
\* it was done with as well.
RelaxedInv(g, s, q) ==
    \A e \in Open(g, q) :
      e[1] \in Done(g, s) =>
        /\ e[2] \in Reached(g, s)
        /\ Closed(s, e[2]) \/ s.g[e[2]] <= s.g[e[1]] + g.edges[e].cost

\* What is done with costs at most weight times what it has to.
BoundInv(g, s, q) ==
    Admissible(g) =>
      \A n \in Done(g, s) :
        Cheapest(g, q)[n] < FltMax => s.g[n] <= q.weight * Cheapest(g, q)[n]

HeapInv(g, s, j) ==
    /\ j.heap \subseteq [f : Nat, node : Reached(g, s)]
    /\ \A n \in Reached(g, s) : Closed(s, n) \/ [f |-> s.f[n], node |-> n] \in j.heap
    /\ j.best \in Reached(g, s) /\ j.bestH = Distance(g, j.best, j.q.goal)
    /\ \A n \in Reached(g, s) : j.bestH <= Distance(g, n, j.q.goal)

SearchJob(g, s, j) ==
    /\ j.op = "search"
    /\ j = [op |-> "search", q |-> j.q, expansions |-> j.expansions,
            best |-> j.best, bestH |-> j.bestH, heap |-> j.heap]
    /\ ReachedInv(g, s, j.q)
    /\ RelaxedInv(g, s, j.q)
    /\ BoundInv(g, s, j.q)
    /\ HeapInv(g, s, j)

AnswerOK(g, a) ==
    /\ Walkable(g, a)
    /\ a.cached \/ Limit(a.q) = 0 => CheapEnough(g, a)

GraphInv == graph = NoGraph \/ GraphOK(graph)
FileInv == file = NoFile \/ Tables(file)
NothingInv == graph = NoGraph => caches = <<>> /\ job = Idle /\ answer = NoAnswer
CachesInv == graph # NoGraph => /\ caches \in Seq(TreeType(graph))
                                /\ \A i \in DOMAIN caches : TreeOK(graph, caches[i])
JobInv == job = Idle \/ TreeJob(graph, job) \/ SearchJob(graph, scratch, job)
AnswerInv == answer = NoAnswer \/ AnswerOK(graph, answer)

IInv == /\ GraphInv /\ FileInv /\ ScratchOK(scratch)
        /\ NothingInv /\ CachesInv /\ JobInv /\ AnswerInv
-----------------------------------------------------------------------------
(* Building and changing a graph *)

LEMMA NodeFacts ==
  ASSUME NEW g, Tables(g)
  PROVE  /\ Len(g.nodes) \in Nat /\ Ids(g) = 1 .. Len(g.nodes) /\ 0 \notin Ids(g)
         /\ \A n \in Ids(g) : /\ g.nodes[n] \in NodeRecord
                              /\ g.nodes[n].origin \in Int
                              /\ g.nodes[n].removed \in BOOLEAN
  <1>1. g.nodes \in Seq(NodeRecord)
    BY DEF Tables
  <1>2. Len(g.nodes) \in Nat /\ Ids(g) = 1 .. Len(g.nodes) /\ 0 \notin Ids(g)
    BY <1>1 DEF Ids
  <1>3. \A n \in Ids(g) : g.nodes[n] \in NodeRecord
    BY <1>1, <1>2
  <1> QED BY <1>2, <1>3 DEF NodeRecord

LEMMA DistanceIs ==
  ASSUME NEW g, Tables(g), NEW a \in Ids(g), NEW b \in Ids(g)
  PROVE  Distance(g, a, b) \in Nat
  <1>1. g.nodes[a].origin \in Int /\ g.nodes[b].origin \in Int
    BY NodeFacts
  <1> QED BY <1>1 DEF Distance

LEMMA PairsFinite ==
  ASSUME NEW g, Tables(g), NEW D, D \subseteq Ids(g) \X Ids(g)
  PROVE  IsFiniteSet(D)
  <1>1. IsFiniteSet(Ids(g))
    BY NodeFacts, FS_Interval
  <1>2. IsFiniteSet(Ids(g) \X Ids(g))
    BY <1>1, FS_Product
  <1> QED BY <1>2, FS_Subset

LEMMA EdgesFinite ==
  ASSUME NEW g, Tables(g)
  PROVE  IsFiniteSet(DOMAIN g.edges)
  BY PairsFinite DEF Tables

\* What replacing parts of a graph gives.
LEMMA NodesReplaced ==
  ASSUME NEW g, Shaped(g), NEW ns, NEW h, h = [g EXCEPT !.nodes = ns]
  PROVE  h.nodes = ns /\ h.edges = g.edges /\ h.edgeCount = g.edgeCount /\ Shaped(h)
  BY DEF Shaped

LEMMA EdgesReplaced ==
  ASSUME NEW g, Shaped(g), NEW es, NEW h, h = [g EXCEPT !.edges = es]
  PROVE  h.nodes = g.nodes /\ h.edges = es /\ h.edgeCount = g.edgeCount /\ Shaped(h)
  BY DEF Shaped

\* No edge of the graph touches a node that these nodes say was removed.
Unremoved(g, ns) == \A e \in DOMAIN g.edges : ~ns[e[1]].removed /\ ~ns[e[2]].removed

\* Other nodes in the place of a graph's: as long as they are as many at least and
\* an edge's ends stay alive.
LEMMA NewNodes ==
  ASSUME NEW g, GraphOK(g), NEW ns \in Seq(NodeRecord), Len(g.nodes) <= Len(ns),
         Unremoved(g, ns)
  PROVE  /\ GraphOK([g EXCEPT !.nodes = ns])
         /\ [g EXCEPT !.nodes = ns].nodes = ns
         /\ [g EXCEPT !.nodes = ns].edges = g.edges
         /\ [g EXCEPT !.nodes = ns].edgeCount = g.edgeCount
  <1> DEFINE h == [g EXCEPT !.nodes = ns]
  <1>1. /\ h.nodes = ns /\ h.edges = g.edges /\ h.edgeCount = g.edgeCount
        /\ Shaped(h)
    BY NodesReplaced DEF GraphOK
  <1> HIDE DEF h
  <1>2. Ids(g) \subseteq Ids(h)
    BY <1>1, NodeFacts DEF GraphOK, Ids
  <1>3. \A e \in DOMAIN g.edges : e[1] \in Ids(g) /\ e[2] \in Ids(g)
    BY DEF GraphOK, Tables
  <1>4. Tables(h)
    BY <1>1, <1>2 DEF GraphOK, Tables
  <1>5. Living(h)
    BY <1>1, <1>2, <1>3 DEF Living, Live, Unremoved
  <1> QED BY <1>1, <1>4, <1>5 DEF GraphOK, h

\* Other edges in the place of a graph's, and their number.
LEMMA NewEdges ==
  ASSUME NEW g, GraphOK(g), NEW es, NEW c, c = Cardinality(DOMAIN es),
         es \in [DOMAIN es -> EdgeRecord], DOMAIN es \subseteq Ids(g) \X Ids(g),
         \A e \in DOMAIN es : Live(g, e[1]) /\ Live(g, e[2])
  PROVE  GraphOK([g EXCEPT !.edges = es, !.edgeCount = c])
  <1> DEFINE h == [g EXCEPT !.edges = es, !.edgeCount = c]
  <1>1. h.nodes = g.nodes /\ h.edges = es /\ h.edgeCount = c /\ Shaped(h)
    <2>1. Shaped(g) /\ h = [g EXCEPT !.edges = es, !.edgeCount = c]
      BY DEF GraphOK
    <2> HIDE DEF h
    <2> QED BY <2>1 DEF Shaped
  <1> HIDE DEF h
  <1>2. Tables(h) /\ Living(h)
    BY <1>1 DEF GraphOK, Tables, Living, Live, Ids
  <1> QED BY <1>1, <1>2 DEF GraphOK, h

LEMMA OtherEdges ==
  ASSUME NEW g, GraphOK(g), NEW es \in [DOMAIN g.edges -> EdgeRecord]
  PROVE  GraphOK([g EXCEPT !.edges = es])
  <1> DEFINE h == [g EXCEPT !.edges = es]
  <1>1. h.nodes = g.nodes /\ h.edges = es /\ h.edgeCount = g.edgeCount /\ Shaped(h)
    BY EdgesReplaced DEF GraphOK
  <1>2. DOMAIN es = DOMAIN g.edges
    OBVIOUS
  <1> HIDE DEF h
  <1>3. Tables(h) /\ Living(h)
    BY <1>1, <1>2 DEF GraphOK, Tables, Living, Live, Ids
  <1> QED BY <1>1, <1>3 DEF GraphOK, h

LEMMA Added ==
  ASSUME NEW g, GraphOK(g), NEW new, DOMAIN new \cap DOMAIN g.edges = {},
         new \in [DOMAIN new -> EdgeRecord], DOMAIN new \subseteq Ids(g) \X Ids(g),
         \A e \in DOMAIN new : Live(g, e[1]) /\ Live(g, e[2])
  PROVE  GraphOK(WithEdges(g, new))
  <1> DEFINE es == Over(new, g.edges)
             c == g.edgeCount + Cardinality(DOMAIN new)
  <1>1. DOMAIN es = DOMAIN new \cup DOMAIN g.edges
    BY OverAt
  <1>2. IsFiniteSet(DOMAIN g.edges)
    BY EdgesFinite DEF GraphOK
  <1>3. IsFiniteSet(DOMAIN new)
    BY PairsFinite DEF GraphOK
  <1>4. c = Cardinality(DOMAIN es)
    <2>1. Cardinality({}) = 0
      BY FS_EmptySet
    <2>2. /\ Cardinality(DOMAIN new) \in Nat /\ Cardinality(DOMAIN g.edges) \in Nat
          /\ g.edgeCount = Cardinality(DOMAIN g.edges)
      BY <1>2, <1>3, FS_CardinalityType DEF GraphOK, Tables
    <2>3. Cardinality(DOMAIN new \cup DOMAIN g.edges) =
            Cardinality(DOMAIN new) + Cardinality(DOMAIN g.edges) - Cardinality({})
      BY <1>2, <1>3, FS_Union
    <2> QED BY <1>1, <2>1, <2>2, <2>3
  <1>5. es \in [DOMAIN es -> EdgeRecord]
    <2>3. \A x \in DOMAIN g.edges : g.edges[x] \in EdgeRecord
      BY DEF GraphOK, Tables
    <2>4. \A x \in DOMAIN new : new[x] \in EdgeRecord
      OBVIOUS
    <2>5. /\ \A x \in DOMAIN new : es[x] = new[x]
          /\ \A x \in DOMAIN g.edges : x \notin DOMAIN new => es[x] = g.edges[x]
      BY OverAt
    <2> HIDE DEF es
    <2>1. \A x \in DOMAIN es : es[x] \in EdgeRecord
      BY <1>1, <2>3, <2>4, <2>5
    <2>2. es = [x \in DOMAIN es |-> es[x]]
      BY DEF Over, es
    <2> QED BY <2>1, <2>2
  <1>6. DOMAIN es \subseteq Ids(g) \X Ids(g)
    BY <1>1 DEF GraphOK, Tables
  <1>7. \A e \in DOMAIN es : Live(g, e[1]) /\ Live(g, e[2])
    BY <1>1 DEF GraphOK, Living
  <1>8. WithEdges(g, new) = [g EXCEPT !.edges = es, !.edgeCount = c]
    BY DEF WithEdges
  <1> HIDE DEF es, c
  <1>9. GraphOK([g EXCEPT !.edges = es, !.edgeCount = c])
    BY <1>4, <1>5, <1>6, <1>7, NewEdges
  <1> QED BY <1>8, <1>9

\* Only some of the edges.
LEMMA Kept ==
  ASSUME NEW g, GraphOK(g), NEW D, D \subseteq DOMAIN g.edges, NEW c, c = Cardinality(D)
  PROVE  GraphOK([g EXCEPT !.edges = Restrict(@, D), !.edgeCount = c])
  <1> DEFINE es == Restrict(g.edges, D)
  <1>1. DOMAIN es = D /\ \A e \in D : es[e] = g.edges[e]
    BY DEF Restrict
  <1>2. es \in [DOMAIN es -> EdgeRecord]
    <2>1. \A e \in D : g.edges[e] \in EdgeRecord
      BY DEF GraphOK, Tables
    <2> QED BY <2>1 DEF Restrict
  <1>3. DOMAIN es \subseteq Ids(g) \X Ids(g)
    BY <1>1 DEF GraphOK, Tables
  <1>4. \A e \in DOMAIN es : Live(g, e[1]) /\ Live(g, e[2])
    BY <1>1 DEF GraphOK, Living
  <1> HIDE DEF es
  <1>5. GraphOK([g EXCEPT !.edges = es, !.edgeCount = c])
    BY <1>1, <1>2, <1>3, <1>4, NewEdges
  <1> QED BY <1>5 DEF es

LEMMA Alive ==
  ASSUME NEW g, GraphOK(g)
  PROVE  \A e \in DOMAIN g.edges : /\ e[1] \in Ids(g) /\ e[2] \in Ids(g) /\ e = <<e[1], e[2]>>
                                   /\ ~g.nodes[e[1]].removed /\ ~g.nodes[e[2]].removed
                                   /\ g.edges[e] \in EdgeRecord
  BY DEF GraphOK, Tables, Living, Live

\* While a graph is there and nothing runs, it is in order.
LEMMA ReadyGraph ==
  ASSUME IInv, Ready
  PROVE  GraphOK(graph) /\ Tables(graph) /\ job = Idle
  BY DEF IInv, GraphInv, Ready, GraphOK

LEMMA ChangedKeeps ==
  ASSUME IInv, Ready, NEW g, GraphOK(g), Changed(g)
  PROVE  IInv'
  <1>1. /\ graph' = g /\ caches' = <<>> /\ answer' = NoAnswer /\ job' = Idle
        /\ scratch' = scratch /\ file' = file
    BY DEF Changed, Ready
  <1>2. GraphInv'
    BY <1>1 DEF GraphInv
  <1>3. FileInv'
    BY <1>1 DEF IInv, FileInv
  <1>4. ScratchOK(scratch)'
    BY <1>1 DEF IInv, ScratchOK
  <1>5. NothingInv'
    BY <1>1 DEF NothingInv, Idle, NoAnswer
  <1>6. CachesInv'
    BY <1>1 DEF CachesInv
  <1>7. JobInv'
    BY <1>1 DEF JobInv, Idle
  <1>8. AnswerInv'
    BY <1>1 DEF AnswerInv, NoAnswer
  <1> QED BY <1>2, <1>3, <1>4, <1>5, <1>6, <1>7, <1>8 DEF IInv

LEMMA NodeIs ==
  ASSUME NEW origin \in Int, NEW type \in Types
  PROVE  Node(origin, type) \in NodeRecord /\ ~Node(origin, type).removed
  BY DEF Node, NodeRecord

\* One node in the place of another.
LEMMA NodePut ==
  ASSUME NEW ns \in Seq(NodeRecord), NEW n \in DOMAIN ns, NEW rec \in NodeRecord
  PROVE  /\ [ns EXCEPT ![n] = rec] \in Seq(NodeRecord)
         /\ Len([ns EXCEPT ![n] = rec]) = Len(ns) /\ Len(ns) \in Nat
         /\ [ns EXCEPT ![n] = rec][n] = rec
         /\ \A m \in DOMAIN ns : m # n => [ns EXCEPT ![n] = rec][m] = ns[m]
  OBVIOUS

LEMMA NodeChanged ==
  ASSUME NEW rec \in NodeRecord
  PROVE  /\ \A type \in Types : /\ [rec EXCEPT !.type = type] \in NodeRecord
                                /\ [rec EXCEPT !.type = type].removed = rec.removed
         /\ \A origin \in Int : /\ [rec EXCEPT !.origin = origin] \in NodeRecord
                                /\ [rec EXCEPT !.origin = origin].removed = rec.removed
         /\ [rec EXCEPT !.removed = TRUE] \in NodeRecord
  BY DEF NodeRecord

LEMMA AddNodeKeeps ==
  ASSUME IInv, NEW origin \in Origins, NEW type \in Types, AddNode(origin, type)
  PROVE  IInv'
  <1>1. Ready /\ GraphOK(graph) /\ Tables(graph)
    BY ReadyGraph DEF AddNode
  <1> DEFINE ns == Append(graph.nodes, Node(origin, type))
  <1>2. Node(origin, type) \in NodeRecord
    BY NodeIs, GraphAssumption
  <1>3. graph.nodes \in Seq(NodeRecord)
    BY <1>1 DEF Tables
  <1>4. /\ ns \in Seq(NodeRecord) /\ Len(graph.nodes) <= Len(ns)
        /\ \A n \in Ids(graph) : ns[n] = graph.nodes[n]
    BY <1>2, <1>3 DEF Ids
  <1> HIDE DEF ns
  <1>5. GraphOK([graph EXCEPT !.nodes = ns])
    <2>1. Unremoved(graph, ns)
      BY <1>1, <1>4, Alive DEF Unremoved
    <2> QED BY <1>1, <1>4, <2>1, NewNodes
  <1> QED BY <1>1, <1>5, ChangedKeeps DEF AddNode, ns

LEMMA AddEdgeKeeps ==
  ASSUME IInv, NEW a, NEW b, NEW type \in Types, NEW cost \in Nat, AddEdge(a, b, type, cost)
  PROVE  IInv'
  <1>1. Ready /\ GraphOK(graph) /\ Tables(graph) /\ Live(graph, a) /\ Live(graph, b)
    BY ReadyGraph DEF AddEdge
  <1> DEFINE new == [e \in {<<a, b>>} |-> [type |-> type, cost |-> cost]]
  <1>2. DOMAIN new = {<<a, b>>} /\ new \in [DOMAIN new -> EdgeRecord]
    BY DEF EdgeRecord
  <1>3. DOMAIN new \cap DOMAIN graph.edges = {}
    BY <1>2 DEF AddEdge
  <1>4. DOMAIN new \subseteq Ids(graph) \X Ids(graph)
    BY <1>1, <1>2 DEF Live
  <1>5. \A e \in DOMAIN new : Live(graph, e[1]) /\ Live(graph, e[2])
    BY <1>1, <1>2
  <1>6. Changed(WithEdges(graph, new))
    BY DEF AddEdge
  <1> HIDE DEF new
  <1> QED BY <1>1, <1>2, <1>3, <1>4, <1>5, <1>6, Added, ChangedKeeps

LEMMA SetEdgeCostKeeps ==
  ASSUME IInv, NEW e, NEW cost \in Nat, SetEdgeCost(e, cost)
  PROVE  IInv'
  <1>1. Ready /\ GraphOK(graph) /\ e \in DOMAIN graph.edges
    BY ReadyGraph DEF SetEdgeCost
  <1> DEFINE es == [graph.edges EXCEPT ![e].cost = cost]
  <1>2. es \in [DOMAIN graph.edges -> EdgeRecord]
    BY <1>1 DEF GraphOK, Tables, EdgeRecord
  <1>3. Changed([graph EXCEPT !.edges = es])
    BY DEF SetEdgeCost
  <1> HIDE DEF es
  <1> QED BY <1>1, <1>2, <1>3, OtherEdges, ChangedKeeps

LEMMA SetEdgeTypeKeeps ==
  ASSUME IInv, NEW e, NEW type \in Types, SetEdgeType(e, type)
  PROVE  IInv'
  <1>1. Ready /\ GraphOK(graph) /\ e \in DOMAIN graph.edges
    BY ReadyGraph DEF SetEdgeType
  <1> DEFINE es == [graph.edges EXCEPT ![e].type = type]
  <1>2. es \in [DOMAIN graph.edges -> EdgeRecord]
    BY <1>1 DEF GraphOK, Tables, EdgeRecord
  <1>3. Changed([graph EXCEPT !.edges = es])
    BY DEF SetEdgeType
  <1> HIDE DEF es
  <1> QED BY <1>1, <1>2, <1>3, OtherEdges, ChangedKeeps

LEMMA RemoveEdgeKeeps ==
  ASSUME IInv, NEW e, RemoveEdge(e)
  PROVE  IInv'
  <1>1. Ready /\ GraphOK(graph) /\ Tables(graph) /\ e \in DOMAIN graph.edges
    BY ReadyGraph DEF RemoveEdge
  <1> DEFINE D == DOMAIN graph.edges \ {e}
             c == graph.edgeCount - 1
  <1>2. c = Cardinality(D)
    BY <1>1, EdgesFinite, FS_RemoveElement DEF Tables
  <1>3. GraphOK([graph EXCEPT !.edges = Restrict(@, D), !.edgeCount = c])
    BY <1>1, <1>2, Kept
  <1> QED BY <1>1, <1>3, ChangedKeeps DEF RemoveEdge

LEMMA SetNodeTypeKeeps ==
  ASSUME IInv, NEW n, NEW type \in Types, SetNodeType(n, type)
  PROVE  IInv'
  <1>1. Ready /\ GraphOK(graph) /\ Tables(graph) /\ n \in Ids(graph)
    BY ReadyGraph DEF SetNodeType, Live
  <1> DEFINE rec == [graph.nodes[n] EXCEPT !.type = type]
             ns == [graph.nodes EXCEPT ![n] = rec]
  <1>2. graph.nodes \in Seq(NodeRecord)
    BY <1>1 DEF Tables
  <1>21. rec \in NodeRecord /\ rec.removed = graph.nodes[n].removed
    BY <1>1, <1>2, NodeFacts, NodeChanged
  <1>5. Changed([graph EXCEPT !.nodes = ns])
    BY DEF SetNodeType
  <1> HIDE DEF rec
  <1>3. ns \in Seq(NodeRecord) /\ Len(ns) = Len(graph.nodes) /\ Len(ns) \in Nat
    BY <1>1, <1>2, <1>21, NodePut DEF Ids
  <1>31. ns[n] = rec /\ \A m \in Ids(graph) : m # n => ns[m] = graph.nodes[m]
    BY <1>1, <1>2, <1>21, NodePut DEF Ids
  <1> HIDE DEF ns
  <1>4. \A m \in Ids(graph) : ns[m].removed = graph.nodes[m].removed
    BY <1>21, <1>31
  <1>6. GraphOK([graph EXCEPT !.nodes = ns])
    <2>1. Unremoved(graph, ns)
      BY <1>1, <1>4, Alive DEF Unremoved
    <2>2. Len(graph.nodes) <= Len(ns)
      BY <1>3
    <2> QED BY <1>1, <1>3, <2>1, <2>2, NewNodes
  <1> QED BY <1>1, <1>5, <1>6, ChangedKeeps

LEMMA SetNodeOriginKeeps ==
  ASSUME IInv, NEW n, NEW origin \in Origins, SetNodeOrigin(n, origin)
  PROVE  IInv'
  <1>1. Ready /\ GraphOK(graph) /\ Tables(graph) /\ n \in Ids(graph)
    BY ReadyGraph DEF SetNodeOrigin, Live
  <1> DEFINE rec == [graph.nodes[n] EXCEPT !.origin = origin]
             ns == [graph.nodes EXCEPT ![n] = rec]
             moved == [graph EXCEPT !.nodes[n].origin = origin]
             es == [e \in DOMAIN graph.edges |->
                      IF e \in Touching(graph, n)
                      THEN [graph.edges[e] EXCEPT !.cost = Distance(moved, e[1], e[2])]
                      ELSE graph.edges[e]]
  <1>2. graph.nodes \in Seq(NodeRecord) /\ origin \in Int
    BY <1>1, GraphAssumption DEF Tables
  <1>21. rec \in NodeRecord /\ rec.removed = graph.nodes[n].removed
    BY <1>1, <1>2, NodeFacts, NodeChanged
  <1>5. moved = [graph EXCEPT !.nodes = ns]
    OBVIOUS
  <1>6. Changed([moved EXCEPT !.edges = [e \in DOMAIN @ |->
                            IF e \in Touching(graph, n)
                            THEN [@[e] EXCEPT !.cost = Distance(moved, e[1], e[2])]
                            ELSE @[e]]])
    BY DEF SetNodeOrigin
  <1> HIDE DEF rec
  <1>3. ns \in Seq(NodeRecord) /\ Len(ns) = Len(graph.nodes) /\ Len(ns) \in Nat
    BY <1>1, <1>2, <1>21, NodePut DEF Ids
  <1>31. ns[n] = rec /\ \A m \in Ids(graph) : m # n => ns[m] = graph.nodes[m]
    BY <1>1, <1>2, <1>21, NodePut DEF Ids
  <1> HIDE DEF ns
  <1>4. \A m \in Ids(graph) : ns[m].removed = graph.nodes[m].removed
    BY <1>21, <1>31
  <1> HIDE DEF ns, moved
  <1>7. GraphOK(moved) /\ moved.edges = graph.edges /\ moved.nodes = ns
    <2>1. Unremoved(graph, ns)
      BY <1>1, <1>4, Alive DEF Unremoved
    <2>2. Len(graph.nodes) <= Len(ns)
      BY <1>3
    <2> QED BY <1>1, <1>3, <1>5, <2>1, <2>2, NewNodes
  <1>8. Tables(moved) /\ \A m \in Ids(graph) : m \in Ids(moved)
    BY <1>3, <1>7, <1>1, NodeFacts DEF GraphOK, Ids
  <1>9. \A e \in DOMAIN graph.edges : Distance(moved, e[1], e[2]) \in Nat
    BY <1>1, <1>8, Alive, DistanceIs
  <1>10. \A e \in DOMAIN graph.edges : graph.edges[e] \in EdgeRecord
    BY <1>1, Alive
  <1>11. es \in [DOMAIN moved.edges -> EdgeRecord]
    BY <1>7, <1>9, <1>10 DEF EdgeRecord
  <1>12. Changed([moved EXCEPT !.edges = es])
    BY <1>6, <1>7
  <1> HIDE DEF es
  <1>13. GraphOK([moved EXCEPT !.edges = es])
    BY <1>7, <1>11, OtherEdges
  <1> QED BY <1>1, <1>12, <1>13, ChangedKeeps

LEMMA RemoveNodeKeeps ==
  ASSUME IInv, NEW n, RemoveNode(n)
  PROVE  IInv'
  <1>1. Ready /\ GraphOK(graph) /\ Tables(graph) /\ n \in Ids(graph)
    BY ReadyGraph DEF RemoveNode, Live
  <1> DEFINE D == DOMAIN graph.edges \ Touching(graph, n)
             c == graph.edgeCount - Cardinality(Touching(graph, n))
             kept == [graph EXCEPT !.edges = Restrict(@, D), !.edgeCount = c]
             rec == [graph.nodes[n] EXCEPT !.removed = TRUE]
             ns == [graph.nodes EXCEPT ![n] = rec]
  <1>2. Touching(graph, n) \subseteq DOMAIN graph.edges
    BY DEF Touching
  <1>3. c = Cardinality(D)
    <2>1. DOMAIN graph.edges \cap Touching(graph, n) = Touching(graph, n)
      BY <1>2
    <2>2. Cardinality(D) = Cardinality(DOMAIN graph.edges)
                             - Cardinality(DOMAIN graph.edges \cap Touching(graph, n))
      BY <1>1, EdgesFinite, FS_Difference
    <2> QED BY <1>1, <2>1, <2>2 DEF Tables
  <1>4. GraphOK(kept)
    BY <1>1, <1>3, Kept
  <1>5. kept.nodes = graph.nodes /\ kept.edges = Restrict(graph.edges, D)
    <2>1. Shaped(graph)
      BY <1>1 DEF GraphOK
    <2> DEFINE es == Restrict(graph.edges, D)
    <2>2. kept = [graph EXCEPT !.edges = es, !.edgeCount = c]
      OBVIOUS
    <2> HIDE DEF kept, es, c
    <2>3. kept.nodes = graph.nodes /\ kept.edges = es
      BY <2>1, <2>2 DEF Shaped
    <2> QED BY <2>3 DEF es
  <1>6. Changed([kept EXCEPT !.nodes = ns])
    <2>1. WithoutNode(graph, n) = [kept EXCEPT !.nodes = ns]
      BY <1>1 DEF WithoutNode, GraphOK, Shaped
    <2> QED BY <2>1 DEF RemoveNode
  <1>7. graph.nodes \in Seq(NodeRecord)
    BY <1>1 DEF Tables
  <1>71. rec \in NodeRecord
    BY <1>1, <1>7, NodeFacts, NodeChanged
  <1> HIDE DEF rec
  <1>8. ns \in Seq(NodeRecord) /\ Len(ns) = Len(graph.nodes) /\ Len(ns) \in Nat
    BY <1>1, <1>7, <1>71, NodePut DEF Ids
  <1>9. \A m \in Ids(graph) : m # n => ns[m] = graph.nodes[m]
    BY <1>1, <1>7, <1>71, NodePut DEF Ids
  <1>10. \A e \in DOMAIN kept.edges : e \in DOMAIN graph.edges /\ e[1] # n /\ e[2] # n
    BY <1>5 DEF Restrict, Touching
  <1> HIDE DEF kept, ns
  <1>101. Len(graph.nodes) <= Len(ns) /\ Len(kept.nodes) = Len(graph.nodes)
    BY <1>5, <1>8
  <1>11. Unremoved(kept, ns)
    BY <1>1, <1>9, <1>10, Alive DEF Unremoved
  <1>12. GraphOK([kept EXCEPT !.nodes = ns])
    BY <1>4, <1>8, <1>101, <1>11, NewNodes
  <1> QED BY <1>1, <1>6, <1>12, ChangedKeeps

LEMMA DiscoverKeeps ==
  ASSUME IInv, NEW origins \in Seq(Origins), Discover(origins)
  PROVE  IInv'
  <1>1. Ready /\ GraphOK(graph) /\ Tables(graph)
    BY ReadyGraph DEF Discover
  <1> DEFINE first == Len(graph.nodes) + 1
             more == [i \in DOMAIN origins |-> Node(origins[i], {})]
             ns == graph.nodes \o more
             grown == [graph EXCEPT !.nodes = ns]
             links == UNION {{<<n, n + 1>>, <<n + 1, n>>} :
                             n \in first .. (first + Len(origins) - 2)}
             new == [e \in links |-> [type |-> {}, cost |-> Distance(grown, e[1], e[2])]]
  <1>2. /\ graph.nodes \in Seq(NodeRecord) /\ Len(origins) \in Nat
        /\ DOMAIN origins = 1 .. Len(origins)
    BY <1>1 DEF Tables
  <1>3. \A i \in DOMAIN origins : /\ Node(origins[i], {}) \in NodeRecord
                                  /\ ~Node(origins[i], {}).removed
    <2>0. \A i \in DOMAIN origins : origins[i] \in Origins
      BY <1>2
    <2>1. \A i \in DOMAIN origins : origins[i] \in Int
      BY <2>0, GraphAssumption
    <2> QED BY <2>1, NodeIs, GraphAssumption
  <1>4. more \in Seq(NodeRecord) /\ Len(more) = Len(origins)
    BY <1>2, <1>3
  <1>5. \A i \in 1 .. Len(origins) : ~more[i].removed
    BY <1>2, <1>3
  <1> HIDE DEF more
  <1>6. /\ ns \in Seq(NodeRecord) /\ Len(ns) = Len(graph.nodes) + Len(origins)
        /\ \A n \in Ids(graph) : ns[n] = graph.nodes[n]
        /\ \A i \in 1 .. Len(origins) : ns[Len(graph.nodes) + i] = more[i]
    BY <1>2, <1>4 DEF Ids
  <1>7. Len(graph.nodes) \in Nat
    BY <1>2
  <1> HIDE DEF ns
  <1>8. GraphOK(grown) /\ grown.nodes = ns /\ grown.edges = graph.edges
    <2>1. Unremoved(graph, ns)
      BY <1>1, <1>6, Alive DEF Unremoved
    <2>2. Len(graph.nodes) <= Len(ns)
      BY <1>2, <1>6, <1>7
    <2> QED BY <1>1, <1>6, <2>1, <2>2, NewNodes
  <1> HIDE DEF grown
  <1>9. Tables(grown) /\ Ids(grown) = 1 .. Len(graph.nodes) + Len(origins)
    BY <1>6, <1>8, NodeFacts DEF GraphOK
  <1> DEFINE Joined(m) == m \in Ids(grown) /\ Live(grown, m) /\ m > Len(graph.nodes)
  <1>91. \A m \in Nat : first <= m /\ m <= Len(graph.nodes) + Len(origins) => Joined(m)
    <2> SUFFICES ASSUME NEW m \in Nat, first <= m, m <= Len(graph.nodes) + Len(origins)
                 PROVE  Joined(m)
      OBVIOUS
    <2>1. m \in Ids(grown) /\ m > Len(graph.nodes)
      BY <1>2, <1>7, <1>9
    <2>2. PICK i \in 1 .. Len(origins) : m = Len(graph.nodes) + i
      <3>1. m - Len(graph.nodes) \in 1 .. Len(origins)
        BY <1>2, <1>7
      <3>2. m = Len(graph.nodes) + (m - Len(graph.nodes))
        BY <1>7
      <3> QED BY <3>1, <3>2
    <2>3. ns[m] = more[i] /\ ~more[i].removed
      BY <1>5, <1>6, <2>2
    <2>4. Live(grown, m)
      BY <1>8, <2>1, <2>3 DEF Live
    <2> QED BY <2>1, <2>4
  <1> HIDE DEF Joined
  <1>10. ASSUME NEW e \in links
         PROVE  \E n \in first .. (first + Len(origins) - 2) : e = <<n, n + 1>> \/ e = <<n + 1, n>>
    OBVIOUS
  <1> HIDE DEF links
  <1>11. ASSUME NEW e \in links
         PROVE  /\ e[1] \in Ids(grown) /\ e[2] \in Ids(grown) /\ e = <<e[1], e[2]>>
                /\ Live(grown, e[1]) /\ Live(grown, e[2])
                /\ e[1] > Len(graph.nodes)
    <2>1. PICK n \in first .. (first + Len(origins) - 2) : e = <<n, n + 1>> \/ e = <<n + 1, n>>
      BY <1>10
    <2>2. /\ n \in Nat
          /\ first <= n /\ first <= n + 1
          /\ n <= Len(graph.nodes) + Len(origins)
          /\ n + 1 <= Len(graph.nodes) + Len(origins)
      BY <1>2, <1>7
    <2>3. /\ Joined(n) /\ Joined(n + 1)
      BY <1>91, <2>2
    <2>4. (e[1] = n /\ e[2] = n + 1) \/ (e[1] = n + 1 /\ e[2] = n)
      BY <2>1
    <2>5. e = <<e[1], e[2]>>
      BY <2>1
    <2>6. Joined(e[1]) /\ Joined(e[2])
      BY <2>3, <2>4
    <2> QED BY <2>5, <2>6 DEF Joined
  <1>12. new \in [DOMAIN new -> EdgeRecord] /\ DOMAIN new = links
    <2>1. \A e \in links : Distance(grown, e[1], e[2]) \in Nat
      BY <1>9, <1>11, DistanceIs
    <2> QED BY <2>1, GraphAssumption DEF EdgeRecord
  <1>13. DOMAIN new \cap DOMAIN grown.edges = {}
    <2>1. \A e \in DOMAIN graph.edges : e[1] \in 1 .. Len(graph.nodes)
      BY <1>1, Alive, NodeFacts
    <2> QED BY <1>7, <1>8, <1>11, <1>12, <2>1
  <1>14. DOMAIN new \subseteq Ids(grown) \X Ids(grown)
    BY <1>11, <1>12
  <1>15. \A e \in DOMAIN new : Live(grown, e[1]) /\ Live(grown, e[2])
    BY <1>11, <1>12
  <1>16. Changed(WithEdges(grown, new))
    BY DEF Discover, grown, ns, more, links
  <1> HIDE DEF new
  <1>17. GraphOK(WithEdges(grown, new))
    BY <1>8, <1>12, <1>13, <1>14, <1>15, Added
  <1> QED BY <1>1, <1>16, <1>17, ChangedKeeps

LEMMA EditKeeps ==
  ASSUME IInv, Edit
  PROVE  IInv'
  <1>1. \A origin \in Origins, type \in Types : AddNode(origin, type) => IInv'
    BY AddNodeKeeps
  <1>2. ASSUME graph # NoGraph, NEW n \in Ids(graph), NEW m \in Ids(graph), NEW type \in Types,
               NEW cost \in Costs \cup {Distance(graph, n, m)}, AddEdge(n, m, type, cost)
        PROVE  IInv'
    <2>1. cost \in Nat
      BY <1>2, GraphAssumption, DistanceIs DEF IInv, GraphInv, GraphOK
    <2> QED BY <1>2, <2>1, AddEdgeKeeps
  <1>4. \A e : \A cost \in Costs : SetEdgeCost(e, cost) => IInv'
    BY SetEdgeCostKeeps, GraphAssumption
  <1>5. \A e : \A type \in Types : SetEdgeType(e, type) => IInv'
    BY SetEdgeTypeKeeps
  <1>6. \A e : RemoveEdge(e) => IInv'
    BY RemoveEdgeKeeps
  <1>7. \A n : \A type \in Types : SetNodeType(n, type) => IInv'
    BY SetNodeTypeKeeps
  <1>8. \A n : \A origin \in Origins : SetNodeOrigin(n, origin) => IInv'
    BY SetNodeOriginKeeps
  <1>9. \A n : RemoveNode(n) => IInv'
    BY RemoveNodeKeeps
  <1>10. \A a, b \in Origins : Discover(<<a>>) \/ Discover(<<a, b>>) => IInv'
    <2>1. \A a, b \in Origins : <<a>> \in Seq(Origins) /\ <<a, b>> \in Seq(Origins)
      OBVIOUS
    <2> QED BY <2>1, DiscoverKeeps
  <1> QED BY <1>1, <1>2, <1>4, <1>5, <1>6, <1>7, <1>8, <1>9, <1>10 DEF Edit
-----------------------------------------------------------------------------
(* The life of a graph *)


LEMMA NoScratchOK == ScratchOK(NoScratch)
  <1>1. <<>> \in [1 .. 0 -> Nat] /\ <<>> \in [1 .. 0 -> 0 .. 0]
    OBVIOUS
  <1>2. 0 \in 0 .. IdRange - 1 /\ 0 \in Nat
    BY GraphAssumption
  <1> QED BY <1>1, <1>2 DEF ScratchOK, NoScratch

LEMMA InitHolds == Init => IInv
  <1> SUFFICES ASSUME Init
               PROVE  IInv
    OBVIOUS
  <1>1. GraphInv /\ NothingInv /\ CachesInv /\ JobInv /\ AnswerInv
    BY DEF Init, GraphInv, NothingInv, CachesInv, JobInv, AnswerInv
  <1>2. FileInv
    BY FileAssumption DEF Init, FileInv, Tables, NodeRecord, EdgeRecord, Ids
  <1>3. ScratchOK(scratch)
    BY NoScratchOK DEF Init
  <1> QED BY <1>1, <1>2, <1>3 DEF IInv

LEMMA FreshKeeps ==
  ASSUME IInv, NEW g, GraphOK(g), Fresh(g)
  PROVE  IInv'
  <1>1. /\ graph' = g /\ graph = NoGraph /\ caches' = caches /\ scratch' = scratch
        /\ job' = job /\ answer' = answer /\ file' = file
    BY DEF Fresh
  <1>2. caches = <<>> /\ job = Idle /\ answer = NoAnswer
    BY <1>1 DEF IInv, NothingInv
  <1>3. GraphInv'
    BY <1>1 DEF GraphInv
  <1>4. FileInv'
    BY <1>1 DEF IInv, FileInv
  <1>5. ScratchOK(scratch)'
    BY <1>1 DEF IInv, ScratchOK
  <1>6. NothingInv' /\ JobInv' /\ AnswerInv'
    BY <1>1, <1>2 DEF NothingInv, JobInv, AnswerInv
  <1>7. CachesInv'
    BY <1>1, <1>2 DEF CachesInv
  <1> QED BY <1>3, <1>4, <1>5, <1>6, <1>7 DEF IInv

LEMMA CreateKeeps ==
  ASSUME IInv, NEW persist, Create(persist)
  PROVE  IInv'
  <1> DEFINE g == [nodes |-> <<>>, edges |-> <<>>, edgeCount |-> 0, persist |-> persist]
  <1>1. g.nodes = <<>> /\ g.edges = <<>> /\ g.edgeCount = 0 /\ Shaped(g)
    BY DEF Shaped
  <1>2. Fresh(g)
    BY DEF Create
  <1> HIDE DEF g
  <1>3. DOMAIN g.edges = {} /\ g.edges \in [DOMAIN g.edges -> EdgeRecord]
    BY <1>1
  <1>4. g.nodes \in Seq(NodeRecord)
    BY <1>1
  <1>5. Cardinality({}) = 0
    BY FS_EmptySet
  <1>6. Tables(g) /\ Living(g)
    BY <1>1, <1>3, <1>4, <1>5 DEF Tables, Living
  <1> QED BY <1>1, <1>2, <1>6, FreshKeeps DEF GraphOK

LEMMA LoadKeeps ==
  ASSUME IInv, NEW persist, Load(persist)
  PROVE  IInv'
  <1> DEFINE g == [nodes |-> file.nodes, edges |-> file.edges,
                   edgeCount |-> file.edgeCount, persist |-> persist]
  <1>1. /\ g.nodes = file.nodes /\ g.edges = file.edges /\ g.edgeCount = file.edgeCount
        /\ Shaped(g)
    BY DEF Shaped
  <1>2. Fresh(g) /\ Loadable(file)
    BY DEF Load
  <1> HIDE DEF g
  <1>3. Tables(file)
    BY <1>2 DEF Loadable, IInv, FileInv
  <1>4. Tables(g)
    BY <1>1, <1>3 DEF Tables, Ids
  <1>5. Living(g)
    BY <1>1, <1>2 DEF Loadable, Living, Live, Ids
  <1> QED BY <1>1, <1>2, <1>4, <1>5, FreshKeeps DEF GraphOK

\* Of what is untouched the invariant stays.
LEMMA SaveKeeps ==
  ASSUME IInv, Save
  PROVE  IInv'
  <1>1. Tables(graph)
    BY ReadyGraph DEF Save
  <1>2. /\ graph' = graph /\ caches' = caches /\ scratch' = scratch
        /\ job' = job /\ answer' = answer
        /\ file' = [nodes |-> graph.nodes, edges |-> graph.edges,
                    edgeCount |-> graph.edgeCount]
    BY DEF Save
  <1>3. GraphInv' /\ NothingInv' /\ AnswerInv'
    BY <1>2 DEF IInv, GraphInv, NothingInv, AnswerInv
  <1>4. CachesInv'
    BY <1>2 DEF IInv, CachesInv
  <1>5. JobInv'
    BY <1>2 DEF IInv, JobInv
  <1>6. ScratchOK(scratch)'
    BY <1>2 DEF IInv, ScratchOK
  <1>7. FileInv'
    BY <1>1, <1>2 DEF FileInv, Tables, Ids
  <1> QED BY <1>3, <1>4, <1>5, <1>6, <1>7 DEF IInv

LEMMA ErasedKeeps ==
  ASSUME IInv, Ready, Erased
  PROVE  IInv'
  <1>1. /\ graph' = NoGraph /\ caches' = <<>> /\ scratch' = NoScratch
        /\ job' = Idle /\ answer' = NoAnswer /\ file' = file
    BY DEF Erased, Ready
  <1>2. GraphInv' /\ NothingInv' /\ CachesInv' /\ JobInv' /\ AnswerInv'
    BY <1>1 DEF GraphInv, NothingInv, CachesInv, JobInv, AnswerInv
  <1>3. FileInv'
    BY <1>1 DEF IInv, FileInv
  <1>4. ScratchOK(scratch')
    BY <1>1, NoScratchOK
  <1> QED BY <1>2, <1>3, <1>4 DEF IInv, ScratchOK

LEMMA RemoveKeeps ==
  ASSUME IInv, Remove \/ SpawnServer
  PROVE  IInv'
  BY ErasedKeeps DEF Remove, SpawnServer
-----------------------------------------------------------------------------
(* Trees *)

\* What of the invariant a step of a call leaves to be shown.
LEMMA OtherwiseKept ==
  ASSUME IInv, graph # NoGraph, graph' = graph, caches' = caches, file' = file,
         ScratchOK(scratch'), JobInv', AnswerInv'
  PROVE  IInv'
  <1>1. GraphInv'
    BY DEF IInv, GraphInv
  <1>2. FileInv'
    BY DEF IInv, FileInv
  <1>3. NothingInv'
    BY DEF NothingInv
  <1>4. CachesInv'
    BY DEF IInv, CachesInv
  <1> QED BY <1>1, <1>2, <1>3, <1>4 DEF IInv, ScratchOK

LEMMA FirstTree ==
  ASSUME NEW g, Tables(g), NEW q \in Queries, q.goal \in Ids(g), NEW j,
         j = [op |-> "tree",
              tree |-> [goal |-> q.goal, nodeMask |-> q.nodeMask, edgeMask |-> q.edgeMask,
                        cost |-> [n \in Ids(g) |-> IF n = q.goal THEN 0 ELSE FltMax],
                        next |-> [n \in Ids(g) |-> 0]],
              heap |-> {[f |-> 0, node |-> q.goal]},
              settled |-> {}]
  PROVE  TreeJob(g, j)
  <1> DEFINE t == j.tree
  <1>1. /\ j.op = "tree" /\ j.heap = {[f |-> 0, node |-> q.goal]} /\ j.settled = {}
        /\ j = [op |-> "tree", tree |-> j.tree, heap |-> j.heap, settled |-> j.settled]
    OBVIOUS
  <1>2. /\ t.goal = q.goal
        /\ t.cost = [n \in Ids(g) |-> IF n = q.goal THEN 0 ELSE FltMax]
        /\ t.next = [n \in Ids(g) |-> 0]
    OBVIOUS
  <1>3. t \in TreeType(g)
    BY DEF TreeType, FltMax
  <1>4. 0 < FltMax /\ FltMax \in Nat
    BY DEF FltMax
  <1> HIDE DEF t
  <1> DEFINE r == [n \in Ids(g) |-> 0]
  <1>5. \A n \in Ids(g) \ {t.goal} : t.cost[n] = FltMax
    BY <1>2
  <1>6. TreeCore(g, t, r)
    BY <1>2, <1>3, <1>4, <1>5 DEF TreeCore
  <1>7. RankedUpTo(g, r, {}, 0)
    BY DEF RankedUpTo
  <1>8. r \in [Ids(g) -> Nat] /\ 0 \in Nat
    OBVIOUS
  <1> HIDE DEF r
  <1>9. \E r2 \in [Ids(g) -> Nat], K \in Nat : TreeCore(g, t, r2) /\ RankedUpTo(g, r2, {}, K)
    BY <1>6, <1>7, <1>8
  <1>10. j.heap \subseteq [f : Nat, node : Ids(g)]
    BY <1>1
  <1>11. \A n \in Ids(g) : t.cost[n] < FltMax => [f |-> t.cost[n], node |-> n] \in j.heap
    BY <1>1, <1>2, <1>4
  <1>12. \A y \in j.heap : y.f < FltMax
    BY <1>1, <1>4
  <1>13. \A n \in Ids(g) \ {t.goal} : t.cost[n] < FltMax => t.next[n] \in {}
    BY <1>4, <1>5
  <1> QED BY <1>1, <1>9, <1>10, <1>11, <1>12, <1>13 DEF TreeJob, t

LEMMA PrecomputeKeeps ==
  ASSUME IInv, NEW q \in Queries, PrecomputePathsToNode(q)
  PROVE  IInv'
  <1>1. Tables(graph) /\ graph # NoGraph /\ q.goal \in Ids(graph)
    BY ReadyGraph DEF PrecomputePathsToNode, Ready, Live
  <1>2. /\ graph' = graph /\ caches' = caches /\ file' = file /\ scratch' = scratch
        /\ answer' = NoAnswer
    BY DEF PrecomputePathsToNode
  <1>3. TreeJob(graph, job')
    BY <1>1, FirstTree DEF PrecomputePathsToNode
  <1>4. JobInv'
    BY <1>2, <1>3 DEF JobInv
  <1>5. AnswerInv'
    BY <1>2 DEF AnswerInv
  <1>6. ScratchOK(scratch')
    BY <1>2 DEF IInv
  <1> QED BY <1>1, <1>2, <1>4, <1>5, <1>6, OtherwiseKept

LEMMA TreeFacts ==
  ASSUME NEW g, Tables(g), NEW t \in TreeType(g)
  PROVE  /\ t.goal \in Ids(g)
         /\ t.cost \in [Ids(g) -> Nat] /\ t.next \in [Ids(g) -> Nat]
         /\ t = [goal |-> t.goal, nodeMask |-> t.nodeMask, edgeMask |-> t.edgeMask,
                 cost |-> t.cost, next |-> t.next]
         /\ \A e \in Passable(g, t) : /\ e \in DOMAIN g.edges /\ e = <<e[1], e[2]>>
                                      /\ e[1] \in Ids(g) /\ e[2] \in Ids(g)
                                      /\ t.cost[e[1]] \in Nat /\ t.cost[e[2]] \in Nat
                                      /\ g.edges[e].cost \in Nat
  <1>1. /\ t.goal \in Ids(g)
        /\ t.cost \in [Ids(g) -> Nat] /\ t.next \in [Ids(g) -> Nat]
        /\ t = [goal |-> t.goal, nodeMask |-> t.nodeMask, edgeMask |-> t.edgeMask,
                cost |-> t.cost, next |-> t.next]
    BY DEF TreeType
  <1>2. ASSUME NEW e \in DOMAIN g.edges
        PROVE  /\ e = <<e[1], e[2]>> /\ e[1] \in Ids(g) /\ e[2] \in Ids(g)
               /\ g.edges[e].cost \in Nat
    <2>1. e \in Ids(g) \X Ids(g) /\ g.edges[e] \in EdgeRecord
      BY DEF Tables
    <2> QED BY <2>1 DEF EdgeRecord
  <1> QED BY <1>1, <1>2 DEF Passable

\* An entry that is out of date is dropped.
LEMMA StaleSettled ==
  ASSUME NEW g, NEW j, TreeJob(g, j), NEW x \in j.heap,
         x.node \in j.settled \/ x.f # j.tree.cost[x.node],
         NEW k, k.op = "tree", k.tree = j.tree, k.settled = j.settled, k.heap = j.heap \ {x},
         k = [op |-> "tree", tree |-> k.tree, heap |-> k.heap, settled |-> k.settled]
  PROVE  TreeJob(g, k)
  <1>2. \A n \in Ids(g) \ j.settled :
          j.tree.cost[n] < FltMax => [f |-> j.tree.cost[n], node |-> n] \in j.heap \ {x}
    <2> SUFFICES ASSUME NEW n \in Ids(g) \ j.settled, j.tree.cost[n] < FltMax
                 PROVE  [f |-> j.tree.cost[n], node |-> n] # x
      BY DEF TreeJob
    <2> QED OBVIOUS
  <1> QED BY <1>2 DEF TreeJob

\* A node n is settled: better are its predecessors that are led to it from now on.
SettledBy(g, j, x, n, better, u, k) ==
    /\ x \in Smallest(j.heap) /\ n = x.node /\ n \notin j.settled /\ x.f = j.tree.cost[n]
    /\ better \subseteq Ids(g)
    /\ \A m \in better : /\ <<m, n>> \in Passable(g, j.tree)
                         /\ j.tree.cost[n] + g.edges[<<m, n>>].cost < j.tree.cost[m]
    /\ \A m \in Ids(g) \ better : <<m, n>> \in Passable(g, j.tree) =>
            ~(j.tree.cost[n] + g.edges[<<m, n>>].cost < j.tree.cost[m])
    /\ u \in TreeType(g)
    /\ u.goal = j.tree.goal /\ u.nodeMask = j.tree.nodeMask /\ u.edgeMask = j.tree.edgeMask
    /\ \A m \in better : /\ u.cost[m] = j.tree.cost[n] + g.edges[<<m, n>>].cost
                         /\ u.next[m] = n
    /\ \A m \in Ids(g) \ better : u.cost[m] = j.tree.cost[m] /\ u.next[m] = j.tree.next[m]
    /\ k.op = "tree" /\ k.tree = u /\ k.settled = j.settled \cup {n}
    /\ k.heap = (j.heap \ {x}) \cup {[f |-> u.cost[m], node |-> m] : m \in better}
    /\ k = [op |-> "tree", tree |-> k.tree, heap |-> k.heap, settled |-> k.settled]

LEMMA NodeSettled ==
  ASSUME NEW g, Tables(g), NEW j, TreeJob(g, j),
         NEW x, NEW n, NEW better, NEW u, NEW k, SettledBy(g, j, x, n, better, u, k)
  PROVE  TreeJob(g, k)
  <1> DEFINE t == j.tree
  <1> USE DEF SettledBy
  <1> DEFINE S == j.settled
             S2 == j.settled \cup {n}
             w(m) == g.edges[<<m, n>>].cost
             new == {[f |-> u.cost[m], node |-> m] : m \in better}
             heap2 == (j.heap \ {x}) \cup new
  <1>1. /\ k.op = "tree" /\ k.tree = u /\ k.settled = S2 /\ k.heap = heap2
        /\ k = [op |-> "tree", tree |-> k.tree, heap |-> k.heap, settled |-> k.settled]
    OBVIOUS
  <1>2. /\ S \subseteq Ids(g) /\ x \in j.heap /\ x.f \in Nat /\ n \in Ids(g)
        /\ x.f < FltMax /\ FltMax \in Nat
        /\ \A y \in j.heap : y \in [f : Nat, node : Ids(g)]
        /\ \A y \in j.heap : y.f \in Nat /\ x.f <= y.f /\ y.f < FltMax
        /\ \A y \in j.heap, s \in S : t.cost[s] <= y.f
    BY DEF TreeJob, Smallest, FltMax
  <1>3. PICK r \in [Ids(g) -> Nat], K \in Nat : TreeCore(g, t, r) /\ RankedUpTo(g, r, S, K)
    BY DEF TreeJob
  <1>4. t \in TreeType(g)
    BY <1>3 DEF TreeCore
  <1>5. /\ t.goal \in Ids(g) /\ t.cost \in [Ids(g) -> Nat] /\ t.next \in [Ids(g) -> Nat]
        /\ u.cost \in [Ids(g) -> Nat] /\ u.next \in [Ids(g) -> Nat]
        /\ \A m \in Ids(g) : t.cost[m] \in Nat /\ u.cost[m] \in Nat
    BY <1>4, TreeFacts
  <1>6. \A m \in better : w(m) \in Nat
    BY <1>4, TreeFacts
  <1>7. \A m \in better : /\ u.cost[m] = x.f + w(m) /\ u.cost[m] < t.cost[m] /\ x.f <= u.cost[m]
                          /\ u.cost[m] < FltMax /\ m \in Ids(g)
    <2>1. \A m \in better : t.cost[m] <= FltMax
      BY <1>3 DEF TreeCore
    <2> HIDE DEF w
    <2>2. \A m \in better : u.cost[m] = x.f + w(m) /\ u.cost[m] < t.cost[m]
      BY DEF w
    <2> QED BY <1>2, <1>5, <1>6, <2>1, <2>2
  <1> HIDE DEF w, new
  <1>71. \A m \in better : /\ x.f <= u.cost[m] /\ u.cost[m] < t.cost[m] /\ ~(t.cost[m] <= x.f)
                           /\ u.cost[m] \in Nat /\ t.cost[m] \in Nat /\ t.cost[m] # 0
                           /\ u.cost[m] < FltMax
    <2> SUFFICES ASSUME NEW m \in better
                 PROVE  /\ x.f <= u.cost[m] /\ u.cost[m] < t.cost[m] /\ ~(t.cost[m] <= x.f)
                        /\ u.cost[m] \in Nat /\ t.cost[m] \in Nat /\ t.cost[m] # 0
                        /\ u.cost[m] < FltMax
      OBVIOUS
    <2>1. m \in Ids(g) /\ u.cost[m] \in Nat /\ t.cost[m] \in Nat
      BY <1>5
    <2>2. x.f <= u.cost[m] /\ u.cost[m] < t.cost[m] /\ u.cost[m] < FltMax
      BY <1>7
    <2> QED BY <1>2, <2>1, <2>2, SMTT(20)
  <1>8. \A m \in S2 : m \in Ids(g) \ better /\ u.cost[m] = t.cost[m] /\ u.next[m] = t.next[m]
    <2>1. \A m \in S2 : t.cost[m] <= x.f /\ m \in Ids(g)
      BY <1>2, <1>5
    <2> QED BY <1>71, <2>1
  <1>9. t.goal \notin better /\ u.cost[u.goal] = 0 /\ u.next[u.goal] = 0
    <2>1. t.cost[t.goal] = 0 /\ t.next[t.goal] = 0
      BY <1>3 DEF TreeCore
    <2>2. t.goal \notin better
      BY <1>71, <2>1
    <2> QED BY <1>5, <2>1, <2>2
  <1>10. \A m \in Ids(g) : u.cost[m] <= t.cost[m] /\ u.cost[m] <= FltMax
    <2>1. \A m \in Ids(g) : t.cost[m] <= FltMax
      BY <1>3 DEF TreeCore
    <2>2. ASSUME NEW m \in Ids(g)
          PROVE  u.cost[m] <= t.cost[m]
      <3>1. CASE m \in better
        BY <1>71, <3>1
      <3>2. CASE m \notin better
        BY <1>5, <3>2
      <3> QED BY <3>1, <3>2
    <2> QED BY <1>2, <1>5, <2>1, <2>2
  <1>11. S2 \subseteq Ids(g)
    BY <1>2
  <1>12. heap2 \subseteq [f : Nat, node : Ids(g)]
    BY <1>2, <1>5, <1>7 DEF new
  <1>13. \A y \in heap2 : y.f < FltMax /\ \A m \in S2 : u.cost[m] <= y.f
    <2> SUFFICES ASSUME NEW y \in heap2
                 PROVE  y.f < FltMax /\ \A m \in S2 : u.cost[m] <= y.f
      OBVIOUS
    <2>1. y.f < FltMax /\ x.f <= y.f /\ y.f \in Nat
      <3>1. CASE y \in j.heap
        BY <1>2, <3>1
      <3>2. CASE y \in new
        <4>1. PICK m \in better : y = [f |-> u.cost[m], node |-> m]
          BY <3>2 DEF new
        <4>2. y.f = u.cost[m]
          BY <4>1
        <4> QED BY <1>71, <4>2
      <3> QED BY <3>1, <3>2
    <2>2. ASSUME NEW m \in S2
          PROVE  u.cost[m] <= x.f
      BY <1>2, <1>8
    <2> QED BY <1>2, <1>5, <1>11, <2>1, <2>2
  <1>14. \A m \in Ids(g) \ S2 : u.cost[m] < FltMax => [f |-> u.cost[m], node |-> m] \in heap2
    <2> SUFFICES ASSUME NEW m \in Ids(g) \ S2, u.cost[m] < FltMax
                 PROVE  [f |-> u.cost[m], node |-> m] \in heap2
      OBVIOUS
    <2>1. CASE m \in better
      BY <2>1 DEF new
    <2>2. CASE m \notin better
      <3>1. [f |-> t.cost[m], node |-> m] \in j.heap
        BY <2>2 DEF TreeJob
      <3>2. m # n
        OBVIOUS
      <3>3. [f |-> t.cost[m], node |-> m] # x
        BY <3>2
      <3> QED BY <2>2, <3>1, <3>3
    <2> QED BY <2>1, <2>2
  <1>15. \A m \in S2 : u.cost[m] < FltMax
    BY <1>2, <1>8 DEF TreeJob
  <1>16. \A m \in Ids(g) \ {u.goal} : u.cost[m] < FltMax => u.next[m] \in S2
    BY DEF TreeJob
  <1>17. \A e \in Passable(g, u) : e[2] \in S2 => Relaxes(g, u, e)
    <2> SUFFICES ASSUME NEW e \in Passable(g, u), e[2] \in S2
                 PROVE  Relaxes(g, u, e)
      OBVIOUS
    <2>0. e \in Passable(g, t)
      BY DEF Passable
    <2>1. /\ e = <<e[1], e[2]>> /\ e[1] \in Ids(g) /\ e[2] \in Ids(g) /\ g.edges[e].cost \in Nat
      BY <1>4, <2>0, TreeFacts
    <2>2. u.cost[e[2]] = t.cost[e[2]] /\ u.cost[e[1]] <= t.cost[e[1]]
      BY <1>8, <1>10, <2>1
    <2>3. CASE e[2] \in S
      <3>1. t.cost[e[1]] <= t.cost[e[2]] + g.edges[e].cost
        BY <2>0, <2>3 DEF TreeJob, Relaxes
      <3> QED BY <1>5, <2>1, <2>2, <3>1 DEF Relaxes
    <2>4. CASE e[2] = n
      <3>1. e = <<e[1], n>>
        BY <2>1, <2>4
      <3>2. CASE e[1] \in better
        <4>1. u.cost[e[1]] = t.cost[n] + g.edges[e].cost
          BY <3>1, <3>2
        <4> QED BY <1>5, <2>1, <2>2, <2>4, <4>1 DEF Relaxes
      <3>3. CASE e[1] \notin better
        <4>1. ~(t.cost[n] + g.edges[e].cost < t.cost[e[1]])
          BY <2>0, <2>1, <3>1, <3>3
        <4> QED BY <1>5, <2>1, <2>2, <2>4, <4>1 DEF Relaxes
      <3> QED BY <3>2, <3>3
    <2> QED BY <2>3, <2>4
  <1> DEFINE r2 == [m \in Ids(g) |-> IF m \in S THEN r[m] ELSE IF m = n THEN K ELSE K + 1]
  <1>18. r2 \in [Ids(g) -> Nat] /\ K + 1 \in Nat
    OBVIOUS
  <1>19. \A m \in Ids(g) : /\ m \in S => r2[m] = r[m] /\ r2[m] < K
                           /\ m = n => r2[m] = K
                           /\ m \notin S2 => r2[m] = K + 1
    BY <1>3 DEF RankedUpTo
  <1> HIDE DEF r2
  <1>20. RankedUpTo(g, r2, S2, K + 1)
    BY <1>18, <1>19 DEF RankedUpTo
  <1>21. ASSUME NEW m \in Ids(g) \ {u.goal}, u.cost[m] < FltMax
         PROVE  r2[u.next[m]] < r2[m]
    <2>1. u.next[m] \in S2 /\ u.next[m] \in Ids(g)
      BY <1>11, <1>16, <1>21
    <2>2. CASE m \notin S2
      BY <1>18, <1>19, <2>1, <2>2
    <2>3. CASE m \in S2
      <3>1. u.next[m] = t.next[m] /\ u.cost[m] = t.cost[m] /\ t.cost[m] < FltMax
        BY <1>8, <1>21, <2>3
      <3>2. t.next[m] \in S /\ r[t.next[m]] < r[m]
        BY <1>3, <1>21, <3>1 DEF TreeCore, TreeJob
      <3>3. CASE m \in S
        BY <1>19, <2>1, <3>1, <3>2, <3>3
      <3>4. CASE m = n
        BY <1>19, <2>1, <3>1, <3>2, <3>4
      <3> QED BY <2>3, <3>3, <3>4
    <2> QED BY <2>2, <2>3
  <1>22. ASSUME NEW m \in Ids(g) \ {u.goal}, u.cost[m] < FltMax
         PROVE  Led(g, u, m)
    <2>1. u.next[m] \in S2 /\ u.cost[u.next[m]] = t.cost[u.next[m]] /\ u.next[m] \in Ids(g)
      BY <1>8, <1>16, <1>22
    <2>2. CASE m \in better
      <3>1. u.next[m] = n /\ <<m, n>> \in Passable(g, u)
        BY <2>2 DEF Passable
      <3> QED BY <2>1, <2>2, <3>1 DEF Led
    <2>3. CASE m \notin better
      <3>1. u.next[m] = t.next[m] /\ u.cost[m] = t.cost[m]
        BY <2>3
      <3>2. Led(g, t, m)
        BY <1>3, <1>22, <3>1 DEF TreeCore
      <3> QED BY <2>1, <3>1, <3>2 DEF Led, Passable
    <2> QED BY <2>2, <2>3
  <1>23. TreeCore(g, u, r2)
    BY <1>9, <1>10, <1>18, <1>21, <1>22 DEF TreeCore
  <1>24. \E rr \in [Ids(g) -> Nat], KK \in Nat : TreeCore(g, u, rr) /\ RankedUpTo(g, rr, S2, KK)
    BY <1>18, <1>20, <1>23
  <1> HIDE DEF S2, heap2, SettledBy
  <1> QED BY <1>1, <1>11, <1>12, <1>13, <1>14, <1>15, <1>16, <1>17, <1>24 DEF TreeJob

LEMMA OverNothing ==
  ASSUME NEW S, NEW old \in [S -> Nat], NEW new, DOMAIN new = {}
  PROVE  Over(new, old) = old
  BY DEF Over

\* v is old but for what new gives on D.
PutOver(v, S, D, old, new) ==
    /\ v \in [S -> Nat]
    /\ \A y \in D : v[y] = new[y]
    /\ \A y \in S \ D : v[y] = old[y]

LEMMA OverNats ==
  ASSUME NEW S, NEW D, D \subseteq S, NEW old \in [S -> Nat], NEW new \in [D -> Nat]
  PROVE  PutOver(Over(new, old), S, D, old, new)
  <1>1. /\ DOMAIN Over(new, old) = S
        /\ \A y \in D : Over(new, old)[y] = new[y]
        /\ \A y \in S \ D : Over(new, old)[y] = old[y]
    BY DEF Over
  <1>2. Over(new, old) = [y \in DOMAIN Over(new, old) |-> Over(new, old)[y]]
    BY DEF Over
  <1>3. \A y \in S : Over(new, old)[y] \in Nat
    <2>1. \A y \in S : y \in D \/ y \in S \ D
      OBVIOUS
    <2> QED BY <1>1, <2>1
  <1> QED BY <1>1, <1>2, <1>3 DEF PutOver

LEMMA TreeRuns ==
  ASSUME IInv, job.op = "tree"
  PROVE  GraphOK(graph) /\ Tables(graph) /\ TreeJob(graph, job) /\ graph # NoGraph
  <1>1. job # Idle
    BY DEF Idle
  <1>2. graph # NoGraph
    BY <1>1 DEF IInv, NothingInv
  <1>3. ~SearchJob(graph, scratch, job)
    BY DEF SearchJob
  <1> QED BY <1>1, <1>2, <1>3 DEF IInv, GraphInv, JobInv, GraphOK

LEMMA SettleKeeps ==
  ASSUME IInv, NEW x \in Smallest(job.heap), Settle(x)
  PROVE  IInv'
  <1> DEFINE t == job.tree
             n == x.node
             stale == n \in job.settled \/ x.f # t.cost[n]
             masked == Meets(graph.nodes[n].type, t.nodeMask)
             better == IF stale \/ masked THEN {} ELSE Improved(t, n)
             costs == [m \in better |-> CostBy(t, n, m)]
             links == [m \in better |-> n]
             u == [t EXCEPT !.cost = Over(costs, t.cost), !.next = Over(links, t.next)]
             heap2 == (job.heap \ {x}) \cup {[f |-> CostBy(t, n, m), node |-> m] : m \in better}
             settled2 == IF stale THEN job.settled ELSE job.settled \cup {n}
  <1>0. job.op = "tree"
    BY DEF Settle
  <1>1. GraphOK(graph) /\ Tables(graph) /\ TreeJob(graph, job) /\ graph # NoGraph
    BY <1>0, TreeRuns
  <1>2. /\ graph' = graph /\ caches' = caches /\ file' = file /\ scratch' = scratch
        /\ answer' = answer
    BY DEF Settle
  <1>3. job = [op |-> "tree", tree |-> t, heap |-> job.heap, settled |-> job.settled]
    BY <1>1 DEF TreeJob
  <1>4. t \in TreeType(graph)
    BY <1>1 DEF TreeJob, TreeCore
  <1>5. /\ t.cost \in [Ids(graph) -> Nat] /\ t.next \in [Ids(graph) -> Nat]
        /\ t = [goal |-> t.goal, nodeMask |-> t.nodeMask, edgeMask |-> t.edgeMask,
                cost |-> t.cost, next |-> t.next]
    BY <1>1, <1>4, TreeFacts
  <1>51. t.cost \in [Ids(graph) -> Nat] /\ t.next \in [Ids(graph) -> Nat]
    BY <1>5
  <1>61. /\ u = [goal |-> u.goal, nodeMask |-> u.nodeMask, edgeMask |-> u.edgeMask,
                 cost |-> u.cost, next |-> u.next]
         /\ u.goal = t.goal /\ u.nodeMask = t.nodeMask /\ u.edgeMask = t.edgeMask
         /\ u.cost = Over(costs, t.cost) /\ u.next = Over(links, t.next)
    <2> DEFINE c == Over(costs, t.cost)
               l == Over(links, t.next)
    <2>1. u = [t EXCEPT !.cost = c, !.next = l]
      OBVIOUS
    <2> HIDE DEF c, l, u, t
    <2>2. u = [goal |-> u.goal, nodeMask |-> u.nodeMask, edgeMask |-> u.edgeMask,
               cost |-> u.cost, next |-> u.next]
      BY <1>5, <2>1
    <2>3. /\ u.goal = t.goal /\ u.nodeMask = t.nodeMask /\ u.edgeMask = t.edgeMask
          /\ u.cost = c /\ u.next = l
      BY <1>5, <2>1
    <2> QED BY <2>2, <2>3 DEF c, l
  <1>62. job' = [job EXCEPT !.heap = heap2, !.settled = settled2, !.tree = u]
    BY DEF Settle
  <1> HIDE DEF u
  <1>7. /\ job' = [op |-> "tree", tree |-> job'.tree, heap |-> job'.heap, settled |-> job'.settled]
        /\ job'.op = "tree" /\ job'.tree = u /\ job'.heap = heap2 /\ job'.settled = settled2
    <2> HIDE DEF heap2, settled2
    <2>1. job'.op = "tree" /\ job'.tree = u /\ job'.heap = heap2 /\ job'.settled = settled2
      BY <1>3, <1>62
    <2>2. job' = [op |-> job'.op, tree |-> job'.tree, heap |-> job'.heap, settled |-> job'.settled]
      BY <1>3, <1>62
    <2> QED BY <2>1, <2>2
  <1>8. x \in job.heap /\ n \in Ids(graph) /\ n \in Nat
    <2>1. x \in job.heap
      BY DEF Smallest
    <2>2. x \in [f : Nat, node : Ids(graph)]
      BY <1>1, <2>1 DEF TreeJob
    <2> QED BY <1>1, <2>1, <2>2, NodeFacts
  <1>9. TreeJob(graph, job')
    <2>1. CASE stale
      <3>1. better = {} /\ settled2 = job.settled /\ heap2 = job.heap \ {x}
        BY <2>1
      <3>2. DOMAIN costs = {} /\ DOMAIN links = {}
        BY <3>1
      <3> HIDE DEF costs, links, better, heap2, settled2
      <3>3. Over(costs, t.cost) = t.cost /\ Over(links, t.next) = t.next
        BY <1>5, <3>2, OverNothing
      <3>4. u = t
        BY <1>5, <1>61, <3>3
      <3>5. /\ job' = [op |-> "tree", tree |-> job'.tree, heap |-> job'.heap, settled |-> job'.settled]
            /\ job'.op = "tree" /\ job'.tree = job.tree /\ job'.settled = job.settled
            /\ job'.heap = job.heap \ {x}
        BY <1>7, <3>1, <3>4
      <3> QED BY <1>1, <1>8, <2>1, <3>5, StaleSettled
    <2>2. CASE ~stale
      <3>0. n \notin job.settled /\ x.f = t.cost[n] /\ settled2 = job.settled \cup {n}
        BY <2>2
      <3>1. better = IF masked THEN {} ELSE Improved(t, n)
        BY <2>2
      <3>2. better \subseteq Ids(graph)
        BY <3>1 DEF Improved
      <3>3. \A m \in better : /\ <<m, n>> \in Passable(graph, t)
                              /\ t.cost[n] + graph.edges[<<m, n>>].cost < t.cost[m]
        BY <3>1 DEF Improved, Passable
      <3>4. \A m \in Ids(graph) \ better : <<m, n>> \in Passable(graph, t) =>
               ~(t.cost[n] + graph.edges[<<m, n>>].cost < t.cost[m])
        BY <3>1 DEF Improved, Passable
      <3>5. \A m \in better : CostBy(t, n, m) = t.cost[n] + graph.edges[<<m, n>>].cost
        BY DEF CostBy
      <3>6. \A m \in better : CostBy(t, n, m) \in Nat
        <4> SUFFICES ASSUME NEW m \in better
                     PROVE  CostBy(t, n, m) \in Nat
          OBVIOUS
        <4> DEFINE e == <<m, n>>
        <4>1. e \in Passable(graph, t) /\ e[2] = n
          BY <3>3
        <4>2. CostBy(t, n, m) = t.cost[e[2]] + graph.edges[e].cost
          BY <3>5, <4>1
        <4> HIDE DEF e
        <4>3. t.cost[e[2]] \in Nat /\ graph.edges[e].cost \in Nat
          BY <1>1, <1>4, <4>1, TreeFacts
        <4> QED BY <4>2, <4>3
      <3>7. costs \in [better -> Nat] /\ links \in [better -> Nat]
        BY <1>8, <3>6
      <3>71. \A m \in better : costs[m] = CostBy(t, n, m) /\ links[m] = n
        OBVIOUS
      <3> HIDE DEF better, costs, links, settled2
      <3>8. /\ Over(costs, t.cost) \in [Ids(graph) -> Nat]
            /\ Over(links, t.next) \in [Ids(graph) -> Nat]
            /\ \A m \in better : Over(costs, t.cost)[m] = costs[m] /\ Over(links, t.next)[m] = links[m]
            /\ \A m \in Ids(graph) \ better : /\ Over(costs, t.cost)[m] = t.cost[m]
                                              /\ Over(links, t.next)[m] = t.next[m]
        <4>1. PutOver(Over(costs, t.cost), Ids(graph), better, t.cost, costs)
          BY <1>51, <3>2, <3>7, OverNats
        <4>2. PutOver(Over(links, t.next), Ids(graph), better, t.next, links)
          BY <1>51, <3>2, <3>7, OverNats
        <4> QED BY <4>1, <4>2 DEF PutOver
      <3>9. /\ u.cost = Over(costs, t.cost) /\ u.next = Over(links, t.next)
            /\ u.goal = t.goal /\ u.nodeMask = t.nodeMask /\ u.edgeMask = t.edgeMask
        BY <1>61
      <3>10. u \in TreeType(graph)
        BY <1>4, <1>61, <3>8 DEF TreeType
      <3> HIDE DEF t, n, stale
      <3>11. \A m \in better : /\ u.cost[m] = t.cost[n] + graph.edges[<<m, n>>].cost
                               /\ u.next[m] = n /\ CostBy(t, n, m) = u.cost[m]
        BY <3>5, <3>71, <3>8, <3>9
      <3>12. \A m \in Ids(graph) \ better : u.cost[m] = t.cost[m] /\ u.next[m] = t.next[m]
        BY <3>8, <3>9
      <3>13. heap2 = (job.heap \ {x}) \cup {[f |-> u.cost[m], node |-> m] : m \in better}
        <4> DEFINE a(m) == [f |-> CostBy(t, n, m), node |-> m]
                   b(m) == [f |-> u.cost[m], node |-> m]
        <4>1. \A m \in better : a(m) = b(m)
          BY <3>11
        <4>2. heap2 = (job.heap \ {x}) \cup {a(m) : m \in better}
          OBVIOUS
        <4> HIDE DEF a, b, heap2
        <4>3. {a(m) : m \in better} = {b(m) : m \in better}
          BY <4>1
        <4>4. heap2 = (job.heap \ {x}) \cup {b(m) : m \in better}
          BY <4>2, <4>3
        <4> QED BY <4>4 DEF b
      <3>14. /\ job'.op = "tree" /\ job'.tree = u /\ job'.settled = job.settled \cup {n}
             /\ job'.heap = (job.heap \ {x}) \cup {[f |-> u.cost[m], node |-> m] : m \in better}
             /\ job' = [op |-> "tree", tree |-> job'.tree, heap |-> job'.heap,
                        settled |-> job'.settled]
        BY <1>7, <3>0, <3>13
      <3>15. n = x.node /\ t = job.tree
        BY DEF n, t
      <3> HIDE DEF heap2
      <3>16. SettledBy(graph, job, x, n, better, u, job')
        BY <3>0, <3>2, <3>3, <3>4, <3>9, <3>10, <3>11, <3>12, <3>14, <3>15 DEF SettledBy
      <3> QED BY <1>1, <3>16, NodeSettled
    <2> QED BY <2>1, <2>2
  <1>10. JobInv'
    BY <1>2, <1>9 DEF JobInv
  <1>11. AnswerInv'
    BY <1>2 DEF IInv, AnswerInv
  <1>12. ScratchOK(scratch')
    BY <1>2 DEF IInv
  <1> QED BY <1>1, <1>2, <1>10, <1>11, <1>12, OtherwiseKept

\* When the heap is empty no edge is left to try.
LEMMA TreeDone ==
  ASSUME NEW g, Tables(g), NEW j, TreeJob(g, j), j.heap = {}
  PROVE  j.tree \in TreeType(g) /\ TreeOK(g, j.tree)
  <1> DEFINE t == j.tree
  <1>1. PICK r \in [Ids(g) -> Nat], K \in Nat : TreeCore(g, t, r)
    BY DEF TreeJob
  <1>2. t \in TreeType(g) /\ \A n \in Ids(g) : t.cost[n] <= FltMax
    BY <1>1 DEF TreeCore
  <1>3. ASSUME NEW e \in Passable(g, t)
        PROVE  Relaxes(g, t, e)
    <2>1. /\ e[1] \in Ids(g) /\ e[2] \in Ids(g) /\ g.edges[e].cost \in Nat
          /\ t.cost[e[1]] \in Nat /\ t.cost[e[2]] \in Nat
      BY <1>2, TreeFacts
    <2>2. CASE e[2] \in j.settled
      BY <2>2 DEF TreeJob
    <2>3. CASE e[2] \notin j.settled
      <3>1. ~(t.cost[e[2]] < FltMax)
        BY <2>1, <2>3 DEF TreeJob
      <3>2. t.cost[e[1]] <= FltMax /\ FltMax \in Nat
        BY <1>2, <2>1 DEF FltMax
      <3> QED BY <2>1, <3>1, <3>2 DEF Relaxes
    <2> QED BY <2>2, <2>3
  <1> QED BY <1>1, <1>2, <1>3 DEF TreeOK

LEMMA StoreKeeps ==
  ASSUME IInv, Store
  PROVE  IInv'
  <1> DEFINE t == job.tree
             X == {v \in TreeType(graph) : TreeOK(graph, v)}
             older == IF Len(caches) >= MaxCaches THEN Tail(caches) ELSE caches
  <1>1. GraphOK(graph) /\ Tables(graph) /\ TreeJob(graph, job) /\ graph # NoGraph
    BY TreeRuns DEF Store
  <1>2. /\ graph' = graph /\ file' = file /\ scratch' = scratch /\ answer' = answer
        /\ job' = Idle
    BY DEF Store
  <1>3. t \in X
    BY <1>1, TreeDone DEF Store
  <1>4. caches \in Seq(X)
    <2>1. caches \in Seq(TreeType(graph)) /\ \A i \in DOMAIN caches : TreeOK(graph, caches[i])
      BY <1>1 DEF IInv, CachesInv
    <2>2. /\ Len(caches) \in Nat /\ DOMAIN caches = 1 .. Len(caches)
          /\ caches = [i \in 1 .. Len(caches) |-> caches[i]]
      BY <2>1
    <2>3. \A i \in 1 .. Len(caches) : caches[i] \in X
      BY <2>1, <2>2
    <2> QED BY <2>2, <2>3
  <1>5. caches' = IF FindPrecompute(t) # {}
                  THEN [i \in DOMAIN caches |-> IF SameTree(caches[i], t) THEN t ELSE caches[i]]
                  ELSE Append(older, t)
    BY DEF Store
  <1> HIDE DEF t
  <1>6. caches' \in Seq(X)
    <2> HIDE DEF X
    <2>1. [i \in DOMAIN caches |-> IF SameTree(caches[i], t) THEN t ELSE caches[i]] \in Seq(X)
      BY <1>3, <1>4
    <2>2. older \in Seq(X)
      <3>1. CASE caches = <<>>
        <4>1. Len(caches) = 0 /\ ~(0 >= MaxCaches)
          BY <3>1, GraphAssumption
        <4> QED BY <1>4, <4>1
      <3>2. CASE caches # <<>>
        BY <1>4, <3>2
      <3> QED BY <3>1, <3>2
    <2> HIDE DEF older
    <2>3. Append(older, t) \in Seq(X)
      BY <1>3, <2>2
    <2> QED BY <1>5, <2>1, <2>3
  <1>7. caches' \in Seq(TreeType(graph)) /\ \A i \in DOMAIN caches' : TreeOK(graph, caches'[i])
    <2>1. \A i \in DOMAIN caches' : caches'[i] \in X
      BY <1>6
    <2>2. /\ Len(caches') \in Nat /\ DOMAIN caches' = 1 .. Len(caches')
          /\ caches' = [i \in 1 .. Len(caches') |-> caches'[i]]
      BY <1>6
    <2> QED BY <2>1, <2>2
  <1>8. CachesInv'
    BY <1>2, <1>7 DEF CachesInv
  <1>9. GraphInv' /\ JobInv' /\ AnswerInv'
    BY <1>2 DEF IInv, GraphInv, JobInv, AnswerInv
  <1>10. FileInv' /\ NothingInv'
    BY <1>1, <1>2 DEF IInv, FileInv, NothingInv
  <1>11. ScratchOK(scratch)'
    BY <1>2 DEF IInv, ScratchOK
  <1> QED BY <1>8, <1>9, <1>10, <1>11 DEF IInv
-----------------------------------------------------------------------------
(* Answers from a tree *)

LEMMA TimesAtLeast ==
  ASSUME NEW w \in Nat \ {0}, NEW c \in Nat
  PROVE  c <= w * c /\ w * c \in Nat
  <1>1. w >= 1 /\ c >= 0
    OBVIOUS
  <1> QED BY <1>1, Z3

\* The links of M are open edges.
OpenLinks(M, link, end, g, q) ==
    \A m \in M : m # end /\ link[m] # 0 => <<m, link[m]>> \in Open(g, q)

\* A walk whose links are open edges is a way, and passes no node twice.
LEMMA WalkedWay ==
  ASSUME NEW g, Tables(g), NEW q, NEW M, M \subseteq Ids(g), NEW r, NEW link, NEW end,
         q.start \in M, Ranked(M, r, link, end),
         NEW w, Follows(w, M, r, q.start, link, end), Len(w) <= Len(g.nodes),
         OpenLinks(M, link, end, g, q)
  PROVE  Way(g, q, w) /\ IsInjective(w)
  <1>1. w \in Seq(M) /\ Len(w) \in Nat \ {0} /\ DOMAIN w = 1 .. Len(w) /\ w[1] = q.start
    BY DEF Follows
  <1>2. \A i \in 1 .. Len(w) : w[i] \in M /\ r[w[i]] \in Nat
    BY <1>1 DEF Ranked
  <1>3. ASSUME NEW i \in 2 .. Len(w)
        PROVE  LinkAt(w, i) \in Open(g, q)
    <2>1. i - 1 \in 1 .. Len(w)
      BY <1>1, <1>3
    <2>2. w[i] = link[w[i - 1]] /\ w[i - 1] # end /\ w[i] # 0
      BY <1>3 DEF Follows
    <2> QED BY <1>2, <2>1, <2>2 DEF LinkAt, OpenLinks
  <1>4. \A i, j \in 1 .. Len(w) : i < j => w[i] # w[j]
    BY <1>2, SMTT(20) DEF Follows
  <1>5. ASSUME NEW i \in DOMAIN w, NEW j \in DOMAIN w, w[i] = w[j]
        PROVE  i = j
    <2>1. i \in 1 .. Len(w) /\ j \in 1 .. Len(w)
      BY <1>1
    <2>2. i < j \/ j < i \/ i = j
      BY <1>1, <2>1
    <2> QED BY <1>4, <1>5, <2>1, <2>2
  <1>6. IsInjective(w)
    BY <1>5 DEF IsInjective
  <1>7. w \in Seq(Ids(g)) /\ Len(w) \in 1 .. Len(g.nodes)
    BY <1>1, NodeFacts
  <1> QED BY <1>1, <1>3, <1>6, <1>7 DEF Way

LEMMA WayWalks ==
  ASSUME NEW g, NEW a, Way(g, a.q, a.path), IsInjective(a.path)
  PROVE  Walkable(g, a)
  <1>1. /\ a.path \in Seq(Ids(g)) /\ Len(a.path) \in 1 .. Len(g.nodes)
        /\ a.path[1] = a.q.start
        /\ \A i \in 2 .. Len(a.path) : LinkAt(a.path, i) \in Open(g, a.q)
    BY DEF Way
  <1>2. DOMAIN a.path = 1 .. Len(a.path) /\ Len(a.path) \in Nat
    BY <1>1
  <1>3. \A i \in Links(a.path) : i \in 2 .. Len(a.path)
    BY <1>2 DEF Links
  <1> QED BY <1>1, <1>3 DEF Walkable

\* No round brings a node below what the tree says.
TreeBelow(u, k, g, t, q) ==
    \A n \in Ids(g) : t.cost[q.start] <= u[k][n] + t.cost[n]

LEMMA RoundsAboveTree ==
  ASSUME NEW g, Tables(g), NEW t \in TreeType(g), NEW q, q.start \in Ids(g),
         \A n \in Ids(g) : t.cost[n] <= FltMax,
         \A e \in Open(g, q) : Relaxes(g, t, e)
  PROVE  \A n \in Ids(g) : /\ Cheapest(g, q)[n] \in Nat
                           /\ t.cost[q.start] <= Cheapest(g, q)[n] + t.cost[n]
  <1> DEFINE N == Len(g.nodes)
             c == t.cost[q.start]
  <1>1. N \in Nat /\ N \in 0 .. N
    BY NodeFacts
  <1>2. PICK u \in [0 .. N -> [Ids(g) -> Nat]] : Rounds(u, g, q) /\ Cheapest(g, q) = u[N]
    BY CheapestIs
  <1>3. t.cost \in [Ids(g) -> Nat] /\ c \in Nat /\ \A n \in Ids(g) : t.cost[n] \in Nat
    BY TreeFacts
  <1>4. \A k \in 0 .. N : u[k] \in [Ids(g) -> Nat] /\ \A n \in Ids(g) : u[k][n] \in Nat
    BY <1>2
  <1> DEFINE T == {k \in Nat : k <= N => TreeBelow(u, k, g, t, q)}
  <1>5. 0 \in T
    <2>1. u[0] = [n \in Ids(g) |-> IF n = q.start THEN 0 ELSE FltMax]
      BY <1>2 DEF Rounds
    <2>2. \A n \in Ids(g) : t.cost[q.start] <= u[0][n] + t.cost[n]
      <3> SUFFICES ASSUME NEW n \in Ids(g)
                   PROVE  t.cost[q.start] <= u[0][n] + t.cost[n]
        OBVIOUS
      <3>1. CASE n = q.start
        BY <1>3, <2>1, <3>1
      <3>2. CASE n # q.start
        <4>1. u[0][n] = FltMax /\ t.cost[q.start] <= FltMax /\ FltMax \in Nat
          BY <2>1, <3>2 DEF FltMax
        <4> QED BY <1>3, <4>1
      <3> QED BY <3>1, <3>2
    <2> QED BY <2>2 DEF TreeBelow
  <1>6. ASSUME NEW k \in Nat, k \in T
        PROVE  k + 1 \in T
    <2> SUFFICES ASSUME k + 1 <= N, NEW n \in Ids(g)
                 PROVE  t.cost[q.start] <= u[k + 1][n] + t.cost[n]
      BY DEF TreeBelow
    <2>1. k \in 0 .. N /\ k + 1 \in 1 .. N /\ (k + 1) - 1 = k /\ k <= N
      BY <1>1
    <2>2. u[k + 1] = Further(g, q, u[k]) /\ u[k] \in [Ids(g) -> Nat]
      BY <1>2, <2>1 DEF Rounds
    <2>3. \A m \in Ids(g) : t.cost[q.start] <= u[k][m] + t.cost[m]
      BY <1>6, <2>1 DEF TreeBelow
    <2>4. CASE u[k + 1][n] = u[k][n]
      BY <2>3, <2>4
    <2>5. ASSUME NEW e \in Open(g, q), e[2] = n, u[k + 1][n] = u[k][e[1]] + g.edges[e].cost
          PROVE  t.cost[q.start] <= u[k + 1][n] + t.cost[n]
      <3>1. e[1] \in Ids(g) /\ g.edges[e].cost \in Nat
        BY OpenEdge
      <3>2. t.cost[e[1]] <= t.cost[n] + g.edges[e].cost
        BY <2>5 DEF Relaxes
      <3>3. t.cost[q.start] <= u[k][e[1]] + t.cost[e[1]]
        BY <2>3, <3>1
      <3>4. u[k][e[1]] \in Nat
        BY <1>4, <2>1, <3>1
      <3> DEFINE all == t.cost[q.start]
                 left == t.cost[n]
                 before == t.cost[e[1]]
                 paid == u[k][e[1]]
                 cost == g.edges[e].cost
      <3>5. /\ all \in Nat /\ left \in Nat /\ before \in Nat /\ paid \in Nat /\ cost \in Nat
        BY <1>3, <3>1, <3>4
      <3>6. before <= left + cost /\ all <= paid + before
        BY <3>2, <3>3
      <3>7. u[k + 1][n] = paid + cost
        BY <2>5
      <3> HIDE DEF all, left, before, paid, cost
      <3>8. all <= (paid + cost) + left
        BY <3>5, <3>6
      <3> QED BY <3>7, <3>8 DEF all, left
    <2>6. \/ u[k + 1][n] = u[k][n]
          \/ \E e \in Open(g, q) : e[2] = n /\ u[k + 1][n] = u[k][e[1]] + g.edges[e].cost
      <3>1. Stepped(Further(g, q, u[k]), u[k], g, q)
        BY <2>2, FurtherIs
      <3> QED BY <2>2, <3>1 DEF Stepped
    <2> QED BY <2>4, <2>5, <2>6
  <1>7. N \in T
    <2> HIDE DEF T
    <2> QED BY <1>1, <1>5, <1>6, SetInduction
  <1>8. TreeBelow(u, N, g, t, q)
    BY <1>1, <1>7
  <1> QED BY <1>1, <1>2, <1>4, <1>8 DEF TreeBelow

\* Along a tree's links the cost so far makes up what the tree says is left.
LEMMA CostAlongTree ==
  ASSUME NEW g, Tables(g), NEW t \in TreeType(g), NEW w, NEW a, Len(w) \in Nat \ {0},
         \A i \in 1 .. Len(w) : w[i] \in Ids(g) /\ a[i] \in Nat, Along(a, g, w),
         \A i \in 2 .. Len(w) : /\ LinkAt(w, i) \in Passable(g, t)
                                /\ t.cost[w[i - 1]] = t.cost[w[i]] + g.edges[LinkAt(w, i)].cost
  PROVE  a[Len(w)] + t.cost[w[Len(w)]] = t.cost[w[1]]
  <1> DEFINE L == Len(w)
             T == {k \in Nat : k + 1 <= L => a[k + 1] + t.cost[w[k + 1]] = t.cost[w[1]]}
  <1>1. \A i \in 1 .. L : w[i] \in Ids(g) /\ a[i] \in Nat /\ t.cost[w[i]] \in Nat
    BY TreeFacts
  <1>2. 1 \in 1 .. L /\ L \in Nat
    OBVIOUS
  <1>3. 0 \in T
    BY <1>1, <1>2 DEF Along
  <1>4. ASSUME NEW k \in Nat, k \in T
        PROVE  k + 1 \in T
    <2> DEFINE i == (k + 1) + 1
    <2> SUFFICES ASSUME i <= L
                 PROVE  a[i] + t.cost[w[i]] = t.cost[w[1]]
      OBVIOUS
    <2>1. i \in 2 .. L /\ i - 1 = k + 1 /\ k + 1 <= L /\ i \in 1 .. L /\ k + 1 \in 1 .. L
      BY <1>2
    <2> HIDE DEF i
    <2>2. a[k + 1] + t.cost[w[k + 1]] = t.cost[w[1]]
      BY <1>4, <2>1
    <2>3. /\ a[i] = a[k + 1] + g.edges[LinkAt(w, i)].cost
          /\ t.cost[w[k + 1]] = t.cost[w[i]] + g.edges[LinkAt(w, i)].cost
      BY <2>1 DEF Along
    <2>4. g.edges[LinkAt(w, i)].cost \in Nat
      BY <2>1, TreeFacts
    <2> DEFINE paid == a[k + 1]
               now == a[i]
               before == t.cost[w[k + 1]]
               left == t.cost[w[i]]
               all == t.cost[w[1]]
               cost == g.edges[LinkAt(w, i)].cost
    <2>5. /\ paid \in Nat /\ now \in Nat /\ before \in Nat /\ left \in Nat
          /\ all \in Nat /\ cost \in Nat
      BY <1>1, <1>2, <2>1, <2>4
    <2>6. paid + before = all /\ now = paid + cost /\ before = left + cost
      BY <2>2, <2>3
    <2> HIDE DEF paid, now, before, left, all, cost
    <2>7. now + left = all
      BY <2>5, <2>6
    <2> QED BY <2>7 DEF now, left, all
  <1>5. L - 1 \in T
    <2> HIDE DEF T
    <2>1. L - 1 \in Nat
      BY <1>2
    <2> QED BY <1>3, <1>4, <2>1, SetInduction
  <1>6. (L - 1) + 1 = L
    BY <1>2
  <1> QED BY <1>5, <1>6

LEMMA CachedAnswer ==
  ASSUME NEW g, Tables(g), NEW t \in TreeType(g), TreeOK(g, t), NEW q, q.start \in Ids(g),
         q.goal = t.goal, q.nodeMask = t.nodeMask, q.edgeMask = t.edgeMask, q.skip = {},
         q.weight \in Nat \ {0}, t.cost[q.start] < FltMax,
         NEW a, a = [q |-> q, path |-> Walk(g, q.start, t.next, q.goal), cached |-> TRUE]
  PROVE  AnswerOK(g, a)
  <1> DEFINE w == Walk(g, q.start, t.next, q.goal)
             L == Len(w)
             M == {n \in Ids(g) : t.cost[n] < FltMax}
  <1>1. PICK r \in [Ids(g) -> Nat] : TreeCore(g, t, r)
    BY DEF TreeOK
  <1> DEFINE rM == [m \in M |-> r[m]]
  <1>2. /\ t.goal \in Ids(g) /\ t.cost \in [Ids(g) -> Nat] /\ t.next \in [Ids(g) -> Nat]
        /\ \A n \in Ids(g) : t.cost[n] \in Nat /\ t.cost[n] <= FltMax
        /\ FltMax \in Nat /\ 0 \notin Ids(g)
    BY <1>1, TreeFacts, NodeFacts DEF TreeCore, FltMax
  <1>3. Open(g, q) = Passable(g, t)
    BY DEF Open, Passable
  <1>4. \A m \in M \ {t.goal} : /\ t.next[m] \in Ids(g) /\ r[t.next[m]] < r[m]
                                /\ <<m, t.next[m]>> \in Passable(g, t)
                                /\ t.cost[m] = t.cost[t.next[m]] + g.edges[<<m, t.next[m]>>].cost
    BY <1>1 DEF TreeCore, Led
  <1>5. ASSUME NEW m \in M \ {t.goal}
        PROVE  t.next[m] \in M
    <2> DEFINE e == <<m, t.next[m]>>
    <2>1. e \in Passable(g, t) /\ t.cost[m] = t.cost[t.next[m]] + g.edges[e].cost
      BY <1>4
    <2> HIDE DEF e
    <2>2. g.edges[e].cost \in Nat
      BY <2>1, TreeFacts
    <2>3. /\ t.next[m] \in Ids(g) /\ t.cost[t.next[m]] \in Nat
          /\ t.cost[m] < FltMax /\ t.cost[m] \in Nat
      BY <1>2, <1>4
    <2>4. t.cost[t.next[m]] < FltMax
      BY <1>2, <2>1, <2>2, <2>3
    <2> QED BY <2>3, <2>4
  <1>6. M \subseteq Ids(g) /\ q.start \in M /\ rM \in [M -> Nat] /\ \A m \in M : rM[m] = r[m]
    OBVIOUS
  <1> HIDE DEF M, rM
  <1>7. Ranked(M, rM, t.next, q.goal)
    BY <1>4, <1>5, <1>6 DEF Ranked
  <1>8. g.nodes \in Seq(NodeRecord)
    BY DEF Tables
  <1>9. /\ Follows(w, M, rM, q.start, t.next, q.goal) /\ Ended(w, t.next, q.goal)
        /\ L <= Len(g.nodes)
    BY <1>6, <1>7, <1>8, WalkIs
  <1> HIDE DEF w
  <1>10. OpenLinks(M, t.next, q.goal, g, q)
    BY <1>3, <1>4 DEF OpenLinks
  <1>11. Way(g, q, w) /\ IsInjective(w)
    BY <1>6, <1>7, <1>9, <1>10, WalkedWay
  <1>12. L \in Nat \ {0} /\ w[1] = q.start /\ \A i \in 1 .. L : w[i] \in M /\ w[i] \in Ids(g)
    BY <1>6, <1>9 DEF Follows
  <1>13. w[L] = q.goal
    <2>1. L \in 1 .. L /\ w[L] \in M
      BY <1>12
    <2>2. w[L] # t.goal => t.next[w[L]] \in Ids(g)
      BY <1>4, <2>1
    <2>3. w[L] = t.goal \/ t.next[w[L]] = 0
      BY <1>9 DEF Ended
    <2> QED BY <1>2, <2>2, <2>3
  <1>14. PICK b \in [1 .. L -> Nat] : Along(b, g, w) /\ PathCost(g, w) = b[L]
    BY <1>11, WayCosts
  <1>15. \A i \in 2 .. L : /\ LinkAt(w, i) \in Passable(g, t)
                           /\ t.cost[w[i - 1]] = t.cost[w[i]] + g.edges[LinkAt(w, i)].cost
    <2> SUFFICES ASSUME NEW i \in 2 .. L
                 PROVE  /\ LinkAt(w, i) \in Passable(g, t)
                        /\ t.cost[w[i - 1]] = t.cost[w[i]] + g.edges[LinkAt(w, i)].cost
      OBVIOUS
    <2>1. w[i] = t.next[w[i - 1]] /\ w[i - 1] # q.goal
      BY <1>9 DEF Follows
    <2>2. i - 1 \in 1 .. L
      BY <1>12
    <2>3. w[i - 1] \in M \ {t.goal}
      BY <1>12, <2>1, <2>2
    <2> QED BY <1>4, <2>1, <2>3 DEF LinkAt
  <1>16. b[L] + t.cost[q.goal] = t.cost[q.start]
    <2>1. \A i \in 1 .. L : w[i] \in Ids(g) /\ b[i] \in Nat
      BY <1>12, <1>14
    <2> QED BY <1>12, <1>13, <1>14, <1>15, <2>1, CostAlongTree
  <1>17. PathCost(g, w) = t.cost[q.start]
    <2>1. t.cost[q.goal] = 0
      BY <1>1 DEF TreeCore
    <2>2. b[L] \in Nat
      BY <1>12, <1>14
    <2> QED BY <1>14, <1>16, <2>1, <2>2
  <1>18. Cheapest(g, q)[q.goal] \in Nat /\ Cheapest(g, q)[q.goal] <= PathCost(g, w)
    BY <1>11, <1>13, CheapestBelow
  <1>19. t.cost[q.start] <= Cheapest(g, q)[q.goal]
    <2>1. \A e \in Open(g, q) : Relaxes(g, t, e)
      BY <1>3 DEF TreeOK
    <2>2. t.cost[q.start] <= Cheapest(g, q)[q.goal] + t.cost[q.goal]
      BY <1>2, <2>1, RoundsAboveTree
    <2>3. t.cost[q.goal] = 0
      BY <1>1 DEF TreeCore
    <2> QED BY <1>18, <2>2, <2>3
  <1>20. PathCost(g, w) = Cheapest(g, q)[q.goal] /\ Cheapest(g, q)[q.goal] < FltMax
    BY <1>2, <1>17, <1>18, <1>19
  <1>21. PathCost(g, w) <= q.weight * Cheapest(g, q)[q.goal]
    BY <1>18, <1>20, TimesAtLeast
  <1>22. a.q = q /\ a.path = w /\ a.cached = TRUE
    BY DEF w
  <1>23. Walkable(g, a)
    BY <1>11, <1>22, WayWalks
  <1>24. CheapEnough(g, a)
    BY <1>13, <1>20, <1>21, <1>22 DEF CheapEnough
  <1> QED BY <1>23, <1>24 DEF AnswerOK

LEMMA OnlyOneFits ==
  ASSUME NEW q, NEW S, caches \in Seq(S), NEW i \in FindPrecompute(q), NEW j \in FindPrecompute(q)
  PROVE  i = j
  <1>1. i \in 1 .. Len(caches) /\ j \in 1 .. Len(caches) /\ Len(caches) \in Nat
    BY DEF FindPrecompute
  <1>2. SameTree(caches[i], q) /\ SameTree(caches[j], q)
    BY DEF FindPrecompute
  <1>3. ~(i < j) /\ ~(j < i)
    BY <1>1, <1>2 DEF FindPrecompute
  <1> QED BY <1>1, <1>3

LEMMA CalledGraph ==
  ASSUME IInv, NEW q, Called(q)
  PROVE  /\ GraphOK(graph) /\ Tables(graph) /\ graph # NoGraph
         /\ job = Idle /\ q.start \in Ids(graph) /\ q.goal \in Ids(graph)
         /\ graph' = graph /\ caches' = caches /\ file' = file
  BY ReadyGraph DEF Called, Ready, Live

LEMMA FromCacheKeeps ==
  ASSUME IInv, NEW q \in Queries, FromCache(q)
  PROVE  IInv'
  <1>1. /\ GraphOK(graph) /\ Tables(graph) /\ graph # NoGraph
        /\ job = Idle /\ q.start \in Ids(graph) /\ q.goal \in Ids(graph)
        /\ graph' = graph /\ caches' = caches /\ file' = file
    BY CalledGraph DEF FromCache
  <1>2. scratch' = scratch /\ job' = job
    BY DEF FromCache
  <1>3. PICK i \in FindPrecompute(q) :
          Answered(q, Walk(graph, q.start, caches[i].next, q.goal), TRUE)
    BY DEF FromCache
  <1> DEFINE t == caches[i]
  <1>4. caches \in Seq(TreeType(graph)) /\ \A k \in DOMAIN caches : TreeOK(graph, caches[k])
    BY <1>1 DEF IInv, CachesInv
  <1>5. i \in DOMAIN caches /\ SameTree(t, q)
    BY DEF FindPrecompute
  <1>6. t \in TreeType(graph) /\ TreeOK(graph, t)
    BY <1>4, <1>5
  <1>7. t.cost[q.start] < FltMax /\ q.skipless
    <2>1. PICK k \in FindPrecompute(q) : caches[k].cost[q.start] < FltMax
      BY DEF FromCache, CacheAnswers
    <2>2. k = i
      BY <1>4, OnlyOneFits
    <2> QED BY <2>1, <2>2 DEF FromCache, CacheAnswers
  <1>8. q.goal = t.goal /\ q.nodeMask = t.nodeMask /\ q.edgeMask = t.edgeMask
    BY <1>5 DEF SameTree
  <1>9. q.skip = {} /\ q.weight \in Nat \ {0}
    <2>1. q.weight \in Nat \ {0}
      BY QueryAssumption
    <2>2. q.skipless => q.skip = {}
      BY QueryAssumption, Zenon
    <2> QED BY <1>7, <2>1, <2>2
  <1>10. answer' = [q |-> q, path |-> Walk(graph, q.start, t.next, q.goal), cached |-> TRUE]
    BY <1>3 DEF Answered
  <1> HIDE DEF t
  <1>11. AnswerOK(graph, answer')
    BY <1>1, <1>6, <1>7, <1>8, <1>9, <1>10, CachedAnswer
  <1>12. AnswerInv'
    BY <1>1, <1>11 DEF AnswerInv
  <1>13. JobInv'
    BY <1>1, <1>2 DEF JobInv
  <1>14. ScratchOK(scratch')
    BY <1>2 DEF IInv
  <1> QED BY <1>1, <1>12, <1>13, <1>14, OtherwiseKept
-----------------------------------------------------------------------------
(* Numbers in the search *)

LEMMA ModSmall ==
  ASSUME NEW d \in Nat \ {0}, NEW x \in 0 .. d - 1
  PROVE  (x % d) = x
  BY Z3

LEMMA ModWhole ==
  ASSUME NEW d \in Nat \ {0}
  PROVE  (d % d) = 0
  BY Z3

LEMMA ProductIs ==
  ASSUME NEW a \in Nat, NEW b \in Nat
  PROVE  a * b \in Nat /\ a * b = b * a
  BY Z3

LEMMA ProductMono ==
  ASSUME NEW w \in Nat, NEW a \in Nat, NEW b \in Nat, a <= b
  PROVE  w * a <= w * b
  BY Z3

LEMMA Distributes ==
  ASSUME NEW w \in Nat, NEW a \in Nat, NEW b \in Nat
  PROVE  w * (a + b) = (w * a) + (w * b)
  BY Z3

-----------------------------------------------------------------------------
(* The scratch *)

LEMMA ScratchFacts ==
  ASSUME NEW s, ScratchOK(s), NEW g, Tables(g), s.size >= Len(g.nodes)
  PROVE  /\ Ids(g) \subseteq 1 .. s.size /\ s.size \in Nat /\ s.id \in 0 .. IdRange - 1
         /\ \A n \in Ids(g) : /\ s.g[n] \in Nat /\ s.f[n] \in Nat /\ s.parent[n] \in Nat
                              /\ s.stamp[n] \in 0 .. s.id /\ s.closed[n] \in 0 .. s.id
  <1>1. Ids(g) \subseteq 1 .. s.size
    BY NodeFacts DEF ScratchOK
  <1> QED BY <1>1 DEF ScratchOK

\* With room for all nodes, and no node stamped or closed in this search.
Cleared(b) == \A n \in 1 .. b.size : b.stamp[n] # b.id /\ b.closed[n] # b.id

LEMMA BegunIs ==
  ASSUME NEW s, ScratchOK(s), Tables(graph)
  PROVE  ScratchOK(Begun(s)) /\ Begun(s).size >= Len(graph.nodes) /\ Cleared(Begun(s))
  <1> DEFINE size == IF s.size < Len(graph.nodes) THEN Len(graph.nodes) ELSE s.size
             grown(f) == [n \in 1 .. size |-> IF n \in DOMAIN f THEN f[n] ELSE 0]
             id == (s.id + 1) % IdRange
             stamps(f) == IF id = 0 THEN [n \in 1 .. size |-> 0] ELSE grown(f)
             b == Begun(s)
  <1>1. s.size \in Nat /\ Len(graph.nodes) \in Nat /\ s.id \in 0 .. IdRange - 1 /\ IdRange \in Nat
        /\ IdRange >= 2
    BY NodeFacts, GraphAssumption DEF ScratchOK
  <1>2. size \in Nat /\ size >= Len(graph.nodes)
    BY <1>1
  <1>3. /\ b.id = (IF id = 0 THEN 1 ELSE id) /\ b.size = size
        /\ b.g = grown(s.g) /\ b.f = grown(s.f) /\ b.parent = grown(s.parent)
        /\ b.stamp = stamps(s.stamp) /\ b.closed = stamps(s.closed)
        /\ b = [id |-> b.id, size |-> b.size, g |-> b.g, f |-> b.f, parent |-> b.parent,
                stamp |-> b.stamp, closed |-> b.closed]
    BY DEF Begun
  <1>4. id = 0 \/ id = s.id + 1
    <2>1. CASE s.id + 1 = IdRange
      <3>1. (IdRange % IdRange) = 0
        BY <1>1, ModWhole
      <3> QED BY <2>1, <3>1
    <2>2. CASE s.id + 1 # IdRange
      <3>1. s.id + 1 \in 0 .. IdRange - 1
        BY <1>1, <2>2
      <3>2. IdRange \in Nat \ {0}
        BY <1>1
      <3> QED BY <3>1, <3>2, ModSmall
    <2> QED BY <2>1, <2>2
  <1>5. id = s.id + 1 => s.id + 1 \in 0 .. IdRange - 1
    <2>1. (IdRange % IdRange) = 0
      BY <1>1, ModWhole
    <2> QED BY <1>1, <2>1
  <1> HIDE DEF id, size, b
  <1>6. b.id \in 0 .. IdRange - 1 /\ b.id \in Nat
    BY <1>1, <1>3, <1>4, <1>5
  <1>7. ASSUME NEW f \in [1 .. s.size -> Nat]
        PROVE  grown(f) \in [1 .. size -> Nat]
    OBVIOUS
  <1>8. ASSUME NEW f \in [1 .. s.size -> 0 .. s.id]
        PROVE  stamps(f) \in [1 .. size -> 0 .. b.id] /\ \A n \in 1 .. size : stamps(f)[n] # b.id
    <2>1. CASE id = 0
      <3>1. stamps(f) = [n \in 1 .. size |-> 0]
        BY <2>1
      <3>2. b.id = 1
        BY <1>3, <2>1
      <3> QED BY <3>1, <3>2
    <2>2. CASE id # 0
      <3>1. stamps(f) = grown(f) /\ b.id = s.id + 1
        BY <1>3, <1>4, <2>2
      <3>2. \A n \in 1 .. size : grown(f)[n] \in 0 .. s.id
        BY <1>1
      <3>3. \A k \in 0 .. s.id : k \in 0 .. s.id + 1 /\ k # s.id + 1
        BY <1>1
      <3>4. grown(f) \in [1 .. size -> 0 .. s.id + 1]
        BY <3>2, <3>3
      <3> QED BY <3>1, <3>2, <3>3, <3>4
    <2> QED BY <2>1, <2>2
  <1>9. /\ s.g \in [1 .. s.size -> Nat] /\ s.f \in [1 .. s.size -> Nat]
        /\ s.parent \in [1 .. s.size -> Nat]
        /\ s.stamp \in [1 .. s.size -> 0 .. s.id] /\ s.closed \in [1 .. s.size -> 0 .. s.id]
    BY DEF ScratchOK
  <1> HIDE DEF grown, stamps
  <1>10. /\ b.g \in [1 .. b.size -> Nat] /\ b.f \in [1 .. b.size -> Nat]
         /\ b.parent \in [1 .. b.size -> Nat]
    BY <1>3, <1>7, <1>9
  <1>11. /\ b.stamp \in [1 .. b.size -> 0 .. b.id] /\ b.closed \in [1 .. b.size -> 0 .. b.id]
         /\ \A n \in 1 .. b.size : b.stamp[n] # b.id /\ b.closed[n] # b.id
    BY <1>3, <1>8, <1>9
  <1>12. ScratchOK(b)
    BY <1>2, <1>3, <1>6, <1>10, <1>11 DEF ScratchOK
  <1> QED BY <1>2, <1>3, <1>11, <1>12 DEF b, Cleared

\* What a search begins with: of this graph only what is to be skipped is closed.
Prepared(m, skip) ==
    /\ ScratchOK(m) /\ m.size >= Len(graph.nodes)
    /\ \A n \in Ids(graph) : m.stamp[n] # m.id
    /\ \A n \in Ids(graph) : (m.closed[n] = m.id) <=> (n \in skip)

LEMMA PreparedIs ==
  ASSUME NEW s, ScratchOK(s), Tables(graph), NEW skip
  PROVE  Prepared(Marked(Begun(s), skip), skip)
  <1> DEFINE b == Begun(s)
             m == Marked(b, skip)
             c == [n \in DOMAIN b.closed |->
                     IF n \in skip \cap Ids(graph) THEN b.id ELSE b.closed[n]]
  <1>1. ScratchOK(b) /\ b.size >= Len(graph.nodes) /\ Cleared(b)
    BY BegunIs
  <1>2. m = [b EXCEPT !.closed = c]
    BY DEF Marked
  <1> HIDE DEF b, m
  <1>3. /\ b = [id |-> b.id, size |-> b.size, g |-> b.g, f |-> b.f, parent |-> b.parent,
                stamp |-> b.stamp, closed |-> b.closed]
        /\ b.closed \in [1 .. b.size -> 0 .. b.id] /\ b.id \in Nat
    BY <1>1 DEF ScratchOK
  <1>4. c \in [1 .. b.size -> 0 .. b.id] /\ DOMAIN b.closed = 1 .. b.size
    <2>1. DOMAIN b.closed = 1 .. b.size /\ b.id \in 0 .. b.id
      BY <1>3
    <2>2. \A n \in 1 .. b.size : b.closed[n] \in 0 .. b.id
      BY <1>3
    <2> QED BY <2>1, <2>2
  <1>41. \A n \in 1 .. b.size : c[n] = IF n \in skip \cap Ids(graph) THEN b.id ELSE b.closed[n]
    BY <1>4
  <1> HIDE DEF c
  <1>5. /\ m.id = b.id /\ m.size = b.size /\ m.g = b.g /\ m.f = b.f /\ m.parent = b.parent
        /\ m.stamp = b.stamp /\ m.closed = c
    BY <1>2, <1>3
  <1>6. m = [id |-> m.id, size |-> m.size, g |-> m.g, f |-> m.f, parent |-> m.parent,
             stamp |-> m.stamp, closed |-> m.closed]
    BY <1>2, <1>3
  <1>7. ScratchOK(m)
    BY <1>1, <1>4, <1>5, <1>6 DEF ScratchOK
  <1>8. \A n \in Ids(graph) : n \in 1 .. b.size
    BY <1>1, ScratchFacts
  <1>9. \A n \in Ids(graph) : m.stamp[n] # m.id
    BY <1>1, <1>5, <1>8 DEF Cleared
  <1>10. \A n \in Ids(graph) : (m.closed[n] = m.id) <=> (n \in skip)
    BY <1>1, <1>41, <1>5, <1>8 DEF Cleared
  <1> QED BY <1>1, <1>5, <1>7, <1>9, <1>10 DEF Prepared, b, m

-----------------------------------------------------------------------------
(* The start of a search *)

LEMMA StartIsGoal ==
  ASSUME NEW g, Tables(g), NEW q, q.start \in Ids(g), q.start = q.goal, q.weight \in Nat \ {0},
         NEW a, a = [q |-> q, path |-> <<q.start>>, cached |-> FALSE]
  PROVE  AnswerOK(g, a)
  <1> DEFINE path == <<q.start>>
  <1>1. a.q = q /\ a.path = path /\ a.cached = FALSE
    OBVIOUS
  <1>2. path \in Seq(Ids(g)) /\ Len(path) = 1 /\ path[1] = q.start /\ DOMAIN path = 1 .. 1
    OBVIOUS
  <1> HIDE DEF path
  <1>3. 1 \in 1 .. Len(g.nodes)
    BY NodeFacts
  <1>4. Way(g, q, path)
    BY <1>2, <1>3 DEF Way
  <1>5. IsInjective(path)
    BY <1>2 DEF IsInjective
  <1>6. PICK b \in [1 .. Len(path) -> Nat] :
          Along(b, g, path) /\ PathCost(g, path) = b[Len(path)]
    BY <1>4, WayCosts
  <1>7. PathCost(g, path) = 0
    BY <1>2, <1>6 DEF Along
  <1>8. Cheapest(g, q)[q.goal] \in Nat /\ Cheapest(g, q)[q.goal] <= 0
    BY <1>2, <1>4, <1>7, CheapestBelow
  <1>9. 0 <= q.weight * Cheapest(g, q)[q.goal]
    BY <1>8, TimesAtLeast
  <1>10. Cheapest(g, q)[q.goal] < FltMax
    BY <1>8 DEF FltMax
  <1>11. Walkable(g, a)
    BY <1>1, <1>4, <1>5, WayWalks
  <1>12. CheapEnough(g, a)
    BY <1>1, <1>2, <1>7, <1>9, <1>10 DEF CheapEnough
  <1> QED BY <1>11, <1>12 DEF AnswerOK

LEMMA AtGoalKeeps ==
  ASSUME IInv, NEW q \in Queries, AtGoal(q)
  PROVE  IInv'
  <1>1. /\ GraphOK(graph) /\ Tables(graph) /\ graph # NoGraph
        /\ job = Idle /\ q.start \in Ids(graph) /\ q.goal \in Ids(graph)
        /\ graph' = graph /\ caches' = caches /\ file' = file
    BY CalledGraph DEF AtGoal
  <1>2. /\ job' = job /\ scratch' = Marked(Begun(scratch), q.skip) /\ q.start = q.goal
        /\ answer' = [q |-> q, path |-> <<q.start>>, cached |-> FALSE]
    BY DEF AtGoal, Answered
  <1>3. q.weight \in Nat \ {0}
    BY QueryAssumption
  <1>4. AnswerOK(graph, answer')
    BY <1>1, <1>2, <1>3, StartIsGoal
  <1>5. ScratchOK(scratch')
    BY <1>1, <1>2, PreparedIs DEF IInv, Prepared
  <1>6. AnswerInv'
    BY <1>1, <1>4 DEF AnswerInv
  <1>7. JobInv'
    BY <1>1, <1>2 DEF JobInv
  <1> QED BY <1>1, <1>5, <1>6, <1>7, OtherwiseKept

\* s is m with its start stamped.
Started(s, m, start, hw) ==
    /\ s.id = m.id /\ s.size = m.size /\ s.closed = m.closed
    /\ s.g = [m.g EXCEPT ![start] = 0] /\ s.f = [m.f EXCEPT ![start] = hw]
    /\ s.stamp = [m.stamp EXCEPT ![start] = m.id]
    /\ s.parent = [m.parent EXCEPT ![start] = start]
    /\ s = [id |-> s.id, size |-> s.size, g |-> s.g, f |-> s.f, parent |-> s.parent,
            stamp |-> s.stamp, closed |-> s.closed]

LEMMA StartedIs ==
  ASSUME NEW m, ScratchOK(m), NEW start \in 1 .. m.size, NEW hw \in Nat,
         NEW s, Started(s, m, start, hw)
  PROVE  /\ ScratchOK(s)
         /\ s.g[start] = 0 /\ s.f[start] = hw /\ s.stamp[start] = s.id
         /\ \A n \in 1 .. m.size : n # start => s.stamp[n] = m.stamp[n]
  <1>1. /\ m.g \in [1 .. m.size -> Nat] /\ m.f \in [1 .. m.size -> Nat]
        /\ m.parent \in [1 .. m.size -> Nat] /\ m.size \in Nat /\ m.id \in 0 .. IdRange - 1
        /\ m.stamp \in [1 .. m.size -> 0 .. m.id] /\ m.closed \in [1 .. m.size -> 0 .. m.id]
    BY DEF ScratchOK
  <1> DEFINE g == [m.g EXCEPT ![start] = 0]
             f == [m.f EXCEPT ![start] = hw]
             stamp == [m.stamp EXCEPT ![start] = m.id]
             parent == [m.parent EXCEPT ![start] = start]
  <1>2. start \in Nat /\ m.id \in 0 .. m.id /\ IdRange \in Nat
    BY <1>1, GraphAssumption
  <1>3. g \in [1 .. m.size -> Nat] /\ g[start] = 0
    BY <1>1
  <1>4. f \in [1 .. m.size -> Nat] /\ f[start] = hw
    BY <1>1
  <1>5. parent \in [1 .. m.size -> Nat]
    BY <1>1, <1>2
  <1>6. /\ stamp \in [1 .. m.size -> 0 .. m.id] /\ stamp[start] = m.id
        /\ \A n \in 1 .. m.size : n # start => stamp[n] = m.stamp[n]
    BY <1>1, <1>2
  <1>7. /\ s.id = m.id /\ s.size = m.size /\ s.closed = m.closed
        /\ s.g = g /\ s.f = f /\ s.stamp = stamp /\ s.parent = parent
        /\ s = [id |-> s.id, size |-> s.size, g |-> s.g, f |-> s.f, parent |-> s.parent,
                stamp |-> s.stamp, closed |-> s.closed]
    BY DEF Started
  <1> HIDE DEF g, f, stamp, parent
  <1>8. ScratchOK(s)
    BY <1>1, <1>3, <1>4, <1>5, <1>6, <1>7 DEF ScratchOK
  <1> QED BY <1>3, <1>4, <1>6, <1>7, <1>8

\* The start is reached; it is done with only if it is to be skipped itself.
LEMMA FirstSearch ==
  ASSUME Tables(graph), NEW q \in Queries, q.start \in Ids(graph), q.goal \in Ids(graph),
         q.start # q.goal, NEW m, Prepared(m, q.skip), NEW h, h = Distance(graph, q.start, q.goal),
         NEW s, Started(s, m, q.start, h * q.weight),
         NEW j, j = [op |-> "search", q |-> q, expansions |-> 0, best |-> q.start, bestH |-> h,
                     heap |-> {[f |-> h * q.weight, node |-> q.start]}]
  PROVE  ScratchOK(s) /\ SearchJob(graph, s, j)
  <1> DEFINE g == graph
             start == q.start
             hw == h * q.weight
  <1>1. /\ ScratchOK(m) /\ m.size >= Len(g.nodes)
        /\ \A n \in Ids(g) : m.stamp[n] # m.id
        /\ \A n \in Ids(g) : (m.closed[n] = m.id) <=> (n \in q.skip)
    BY DEF Prepared
  <1>2. h \in Nat /\ q.weight \in Nat /\ hw \in Nat /\ q.weight \in Nat \ {0}
    <2>1. h \in Nat /\ q.weight \in Nat /\ q.weight \in Nat \ {0}
      BY DistanceIs, QueryAssumption
    <2> QED BY <2>1, ProductIs
  <1>3. start \in 1 .. m.size /\ start \in Nat /\ m.id \in Nat /\ m.id \in 0 .. m.id
        /\ Ids(g) \subseteq 1 .. m.size
    <2>1. Ids(g) \subseteq 1 .. m.size /\ m.id \in 0 .. IdRange - 1
      BY <1>1, ScratchFacts
    <2>2. start \in Nat /\ start \in 1 .. m.size
      BY <2>1
    <2>3. m.id \in Nat /\ m.id \in 0 .. m.id
      BY <2>1
    <2> QED BY <2>1, <2>2, <2>3
  <1> HIDE DEF g, start, hw
  <1>7. /\ ScratchOK(s)
        /\ s.g[start] = 0 /\ s.f[start] = hw /\ s.stamp[start] = s.id
        /\ \A n \in 1 .. m.size : n # start => s.stamp[n] = m.stamp[n]
    <2>1. Started(s, m, start, hw)
      BY DEF start, hw
    <2> QED BY <1>1, <1>2, <1>3, <2>1, StartedIs
  <1>71. s.id = m.id /\ s.size = m.size /\ s.closed = m.closed
    BY DEF Started
  <1>8. \A n \in Ids(g) : n # start => s.stamp[n] # s.id
    BY <1>1, <1>3, <1>7, <1>71
  <1>9. Reached(g, s) = {start} /\ start \in Ids(g)
    BY <1>7, <1>8 DEF Reached, start, g
  <1>10. \A n \in Ids(g) : Closed(s, n) <=> (n \in q.skip)
    BY <1>1, <1>71 DEF Closed
  <1>11. \A n \in Done(g, s) : n = start /\ start \in q.skip
    BY <1>9, <1>10 DEF Done
  <1>12. \E r \in [Ids(g) -> Nat], K \in Nat :
           /\ RankedUpTo(g, r, Done(g, s), K)
           /\ \A n \in Reached(g, s) \ {start} : r[s.parent[n]] < r[n]
    <2> DEFINE r == [n \in Ids(g) |-> IF n \in Done(g, s) THEN 0 ELSE 1]
    <2>1. r \in [Ids(g) -> Nat] /\ 1 \in Nat /\ RankedUpTo(g, r, Done(g, s), 1)
      BY DEF RankedUpTo
    <2> HIDE DEF r
    <2> QED BY <1>9, <2>1
  <1>13. ReachedInv(g, s, q)
    <2>1. s.size >= Len(g.nodes)
      BY <1>1, <1>71
    <2>2. q.goal \notin Done(g, s)
      BY <1>11 DEF start
    <2>3. \A n \in Reached(g, s) : s.f[n] = s.g[n] + (Distance(g, n, q.goal) * q.weight)
      <3>1. Distance(g, start, q.goal) * q.weight = hw
        BY DEF g, start, hw
      <3> QED BY <1>2, <1>7, <1>9, <3>1
    <2>4. \A n \in Ids(g) : Closed(s, n) => n \in Reached(g, s) \/ n \in q.skip
      BY <1>10
    <2>5. \A n \in Ids(g) \cap q.skip : Closed(s, n)
      BY <1>10
    <2>6. \A n \in Reached(g, s) \ {start} : CameBy(g, s, q, n)
      BY <1>9
    <2>7. q \in Queries /\ q.start \in Ids(g) /\ q.goal \in Ids(g) /\ q.start # q.goal
      BY DEF g
    <2>8. q.start \in Reached(g, s) /\ s.g[q.start] = 0
      BY <1>7, <1>9 DEF start
    <2> QED BY <1>12, <2>1, <2>2, <2>3, <2>4, <2>5, <2>6, <2>7, <2>8 DEF ReachedInv, start
  <1>14. RelaxedInv(g, s, q)
    <2>1. \A e \in Open(g, q) : e[1] \notin Done(g, s)
      BY <1>11 DEF Open
    <2> QED BY <2>1 DEF RelaxedInv
  <1>15. BoundInv(g, s, q)
    <2> SUFFICES ASSUME NEW n \in Done(g, s)
                 PROVE  s.g[n] <= q.weight * Cheapest(g, q)[n]
      BY DEF BoundInv
    <2>1. n = start /\ n \in Ids(g) /\ s.g[n] = 0
      BY <1>7, <1>9, <1>11
    <2>2. Tables(g)
      BY DEF g
    <2> DEFINE N == Len(g.nodes)
    <2>3. N \in Nat /\ N \in 0 .. N
      BY <2>2, NodeFacts
    <2>4. PICK u \in [0 .. N -> [Ids(g) -> Nat]] : Rounds(u, g, q) /\ Cheapest(g, q) = u[N]
      BY <2>2, CheapestIs
    <2>5. Cheapest(g, q)[n] \in Nat
      BY <2>1, <2>3, <2>4
    <2> QED BY <1>2, <2>1, <2>5, ProductIs
  <1>16. /\ j.op = "search" /\ j.q = q /\ j.best = start /\ j.bestH = h
         /\ j.heap = {[f |-> hw, node |-> start]}
         /\ j = [op |-> "search", q |-> j.q, expansions |-> j.expansions,
                 best |-> j.best, bestH |-> j.bestH, heap |-> j.heap]
    BY DEF start, hw
  <1>17. HeapInv(g, s, j)
    <2>1. j.heap \subseteq [f : Nat, node : Reached(g, s)]
      BY <1>2, <1>9, <1>16
    <2>2. \A n \in Reached(g, s) : [f |-> s.f[n], node |-> n] \in j.heap
      BY <1>7, <1>9, <1>16
    <2>3. h = Distance(g, start, q.goal)
      BY DEF g, start
    <2> QED BY <1>2, <1>9, <1>16, <2>1, <2>2, <2>3 DEF HeapInv
  <1>18. SearchJob(g, s, j)
    BY <1>13, <1>14, <1>15, <1>16, <1>17 DEF SearchJob
  <1> QED BY <1>7, <1>18 DEF g

LEMMA BeginKeeps ==
  ASSUME IInv, NEW q \in Queries, Begin(q)
  PROVE  IInv'
  <1> DEFINE m == Marked(Begun(scratch), q.skip)
             h == Distance(graph, q.start, q.goal)
             start == q.start
             hw == h * q.weight
  <1>1. /\ GraphOK(graph) /\ Tables(graph) /\ graph # NoGraph
        /\ job = Idle /\ q.start \in Ids(graph) /\ q.goal \in Ids(graph)
        /\ graph' = graph /\ caches' = caches /\ file' = file
    BY CalledGraph DEF Begin
  <1>2. /\ q.start # q.goal /\ answer' = NoAnswer
        /\ job' = [op |-> "search", q |-> q, expansions |-> 0, best |-> q.start, bestH |-> h,
                   heap |-> {[f |-> h * q.weight, node |-> q.start]}]
    BY DEF Begin
  <1>3. scratch' = [m EXCEPT !.g[start] = 0, !.f[start] = hw,
                             !.parent[start] = start, !.stamp[start] = m.id]
    BY DEF Begin
  <1>4. Prepared(m, q.skip)
    BY <1>1, PreparedIs DEF IInv
  <1> HIDE DEF m, h
  <1>5. m = [id |-> m.id, size |-> m.size, g |-> m.g, f |-> m.f, parent |-> m.parent,
             stamp |-> m.stamp, closed |-> m.closed]
    BY <1>4 DEF Prepared, ScratchOK
  <1> HIDE DEF start, hw
  <1>6. /\ scratch'.id = m.id /\ scratch'.size = m.size /\ scratch'.closed = m.closed
        /\ scratch'.g = [m.g EXCEPT ![start] = 0] /\ scratch'.f = [m.f EXCEPT ![start] = hw]
        /\ scratch'.stamp = [m.stamp EXCEPT ![start] = m.id]
        /\ scratch'.parent = [m.parent EXCEPT ![start] = start]
    BY <1>3, <1>5
  <1>7. scratch' = [id |-> scratch'.id, size |-> scratch'.size, g |-> scratch'.g,
                    f |-> scratch'.f, parent |-> scratch'.parent,
                    stamp |-> scratch'.stamp, closed |-> scratch'.closed]
    BY <1>3, <1>5
  <1>8. ScratchOK(scratch') /\ SearchJob(graph, scratch', job')
    <2>1. Started(scratch', m, start, hw)
      BY <1>6, <1>7 DEF Started
    <2>2. Started(scratch', m, q.start, h * q.weight)
      BY <2>1 DEF start, hw
    <2>3. h = Distance(graph, q.start, q.goal)
      BY DEF h
    <2> QED BY <1>1, <1>2, <1>4, <2>2, <2>3, FirstSearch
  <1>9. JobInv'
    BY <1>1, <1>8 DEF JobInv
  <1>10. AnswerInv'
    BY <1>2 DEF AnswerInv
  <1> QED BY <1>1, <1>8, <1>9, <1>10, OtherwiseKept
-----------------------------------------------------------------------------
(* The end of a search *)

LEMMA SearchRuns ==
  ASSUME IInv, job.op = "search"
  PROVE  /\ GraphOK(graph) /\ Tables(graph) /\ graph # NoGraph
         /\ ScratchOK(scratch) /\ SearchJob(graph, scratch, job)
  <1>1. job # Idle
    BY DEF Idle
  <1>2. graph # NoGraph
    BY <1>1 DEF IInv, NothingInv
  <1>3. ~TreeJob(graph, job)
    BY DEF TreeJob
  <1> QED BY <1>1, <1>2, <1>3 DEF IInv, GraphInv, JobInv, GraphOK

LEMMA SkipKeeps ==
  ASSUME IInv, job.op = "search", NEW x \in job.heap, Skip(x)
  PROVE  IInv'
  <1>1. /\ GraphOK(graph) /\ Tables(graph) /\ graph # NoGraph
        /\ ScratchOK(scratch) /\ SearchJob(graph, scratch, job)
    BY SearchRuns
  <1>2. /\ graph' = graph /\ caches' = caches /\ file' = file /\ scratch' = scratch
        /\ answer' = answer /\ job' = [job EXCEPT !.heap = @ \ {x}]
    BY DEF Skip
  <1>3. job = [op |-> "search", q |-> job.q, expansions |-> job.expansions,
               best |-> job.best, bestH |-> job.bestH, heap |-> job.heap]
    BY <1>1 DEF SearchJob
  <1> DEFINE heap2 == job.heap \ {x}
  <1>4. job' = [job EXCEPT !.heap = heap2]
    BY <1>2
  <1> HIDE DEF heap2
  <1>5. /\ job'.op = "search" /\ job'.q = job.q /\ job'.heap = heap2 /\ job'.best = job.best
        /\ job'.bestH = job.bestH /\ job'.expansions = job.expansions
    BY <1>3, <1>4
  <1>6. job' = [op |-> job'.op, q |-> job'.q, expansions |-> job'.expansions,
                best |-> job'.best, bestH |-> job'.bestH, heap |-> job'.heap]
    BY <1>3, <1>4
  <1>7. HeapInv(graph, scratch, job)
    BY <1>1 DEF SearchJob
  <1>8. \A n \in Reached(graph, scratch) :
          Closed(scratch, n) \/ [f |-> scratch.f[n], node |-> n] \in heap2
    <2> SUFFICES ASSUME NEW n \in Reached(graph, scratch), ~Closed(scratch, n)
                 PROVE  [f |-> scratch.f[n], node |-> n] # x
      BY <1>7 DEF HeapInv, heap2
    <2>1. x.f # scratch.f[x.node] \/ Closed(scratch, x.node)
      BY DEF Skip, Stale
    <2> SUFFICES ASSUME [f |-> scratch.f[n], node |-> n] = x
                 PROVE  FALSE
      OBVIOUS
    <2>2. x.node = n /\ x.f = scratch.f[n]
      OBVIOUS
    <2> QED BY <2>1, <2>2
  <1>9. HeapInv(graph, scratch, job')
    BY <1>5, <1>7, <1>8 DEF HeapInv, heap2
  <1>10. SearchJob(graph, scratch, job')
    BY <1>1, <1>5, <1>6, <1>9 DEF SearchJob
  <1>11. JobInv'
    BY <1>2, <1>10 DEF JobInv
  <1>12. AnswerInv'
    BY <1>2 DEF IInv, AnswerInv
  <1> QED BY <1>1, <1>2, <1>11, <1>12, OtherwiseKept

\* From node to node c goes up by what the edge costs.
AddsUp(c, g, w) ==
    /\ c[w[1]] = 0
    /\ \A i \in 1 .. Len(w) : c[w[i]] \in Nat
    /\ \A i \in 2 .. Len(w) : /\ g.edges[LinkAt(w, i)].cost \in Nat
                              /\ c[w[i]] = c[w[i - 1]] + g.edges[LinkAt(w, i)].cost

\* Along the parents the costs from the start add up.
LEMMA CostAlongParents ==
  ASSUME NEW g, NEW c, NEW w, Len(w) \in Nat \ {0}, NEW a \in [1 .. Len(w) -> Nat],
         Along(a, g, w), AddsUp(c, g, w)
  PROVE  a[Len(w)] = c[w[Len(w)]]
  <1> DEFINE L == Len(w)
             T == {k \in Nat : k + 1 <= L => a[k + 1] = c[w[k + 1]]}
  <1>1. 1 \in 1 .. L /\ L \in Nat
    OBVIOUS
  <1>2. 0 \in T
    BY <1>1 DEF Along, AddsUp
  <1>3. ASSUME NEW k \in Nat, k \in T
        PROVE  k + 1 \in T
    <2> DEFINE i == (k + 1) + 1
    <2> SUFFICES ASSUME i <= L
                 PROVE  a[i] = c[w[i]]
      OBVIOUS
    <2>1. i \in 2 .. L /\ i - 1 = k + 1 /\ k + 1 <= L /\ i \in 1 .. L /\ k + 1 \in 1 .. L
      BY <1>1
    <2> HIDE DEF i
    <2>2. a[k + 1] = c[w[k + 1]]
      BY <1>3, <2>1
    <2>3. /\ a[i] = a[k + 1] + g.edges[LinkAt(w, i)].cost
          /\ c[w[i]] = c[w[k + 1]] + g.edges[LinkAt(w, i)].cost
      BY <2>1 DEF Along, AddsUp
    <2> QED BY <2>2, <2>3
  <1>4. L - 1 \in T
    <2> HIDE DEF T
    <2>1. L - 1 \in Nat
      BY <1>1
    <2> QED BY <1>2, <1>3, <2>1, SetInduction
  <1>5. (L - 1) + 1 = L
    BY <1>1
  <1> QED BY <1>4, <1>5

\* The path read off the parents of a node that was reached.
FoundPath(g, s, q, n, path) ==
    /\ Way(g, q, path) /\ IsInjective(path)
    /\ path[Len(path)] = n
    /\ PathCost(g, path) = s.g[n]

LEMMA FoundIs ==
  ASSUME NEW g, Tables(g), NEW s, ScratchOK(s), NEW q, ReachedInv(g, s, q),
         NEW n \in Reached(g, s)
  PROVE  FoundPath(g, s, q, n, Reversed(Walk(g, n, s.parent, q.start)))
  <1> DEFINE w == Walk(g, n, s.parent, q.start)
             L == Len(w)
             path == Reversed(w)
             M == Reached(g, s)
  <1>1. PICK r \in [Ids(g) -> Nat], K \in Nat :
          \A m \in Reached(g, s) \ {q.start} : r[s.parent[m]] < r[m]
    BY DEF ReachedInv
  <1> DEFINE rM == [m \in M |-> r[m]]
  <1>2. M \subseteq Ids(g) /\ n \in M /\ rM \in [M -> Nat] /\ \A m \in M : rM[m] = r[m]
    BY DEF Reached
  <1>3. s.size >= Len(g.nodes) /\ s.g[q.start] = 0 /\ q.start \in M
    BY DEF ReachedInv
  <1>4. \A m \in M \ {q.start} : /\ s.parent[m] \in M /\ s.parent[m] \in Ids(g)
                                 /\ <<s.parent[m], m>> \in Open(g, q)
                                 /\ s.g[m] = s.g[s.parent[m]] + g.edges[<<s.parent[m], m>>].cost
    BY <1>2 DEF ReachedInv, CameBy, Done
  <1>5. \A m \in M : s.g[m] \in Nat
    BY <1>2, <1>3, ScratchFacts
  <1> HIDE DEF M, rM
  <1>6. Ranked(M, rM, s.parent, q.start)
    BY <1>1, <1>2, <1>4 DEF Ranked, M
  <1>7. g.nodes \in Seq(NodeRecord) /\ 0 \notin Ids(g)
    BY NodeFacts DEF Tables
  <1>8. /\ Follows(w, M, rM, n, s.parent, q.start) /\ Ended(w, s.parent, q.start)
        /\ L <= Len(g.nodes)
    BY <1>2, <1>6, <1>7, WalkIs
  <1> HIDE DEF w
  <1>9. L \in Nat \ {0} /\ w[1] = n /\ \A i \in 1 .. L : w[i] \in M /\ w[i] \in Ids(g)
    BY <1>2, <1>8 DEF Follows
  <1>10. w[L] = q.start
    <2>1. L \in 1 .. L /\ w[L] \in M
      BY <1>9
    <2>2. w[L] # q.start => s.parent[w[L]] \in Ids(g)
      BY <1>4, <2>1
    <2>3. w[L] = q.start \/ s.parent[w[L]] = 0
      BY <1>8 DEF Ended
    <2> QED BY <1>7, <2>2, <2>3
  <1>11. DOMAIN w = 1 .. L /\ L \in Nat
    BY <1>8, <1>9 DEF Follows
  <1>12. path = [i \in 1 .. L |-> w[L + 1 - i]]
    BY <1>11 DEF Reversed
  <1> HIDE DEF path
  <1>13. path \in Seq(Ids(g)) /\ Len(path) = L /\ DOMAIN path = 1 .. L
    <2>1. \A i \in 1 .. L : L + 1 - i \in 1 .. L
      BY <1>11
    <2>2. \A i \in 1 .. L : w[L + 1 - i] \in Ids(g)
      BY <1>9, <2>1
    <2>3. path \in [1 .. L -> Ids(g)]
      BY <1>12, <2>2
    <2> QED BY <1>11, <2>3
  <1>14. path[1] = q.start /\ path[L] = n
    <2>1. 1 \in 1 .. L /\ L \in 1 .. L /\ L + 1 - 1 = L /\ L + 1 - L = 1
      BY <1>9
    <2>2. path[1] = w[L + 1 - 1] /\ path[L] = w[L + 1 - L]
      BY <1>12, <2>1
    <2> QED BY <1>9, <1>10, <2>1, <2>2
  <1>15. ASSUME NEW i \in 2 .. L
         PROVE  /\ LinkAt(path, i) \in Open(g, q)
                /\ s.g[path[i]] = s.g[path[i - 1]] + g.edges[LinkAt(path, i)].cost
    <2> DEFINE k == L + 2 - i
    <2>1. /\ k \in 2 .. L /\ k - 1 \in 1 .. L /\ L + 1 - i = k - 1 /\ L + 1 - (i - 1) = k
          /\ i \in 1 .. L /\ i - 1 \in 1 .. L
      BY <1>11
    <2> HIDE DEF k
    <2>2. path[i] = w[k - 1] /\ path[i - 1] = w[k]
      BY <1>12, <2>1
    <2>3. w[k] = s.parent[w[k - 1]] /\ w[k - 1] # q.start
      BY <1>8, <2>1 DEF Follows
    <2>4. w[k - 1] \in M \ {q.start}
      BY <1>9, <2>1, <2>3
    <2> QED BY <1>4, <2>2, <2>3, <2>4 DEF LinkAt
  <1>16. Way(g, q, path)
    <2>1. L \in 1 .. Len(g.nodes)
      BY <1>8, <1>9, <1>7, NodeFacts
    <2> QED BY <1>13, <1>14, <1>15, <2>1 DEF Way
  <1>17. IsInjective(path)
    <2>1. \A i, j \in 1 .. L : i < j => w[i] # w[j]
      <3>1. \A i \in 1 .. L : rM[w[i]] \in Nat
        BY <1>2, <1>9
      <3> QED BY <1>8, <3>1 DEF Follows
    <2>2. ASSUME NEW i \in 1 .. L, NEW j \in 1 .. L, i < j
          PROVE  path[i] # path[j]
      <3>1. L + 1 - j \in 1 .. L /\ L + 1 - i \in 1 .. L /\ L + 1 - j < L + 1 - i
        BY <1>11, <2>2
      <3> QED BY <1>12, <2>1, <3>1
    <2>3. ASSUME NEW i \in DOMAIN path, NEW j \in DOMAIN path, path[i] = path[j]
          PROVE  i = j
      <3>1. i \in 1 .. L /\ j \in 1 .. L
        BY <1>13
      <3>2. i < j \/ j < i \/ i = j
        BY <1>11, <3>1
      <3> QED BY <2>2, <2>3, <3>1, <3>2
    <2> QED BY <2>3 DEF IsInjective
  <1>18. PICK a \in [1 .. Len(path) -> Nat] :
           Along(a, g, path) /\ PathCost(g, path) = a[Len(path)]
    BY <1>16, WayCosts
  <1>19. a[Len(path)] = s.g[path[Len(path)]]
    <2>1. \A i \in 1 .. Len(path) : path[i] \in M
      <3>1. \A i \in 1 .. L : L + 1 - i \in 1 .. L
        BY <1>11
      <3> QED BY <1>9, <1>12, <1>13, <3>1
    <2>2. \A i \in 1 .. Len(path) : s.g[path[i]] \in Nat
      BY <1>5, <2>1
    <2>3. \A i \in 2 .. Len(path) :
             /\ g.edges[LinkAt(path, i)].cost \in Nat
             /\ s.g[path[i]] = s.g[path[i - 1]] + g.edges[LinkAt(path, i)].cost
      BY <1>13, <1>15, OpenEdge
    <2>4. Len(path) \in Nat \ {0} /\ s.g[path[1]] = 0
      BY <1>3, <1>9, <1>13, <1>14
    <2>5. AddsUp(s.g, g, path)
      BY <2>2, <2>3, <2>4 DEF AddsUp
    <2> QED BY <1>18, <2>4, <2>5, CostAlongParents
  <1> QED BY <1>13, <1>14, <1>16, <1>17, <1>18, <1>19 DEF FoundPath, path, w
-----------------------------------------------------------------------------
(* What the order of the heap is good for *)

LEMMA Triangle ==
  ASSUME NEW g, Tables(g), NEW a \in Ids(g), NEW b \in Ids(g), NEW c \in Ids(g)
  PROVE  Distance(g, a, c) <= Distance(g, a, b) + Distance(g, b, c)
  <1> DEFINE x == g.nodes[a].origin
             y == g.nodes[b].origin
             z == g.nodes[c].origin
  <1>1. x \in Int /\ y \in Int /\ z \in Int
    BY NodeFacts
  <1>2. /\ Distance(g, a, c) = (IF x - z < 0 THEN -(x - z) ELSE x - z)
        /\ Distance(g, a, b) = (IF x - y < 0 THEN -(x - y) ELSE x - y)
        /\ Distance(g, b, c) = (IF y - z < 0 THEN -(y - z) ELSE y - z)
    BY DEF Distance
  <1> HIDE DEF x, y, z
  <1> QED BY <1>1, <1>2

LEMMA CheapestFalls ==
  ASSUME NEW g, Tables(g), NEW q, NEW u \in [0 .. Len(g.nodes) -> [Ids(g) -> Nat]],
         Rounds(u, g, q), NEW n \in Ids(g)
  PROVE  \A k \in 0 .. Len(g.nodes) : u[Len(g.nodes)][n] <= u[k][n]
  <1> DEFINE N == Len(g.nodes)
             T == {d \in Nat : d <= N => u[N][n] <= u[N - d][n]}
  <1>1. N \in Nat /\ \A k \in 0 .. N : u[k] \in [Ids(g) -> Nat] /\ u[k][n] \in Nat
    BY NodeFacts
  <1>2. 0 \in T
    <2>1. N - 0 = N /\ N \in 0 .. N
      BY <1>1
    <2>2. u[N][n] \in Nat
      BY <1>1, <2>1
    <2> QED BY <2>1, <2>2
  <1>3. ASSUME NEW d \in Nat, d \in T
        PROVE  d + 1 \in T
    <2> SUFFICES ASSUME d + 1 <= N
                 PROVE  u[N][n] <= u[N - (d + 1)][n]
      OBVIOUS
    <2> DEFINE k == N - d
    <2>1. k \in 1 .. N /\ N - (d + 1) = k - 1 /\ k - 1 \in 0 .. N /\ k \in 0 .. N /\ N \in 0 .. N
          /\ d <= N
      BY <1>1
    <2>2. u[N][n] <= u[k][n]
      BY <1>3, <2>1
    <2> HIDE DEF k
    <2>3. u[k] = Further(g, q, u[k - 1]) /\ u[k - 1] \in [Ids(g) -> Nat]
      BY <1>1, <2>1 DEF Rounds
    <2>4. u[k][n] <= u[k - 1][n]
      BY <2>3, FurtherIs
    <2>5. u[N][n] \in Nat /\ u[k][n] \in Nat /\ u[k - 1][n] \in Nat
      BY <1>1, <2>1
    <2>6. u[N][n] <= u[k - 1][n]
      BY <2>2, <2>4, <2>5
    <2>7. u[N - (d + 1)] = u[k - 1]
      BY <2>1
    <2> QED BY <2>6, <2>7
  <1>4. \A d \in Nat : d \in T
    <2> HIDE DEF T
    <2> QED BY <1>2, <1>3, SetInduction
  <1> SUFFICES ASSUME NEW k \in 0 .. N
               PROVE  u[N][n] <= u[k][n]
    OBVIOUS
  <1>5. N - k \in Nat /\ N - k <= N /\ N - (N - k) = k
    BY <1>1
  <1> QED BY <1>4, <1>5

\* A way of cost c to n is accounted for: n is done with at no more than weight
\* times c, or a node on the heap is as close to the goal as that.
Covered(g, s, q, n, c) ==
    \/ n \in Done(g, s) /\ s.g[n] <= q.weight * c
    \/ \E o \in Reached(g, s) \ Done(g, s) :
         s.g[o] + (q.weight * Distance(g, o, q.goal)) <= q.weight * (c + Distance(g, n, q.goal))

LEMMA CoveredOn ==
  ASSUME NEW g, Tables(g), Admissible(g), NEW s, ScratchOK(s), NEW q, q.weight \in Nat \ {0},
         ReachedInv(g, s, q), RelaxedInv(g, s, q), BoundInv(g, s, q),
         NEW e \in Open(g, q), NEW c \in Nat, NEW d \in Nat, d = c + g.edges[e].cost,
         d < FltMax, Cheapest(g, q)[e[2]] \in Nat, Cheapest(g, q)[e[2]] <= d,
         Covered(g, s, q, e[1], c)
  PROVE  Covered(g, s, q, e[2], d)
  <1> DEFINE a == e[1]
             b == e[2]
             k == g.edges[e].cost
             w == q.weight
             ha == Distance(g, a, q.goal)
             hb == Distance(g, b, q.goal)
  <1>1. a \in Ids(g) /\ b \in Ids(g) /\ k \in Nat /\ e \in DOMAIN g.edges /\ q.goal \in Ids(g)
    BY OpenEdge DEF ReachedInv
  <1>2. w \in Nat \ {0} /\ w \in Nat /\ ha \in Nat /\ hb \in Nat /\ d = c + k
    BY <1>1, DistanceIs
  <1>3. ha <= k + hb
    <2>1. k >= Distance(g, a, b) /\ Distance(g, a, b) \in Nat
      BY <1>1, DistanceIs DEF Admissible
    <2>2. ha <= Distance(g, a, b) + hb
      BY <1>1, Triangle
    <2> HIDE DEF a, b, k, ha, hb
    <2> QED BY <1>1, <1>2, <2>1, <2>2
  <1>4. s.g[a] \in Nat /\ s.g[b] \in Nat /\ \A o \in Ids(g) : s.g[o] \in Nat
    BY <1>1, ScratchFacts DEF ReachedInv
  <1> HIDE DEF a, b, k, w, ha, hb
  <1>5. ASSUME NEW o \in Reached(g, s) \ Done(g, s),
               s.g[o] + (w * Distance(g, o, q.goal)) <= w * (c + ha)
        PROVE  Covered(g, s, q, b, d)
    <2> DEFINE ho == Distance(g, o, q.goal)
    <2>1. o \in Ids(g) /\ s.g[o] \in Nat /\ ho \in Nat
      BY <1>1, <1>4, DistanceIs DEF Reached
    <2> HIDE DEF ho
    <2>2. c + ha <= d + hb /\ c + ha \in Nat /\ d + hb \in Nat
      BY <1>1, <1>2, <1>3
    <2>3. w * (c + ha) <= w * (d + hb)
      BY <1>2, <2>2, ProductMono
    <2>4. w * (c + ha) \in Nat /\ w * (d + hb) \in Nat /\ w * ho \in Nat
      BY <1>2, <2>1, <2>2, ProductIs
    <2>5. s.g[o] + (w * ho) <= w * (d + hb)
      BY <1>5, <2>1, <2>3, <2>4 DEF ho
    <2> QED BY <2>5 DEF Covered, ho, w, hb, b
  <1>6. ASSUME a \in Done(g, s), s.g[a] <= w * c
        PROVE  Covered(g, s, q, b, d)
    <2>1. b \in Reached(g, s) /\ (Closed(s, b) \/ s.g[b] <= s.g[a] + k)
      BY <1>6 DEF RelaxedInv, a, b, k
    <2>2. CASE Closed(s, b)
      <3> DEFINE best == Cheapest(g, q)[b]
      <3>1. b \in Done(g, s)
        BY <2>1, <2>2 DEF Done
      <3>2. best \in Nat /\ best <= d /\ FltMax \in Nat
        BY DEF b, FltMax
      <3>3. best < FltMax
        BY <3>2
      <3>4. s.g[b] <= w * best
        BY <3>1, <3>3 DEF BoundInv, w
      <3> HIDE DEF best
      <3>5. w * best <= w * d /\ w * best \in Nat /\ w * d \in Nat
        BY <1>2, <3>2, ProductMono, ProductIs
      <3>6. s.g[b] <= w * d
        BY <1>4, <3>4, <3>5
      <3> QED BY <3>1, <3>6 DEF Covered, w
    <2>3. CASE ~Closed(s, b)
      <3>1. b \in Reached(g, s) \ Done(g, s)
        BY <2>1, <2>3 DEF Done
      <3>2. s.g[b] <= s.g[a] + k
        BY <2>1, <2>3
      <3>3. w * (d + hb) = (w * d) + (w * hb) /\ w * d = (w * c) + (w * k)
        BY <1>1, <1>2, Distributes
      <3>4. k <= w * k /\ w * k \in Nat /\ w * c \in Nat /\ w * d \in Nat /\ w * hb \in Nat
        BY <1>1, <1>2, TimesAtLeast, ProductIs
      <3>5. s.g[b] + (w * hb) <= w * (d + hb)
        BY <1>1, <1>2, <1>4, <1>6, <3>2, <3>3, <3>4
      <3> QED BY <3>1, <3>5 DEF Covered, w, hb
    <2> QED BY <2>2, <2>3
  <1>7. Covered(g, s, q, a, c)
    BY DEF a
  <1> QED BY <1>5, <1>6, <1>7 DEF Covered, a, b, w, ha

\* Every way there is, is accounted for.
AllCovered(g, s, q, u, k) ==
    \A n \in Ids(g) : u[k][n] < FltMax => Covered(g, s, q, n, u[k][n])

LEMMA WaysCovered ==
  ASSUME NEW g, Tables(g), Admissible(g), NEW s, ScratchOK(s), NEW q, q.weight \in Nat \ {0},
         ReachedInv(g, s, q), RelaxedInv(g, s, q), BoundInv(g, s, q),
         NEW n \in Ids(g), Cheapest(g, q)[n] < FltMax
  PROVE  Covered(g, s, q, n, Cheapest(g, q)[n])
  <1> DEFINE N == Len(g.nodes)
  <1>1. N \in Nat /\ N \in 0 .. N /\ 0 \in 0 .. N
    BY NodeFacts
  <1>2. PICK u \in [0 .. N -> [Ids(g) -> Nat]] : Rounds(u, g, q) /\ Cheapest(g, q) = u[N]
    BY CheapestIs
  <1>3. \A k \in 0 .. N : u[k] \in [Ids(g) -> Nat] /\ \A m \in Ids(g) : u[k][m] \in Nat
    BY <1>2
  <1>4. \A m \in Ids(g) : /\ Cheapest(g, q)[m] \in Nat
                          /\ \A k \in 0 .. N : Cheapest(g, q)[m] <= u[k][m]
    BY <1>1, <1>2, <1>3, CheapestFalls
  <1> DEFINE T == {k \in Nat : k <= N => AllCovered(g, s, q, u, k)}
  <1>5. 0 \in T
    <2> SUFFICES ASSUME NEW m \in Ids(g), u[0][m] < FltMax
                 PROVE  Covered(g, s, q, m, u[0][m])
      BY DEF AllCovered
    <2> DEFINE h == Distance(g, m, q.goal)
    <2>1. m = q.start /\ u[0][m] = 0
      BY <1>2 DEF Rounds, FltMax
    <2>2. m \in Reached(g, s) /\ s.g[m] = 0
      BY <2>1 DEF ReachedInv
    <2>3. h \in Nat /\ q.weight \in Nat
      BY DistanceIs DEF ReachedInv
    <2>4. q.weight * 0 \in Nat /\ q.weight * h \in Nat /\ 0 + h = h
      BY <2>3, ProductIs
    <2>5. CASE m \in Done(g, s)
      BY <2>1, <2>2, <2>4, <2>5 DEF Covered
    <2>6. CASE m \notin Done(g, s)
      <3>1. s.g[m] + (q.weight * h) <= q.weight * (u[0][m] + h)
        BY <2>1, <2>2, <2>3, <2>4
      <3> QED BY <2>2, <2>6, <3>1 DEF Covered
    <2> QED BY <2>5, <2>6
  <1>6. ASSUME NEW k \in Nat, k \in T
        PROVE  k + 1 \in T
    <2> SUFFICES ASSUME k + 1 <= N, NEW m \in Ids(g), u[k + 1][m] < FltMax
                 PROVE  Covered(g, s, q, m, u[k + 1][m])
      BY DEF AllCovered
    <2>1. k \in 0 .. N /\ k + 1 \in 1 .. N /\ (k + 1) - 1 = k /\ k <= N /\ k + 1 \in 0 .. N
      BY <1>1
    <2>2. u[k + 1] = Further(g, q, u[k]) /\ u[k] \in [Ids(g) -> Nat]
      BY <1>2, <1>3, <2>1 DEF Rounds
    <2>3. AllCovered(g, s, q, u, k)
      BY <1>6, <2>1
    <2>4. CASE u[k + 1][m] = u[k][m]
      BY <2>3, <2>4 DEF AllCovered
    <2>5. ASSUME NEW e \in Open(g, q), e[2] = m, u[k + 1][m] = u[k][e[1]] + g.edges[e].cost
          PROVE  Covered(g, s, q, m, u[k + 1][m])
      <3> DEFINE c == u[k][e[1]]
                 d == u[k + 1][m]
      <3>1. e[1] \in Ids(g) /\ g.edges[e].cost \in Nat
        BY OpenEdge
      <3>2. c \in Nat /\ d \in Nat /\ d = c + g.edges[e].cost
        BY <1>3, <2>1, <2>5, <3>1
      <3>3. c < FltMax
        BY <3>1, <3>2 DEF FltMax
      <3>4. Covered(g, s, q, e[1], c)
        BY <2>3, <3>1, <3>3 DEF AllCovered
      <3>5. Cheapest(g, q)[e[2]] \in Nat /\ Cheapest(g, q)[e[2]] <= d
        BY <1>4, <2>1, <2>5
      <3>6. d < FltMax
        OBVIOUS
      <3> HIDE DEF c, d
      <3>7. Covered(g, s, q, e[2], d)
        BY <3>2, <3>4, <3>5, <3>6, CoveredOn
      <3> QED BY <2>5, <3>7 DEF d
    <2>6. Stepped(Further(g, q, u[k]), u[k], g, q)
      BY <2>2, FurtherIs
    <2> QED BY <2>2, <2>4, <2>5, <2>6 DEF Stepped
  <1>7. N \in T
    <2> HIDE DEF T
    <2> QED BY <1>1, <1>5, <1>6, SetInduction
  <1>8. AllCovered(g, s, q, u, N)
    BY <1>1, <1>7
  <1> QED BY <1>2, <1>8 DEF AllCovered

\* The node of a smallest entry is reached at no more than weight times its cost.
LEMMA SmallestBound ==
  ASSUME NEW g, Tables(g), Admissible(g), NEW s, ScratchOK(s), NEW j, SearchJob(g, s, j),
         NEW x \in Smallest(j.heap), x.f = s.f[x.node], ~Closed(s, x.node),
         Cheapest(g, j.q)[x.node] < FltMax
  PROVE  s.g[x.node] <= j.q.weight * Cheapest(g, j.q)[x.node]
  <1> DEFINE m == x.node
             q == j.q
             w == q.weight
             c == Cheapest(g, q)[m]
             h(n) == Distance(g, n, q.goal)
  <1>1. /\ ReachedInv(g, s, q) /\ RelaxedInv(g, s, q) /\ BoundInv(g, s, q) /\ HeapInv(g, s, j)
        /\ q \in Queries
    BY DEF SearchJob, ReachedInv
  <1>2. w \in Nat \ {0} /\ w \in Nat
    BY <1>1, QueryAssumption
  <1>3. x \in j.heap /\ m \in Reached(g, s) /\ m \in Ids(g) /\ \A y \in j.heap : x.f <= y.f
    <2>1. x \in j.heap /\ \A y \in j.heap : x.f <= y.f
      BY DEF Smallest
    <2>2. x \in [f : Nat, node : Reached(g, s)]
      BY <1>1, <2>1 DEF HeapInv
    <2> QED BY <2>1, <2>2 DEF Reached
  <1>4. Covered(g, s, q, m, c)
    BY <1>1, <1>2, <1>3, WaysCovered
  <1>5. m \notin Done(g, s)
    BY DEF Done
  <1>6. PICK o \in Reached(g, s) \ Done(g, s) : s.g[o] + (w * h(o)) <= w * (c + h(m))
    BY <1>4, <1>5 DEF Covered
  <1>7. o \in Ids(g) /\ q.goal \in Ids(g) /\ s.size >= Len(g.nodes)
    BY <1>1 DEF Reached, ReachedInv
  <1>8. s.f[o] = s.g[o] + (h(o) * w) /\ s.f[m] = s.g[m] + (h(m) * w)
    BY <1>1, <1>3, <1>6 DEF ReachedInv
  <1>9. x.f <= s.f[o]
    <2>1. ~Closed(s, o)
      BY <1>6 DEF Done
    <2>2. [f |-> s.f[o], node |-> o] \in j.heap
      BY <1>1, <1>6, <2>1 DEF HeapInv
    <2> QED BY <1>3, <2>2
  <1>10. h(o) \in Nat /\ h(m) \in Nat /\ s.g[o] \in Nat /\ s.g[m] \in Nat
    BY <1>3, <1>7, DistanceIs, ScratchFacts
  <1>11. c \in Nat
    <2> DEFINE N == Len(g.nodes)
    <2>1. N \in Nat /\ N \in 0 .. N
      BY NodeFacts
    <2>2. PICK u \in [0 .. N -> [Ids(g) -> Nat]] : Rounds(u, g, q) /\ Cheapest(g, q) = u[N]
      BY CheapestIs
    <2> QED BY <1>3, <2>1, <2>2
  <1>12. x.f = s.f[m]
    OBVIOUS
  <1> DEFINE ho == h(o)
             hm == h(m)
  <1>13. ho \in Nat /\ hm \in Nat
    BY <1>10
  <1>14. /\ s.g[o] + (w * ho) <= w * (c + hm)
         /\ s.f[o] = s.g[o] + (ho * w) /\ s.f[m] = s.g[m] + (hm * w)
    BY <1>6, <1>8
  <1> HIDE DEF h, ho, hm, c, w, m, q
  <1>15. /\ w * (c + hm) = (w * c) + (w * hm) /\ ho * w = w * ho /\ hm * w = w * hm
         /\ w * ho \in Nat /\ w * hm \in Nat /\ w * c \in Nat
    BY <1>2, <1>11, <1>13, Distributes, ProductIs
  <1>16. s.g[m] <= w * c
    BY <1>9, <1>10, <1>12, <1>14, <1>15
  <1> QED BY <1>16 DEF m, q, w, c
-----------------------------------------------------------------------------
(* Answers of a search *)

LEMMA JobAnswered ==
  ASSUME IInv, graph # NoGraph, graph' = graph, caches' = caches, file' = file, job' = Idle,
         ScratchOK(scratch'), AnswerOK(graph, answer')
  PROVE  IInv'
  <1>1. JobInv'
    BY DEF JobInv
  <1>2. AnswerInv'
    BY DEF AnswerInv
  <1> QED BY <1>1, <1>2, OtherwiseKept

\* The answer Found gives, and what FoundIs says of it.
LEMMA FoundGives ==
  ASSUME IInv, job.op = "search", NEW n \in Reached(graph, scratch), Found(n)
  PROVE  /\ graph' = graph /\ caches' = caches /\ file' = file /\ job' = Idle
         /\ answer'.q = job.q /\ answer'.cached = FALSE
         /\ FoundPath(graph, scratch, job.q, n, answer'.path)
         /\ Walkable(graph, answer')
  <1> DEFINE path == Reversed(Walk(graph, n, scratch.parent, job.q.start))
  <1>1. Tables(graph) /\ ScratchOK(scratch) /\ ReachedInv(graph, scratch, job.q)
    BY SearchRuns DEF SearchJob
  <1>2. answer' = [q |-> job.q, path |-> path, cached |-> FALSE]
    BY DEF Found, Answered
  <1>3. FoundPath(graph, scratch, job.q, n, path)
    BY <1>1, FoundIs
  <1> HIDE DEF path
  <1>4. answer'.q = job.q /\ answer'.cached = FALSE /\ answer'.path = path
    BY <1>2
  <1>5. Walkable(graph, answer')
    BY <1>3, <1>4, WayWalks DEF FoundPath
  <1> QED BY <1>3, <1>4, <1>5 DEF Found

LEMMA CheapestNat ==
  ASSUME NEW g, Tables(g), NEW q, NEW n \in Ids(g)
  PROVE  Cheapest(g, q)[n] \in Nat
  <1>1. Len(g.nodes) \in 0 .. Len(g.nodes)
    BY NodeFacts
  <1>2. PICK u \in [0 .. Len(g.nodes) -> [Ids(g) -> Nat]] :
          Rounds(u, g, q) /\ Cheapest(g, q) = u[Len(g.nodes)]
    BY CheapestIs
  <1> QED BY <1>1, <1>2

LEMMA HeapEntry ==
  ASSUME NEW g, Tables(g), NEW s, NEW j, SearchJob(g, s, j), NEW x \in Smallest(j.heap)
  PROVE  x \in j.heap /\ x.node \in Reached(g, s) /\ x.node \in Ids(g)
  <1>1. x \in j.heap
    BY DEF Smallest
  <1>2. x \in [f : Nat, node : Reached(g, s)]
    BY <1>1 DEF SearchJob, HeapInv
  <1> QED BY <1>1, <1>2 DEF Reached

LEMMA ArriveKeeps ==
  ASSUME IInv, job.op = "search", NEW x \in Smallest(job.heap), Arrive(x)
  PROVE  IInv'
  <1> DEFINE q == job.q
             n == x.node
  <1>1. /\ GraphOK(graph) /\ Tables(graph) /\ graph # NoGraph
        /\ ScratchOK(scratch) /\ SearchJob(graph, scratch, job)
    BY SearchRuns
  <1>2. /\ ~Stale(x) /\ n = q.goal /\ Found(n) /\ scratch' = scratch
    BY DEF Arrive
  <1>3. n \in Reached(graph, scratch) /\ n \in Ids(graph)
    BY <1>1, HeapEntry
  <1>4. /\ graph' = graph /\ caches' = caches /\ file' = file /\ job' = Idle
        /\ answer'.q = q /\ answer'.cached = FALSE
        /\ FoundPath(graph, scratch, q, n, answer'.path)
        /\ Walkable(graph, answer')
    BY <1>2, <1>3, FoundGives
  <1>5. x.f = scratch.f[n] /\ ~Closed(scratch, n)
    BY <1>2 DEF Stale
  <1>6. /\ answer'.path[Len(answer'.path)] = q.goal
        /\ PathCost(graph, answer'.path) = scratch.g[q.goal]
    BY <1>2, <1>4 DEF FoundPath
  <1>7. ASSUME Cheapest(graph, q)[q.goal] < FltMax, Admissible(graph)
        PROVE  scratch.g[q.goal] <= q.weight * Cheapest(graph, q)[q.goal]
    BY <1>1, <1>2, <1>5, <1>7, SmallestBound
  <1>8. \A m \in Ids(graph) : Distance(graph, q.goal, q.goal) <= Distance(graph, m, q.goal)
    <2>1. Distance(graph, q.goal, q.goal) = 0
      <3>1. graph.nodes[q.goal].origin \in Int
        BY <1>1, <1>2, <1>3, NodeFacts
      <3> QED BY <3>1 DEF Distance
    <2>2. \A m \in Ids(graph) : Distance(graph, m, q.goal) \in Nat
      BY <1>1, <1>2, <1>3, DistanceIs
    <2> QED BY <2>1, <2>2
  <1> HIDE DEF q
  <1>9. CheapEnough(graph, answer')
    BY <1>4, <1>6, <1>7, <1>8 DEF CheapEnough
  <1>10. AnswerOK(graph, answer')
    BY <1>4, <1>9 DEF AnswerOK
  <1> QED BY <1>1, <1>2, <1>4, <1>10, JobAnswered

\* scratch with a node closed.
LEMMA ClosedOK ==
  ASSUME NEW s, ScratchOK(s), NEW n \in 1 .. s.size, NEW c,
         c = [s EXCEPT !.closed[n] = s.id]
  PROVE  ScratchOK(c)
  <1> DEFINE cl == [s.closed EXCEPT ![n] = s.id]
  <1>1. /\ s = [id |-> s.id, size |-> s.size, g |-> s.g, f |-> s.f, parent |-> s.parent,
                stamp |-> s.stamp, closed |-> s.closed]
        /\ s.closed \in [1 .. s.size -> 0 .. s.id] /\ s.id \in Nat
    BY GraphAssumption DEF ScratchOK
  <1>2. s.id \in 0 .. s.id
    BY <1>1
  <1>3. cl \in [1 .. s.size -> 0 .. s.id]
    BY <1>1, <1>2
  <1>4. c = [s EXCEPT !.closed = cl]
    OBVIOUS
  <1> HIDE DEF cl
  <1>5. /\ c.id = s.id /\ c.size = s.size /\ c.g = s.g /\ c.f = s.f /\ c.parent = s.parent
        /\ c.stamp = s.stamp /\ c.closed = cl
    BY <1>1, <1>4
  <1>6. c = [id |-> c.id, size |-> c.size, g |-> c.g, f |-> c.f, parent |-> c.parent,
             stamp |-> c.stamp, closed |-> c.closed]
    BY <1>1, <1>4
  <1> QED BY <1>3, <1>5, <1>6 DEF ScratchOK

LEMMA GiveUpKeeps ==
  ASSUME IInv, job.op = "search", NEW x \in Smallest(job.heap), GiveUp(x)
  PROVE  IInv'
  <1>1. /\ GraphOK(graph) /\ Tables(graph) /\ graph # NoGraph
        /\ ScratchOK(scratch) /\ SearchJob(graph, scratch, job)
    BY SearchRuns
  <1>2. /\ Limit(job.q) > 0 /\ Found(job.best)
        /\ scratch' = [scratch EXCEPT !.closed[x.node] = scratch.id]
    BY DEF GiveUp
  <1>3. job.best \in Reached(graph, scratch) /\ job.q \in Queries /\ scratch.size >= Len(graph.nodes)
    BY <1>1 DEF SearchJob, HeapInv, ReachedInv
  <1>4. /\ graph' = graph /\ caches' = caches /\ file' = file /\ job' = Idle
        /\ answer'.q = job.q /\ answer'.cached = FALSE
        /\ FoundPath(graph, scratch, job.q, job.best, answer'.path)
        /\ Walkable(graph, answer')
    BY <1>2, <1>3, FoundGives
  <1>5. Limit(job.q) # 0
    BY <1>2
  <1>6. AnswerOK(graph, answer')
    BY <1>4, <1>5 DEF AnswerOK
  <1>7. x.node \in 1 .. scratch.size
    BY <1>1, <1>3, HeapEntry, ScratchFacts
  <1>8. ScratchOK(scratch')
    BY <1>1, <1>2, <1>7, ClosedOK
  <1> QED BY <1>1, <1>4, <1>6, <1>8, JobAnswered

\* When the heap is empty, every node there is a way to was reached.
ReachedBy(g, s, q, u, k) == \A n \in Ids(g) : u[k][n] < FltMax => n \in Reached(g, s)

LEMMA AllReached ==
  ASSUME NEW g, Tables(g), NEW s, NEW j, SearchJob(g, s, j), j.heap = {},
         NEW n \in Ids(g), Cheapest(g, j.q)[n] < FltMax
  PROVE  n \in Reached(g, s)
  <1> DEFINE N == Len(g.nodes)
             q == j.q
  <1>1. N \in Nat /\ N \in 0 .. N /\ 0 \in 0 .. N
    BY NodeFacts
  <1>2. PICK u \in [0 .. N -> [Ids(g) -> Nat]] : Rounds(u, g, q) /\ Cheapest(g, q) = u[N]
    BY CheapestIs
  <1>3. \A k \in 0 .. N : u[k] \in [Ids(g) -> Nat] /\ \A m \in Ids(g) : u[k][m] \in Nat
    BY <1>2
  <1>4. \A m \in Reached(g, s) : m \in Done(g, s)
    BY DEF SearchJob, HeapInv, Done
  <1>5. \A e \in Open(g, q) : e[1] \in Reached(g, s) => e[2] \in Reached(g, s)
    BY <1>4 DEF SearchJob, RelaxedInv
  <1>6. q.start \in Reached(g, s)
    BY DEF SearchJob, ReachedInv
  <1> HIDE DEF q
  <1> DEFINE T == {k \in Nat : k <= N => ReachedBy(g, s, q, u, k)}
  <1>7. 0 \in T
    <2> SUFFICES ASSUME NEW m \in Ids(g), u[0][m] < FltMax
                 PROVE  m \in Reached(g, s)
      BY DEF ReachedBy
    <2>1. m = q.start
      BY <1>2 DEF Rounds, FltMax
    <2> QED BY <1>6, <2>1
  <1>8. ASSUME NEW k \in Nat, k \in T
        PROVE  k + 1 \in T
    <2> SUFFICES ASSUME k + 1 <= N, NEW m \in Ids(g), u[k + 1][m] < FltMax
                 PROVE  m \in Reached(g, s)
      BY DEF ReachedBy
    <2>1. k \in 0 .. N /\ k + 1 \in 1 .. N /\ (k + 1) - 1 = k /\ k <= N /\ k + 1 \in 0 .. N
      BY <1>1
    <2>2. u[k + 1] = Further(g, q, u[k]) /\ u[k] \in [Ids(g) -> Nat]
      BY <1>2, <1>3, <2>1 DEF Rounds
    <2>3. ReachedBy(g, s, q, u, k)
      BY <1>8, <2>1
    <2>4. CASE u[k + 1][m] = u[k][m]
      BY <2>3, <2>4 DEF ReachedBy
    <2>5. ASSUME NEW e \in Open(g, q), e[2] = m, u[k + 1][m] = u[k][e[1]] + g.edges[e].cost
          PROVE  m \in Reached(g, s)
      <3>1. e[1] \in Ids(g) /\ g.edges[e].cost \in Nat
        BY OpenEdge
      <3>2. u[k][e[1]] < FltMax
        <4> DEFINE before == u[k][e[1]]
                   cost == g.edges[e].cost
        <4>1. before \in Nat /\ cost \in Nat /\ before + cost < FltMax
          BY <1>3, <2>1, <2>5, <3>1
        <4> HIDE DEF before, cost
        <4>2. before < FltMax
          BY <4>1 DEF FltMax
        <4> QED BY <4>2 DEF before
      <3>3. e[1] \in Reached(g, s)
        BY <2>3, <3>1, <3>2 DEF ReachedBy
      <3> QED BY <1>5, <2>5, <3>3
    <2>6. Stepped(Further(g, q, u[k]), u[k], g, q)
      BY <2>2, FurtherIs
    <2> QED BY <2>2, <2>4, <2>5, <2>6 DEF Stepped
  <1>9. N \in T
    <2> HIDE DEF T
    <2> QED BY <1>1, <1>7, <1>8, SetInduction
  <1>10. ReachedBy(g, s, q, u, N)
    BY <1>1, <1>9
  <1> QED BY <1>2, <1>10 DEF ReachedBy, q

LEMMA ExhaustedKeeps ==
  ASSUME IInv, job.op = "search", Exhausted
  PROVE  IInv'
  <1> DEFINE q == job.q
  <1>1. /\ GraphOK(graph) /\ Tables(graph) /\ graph # NoGraph
        /\ ScratchOK(scratch) /\ SearchJob(graph, scratch, job)
    BY SearchRuns
  <1>2. job.heap = {} /\ Found(job.best) /\ scratch' = scratch
    BY DEF Exhausted
  <1>3. /\ HeapInv(graph, scratch, job) /\ job.best \in Reached(graph, scratch)
        /\ q.goal \in Ids(graph) /\ q.goal \notin Done(graph, scratch)
    BY <1>1 DEF SearchJob, HeapInv, ReachedInv
  <1>4. /\ graph' = graph /\ caches' = caches /\ file' = file /\ job' = Idle
        /\ answer'.q = q /\ answer'.cached = FALSE
        /\ FoundPath(graph, scratch, q, job.best, answer'.path)
        /\ Walkable(graph, answer')
    BY <1>2, <1>3, FoundGives
  <1>5. answer'.path[Len(answer'.path)] = job.best
    BY <1>4 DEF FoundPath
  <1>6. \A n \in Ids(graph) : Cheapest(graph, q)[n] < FltMax => n \in Reached(graph, scratch)
    BY <1>1, <1>2, AllReached
  <1>7. q.goal \notin Reached(graph, scratch)
    BY <1>2, <1>3 DEF HeapInv, Done
  <1>8. ~(Cheapest(graph, q)[q.goal] < FltMax)
    BY <1>3, <1>6, <1>7
  <1>9. \A n \in Ids(graph) : Cheapest(graph, q)[n] < FltMax =>
           Distance(graph, job.best, q.goal) <= Distance(graph, n, q.goal)
    BY <1>3, <1>6 DEF HeapInv
  <1> HIDE DEF q
  <1>10. CheapEnough(graph, answer')
    BY <1>4, <1>5, <1>8, <1>9 DEF CheapEnough
  <1>11. AnswerOK(graph, answer')
    BY <1>4, <1>10 DEF AnswerOK
  <1> QED BY <1>1, <1>2, <1>4, <1>11, JobAnswered
-----------------------------------------------------------------------------
(* Expanding a node *)

\* t is s after n was done with and the nodes of ms came to be reached from it.
Expanded(g, s, q, n, ms, t) ==
    /\ ScratchOK(t) /\ t.id = s.id /\ t.size = s.size
    /\ ms \subseteq Ids(g)
    /\ \A m \in Ids(g) :
         m \in ms <=> /\ <<n, m>> \in Open(g, q) /\ ~Closed(s, m)
                      /\ \/ s.stamp[m] # s.id
                         \/ s.g[n] + g.edges[<<n, m>>].cost < s.g[m]
    /\ \A m \in ms : /\ t.g[m] = s.g[n] + g.edges[<<n, m>>].cost
                     /\ t.f[m] = t.g[m] + (Distance(g, m, q.goal) * q.weight)
                     /\ t.parent[m] = n /\ t.stamp[m] = s.id
    /\ \A m \in Ids(g) \ ms : /\ t.g[m] = s.g[m] /\ t.f[m] = s.f[m]
                              /\ t.parent[m] = s.parent[m] /\ t.stamp[m] = s.stamp[m]
    /\ t.closed[n] = s.id
    /\ \A m \in Ids(g) \ {n} : t.closed[m] = s.closed[m]

\* What that does to the nodes that were reached and to those done with.
Grown(g, s, q, n, ms, t) ==
    /\ n \notin ms /\ q.start \notin ms
    /\ Reached(g, t) = Reached(g, s) \cup ms
    /\ Done(g, t) = Done(g, s) \cup {n}
    /\ \A m \in Ids(g) : Closed(t, m) <=> Closed(s, m) \/ m = n
    /\ \A m \in Done(g, t) : m \notin ms /\ t.g[m] = s.g[m]
    /\ \A m \in Reached(g, s) : t.g[m] <= s.g[m]

LEMMA ExpandedGrows ==
  ASSUME NEW g, Tables(g), NEW s, ScratchOK(s), NEW q, ReachedInv(g, s, q),
         NEW n \in Reached(g, s), ~Closed(s, n), NEW ms, NEW t, Expanded(g, s, q, n, ms, t)
  PROVE  Grown(g, s, q, n, ms, t)
  <1>1. \A m \in Ids(g) : /\ s.g[m] \in Nat /\ s.stamp[m] \in 0 .. s.id
                          /\ t.g[m] \in Nat
    <2>1. s.size >= Len(g.nodes) /\ t.size >= Len(g.nodes) /\ ScratchOK(t)
      BY DEF ReachedInv, Expanded
    <2> QED BY <2>1, ScratchFacts
  <1>2. n \in Ids(g) /\ s.stamp[n] = s.id
    BY DEF Reached
  <1>3. q.start \in Ids(g) /\ s.stamp[q.start] = s.id /\ s.g[q.start] = 0
    BY DEF ReachedInv, Reached
  <1>4. \A m \in ms : /\ <<n, m>> \in Open(g, q) /\ m \in Ids(g) /\ ~Closed(s, m)
                      /\ s.stamp[m] # s.id \/ s.g[n] + g.edges[<<n, m>>].cost < s.g[m]
    BY DEF Expanded
  <1>5. ASSUME NEW m \in ms, s.stamp[m] = s.id
        PROVE  s.g[n] <= s.g[m] /\ s.g[n] # s.g[m]
    <2> DEFINE c == g.edges[<<n, m>>].cost
    <2>1. c \in Nat
      BY <1>4, OpenEdge
    <2>2. s.g[n] + c < s.g[m] /\ m \in Ids(g)
      BY <1>4, <1>5
    <2> HIDE DEF c
    <2> QED BY <1>1, <1>2, <2>1, <2>2
  <1>6. n \notin ms
    BY <1>2, <1>5
  <1>7. q.start \notin ms
    <2>1. s.g[n] \in Nat
      BY <1>1, <1>2
    <2> QED BY <1>3, <1>5, <2>1
  <1>8. t.id = s.id /\ ms \subseteq Ids(g) /\ t.closed[n] = s.id
        /\ \A m \in Ids(g) \ {n} : t.closed[m] = s.closed[m]
    BY DEF Expanded
  <1>81. \A m \in ms : t.stamp[m] = s.id /\ t.g[m] = s.g[n] + g.edges[<<n, m>>].cost
    BY DEF Expanded
  <1>82. \A m \in Ids(g) \ ms : t.stamp[m] = s.stamp[m] /\ t.g[m] = s.g[m]
    BY DEF Expanded
  <1>9. Reached(g, t) = Reached(g, s) \cup ms
    BY <1>8, <1>81, <1>82 DEF Reached
  <1>10. \A m \in Ids(g) : (Closed(t, m) <=> (Closed(s, m) \/ m = n))
    BY <1>8 DEF Closed
  <1>11. Done(g, t) = Done(g, s) \cup {n}
    <2>1. \A m \in Reached(g, t) : m \in Ids(g)
      BY DEF Reached
    <2>2. \A m \in Reached(g, s) : m \in Reached(g, t)
      BY <1>9
    <2>3. \A m \in Reached(g, t) : Closed(s, m) => m \in Reached(g, s)
      BY <1>4, <1>9
    <2>4. \A m : (m \in Done(g, t) <=> (m \in Reached(g, t) /\ Closed(t, m)))
      BY DEF Done
    <2>5. \A m : (m \in Done(g, s) <=> (m \in Reached(g, s) /\ Closed(s, m)))
      BY DEF Done
    <2>6. \A m : (m \in Done(g, t) <=> (m \in Done(g, s) \/ m = n))
      BY <1>2, <1>10, <2>1, <2>2, <2>3, <2>4, <2>5
    <2> QED BY <2>6
  <1>12. \A m \in Done(g, t) : m \notin ms /\ t.g[m] = s.g[m]
    <2> SUFFICES ASSUME NEW m \in Done(g, t)
                 PROVE  m \notin ms /\ t.g[m] = s.g[m]
      OBVIOUS
    <2>1. m \in Ids(g) /\ (Closed(s, m) \/ m = n)
      BY <1>2, <1>11 DEF Done, Reached
    <2>2. m \notin ms
      BY <1>4, <1>6, <2>1
    <2> QED BY <1>82, <2>1, <2>2
  <1>13. ASSUME NEW m \in Reached(g, s)
         PROVE  t.g[m] <= s.g[m]
    <2>1. m \in Ids(g) /\ s.stamp[m] = s.id
      BY DEF Reached
    <2>2. CASE m \in ms
      <3> DEFINE c == g.edges[<<n, m>>].cost
      <3>1. t.g[m] = s.g[n] + c /\ s.g[n] + c < s.g[m]
        BY <1>4, <1>81, <2>1, <2>2
      <3> HIDE DEF c
      <3>2. t.g[m] < s.g[m] /\ t.g[m] \in Nat /\ s.g[m] \in Nat
        BY <1>1, <2>1, <3>1
      <3> QED BY <3>2
    <2>3. CASE m \notin ms
      BY <1>1, <1>82, <2>1, <2>3
    <2> QED BY <2>2, <2>3
  <1> QED BY <1>6, <1>7, <1>9, <1>10, <1>11, <1>12, <1>13 DEF Grown

LEMMA ReachedOn ==
  ASSUME NEW g, Tables(g), NEW s, ScratchOK(s), NEW q, ReachedInv(g, s, q),
         NEW n \in Reached(g, s), ~Closed(s, n), n # q.goal,
         NEW ms, NEW t, Expanded(g, s, q, n, ms, t)
  PROVE  ReachedInv(g, t, q)
  <1>0. Grown(g, s, q, n, ms, t)
    BY ExpandedGrows
  <1>1. /\ q \in Queries /\ q.start \in Ids(g) /\ q.goal \in Ids(g) /\ q.start # q.goal
        /\ s.size >= Len(g.nodes) /\ q.start \in Reached(g, s) /\ s.g[q.start] = 0
        /\ q.goal \notin Done(g, s)
    BY DEF ReachedInv
  <1>2. n \in Ids(g) /\ Reached(g, s) \subseteq Ids(g) /\ ms \subseteq Ids(g)
    BY DEF Reached, Expanded
  <1>3. /\ n \notin ms /\ q.start \notin ms
        /\ Reached(g, t) = Reached(g, s) \cup ms /\ Done(g, t) = Done(g, s) \cup {n}
    BY <1>0 DEF Grown
  <1>4. \A m \in Ids(g) : (Closed(t, m) <=> (Closed(s, m) \/ m = n))
    BY <1>0 DEF Grown
  <1>5. \A m \in Done(g, t) : m \notin ms /\ t.g[m] = s.g[m]
    BY <1>0 DEF Grown
  <1>6. \A m \in ms : /\ t.g[m] = s.g[n] + g.edges[<<n, m>>].cost
                      /\ t.f[m] = t.g[m] + (Distance(g, m, q.goal) * q.weight)
                      /\ t.parent[m] = n
    BY DEF Expanded
  <1>7. \A m \in Ids(g) \ ms : t.g[m] = s.g[m] /\ t.f[m] = s.f[m] /\ t.parent[m] = s.parent[m]
    BY DEF Expanded
  <1>8. t.size >= Len(g.nodes) /\ t.g[q.start] = 0
    BY <1>1, <1>3, <1>7 DEF Expanded
  <1>9. \A m \in Ids(g) : Closed(t, m) => m \in Reached(g, t) \/ m \in q.skip
    BY <1>3, <1>4 DEF ReachedInv
  <1>10. \A m \in Ids(g) \cap q.skip : Closed(t, m)
    BY <1>4 DEF ReachedInv
  <1>11. \A m \in Reached(g, t) : t.f[m] = t.g[m] + (Distance(g, m, q.goal) * q.weight)
    <2>1. \A m \in Reached(g, s) : s.f[m] = s.g[m] + (Distance(g, m, q.goal) * q.weight)
      BY DEF ReachedInv
    <2> SUFFICES ASSUME NEW m \in Reached(g, t)
                 PROVE  t.f[m] = t.g[m] + (Distance(g, m, q.goal) * q.weight)
      OBVIOUS
    <2>2. CASE m \in ms
      BY <1>6, <2>2
    <2>3. CASE m \notin ms
      <3>1. m \in Reached(g, s) /\ m \in Ids(g) \ ms
        BY <1>2, <1>3, <2>3
      <3> QED BY <1>7, <2>1, <3>1
    <2> QED BY <2>2, <2>3
  <1>12. \A m \in Reached(g, t) \ {q.start} : CameBy(g, t, q, m)
    <2> SUFFICES ASSUME NEW m \in Reached(g, t) \ {q.start}
                 PROVE  CameBy(g, t, q, m)
      OBVIOUS
    <2>1. CASE m \in ms
      <3>1. <<n, m>> \in Open(g, q) /\ m \in Ids(g)
        BY <2>1 DEF Expanded
      <3>2. m \notin q.skip
        BY <3>1 DEF Open
      <3>3. t.parent[m] = n /\ n \in Done(g, t) /\ t.g[n] = s.g[n]
        BY <1>3, <1>5, <1>6, <2>1
      <3> QED BY <1>6, <2>1, <3>1, <3>2, <3>3 DEF CameBy
    <2>2. CASE m \notin ms
      <3>1. m \in Reached(g, s) \ {q.start} /\ m \in Ids(g) \ ms
        BY <1>2, <1>3, <2>2
      <3>2. CameBy(g, s, q, m)
        BY <3>1 DEF ReachedInv
      <3>3. /\ t.parent[m] = s.parent[m] /\ t.g[m] = s.g[m]
            /\ s.parent[m] \in Done(g, t) /\ t.g[s.parent[m]] = s.g[s.parent[m]]
        BY <1>3, <1>5, <1>7, <3>1, <3>2 DEF CameBy
      <3> QED BY <3>2, <3>3 DEF CameBy
    <2> QED BY <2>1, <2>2
  <1>13. PICK r \in [Ids(g) -> Nat], K \in Nat :
           /\ RankedUpTo(g, r, Done(g, s), K)
           /\ \A m \in Reached(g, s) \ {q.start} : r[s.parent[m]] < r[m]
    BY DEF ReachedInv
  <1> DEFINE D == Done(g, s)
             r2 == [m \in Ids(g) |-> IF m \in D THEN r[m] ELSE IF m = n THEN K ELSE K + 1]
  <1>14. D \subseteq Ids(g) /\ n \notin D
    BY <1>2 DEF Done
  <1>15. r2 \in [Ids(g) -> Nat] /\ K + 1 \in Nat
    OBVIOUS
  <1>16. \A m \in Ids(g) : /\ m \in D => r2[m] = r[m] /\ r2[m] < K
                           /\ m = n => r2[m] = K
                           /\ m \notin D \cup {n} => r2[m] = K + 1
    BY <1>13, <1>14 DEF RankedUpTo
  <1> HIDE DEF r2
  <1>17. RankedUpTo(g, r2, Done(g, t), K + 1)
    BY <1>3, <1>15, <1>16 DEF RankedUpTo
  <1>18. ASSUME NEW m \in Reached(g, t) \ {q.start}
         PROVE  r2[t.parent[m]] < r2[m]
    <2>1. m \in Ids(g) /\ t.parent[m] \in Done(g, t)
      BY <1>2, <1>3, <1>12 DEF CameBy
    <2>2. t.parent[m] \in D \cup {n} /\ t.parent[m] \in Ids(g)
      BY <1>2, <1>3, <1>14, <2>1
    <2>3. CASE m \notin D \cup {n}
      BY <1>15, <1>16, <2>1, <2>2, <2>3
    <2>4. CASE m \in D \cup {n}
      <3>1. m \notin ms /\ m \in Reached(g, s)
        BY <1>3, <1>5, <2>4 DEF Done
      <3>2. t.parent[m] = s.parent[m] /\ CameBy(g, s, q, m) /\ r[s.parent[m]] < r[m]
        BY <1>7, <1>13, <2>1, <3>1 DEF ReachedInv
      <3>3. s.parent[m] \in D
        BY <3>2 DEF CameBy
      <3>4. CASE m \in D
        BY <1>16, <2>1, <2>2, <3>2, <3>3, <3>4
      <3>5. CASE m = n
        BY <1>16, <2>1, <2>2, <3>2, <3>3, <3>5
      <3> QED BY <2>4, <3>4, <3>5
    <2> QED BY <2>3, <2>4
  <1>19. q.start \in Reached(g, t) /\ q.goal \notin Done(g, t)
    BY <1>1, <1>3
  <1>20. \E rr \in [Ids(g) -> Nat], KK \in Nat :
           /\ RankedUpTo(g, rr, Done(g, t), KK)
           /\ \A m \in Reached(g, t) \ {q.start} : rr[t.parent[m]] < rr[m]
    BY <1>15, <1>17, <1>18
  <1> HIDE DEF D
  <1> QED BY <1>1, <1>8, <1>9, <1>10, <1>11, <1>12, <1>19, <1>20 DEF ReachedInv

LEMMA RelaxedOn ==
  ASSUME NEW g, Tables(g), NEW s, ScratchOK(s), NEW q, ReachedInv(g, s, q), RelaxedInv(g, s, q),
         NEW n \in Reached(g, s), ~Closed(s, n), NEW ms, NEW t, Expanded(g, s, q, n, ms, t)
  PROVE  RelaxedInv(g, t, q)
  <1>0. Grown(g, s, q, n, ms, t)
    BY ExpandedGrows
  <1> SUFFICES ASSUME NEW e \in Open(g, q), e[1] \in Done(g, t)
               PROVE  /\ e[2] \in Reached(g, t)
                      /\ Closed(t, e[2]) \/ t.g[e[2]] <= t.g[e[1]] + g.edges[e].cost
    BY DEF RelaxedInv
  <1>1. /\ e = <<e[1], e[2]>> /\ e[1] \in Ids(g) /\ e[2] \in Ids(g) /\ g.edges[e].cost \in Nat
    BY OpenEdge
  <1>2. \A m \in Ids(g) : s.g[m] \in Nat /\ t.g[m] \in Nat
    <2>1. s.size >= Len(g.nodes) /\ t.size >= Len(g.nodes) /\ ScratchOK(t)
      BY DEF ReachedInv, Expanded
    <2> QED BY <2>1, ScratchFacts
  <1>3. /\ Reached(g, t) = Reached(g, s) \cup ms /\ Done(g, t) = Done(g, s) \cup {n}
        /\ t.g[e[1]] = s.g[e[1]]
        /\ \A m \in Ids(g) : Closed(s, m) => Closed(t, m)
        /\ \A m \in Reached(g, s) : t.g[m] <= s.g[m]
    BY <1>0 DEF Grown
  <1>4. CASE e[1] \in Done(g, s)
    <2>1. /\ e[2] \in Reached(g, s)
          /\ Closed(s, e[2]) \/ s.g[e[2]] <= s.g[e[1]] + g.edges[e].cost
      BY <1>4 DEF RelaxedInv
    <2>2. t.g[e[2]] <= s.g[e[2]]
      BY <1>3, <2>1
    <2> QED BY <1>1, <1>2, <1>3, <2>1, <2>2
  <1>5. CASE e[1] = n
    <2> DEFINE m == e[2]
    <2>1. e = <<n, m>> /\ m \in Ids(g) /\ <<n, m>> \in Open(g, q)
      BY <1>1, <1>5
    <2> HIDE DEF m
    <2>2. CASE m \in ms
      <3>1. t.g[m] = s.g[n] + g.edges[<<n, m>>].cost
        BY <2>2 DEF Expanded
      <3>2. t.g[m] = t.g[e[1]] + g.edges[e].cost /\ t.g[m] \in Nat
        BY <1>2, <1>3, <1>5, <2>1, <3>1
      <3>3. t.g[m] <= t.g[e[1]] + g.edges[e].cost
        BY <3>2
      <3> QED BY <1>3, <2>2, <3>3 DEF m
    <2>3. CASE m \notin ms
      <3>1. Closed(s, m) \/ (s.stamp[m] = s.id /\ ~(s.g[n] + g.edges[<<n, m>>].cost < s.g[m]))
        BY <2>1, <2>3 DEF Expanded
      <3>2. m \notin q.skip
        BY <2>1 DEF Open
      <3>3. m \in Reached(g, s)
        BY <2>1, <3>1, <3>2 DEF ReachedInv, Reached
      <3>4. t.g[m] <= s.g[m]
        BY <1>3, <3>3
      <3>5. Closed(t, m) \/ t.g[m] <= t.g[e[1]] + g.edges[e].cost
        BY <1>1, <1>2, <1>3, <1>5, <2>1, <3>1, <3>4
      <3> QED BY <1>3, <3>3, <3>5 DEF m
    <2> QED BY <2>2, <2>3
  <1> QED BY <1>3, <1>4, <1>5

LEMMA BoundOn ==
  ASSUME NEW g, Tables(g), NEW s, ScratchOK(s), NEW j, SearchJob(g, s, j),
         NEW x \in Smallest(j.heap), x.f = s.f[x.node], ~Closed(s, x.node),
         NEW ms, NEW t, Expanded(g, s, j.q, x.node, ms, t)
  PROVE  BoundInv(g, t, j.q)
  <1> SUFFICES ASSUME Admissible(g), NEW m \in Done(g, t), Cheapest(g, j.q)[m] < FltMax
               PROVE  t.g[m] <= j.q.weight * Cheapest(g, j.q)[m]
    BY DEF BoundInv
  <1>1. /\ ReachedInv(g, s, j.q) /\ BoundInv(g, s, j.q)
        /\ x.node \in Reached(g, s)
    BY HeapEntry DEF SearchJob
  <1>2. Grown(g, s, j.q, x.node, ms, t)
    BY <1>1, ExpandedGrows
  <1>3. t.g[m] = s.g[m] /\ (m \in Done(g, s) \/ m = x.node)
    BY <1>2 DEF Grown
  <1>4. CASE m \in Done(g, s)
    BY <1>1, <1>3, <1>4 DEF BoundInv
  <1>5. CASE m = x.node
    <2>1. s.g[x.node] <= j.q.weight * Cheapest(g, j.q)[x.node]
      BY <1>5, SmallestBound
    <2> QED BY <1>3, <1>5, <2>1
  <1> QED BY <1>3, <1>4, <1>5

\* What Nearer leaves for the best so far is one of the nearest of all.
LEMMA NearestIs ==
  ASSUME Tables(graph), job.q.goal \in Ids(graph), NEW R, R \subseteq Ids(graph), job.best \in R,
         job.bestH = Distance(graph, job.best, job.q.goal),
         \A o \in R : job.bestH <= Distance(graph, o, job.q.goal),
         NEW ms, ms \subseteq Ids(graph),
         NEW best \in IF Nearer(ms) = {} THEN {job.best} ELSE Nearer(ms)
  PROVE  /\ best \in R \cup ms
         /\ \A o \in R \cup ms :
              Distance(graph, best, job.q.goal) <= Distance(graph, o, job.q.goal)
  <1> DEFINE h(m) == Distance(graph, m, job.q.goal)
  <1>1. \A m \in Ids(graph) : h(m) \in Nat
    BY DistanceIs
  <1>2. Nearer(ms) = {m \in ms : h(m) < job.bestH /\ \A o \in ms : h(m) <= h(o)}
    BY DEF Nearer
  <1>3. job.bestH = h(job.best) /\ \A o \in R : job.bestH <= h(o)
    OBVIOUS
  <1> HIDE DEF h
  <1>4. CASE Nearer(ms) = {}
    <2>1. best = job.best
      BY <1>4
    <2>2. ASSUME NEW o \in ms
          PROVE  job.bestH <= h(o)
      <3> DEFINE H == {h(m) : m \in ms}
      <3>1. H \subseteq Nat /\ h(o) \in H
        BY <1>1
      <3>2. PICK c \in H : \A y \in H : c <= y
        <4> HIDE DEF H
        <4> QED BY <3>1, MinOf
      <3>3. PICK m \in ms : c = h(m)
        BY <3>2
      <3>4. \A p \in ms : h(m) <= h(p)
        BY <3>2, <3>3
      <3>5. ~(h(m) < job.bestH)
        BY <1>2, <1>4, <3>4
      <3>6. h(m) \in Nat /\ h(o) \in Nat /\ job.bestH \in Nat /\ h(m) <= h(o)
        BY <1>1, <1>3, <3>4
      <3> QED BY <3>5, <3>6
    <2> QED BY <1>3, <2>1, <2>2 DEF h
  <1>5. CASE Nearer(ms) # {}
    <2>1. best \in ms /\ h(best) < job.bestH /\ \A o \in ms : h(best) <= h(o)
      BY <1>2, <1>5
    <2>2. \A o \in R : h(best) <= h(o)
      <3>1. h(best) \in Nat /\ job.bestH \in Nat /\ \A o \in R : h(o) \in Nat
        BY <1>1, <1>3, <2>1
      <3> QED BY <1>3, <2>1, <3>1
    <2> QED BY <2>1, <2>2 DEF h
  <1> QED BY <1>4, <1>5

\* The scratch data that Expand leaves.
LEMMA ExpandIs ==
  ASSUME IInv, job.op = "search", NEW x \in Smallest(job.heap), Expand(x)
  PROVE  Expanded(graph, scratch, job.q, x.node, Relaxed(x.node), scratch')
  <1> DEFINE n == x.node
             ms == Relaxed(n)
             S == 1 .. scratch.size
             g(m) == scratch.g[n] + graph.edges[<<n, m>>].cost
             f(m) == g(m) + (Distance(graph, m, job.q.goal) * job.q.weight)
             gs == [m \in ms |-> g(m)]
             fs == [m \in ms |-> f(m)]
             ps == [m \in ms |-> n]
             ts == [m \in ms |-> scratch.id]
             g2 == Over(gs, scratch.g)
             f2 == Over(fs, scratch.f)
             p2 == Over(ps, scratch.parent)
             t2 == Over(ts, scratch.stamp)
             c2 == [scratch.closed EXCEPT ![n] = scratch.id]
  <1>1. /\ GraphOK(graph) /\ Tables(graph)
        /\ ScratchOK(scratch) /\ SearchJob(graph, scratch, job)
    BY SearchRuns
  <1>2. n \in Ids(graph) /\ n \in Reached(graph, scratch)
    BY <1>1, HeapEntry
  <1>3. /\ ReachedInv(graph, scratch, job.q) /\ scratch.size >= Len(graph.nodes)
        /\ job.q \in Queries /\ job.q.goal \in Ids(graph)
    BY <1>1 DEF SearchJob, ReachedInv
  <1>4. /\ Ids(graph) \subseteq S /\ scratch.size \in Nat /\ scratch.id \in Nat
        /\ \A m \in Ids(graph) : scratch.g[m] \in Nat
    BY <1>1, <1>3, ScratchFacts
  <1>5. /\ scratch = [id |-> scratch.id, size |-> scratch.size, g |-> scratch.g, f |-> scratch.f,
                      parent |-> scratch.parent, stamp |-> scratch.stamp,
                      closed |-> scratch.closed]
        /\ scratch.g \in [S -> Nat] /\ scratch.f \in [S -> Nat] /\ scratch.parent \in [S -> Nat]
        /\ scratch.stamp \in [S -> 0 .. scratch.id] /\ scratch.closed \in [S -> 0 .. scratch.id]
        /\ scratch.id \in 0 .. IdRange - 1
    BY <1>1 DEF ScratchOK
  <1>6. ~Closed(scratch, n)
    BY DEF Expand, Expansion, Stale
  <1>7. \A m \in Ids(graph) : (m \in ms <=>
           (/\ <<n, m>> \in Open(graph, job.q) /\ ~Closed(scratch, m)
            /\ \/ scratch.stamp[m] # scratch.id
               \/ scratch.g[n] + graph.edges[<<n, m>>].cost < scratch.g[m]))
    <2>1. \A m \in Ids(graph) : ~Closed(scratch, m) => m \notin job.q.skip
      BY <1>3 DEF ReachedInv
    <2> SUFFICES ASSUME NEW m \in Ids(graph), ~Closed(scratch, m)
                 PROVE  (<<n, m>> \in Open(graph, job.q)) <=>
                           (/\ <<n, m>> \in DOMAIN graph.edges
                            /\ ~Meets(graph.edges[<<n, m>>].type, job.q.edgeMask)
                            /\ ~Meets(graph.nodes[m].type, job.q.nodeMask))
      BY DEF Relaxed
    <2>2. m \notin job.q.skip /\ n \notin job.q.skip
      BY <1>2, <1>6, <2>1
    <2> DEFINE e == <<n, m>>
    <2>3. e[1] = n /\ e[2] = m
      OBVIOUS
    <2> HIDE DEF e
    <2>4. (e \in Open(graph, job.q)) <=> (/\ e \in DOMAIN graph.edges
                                         /\ ~Meets(graph.edges[e].type, job.q.edgeMask)
                                         /\ ~Meets(graph.nodes[m].type, job.q.nodeMask))
      BY <2>2, <2>3 DEF Open
    <2> QED BY <2>4 DEF e
  <1>8. ms \subseteq Ids(graph) /\ \A m \in ms : <<n, m>> \in Open(graph, job.q)
    <2>1. ms \subseteq Ids(graph)
      BY DEF Relaxed
    <2> QED BY <1>7, <2>1
  <1>9. scratch' = [scratch EXCEPT !.g = g2, !.f = f2, !.parent = p2, !.stamp = t2, !.closed = c2]
    BY DEF Expand
  <1>10. \A m \in ms : g(m) \in Nat /\ f(m) \in Nat
    <2> SUFFICES ASSUME NEW m \in ms
                 PROVE  g(m) \in Nat /\ f(m) \in Nat
      OBVIOUS
    <2> DEFINE c == graph.edges[<<n, m>>].cost
               h == Distance(graph, m, job.q.goal)
               w == job.q.weight
    <2>1. c \in Nat
      BY <1>1, <1>8, OpenEdge
    <2>2. scratch.g[n] \in Nat
      BY <1>2, <1>4
    <2>3. h \in Nat
      BY <1>1, <1>3, <1>8, DistanceIs
    <2>4. w \in Nat
      BY <1>3, QueryAssumption
    <2>5. h * w \in Nat
      <3> HIDE DEF h, w
      <3> QED BY <2>3, <2>4, ProductIs
    <2>6. g(m) = scratch.g[n] + c /\ f(m) = g(m) + (h * w)
      OBVIOUS
    <2> HIDE DEF c, h, w, g, f
    <2>7. g(m) \in Nat
      BY <2>1, <2>2, <2>6
    <2> QED BY <2>5, <2>6, <2>7
  <1>11. gs \in [ms -> Nat] /\ fs \in [ms -> Nat]
    BY <1>10
  <1>12. n \in Nat /\ ms \subseteq S
    BY <1>2, <1>4, <1>8
  <1>13. ps \in [ms -> Nat]
    BY <1>12
  <1>14. \A m \in ms : gs[m] = g(m) /\ fs[m] = f(m) /\ ps[m] = n
    OBVIOUS
  <1>15. DOMAIN ts = ms /\ \A m \in ms : ts[m] = scratch.id
    OBVIOUS
  <1>16. c2 \in [S -> 0 .. scratch.id] /\ c2[n] = scratch.id
         /\ \A m \in S \ {n} : c2[m] = scratch.closed[m]
    BY <1>2, <1>4, <1>5
  <1> HIDE DEF gs, fs, ps, ts, ms, S, c2
  <1>17. PutOver(g2, S, ms, scratch.g, gs) /\ PutOver(f2, S, ms, scratch.f, fs)
         /\ PutOver(p2, S, ms, scratch.parent, ps)
    BY <1>5, <1>11, <1>12, <1>13, OverNats
  <1>18. /\ t2 \in [S -> 0 .. scratch.id]
         /\ \A m \in ms : t2[m] = scratch.id
         /\ \A m \in S \ ms : t2[m] = scratch.stamp[m]
    <2>1. /\ DOMAIN t2 = S
          /\ \A m \in ms : t2[m] = scratch.id
          /\ \A m \in S \ ms : t2[m] = scratch.stamp[m]
      BY <1>5, <1>12, <1>15 DEF Over
    <2>2. t2 = [m \in DOMAIN t2 |-> t2[m]]
      BY DEF Over
    <2>3. scratch.id \in 0 .. scratch.id
      BY <1>4
    <2>4. \A m \in S : t2[m] \in 0 .. scratch.id
      BY <1>5, <2>1, <2>3
    <2> QED BY <2>1, <2>2, <2>4
  <1> HIDE DEF g2, f2, p2, t2, n
  <1>19. /\ scratch'.id = scratch.id /\ scratch'.size = scratch.size
         /\ scratch'.g = g2 /\ scratch'.f = f2 /\ scratch'.parent = p2
         /\ scratch'.stamp = t2 /\ scratch'.closed = c2
    BY <1>5, <1>9
  <1>20. scratch' = [id |-> scratch'.id, size |-> scratch'.size, g |-> scratch'.g,
                     f |-> scratch'.f, parent |-> scratch'.parent,
                     stamp |-> scratch'.stamp, closed |-> scratch'.closed]
    BY <1>5, <1>9
  <1>21. g2 \in [S -> Nat] /\ f2 \in [S -> Nat] /\ p2 \in [S -> Nat]
    BY <1>17 DEF PutOver
  <1>22. ScratchOK(scratch')
    BY <1>4, <1>5, <1>16, <1>18, <1>19, <1>20, <1>21 DEF ScratchOK, S
  <1>23. \A m \in ms : /\ g2[m] = g(m) /\ f2[m] = f(m) /\ p2[m] = n
    BY <1>14, <1>17 DEF PutOver
  <1>24. \A m \in S \ ms : /\ g2[m] = scratch.g[m] /\ f2[m] = scratch.f[m]
                           /\ p2[m] = scratch.parent[m]
    BY <1>17 DEF PutOver
  <1>25. \A m \in ms : /\ g2[m] = scratch.g[n] + graph.edges[<<n, m>>].cost
                       /\ f2[m] = g2[m] + (Distance(graph, m, job.q.goal) * job.q.weight)
                       /\ p2[m] = n
    BY <1>23
  <1> HIDE DEF g, f
  <1>26. \A m \in Ids(graph) \ ms :
            /\ g2[m] = scratch.g[m] /\ f2[m] = scratch.f[m]
            /\ p2[m] = scratch.parent[m] /\ t2[m] = scratch.stamp[m]
    BY <1>4, <1>18, <1>24
  <1>27. \A m \in Ids(graph) \ {n} : c2[m] = scratch.closed[m]
    BY <1>4, <1>16
  <1>28. Expanded(graph, scratch, job.q, n, ms, scratch')
    BY <1>7, <1>8, <1>16, <1>18, <1>19, <1>22, <1>25, <1>26, <1>27 DEF Expanded
  <1> QED BY <1>28 DEF n, ms

\* The heap and the best so far that Expand leaves.
LEMMA HeapOn ==
  ASSUME NEW g, Tables(g), NEW s, ScratchOK(s), NEW j, SearchJob(g, s, j),
         NEW x \in Smallest(j.heap), ~Closed(s, x.node),
         NEW ms, NEW t, Expanded(g, s, j.q, x.node, ms, t),
         NEW k, k.q = j.q,
         k.heap = (j.heap \ {x}) \cup {[f |-> t.f[m], node |-> m] : m \in ms},
         k.best \in Reached(g, s) \cup ms, k.bestH = Distance(g, k.best, j.q.goal),
         \A o \in Reached(g, s) \cup ms : k.bestH <= Distance(g, o, j.q.goal)
  PROVE  HeapInv(g, t, k)
  <1> DEFINE n == x.node
             new == {[f |-> t.f[m], node |-> m] : m \in ms}
  <1>1. /\ ReachedInv(g, s, j.q) /\ HeapInv(g, s, j) /\ n \in Reached(g, s)
        /\ s.size >= Len(g.nodes)
    BY HeapEntry DEF SearchJob, ReachedInv
  <1>2. Grown(g, s, j.q, n, ms, t)
    BY <1>1, ExpandedGrows
  <1>3. /\ Reached(g, t) = Reached(g, s) \cup ms
        /\ \A m \in Ids(g) : (Closed(t, m) <=> (Closed(s, m) \/ m = n))
    BY <1>2 DEF Grown
  <1>4. ms \subseteq Ids(g) /\ Reached(g, s) \subseteq Ids(g)
        /\ \A m \in Ids(g) \ ms : t.f[m] = s.f[m]
    BY DEF Expanded, Reached
  <1>5. \A m \in Ids(g) : t.f[m] \in Nat
    <2>1. ScratchOK(t) /\ t.size >= Len(g.nodes)
      BY <1>1 DEF Expanded
    <2> QED BY <2>1, ScratchFacts
  <1>6. j.heap \subseteq [f : Nat, node : Reached(g, s)]
    BY <1>1 DEF HeapInv
  <1>7. new \subseteq [f : Nat, node : Reached(g, t)]
    BY <1>3, <1>4, <1>5
  <1>8. k.heap = (j.heap \ {x}) \cup new
    OBVIOUS
  <1>9. \A m \in ms : [f |-> t.f[m], node |-> m] \in new
    OBVIOUS
  <1> HIDE DEF new
  <1>10. k.heap \subseteq [f : Nat, node : Reached(g, t)]
    BY <1>3, <1>6, <1>7, <1>8
  <1>11. ASSUME NEW m \in Reached(g, t), ~Closed(t, m)
         PROVE  [f |-> t.f[m], node |-> m] \in k.heap
    <2>1. CASE m \in ms
      BY <1>8, <1>9, <2>1
    <2>2. CASE m \notin ms
      <3>1. m \in Reached(g, s) /\ m \in Ids(g) /\ t.f[m] = s.f[m]
        BY <1>3, <1>4, <2>2
      <3>2. ~Closed(s, m) /\ m # n
        BY <1>3, <1>11, <3>1
      <3>3. [f |-> s.f[m], node |-> m] \in j.heap
        BY <1>1, <3>1, <3>2 DEF HeapInv
      <3>4. [f |-> s.f[m], node |-> m] # x
        BY <3>2
      <3> QED BY <1>8, <3>1, <3>3, <3>4
    <2> QED BY <2>1, <2>2
  <1> QED BY <1>3, <1>10, <1>11 DEF HeapInv

LEMMA ExpandKeeps ==
  ASSUME IInv, job.op = "search", NEW x \in Smallest(job.heap), Expand(x)
  PROVE  IInv'
  <1> DEFINE n == x.node
             ms == Relaxed(n)
             R == Reached(graph, scratch)
  <1>1. /\ GraphOK(graph) /\ Tables(graph) /\ graph # NoGraph
        /\ ScratchOK(scratch) /\ SearchJob(graph, scratch, job)
    BY SearchRuns
  <1>2. Expanded(graph, scratch, job.q, n, ms, scratch')
    BY ExpandIs
  <1>3. /\ ~Closed(scratch, n) /\ x.f = scratch.f[n] /\ n # job.q.goal
        /\ graph' = graph /\ caches' = caches /\ file' = file /\ answer' = answer
    BY DEF Expand, Expansion, Stale
  <1>4. /\ n \in R /\ n \in Ids(graph)
        /\ ReachedInv(graph, scratch, job.q) /\ RelaxedInv(graph, scratch, job.q)
        /\ BoundInv(graph, scratch, job.q) /\ HeapInv(graph, scratch, job)
        /\ job.q.goal \in Ids(graph) /\ R \subseteq Ids(graph)
    BY <1>1, HeapEntry DEF SearchJob, ReachedInv, Reached
  <1> DEFINE old(m) == scratch.g[n] + graph.edges[<<n, m>>].cost
                          + Distance(graph, m, job.q.goal) * job.q.weight
             heap1 == (job.heap \ {x}) \cup {[f |-> old(m), node |-> m] : m \in ms}
             heap2 == (job.heap \ {x}) \cup {[f |-> scratch'.f[m], node |-> m] : m \in ms}
             count == job.expansions + 1
  <1>5. PICK best \in IF Nearer(ms) = {} THEN {job.best} ELSE Nearer(ms) :
          job' = [job EXCEPT !.heap = heap1, !.expansions = count, !.best = best,
                             !.bestH = Distance(graph, best, job.q.goal)]
    BY DEF Expand
  <1>6. heap1 = heap2
    <2>1. \A m \in ms : scratch'.f[m] = old(m)
      BY <1>2 DEF Expanded
    <2> HIDE DEF old, ms
    <2>2. \A m \in ms : [f |-> scratch'.f[m], node |-> m] = [f |-> old(m), node |-> m]
      BY <2>1
    <2>3. {[f |-> scratch'.f[m], node |-> m] : m \in ms} = {[f |-> old(m), node |-> m] : m \in ms}
      BY <2>2
    <2> QED BY <2>3
  <1> DEFINE h == Distance(graph, best, job.q.goal)
  <1>7. /\ job = [op |-> "search", q |-> job.q, expansions |-> job.expansions,
                  best |-> job.best, bestH |-> job.bestH, heap |-> job.heap]
        /\ job' = [job EXCEPT !.heap = heap2, !.expansions = count, !.best = best, !.bestH = h]
    BY <1>1, <1>5, <1>6 DEF SearchJob
  <1> HIDE DEF heap2, count, h
  <1>8. /\ job'.op = "search" /\ job'.q = job.q /\ job'.heap = heap2 /\ job'.best = best
        /\ job'.bestH = h
    BY <1>7
  <1>9. job' = [op |-> job'.op, q |-> job'.q, expansions |-> job'.expansions,
                best |-> job'.best, bestH |-> job'.bestH, heap |-> job'.heap]
    BY <1>7
  <1>10. /\ best \in R \cup ms
         /\ \A o \in R \cup ms : h <= Distance(graph, o, job.q.goal)
    <2>1. ms \subseteq Ids(graph)
      BY <1>2 DEF Expanded
    <2>2. /\ job.best \in R /\ job.bestH = Distance(graph, job.best, job.q.goal)
          /\ \A o \in R : job.bestH <= Distance(graph, o, job.q.goal)
      BY <1>4 DEF HeapInv
    <2> HIDE DEF R, ms
    <2> QED BY <1>1, <1>4, <2>1, <2>2, NearestIs DEF h
  <1>11. HeapInv(graph, scratch', job')
    <2>1. /\ job'.q = job.q
          /\ job'.heap = (job.heap \ {x}) \cup {[f |-> scratch'.f[m], node |-> m] : m \in ms}
          /\ job'.best \in R \cup ms /\ job'.bestH = Distance(graph, job'.best, job.q.goal)
          /\ \A o \in R \cup ms : job'.bestH <= Distance(graph, o, job.q.goal)
      BY <1>8, <1>10 DEF heap2, h
    <2> HIDE DEF ms
    <2> QED BY <1>1, <1>2, <1>3, <2>1, HeapOn
  <1>12. ReachedInv(graph, scratch', job.q)
    BY <1>1, <1>2, <1>3, <1>4, ReachedOn
  <1>13. RelaxedInv(graph, scratch', job.q)
    BY <1>1, <1>2, <1>3, <1>4, RelaxedOn
  <1>14. BoundInv(graph, scratch', job.q)
    BY <1>1, <1>2, <1>3, BoundOn
  <1>15. ScratchOK(scratch')
    BY <1>2 DEF Expanded
  <1>16. SearchJob(graph, scratch', job')
    BY <1>8, <1>9, <1>11, <1>12, <1>13, <1>14 DEF SearchJob
  <1>17. JobInv'
    BY <1>3, <1>16 DEF JobInv
  <1>18. AnswerInv'
    BY <1>3 DEF IInv, AnswerInv
  <1> QED BY <1>1, <1>3, <1>15, <1>17, <1>18, OtherwiseKept
-----------------------------------------------------------------------------
(* Every step, and what follows *)

LEMMA NextKeeps == IInv /\ [Next]_vars => IInv'
  <1> SUFFICES ASSUME IInv, [Next]_vars
               PROVE  IInv'
    OBVIOUS
  <1>1. CASE Edit
    BY <1>1, EditKeeps
  <1>2. CASE \E persist \in BOOLEAN : Create(persist) \/ Load(persist)
    BY <1>2, CreateKeeps, LoadKeeps
  <1>3. CASE Save \/ Remove \/ SpawnServer
    BY <1>3, SaveKeeps, RemoveKeeps
  <1>4. CASE \E q \in Queries : PrecomputePathsToNode(q) \/ FindPath(q)
    <2> PICK q \in Queries : PrecomputePathsToNode(q) \/ FindPath(q)
      BY <1>4
    <2>1. CASE PrecomputePathsToNode(q)
      BY <2>1, PrecomputeKeeps
    <2>2. CASE FromCache(q)
      BY <2>2, FromCacheKeeps
    <2>3. CASE AtGoal(q)
      BY <2>3, AtGoalKeeps
    <2>4. CASE Begin(q)
      BY <2>4, BeginKeeps
    <2> QED BY <2>1, <2>2, <2>3, <2>4 DEF FindPath
  <1>5. CASE SearchStep
    <2>0. job.op = "search"
      BY <1>5 DEF SearchStep
    <2>1. ASSUME NEW x \in Smallest(job.heap), Skip(x) \/ Arrive(x) \/ GiveUp(x) \/ Expand(x)
          PROVE  IInv'
      <3>1. x \in job.heap
        BY DEF Smallest
      <3>2. CASE Skip(x)
        BY <2>0, <3>1, <3>2, SkipKeeps
      <3>3. CASE Arrive(x)
        BY <2>0, <3>3, ArriveKeeps
      <3>4. CASE GiveUp(x)
        BY <2>0, <3>4, GiveUpKeeps
      <3>5. CASE Expand(x)
        BY <2>0, <3>5, ExpandKeeps
      <3> QED BY <2>1, <3>2, <3>3, <3>4, <3>5
    <2>2. CASE Exhausted
      BY <2>0, <2>2, ExhaustedKeeps
    <2> QED BY <1>5, <2>1, <2>2 DEF SearchStep
  <1>6. CASE TreeStep
    <2>1. CASE Store
      BY <2>1, StoreKeeps
    <2>2. ASSUME NEW x \in Smallest(job.heap), Settle(x)
          PROVE  IInv'
      BY <2>2, SettleKeeps
    <2> QED BY <1>6, <2>1, <2>2 DEF TreeStep
  <1>7. CASE UNCHANGED vars
    <2>1. /\ graph' = graph /\ caches' = caches /\ scratch' = scratch
          /\ job' = job /\ answer' = answer /\ file' = file
      BY <1>7 DEF vars
    <2> QED BY <2>1 DEF IInv, GraphInv, FileInv, NothingInv, CachesInv, JobInv, AnswerInv
  <1> QED BY <1>1, <1>2, <1>3, <1>4, <1>5, <1>6, <1>7 DEF Next

\* The inductive invariant holds in every state.
THEOREM GraphInvariant == Spec => []IInv
  <1>1. Init => IInv
    BY InitHolds
  <1>2. IInv /\ [Next]_vars => IInv'
    BY NextKeeps
  <1> QED BY <1>1, <1>2, PTL DEF Spec

\* edgeCount, of a graph and of the file it is saved to, is the number of the edges,
\* and no edge is left at a node that was removed, whatever a script adds, moves,
\* discovers, removes, saves and loads.
THEOREM EdgesStayCounted == Spec => []EdgesCounted
  <1>1. IInv => EdgesCounted
    BY DEF IInv, GraphInv, FileInv, GraphOK, Tables, Living, EdgesCounted
  <1> QED BY <1>1, GraphInvariant, PTL

\* What graphFindPath returns can be walked from the start, over open edges of the
\* graph and with no node twice: the stamps of earlier searches, the wrap of their
\* counter and the trees of earlier calls never show.
THEOREM PathsStayWalkable == Spec => []PathsWalkable
  <1>1. IInv => PathsWalkable
    BY DEF IInv, AnswerInv, AnswerOK, PathsWalkable
  <1> QED BY <1>1, GraphInvariant, PTL

\* A search without a limit gets to the goal if there is a way, and its path costs at
\* most weight times the cheapest when no edge is shorter than the straight line; a
\* path from a tree is the cheapest; else it ends as close as one can come.
THEOREM PathsStayCheap == Spec => []PathsCheapest
  <1>1. IInv => PathsCheapest
    BY DEF IInv, AnswerInv, AnswerOK, PathsCheapest
  <1> QED BY <1>1, GraphInvariant, PTL
===============================================================================
