---------------------------- MODULE OBtreeProofs ----------------------------
(***************************************************************************)
(* Proofs about OBtree, for every node size K >= 2, every set of keys and  *)
(* every bound.  The tree in the file is compared with a forest of labels: *)
(* the live nodes, and for each of them its keys and children as unbounded *)
(* arrays, its height, its parent and the range of the first five bytes    *)
(* that belong below it.  The first part says which changes keep a forest  *)
(* a forest, the next ones what the operations on arrays, nodes and trees  *)
(* write, then that recursiveAdd, find and remove follow the forest, and   *)
(* the last ones that a tree that follows a forest is a search tree, and   *)
(* that Spec keeps it so.                                                  *)
(***************************************************************************)
EXTENDS OBtree, FiniteSetTheorems, WellFoundedInduction, TLAPS

-----------------------------------------------------------------------------
(* Induction                                                               *)

\* A non-empty set of numbers has a least element.
LEMMA Least ==
  ASSUME NEW S, S \subseteq Nat, S # {}
  PROVE  \E k \in S : \A j \in S : k <= j
<1> DEFINE R == OpToRel(<, Nat)
<1>1. PICK k \in S : \A j \in S : ~(<<j, k>> \in R)
  <2> HIDE DEF R
  <2>1. IsWellFoundedOn(R, Nat)
    BY NatLessThanWellFounded, Zenon DEF R
  <2> QED BY <2>1, WFMin
<1>2. ASSUME NEW j \in S PROVE k <= j
  <2>1. ~(<<j, k>> \in R)
    BY <1>1, Zenon
  <2>2. j \in Nat /\ k \in Nat
    OBVIOUS
  <2>3. <<j, k>> \in R <=> j < k
    BY <2>2 DEF OpToRel
  <2> HIDE DEF R
  <2> QED BY <2>1, <2>2, <2>3
<1> QED BY <1>2

\* Induction over the numbers, with the claim given as the set it holds for.
LEMMA Induction ==
  ASSUME NEW S, 0 \in S, \A n \in Nat : n \in S => n + 1 \in S
  PROVE  Nat \subseteq S
<1> SUFFICES ASSUME Nat \ S # {} PROVE FALSE
  OBVIOUS
<1>1. PICK k \in Nat \ S : \A j \in Nat \ S : k <= j
  <2>1. Nat \ S \subseteq Nat
    OBVIOUS
  <2> QED BY <2>1, Least
<1>2. k # 0 /\ k \in Nat
  OBVIOUS
<1>3. k - 1 \in Nat /\ ~(k <= k - 1) /\ (k - 1) + 1 = k
  BY <1>2
<1>4. k - 1 \in S
  BY <1>1, <1>3
<1> QED BY <1>3, <1>4

\* f is what the step g leads to from d.
Iterates(f, N, d, g) == f[0] = d /\ \A n \in 1 .. N : f[n] = g[f[n - 1]]

\* A recursive function over a step that stays in D exists.
LEMMA Iterated ==
  ASSUME NEW D, NEW N \in Nat, NEW d \in D, NEW g \in [D -> D]
  PROVE  \E f \in [0 .. N -> D] : Iterates(f, N, d, g)
<1> DEFINE Step(f) == [n \in 0 .. N |-> IF n = 0 THEN d ELSE g[f[n - 1]]]
           Fs == [0 .. N -> D]
           S == {k \in Nat : \E f \in Fs : \A n \in 0 .. N : n <= k => f[n] = Step(f)[n]}
<1>1. ASSUME NEW f \in Fs PROVE Step(f) \in Fs
  <2>1. ASSUME NEW n \in 0 .. N, n # 0 PROVE g[f[n - 1]] \in D
    <3>1. n - 1 \in 0 .. N
      BY <2>1
    <3> QED BY <3>1
  <2> QED BY <2>1
<1>2. 0 \in S
  <2> DEFINE f == [n \in 0 .. N |-> d]
  <2>1. f \in Fs
    OBVIOUS
  <2>2. \A n \in 0 .. N : n <= 0 => f[n] = Step(f)[n]
    OBVIOUS
  <2> QED BY <2>1, <2>2
<1>3. ASSUME NEW k \in Nat, k \in S PROVE k + 1 \in S
  <2>1. PICK f \in Fs : \A n \in 0 .. N : n <= k => f[n] = Step(f)[n]
    BY <1>3
  <2> DEFINE h == Step(f)
  <2>2. h \in Fs
    BY <1>1
  <2>3. ASSUME NEW n \in 0 .. N, n <= k + 1 PROVE h[n] = Step(h)[n]
    <3>1. CASE n = 0
      BY <3>1
    <3>2. CASE n # 0
      <4>1. n - 1 \in 0 .. N /\ n - 1 <= k
        BY <2>3, <3>2
      <4>2. f[n - 1] = h[n - 1]
        BY <2>1, <4>1
      <4>3. h[n] = g[f[n - 1]]
        BY <3>2
      <4>4. Step(h)[n] = g[h[n - 1]]
        BY <3>2
      <4> HIDE DEF h, Step
      <4> QED BY <4>2, <4>3, <4>4
    <3> QED BY <3>1, <3>2
  <2>4. k + 1 \in Nat
    OBVIOUS
  <2> HIDE DEF h, Step
  <2> QED BY <2>2, <2>3, <2>4
<1>4. N \in S
  <2> HIDE DEF S
  <2>1. Nat \subseteq S
    BY <1>2, <1>3, Induction
  <2> QED BY <2>1
<1>5. PICK f \in Fs : \A n \in 0 .. N : f[n] = Step(f)[n]
  BY <1>4
<1>6. f[0] = d
  <2>1. 0 \in 0 .. N
    OBVIOUS
  <2>2. f[0] = Step(f)[0]
    BY <1>5, <2>1
  <2> QED BY <2>1, <2>2
<1>7. ASSUME NEW n \in 1 .. N PROVE f[n] = g[f[n - 1]]
  <2>1. n \in 0 .. N /\ n # 0
    OBVIOUS
  <2>2. f[n] = Step(f)[n]
    BY <1>5, <2>1
  <2> QED BY <2>1, <2>2
<1>8. Iterates(f, N, d, g)
  BY <1>6, <1>7 DEF Iterates
<1> QED BY <1>8

\* A claim that a step keeps holds of what it leads to.
LEMMA IterIn ==
  ASSUME NEW D, NEW N \in Nat, NEW f, f[0] \in D,
         \A n \in 1 .. N : f[n - 1] \in D => f[n] \in D
  PROVE  \A n \in 0 .. N : f[n] \in D
<1> DEFINE S == {k \in Nat : k <= N => f[k] \in D}
<1>1. 0 \in S
  OBVIOUS
<1>2. ASSUME NEW k \in Nat, k \in S PROVE k + 1 \in S
  <2>1. SUFFICES ASSUME k + 1 <= N PROVE f[k + 1] \in D
    OBVIOUS
  <2>2. k + 1 \in 1 .. N /\ k <= N /\ (k + 1) - 1 = k
    BY <2>1
  <2> QED BY <1>2, <2>2
<1>3. Nat \subseteq S
  <2> HIDE DEF S
  <2> QED BY <1>1, <1>2, Induction
<1> QED BY <1>3

\* Min is the least element.
LEMMA MinIsLeast ==
  ASSUME NEW S, S \subseteq Nat, S # {}
  PROVE  Min(S) \in S /\ \A j \in S : Min(S) <= j
<1>1. \E k \in S : \A j \in S : k <= j
  BY Least
<1> QED BY <1>1, Zenon DEF Min

\* Where a descent comes to, step by step.
LEMMA DescentAt ==
  ASSUME NEW T, Len(T.node) \in Nat, NEW D, NEW n \in D,
         NEW step, \A m \in D : step[m] \in D
  PROVE  \E at \in [0 .. Len(T.node) -> D] :
           Iterates(at, Len(T.node), n, step) /\ Descent(T, step, n) = at[Len(T.node)]
<1> DEFINE N == Len(T.node)
           g == [m \in D |-> step[m]]
           Step(f) == [i \in 0 .. N |-> IF i = 0 THEN n ELSE step[f[i - 1]]]
           at == CHOOSE f : f = Step(f)
<1>1. g \in [D -> D] /\ N \in Nat
  OBVIOUS
<1>2. PICK f \in [0 .. N -> D] : Iterates(f, N, n, g)
  <2> HIDE DEF g, N
  <2> QED BY <1>1, Iterated
<1>3. f = Step(f)
  <2> HIDE DEF N
  <2>1. ASSUME NEW i \in 0 .. N PROVE f[i] = Step(f)[i]
    <3>1. CASE i = 0
      BY <1>2, <3>1 DEF Iterates
    <3>2. CASE i # 0
      <4>1. i \in 1 .. N /\ i - 1 \in 0 .. N
        BY <1>1, <3>2
      <4>2. f[i] = g[f[i - 1]]
        BY <1>2, <4>1 DEF Iterates
      <4>3. f[i - 1] \in D
        BY <4>1
      <4> QED BY <3>2, <4>2, <4>3
    <3> QED BY <3>1, <3>2
  <2> QED BY <2>1
<1>4. at = Step(at)
  <2>1. \E F : F = Step(F)
    BY <1>3
  <2> HIDE DEF Step
  <2> QED BY <2>1, Zenon
<1>5. Descent(T, step, n) = at[N]
  BY Zenon DEF Descent
<1> HIDE DEF at, N
<1>6. at[0] = n
  <2>1. 0 \in 0 .. N
    BY <1>1
  <2> QED BY <1>4, <2>1
<1>7. ASSUME NEW i \in 1 .. N PROVE at[i] = step[at[i - 1]]
  <2>1. i \in 0 .. N /\ i # 0
    BY <1>1
  <2> QED BY <1>4, <2>1
<1> HIDE DEF Step
<1>8. \A i \in 0 .. N : at[i] \in D
  <2>1. at[0] \in D
    BY <1>6
  <2>2. \A i \in 1 .. N : at[i - 1] \in D => at[i] \in D
    BY <1>7
  <2> QED BY <1>1, <2>1, <2>2, IterIn
<1>9. at \in [0 .. N -> D]
  BY <1>4, <1>8 DEF Step
<1>10. Iterates(at, N, n, step)
  BY <1>6, <1>7 DEF Iterates
<1> QED BY <1>5, <1>9, <1>10 DEF N

-----------------------------------------------------------------------------
(* Forests                                                                 *)

\* live    the nodes of the tree
\* count   how many keys a node has
\* key     its keys, those behind count without meaning
\* child   its children, one more than keys unless it is a leaf
\* height  0 for a leaf
\* range   the first five bytes of the keys that belong below a node
\* parent  the node it is a child of
\* top     the root without the nodes without keys above it
\* meta    the first of these nodes
Labelled(G) ==
  /\ G.live \subseteq Nat \ {0}
  /\ \A n \in G.live : G.count[n] \in Nat /\ G.height[n] \in Nat /\ G.range[n] \subseteq Nat

\* The m keys of an array are keys in order, and their first five bytes in r.
Ascending(r, f, m) ==
  /\ \A i \in 0 .. m - 1 : f[i] \in Keys /\ First5[f[i]] \in r
  /\ \A i, j \in 0 .. m - 1 : i < j => First5[f[i]] < First5[f[j]]

\* The part of r between the keys i - 1 and i.
GapOf(r, f, m, i) ==
  {x \in r : \A j \in 0 .. m - 1 : /\ j < i => First5[f[j]] < x
                                   /\ i <= j => x < First5[f[j]]}

KeysOK(G, n) == Ascending(G.range[n], G.key[n], G.count[n])
Gap(G, n, i) == GapOf(G.range[n], G.key[n], G.count[n], i)

ChildOK(G, n, i) ==
  /\ G.child[n][i] \in G.live
  /\ G.height[G.child[n][i]] + 1 = G.height[n]
  /\ G.range[G.child[n][i]] = Gap(G, n, i)
  /\ G.parent[G.child[n][i]] = n

ChildrenOK(G, n) ==
  G.height[n] # 0 =>
    /\ \A i \in 0 .. G.count[n] : ChildOK(G, n, i)
    /\ \A i, j \in 0 .. G.count[n] : G.child[n][i] = G.child[n][j] => i = j

\* Node p has n as its child i.
IsChild(G, p, i, n) ==
  p \in G.live /\ G.height[p] # 0 /\ i \in 0 .. G.count[p] /\ G.child[p][i] = n

Attached(G) ==
  \A n \in G.live \ {G.meta} : \E i \in Nat : IsChild(G, G.parent[n], i, n)

\* From the top up there is one node per height, without keys above the top.
Chain(G) ==
  /\ G.meta \in G.live /\ G.top \in G.live
  /\ \A n \in G.live : G.height[n] <= G.height[G.meta]
  /\ \A m, n \in G.live : G.height[m] = G.height[n] /\ G.height[G.top] <= G.height[n] => m = n
  /\ \A n \in G.live : G.height[G.top] <= G.height[n] => G.range[n] = Nat
  /\ \A n \in G.live : G.height[G.top] < G.height[n] => G.count[n] = 0
  /\ \A n \in G.live : G.height[n] < G.height[G.top] => G.count[n] # 0
  /\ G.count[G.top] = 0 => G.height[G.top] = 0

Forest(G) ==
  /\ Labelled(G)
  /\ \A n \in G.live : KeysOK(G, n) /\ ChildrenOK(G, n)
  /\ Attached(G)
  /\ Chain(G)

\* Arrays without end: with x at i, from m on, and without the element at i.
Inserted(f, i, x) == [j \in Nat |-> IF j < i THEN f[j] ELSE IF j = i THEN x ELSE f[j - 1]]
Shifted(f, m)     == [j \in Nat |-> f[j + m]]
Dropped(f, i)     == [j \in Nat |-> IF j < i THEN f[j] ELSE f[j + 1]]

\* The first five bytes are numbers, in the order of the keys.
LEMMA FiveNat ==
  /\ \A k \in Keys : First5[k] \in Nat /\ k \in Nat /\ k # 0
  /\ \A j, k \in Keys : First5[j] < First5[k] => j < k
<1>1. ASSUME NEW k \in Keys PROVE First5[k] \in Nat /\ k \in Nat /\ k # 0
  BY KeysAssumption
<1>2. ASSUME NEW j \in Keys, NEW k \in Keys, First5[j] < First5[k] PROVE j < k
  BY <1>1, <1>2, KeysAssumption
<1> QED BY <1>1, <1>2

\* A key in gap i is inserted at i and divides the gap.
InsertedKeys(r, f, m, i, k, g) ==
  /\ Ascending(r, g, m + 1)
  /\ \A j \in 0 .. m + 1 :
       /\ j < i => GapOf(r, g, m + 1, j) = GapOf(r, f, m, j)
       /\ j = i => GapOf(r, g, m + 1, j) = {x \in GapOf(r, f, m, i) : x < First5[k]}
       /\ j = i + 1 => GapOf(r, g, m + 1, j) = {x \in GapOf(r, f, m, i) : First5[k] < x}
       /\ j > i + 1 => GapOf(r, g, m + 1, j) = GapOf(r, f, m, j - 1)

\* A key put at its place among the keys of a node leaves them in order, and divides
\* one gap.
LEMMA InsertKeys ==
  ASSUME NEW r, r \subseteq Nat, NEW f, NEW m \in Nat, Ascending(r, f, m),
         NEW i \in 0 .. m, NEW k \in Keys, First5[k] \in GapOf(r, f, m, i),
         NEW g, g = Inserted(f, i, k)
  PROVE  InsertedKeys(r, f, m, i, k, g)
<1> DEFINE v == First5[k]
<1>1. v \in Nat /\ v \in r
  BY FiveNat DEF GapOf
<1>2. \A j \in 0 .. m - 1 : /\ f[j] \in Keys /\ First5[f[j]] \in r /\ First5[f[j]] \in Nat
                            /\ j < i => First5[f[j]] < v
                            /\ i <= j => v < First5[f[j]]
  BY FiveNat DEF Ascending, GapOf
<1>3. \A a, b \in 0 .. m - 1 : a < b => First5[f[a]] < First5[f[b]]
  BY DEF Ascending
<1>4. \A j \in 0 .. m : /\ j < i => g[j] = f[j] /\ j \in 0 .. m - 1
                        /\ j = i => g[j] = k
                        /\ j > i => g[j] = f[j - 1] /\ j - 1 \in 0 .. m - 1
  BY DEF Inserted
<1> HIDE DEF v
<1>5. \A j \in 0 .. m : g[j] \in Keys /\ First5[g[j]] \in r
  BY <1>1, <1>2, <1>4 DEF v
<1>6. ASSUME NEW a \in 0 .. m, NEW b \in 0 .. m, a < b PROVE First5[g[a]] < First5[g[b]]
  <2>1. CASE b < i
    BY <1>3, <1>4, <1>6, <2>1
  <2>2. CASE b = i
    BY <1>2, <1>4, <1>6, <2>2 DEF v
  <2>3. CASE b > i /\ a = i
    BY <1>2, <1>4, <1>6, <2>3 DEF v
  <2>4. CASE b > i /\ a < i
    <3>1. g[a] = f[a] /\ a \in 0 .. m - 1 /\ g[b] = f[b - 1] /\ b - 1 \in 0 .. m - 1 /\ i <= b - 1
      BY <1>4, <2>4
    <3>2. First5[f[a]] < v /\ v < First5[f[b - 1]] /\ First5[f[a]] \in Nat /\ First5[f[b - 1]] \in Nat
      BY <1>2, <2>4, <3>1
    <3> QED BY <1>1, <3>1, <3>2
  <2>5. CASE b > i /\ a > i
    <3>1. g[a] = f[a - 1] /\ a - 1 \in 0 .. m - 1 /\ g[b] = f[b - 1] /\ b - 1 \in 0 .. m - 1
      BY <1>4, <2>5
    <3> QED BY <1>3, <1>6, <3>1
  <2> QED BY <2>1, <2>2, <2>3, <2>4, <2>5
<1>7. Ascending(r, g, m + 1)
  <2>1. 0 .. (m + 1) - 1 = 0 .. m
    OBVIOUS
  <2> QED BY <1>5, <1>6, <2>1 DEF Ascending
<1> DEFINE Out(x, j) == \A l \in 0 .. m : /\ l < j => First5[g[l]] < x
                                          /\ j <= l => x < First5[g[l]]
           In(x, j) == \A l \in 0 .. m - 1 : /\ l < j => First5[f[l]] < x
                                             /\ j <= l => x < First5[f[l]]
<1>8. ASSUME NEW x \in Nat, NEW j \in 0 .. m + 1
      PROVE  /\ j < i => (Out(x, j) <=> In(x, j))
             /\ j = i => (Out(x, j) <=> In(x, i) /\ x < v)
             /\ j = i + 1 => (Out(x, j) <=> In(x, i) /\ v < x)
             /\ j > i + 1 => (Out(x, j) <=> In(x, j - 1))
  <2>0. First5[g[i]] = v /\ i \in 0 .. m
    BY <1>4 DEF v
  <2>1. ASSUME j < i PROVE Out(x, j) <=> In(x, j)
    <3>1. ASSUME Out(x, j), NEW l \in 0 .. m - 1
          PROVE (l < j => First5[f[l]] < x) /\ (j <= l => x < First5[f[l]])
      <4>1. CASE l < i
        BY <1>4, <2>1, <3>1, <4>1
      <4>2. CASE ~(l < i)
        <5>1. g[l + 1] = f[l] /\ l + 1 \in 0 .. m
          BY <1>4, <4>2
        <5> QED BY <2>1, <3>1, <4>2, <5>1
      <4> QED BY <4>1, <4>2
    <3>2. ASSUME In(x, j), NEW l \in 0 .. m
          PROVE (l < j => First5[g[l]] < x) /\ (j <= l => x < First5[g[l]])
      <4>1. CASE l < i
        BY <1>4, <2>1, <3>2, <4>1
      <4>2. CASE l > i
        <5>1. g[l] = f[l - 1] /\ l - 1 \in 0 .. m - 1
          BY <1>4, <4>2
        <5> QED BY <2>1, <3>2, <4>2, <5>1
      <4>3. CASE l = i
        <5>1. j \in 0 .. m - 1 /\ x < First5[f[j]] /\ First5[f[j]] < v /\ First5[f[j]] \in Nat
          BY <1>2, <2>1, <3>2
        <5> QED BY <1>1, <2>0, <2>1, <4>3, <5>1
      <4> QED BY <4>1, <4>2, <4>3
    <3> QED BY <3>1, <3>2
  <2>2. ASSUME j = i PROVE Out(x, j) <=> In(x, i) /\ x < v
    <3>1. ASSUME Out(x, j), NEW l \in 0 .. m - 1
          PROVE (l < i => First5[f[l]] < x) /\ (i <= l => x < First5[f[l]])
      <4>1. CASE l < i
        BY <1>4, <2>2, <3>1, <4>1
      <4>2. CASE ~(l < i)
        <5>1. g[l + 1] = f[l] /\ l + 1 \in 0 .. m
          BY <1>4, <4>2
        <5> QED BY <2>2, <3>1, <4>2, <5>1
      <4> QED BY <4>1, <4>2
    <3>2. ASSUME In(x, i), x < v, NEW l \in 0 .. m
          PROVE (l < j => First5[g[l]] < x) /\ (j <= l => x < First5[g[l]])
      <4>1. CASE l < i
        BY <1>4, <2>2, <3>2, <4>1
      <4>2. CASE l > i
        <5>1. g[l] = f[l - 1] /\ l - 1 \in 0 .. m - 1
          BY <1>4, <4>2
        <5> QED BY <2>2, <3>2, <4>2, <5>1
      <4>3. CASE l = i
        BY <2>0, <2>2, <3>2, <4>3
      <4> QED BY <4>1, <4>2, <4>3
    <3>3. ASSUME Out(x, j) PROVE x < v
      BY <2>0, <2>2, <3>3
    <3> QED BY <3>1, <3>2, <3>3
  <2>3. ASSUME j = i + 1 PROVE Out(x, j) <=> In(x, i) /\ v < x
    <3>1. ASSUME Out(x, j), NEW l \in 0 .. m - 1
          PROVE (l < i => First5[f[l]] < x) /\ (i <= l => x < First5[f[l]])
      <4>1. CASE l < i
        BY <1>4, <2>3, <3>1, <4>1
      <4>2. CASE ~(l < i)
        <5>1. g[l + 1] = f[l] /\ l + 1 \in 0 .. m
          BY <1>4, <4>2
        <5> QED BY <2>3, <3>1, <4>2, <5>1
      <4> QED BY <4>1, <4>2
    <3>2. ASSUME In(x, i), v < x, NEW l \in 0 .. m
          PROVE (l < j => First5[g[l]] < x) /\ (j <= l => x < First5[g[l]])
      <4>1. CASE l < i
        BY <1>4, <2>3, <3>2, <4>1
      <4>2. CASE l > i
        <5>1. g[l] = f[l - 1] /\ l - 1 \in 0 .. m - 1
          BY <1>4, <4>2
        <5> QED BY <2>3, <3>2, <4>2, <5>1
      <4>3. CASE l = i
        BY <2>0, <2>3, <3>2, <4>3
      <4> QED BY <4>1, <4>2, <4>3
    <3>3. ASSUME Out(x, j) PROVE v < x
      BY <2>0, <2>3, <3>3
    <3> QED BY <3>1, <3>2, <3>3
  <2>4. ASSUME j > i + 1 PROVE Out(x, j) <=> In(x, j - 1)
    <3>1. ASSUME Out(x, j), NEW l \in 0 .. m - 1
          PROVE (l < j - 1 => First5[f[l]] < x) /\ (j - 1 <= l => x < First5[f[l]])
      <4>1. CASE l < i
        BY <1>4, <2>4, <3>1, <4>1
      <4>2. CASE ~(l < i)
        <5>1. g[l + 1] = f[l] /\ l + 1 \in 0 .. m
          BY <1>4, <4>2
        <5> QED BY <2>4, <3>1, <4>2, <5>1
      <4> QED BY <4>1, <4>2
    <3>2. ASSUME In(x, j - 1), NEW l \in 0 .. m
          PROVE (l < j => First5[g[l]] < x) /\ (j <= l => x < First5[g[l]])
      <4>1. CASE l < i
        BY <1>4, <2>4, <3>2, <4>1
      <4>2. CASE l > i
        <5>1. g[l] = f[l - 1] /\ l - 1 \in 0 .. m - 1
          BY <1>4, <4>2
        <5> QED BY <2>4, <3>2, <4>2, <5>1
      <4>3. CASE l = i
        <5>1. i \in 0 .. m - 1 /\ First5[f[i]] < x /\ v < First5[f[i]] /\ First5[f[i]] \in Nat
          BY <1>2, <2>4, <3>2
        <5> QED BY <1>1, <2>0, <2>4, <4>3, <5>1
      <4> QED BY <4>1, <4>2, <4>3
    <3> QED BY <3>1, <3>2
  <2> HIDE DEF Out, In
  <2> QED BY <2>1, <2>2, <2>3, <2>4
<1>9. \A x, j : x \in GapOf(r, f, m, j) <=> x \in r /\ In(x, j)
  BY DEF GapOf
<1>10. \A x, j : x \in GapOf(r, g, m + 1, j) <=> x \in r /\ Out(x, j)
  <2>1. 0 .. (m + 1) - 1 = 0 .. m
    OBVIOUS
  <2> QED BY <2>1 DEF GapOf
<1> HIDE DEF Out, In
<1>11. ASSUME NEW j \in 0 .. m + 1, j < i PROVE GapOf(r, g, m + 1, j) = GapOf(r, f, m, j)
  <2>1. ASSUME NEW x PROVE x \in GapOf(r, g, m + 1, j) <=> x \in GapOf(r, f, m, j)
    BY <1>8, <1>9, <1>10, <1>11
  <2> QED BY <2>1
<1>12. ASSUME NEW j \in 0 .. m + 1, j = i
       PROVE GapOf(r, g, m + 1, j) = {x \in GapOf(r, f, m, i) : x < v}
  BY <1>8, <1>9, <1>10, <1>12
<1>13. ASSUME NEW j \in 0 .. m + 1, j = i + 1
       PROVE GapOf(r, g, m + 1, j) = {x \in GapOf(r, f, m, i) : v < x}
  BY <1>8, <1>9, <1>10, <1>13
<1>14. ASSUME NEW j \in 0 .. m + 1, j > i + 1 PROVE GapOf(r, g, m + 1, j) = GapOf(r, f, m, j - 1)
  <2>1. ASSUME NEW x PROVE x \in GapOf(r, g, m + 1, j) <=> x \in GapOf(r, f, m, j - 1)
    <3>1. x \in Nat => (Out(x, j) <=> In(x, j - 1))
      BY <1>8, <1>14
    <3> QED BY <1>9, <1>10, <3>1
  <2> QED BY <2>1
<1> QED BY <1>7, <1>11, <1>12, <1>13, <1>14 DEF v, InsertedKeys

\* The keys before key s and those behind it divide the range.
SplitKeysAt(r, f, m, s, g, lower, upper) ==
  /\ Ascending(lower, f, s) /\ Ascending(upper, g, m - s - 1)
  /\ \A i \in 0 .. s : GapOf(lower, f, s, i) = GapOf(r, f, m, i)
  /\ \A i \in 0 .. m - s - 1 : GapOf(upper, g, m - s - 1, i) = GapOf(r, f, m, i + s + 1)

\* The keys on both sides of the one that a split sends up are in order, and the gaps
\* between them stay.
LEMMA SplitKeys ==
  ASSUME NEW r, r \subseteq Nat, NEW f, NEW m \in Nat, Ascending(r, f, m),
         NEW s \in 0 .. m - 1, NEW g, g = Shifted(f, s + 1),
         NEW lower, lower = {x \in r : x < First5[f[s]]},
         NEW upper, upper = {x \in r : First5[f[s]] < x}
  PROVE  SplitKeysAt(r, f, m, s, g, lower, upper)
<1>1. \A j \in 0 .. m - 1 : f[j] \in Keys /\ First5[f[j]] \in r /\ First5[f[j]] \in Nat
  BY FiveNat DEF Ascending
<1>2. \A a, b \in 0 .. m - 1 : a < b => First5[f[a]] < First5[f[b]]
  BY DEF Ascending
<1>3. \A j \in Nat : g[j] = f[j + (s + 1)]
  BY DEF Shifted
<1>4. Ascending(lower, f, s)
  BY <1>1, <1>2 DEF Ascending
<1>5. Ascending(upper, g, m - s - 1)
  <2>1. \A j \in 0 .. (m - s - 1) - 1 : g[j] = f[j + (s + 1)] /\ j + (s + 1) \in 0 .. m - 1 /\ s < j + (s + 1)
    BY <1>3
  <2> QED BY <1>1, <1>2, <2>1 DEF Ascending
<1>6. ASSUME NEW i \in 0 .. s PROVE GapOf(lower, f, s, i) = GapOf(r, f, m, i)
  <2>1. ASSUME NEW x \in GapOf(lower, f, s, i) PROVE x \in GapOf(r, f, m, i)
    <3>1. x \in r /\ x \in Nat /\ x < First5[f[s]]
      BY DEF GapOf
    <3>2. ASSUME NEW j \in 0 .. m - 1
          PROVE (j < i => First5[f[j]] < x) /\ (i <= j => x < First5[f[j]])
      <4>1. CASE j < s
        <5>1. j \in 0 .. s - 1
          BY <4>1
        <5> QED BY <5>1 DEF GapOf
      <4>2. CASE j = s
        BY <3>1, <4>2
      <4>3. CASE s < j
        <5>1. First5[f[s]] < First5[f[j]] /\ First5[f[s]] \in Nat /\ First5[f[j]] \in Nat
          BY <1>1, <1>2, <4>3
        <5> QED BY <3>1, <4>3, <5>1
      <4> QED BY <4>1, <4>2, <4>3
    <3> QED BY <3>1, <3>2 DEF GapOf
  <2>2. ASSUME NEW x \in GapOf(r, f, m, i) PROVE x \in GapOf(lower, f, s, i)
    BY DEF GapOf
  <2> QED BY <2>1, <2>2
<1>7. ASSUME NEW i \in 0 .. m - s - 1
      PROVE GapOf(upper, g, m - s - 1, i) = GapOf(r, f, m, i + s + 1)
  <2>1. ASSUME NEW x \in GapOf(upper, g, m - s - 1, i) PROVE x \in GapOf(r, f, m, i + s + 1)
    <3>1. x \in r /\ x \in Nat /\ First5[f[s]] < x
      BY DEF GapOf
    <3>2. ASSUME NEW j \in 0 .. m - 1
          PROVE (j < i + s + 1 => First5[f[j]] < x) /\ (i + s + 1 <= j => x < First5[f[j]])
      <4>1. CASE j > s
        <5>1. j - (s + 1) \in 0 .. (m - s - 1) - 1 /\ g[j - (s + 1)] = f[j]
          BY <1>3, <4>1
        <5>2. /\ j - (s + 1) < i => First5[g[j - (s + 1)]] < x
              /\ i <= j - (s + 1) => x < First5[g[j - (s + 1)]]
          BY <5>1 DEF GapOf
        <5> QED BY <4>1, <5>1, <5>2
      <4>2. CASE j = s
        BY <3>1, <4>2
      <4>3. CASE j < s
        <5>1. First5[f[j]] < First5[f[s]] /\ First5[f[s]] \in Nat /\ First5[f[j]] \in Nat
          BY <1>1, <1>2, <4>3
        <5> QED BY <3>1, <4>3, <5>1
      <4> QED BY <4>1, <4>2, <4>3
    <3> QED BY <3>1, <3>2 DEF GapOf
  <2>2. ASSUME NEW x \in GapOf(r, f, m, i + s + 1) PROVE x \in GapOf(upper, g, m - s - 1, i)
    <3>1. x \in r /\ First5[f[s]] < x
      BY DEF GapOf
    <3>2. ASSUME NEW j \in 0 .. (m - s - 1) - 1
          PROVE (j < i => First5[g[j]] < x) /\ (i <= j => x < First5[g[j]])
      <4>1. j + (s + 1) \in 0 .. m - 1 /\ g[j] = f[j + (s + 1)]
        BY <1>3
      <4>2. /\ j + (s + 1) < i + s + 1 => First5[f[j + (s + 1)]] < x
            /\ i + s + 1 <= j + (s + 1) => x < First5[f[j + (s + 1)]]
        BY <4>1 DEF GapOf
      <4> QED BY <4>1, <4>2
    <3> QED BY <3>1, <3>2 DEF GapOf
  <2> QED BY <2>1, <2>2
<1> QED BY <1>4, <1>5, <1>6, <1>7 DEF SplitKeysAt

\* A node is a child at one place.
LEMMA OneParent ==
  ASSUME NEW G, Forest(G), NEW p, NEW i, NEW n, IsChild(G, p, i, n)
  PROVE  /\ n \in G.live /\ G.parent[n] = p /\ G.height[n] + 1 = G.height[p]
         /\ G.range[n] = Gap(G, p, i)
         /\ n # p /\ n # G.meta
         /\ \A q, j : IsChild(G, q, j, n) => q = p /\ j = i
<1>1. ASSUME NEW q, NEW j, IsChild(G, q, j, n) PROVE ChildOK(G, q, j) /\ G.child[q][j] = n
  BY <1>1 DEF Forest, ChildrenOK, IsChild
<1>2. n \in G.live /\ G.parent[n] = p /\ G.height[n] + 1 = G.height[p] /\ G.range[n] = Gap(G, p, i)
  BY <1>1 DEF ChildOK
<1>3. ASSUME NEW q, NEW j, IsChild(G, q, j, n) PROVE q = p /\ j = i
  <2>1. G.parent[n] = q
    BY <1>1, <1>3 DEF ChildOK
  <2>2. q = p
    BY <1>2, <2>1
  <2> QED BY <1>3, <2>2 DEF Forest, ChildrenOK, IsChild
<1>4. G.height[n] \in Nat /\ G.height[p] \in Nat /\ G.height[p] <= G.height[G.meta] /\ p \in Nat
  BY <1>2 DEF Forest, Chain, IsChild, Labelled
<1>5. n # p /\ n # G.meta
  BY <1>2, <1>4
<1> QED BY <1>2, <1>3, <1>5

\* The children of n behind its key s.
MovesRight(G, n, s, m) == G.height[n] # 0 /\ \E j \in s + 1 .. G.count[n] : G.child[n][j] = m

\* The node n, child i of p, keeps its first s keys, key s goes to p, the others to
\* the node new.
Split(G, n, new, s, p, i) ==
  [live   |-> G.live \cup {new},
   count  |-> [m \in Nat |-> IF m = n THEN s ELSE IF m = new THEN G.count[n] - s - 1
                             ELSE IF m = p THEN G.count[p] + 1 ELSE G.count[m]],
   key    |-> [m \in Nat |-> IF m = new THEN Shifted(G.key[n], s + 1)
                             ELSE IF m = p THEN Inserted(G.key[p], i, G.key[n][s]) ELSE G.key[m]],
   child  |-> [m \in Nat |-> IF m = new THEN Shifted(G.child[n], s + 1)
                             ELSE IF m = p THEN Inserted(G.child[p], i + 1, new) ELSE G.child[m]],
   height |-> [m \in Nat |-> IF m = new THEN G.height[n] ELSE G.height[m]],
   range  |-> [m \in Nat |-> IF m = n THEN {x \in G.range[n] : x < First5[G.key[n][s]]}
                             ELSE IF m = new THEN {x \in G.range[n] : First5[G.key[n][s]] < x}
                             ELSE G.range[m]],
   parent |-> [m \in Nat |-> IF m = new THEN p
                             ELSE IF MovesRight(G, n, s, m) THEN new ELSE G.parent[m]],
   top    |-> IF G.height[G.top] < G.height[p] THEN p ELSE G.top,
   meta   |-> G.meta]

\* A full node with one key more has keys on both sides of key s.
CanSplit(G, n, new, s, p, i) ==
  /\ Forest(G) /\ IsChild(G, p, i, n)
  /\ new \in Nat \ {0} /\ new \notin G.live
  /\ s \in Nat /\ 0 < s /\ s + 1 < G.count[n]

\* The labels after a split, field by field.
LEMMA SplitFields ==
  ASSUME NEW G, NEW n, NEW new, NEW s, NEW p, NEW i, CanSplit(G, n, new, s, p, i),
         NEW H, H = Split(G, n, new, s, p, i)
  PROVE  /\ n \in G.live /\ p \in G.live /\ n \in Nat /\ p \in Nat /\ n # p /\ new # n /\ new # p
         /\ H.live = G.live \cup {new} /\ H.meta = G.meta
         /\ H.top = IF G.height[G.top] < G.height[p] THEN p ELSE G.top
         /\ \A m \in Nat \ {n, new, p} : H.count[m] = G.count[m]
         /\ H.count[n] = s /\ H.count[new] = G.count[n] - s - 1 /\ H.count[p] = G.count[p] + 1
         /\ \A m \in Nat \ {new, p} : H.key[m] = G.key[m] /\ H.child[m] = G.child[m]
         /\ H.key[new] = Shifted(G.key[n], s + 1) /\ H.child[new] = Shifted(G.child[n], s + 1)
         /\ H.key[p] = Inserted(G.key[p], i, G.key[n][s])
         /\ H.child[p] = Inserted(G.child[p], i + 1, new)
         /\ \A m \in Nat \ {new} : H.height[m] = G.height[m]
         /\ H.height[new] = G.height[n]
         /\ \A m \in Nat \ {n, new} : H.range[m] = G.range[m]
         /\ H.range[n] = {x \in G.range[n] : x < First5[G.key[n][s]]}
         /\ H.range[new] = {x \in G.range[n] : First5[G.key[n][s]] < x}
         /\ H.parent[new] = p
         /\ \A m \in Nat \ {new} :
              H.parent[m] = IF MovesRight(G, n, s, m) THEN new ELSE G.parent[m]
<1>1. n \in G.live /\ p \in G.live /\ n # p /\ Forest(G)
  BY OneParent DEF CanSplit, IsChild, Forest
<1>2. n \in Nat /\ p \in Nat /\ new \in Nat /\ new # n /\ new # p
  BY <1>1 DEF CanSplit, Forest, Labelled
<1>3. /\ H.live = G.live \cup {new} /\ H.meta = G.meta
      /\ H.top = IF G.height[G.top] < G.height[p] THEN p ELSE G.top
  BY DEF Split
<1>4. \A m \in Nat : H.count[m] = IF m = n THEN s ELSE IF m = new THEN G.count[n] - s - 1
                                  ELSE IF m = p THEN G.count[p] + 1 ELSE G.count[m]
  BY DEF Split
<1>5. \A m \in Nat : H.key[m] = IF m = new THEN Shifted(G.key[n], s + 1)
                ELSE IF m = p THEN Inserted(G.key[p], i, G.key[n][s]) ELSE G.key[m]
  BY DEF Split
<1>6. \A m \in Nat : H.child[m] = IF m = new THEN Shifted(G.child[n], s + 1)
                ELSE IF m = p THEN Inserted(G.child[p], i + 1, new) ELSE G.child[m]
  BY DEF Split
<1>7. \A m \in Nat : H.height[m] = IF m = new THEN G.height[n] ELSE G.height[m]
  BY DEF Split
<1>8. \A m \in Nat : H.range[m] = IF m = n THEN {x \in G.range[n] : x < First5[G.key[n][s]]}
                             ELSE IF m = new THEN {x \in G.range[n] : First5[G.key[n][s]] < x}
                             ELSE G.range[m]
  BY DEF Split
<1>9. \A m \in Nat : H.parent[m] = IF m = new THEN p
                             ELSE IF MovesRight(G, n, s, m) THEN new ELSE G.parent[m]
  BY DEF Split
<1>10. /\ \A m \in Nat \ {n, new, p} : H.count[m] = G.count[m]
       /\ H.count[n] = s /\ H.count[new] = G.count[n] - s - 1 /\ H.count[p] = G.count[p] + 1
  BY <1>1, <1>2, <1>4
<1>11. /\ \A m \in Nat \ {new, p} : H.key[m] = G.key[m] /\ H.child[m] = G.child[m]
       /\ H.key[new] = Shifted(G.key[n], s + 1) /\ H.child[new] = Shifted(G.child[n], s + 1)
  BY <1>2, <1>5, <1>6
<1>12. /\ H.key[p] = Inserted(G.key[p], i, G.key[n][s])
       /\ H.child[p] = Inserted(G.child[p], i + 1, new)
  BY <1>2, <1>5, <1>6
<1>13. /\ \A m \in Nat \ {new} : H.height[m] = G.height[m]
       /\ H.height[new] = G.height[n]
  BY <1>2, <1>7
<1>14. /\ \A m \in Nat \ {n, new} : H.range[m] = G.range[m]
       /\ H.range[n] = {x \in G.range[n] : x < First5[G.key[n][s]]}
       /\ H.range[new] = {x \in G.range[n] : First5[G.key[n][s]] < x}
  BY <1>2, <1>8
<1>15. /\ H.parent[new] = p
       /\ \A m \in Nat \ {new} : H.parent[m] = IF MovesRight(G, n, s, m) THEN new ELSE G.parent[m]
  BY <1>2, <1>9
<1> QED BY <1>1, <1>2, <1>3, <1>10, <1>11, <1>12, <1>13, <1>14, <1>15

\* A split keeps a forest a forest.
LEMMA SplitOK ==
  ASSUME NEW G, NEW n, NEW new, NEW s, NEW p, NEW i, CanSplit(G, n, new, s, p, i),
         NEW H, H = Split(G, n, new, s, p, i)
  PROVE  Forest(H)
<1>1. /\ n \in G.live /\ p \in G.live /\ n \in Nat /\ p \in Nat /\ n # p /\ new # n /\ new # p
      /\ new \in Nat /\ new # 0 /\ new \notin G.live
  BY SplitFields DEF CanSplit
<1>2. H.live = G.live \cup {new} /\ H.meta = G.meta
  BY SplitFields
<1>3. H.top = IF G.height[G.top] < G.height[p] THEN p ELSE G.top
  BY SplitFields
<1>4. \A m \in Nat \ {n, new, p} : H.count[m] = G.count[m]
  BY SplitFields
<1>5. H.count[n] = s /\ H.count[new] = G.count[n] - s - 1 /\ H.count[p] = G.count[p] + 1
  BY SplitFields
<1>6. \A m \in Nat \ {new, p} : H.key[m] = G.key[m] /\ H.child[m] = G.child[m]
  BY SplitFields
<1>7. H.key[new] = Shifted(G.key[n], s + 1) /\ H.child[new] = Shifted(G.child[n], s + 1)
  BY SplitFields
<1>8. /\ H.key[p] = Inserted(G.key[p], i, G.key[n][s])
      /\ H.child[p] = Inserted(G.child[p], i + 1, new)
  BY SplitFields
<1>9. (\A m \in Nat \ {new} : H.height[m] = G.height[m]) /\ H.height[new] = G.height[n]
  BY SplitFields
<1>10. /\ \A m \in Nat \ {n, new} : H.range[m] = G.range[m]
       /\ H.range[n] = {x \in G.range[n] : x < First5[G.key[n][s]]}
       /\ H.range[new] = {x \in G.range[n] : First5[G.key[n][s]] < x}
  BY SplitFields
<1>11. /\ H.parent[new] = p
       /\ \A m \in Nat \ {new} : H.parent[m] = IF MovesRight(G, n, s, m) THEN new ELSE G.parent[m]
  BY SplitFields
<1>12. /\ G.live \subseteq Nat \ {0}
       /\ \A m \in G.live : /\ m \in Nat /\ m # 0 /\ m # new
                            /\ G.count[m] \in Nat /\ G.height[m] \in Nat /\ G.range[m] \subseteq Nat
  BY <1>1 DEF CanSplit, Forest, Labelled
<1>13. s \in Nat /\ 0 < s /\ s + 1 < G.count[n] /\ i \in 0 .. G.count[p] /\ G.height[p] # 0
  BY DEF CanSplit, IsChild
<1>14. /\ G.parent[n] = p /\ G.height[n] + 1 = G.height[p] /\ n # G.meta
       /\ G.range[n] = Gap(G, p, i) /\ G.child[p][i] = n
  BY OneParent DEF CanSplit, IsChild
<1>15. \A m \in G.live : KeysOK(G, m) /\ ChildrenOK(G, m)
  BY DEF CanSplit, Forest
<1>16. ASSUME NEW m \in G.live, G.height[m] # 0, NEW j \in 0 .. G.count[m]
       PROVE ChildOK(G, m, j) /\ IsChild(G, m, j, G.child[m][j])
  BY <1>15, <1>16 DEF ChildrenOK, IsChild
<1>17. ASSUME NEW m \in G.live, G.height[m] # 0, NEW a \in 0 .. G.count[m], NEW b \in 0 .. G.count[m],
              G.child[m][a] = G.child[m][b]
       PROVE a = b
  BY <1>15, <1>17 DEF ChildrenOK
\* children keep their labels unless they are n; the moved ones are those of n
<1>18. ASSUME NEW m \in G.live, G.height[m] # 0, NEW j \in 0 .. G.count[m], NEW c, c = G.child[m][j]
       PROVE  /\ c \in G.live /\ c \in Nat /\ c # new /\ H.height[c] + 1 = H.height[m]
              /\ G.range[c] = Gap(G, m, j)
              /\ (m # p \/ j # i) => c # n /\ H.range[c] = Gap(G, m, j)
              /\ m # n => H.parent[c] = m
              /\ m = n => H.parent[c] = IF s < j THEN new ELSE n
  <2>1. /\ c \in G.live /\ G.height[c] + 1 = G.height[m] /\ G.range[c] = Gap(G, m, j)
        /\ G.parent[c] = m
    BY <1>16, <1>18 DEF ChildOK
  <2>2. c \in Nat /\ c # new /\ m \in Nat /\ m # new
    BY <1>12, <2>1
  <2>3. H.height[c] + 1 = H.height[m]
    BY <1>9, <2>1, <2>2
  <2>4. ASSUME m # p \/ j # i PROVE c # n
    <3>1. CASE m # p
      BY <1>14, <2>1, <3>1
    <3>2. CASE m = p
      BY <1>13, <1>14, <1>17, <1>18, <2>4, <3>2
    <3> QED BY <3>1, <3>2
  <2>5. ASSUME m # p \/ j # i PROVE H.range[c] = Gap(G, m, j)
    BY <1>10, <2>1, <2>2, <2>4, <2>5
  <2>6. H.parent[c] = IF MovesRight(G, n, s, c) THEN new ELSE m
    BY <1>11, <2>1, <2>2
  <2>7. ASSUME m # n PROVE ~MovesRight(G, n, s, c)
    <3>1. SUFFICES ASSUME G.height[n] # 0, NEW l \in s + 1 .. G.count[n], G.child[n][l] = c PROVE FALSE
      BY DEF MovesRight
    <3>2. l \in 0 .. G.count[n]
      BY <1>12, <1>13, <1>1
    <3>3. G.parent[c] = n
      BY <1>1, <1>16, <3>1, <3>2 DEF ChildOK
    <3> QED BY <2>1, <2>7, <3>3
  <2>8. ASSUME m = n PROVE MovesRight(G, n, s, c) <=> s < j
    <3>1. G.count[n] \in Nat
      BY <1>1, <1>12
    <3>2. ASSUME s < j PROVE MovesRight(G, n, s, c)
      <4>1. j \in s + 1 .. G.count[n]
        BY <1>13, <2>8, <3>1, <3>2
      <4> QED BY <1>18, <2>8, <4>1 DEF MovesRight
    <3>3. ASSUME MovesRight(G, n, s, c) PROVE s < j
      <4>1. PICK l \in s + 1 .. G.count[n] : G.child[n][l] = c
        BY <3>3 DEF MovesRight
      <4>2. l \in 0 .. G.count[n] /\ s < l
        BY <1>13, <3>1
      <4>3. l = j
        BY <1>1, <1>17, <1>18, <2>8, <4>1, <4>2
      <4> QED BY <4>2, <4>3
    <3> QED BY <3>2, <3>3
  <2> QED BY <2>1, <2>2, <2>3, <2>4, <2>5, <2>6, <2>7, <2>8
<1>19. Labelled(H)
  <2>1. ASSUME NEW m \in H.live PROVE H.count[m] \in Nat /\ H.height[m] \in Nat
    <3>1. G.count[n] \in Nat /\ G.count[p] \in Nat /\ G.height[n] \in Nat
      BY <1>1, <1>12
    <3>2. H.height[m] \in Nat
      BY <1>1, <1>2, <1>9, <1>12, <3>1
    <3>3. H.count[new] \in Nat /\ H.count[n] \in Nat /\ H.count[p] \in Nat
      BY <1>5, <1>13, <3>1
    <3>4. m \notin {n, new, p} => H.count[m] = G.count[m] /\ m \in G.live
      BY <1>2, <1>4, <1>12
    <3>5. H.count[m] \in Nat
      BY <1>12, <3>3, <3>4
    <3> QED BY <3>2, <3>5
  <2>2. ASSUME NEW m \in H.live PROVE H.range[m] \subseteq Nat
    <3>1. G.range[n] \subseteq Nat
      BY <1>1, <1>12
    <3>2. H.range[n] \subseteq Nat /\ H.range[new] \subseteq Nat
      BY <1>10, <3>1
    <3>3. m \notin {n, new} => H.range[m] = G.range[m] /\ m \in G.live
      BY <1>2, <1>10, <1>12
    <3> QED BY <1>12, <3>2, <3>3
  <2> QED BY <1>1, <1>2, <1>12, <2>1, <2>2 DEF Labelled
<1>20. ASSUME NEW m \in G.live, m # n, m # p PROVE KeysOK(H, m) /\ ChildrenOK(H, m)
  <2>1. H.count[m] = G.count[m] /\ H.key[m] = G.key[m] /\ H.child[m] = G.child[m]
    BY <1>4, <1>6, <1>12, <1>20
  <2>2. H.range[m] = G.range[m] /\ H.height[m] = G.height[m]
    BY <1>9, <1>10, <1>12, <1>20
  <2>3. KeysOK(H, m)
    BY <1>15, <2>1, <2>2 DEF KeysOK
  <2>4. \A j : Gap(H, m, j) = Gap(G, m, j)
    BY <2>1, <2>2 DEF Gap
  <2>5. ASSUME G.height[m] # 0, NEW j \in 0 .. G.count[m] PROVE ChildOK(H, m, j)
    <3>1. /\ G.child[m][j] \in G.live /\ H.height[G.child[m][j]] + 1 = H.height[m]
          /\ H.range[G.child[m][j]] = Gap(G, m, j) /\ H.parent[G.child[m][j]] = m
      BY <1>18, <1>20, <2>5
    <3> QED BY <1>2, <2>1, <2>4, <3>1 DEF ChildOK
  <2>6. ChildrenOK(H, m)
    BY <1>15, <2>1, <2>2, <2>5 DEF ChildrenOK
  <2> QED BY <2>3, <2>6
<1>21. /\ Ascending(H.range[n], G.key[n], s)
       /\ Ascending(H.range[new], H.key[new], G.count[n] - s - 1)
       /\ \A j \in 0 .. s : GapOf(H.range[n], G.key[n], s, j) = Gap(G, n, j)
       /\ \A j \in 0 .. G.count[n] - s - 1 :
            GapOf(H.range[new], H.key[new], G.count[n] - s - 1, j) = Gap(G, n, j + s + 1)
  <2>1. s \in 0 .. G.count[n] - 1 /\ G.count[n] \in Nat /\ G.range[n] \subseteq Nat
    BY <1>1, <1>12, <1>13
  <2>2. Ascending(G.range[n], G.key[n], G.count[n])
    BY <1>1, <1>15 DEF KeysOK
  <2> DEFINE r == G.range[n]
             f == G.key[n]
             m == G.count[n]
             g == H.key[new]
             lower == H.range[n]
             upper == H.range[new]
  <2>3. /\ g = Shifted(f, s + 1) /\ lower = {x \in r : x < First5[f[s]]}
        /\ upper = {x \in r : First5[f[s]] < x}
    BY <1>7, <1>10
  <2>4. \A j : Gap(G, n, j) = GapOf(r, f, m, j)
    BY DEF Gap
  <2>5. SUFFICES SplitKeysAt(r, f, m, s, g, lower, upper)
    BY <2>4 DEF SplitKeysAt
  <2> HIDE DEF r, f, m, g, lower, upper
  <2>6. s \in 0 .. m - 1 /\ m \in Nat /\ r \subseteq Nat /\ Ascending(r, f, m)
    BY <2>1, <2>2 DEF r, f, m
  <2> QED BY <2>3, <2>6, SplitKeys
<1>22. KeysOK(H, n) /\ ChildrenOK(H, n)
  <2>1. H.key[n] = G.key[n] /\ H.child[n] = G.child[n] /\ H.count[n] = s /\ H.height[n] = G.height[n]
    BY <1>1, <1>5, <1>6, <1>9
  <2>2. KeysOK(H, n)
    BY <1>21, <2>1 DEF KeysOK
  <2>3. ASSUME G.height[n] # 0, NEW j \in 0 .. s PROVE ChildOK(H, n, j) /\ j \in 0 .. G.count[n]
    <3>1. j \in 0 .. G.count[n] /\ ~(s < j)
      BY <1>1, <1>12, <1>13
    <3>2. /\ G.child[n][j] \in G.live /\ H.height[G.child[n][j]] + 1 = H.height[n]
          /\ H.range[G.child[n][j]] = Gap(G, n, j) /\ H.parent[G.child[n][j]] = n
      BY <1>1, <1>18, <2>3, <3>1
    <3>3. Gap(H, n, j) = Gap(G, n, j)
      BY <1>21, <2>1 DEF Gap
    <3> QED BY <1>2, <2>1, <3>1, <3>2, <3>3 DEF ChildOK
  <2>4. ChildrenOK(H, n)
    BY <1>1, <1>17, <2>1, <2>3 DEF ChildrenOK
  <2> QED BY <2>2, <2>4
<1>23. KeysOK(H, new) /\ ChildrenOK(H, new)
  <2>1. H.count[new] = G.count[n] - s - 1 /\ H.height[new] = G.height[n] /\ G.count[n] \in Nat
    BY <1>1, <1>5, <1>9, <1>12
  <2>2. KeysOK(H, new)
    BY <1>21, <2>1 DEF KeysOK
  <2>3. ASSUME NEW j \in 0 .. H.count[new]
        PROVE j + s + 1 \in 0 .. G.count[n] /\ s < j + s + 1 /\ H.child[new][j] = G.child[n][j + s + 1]
    <3>1. j \in Nat /\ j + (s + 1) = j + s + 1
      BY <1>13, <2>1
    <3>2. H.child[new][j] = G.child[n][j + (s + 1)]
      BY <1>7, <3>1 DEF Shifted
    <3> QED BY <1>13, <2>1, <3>1, <3>2
  <2>4. ASSUME G.height[n] # 0, NEW j \in 0 .. H.count[new] PROVE ChildOK(H, new, j)
    <3>1. /\ G.child[n][j + s + 1] \in G.live /\ H.height[G.child[n][j + s + 1]] + 1 = H.height[n]
          /\ H.range[G.child[n][j + s + 1]] = Gap(G, n, j + s + 1)
          /\ H.parent[G.child[n][j + s + 1]] = new
      BY <1>1, <1>18, <2>3, <2>4
    <3>2. Gap(H, new, j) = Gap(G, n, j + s + 1)
      BY <1>21, <2>1 DEF Gap
    <3>3. H.height[n] = H.height[new]
      BY <1>1, <1>9
    <3> QED BY <1>2, <2>3, <3>1, <3>2, <3>3 DEF ChildOK
  <2>5. ASSUME G.height[n] # 0, NEW a \in 0 .. H.count[new], NEW b \in 0 .. H.count[new],
               H.child[new][a] = H.child[new][b]
        PROVE a = b
    <3>1. a + s + 1 = b + s + 1
      BY <1>1, <1>17, <2>3, <2>5
    <3> QED BY <1>13, <2>1, <3>1
  <2>6. ChildrenOK(H, new)
    BY <2>1, <2>4, <2>5 DEF ChildrenOK
  <2> QED BY <2>2, <2>6
<1>24. KeysOK(H, p) /\ ChildrenOK(H, p)
  <2> DEFINE k == G.key[n][s]
             v == First5[k]
  <2>1. G.count[p] \in Nat /\ G.range[p] \subseteq Nat /\ H.count[p] = G.count[p] + 1
    BY <1>1, <1>5, <1>12
  <2>2. k \in Keys /\ v \in G.range[n]
    <3>1. s \in 0 .. G.count[n] - 1
      BY <1>1, <1>12, <1>13
    <3> QED BY <1>1, <1>15, <3>1 DEF KeysOK, Ascending
  <2>3. v \in GapOf(G.range[p], G.key[p], G.count[p], i)
    BY <1>14, <2>2 DEF Gap
  <2>4. Ascending(G.range[p], G.key[p], G.count[p]) /\ H.range[p] = G.range[p]
    BY <1>1, <1>10, <1>15 DEF KeysOK
  <2>5. H.key[p] = Inserted(G.key[p], i, k)
    BY <1>8
  <2> HIDE DEF k
  <2>6. /\ Ascending(H.range[p], H.key[p], G.count[p] + 1)
        /\ \A j \in 0 .. G.count[p] + 1 :
              /\ j < i => Gap(H, p, j) = Gap(G, p, j)
              /\ j = i => Gap(H, p, j) = {x \in Gap(G, p, i) : x < v}
              /\ j = i + 1 => Gap(H, p, j) = {x \in Gap(G, p, i) : v < x}
              /\ j > i + 1 => Gap(H, p, j) = Gap(G, p, j - 1)
    <3> DEFINE r == G.range[p]
               f == G.key[p]
               m == G.count[p]
               g == H.key[p]
    <3>1. \A j : Gap(G, p, j) = GapOf(r, f, m, j)
      BY DEF Gap
    <3>2. \A j : Gap(H, p, j) = GapOf(r, g, m + 1, j)
      BY <2>1, <2>4 DEF Gap
    <3>3. SUFFICES InsertedKeys(r, f, m, i, k, g)
      BY <2>4, <3>1, <3>2 DEF InsertedKeys
    <3>4. /\ r \subseteq Nat /\ m \in Nat /\ Ascending(r, f, m) /\ i \in 0 .. m
          /\ First5[k] \in GapOf(r, f, m, i) /\ g = Inserted(f, i, k)
      BY <1>13, <2>1, <2>3, <2>4, <2>5
    <3> HIDE DEF r, f, m, g
    <3> QED BY <2>2, <3>4, InsertKeys
  <2>7. \A j \in 0 .. G.count[p] + 1 :
              /\ j <= i => H.child[p][j] = G.child[p][j] /\ j \in 0 .. G.count[p]
              /\ j = i + 1 => H.child[p][j] = new
              /\ j > i + 1 => H.child[p][j] = G.child[p][j - 1] /\ j - 1 \in 0 .. G.count[p]
    BY <1>8, <1>13, <2>1 DEF Inserted
  <2>8. H.height[p] = G.height[p] /\ H.height[n] + 1 = H.height[p] /\ H.height[new] + 1 = H.height[p]
    BY <1>1, <1>9, <1>14
  <2>9. H.range[n] = {x \in Gap(G, p, i) : x < v} /\ H.range[new] = {x \in Gap(G, p, i) : v < x}
    BY <1>10, <1>14 DEF k
  <2> HIDE DEF v
  <2>10. ASSUME NEW j \in 0 .. G.count[p] + 1 PROVE ChildOK(H, p, j)
    <3>1. CASE j < i
      <4>1. H.child[p][j] = G.child[p][j] /\ j \in 0 .. G.count[p] /\ Gap(H, p, j) = Gap(G, p, j)
        BY <1>13, <2>1, <2>6, <2>7, <3>1
      <4>2. /\ G.child[p][j] \in G.live /\ H.height[G.child[p][j]] + 1 = H.height[p]
            /\ H.range[G.child[p][j]] = Gap(G, p, j) /\ H.parent[G.child[p][j]] = p
        BY <1>1, <1>13, <1>18, <3>1, <4>1
      <4> QED BY <1>2, <4>1, <4>2 DEF ChildOK
    <3>2. CASE j = i
      <4>1. H.child[p][j] = n
        BY <1>13, <1>14, <2>1, <2>7, <3>2
      <4>2. Gap(H, p, j) = H.range[n]
        BY <2>6, <2>9, <3>2
      <4>3. H.parent[n] = p
        BY <1>1, <1>13, <1>14, <1>18
      <4> QED BY <1>1, <1>2, <2>8, <4>1, <4>2, <4>3 DEF ChildOK
    <3>3. CASE j = i + 1
      <4>1. H.child[p][j] = new /\ Gap(H, p, j) = H.range[new]
        BY <2>6, <2>7, <2>9, <3>3
      <4> QED BY <1>2, <1>11, <2>8, <4>1 DEF ChildOK
    <3>4. CASE j > i + 1
      <4>1. /\ H.child[p][j] = G.child[p][j - 1] /\ j - 1 \in 0 .. G.count[p] /\ j - 1 # i
            /\ Gap(H, p, j) = Gap(G, p, j - 1)
        BY <1>13, <2>1, <2>6, <2>7, <3>4
      <4>2. /\ G.child[p][j - 1] \in G.live /\ H.height[G.child[p][j - 1]] + 1 = H.height[p]
            /\ H.range[G.child[p][j - 1]] = Gap(G, p, j - 1) /\ H.parent[G.child[p][j - 1]] = p
        BY <1>1, <1>13, <1>18, <4>1
      <4> QED BY <1>2, <4>1, <4>2 DEF ChildOK
    <3> QED BY <1>13, <2>1, <3>1, <3>2, <3>3, <3>4
  <2>11. ASSUME NEW a \in 0 .. G.count[p] + 1, NEW b \in 0 .. G.count[p] + 1,
                H.child[p][a] = H.child[p][b]
         PROVE a = b
    <3>1. \A j \in 0 .. G.count[p] : G.child[p][j] # new
      BY <1>1, <1>13, <1>16 DEF ChildOK
    <3>2. CASE a = i + 1 \/ b = i + 1
      BY <1>13, <2>1, <2>7, <2>11, <3>1, <3>2
    <3>3. CASE a # i + 1 /\ b # i + 1
      <4> DEFINE x == IF a <= i THEN a ELSE a - 1
                 y == IF b <= i THEN b ELSE b - 1
      <4>1. x \in 0 .. G.count[p] /\ H.child[p][a] = G.child[p][x]
        BY <1>13, <2>1, <2>7, <3>3
      <4>2. y \in 0 .. G.count[p] /\ H.child[p][b] = G.child[p][y]
        BY <1>13, <2>1, <2>7, <3>3
      <4>3. x = y
        <5> HIDE DEF x, y
        <5> QED BY <1>1, <1>13, <1>17, <2>11, <4>1, <4>2
      <4> QED BY <1>13, <2>1, <3>3, <4>3
    <3> QED BY <3>2, <3>3
  <2>12. KeysOK(H, p)
    BY <2>1, <2>6 DEF KeysOK
  <2>13. ChildrenOK(H, p)
    BY <2>1, <2>10, <2>11 DEF ChildrenOK
  <2> QED BY <2>12, <2>13
<1>25. \A m \in H.live : KeysOK(H, m) /\ ChildrenOK(H, m)
  BY <1>2, <1>20, <1>22, <1>23, <1>24
<1>26. H.height[p] # 0 /\ H.height[p] = G.height[p] /\ H.height[n] = G.height[n] /\ p \in H.live /\ n \in H.live
  BY <1>1, <1>2, <1>9, <1>13
<1>27. Attached(H)
  <2>1. SUFFICES ASSUME NEW m \in H.live, m # G.meta
                 PROVE \E j \in Nat : IsChild(H, H.parent[m], j, m)
    BY <1>2 DEF Attached
  <2>2. G.count[p] \in Nat /\ H.count[p] = G.count[p] + 1 /\ i \in Nat
    BY <1>1, <1>5, <1>12, <1>13
  <2>3. \A j \in 0 .. G.count[p] + 1 :
              /\ j <= i => H.child[p][j] = G.child[p][j]
              /\ j = i + 1 => H.child[p][j] = new
              /\ j > i + 1 => H.child[p][j] = G.child[p][j - 1]
    BY <1>8, <1>13, <2>2 DEF Inserted
  <2>4. CASE m = new
    <3>1. i + 1 \in 0 .. H.count[p] /\ H.child[p][i + 1] = new
      BY <1>13, <2>2, <2>3
    <3> QED BY <1>11, <1>26, <2>2, <2>4, <3>1 DEF IsChild
  <2>5. CASE m # new
    <3>1. m \in G.live /\ m \in Nat
      BY <1>2, <1>12, <2>5
    <3>2. PICK j \in Nat : IsChild(G, G.parent[m], j, m)
      BY <2>1, <3>1 DEF Attached, Forest, CanSplit
    <3> DEFINE q == G.parent[m]
    <3>3. q \in G.live /\ G.height[q] # 0 /\ j \in 0 .. G.count[q] /\ G.child[q][j] = m /\ q \in Nat /\ q # new
      BY <1>12, <3>2 DEF IsChild
    <3>4. /\ q # n => H.parent[m] = q
          /\ q = n => H.parent[m] = IF s < j THEN new ELSE n
      <4> HIDE DEF q
      <4> QED BY <1>18, <3>3
    <3> HIDE DEF q
    <3>5. CASE q # n /\ q # p
      <4>1. /\ H.count[q] = G.count[q] /\ H.child[q] = G.child[q] /\ H.height[q] = G.height[q]
            /\ q \in H.live
        BY <1>2, <1>4, <1>6, <1>9, <3>3, <3>5
      <4> QED BY <3>3, <3>4, <3>5, <4>1 DEF IsChild
    <3>6. CASE q = p
      <4>1. CASE j <= i
        BY <1>1, <1>13, <1>26, <2>2, <2>3, <3>3, <3>4, <3>6, <4>1 DEF IsChild
      <4>2. CASE ~(j <= i)
        <5>1. j + 1 \in 0 .. H.count[p] /\ H.child[p][j + 1] = m /\ j + 1 \in Nat
          BY <1>13, <2>2, <2>3, <3>3, <3>6, <4>2
        <5> QED BY <1>1, <1>26, <3>4, <3>6, <5>1 DEF IsChild
      <4> QED BY <4>1, <4>2
    <3>7. CASE q = n
      <4>1. G.count[n] \in Nat
        BY <1>1, <1>12
      <4>2. CASE s < j
        <5>1. /\ j - (s + 1) \in 0 .. H.count[new] /\ H.child[new][j - (s + 1)] = m
              /\ j - (s + 1) \in Nat
          <6>1. j - (s + 1) \in Nat /\ j - (s + 1) + (s + 1) = j
            BY <1>13, <3>3, <3>7, <4>1, <4>2
          <6>2. H.child[new][j - (s + 1)] = G.child[n][j]
            BY <1>7, <6>1 DEF Shifted
          <6>3. j - (s + 1) \in 0 .. H.count[new]
            BY <1>5, <1>13, <3>3, <3>7, <4>1, <4>2
          <6> QED BY <3>3, <3>7, <6>1, <6>2, <6>3
        <5>2. H.height[new] # 0 /\ new \in H.live
          BY <1>2, <1>9, <3>3, <3>7
        <5> QED BY <3>4, <3>7, <4>2, <5>1, <5>2 DEF IsChild
      <4>3. CASE ~(s < j)
        <5>1. j \in 0 .. H.count[n] /\ H.child[n][j] = m
          BY <1>1, <1>5, <1>6, <1>13, <3>3, <3>7, <4>1, <4>3
        <5>2. H.height[n] # 0
          BY <1>26, <3>3, <3>7
        <5> QED BY <1>26, <3>4, <3>7, <4>3, <5>1, <5>2 DEF IsChild
      <4> QED BY <4>2, <4>3
    <3> QED BY <3>5, <3>6, <3>7
  <2> QED BY <2>4, <2>5
<1>28. Chain(H)
  <2>1. G.meta \in G.live /\ G.top \in G.live /\ \A m \in G.live : G.height[m] <= G.height[G.meta]
    BY DEF CanSplit, Forest, Chain
  <2>2. \A a, b \in G.live : G.height[a] = G.height[b] /\ G.height[G.top] <= G.height[b] => a = b
    BY DEF CanSplit, Forest, Chain
  <2>3. \A m \in G.live : G.height[G.top] <= G.height[m] => G.range[m] = Nat
    BY DEF CanSplit, Forest, Chain
  <2>4. \A m \in G.live : G.height[G.top] < G.height[m] => G.count[m] = 0
    BY DEF CanSplit, Forest, Chain
  <2>5. \A m \in G.live : G.height[m] < G.height[G.top] => G.count[m] # 0
    BY DEF CanSplit, Forest, Chain
  <2>6. G.count[G.top] = 0 => G.height[G.top] = 0
    BY DEF CanSplit, Forest, Chain
  <2>7. \A m \in G.live : H.height[m] = G.height[m]
    BY <1>9, <1>12
  <2>8. G.height[n] \in Nat /\ G.height[p] \in Nat /\ G.height[G.top] \in Nat /\ G.height[G.meta] \in Nat
    BY <1>1, <1>12, <2>1
  <2>9. H.meta \in H.live /\ H.top \in H.live /\ H.height[H.top] >= G.height[p] /\ H.height[H.top] \in Nat
        /\ H.height[H.top] >= G.height[G.top] /\ (H.top = p \/ H.top = G.top)
    BY <1>1, <1>2, <1>3, <2>1, <2>7, <2>8
  <2>10. ASSUME NEW m \in H.live PROVE H.height[m] <= H.height[H.meta]
    BY <1>1, <1>2, <1>9, <1>14, <2>1, <2>7, <2>8, <2>10
  <2>11. ASSUME NEW m \in H.live, H.height[H.top] <= H.height[m]
         PROVE m \in G.live /\ m # n /\ G.height[G.top] <= G.height[m] /\ G.height[m] = H.height[m]
    <3>1. H.height[n] < H.height[H.top] /\ H.height[new] < H.height[H.top]
      BY <1>1, <1>9, <1>14, <2>8, <2>9
    <3>2. m # n /\ m # new
      BY <1>1, <1>9, <2>8, <2>9, <2>11, <3>1
    <3>3. m \in G.live /\ G.height[m] = H.height[m]
      BY <1>2, <2>7, <3>2
    <3>4. G.height[m] \in Nat
      BY <1>12, <3>3
    <3> QED BY <2>8, <2>9, <2>11, <3>2, <3>3, <3>4
  <2>12. ASSUME NEW a \in H.live, NEW b \in H.live, H.height[a] = H.height[b], H.height[H.top] <= H.height[b]
         PROVE a = b
    BY <2>2, <2>11, <2>12
  <2>13. ASSUME NEW m \in H.live, H.height[H.top] <= H.height[m] PROVE H.range[m] = Nat
    <3>1. m \in G.live /\ m # n /\ m # new /\ G.height[G.top] <= G.height[m] /\ m \in Nat
      BY <1>12, <2>11, <2>13
    <3> QED BY <1>10, <2>3, <3>1
  <2>14. ASSUME NEW m \in H.live, H.height[H.top] < H.height[m] PROVE H.count[m] = 0
    <3>1. H.height[m] \in Nat
      BY <1>2, <1>9, <1>12, <2>7, <2>8
    <3>2. m \in G.live /\ m # n /\ m # new /\ m \in Nat /\ G.height[m] = H.height[m]
      BY <1>12, <2>9, <2>11, <2>14, <3>1
    <3>3. m # p /\ G.height[G.top] < G.height[m]
      BY <2>8, <2>9, <2>14, <3>1, <3>2
    <3> QED BY <1>4, <2>4, <3>2, <3>3
  <2>15. ASSUME NEW m \in H.live, H.height[m] < H.height[H.top] PROVE H.count[m] # 0
    <3>0. G.count[n] \in Nat /\ G.count[p] \in Nat
      BY <1>1, <1>12
    <3>1. H.count[n] # 0 /\ H.count[new] # 0 /\ H.count[p] # 0
      BY <1>5, <1>13, <3>0
    <3>2. CASE m \notin {n, new, p}
      <4>1. m \in G.live /\ H.count[m] = G.count[m] /\ H.height[m] = G.height[m] /\ G.height[m] \in Nat
        BY <1>2, <1>4, <1>12, <2>7, <3>2
      <4>2. CASE G.height[G.top] < G.height[p]
        <5>1. H.top = p /\ H.height[H.top] = G.height[p]
          BY <1>3, <1>26, <4>2
        <5>2. G.height[m] <= G.height[n] /\ G.height[G.top] <= G.height[n]
          BY <1>14, <2>8, <2>15, <4>1, <4>2, <5>1
        <5>3. m = n \/ G.height[m] < G.height[n]
          BY <1>1, <2>2, <2>8, <4>1, <5>2
        <5>4. G.height[n] = G.height[G.top]
          <6>1. SUFFICES ASSUME G.height[G.top] < G.height[n] PROVE FALSE
            BY <2>8, <5>2
          <6>2. G.count[n] = 0
            BY <1>1, <2>4, <6>1
          <6> QED BY <1>13, <6>2
        <5>5. G.height[m] < G.height[G.top]
          BY <3>2, <5>3, <5>4
        <5> QED BY <2>5, <4>1, <5>5
      <4>3. CASE ~(G.height[G.top] < G.height[p])
        <5>1. H.top = G.top
          BY <1>3, <4>3
        <5>2. G.height[m] < G.height[G.top]
          BY <2>1, <2>7, <2>15, <4>1, <5>1
        <5> QED BY <2>5, <4>1, <5>2
      <4> QED BY <4>2, <4>3
    <3> QED BY <3>1, <3>2
  <2>16. H.count[H.top] # 0
    <3>0. G.count[p] \in Nat
      BY <1>1, <1>12
    <3>1. CASE H.top = p
      BY <1>5, <3>0, <3>1
    <3>2. CASE H.top # p
      <4>1. H.top = G.top /\ G.height[p] <= G.height[G.top]
        BY <1>3, <2>8, <3>2
      <4>2. G.top # n /\ G.top # new /\ G.top \in Nat
        BY <1>12, <1>14, <2>1, <2>8, <4>1
      <4>3. H.count[G.top] = G.count[G.top]
        BY <1>4, <3>2, <4>1, <4>2
      <4>4. G.height[G.top] # 0
        BY <1>14, <2>8, <4>1
      <4> QED BY <2>6, <4>1, <4>3, <4>4
    <3> QED BY <3>1, <3>2
  <2> QED BY <2>9, <2>10, <2>12, <2>13, <2>14, <2>15, <2>16 DEF Chain
<1> QED BY <1>19, <1>25, <1>27, <1>28 DEF Forest

\* Nodes of one height have no bytes in common.
LEMMA RangesApart ==
  ASSUME NEW G, Forest(G), NEW x, NEW m \in G.live, NEW n \in G.live,
         G.height[m] = G.height[n], x \in G.range[m], x \in G.range[n]
  PROVE  m = n
<1> DEFINE H == G.height[G.meta]
           S == {d \in Nat : \A a, b \in G.live :
                   G.height[a] + d = H /\ G.height[b] + d = H
                   /\ x \in G.range[a] /\ x \in G.range[b] => a = b}
<1>1. /\ G.meta \in G.live /\ G.top \in G.live
      /\ \A a \in G.live : G.height[a] \in Nat /\ G.height[a] <= H /\ G.count[a] \in Nat
      /\ \A a, b \in G.live : G.height[a] = G.height[b] /\ G.height[G.top] <= G.height[b] => a = b
  BY DEF Forest, Chain, Labelled
<1>2. 0 \in S
  BY <1>1
<1>3. ASSUME NEW d \in Nat, d \in S PROVE d + 1 \in S
  <2>1. SUFFICES ASSUME NEW a \in G.live, NEW b \in G.live,
                        G.height[a] + (d + 1) = H, G.height[b] + (d + 1) = H,
                        x \in G.range[a], x \in G.range[b]
                 PROVE a = b
    OBVIOUS
  <2>2. a # G.meta /\ b # G.meta
    BY <1>1, <2>1
  <2>3. PICK i \in Nat : IsChild(G, G.parent[a], i, a)
    BY <2>2 DEF Forest, Attached
  <2>4. PICK j \in Nat : IsChild(G, G.parent[b], j, b)
    BY <2>2 DEF Forest, Attached
  <2> DEFINE p == G.parent[a]
             q == G.parent[b]
  <2> HIDE DEF p, q
  <2>5. G.height[a] + 1 = G.height[p] /\ G.range[a] = Gap(G, p, i) /\ p \in G.live /\ i \in 0 .. G.count[p]
    BY <2>3, OneParent DEF IsChild, p
  <2>6. G.height[b] + 1 = G.height[q] /\ G.range[b] = Gap(G, q, j) /\ q \in G.live /\ j \in 0 .. G.count[q]
    BY <2>4, OneParent DEF IsChild, q
  <2>7. x \in G.range[p] /\ x \in G.range[q]
    BY <2>1, <2>5, <2>6 DEF Gap, GapOf
  <2>8. G.height[p] + d = H /\ G.height[q] + d = H
    BY <1>1, <2>1, <2>5, <2>6
  <2>9. p = q
    BY <1>3, <2>5, <2>6, <2>7, <2>8
  <2>10. ASSUME NEW u \in 0 .. G.count[p], NEW w \in 0 .. G.count[p], u < w,
                x \in Gap(G, p, u), x \in Gap(G, p, w)
         PROVE FALSE
    <3>1. u \in 0 .. G.count[p] - 1
      BY <1>1, <2>5, <2>10
    <3>2. First5[G.key[p][u]] < x /\ x < First5[G.key[p][u]]
      BY <2>10, <3>1 DEF Gap, GapOf
    <3>3. First5[G.key[p][u]] \in Nat /\ x \in Nat
      BY <2>5, <2>7, <3>1, FiveNat DEF Forest, Labelled, KeysOK, Ascending
    <3> QED BY <3>2, <3>3
  <2>11. i = j
    BY <1>1, <2>1, <2>5, <2>6, <2>9, <2>10
  <2> QED BY <2>3, <2>4, <2>9, <2>11 DEF IsChild, p, q
<1>4. Nat \subseteq S
  <2> HIDE DEF S
  <2> QED BY <1>2, <1>3, Induction
<1>5. H - G.height[m] \in Nat /\ G.height[m] + (H - G.height[m]) = H /\ G.height[n] + (H - G.height[m]) = H
  BY <1>1
<1> QED BY <1>4, <1>5

HasKey(G, m, x) == \E j \in 0 .. G.count[m] - 1 : First5[G.key[m][j]] = x

\* If the bytes of a key of m are in the range of y, m is not above y.
LEMMA KeyBelow ==
  ASSUME NEW G, Forest(G), NEW x, NEW m \in G.live, HasKey(G, m, x),
         NEW y \in G.live, x \in G.range[y]
  PROVE  /\ G.height[m] <= G.height[y]
         /\ G.height[m] = G.height[y] => m = y
<1> DEFINE S == {d \in Nat : \A z \in G.live :
                   x \in G.range[z] => G.height[m] # G.height[z] + (d + 1)}
<1>1. /\ G.meta \in G.live
      /\ \A a \in G.live : G.height[a] \in Nat /\ G.height[a] <= G.height[G.meta] /\ G.count[a] \in Nat
  BY DEF Forest, Chain, Labelled
<1>2. x \in G.range[m] /\ x \in Nat
  BY DEF HasKey, Forest, KeysOK, Ascending, Labelled
<1>3. ASSUME NEW z \in G.live, x \in G.range[z], G.height[z] < G.height[m]
      PROVE \E q \in G.live : G.height[q] = G.height[z] + 1 /\ x \in G.range[q] /\ q # m
  <2>1. z # G.meta
    BY <1>1, <1>3
  <2>2. PICK i \in Nat : IsChild(G, G.parent[z], i, z)
    BY <2>1 DEF Forest, Attached
  <2> DEFINE q == G.parent[z]
  <2> HIDE DEF q
  <2>3. G.height[z] + 1 = G.height[q] /\ G.range[z] = Gap(G, q, i) /\ q \in G.live
    BY <2>2, OneParent DEF IsChild, q
  <2>4. x \in G.range[q]
    BY <1>3, <2>3 DEF Gap, GapOf
  <2>5. ASSUME NEW j \in 0 .. G.count[q] - 1 PROVE First5[G.key[q][j]] # x
    <3>1. First5[G.key[q][j]] \in Nat
      BY <2>3, FiveNat DEF Forest, KeysOK, Ascending
    <3>2. First5[G.key[q][j]] < x \/ x < First5[G.key[q][j]]
      BY <1>1, <1>3, <2>2, <2>3 DEF Gap, GapOf
    <3> QED BY <1>2, <3>1, <3>2
  <2>6. q # m
    BY <2>5 DEF HasKey
  <2> QED BY <2>3, <2>4, <2>6
<1>4. 0 \in S
  <2>1. SUFFICES ASSUME NEW z \in G.live, x \in G.range[z], G.height[m] = G.height[z] + (0 + 1)
                 PROVE FALSE
    OBVIOUS
  <2>2. PICK q \in G.live : G.height[q] = G.height[z] + 1 /\ x \in G.range[q] /\ q # m
    BY <1>1, <1>3, <2>1
  <2> QED BY <1>1, <1>2, <2>1, <2>2, RangesApart
<1>5. ASSUME NEW d \in Nat, d \in S PROVE d + 1 \in S
  <2>1. SUFFICES ASSUME NEW z \in G.live, x \in G.range[z], G.height[m] = G.height[z] + ((d + 1) + 1)
                 PROVE FALSE
    OBVIOUS
  <2>2. PICK q \in G.live : G.height[q] = G.height[z] + 1 /\ x \in G.range[q] /\ q # m
    BY <1>1, <1>3, <2>1
  <2>3. G.height[m] = G.height[q] + (d + 1)
    BY <1>1, <2>1, <2>2
  <2> QED BY <1>5, <2>2, <2>3
<1>6. Nat \subseteq S
  <2> HIDE DEF S
  <2> QED BY <1>4, <1>5, Induction
<1>7. G.height[m] <= G.height[y]
  <2>1. SUFFICES ASSUME G.height[m] > G.height[y] PROVE FALSE
    BY <1>1
  <2>2. (G.height[m] - G.height[y]) - 1 \in Nat
        /\ G.height[m] = G.height[y] + (((G.height[m] - G.height[y]) - 1) + 1)
    BY <1>1, <2>1
  <2> QED BY <1>6, <2>2
<1>8. G.height[m] = G.height[y] => m = y
  BY <1>2, RangesApart
<1> QED BY <1>7, <1>8

\* No two nodes have keys with the same first five bytes.
LEMMA KeyOnce ==
  ASSUME NEW G, Forest(G), NEW x, NEW m \in G.live, HasKey(G, m, x), NEW n \in G.live, HasKey(G, n, x)
  PROVE  m = n
<1>1. \A a \in G.live : G.height[a] \in Nat
  BY DEF Forest, Labelled
<1>2. x \in G.range[m] /\ x \in G.range[n]
  BY DEF HasKey, Forest, KeysOK, Ascending
<1>3. G.height[m] <= G.height[n] /\ G.height[n] <= G.height[m]
  BY <1>2, KeyBelow
<1> QED BY <1>1, <1>2, <1>3, RangesApart

Content(G) == {k \in Keys : \E n \in G.live : \E i \in 0 .. G.count[n] - 1 : G.key[n][i] = k}

\* A node's keys are content; two keys of the content differ in their first five bytes.
LEMMA ContentFacts ==
  ASSUME NEW G, Forest(G)
  PROVE  /\ \A n \in G.live : \A i \in 0 .. G.count[n] - 1 : G.key[n][i] \in Content(G)
         /\ \A j, k \in Content(G) : First5[j] = First5[k] => j = k
         /\ \A m, n \in G.live : \A i \in 0 .. G.count[m] - 1 : \A j \in 0 .. G.count[n] - 1 :
              G.key[m][i] = G.key[n][j] => m = n /\ i = j
<1>0. ASSUME NEW m \in G.live, NEW n \in G.live, NEW i \in 0 .. G.count[m] - 1,
             NEW j \in 0 .. G.count[n] - 1, First5[G.key[m][i]] = First5[G.key[n][j]]
      PROVE  m = n /\ i = j
  <2>1. HasKey(G, m, First5[G.key[m][i]]) /\ HasKey(G, n, First5[G.key[m][i]])
    BY <1>0 DEF HasKey
  <2>2. m = n
    BY <2>1, KeyOnce
  <2>3. \A a, b \in 0 .. G.count[m] - 1 : a < b => First5[G.key[m][a]] < First5[G.key[m][b]]
    BY DEF Forest, KeysOK, Ascending
  <2>4. \A a \in 0 .. G.count[m] - 1 : First5[G.key[m][a]] \in Nat
    BY FiveNat DEF Forest, KeysOK, Ascending
  <2>5. G.count[m] \in Nat
    BY DEF Forest, Labelled
  <2>6. i = j
    BY <1>0, <2>2, <2>3, <2>4, <2>5
  <2> QED BY <2>2, <2>6
<1>1. \A n \in G.live : \A i \in 0 .. G.count[n] - 1 : G.key[n][i] \in Content(G)
  BY DEF Content, Forest, KeysOK, Ascending
<1>2. ASSUME NEW j \in Content(G), NEW k \in Content(G), First5[j] = First5[k] PROVE j = k
  <2>1. PICK m \in G.live : \E i \in 0 .. G.count[m] - 1 : G.key[m][i] = j
    BY DEF Content
  <2>2. PICK n \in G.live : \E i \in 0 .. G.count[n] - 1 : G.key[n][i] = k
    BY DEF Content
  <2> QED BY <1>0, <1>2, <2>1, <2>2
<1> QED BY <1>0, <1>1, <1>2

\* A split moves keys and loses none.
LEMMA SplitContent ==
  ASSUME NEW G, NEW n, NEW new, NEW s, NEW p, NEW i, CanSplit(G, n, new, s, p, i),
         NEW H, H = Split(G, n, new, s, p, i)
  PROVE  Content(H) = Content(G)
<1>1. /\ n \in G.live /\ p \in G.live /\ n \in Nat /\ p \in Nat /\ n # p /\ new # n /\ new # p
      /\ new \in Nat /\ new \notin G.live /\ H.live = G.live \cup {new}
  BY SplitFields DEF CanSplit
<1>2. \A m \in Nat \ {n, new, p} : H.count[m] = G.count[m]
  BY SplitFields
<1>3. H.count[n] = s /\ H.count[new] = G.count[n] - s - 1 /\ H.count[p] = G.count[p] + 1
  BY SplitFields
<1>4. \A m \in Nat \ {new, p} : H.key[m] = G.key[m]
  BY SplitFields
<1>5. H.key[new] = Shifted(G.key[n], s + 1) /\ H.key[p] = Inserted(G.key[p], i, G.key[n][s])
  BY SplitFields
<1>6. /\ s \in Nat /\ 0 < s /\ s + 1 < G.count[n] /\ i \in 0 .. G.count[p]
      /\ \A m \in G.live : m \in Nat /\ G.count[m] \in Nat
  BY DEF CanSplit, IsChild, Forest, Labelled
<1>7. \A j \in 0 .. G.count[p] : H.key[p][j] = IF j < i THEN G.key[p][j] ELSE IF j = i THEN G.key[n][s]
                                               ELSE G.key[p][j - 1]
  BY <1>1, <1>5, <1>6 DEF Inserted
<1>8. \A j \in Nat : H.key[new][j] = G.key[n][j + (s + 1)]
  BY <1>5 DEF Shifted
<1>9. ASSUME NEW k, NEW m \in H.live, NEW j \in 0 .. H.count[m] - 1, H.key[m][j] = k
      PROVE \E a \in G.live : \E b \in 0 .. G.count[a] - 1 : G.key[a][b] = k
  <2>1. CASE m \notin {n, new, p}
    BY <1>1, <1>2, <1>4, <1>6, <1>9, <2>1
  <2>2. CASE m = n
    <3>1. j \in 0 .. G.count[n] - 1 /\ G.key[n][j] = k
      BY <1>1, <1>3, <1>4, <1>6, <1>9, <2>2
    <3> QED BY <1>1, <3>1
  <2>3. CASE m = new
    <3>1. j + (s + 1) \in 0 .. G.count[n] - 1 /\ G.key[n][j + (s + 1)] = k
      BY <1>1, <1>3, <1>6, <1>8, <1>9, <2>3
    <3> QED BY <1>1, <3>1
  <2>4. CASE m = p
    <3>1. j \in 0 .. G.count[p] /\ G.count[p] \in Nat /\ G.count[n] \in Nat
      BY <1>1, <1>3, <1>6, <2>4
    <3>2. CASE j < i
      <4>1. j \in 0 .. G.count[p] - 1 /\ G.key[p][j] = k
        BY <1>6, <1>7, <1>9, <2>4, <3>1, <3>2
      <4> QED BY <1>1, <4>1
    <3>3. CASE j = i
      <4>1. s \in 0 .. G.count[n] - 1 /\ G.key[n][s] = k
        BY <1>6, <1>7, <1>9, <2>4, <3>1, <3>3
      <4> QED BY <1>1, <4>1
    <3>4. CASE j > i
      <4>1. j - 1 \in 0 .. G.count[p] - 1 /\ G.key[p][j - 1] = k
        BY <1>6, <1>7, <1>9, <2>4, <3>1, <3>4
      <4> QED BY <1>1, <4>1
    <3> QED BY <1>6, <3>1, <3>2, <3>3, <3>4
  <2> QED BY <2>1, <2>2, <2>3, <2>4
<1>10. ASSUME NEW k, NEW m \in G.live, NEW j \in 0 .. G.count[m] - 1, G.key[m][j] = k
       PROVE \E a \in H.live : \E b \in 0 .. H.count[a] - 1 : H.key[a][b] = k
  <2>0. G.count[p] \in Nat /\ G.count[n] \in Nat /\ m \in H.live /\ p \in H.live
    BY <1>1, <1>6
  <2>1. CASE m # n /\ m # p
    BY <1>1, <1>2, <1>4, <1>6, <1>10, <2>0, <2>1
  <2>2. CASE m = n
    <3>1. CASE j < s
      <4>1. j \in 0 .. H.count[n] - 1 /\ H.key[n][j] = k
        BY <1>1, <1>3, <1>4, <1>6, <1>10, <2>2, <3>1
      <4> QED BY <2>0, <2>2, <4>1
    <3>2. CASE j = s
      <4>1. i \in 0 .. H.count[p] - 1 /\ H.key[p][i] = k
        BY <1>3, <1>6, <1>7, <1>10, <2>0, <2>2, <3>2
      <4> QED BY <2>0, <4>1
    <3>3. CASE j > s
      <4>1. /\ j - (s + 1) \in 0 .. H.count[new] - 1 /\ j - (s + 1) \in Nat
            /\ j - (s + 1) + (s + 1) = j
        BY <1>3, <1>6, <2>0, <2>2, <3>3
      <4>2. H.key[new][j - (s + 1)] = k
        BY <1>8, <1>10, <2>2, <4>1
      <4> QED BY <1>1, <4>1, <4>2
    <3> QED BY <1>6, <2>0, <3>1, <3>2, <3>3
  <2>3. CASE m = p
    <3>1. CASE j < i
      <4>1. j \in 0 .. H.count[p] - 1 /\ H.key[p][j] = k
        BY <1>3, <1>6, <1>7, <1>10, <2>0, <2>3, <3>1
      <4> QED BY <2>0, <4>1
    <3>2. CASE ~(j < i)
      <4>1. j + 1 \in 0 .. H.count[p] - 1 /\ H.key[p][j + 1] = k
        BY <1>3, <1>6, <1>7, <1>10, <2>0, <2>3, <3>2
      <4> QED BY <2>0, <4>1
    <3> QED BY <3>1, <3>2
  <2> QED BY <2>1, <2>2, <2>3
<1> QED BY <1>9, <1>10 DEF Content

\* A node r over the top, in place of those that are there.
Grow(G, r) ==
  [live   |-> {m \in G.live : G.height[m] <= G.height[G.top]} \cup {r},
   count  |-> [m \in Nat |-> IF m = r THEN 0 ELSE G.count[m]],
   key    |-> G.key,
   child  |-> [m \in Nat |-> IF m = r THEN [j \in Nat |-> G.top] ELSE G.child[m]],
   height |-> [m \in Nat |-> IF m = r THEN G.height[G.top] + 1 ELSE G.height[m]],
   range  |-> [m \in Nat |-> IF m = r THEN Nat ELSE G.range[m]],
   parent |-> [m \in Nat |-> IF m = G.top THEN r ELSE G.parent[m]],
   top    |-> G.top,
   meta   |-> r]

\* A new root over the top leaves a forest with the same content.
LEMMA GrowOK ==
  ASSUME NEW G, Forest(G), NEW r \in Nat \ {0}, r \notin G.live, NEW H, H = Grow(G, r)
  PROVE  /\ Forest(H) /\ Content(H) = Content(G)
         /\ IsChild(H, r, 0, G.top)
<1> DEFINE L == {m \in G.live : G.height[m] <= G.height[G.top]}
           t == G.top
<1>1. H.live = L \cup {r} /\ H.key = G.key /\ H.top = t /\ H.meta = r
  BY DEF Grow
<1>2. \A m \in Nat : H.count[m] = IF m = r THEN 0 ELSE G.count[m]
  BY DEF Grow
<1>3. \A m \in Nat : H.child[m] = IF m = r THEN [j \in Nat |-> t] ELSE G.child[m]
  BY DEF Grow
<1>4. \A m \in Nat : H.height[m] = IF m = r THEN G.height[t] + 1 ELSE G.height[m]
  BY DEF Grow
<1>5. \A m \in Nat : H.range[m] = IF m = r THEN Nat ELSE G.range[m]
  BY DEF Grow
<1>6. \A m \in Nat : H.parent[m] = IF m = t THEN r ELSE G.parent[m]
  BY DEF Grow
<1>7. \A m \in G.live : /\ m \in Nat /\ m # 0 /\ m # r
                        /\ G.count[m] \in Nat /\ G.height[m] \in Nat /\ G.range[m] \subseteq Nat
  BY DEF Forest, Labelled
<1>8. /\ t \in G.live /\ G.meta \in G.live /\ t \in L
      /\ \A a, b \in G.live : G.height[a] = G.height[b] /\ G.height[t] <= G.height[b] => a = b
      /\ G.count[t] = 0 => G.height[t] = 0
  BY <1>7 DEF Forest, Chain
<1>9. /\ \A m \in G.live : G.height[t] <= G.height[m] => G.range[m] = Nat
      /\ \A m \in G.live : G.height[t] < G.height[m] => G.count[m] = 0
      /\ \A m \in G.live : G.height[m] < G.height[t] => G.count[m] # 0
  BY DEF Forest, Chain
<1>10. ASSUME NEW m \in L
       PROVE  /\ m \in G.live /\ m \in Nat /\ m # r /\ H.count[m] = G.count[m]
              /\ H.child[m] = G.child[m] /\ H.key[m] = G.key[m] /\ H.height[m] = G.height[m]
              /\ H.range[m] = G.range[m] /\ G.height[m] <= G.height[t]
  BY <1>1, <1>2, <1>3, <1>4, <1>5, <1>7
<1>11. /\ H.count[r] = 0 /\ H.child[r][0] = t /\ H.height[r] = G.height[t] + 1 /\ H.range[r] = Nat
       /\ H.height[t] = G.height[t] /\ G.height[t] \in Nat /\ H.parent[t] = r
  BY <1>2, <1>3, <1>4, <1>5, <1>6, <1>7, <1>8
<1> HIDE DEF L, t
<1>12. Labelled(H)
  <2>1. H.live \subseteq Nat \ {0}
    BY <1>1, <1>7 DEF L
  <2>2. ASSUME NEW m \in H.live
        PROVE H.count[m] \in Nat /\ H.height[m] \in Nat /\ H.range[m] \subseteq Nat
    <3>1. CASE m = r
      BY <1>11, <3>1
    <3>2. CASE m # r
      BY <1>1, <1>7, <1>10, <3>2
    <3> QED BY <3>1, <3>2
  <2> QED BY <2>1, <2>2 DEF Labelled
<1>13. KeysOK(H, r) /\ ChildrenOK(H, r)
  <2>1. KeysOK(H, r)
    BY <1>11 DEF KeysOK, Ascending
  <2>2. ChildOK(H, r, 0)
    <3>1. G.range[t] = Nat /\ H.range[t] = Nat
      BY <1>8, <1>9, <1>10, <1>11
    <3>2. Gap(H, r, 0) = Nat
      BY <1>11 DEF Gap, GapOf
    <3> QED BY <1>1, <1>8, <1>11, <3>1, <3>2 DEF ChildOK
  <2>3. ChildrenOK(H, r)
    BY <1>11, <2>2 DEF ChildrenOK
  <2> QED BY <2>1, <2>3
<1>14. ASSUME NEW m \in L PROVE KeysOK(H, m) /\ ChildrenOK(H, m)
  <2>1. KeysOK(G, m) /\ ChildrenOK(G, m)
    BY <1>10 DEF Forest
  <2>2. KeysOK(H, m)
    BY <1>10, <2>1 DEF KeysOK
  <2>3. \A j : Gap(H, m, j) = Gap(G, m, j)
    BY <1>10 DEF Gap
  <2>4. ASSUME G.height[m] # 0, NEW j \in 0 .. G.count[m] PROVE ChildOK(H, m, j)
    <3> DEFINE c == G.child[m][j]
    <3>1. c \in G.live /\ G.height[c] + 1 = G.height[m] /\ G.range[c] = Gap(G, m, j) /\ G.parent[c] = m
      BY <2>1, <2>4 DEF ChildrenOK, ChildOK
    <3> HIDE DEF c
    <3>2. c \in L /\ c # t
      BY <1>7, <1>10, <1>11, <3>1 DEF L, t
    <3>3. H.height[c] + 1 = H.height[m] /\ H.range[c] = Gap(H, m, j) /\ c \in H.live
      BY <1>1, <1>10, <2>3, <3>1, <3>2
    <3>4. H.parent[c] = m
      BY <1>6, <1>7, <3>1, <3>2
    <3> QED BY <1>10, <3>3, <3>4 DEF ChildOK, c
  <2>5. ChildrenOK(H, m)
    BY <1>10, <2>1, <2>4 DEF ChildrenOK
  <2> QED BY <2>2, <2>5
<1>15. IsChild(H, r, 0, t)
  BY <1>1, <1>11 DEF IsChild
<1>16. Attached(H)
  <2>1. SUFFICES ASSUME NEW m \in H.live, m # r PROVE \E j \in Nat : IsChild(H, H.parent[m], j, m)
    BY <1>1 DEF Attached
  <2>2. CASE m = t
    BY <1>11, <1>15, <2>2
  <2>3. CASE m # t
    <3>1. m \in L /\ m \in G.live /\ m \in Nat
      BY <1>1, <1>10, <2>1
    <3>2. G.height[m] < G.height[t] /\ G.height[t] <= G.height[G.meta]
      <4>1. G.height[t] <= G.height[G.meta]
        BY <1>8 DEF Forest, Chain
      <4> QED BY <1>7, <1>8, <1>10, <1>11, <2>3, <3>1, <4>1
    <3>3. m # G.meta
      BY <1>7, <1>8, <3>1, <3>2
    <3>4. PICK j \in Nat : IsChild(G, G.parent[m], j, m)
      BY <3>1, <3>3 DEF Forest, Attached
    <3> DEFINE q == G.parent[m]
    <3> HIDE DEF q
    <3>5. q \in G.live /\ G.height[q] # 0 /\ j \in 0 .. G.count[q] /\ G.child[q][j] = m
      BY <3>4 DEF IsChild, q
    <3>6. G.height[m] + 1 = G.height[q]
      BY <3>4, OneParent DEF q
    <3>7. q \in L
      BY <1>7, <1>8, <3>1, <3>2, <3>5, <3>6 DEF L, t
    <3>8. H.parent[m] = q
      BY <1>6, <2>3, <3>1 DEF q
    <3>9. IsChild(H, q, j, m)
      BY <1>1, <1>10, <3>5, <3>7 DEF IsChild
    <3> QED BY <3>8, <3>9
  <2> QED BY <2>2, <2>3
<1>17. Chain(H)
  <2>1. H.meta \in H.live /\ H.top \in H.live
    BY <1>1, <1>8
  <2>2. ASSUME NEW m \in H.live PROVE H.height[m] <= H.height[r]
    <3>1. CASE m = r
      BY <1>11, <3>1
    <3>2. CASE m # r
      BY <1>1, <1>7, <1>10, <1>11, <3>2
    <3> QED BY <3>1, <3>2
  <2>3. ASSUME NEW m \in H.live, H.height[t] <= H.height[m] PROVE m = t \/ m = r
    BY <1>1, <1>7, <1>8, <1>10, <1>11, <2>3
  <2>4. H.height[t] # H.height[r]
    BY <1>11
  <2>5. H.range[t] = Nat /\ H.range[r] = Nat
    BY <1>8, <1>9, <1>10, <1>11
  <2>6. ASSUME NEW m \in H.live, H.height[m] < H.height[t] PROVE H.count[m] # 0
    <3>1. m \in L
      BY <1>1, <1>11, <2>6
    <3> QED BY <1>9, <1>10, <1>11, <2>6, <3>1
  <2>7. H.count[t] = 0 => H.height[t] = 0
    BY <1>8, <1>10
  <2>9. ASSUME NEW a \in H.live, NEW b \in H.live, H.height[a] = H.height[b], H.height[t] <= H.height[b]
        PROVE a = b
    BY <2>3, <2>4, <2>9
  <2>10. ASSUME NEW m \in H.live, H.height[t] <= H.height[m] PROVE H.range[m] = Nat
    BY <2>3, <2>5, <2>10
  <2>11. ASSUME NEW m \in H.live, H.height[t] < H.height[m] PROVE H.count[m] = 0
    <3>1. H.height[m] \in Nat
      BY <1>12 DEF Labelled
    <3>2. m = r
      BY <1>11, <2>3, <2>11, <3>1
    <3> QED BY <1>11, <3>2
  <2>12. H.top = t /\ H.meta = r
    BY <1>1
  <2> QED BY <2>1, <2>2, <2>6, <2>7, <2>9, <2>10, <2>11, <2>12 DEF Chain
<1>18. Forest(H)
  BY <1>1, <1>12, <1>13, <1>14, <1>16, <1>17 DEF Forest
<1>19. Content(H) = Content(G)
  <2>1. ASSUME NEW m \in G.live, NEW j \in 0 .. G.count[m] - 1 PROVE m \in L
    <3>1. ~(G.height[t] < G.height[m])
      BY <1>7, <1>9, <2>1
    <3> QED BY <1>7, <1>8, <3>1 DEF L, t
  <2>2. ASSUME NEW m \in H.live, NEW j \in 0 .. H.count[m] - 1 PROVE m \in L
    BY <1>1, <1>11, <2>2
  <2>3. ASSUME NEW k, NEW m \in G.live, NEW j \in 0 .. G.count[m] - 1, G.key[m][j] = k
        PROVE \E a \in H.live : \E b \in 0 .. H.count[a] - 1 : H.key[a][b] = k
    BY <1>1, <1>10, <2>1, <2>3
  <2>4. ASSUME NEW k, NEW m \in H.live, NEW j \in 0 .. H.count[m] - 1, H.key[m][j] = k
        PROVE \E a \in G.live : \E b \in 0 .. G.count[a] - 1 : G.key[a][b] = k
    BY <1>10, <2>2, <2>4
  <2>5. Content(G) \subseteq Content(H)
    BY <2>3 DEF Content
  <2>6. Content(H) \subseteq Content(G)
    BY <2>4 DEF Content
  <2> QED BY <2>5, <2>6
<1> QED BY <1>15, <1>18, <1>19 DEF t

\* The leaf n has the first m keys of f.
SetKeys(G, n, f, m) ==
  [live   |-> G.live,
   count  |-> [a \in Nat |-> IF a = n THEN m ELSE G.count[a]],
   key    |-> [a \in Nat |-> IF a = n THEN f ELSE G.key[a]],
   child  |-> G.child,
   height |-> G.height,
   range  |-> G.range,
   parent |-> G.parent,
   top    |-> G.top,
   meta   |-> G.meta]

\* A leaf may get any keys in order and in its range; only the top may have none.
LEMMA SetKeysOK ==
  ASSUME NEW G, Forest(G), NEW n \in G.live, G.height[n] = 0, NEW f, NEW m \in Nat,
         Ascending(G.range[n], f, m), m = 0 => n = G.top,
         NEW H, H = SetKeys(G, n, f, m)
  PROVE  /\ Forest(H)
         /\ H.live = G.live /\ H.child = G.child /\ H.height = G.height /\ H.range = G.range
         /\ H.parent = G.parent /\ H.top = G.top /\ H.meta = G.meta
         /\ \A a \in G.live \ {n} : H.count[a] = G.count[a] /\ H.key[a] = G.key[a]
         /\ H.count[n] = m /\ H.key[n] = f
<1>1. /\ H.live = G.live /\ H.child = G.child /\ H.height = G.height /\ H.range = G.range
      /\ H.parent = G.parent /\ H.top = G.top /\ H.meta = G.meta
  BY DEF SetKeys
<1>2. \A a \in G.live : /\ a \in Nat /\ a # 0 /\ G.count[a] \in Nat /\ G.height[a] \in Nat
                        /\ G.range[a] \subseteq Nat
  BY DEF Forest, Labelled
<1>3. \A a \in Nat : /\ H.count[a] = IF a = n THEN m ELSE G.count[a]
                     /\ H.key[a] = IF a = n THEN f ELSE G.key[a]
  BY DEF SetKeys
<1>4. (\A a \in G.live \ {n} : H.count[a] = G.count[a] /\ H.key[a] = G.key[a])
      /\ H.count[n] = m /\ H.key[n] = f
  BY <1>2, <1>3
<1>5. Labelled(H)
  <2>1. \A a \in G.live : H.count[a] \in Nat
    BY <1>2, <1>4
  <2> QED BY <1>1, <2>1 DEF Labelled, Forest
<1>6. ASSUME NEW a \in G.live PROVE KeysOK(H, a) /\ ChildrenOK(H, a)
  <2>1. CASE a = n
    <3>1. KeysOK(H, n)
      BY <1>1, <1>4 DEF KeysOK
    <3>2. ChildrenOK(H, n)
      BY <1>1 DEF ChildrenOK
    <3> QED BY <2>1, <3>1, <3>2
  <2>2. CASE a # n
    <3>1. KeysOK(G, a) /\ ChildrenOK(G, a) /\ H.count[a] = G.count[a] /\ H.key[a] = G.key[a]
      BY <1>4, <2>2 DEF Forest
    <3>2. KeysOK(H, a)
      BY <1>1, <3>1 DEF KeysOK
    <3>3. \A i : ChildOK(H, a, i) <=> ChildOK(G, a, i)
      BY <1>1, <3>1 DEF ChildOK, Gap
    <3>4. ChildrenOK(H, a)
      BY <1>1, <3>1, <3>3 DEF ChildrenOK
    <3> QED BY <3>2, <3>4
  <2> QED BY <2>1, <2>2
<1>7. Attached(H)
  <2>1. SUFFICES ASSUME NEW a \in G.live, a # G.meta PROVE \E j \in Nat : IsChild(H, G.parent[a], j, a)
    BY <1>1 DEF Attached
  <2>2. PICK j \in Nat : IsChild(G, G.parent[a], j, a)
    BY <2>1 DEF Forest, Attached
  <2>3. G.parent[a] # n
    BY <2>2 DEF IsChild
  <2>4. IsChild(H, G.parent[a], j, a)
    BY <1>1, <1>4, <2>2, <2>3 DEF IsChild
  <2> QED BY <2>4
<1>8. Chain(H)
  <2>1. G.height[G.top] \in Nat /\ G.top \in G.live
    BY <1>2 DEF Forest, Chain
  <2>2. \A a \in H.live : H.height[H.top] < H.height[a] => H.count[a] = 0
    <3>1. \A a \in G.live : G.height[G.top] < G.height[a] => G.count[a] = 0 /\ a # n
      BY <1>2, <2>1 DEF Forest, Chain
    <3> QED BY <1>1, <1>4, <3>1
  <2>3. \A a \in H.live : H.height[a] < H.height[H.top] => H.count[a] # 0
    <3>1. \A a \in G.live : G.height[a] < G.height[G.top] => G.count[a] # 0 /\ a # G.top
      BY <1>2, <2>1 DEF Forest, Chain
    <3> QED BY <1>1, <1>4, <3>1
  <2>4. H.count[H.top] = 0 => H.height[H.top] = 0
    BY <1>1, <1>4, <2>1 DEF Forest, Chain
  <2> QED BY <1>1, <2>2, <2>3, <2>4 DEF Forest, Chain
<1>9. Forest(H)
  BY <1>1, <1>5, <1>6, <1>7, <1>8 DEF Forest
<1> QED BY <1>1, <1>4, <1>9

\* x is a key of one of the nodes of A.
Occurs(G, A, x) == \E n \in A : \E i \in 0 .. G.count[n] - 1 : G.key[n][i] = x

\* The keys of the tree, when the same nodes hold one key more.
LEMMA ContentGrows ==
  ASSUME NEW G, NEW H, NEW k \in Keys, H.live = G.live,
         \A x : x # k /\ Occurs(H, G.live, x) => Occurs(G, G.live, x),
         \A x : Occurs(G, G.live, x) => Occurs(H, G.live, x),
         Occurs(H, G.live, k)
  PROVE  Content(H) = Content(G) \cup {k}
<1>1. Content(G) = {x \in Keys : Occurs(G, G.live, x)}
  BY ONLY Zenon DEF Content, Occurs
<1>2. Content(H) = {x \in Keys : Occurs(H, H.live, x)}
  BY ONLY Zenon DEF Content, Occurs
<1> QED BY <1>1, <1>2

\* A key in a gap of a leaf.
LEMMA InsertInLeaf ==
  ASSUME NEW G, Forest(G), NEW n \in G.live, G.height[n] = 0, NEW k \in Keys,
         NEW i \in 0 .. G.count[n], First5[k] \in Gap(G, n, i),
         NEW H, H = SetKeys(G, n, Inserted(G.key[n], i, k), G.count[n] + 1)
  PROVE  Forest(H) /\ Content(H) = Content(G) \cup {k}
<1> DEFINE f == Inserted(G.key[n], i, k)
           m == G.count[n] + 1
<1>1. G.count[n] \in Nat /\ G.range[n] \subseteq Nat
  BY DEF Forest, Labelled
<1>2. Ascending(G.range[n], f, m)
  <2> DEFINE r == G.range[n]
             g == G.key[n]
             c == G.count[n]
  <2>1. Ascending(r, g, c) /\ First5[k] \in GapOf(r, g, c, i) /\ f = Inserted(g, i, k)
    BY DEF Forest, KeysOK, Gap
  <2>2. r \subseteq Nat /\ c \in Nat /\ i \in 0 .. c
    BY <1>1
  <2>3. SUFFICES Ascending(r, f, c + 1)
    OBVIOUS
  <2> HIDE DEF r, g, c, f
  <2>4. InsertedKeys(r, g, c, i, k, f)
    BY <2>1, <2>2, InsertKeys
  <2> QED BY <2>4 DEF InsertedKeys
<1>3. m \in Nat /\ m # 0
  BY <1>1
<1>4. \A j \in 0 .. G.count[n] : f[j] = IF j < i THEN G.key[n][j] ELSE IF j = i THEN k ELSE G.key[n][j - 1]
  BY <1>1 DEF Inserted
<1>5. H = SetKeys(G, n, f, m)
  OBVIOUS
<1> HIDE DEF f
<1>6. /\ Forest(H) /\ H.live = G.live /\ H.count[n] = m /\ H.key[n] = f
      /\ \A a \in G.live \ {n} : H.count[a] = G.count[a] /\ H.key[a] = G.key[a]
  <2> HIDE DEF m
  <2> QED BY <1>2, <1>3, <1>5, SetKeysOK
<1>7. ASSUME NEW x, NEW a \in G.live, NEW j \in 0 .. H.count[a] - 1, H.key[a][j] = x, x # k
      PROVE \E b \in G.live : \E l \in 0 .. G.count[b] - 1 : G.key[b][l] = x
  <2>1. CASE a # n
    BY <1>6, <1>7, <2>1
  <2>2. CASE a = n
    <3>1. j \in 0 .. G.count[n] /\ f[j] = x
      BY <1>1, <1>6, <1>7, <2>2
    <3>2. CASE j < i
      <4>1. j \in 0 .. G.count[n] - 1 /\ G.key[n][j] = x
        BY <1>1, <1>4, <3>1, <3>2
      <4> QED BY <4>1
    <3>3. CASE j > i
      <4>1. j - 1 \in 0 .. G.count[n] - 1 /\ G.key[n][j - 1] = x
        BY <1>1, <1>4, <3>1, <3>3
      <4> QED BY <4>1
    <3>4. j # i
      BY <1>4, <1>7, <3>1
    <3> QED BY <1>1, <3>1, <3>2, <3>3, <3>4
  <2> QED BY <2>1, <2>2
<1>8. ASSUME NEW x, NEW a \in G.live, NEW j \in 0 .. G.count[a] - 1, G.key[a][j] = x
      PROVE \E b \in G.live : \E l \in 0 .. H.count[b] - 1 : H.key[b][l] = x
  <2>1. CASE a # n
    BY <1>6, <1>8, <2>1
  <2>2. CASE a = n
    <3>1. CASE j < i
      <4>1. j \in 0 .. H.count[n] - 1 /\ H.key[n][j] = x
        BY <1>1, <1>4, <1>6, <1>8, <2>2, <3>1
      <4> QED BY <4>1
    <3>2. CASE ~(j < i)
      <4>1. j + 1 \in 0 .. H.count[n] - 1 /\ H.key[n][j + 1] = x
        BY <1>1, <1>4, <1>6, <1>8, <2>2, <3>2
      <4> QED BY <4>1
    <3> QED BY <3>1, <3>2
  <2> QED BY <2>1, <2>2
<1>9. i \in 0 .. H.count[n] - 1 /\ H.key[n][i] = k
  BY <1>1, <1>4, <1>6, SMTT(20)
<1>10. Content(H) = Content(G) \cup {k}
  <2>1. \A x : x # k /\ Occurs(H, G.live, x) => Occurs(G, G.live, x)
    <3>1. SUFFICES ASSUME NEW x, x # k, Occurs(H, G.live, x) PROVE Occurs(G, G.live, x)
      OBVIOUS
    <3>2. PICK a \in G.live : \E j \in 0 .. H.count[a] - 1 : H.key[a][j] = x
      BY ONLY <3>1 DEF Occurs
    <3>3. PICK j \in 0 .. H.count[a] - 1 : H.key[a][j] = x
      BY ONLY <3>2
    <3>4. \E b \in G.live : \E l \in 0 .. G.count[b] - 1 : G.key[b][l] = x
      BY ONLY <1>7, <3>1, <3>3, a \in G.live
    <3> QED BY ONLY <3>4 DEF Occurs
  <2>2. \A x : Occurs(G, G.live, x) => Occurs(H, G.live, x)
    BY ONLY <1>8 DEF Occurs
  <2>3. Occurs(H, G.live, k)
    BY ONLY <1>9, n \in G.live DEF Occurs
  <2>4. H.live = G.live /\ k \in Keys
    BY <1>6
  <2> QED BY ONLY <2>1, <2>2, <2>3, <2>4, ContentGrows
<1> QED BY <1>6, <1>10

\* An array without its element i.
LEMMA DropKeys ==
  ASSUME NEW r, NEW f, NEW m \in Nat, Ascending(r, f, m), NEW i \in 0 .. m - 1,
         NEW g, g = Dropped(f, i)
  PROVE  /\ Ascending(r, g, m - 1)
         /\ \A j \in 0 .. m - 2 : g[j] = IF j < i THEN f[j] ELSE f[j + 1]
<1>1. \A j \in 0 .. m - 2 : g[j] = IF j < i THEN f[j] ELSE f[j + 1]
  BY DEF Dropped
<1>2. 0 .. (m - 1) - 1 = 0 .. m - 2
  OBVIOUS
<1>3. ASSUME NEW j \in 0 .. m - 2 PROVE g[j] \in Keys /\ First5[g[j]] \in r
  BY <1>1 DEF Ascending
<1>4. ASSUME NEW a \in 0 .. m - 2, NEW b \in 0 .. m - 2, a < b PROVE First5[g[a]] < First5[g[b]]
  <2> DEFINE x == IF a < i THEN a ELSE a + 1
             y == IF b < i THEN b ELSE b + 1
  <2>1. g[a] = f[x] /\ g[b] = f[y]
    BY <1>1
  <2>2. x \in 0 .. m - 1 /\ y \in 0 .. m - 1 /\ x < y
    BY <1>4
  <2> HIDE DEF x, y
  <2> QED BY <2>1, <2>2 DEF Ascending
<1> QED BY <1>1, <1>2, <1>3, <1>4 DEF Ascending

\* A leaf loses a key.
LEMMA DropInLeaf ==
  ASSUME NEW G, Forest(G), NEW n \in G.live, G.height[n] = 0, NEW i \in 0 .. G.count[n] - 1,
         G.count[n] > 1 \/ n = G.top,
         NEW H, H = SetKeys(G, n, Dropped(G.key[n], i), G.count[n] - 1)
  PROVE  Forest(H) /\ Content(H) = Content(G) \ {G.key[n][i]}
<1> DEFINE f == Dropped(G.key[n], i)
           m == G.count[n] - 1
<1>1. G.count[n] \in Nat /\ m \in Nat
  BY DEF Forest, Labelled
<1>2. /\ Ascending(G.range[n], f, m)
      /\ \A j \in 0 .. G.count[n] - 2 : f[j] = IF j < i THEN G.key[n][j] ELSE G.key[n][j + 1]
  <2> DEFINE r == G.range[n]
             g == G.key[n]
             c == G.count[n]
  <2>1. Ascending(r, g, c) /\ f = Dropped(g, i) /\ c \in Nat /\ i \in 0 .. c - 1
    BY <1>1 DEF Forest, KeysOK
  <2>2. SUFFICES Ascending(r, f, c - 1) /\ \A j \in 0 .. c - 2 : f[j] = IF j < i THEN g[j] ELSE g[j + 1]
    OBVIOUS
  <2> HIDE DEF r, g, c, f
  <2> QED BY <2>1, DropKeys
<1>3. H = SetKeys(G, n, f, m)
  OBVIOUS
<1>4. m = 0 => n = G.top
  BY <1>1
<1> HIDE DEF f
<1>5. /\ Forest(H) /\ H.live = G.live /\ H.count[n] = m /\ H.key[n] = f
      /\ \A a \in G.live \ {n} : H.count[a] = G.count[a] /\ H.key[a] = G.key[a]
  <2> HIDE DEF m
  <2> QED BY <1>1, <1>2, <1>3, <1>4, SetKeysOK
<1>6. \A a, b \in G.live : \A l \in 0 .. G.count[a] - 1 : \A j \in 0 .. G.count[b] - 1 :
              G.key[a][l] = G.key[b][j] => a = b /\ l = j
  BY ContentFacts
<1>7. ASSUME NEW x, NEW a \in G.live, NEW j \in 0 .. H.count[a] - 1, H.key[a][j] = x
      PROVE x # G.key[n][i] /\ \E b \in G.live : \E l \in 0 .. G.count[b] - 1 : G.key[b][l] = x
  <2>1. CASE a # n
    BY <1>5, <1>6, <1>7, <2>1
  <2>2. CASE a = n
    <3> DEFINE l == IF j < i THEN j ELSE j + 1
    <3>1. l \in 0 .. G.count[n] - 1 /\ G.key[n][l] = x /\ l # i
      BY <1>1, <1>2, <1>5, <1>7, <2>2
    <3> HIDE DEF l
    <3> QED BY <1>6, <3>1
  <2> QED BY <2>1, <2>2
<1>8. ASSUME NEW x, NEW a \in G.live, NEW j \in 0 .. G.count[a] - 1, G.key[a][j] = x, x # G.key[n][i]
      PROVE \E b \in G.live : \E l \in 0 .. H.count[b] - 1 : H.key[b][l] = x
  <2>1. CASE a # n
    BY <1>5, <1>8, <2>1
  <2>2. CASE a = n
    <3> DEFINE l == IF j < i THEN j ELSE j - 1
    <3>1. l \in 0 .. H.count[n] - 1 /\ H.key[n][l] = x
      BY <1>1, <1>2, <1>5, <1>8, <2>2
    <3> HIDE DEF l
    <3> QED BY <3>1
  <2> QED BY <2>1, <2>2
<1>9. Content(H) = Content(G) \ {G.key[n][i]}
  <2>1. ASSUME NEW x \in Content(H) PROVE x \in Content(G) \ {G.key[n][i]}
    BY <1>5, <1>7 DEF Content
  <2>2. ASSUME NEW x \in Content(G), x # G.key[n][i] PROVE x \in Content(H)
    BY <1>5, <1>8, <2>2 DEF Content
  <2> QED BY <2>1, <2>2
<1> QED BY <1>5, <1>9

Replaced(f, q, e) == [j \in Nat |-> IF j = q THEN e ELSE f[j]]

\* The part of r between the keys q - 1 and q + 1.
Span(r, f, m, q) ==
  {x \in r : \A j \in 0 .. m - 1 : /\ j < q => First5[f[j]] < x
                                   /\ q < j => x < First5[f[j]]}

ReplacedKey(r, f, m, q, e, g) ==
  /\ Ascending(r, g, m)
  /\ \A j \in 0 .. m :
       /\ j < q => GapOf(r, g, m, j) = GapOf(r, f, m, j)
       /\ j = q => GapOf(r, g, m, j) = {x \in Span(r, f, m, q) : x < First5[e]}
       /\ j = q + 1 => GapOf(r, g, m, j) = {x \in Span(r, f, m, q) : First5[e] < x}
       /\ j > q + 1 => GapOf(r, g, m, j) = GapOf(r, f, m, j)

\* Another key in the place of key q changes the gaps beside it only.
LEMMA ReplaceKey ==
  ASSUME NEW r, r \subseteq Nat, NEW f, NEW m \in Nat, Ascending(r, f, m),
         NEW q \in 0 .. m - 1, NEW e \in Keys, First5[e] \in Span(r, f, m, q),
         NEW g, g = Replaced(f, q, e)
  PROVE  ReplacedKey(r, f, m, q, e, g)
<1> DEFINE v == First5[e]
<1>1. v \in Nat /\ v \in r
  BY FiveNat DEF Span
<1>2. \A j \in 0 .. m - 1 : /\ f[j] \in Keys /\ First5[f[j]] \in r /\ First5[f[j]] \in Nat
                            /\ j < q => First5[f[j]] < v
                            /\ q < j => v < First5[f[j]]
  BY FiveNat DEF Ascending, Span
<1>3. \A a, b \in 0 .. m - 1 : a < b => First5[f[a]] < First5[f[b]]
  BY DEF Ascending
<1>4. \A j \in 0 .. m - 1 : g[j] = IF j = q THEN e ELSE f[j]
  BY DEF Replaced
<1>5. First5[g[q]] = v
  BY <1>4
<1> HIDE DEF v
<1>6. Ascending(r, g, m)
  <2>1. \A j \in 0 .. m - 1 : g[j] \in Keys /\ First5[g[j]] \in r
    BY <1>1, <1>2, <1>4, <1>5
  <2>2. ASSUME NEW a \in 0 .. m - 1, NEW b \in 0 .. m - 1, a < b PROVE First5[g[a]] < First5[g[b]]
    <3>1. CASE a = q
      BY <1>2, <1>4, <1>5, <2>2, <3>1
    <3>2. CASE b = q
      BY <1>2, <1>4, <1>5, <2>2, <3>2
    <3>3. CASE a # q /\ b # q
      BY <1>3, <1>4, <2>2, <3>3
    <3> QED BY <3>1, <3>2, <3>3
  <2> QED BY <2>1, <2>2 DEF Ascending
<1>7. ASSUME NEW x \in Nat, NEW j \in 0 .. m, j < q \/ j > q + 1, NEW l \in 0 .. m - 1, l # q,
             NEW h, h[l] = f[l],
             (l < j => First5[h[l]] < x) /\ (j <= l => x < First5[h[l]])
      PROVE (l < j => First5[f[l]] < x) /\ (j <= l => x < First5[f[l]])
  BY <1>7
<1>8. ASSUME NEW j \in 0 .. m, j < q
      PROVE GapOf(r, g, m, j) = GapOf(r, f, m, j)
  <2>1. ASSUME NEW x \in GapOf(r, g, m, j) PROVE x \in GapOf(r, f, m, j)
    <3>1. x \in Nat /\ x \in r /\ \A l \in 0 .. m - 1 : (l < j => First5[g[l]] < x) /\ (j <= l => x < First5[g[l]])
      BY DEF GapOf
    <3>2. j \in 0 .. m - 1 /\ x < First5[f[j]] /\ First5[f[j]] < First5[f[q]]
          /\ First5[f[j]] \in Nat /\ First5[f[q]] \in Nat
      BY <1>2, <1>3, <1>4, <1>8, <3>1
    <3>3. x < First5[f[q]]
      BY <3>1, <3>2
    <3>4. \A l \in 0 .. m - 1 : (l < j => First5[f[l]] < x) /\ (j <= l => x < First5[f[l]])
      BY <1>4, <1>8, <3>1, <3>3
    <3> QED BY <3>1, <3>4 DEF GapOf
  <2>2. ASSUME NEW x \in GapOf(r, f, m, j) PROVE x \in GapOf(r, g, m, j)
    <3>1. x \in Nat /\ x \in r /\ \A l \in 0 .. m - 1 : (l < j => First5[f[l]] < x) /\ (j <= l => x < First5[f[l]])
      BY DEF GapOf
    <3>2. j \in 0 .. m - 1 /\ x < First5[f[j]] /\ First5[f[j]] < v /\ First5[f[j]] \in Nat
      BY <1>2, <1>8, <3>1
    <3>3. x < First5[g[q]]
      BY <1>1, <1>5, <3>1, <3>2
    <3>4. \A l \in 0 .. m - 1 : (l < j => First5[g[l]] < x) /\ (j <= l => x < First5[g[l]])
      BY <1>4, <1>8, <3>1, <3>3
    <3> QED BY <3>1, <3>4 DEF GapOf
  <2> QED BY <2>1, <2>2
<1>9. ASSUME NEW j \in 0 .. m, j > q + 1
      PROVE GapOf(r, g, m, j) = GapOf(r, f, m, j)
  <2>0. j - 1 \in 0 .. m - 1 /\ q < j - 1 /\ j - 1 < j
    BY <1>9
  <2>1. ASSUME NEW x \in GapOf(r, g, m, j) PROVE x \in GapOf(r, f, m, j)
    <3>1. x \in Nat /\ x \in r /\ \A l \in 0 .. m - 1 : (l < j => First5[g[l]] < x) /\ (j <= l => x < First5[g[l]])
      BY DEF GapOf
    <3>2. First5[f[j - 1]] < x /\ First5[f[q]] < First5[f[j - 1]]
          /\ First5[f[j - 1]] \in Nat /\ First5[f[q]] \in Nat
      BY <1>2, <1>3, <1>4, <2>0, <3>1
    <3>3. First5[f[q]] < x
      BY <3>1, <3>2
    <3>4. \A l \in 0 .. m - 1 : (l < j => First5[f[l]] < x) /\ (j <= l => x < First5[f[l]])
      BY <1>4, <1>9, <3>1, <3>3
    <3> QED BY <3>1, <3>4 DEF GapOf
  <2>2. ASSUME NEW x \in GapOf(r, f, m, j) PROVE x \in GapOf(r, g, m, j)
    <3>1. x \in Nat /\ x \in r /\ \A l \in 0 .. m - 1 : (l < j => First5[f[l]] < x) /\ (j <= l => x < First5[f[l]])
      BY DEF GapOf
    <3>2. First5[f[j - 1]] < x /\ v < First5[f[j - 1]] /\ First5[f[j - 1]] \in Nat
      BY <1>2, <2>0, <3>1
    <3>3. First5[g[q]] < x
      BY <1>1, <1>5, <3>1, <3>2
    <3>4. \A l \in 0 .. m - 1 : (l < j => First5[g[l]] < x) /\ (j <= l => x < First5[g[l]])
      BY <1>4, <1>9, <3>1, <3>3
    <3> QED BY <3>1, <3>4 DEF GapOf
  <2> QED BY <2>1, <2>2
<1>10. \A x : x \in GapOf(r, g, m, q) <=> x \in Span(r, f, m, q) /\ x < v
  BY <1>4, <1>5 DEF GapOf, Span
<1>11. \A x : x \in GapOf(r, g, m, q + 1) <=> x \in Span(r, f, m, q) /\ v < x
  BY <1>4, <1>5 DEF GapOf, Span
<1>12. GapOf(r, g, m, q) = {x \in Span(r, f, m, q) : x < v}
       /\ GapOf(r, g, m, q + 1) = {x \in Span(r, f, m, q) : v < x}
  BY <1>10, <1>11
<1> QED BY <1>6, <1>8, <1>9, <1>12 DEF ReplacedKey, v

\* Key q of p, over leaves, becomes e, and the leaves beside it get other keys.
Rotate(G, p, q, e, lf, ln, rf, rn) ==
  LET S == Span(G.range[p], G.key[p], G.count[p], q)
      l == G.child[p][q]
      r == G.child[p][q + 1]
  IN [live   |-> G.live,
      count  |-> [a \in Nat |-> IF a = l THEN ln ELSE IF a = r THEN rn ELSE G.count[a]],
      key    |-> [a \in Nat |-> IF a = l THEN lf ELSE IF a = r THEN rf
                                ELSE IF a = p THEN Replaced(G.key[p], q, e) ELSE G.key[a]],
      child  |-> G.child,
      height |-> G.height,
      range  |-> [a \in Nat |-> IF a = l THEN {x \in S : x < First5[e]}
                                ELSE IF a = r THEN {x \in S : First5[e] < x} ELSE G.range[a]],
      parent |-> G.parent,
      top    |-> G.top,
      meta   |-> G.meta]

\* The new keys of the two leaves are in order, on both sides of e.
CanRotate(G, p, q, e, lf, ln, rf, rn) ==
  LET S == Span(G.range[p], G.key[p], G.count[p], q)
  IN /\ Forest(G) /\ p \in G.live /\ G.height[p] = 1 /\ q \in 0 .. G.count[p] - 1
     /\ e \in Keys /\ First5[e] \in S
     /\ ln \in Nat \ {0} /\ rn \in Nat \ {0}
     /\ Ascending({x \in S : x < First5[e]}, lf, ln)
     /\ Ascending({x \in S : First5[e] < x}, rf, rn)

\* A key moved through the parent from a leaf to its brother leaves a forest.
LEMMA RotateOK ==
  ASSUME NEW G, NEW p, NEW q, NEW e, NEW lf, NEW ln, NEW rf, NEW rn,
         CanRotate(G, p, q, e, lf, ln, rf, rn),
         NEW H, H = Rotate(G, p, q, e, lf, ln, rf, rn),
         NEW l, l = G.child[p][q], NEW r, r = G.child[p][q + 1]
  PROVE  /\ Forest(H)
         /\ H.live = G.live /\ H.child = G.child /\ H.height = G.height
         /\ H.parent = G.parent /\ H.top = G.top /\ H.meta = G.meta
         /\ l \in G.live /\ r \in G.live /\ l # r /\ l # p /\ r # p
         /\ G.height[l] = 0 /\ G.height[r] = 0
         /\ \A a \in G.live \ {l, r} : H.count[a] = G.count[a]
         /\ \A a \in G.live \ {l, r, p} : H.key[a] = G.key[a]
         /\ H.key[p] = Replaced(G.key[p], q, e)
         /\ H.count[l] = ln /\ H.key[l] = lf /\ H.count[r] = rn /\ H.key[r] = rf
<1> DEFINE S == Span(G.range[p], G.key[p], G.count[p], q)
<1>1. /\ H.live = G.live /\ H.child = G.child /\ H.height = G.height
      /\ H.parent = G.parent /\ H.top = G.top /\ H.meta = G.meta
  BY DEF Rotate
<1>2. Forest(G) /\ p \in G.live /\ G.height[p] = 1 /\ q \in 0 .. G.count[p] - 1
      /\ e \in Keys /\ First5[e] \in S /\ ln \in Nat \ {0} /\ rn \in Nat \ {0}
  BY DEF CanRotate
<1>3. Ascending({x \in S : x < First5[e]}, lf, ln) /\ Ascending({x \in S : First5[e] < x}, rf, rn)
  BY DEF CanRotate
<1>4. \A a \in G.live : /\ a \in Nat /\ a # 0 /\ G.count[a] \in Nat /\ G.height[a] \in Nat
                        /\ G.range[a] \subseteq Nat
  BY <1>2 DEF Forest, Labelled
<1>5. \A a \in Nat : H.count[a] = IF a = l THEN ln ELSE IF a = r THEN rn ELSE G.count[a]
  BY DEF Rotate
<1>6. \A a \in Nat : H.key[a] = IF a = l THEN lf ELSE IF a = r THEN rf
                                ELSE IF a = p THEN Replaced(G.key[p], q, e) ELSE G.key[a]
  BY DEF Rotate
<1>7. \A a \in Nat : H.range[a] = IF a = l THEN {x \in S : x < First5[e]}
                                ELSE IF a = r THEN {x \in S : First5[e] < x} ELSE G.range[a]
  BY DEF Rotate
<1>8. q \in 0 .. G.count[p] /\ q + 1 \in 0 .. G.count[p] /\ q # q + 1 /\ G.count[p] \in Nat /\ q \in Nat
  BY <1>2, <1>4
<1>9. /\ \A j \in 0 .. G.count[p] : ChildOK(G, p, j) /\ IsChild(G, p, j, G.child[p][j])
      /\ \A a, b \in 0 .. G.count[p] : G.child[p][a] = G.child[p][b] => a = b
  BY <1>2 DEF Forest, ChildrenOK, IsChild
<1>10. /\ l \in G.live /\ r \in G.live /\ l # r /\ G.parent[l] = p /\ G.parent[r] = p
       /\ G.height[l] + 1 = 1 /\ G.height[r] + 1 = 1
  BY <1>2, <1>8, <1>9 DEF ChildOK
<1>11. G.height[l] = 0 /\ G.height[r] = 0 /\ l # p /\ r # p
  BY <1>2, <1>4, <1>10
<1>12. /\ \A a \in G.live \ {l, r} : H.count[a] = G.count[a] /\ H.range[a] = G.range[a]
       /\ \A a \in G.live \ {l, r, p} : H.key[a] = G.key[a]
       /\ H.key[p] = Replaced(G.key[p], q, e)
  BY <1>2, <1>4, <1>5, <1>6, <1>7, <1>11, ZenonT(40)
<1>13. /\ H.count[l] = ln /\ H.key[l] = lf /\ H.count[r] = rn /\ H.key[r] = rf
       /\ H.range[l] = {x \in S : x < First5[e]} /\ H.range[r] = {x \in S : First5[e] < x}
  BY <1>4, <1>5, <1>6, <1>7, <1>10
<1>14. Labelled(H)
  <2>1. S \subseteq Nat
    BY <1>2, <1>4 DEF Span
  <2>2. H.range[l] \subseteq Nat /\ H.range[r] \subseteq Nat
    BY <1>13, <2>1
  <2>3. \A a \in G.live : H.range[a] \subseteq Nat
    BY <1>4, <1>12, <2>2
  <2>4. \A a \in G.live : H.count[a] \in Nat
    BY <1>2, <1>4, <1>12, <1>13
  <2> QED BY <1>1, <2>3, <2>4 DEF Labelled, Forest, CanRotate
<1> HIDE DEF S
<1>15. KeysOK(H, l) /\ ChildrenOK(H, l) /\ KeysOK(H, r) /\ ChildrenOK(H, r)
  <2>1. KeysOK(H, l) /\ KeysOK(H, r)
    BY <1>3, <1>13 DEF KeysOK
  <2>2. ChildrenOK(H, l) /\ ChildrenOK(H, r)
    BY <1>1, <1>11 DEF ChildrenOK
  <2> QED BY <2>1, <2>2
<1>16. ASSUME NEW a \in G.live, a # l, a # r, a # p PROVE KeysOK(H, a) /\ ChildrenOK(H, a)
  <2>1. KeysOK(G, a) /\ ChildrenOK(G, a)
    BY <1>2 DEF Forest
  <2>2. H.count[a] = G.count[a] /\ H.key[a] = G.key[a] /\ H.range[a] = G.range[a]
    BY <1>12, <1>16
  <2>3. KeysOK(H, a)
    BY <2>1, <2>2 DEF KeysOK
  <2>4. ASSUME G.height[a] # 0, NEW j \in 0 .. G.count[a] PROVE ChildOK(H, a, j)
    <3>1. ChildOK(G, a, j)
      BY <2>1, <2>4 DEF ChildrenOK
    <3>2. G.child[a][j] # l /\ G.child[a][j] # r
      BY <1>10, <1>16, <3>1 DEF ChildOK
    <3>3. H.range[G.child[a][j]] = G.range[G.child[a][j]]
      BY <1>12, <3>1, <3>2 DEF ChildOK
    <3> QED BY <1>1, <2>2, <3>1, <3>3 DEF ChildOK, Gap
  <2>5. ChildrenOK(H, a)
    BY <1>1, <2>1, <2>2, <2>4 DEF ChildrenOK
  <2> QED BY <2>3, <2>5
<1>17. KeysOK(H, p) /\ ChildrenOK(H, p)
  <2> DEFINE R == G.range[p]
             f == G.key[p]
             m == G.count[p]
             g == H.key[p]
  <2>1. ReplacedKey(R, f, m, q, e, g)
    <3>1. R \subseteq Nat /\ m \in Nat /\ Ascending(R, f, m) /\ q \in 0 .. m - 1 /\ e \in Keys
      BY <1>2, <1>4 DEF Forest, KeysOK
    <3>2. First5[e] \in Span(R, f, m, q) /\ g = Replaced(f, q, e)
      BY <1>2, <1>12 DEF S
    <3> HIDE DEF R, f, m, g
    <3> QED BY <3>1, <3>2, ReplaceKey
  <2>2. H.range[p] = R /\ H.count[p] = m /\ H.height[p] = 1
    BY <1>1, <1>2, <1>11, <1>12
  <2>3. \A j : Gap(H, p, j) = GapOf(R, g, m, j) /\ Gap(G, p, j) = GapOf(R, f, m, j)
    BY <2>2 DEF Gap
  <2>4. S = Span(R, f, m, q)
    BY DEF S
  <2> HIDE DEF R, f, g
  <2>5. KeysOK(H, p)
    BY <2>1, <2>2 DEF KeysOK, ReplacedKey, g
  <2>6. ASSUME NEW j \in 0 .. m PROVE ChildOK(H, p, j)
    <3>0. ChildOK(G, p, j)
      BY <1>9
    <3>1. H.range[G.child[p][j]] = Gap(H, p, j)
      <4>1. CASE j = q
        <5>1. Gap(H, p, j) = {x \in S : x < First5[e]}
          BY <2>1, <2>3, <2>4, <4>1 DEF ReplacedKey
        <5> QED BY <1>13, <4>1, <5>1
      <4>2. CASE j = q + 1
        <5>1. Gap(H, p, j) = {x \in S : First5[e] < x}
          BY <2>1, <2>3, <2>4, <4>2 DEF ReplacedKey
        <5> QED BY <1>13, <4>2, <5>1
      <4>3. CASE j # q /\ j # q + 1
        <5>1. Gap(H, p, j) = Gap(G, p, j)
          <6>1. j < q \/ j > q + 1
            BY <1>8, <4>3
          <6> QED BY <2>1, <2>3, <6>1 DEF ReplacedKey
        <5>2. G.child[p][j] # l /\ G.child[p][j] # r
          BY <1>8, <1>9, <4>3
        <5>3. H.range[G.child[p][j]] = G.range[G.child[p][j]]
          BY <1>12, <3>0, <5>2 DEF ChildOK
        <5> QED BY <3>0, <5>1, <5>3 DEF ChildOK
      <4> QED BY <4>1, <4>2, <4>3
    <3> QED BY <1>1, <3>0, <3>1 DEF ChildOK
  <2>7. ChildrenOK(H, p)
    BY <1>1, <1>9, <2>2, <2>6 DEF ChildrenOK
  <2> QED BY <2>5, <2>7
<1>18. Attached(H)
  <2>1. SUFFICES ASSUME NEW a \in G.live, a # G.meta PROVE \E j \in Nat : IsChild(H, G.parent[a], j, a)
    BY <1>1 DEF Attached
  <2>2. PICK j \in Nat : IsChild(G, G.parent[a], j, a)
    BY <1>2, <2>1 DEF Forest, Attached
  <2>3. G.parent[a] # l /\ G.parent[a] # r
    BY <1>11, <2>2 DEF IsChild
  <2>4. IsChild(H, G.parent[a], j, a)
    BY <1>1, <1>12, <2>2, <2>3 DEF IsChild
  <2> QED BY <2>4
<1>19. Chain(H)
  <2>1. G.height[G.top] \in Nat /\ G.top \in G.live
    BY <1>2, <1>4 DEF Forest, Chain
  <2>2. G.height[G.top] >= 1
    <3>1. G.height[G.top] < G.height[p] => G.count[p] = 0
      BY <1>2 DEF Forest, Chain
    <3> QED BY <1>2, <1>8, <2>1, <3>1
  <2>3. \A a \in G.live : G.height[G.top] <= G.height[a] => a # l /\ a # r
    BY <1>4, <1>11, <2>1, <2>2
  <2>4. \A a \in H.live : H.height[H.top] <= H.height[a] => H.range[a] = Nat
    <3>1. \A a \in G.live : G.height[G.top] <= G.height[a] => G.range[a] = Nat
      BY <1>2 DEF Forest, Chain
    <3> QED BY <1>1, <1>12, <2>3, <3>1
  <2>5. \A a \in H.live : H.height[H.top] < H.height[a] => H.count[a] = 0
    <3>1. \A a \in G.live : G.height[G.top] < G.height[a] => G.count[a] = 0 /\ a # l /\ a # r
      BY <1>2, <1>4, <2>1, <2>3 DEF Forest, Chain
    <3> QED BY <1>1, <1>12, <3>1
  <2>6. \A a \in H.live : H.height[a] < H.height[H.top] => H.count[a] # 0
    <3>1. \A a \in G.live : G.height[a] < G.height[G.top] => G.count[a] # 0
      BY <1>2 DEF Forest, Chain
    <3> QED BY <1>1, <1>2, <1>12, <1>13, <3>1
  <2>7. H.count[H.top] = 0 => H.height[H.top] = 0
    <3>1. G.top # l /\ G.top # r
      BY <1>11, <2>2
    <3>2. G.count[G.top] = 0 => G.height[G.top] = 0
      BY <1>2 DEF Forest, Chain
    <3> QED BY <1>1, <1>12, <2>1, <3>1, <3>2
  <2> QED BY <1>1, <1>2, <2>4, <2>5, <2>6, <2>7 DEF Forest, Chain
<1>20. Forest(H)
  BY <1>1, <1>14, <1>15, <1>16, <1>17, <1>18, <1>19 DEF Forest
<1> QED BY <1>1, <1>10, <1>11, <1>12, <1>13, <1>20

KeysIn(G, A) == {k \in Keys : \E n \in A : \E i \in 0 .. G.count[n] - 1 : G.key[n][i] = k}

\* A change of some nodes that takes key k from them takes it from the content.
LEMMA ContentLess ==
  ASSUME NEW G, Forest(G), NEW H, NEW M, M \subseteq G.live, NEW k \in KeysIn(G, M),
         H.live \subseteq G.live, \A a \in G.live : a \notin M => a \in H.live,
         \A a \in G.live : a \notin M => H.count[a] = G.count[a] /\ H.key[a] = G.key[a],
         KeysIn(H, M \cap H.live) = KeysIn(G, M) \ {k}
  PROVE  Content(H) = Content(G) \ {k}
<1>1. \A a, b \in G.live : \A l \in 0 .. G.count[a] - 1 : \A j \in 0 .. G.count[b] - 1 :
              G.key[a][l] = G.key[b][j] => a = b /\ l = j
  BY ContentFacts
<1>2. ASSUME NEW x \in Content(H) PROVE x \in Content(G) \ {k}
  <2>1. PICK a \in H.live : \E j \in 0 .. H.count[a] - 1 : H.key[a][j] = x
    BY DEF Content
  <2>2. CASE a \in M
    <3>1. x \in KeysIn(H, M \cap H.live)
      BY <2>1, <2>2 DEF KeysIn, Content
    <3> QED BY <3>1 DEF KeysIn, Content
  <2>3. CASE a \notin M
    <3>1. PICK j \in 0 .. G.count[a] - 1 : G.key[a][j] = x
      BY <2>1, <2>3
    <3>2. x # k
      BY <1>1, <2>3, <3>1 DEF KeysIn
    <3> QED BY <3>1, <3>2 DEF Content
  <2> QED BY <2>2, <2>3
<1>3. ASSUME NEW x \in Content(G), x # k PROVE x \in Content(H)
  <2>1. PICK a \in G.live : \E j \in 0 .. G.count[a] - 1 : G.key[a][j] = x
    BY DEF Content
  <2>2. CASE a \in M
    <3>1. x \in KeysIn(G, M)
      BY <2>1, <2>2 DEF KeysIn, Content
    <3>2. x \in KeysIn(H, M \cap H.live)
      BY <1>3, <3>1, Zenon
    <3> QED BY <3>2 DEF KeysIn, Content
  <2>3. CASE a \notin M
    BY <2>1, <2>3 DEF Content
  <2> QED BY <2>2, <2>3
<1> QED BY <1>2, <1>3

\* The leaf n with one key takes the key of its parent p, and p the last key of l,
\* the brother to the left.
BorrowLeft(G, p, i) ==
  LET l == G.child[p][i - 1]
  IN Rotate(G, p, i - 1, G.key[l][G.count[l] - 1], G.key[l], G.count[l] - 1,
            [j \in Nat |-> G.key[p][i - 1]], 1)

\* The same with the first key of the brother to the right.
BorrowRight(G, p, i) ==
  LET r == G.child[p][i + 1]
  IN Rotate(G, p, i, G.key[r][0], [j \in Nat |-> G.key[p][i]], 1,
            Dropped(G.key[r], 0), G.count[r] - 1)

\* The keys of p beside key q, and of the leaves around it, are in order.
LEMMA Beside ==
  ASSUME NEW G, Forest(G), NEW p \in G.live, G.height[p] = 1, NEW q \in 0 .. G.count[p] - 1,
         NEW S, S = Span(G.range[p], G.key[p], G.count[p], q),
         NEW l, l = G.child[p][q], NEW r, r = G.child[p][q + 1]
  PROVE  /\ l \in G.live /\ r \in G.live /\ l # r /\ l # p /\ r # p
         /\ p \in Nat /\ l \in Nat /\ r \in Nat
         /\ G.count[p] \in Nat /\ G.count[l] \in Nat /\ G.count[r] \in Nat
         /\ G.height[l] = 0 /\ G.height[r] = 0
         /\ G.key[p][q] \in Keys /\ First5[G.key[p][q]] \in S
         /\ \A j \in 0 .. G.count[l] - 1 : /\ G.key[l][j] \in Keys /\ First5[G.key[l][j]] \in S
                                          /\ First5[G.key[l][j]] < First5[G.key[p][q]]
         /\ \A j \in 0 .. G.count[r] - 1 : /\ G.key[r][j] \in Keys /\ First5[G.key[r][j]] \in S
                                          /\ First5[G.key[p][q]] < First5[G.key[r][j]]
<1>1. /\ G.count[p] \in Nat /\ G.live \subseteq Nat
      /\ \A a \in G.live : G.count[a] \in Nat /\ G.height[a] \in Nat
  BY DEF Forest, Labelled
<1>2. IsChild(G, p, q, l) /\ IsChild(G, p, q + 1, r) /\ q \in 0 .. G.count[p] /\ q + 1 \in 0 .. G.count[p]
  BY <1>1 DEF IsChild
<1>3. /\ l \in G.live /\ G.height[l] + 1 = 1 /\ l # p
      /\ \A a, j : IsChild(G, a, j, l) => a = p /\ j = q
  BY <1>2, OneParent
<1>4. r \in G.live /\ G.height[r] + 1 = 1 /\ r # p
  BY <1>2, OneParent
<1>5. l # r
  BY <1>1, <1>2, <1>3
<1>6. G.range[l] = Gap(G, p, q) /\ G.range[r] = Gap(G, p, q + 1)
  BY <1>2, OneParent
<1>7. Ascending(G.range[p], G.key[p], G.count[p])
  BY DEF Forest, KeysOK
<1>8. Ascending(G.range[l], G.key[l], G.count[l]) /\ Ascending(G.range[r], G.key[r], G.count[r])
  BY <1>3, <1>4 DEF Forest, KeysOK
<1>9. \A j \in 0 .. G.count[p] - 1 : First5[G.key[p][j]] \in Nat /\ G.key[p][j] \in Keys
  BY <1>7, FiveNat DEF Ascending
<1>10. G.range[p] \subseteq Nat
  BY DEF Forest, Labelled
<1>11. ASSUME NEW x \in Gap(G, p, q) PROVE x \in S /\ x < First5[G.key[p][q]]
  <2>1. x \in G.range[p] /\ x \in Nat
    BY <1>10 DEF Gap, GapOf
  <2> QED BY <1>1, <2>1 DEF Gap, GapOf, Span
<1>12. ASSUME NEW x \in Gap(G, p, q + 1) PROVE x \in S /\ First5[G.key[p][q]] < x
  <2>1. x \in G.range[p] /\ x \in Nat
    BY <1>10 DEF Gap, GapOf
  <2> QED BY <1>1, <2>1 DEF Gap, GapOf, Span
<1>13. First5[G.key[p][q]] \in S
  BY <1>7 DEF Ascending, Span
<1>14. \A j \in 0 .. G.count[l] - 1 : G.key[l][j] \in Keys /\ First5[G.key[l][j]] \in Gap(G, p, q)
  BY <1>6, <1>8, Zenon DEF Ascending
<1>15. \A j \in 0 .. G.count[r] - 1 : G.key[r][j] \in Keys /\ First5[G.key[r][j]] \in Gap(G, p, q + 1)
  BY <1>6, <1>8, Zenon DEF Ascending
<1>16. G.height[l] = 0 /\ G.height[r] = 0
  BY <1>1, <1>3, <1>4, SMTT(20)
<1> QED BY <1>1, <1>3, <1>4, <1>5, <1>9, <1>11, <1>12, <1>13, <1>14, <1>15, <1>16, ZenonT(40)

\* What a move of a key between brothers leaves.
Moved(G, H, p, q, e, l, lf, ln, r, rf, rn) ==
  /\ Forest(H)
  /\ H.live = G.live /\ H.child = G.child /\ H.height = G.height
  /\ H.parent = G.parent /\ H.top = G.top /\ H.meta = G.meta
  /\ \A a \in G.live \ {l, r} : H.count[a] = G.count[a]
  /\ \A a \in G.live \ {l, r, p} : H.key[a] = G.key[a]
  /\ H.key[p] = Replaced(G.key[p], q, e)
  /\ H.count[l] = ln /\ H.key[l] = lf /\ H.count[r] = rn /\ H.key[r] = rf

\* The leaf n after it got a key from its left brother l, which had c keys.
LeftMoved(G, H, p, i, l, n, c) ==
  /\ Moved(G, H, p, i - 1, G.key[l][c - 1], l, G.key[l], c - 1,
           n, [j \in Nat |-> G.key[p][i - 1]], 1)
  /\ Content(H) = Content(G) \ {G.key[n][0]}

\* A leaf that loses its only key gets one from its left brother, through the parent.
LEMMA BorrowLeftOK ==
  ASSUME NEW G, Forest(G), NEW p \in G.live, G.height[p] = 1, NEW i \in 1 .. G.count[p],
         NEW l, l = G.child[p][i - 1], NEW n, n = G.child[p][i],
         NEW c, c = G.count[l], c >= 2, G.count[n] = 1,
         NEW H, H = BorrowLeft(G, p, i)
  PROVE  LeftMoved(G, H, p, i, l, n, c)
<1> DEFINE q == i - 1
           S == Span(G.range[p], G.key[p], G.count[p], q)
           e == G.key[l][c - 1]
           lf == G.key[l]
           ln == c - 1
           rf == [j \in Nat |-> G.key[p][q]]
           rn == 1
<1>1. G.count[p] \in Nat
  BY Zenon DEF Forest, Labelled
<1>2. q \in 0 .. G.count[p] - 1 /\ l = G.child[p][q] /\ n = G.child[p][q + 1]
  BY <1>1
<1> HIDE DEF S, q
<1>3. /\ l \in G.live /\ n \in G.live /\ l # n /\ l # p /\ n # p
      /\ p \in Nat /\ l \in Nat /\ n \in Nat /\ G.count[l] \in Nat
      /\ G.key[p][q] \in Keys /\ First5[G.key[p][q]] \in S
  BY <1>2, Beside DEF S
<1>4. \A j \in 0 .. G.count[l] - 1 : /\ G.key[l][j] \in Keys /\ First5[G.key[l][j]] \in S
                                    /\ First5[G.key[l][j]] < First5[G.key[p][q]]
  BY <1>2, Beside DEF S
<1>5. \A a, b \in 0 .. c - 1 : a < b => First5[G.key[l][a]] < First5[G.key[l][b]]
  BY <1>3, Zenon DEF Forest, KeysOK, Ascending
<1>6. CanRotate(G, p, q, e, lf, ln, rf, rn)
  <2>0. c \in Nat /\ c - 1 \in 0 .. G.count[l] - 1
    BY <1>3
  <2>1. e \in Keys /\ First5[e] \in S /\ First5[e] < First5[G.key[p][q]]
    BY <1>4, <2>0, Zenon
  <2>2. Ascending({x \in S : x < First5[e]}, lf, ln)
    <3>1. ASSUME NEW j \in 0 .. ln - 1 PROVE lf[j] \in Keys /\ First5[lf[j]] \in {x \in S : x < First5[e]}
      <4>1. j \in 0 .. G.count[l] - 1 /\ j < c - 1 /\ j \in 0 .. c - 1
        BY <2>0
      <4>2. First5[lf[j]] < First5[e]
        BY <1>5, <2>0, <4>1, Zenon
      <4> QED BY <1>4, <4>1, <4>2, Zenon
    <3>2. ASSUME NEW a \in 0 .. ln - 1, NEW b \in 0 .. ln - 1, a < b PROVE First5[lf[a]] < First5[lf[b]]
      <4>1. a \in 0 .. c - 1 /\ b \in 0 .. c - 1
        BY <2>0
      <4> QED BY <1>5, <3>2, <4>1, Zenon
    <3> HIDE DEF lf, ln, e
    <3> QED BY <3>1, <3>2, Zenon DEF Ascending
  <2>3. Ascending({x \in S : First5[e] < x}, rf, rn)
    <3>1. \A j \in 0 .. rn - 1 : j = 0 /\ rf[j] = G.key[p][q]
      OBVIOUS
    <3> HIDE DEF rf, rn, e
    <3> QED BY <1>3, <2>1, <3>1 DEF Ascending
  <2>4. ln \in Nat \ {0} /\ rn \in Nat \ {0}
    BY <1>3
  <2> QED BY <1>2, <2>1, <2>2, <2>3, <2>4, Zenon DEF CanRotate, S
<1>7. H = Rotate(G, p, q, e, lf, ln, rf, rn)
  BY Zenon DEF BorrowLeft, q
<1> HIDE DEF e, lf, ln, rf, rn
<1>8. Moved(G, H, p, q, e, l, lf, ln, n, rf, rn)
  BY <1>2, <1>6, <1>7, RotateOK DEF Moved
<1>9. Content(H) = Content(G) \ {G.key[n][0]}
  <2> DEFINE M == {l, n, p}
             k == G.key[n][0]
  <2>2. /\ H.live = G.live /\ H.count[p] = G.count[p]
        /\ H.count[l] = c - 1 /\ H.count[n] = 1 /\ H.key[l] = G.key[l] /\ H.key[n][0] = G.key[p][q]
    BY <1>3, <1>8, Zenon DEF Moved, lf, ln, rf, rn
  <2>21. c = G.count[l] /\ c >= 2 /\ G.count[n] = 1
    OBVIOUS
  <2>3. \A j \in 0 .. G.count[p] - 1 : H.key[p][j] = IF j = q THEN e ELSE G.key[p][j]
    <3>1. H.key[p] = Replaced(G.key[p], q, e)
      BY <1>8, Zenon DEF Moved
    <3> QED BY <1>1, <3>1 DEF Replaced
  <2>4. \A a, b \in G.live : \A m \in 0 .. G.count[a] - 1 : \A j \in 0 .. G.count[b] - 1 :
              G.key[a][m] = G.key[b][j] => a = b /\ m = j
    BY ContentFacts, Zenon
  <2>41. \A a \in {l, p} : \A j \in 0 .. G.count[a] - 1 : G.key[a][j] # k
    <3>1. 0 \in 0 .. G.count[n] - 1
      OBVIOUS
    <3> QED BY <1>3, <2>4, <3>1
  <2>5. k \in Keys
    BY <1>3 DEF Forest, KeysOK, Ascending
  <2>6. ASSUME NEW x \in KeysIn(H, M) PROVE x \in KeysIn(G, M) /\ x # k
    <3>0. x \in Keys
      BY Zenon DEF KeysIn
    <3>1. CASE \E j \in 0 .. H.count[l] - 1 : H.key[l][j] = x
      <4>1. PICK j \in 0 .. G.count[l] - 1 : G.key[l][j] = x
        BY ONLY <1>3, <2>2, <2>21, <3>1
      <4> QED BY <2>41, <3>0, <4>1, Zenon DEF KeysIn
    <3>2. CASE \E j \in 0 .. H.count[n] - 1 : H.key[n][j] = x
      <4>1. q \in 0 .. G.count[p] - 1 /\ G.key[p][q] = x
        BY <1>2, <2>2, <3>2
      <4> QED BY <2>41, <3>0, <4>1, Zenon DEF KeysIn
    <3>3. CASE \E j \in 0 .. H.count[p] - 1 : H.key[p][j] = x
      <4>1. PICK j \in 0 .. G.count[p] - 1 : H.key[p][j] = x
        BY <2>2, <3>3, Zenon
      <4>2. CASE j = q
        <5>1. c - 1 \in 0 .. G.count[l] - 1 /\ G.key[l][c - 1] = x
          BY ONLY <1>3, <2>3, <2>21, <4>1, <4>2 DEF e
        <5> QED BY <2>41, <3>0, <5>1, ZenonT(40) DEF KeysIn
      <4>3. CASE j # q
        <5>1. G.key[p][j] = x
          BY <2>3, <4>1, <4>3, Zenon
        <5> QED BY <2>41, <3>0, <5>1, Zenon DEF KeysIn
      <4> QED BY <4>2, <4>3, Zenon
    <3> QED BY <3>1, <3>2, <3>3, ZenonT(40) DEF KeysIn
  <2>7. ASSUME NEW x \in KeysIn(G, M), x # k PROVE x \in KeysIn(H, M)
    <3>0. x \in Keys
      BY Zenon DEF KeysIn
    <3>1. CASE \E j \in 0 .. G.count[l] - 1 : G.key[l][j] = x
      <4>1. PICK j \in 0 .. G.count[l] - 1 : G.key[l][j] = x
        BY <3>1, Zenon
      <4>2. CASE j = c - 1
        <5>1. q \in 0 .. H.count[p] - 1 /\ H.key[p][q] = x
          BY <1>2, <2>2, <2>3, <4>1, <4>2, Zenon DEF e
        <5> QED BY <3>0, <5>1, Zenon DEF KeysIn
      <4>3. CASE j # c - 1
        <5>1. j \in 0 .. H.count[l] - 1 /\ H.key[l][j] = x
          BY <1>3, <2>2, <4>1, <4>3
        <5> QED BY <3>0, <5>1, Zenon DEF KeysIn
      <4> QED BY <4>2, <4>3, Zenon
    <3>2. CASE \E j \in 0 .. G.count[n] - 1 : G.key[n][j] = x
      BY <2>7, <3>2
    <3>3. CASE \E j \in 0 .. G.count[p] - 1 : G.key[p][j] = x
      <4>1. PICK j \in 0 .. G.count[p] - 1 : G.key[p][j] = x
        BY <3>3, Zenon
      <4>2. CASE j = q
        <5>1. 0 \in 0 .. H.count[n] - 1 /\ H.key[n][0] = x
          BY <2>2, <4>1, <4>2
        <5> QED BY <3>0, <5>1, Zenon DEF KeysIn
      <4>3. CASE j # q
        <5>1. j \in 0 .. H.count[p] - 1 /\ H.key[p][j] = x
          BY <2>2, <2>3, <4>1, <4>3, Zenon
        <5> QED BY <3>0, <5>1, ZenonT(40) DEF KeysIn
      <4> QED BY <4>2, <4>3, Zenon
    <3> QED BY <3>1, <3>2, <3>3, Zenon DEF KeysIn
  <2>8. k \in KeysIn(G, M)
    <3>1. 0 \in 0 .. G.count[n] - 1
      BY ONLY <2>21
    <3>2. n \in M
      BY ONLY Zenon
    <3> QED BY ONLY <2>5, <3>1, <3>2, Zenon DEF KeysIn
  <2>9. M \subseteq G.live
    BY <1>3, Zenon
  <2>10. \A a \in G.live : a \notin M => H.count[a] = G.count[a] /\ H.key[a] = G.key[a]
    BY <1>8, Zenon DEF Moved
  <2>11. M \cap H.live = M
    BY <2>2, <2>9, Zenon
  <2> HIDE DEF M, k
  <2>12. KeysIn(H, M) = KeysIn(G, M) \ {k}
    BY <2>6, <2>7, Zenon
  <2>13. KeysIn(H, M \cap H.live) = KeysIn(G, M) \ {k}
    BY <2>11, <2>12, Zenon
  <2>14. Content(H) = Content(G) \ {k}
    BY <2>2, <2>8, <2>9, <2>10, <2>13, ContentLess
  <2> QED BY <2>14, Zenon DEF k
<1> QED BY <1>8, <1>9, Zenon DEF LeftMoved, q, e, lf, ln, rf, rn

\* The leaf n after it got a key from its right brother r, which had c keys.
RightMoved(G, H, p, q, n, r, c) ==
  /\ Moved(G, H, p, q, G.key[r][0], n, [j \in Nat |-> G.key[p][q]], 1,
           r, Dropped(G.key[r], 0), c - 1)
  /\ Content(H) = Content(G) \ {G.key[n][0]}

\* A leaf that loses its only key gets one from its right brother, through the parent.
LEMMA BorrowRightOK ==
  ASSUME NEW G, Forest(G), NEW p \in G.live, G.height[p] = 1, NEW q \in 0 .. G.count[p] - 1,
         NEW n, n = G.child[p][q], NEW r, r = G.child[p][q + 1],
         NEW c, c = G.count[r], c >= 2, G.count[n] = 1,
         NEW H, H = BorrowRight(G, p, q)
  PROVE  RightMoved(G, H, p, q, n, r, c)
<1> DEFINE S == Span(G.range[p], G.key[p], G.count[p], q)
           e == G.key[r][0]
           lf == [j \in Nat |-> G.key[p][q]]
           ln == 1
           rf == Dropped(G.key[r], 0)
           rn == c - 1
<1>1. G.count[p] \in Nat
  BY Zenon DEF Forest, Labelled
<1> HIDE DEF S
<1>3. /\ r \in G.live /\ n \in G.live /\ r # n /\ r # p /\ n # p
      /\ p \in Nat /\ r \in Nat /\ n \in Nat /\ G.count[r] \in Nat
      /\ G.key[p][q] \in Keys /\ First5[G.key[p][q]] \in S
  BY Beside DEF S
<1>4. \A j \in 0 .. G.count[r] - 1 : /\ G.key[r][j] \in Keys /\ First5[G.key[r][j]] \in S
                                    /\ First5[G.key[p][q]] < First5[G.key[r][j]]
  BY Beside DEF S
<1>5. \A a, b \in 0 .. c - 1 : a < b => First5[G.key[r][a]] < First5[G.key[r][b]]
  BY <1>3, Zenon DEF Forest, KeysOK, Ascending
<1>51. \A j \in 0 .. c - 2 : rf[j] = G.key[r][j + 1]
  BY <1>3 DEF Dropped
<1>6. CanRotate(G, p, q, e, lf, ln, rf, rn)
  <2>0. c \in Nat /\ 0 \in 0 .. G.count[r] - 1 /\ 0 \in 0 .. c - 1
    BY <1>3
  <2>1. e \in Keys /\ First5[e] \in S /\ First5[G.key[p][q]] < First5[e]
    BY <1>4, <2>0, Zenon
  <2>2. Ascending({x \in S : x < First5[e]}, lf, ln)
    <3>1. \A j \in 0 .. ln - 1 : j = 0 /\ lf[j] = G.key[p][q]
      OBVIOUS
    <3> HIDE DEF lf, ln, e
    <3> QED BY <1>3, <2>1, <3>1 DEF Ascending
  <2>3. Ascending({x \in S : First5[e] < x}, rf, rn)
    <3>1. ASSUME NEW j \in 0 .. rn - 1 PROVE rf[j] \in Keys /\ First5[rf[j]] \in {x \in S : First5[e] < x}
      <4>1. j + 1 \in 0 .. G.count[r] - 1 /\ 0 < j + 1 /\ j + 1 \in 0 .. c - 1 /\ rf[j] = G.key[r][j + 1]
        BY <1>51, <2>0
      <4>2. First5[e] < First5[rf[j]]
        BY <1>5, <2>0, <4>1, Zenon
      <4> HIDE DEF rf, e
      <4> QED BY <1>4, <4>1, <4>2, Zenon
    <3>2. ASSUME NEW a \in 0 .. rn - 1, NEW b \in 0 .. rn - 1, a < b PROVE First5[rf[a]] < First5[rf[b]]
      <4>1. /\ a + 1 \in 0 .. c - 1 /\ b + 1 \in 0 .. c - 1 /\ a + 1 < b + 1
            /\ rf[a] = G.key[r][a + 1] /\ rf[b] = G.key[r][b + 1]
        BY <1>51, <2>0, <3>2
      <4> HIDE DEF rf
      <4> QED BY <1>5, <4>1, Zenon
    <3> HIDE DEF rf, rn, e
    <3> QED BY <3>1, <3>2, Zenon DEF Ascending
  <2>4. ln \in Nat \ {0} /\ rn \in Nat \ {0}
    BY <1>3
  <2> QED BY <2>1, <2>2, <2>3, <2>4, Zenon DEF CanRotate, S
<1>7. H = Rotate(G, p, q, e, lf, ln, rf, rn)
  BY Zenon DEF BorrowRight
<1> HIDE DEF e, lf, ln, rf, rn
<1>8. Moved(G, H, p, q, e, n, lf, ln, r, rf, rn)
  BY <1>6, <1>7, RotateOK DEF Moved
<1>9. Content(H) = Content(G) \ {G.key[n][0]}
  <2> DEFINE M == {r, n, p}
             k == G.key[n][0]
  <2>2. /\ H.live = G.live /\ H.count[p] = G.count[p]
        /\ H.count[r] = c - 1 /\ H.count[n] = 1 /\ H.key[n][0] = G.key[p][q]
    BY <1>3, <1>8, Zenon DEF Moved, lf, ln, rn
  <2>21. \A j \in 0 .. c - 2 : H.key[r][j] = G.key[r][j + 1]
    BY <1>51, <1>8, Zenon DEF Moved
  <2>22. c = G.count[r] /\ c >= 2 /\ G.count[n] = 1
    OBVIOUS
  <2>3. \A j \in 0 .. G.count[p] - 1 : H.key[p][j] = IF j = q THEN e ELSE G.key[p][j]
    <3>1. H.key[p] = Replaced(G.key[p], q, e)
      BY <1>8, Zenon DEF Moved
    <3> QED BY <1>1, <3>1 DEF Replaced
  <2>4. \A a, b \in G.live : \A m \in 0 .. G.count[a] - 1 : \A j \in 0 .. G.count[b] - 1 :
              G.key[a][m] = G.key[b][j] => a = b /\ m = j
    BY ContentFacts, Zenon
  <2>41. \A a \in {r, p} : \A j \in 0 .. G.count[a] - 1 : G.key[a][j] # k
    <3>1. 0 \in 0 .. G.count[n] - 1
      OBVIOUS
    <3> QED BY <1>3, <2>4, <3>1
  <2>5. k \in Keys
    BY <1>3 DEF Forest, KeysOK, Ascending
  <2>6. ASSUME NEW x \in KeysIn(H, M) PROVE x \in KeysIn(G, M) /\ x # k
    <3>0. x \in Keys
      BY Zenon DEF KeysIn
    <3>1. CASE \E j \in 0 .. H.count[r] - 1 : H.key[r][j] = x
      <4>1. PICK j \in 0 .. H.count[r] - 1 : H.key[r][j] = x
        BY <3>1, Zenon
      <4>2. j + 1 \in 0 .. G.count[r] - 1 /\ G.key[r][j + 1] = x
        BY ONLY <1>3, <2>2, <2>21, <2>22, <4>1
      <4> QED BY <2>41, <3>0, <4>2, Zenon DEF KeysIn
    <3>2. CASE \E j \in 0 .. H.count[n] - 1 : H.key[n][j] = x
      <4>1. q \in 0 .. G.count[p] - 1 /\ G.key[p][q] = x
        BY <2>2, <3>2
      <4> QED BY <2>41, <3>0, <4>1, Zenon DEF KeysIn
    <3>3. CASE \E j \in 0 .. H.count[p] - 1 : H.key[p][j] = x
      <4>1. PICK j \in 0 .. G.count[p] - 1 : H.key[p][j] = x
        BY <2>2, <3>3, Zenon
      <4>2. CASE j = q
        <5>1. 0 \in 0 .. G.count[r] - 1 /\ G.key[r][0] = x
          BY <1>3, <2>3, <4>1, <4>2 DEF e
        <5> QED BY <2>41, <3>0, <5>1, Zenon DEF KeysIn
      <4>3. CASE j # q
        <5>1. G.key[p][j] = x
          BY <2>3, <4>1, <4>3, Zenon
        <5> QED BY <2>41, <3>0, <5>1, Zenon DEF KeysIn
      <4> QED BY <4>2, <4>3, Zenon
    <3> QED BY <3>1, <3>2, <3>3, ZenonT(40) DEF KeysIn
  <2>7. ASSUME NEW x \in KeysIn(G, M), x # k PROVE x \in KeysIn(H, M)
    <3>0. x \in Keys
      BY Zenon DEF KeysIn
    <3>1. CASE \E j \in 0 .. G.count[r] - 1 : G.key[r][j] = x
      <4>1. PICK j \in 0 .. G.count[r] - 1 : G.key[r][j] = x
        BY <3>1, Zenon
      <4>2. CASE j = 0
        <5>1. q \in 0 .. H.count[p] - 1 /\ H.key[p][q] = x
          BY <2>2, <2>3, <4>1, <4>2, Zenon DEF e
        <5> QED BY <3>0, <5>1, Zenon DEF KeysIn
      <4>3. CASE j # 0
        <5>1. j - 1 \in 0 .. H.count[r] - 1 /\ H.key[r][j - 1] = x
          BY ONLY <1>3, <2>2, <2>21, <2>22, <4>1, <4>3
        <5> QED BY <3>0, <5>1, Zenon DEF KeysIn
      <4> QED BY <4>2, <4>3, Zenon
    <3>2. CASE \E j \in 0 .. G.count[n] - 1 : G.key[n][j] = x
      BY <2>7, <3>2
    <3>3. CASE \E j \in 0 .. G.count[p] - 1 : G.key[p][j] = x
      <4>1. PICK j \in 0 .. G.count[p] - 1 : G.key[p][j] = x
        BY <3>3, Zenon
      <4>2. CASE j = q
        <5>1. 0 \in 0 .. H.count[n] - 1 /\ H.key[n][0] = x
          BY <2>2, <4>1, <4>2
        <5> QED BY <3>0, <5>1, Zenon DEF KeysIn
      <4>3. CASE j # q
        <5>1. j \in 0 .. H.count[p] - 1 /\ H.key[p][j] = x
          BY <2>2, <2>3, <4>1, <4>3, Zenon
        <5> QED BY <3>0, <5>1, Zenon DEF KeysIn
      <4> QED BY <4>2, <4>3, Zenon
    <3> QED BY <3>1, <3>2, <3>3, ZenonT(40) DEF KeysIn
  <2>8. k \in KeysIn(G, M)
    <3>1. 0 \in 0 .. G.count[n] - 1
      BY ONLY <2>22
    <3>2. n \in M
      BY ONLY Zenon
    <3> QED BY ONLY <2>5, <3>1, <3>2, Zenon DEF KeysIn
  <2>9. M \subseteq G.live
    BY <1>3, Zenon
  <2>10. \A a \in G.live : a \notin M => H.count[a] = G.count[a] /\ H.key[a] = G.key[a]
    BY <1>8, Zenon DEF Moved
  <2>11. M \cap H.live = M
    BY <2>2, <2>9, Zenon
  <2> HIDE DEF M, k
  <2>12. KeysIn(H, M) = KeysIn(G, M) \ {k}
    BY <2>6, <2>7, Zenon
  <2>13. KeysIn(H, M \cap H.live) = KeysIn(G, M) \ {k}
    BY <2>11, <2>12, Zenon
  <2>14. Content(H) = Content(G) \ {k}
    BY <2>2, <2>8, <2>9, <2>10, <2>13, ContentLess
  <2> QED BY <2>14, Zenon DEF k
<1> QED BY <1>8, <1>9, Zenon DEF RightMoved, e, lf, ln, rf, rn

\* The top p with one key and the leaves t and n below: t takes the key and becomes
\* the top, n is dropped.
MergeTop(G, p, t, n, f) ==
  [live   |-> G.live \ {n},
   count  |-> [a \in Nat |-> IF a = p THEN 0 ELSE IF a = t THEN 2 ELSE G.count[a]],
   key    |-> [a \in Nat |-> IF a = t THEN f ELSE G.key[a]],
   child  |-> [a \in Nat |-> IF a = p THEN [j \in Nat |-> t] ELSE G.child[a]],
   height |-> G.height,
   range  |-> [a \in Nat |-> IF a = t THEN Nat ELSE G.range[a]],
   parent |-> G.parent,
   top    |-> t,
   meta   |-> G.meta]

CanMergeTop(G, p, t, n, f) ==
  /\ Forest(G) /\ p = G.top /\ G.height[p] = 1 /\ G.count[p] = 1
  /\ G.count[t] = 1 /\ G.count[n] = 1
  /\ \/ /\ t = G.child[p][0] /\ n = G.child[p][1]
        /\ f[0] = G.key[t][0] /\ f[1] = G.key[p][0]
     \/ /\ t = G.child[p][1] /\ n = G.child[p][0]
        /\ f[0] = G.key[p][0] /\ f[1] = G.key[t][0]

TopMerged(G, H, p, t, n, f) ==
  /\ p \in G.live /\ t \in G.live /\ n \in G.live /\ t # n /\ t # p /\ n # p
  /\ G.height[t] = 0 /\ G.height[n] = 0 /\ G.height[p] = 1
  /\ H.live = G.live \ {n} /\ H.height = G.height /\ H.parent = G.parent
  /\ H.top = t /\ H.meta = G.meta
  /\ H.count[p] = 0 /\ H.count[t] = 2 /\ H.key[t] = f
  /\ \A j \in Nat : H.child[p][j] = t
  /\ \A a \in G.live \ {p, t} : H.count[a] = G.count[a]
  /\ \A a \in G.live \ {t} : H.key[a] = G.key[a]
  /\ \A a \in G.live \ {p} : H.child[a] = G.child[a]
  /\ Forest(H) /\ Content(H) = Content(G) \ {G.key[n][0]}

\* A root with one key and two leaves with one key each become one leaf, which is the
\* new top.
LEMMA MergeTopOK ==
  ASSUME NEW G, NEW p, NEW t, NEW n, NEW f, CanMergeTop(G, p, t, n, f),
         NEW H, H = MergeTop(G, p, t, n, f)
  PROVE  TopMerged(G, H, p, t, n, f)
<1>1. /\ Forest(G) /\ p = G.top /\ p \in G.live /\ G.height[p] = 1 /\ G.count[p] = 1
      /\ G.count[t] = 1 /\ G.count[n] = 1 /\ G.live \subseteq Nat \ {0}
      /\ \A a \in G.live : G.count[a] \in Nat /\ G.height[a] \in Nat /\ G.range[a] \subseteq Nat
  BY DEF CanMergeTop, Forest, Chain, Labelled
<1>2. ASSUME NEW l, l = G.child[p][0], NEW r, r = G.child[p][1]
      PROVE  /\ l \in G.live /\ r \in G.live /\ l # r /\ l # p /\ r # p
             /\ G.height[l] = 0 /\ G.height[r] = 0
             /\ G.key[p][0] \in Keys
             /\ \A j \in 0 .. G.count[l] - 1 : /\ G.key[l][j] \in Keys
                                              /\ First5[G.key[l][j]] < First5[G.key[p][0]]
             /\ \A j \in 0 .. G.count[r] - 1 : /\ G.key[r][j] \in Keys
                                              /\ First5[G.key[p][0]] < First5[G.key[r][j]]
  <2> DEFINE q == 0
  <2>1. q \in 0 .. G.count[p] - 1 /\ l = G.child[p][q] /\ r = G.child[p][q + 1]
    BY <1>1, <1>2, SMTT(20)
  <2>2. /\ l \in G.live /\ r \in G.live /\ l # r /\ l # p /\ r # p
        /\ G.height[l] = 0 /\ G.height[r] = 0
        /\ G.key[p][q] \in Keys
        /\ \A j \in 0 .. G.count[l] - 1 : /\ G.key[l][j] \in Keys
                                         /\ First5[G.key[l][j]] < First5[G.key[p][q]]
        /\ \A j \in 0 .. G.count[r] - 1 : /\ G.key[r][j] \in Keys
                                         /\ First5[G.key[p][q]] < First5[G.key[r][j]]
    <3> DEFINE S == Span(G.range[p], G.key[p], G.count[p], q)
    <3>1. S = Span(G.range[p], G.key[p], G.count[p], q)
      OBVIOUS
    <3>2. Forest(G) /\ p \in G.live /\ G.height[p] = 1
      BY <1>1, Zenon
    <3> HIDE DEF q, S
    <3> QED BY ONLY <2>1, <3>1, <3>2, Beside
  <2> QED BY <2>2
<1>3. /\ t \in G.live /\ n \in G.live /\ t # n /\ t # p /\ n # p
      /\ G.height[t] = 0 /\ G.height[n] = 0
  BY <1>2 DEF CanMergeTop
<1>4. f[0] \in Keys /\ f[1] \in Keys /\ First5[f[0]] < First5[f[1]]
  BY <1>1, <1>2 DEF CanMergeTop
<1>5. \A j \in {0, 1} : f[j] = G.key[t][0] \/ f[j] = G.key[p][0]
  BY DEF CanMergeTop
<1>6. \E j \in {0, 1} : f[j] = G.key[t][0]
  BY DEF CanMergeTop
<1>7. \E j \in {0, 1} : f[j] = G.key[p][0]
  BY DEF CanMergeTop
<1>8. /\ H.live = G.live \ {n} /\ H.height = G.height /\ H.parent = G.parent
      /\ H.top = t /\ H.meta = G.meta
  BY DEF MergeTop
<1>9. H.count[p] = 0 /\ H.count[t] = 2 /\ \A a \in G.live \ {p, t} : H.count[a] = G.count[a]
  BY <1>1, <1>3 DEF MergeTop
<1>10. H.key[t] = f /\ \A a \in G.live \ {t} : H.key[a] = G.key[a]
  BY <1>1, <1>3 DEF MergeTop
<1>11. (\A j \in Nat : H.child[p][j] = t) /\ \A a \in G.live \ {p} : H.child[a] = G.child[a]
  BY <1>1, <1>3 DEF MergeTop
<1>12. H.range[t] = Nat /\ \A a \in G.live \ {t} : H.range[a] = G.range[a]
  BY <1>1, <1>3 DEF MergeTop
<1>13. \A a, b \in G.live : G.height[a] = G.height[b] /\ 1 <= G.height[b] => a = b
  BY <1>1 DEF Forest, Chain
<1>14. \A a, i : IsChild(G, p, i, a) => a = t \/ a = n
  BY <1>1 DEF IsChild, CanMergeTop
<1>15. \A a \in G.live : G.parent[a] = p /\ a # G.meta => a = t \/ a = n
  BY <1>1, <1>14 DEF Forest, Attached
<1>16. \A a \in G.live : G.height[a] = 0 => a = t \/ a = n
  <2>1. SUFFICES ASSUME NEW a \in G.live, G.height[a] = 0 PROVE a = t \/ a = n
    OBVIOUS
  <2>2. a # G.meta
    BY <1>1, <2>1 DEF Forest, Chain
  <2>3. PICK i \in Nat : IsChild(G, G.parent[a], i, a)
    BY <1>1, <2>2 DEF Forest, Attached
  <2>4. G.height[G.parent[a]] = 1 /\ G.parent[a] \in G.live
    BY <1>1, <2>1, <2>3, OneParent DEF IsChild
  <2>5. G.parent[a] = p
    BY <1>1, <1>13, <2>4
  <2> QED BY <1>15, <2>2, <2>5
<1>17. G.meta # t /\ G.meta # n
  BY <1>1, <1>3 DEF Forest, Chain
<1>18. \A a \in G.live : 1 <= G.height[a] => G.range[a] = Nat
  BY <1>1 DEF Forest, Chain
<1>19. \A a \in G.live : 1 < G.height[a] => G.count[a] = 0
  BY <1>1 DEF Forest, Chain
<1>20. Labelled(H)
  BY <1>1, <1>3, <1>8, <1>9, <1>12 DEF Labelled
<1>21. KeysOK(H, t) /\ ChildrenOK(H, t)
  <2>1. KeysOK(H, t)
    BY <1>4, <1>9, <1>10, <1>12, FiveNat DEF KeysOK, Ascending
  <2> QED BY <1>3, <1>8, <2>1 DEF ChildrenOK
<1>22. KeysOK(H, p) /\ ChildrenOK(H, p)
  <2>1. KeysOK(H, p)
    BY <1>9 DEF KeysOK, Ascending
  <2>2. Gap(H, p, 0) = Nat
    <3>1. H.range[p] = Nat /\ H.count[p] = 0
      BY <1>1, <1>3, <1>9, <1>12, <1>18
    <3> QED BY <3>1 DEF Gap, GapOf
  <2>3. G.parent[t] = p
    <3>1. IsChild(G, p, 0, G.child[p][0]) /\ IsChild(G, p, 1, G.child[p][1])
      BY <1>1 DEF IsChild
    <3> QED BY <1>1, <3>1, OneParent DEF CanMergeTop
  <2>4. ChildOK(H, p, 0)
    <3>1. H.child[p][0] = t
      BY <1>11
    <3>2. t \in H.live /\ H.height[t] + 1 = H.height[p] /\ H.parent[t] = p
      BY <1>1, <1>3, <1>8, <2>3
    <3>3. H.range[t] = Gap(H, p, 0)
      BY <1>12, <2>2
    <3> QED BY <3>1, <3>2, <3>3 DEF ChildOK
  <2>5. \A i, j \in 0 .. H.count[p] : i = 0 /\ j = 0
    BY <1>9
  <2> QED BY <2>1, <2>4, <2>5 DEF ChildrenOK
<1>23. ASSUME NEW a \in H.live, a # t, a # p PROVE KeysOK(H, a) /\ ChildrenOK(H, a)
  <2>1. a \in G.live /\ a # n /\ G.height[a] # 0
    BY <1>8, <1>16, <1>23
  <2>2. /\ H.count[a] = G.count[a] /\ H.key[a] = G.key[a] /\ H.child[a] = G.child[a]
        /\ H.range[a] = G.range[a] /\ H.height[a] = G.height[a]
    BY <1>8, <1>9, <1>10, <1>11, <1>12, <1>23, <2>1
  <2>3. KeysOK(G, a) /\ ChildrenOK(G, a)
    BY <1>1, <2>1 DEF Forest
  <2>4. KeysOK(H, a)
    BY <2>2, <2>3 DEF KeysOK
  <2>5. ASSUME NEW i \in 0 .. G.count[a] PROVE ChildOK(H, a, i)
    <3>1. ChildOK(G, a, i) /\ IsChild(G, a, i, G.child[a][i])
      BY <2>1, <2>3 DEF ChildrenOK, IsChild
    <3>2. G.height[a] > 1
      BY <1>1, <1>13, <1>23, <2>1
    <3>3. G.child[a][i] \in G.live /\ G.height[G.child[a][i]] # 0
      BY <1>1, <2>1, <3>1, <3>2 DEF ChildOK
    <3>4. G.child[a][i] # t /\ G.child[a][i] # n
      BY <1>3, <3>3
    <3>5. Gap(H, a, i) = Gap(G, a, i)
      BY <2>2 DEF Gap
    <3> QED BY <1>8, <1>12, <2>2, <3>1, <3>3, <3>4, <3>5 DEF ChildOK
  <2>6. ChildrenOK(H, a)
    BY <2>2, <2>3, <2>5 DEF ChildrenOK
  <2> QED BY <2>4, <2>6
<1>24. Attached(H)
  <2>1. SUFFICES ASSUME NEW a \in H.live, a # G.meta PROVE \E j \in Nat : IsChild(H, H.parent[a], j, a)
    BY <1>8 DEF Attached
  <2>2. PICK j \in Nat : IsChild(G, G.parent[a], j, a)
    BY <1>1, <1>8, <2>1 DEF Forest, Attached
  <2>3. CASE G.parent[a] = p
    <3>1. a = t
      BY <1>8, <1>15, <2>1, <2>3
    <3>2. IsChild(H, p, 0, t)
      BY <1>1, <1>3, <1>8, <1>9, <1>11 DEF IsChild
    <3> QED BY <1>8, <2>3, <3>1, <3>2
  <2>4. CASE G.parent[a] # p
    <3>1. G.parent[a] \in G.live /\ G.height[G.parent[a]] # 0
      BY <2>2 DEF IsChild
    <3>2. G.parent[a] # t /\ G.parent[a] # n
      BY <1>3, <3>1
    <3> QED BY <1>8, <1>9, <1>11, <2>2, <2>4, <3>1, <3>2 DEF IsChild
  <2> QED BY <2>3, <2>4
<1>25. Chain(H)
  <2>1. H.meta \in H.live /\ H.top \in H.live
    BY <1>1, <1>3, <1>8, <1>17 DEF Forest, Chain
  <2>2. \A a \in H.live : H.height[a] <= H.height[H.meta]
    BY <1>1, <1>8 DEF Forest, Chain
  <2>3. H.height[H.top] = 0
    BY <1>3, <1>8
  <2>4. \A a \in H.live : H.height[a] \in Nat /\ (H.height[a] = 0 => a = t)
    BY <1>1, <1>8, <1>16
  <2>5. \A a, b \in H.live : H.height[a] = H.height[b] => a = b
    <3>1. SUFFICES ASSUME NEW a \in H.live, NEW b \in H.live, H.height[a] = H.height[b] PROVE a = b
      OBVIOUS
    <3>2. CASE H.height[b] = 0
      BY <2>4, <3>1, <3>2
    <3>3. CASE H.height[b] # 0
      BY <1>8, <1>13, <2>4, <3>1, <3>3
    <3> QED BY <3>2, <3>3
  <2>6. \A a \in H.live : H.range[a] = Nat
    BY <1>1, <1>8, <1>12, <1>16, <1>18
  <2>7. \A a \in H.live : 0 < H.height[a] => H.count[a] = 0
    <3>1. \A a \in G.live : G.height[a] = 1 => a = p
      BY <1>1, <1>13
    <3> QED BY <1>1, <1>3, <1>8, <1>9, <1>19, <3>1
  <2>8. H.count[H.top] # 0
    BY <1>8, <1>9
  <2>9. \A a \in H.live : ~(H.height[a] < 0)
    BY <2>4
  <2> QED BY <2>1, <2>2, <2>3, <2>5, <2>6, <2>7, <2>8, <2>9 DEF Chain
<1>26. Forest(H)
  BY <1>20, <1>21, <1>22, <1>23, <1>24, <1>25 DEF Forest
<1>27. Content(H) = Content(G) \ {G.key[n][0]}
  <2> DEFINE M == {p, t, n}
             k == G.key[n][0]
  <2>1. \A a, b \in G.live : \A m \in 0 .. G.count[a] - 1 : \A j \in 0 .. G.count[b] - 1 :
              G.key[a][m] = G.key[b][j] => a = b /\ m = j
    BY <1>1, ContentFacts
  <2>2. G.key[t][0] # k /\ G.key[p][0] # k
    <3>1. 0 \in 0 .. G.count[n] - 1 /\ 0 \in 0 .. G.count[t] - 1 /\ 0 \in 0 .. G.count[p] - 1
      BY <1>1
    <3> QED BY <1>1, <1>3, <2>1, <3>1
  <2>3. k \in Keys /\ G.key[t][0] \in Keys /\ G.key[p][0] \in Keys
    BY <1>1, <1>3 DEF Forest, KeysOK, Ascending
  <2>4. M \cap H.live = {p, t}
    BY <1>1, <1>3, <1>8
  <2>5. KeysIn(G, M) = {G.key[p][0], G.key[t][0], k}
    BY <1>1, <2>3 DEF KeysIn
  <2>6. KeysIn(H, {p, t}) = {G.key[p][0], G.key[t][0]}
    <3>1. \A x \in KeysIn(H, {p, t}) : x = f[0] \/ x = f[1]
      BY <1>9, <1>10 DEF KeysIn
    <3>2. f[0] \in KeysIn(H, {p, t}) /\ f[1] \in KeysIn(H, {p, t})
      BY <1>4, <1>9, <1>10 DEF KeysIn
    <3> QED BY <1>5, <1>6, <1>7, <3>1, <3>2
  <2>7. KeysIn(H, M \cap H.live) = KeysIn(G, M) \ {k} /\ k \in KeysIn(G, M)
    BY <2>2, <2>4, <2>5, <2>6
  <2>8. M \subseteq G.live /\ H.live \subseteq G.live /\ \A a \in G.live : a \notin M => a \in H.live
    BY <1>1, <1>3, <1>8
  <2>9. \A a \in G.live : a \notin M => H.count[a] = G.count[a] /\ H.key[a] = G.key[a]
    BY <1>9, <1>10
  <2> HIDE DEF M, k
  <2>10. Content(H) = Content(G) \ {k}
    BY <1>1, <2>7, <2>8, <2>9, ContentLess
  <2> QED BY <2>10 DEF k
<1> QED BY <1>1, <1>3, <1>8, <1>9, <1>10, <1>11, <1>26, <1>27 DEF TopMerged

-----------------------------------------------------------------------------
(* Arrays                                                                  *)

Arr(s) == [n : Nat, at : [0 .. s -> Nat]]

\* k at the end of a sorted array, and where it belongs.
NearlySorted(a, m, k, pos) ==
  /\ m \in Nat /\ a.n = m + 1 /\ a.at[m] = k /\ pos \in 0 .. m
  /\ \A i, j \in 0 .. m - 1 : i < j => a.at[i] < a.at[j]
  /\ \A j \in 0 .. m - 1 : (j < pos => a.at[j] < k) /\ (pos <= j => k < a.at[j])

\* There are i numbers below i.
LEMMA Below0 ==
  ASSUME NEW i \in Nat
  PROVE  IsFiniteSet(0 .. i - 1) /\ Cardinality(0 .. i - 1) = i
<1> DEFINE b == i - 1
<1>1. 0 \in Int /\ b \in Int
  OBVIOUS
<1>2. IsFiniteSet(0 .. b) /\ Cardinality(0 .. b) = IF 0 > b THEN 0 ELSE b - 0 + 1
  <2> HIDE DEF b
  <2> QED BY <1>1, FS_Interval
<1> QED BY <1>2

\* The rank of every element of an array that is sorted but for the last one.
LEMMA Ranks ==
  ASSUME NEW s \in Nat, NEW a \in Arr(s), NEW m, m <= s, NEW k \in Nat, NEW pos,
         NearlySorted(a, m, k, pos)
  PROVE  \A i \in 0 .. m : Cardinality(Before(a, i)) = IF i = m THEN pos
                                                       ELSE IF i < pos THEN i ELSE i + 1
<1>1. /\ m \in Nat /\ a.n = m + 1 /\ a.at[m] = k /\ pos \in 0 .. m
      /\ \A j \in 0 .. m : a.at[j] \in Nat
  BY DEF NearlySorted, Arr
<1>2. \A i, j \in 0 .. m - 1 : i < j => a.at[i] < a.at[j]
  BY DEF NearlySorted
<1>3. \A j \in 0 .. m - 1 : (j < pos => a.at[j] < k) /\ (pos <= j => k < a.at[j])
  BY DEF NearlySorted
<1>4. SUFFICES ASSUME NEW i \in 0 .. m
               PROVE Cardinality(Before(a, i)) = IF i = m THEN pos ELSE IF i < pos THEN i ELSE i + 1
  OBVIOUS
<1>5. Before(a, i) = {j \in 0 .. m : a.at[j] < a.at[i] \/ (a.at[j] = a.at[i] /\ j < i)}
  BY <1>1 DEF Before, At
<1>6. CASE i = m
  <2>1. Before(a, i) = 0 .. pos - 1
    BY <1>1, <1>3, <1>5, <1>6
  <2> QED BY <1>1, <1>6, <2>1, Below0
<1>7. CASE i < m /\ i < pos
  <2>1. ASSUME NEW j \in 0 .. m PROVE j \in Before(a, i) <=> j < i
    <3>1. CASE j = m
      BY <1>1, <1>3, <1>5, <1>7, <3>1
    <3>2. CASE j < m
      BY <1>1, <1>2, <1>5, <1>7, <3>2
    <3> QED BY <1>1, <3>1, <3>2
  <2>2. Before(a, i) = 0 .. i - 1
    BY <1>1, <1>5, <2>1
  <2> QED BY <1>1, <1>7, <2>2, Below0
<1>8. CASE i < m /\ ~(i < pos)
  <2>1. ASSUME NEW j \in 0 .. m PROVE j \in Before(a, i) <=> j < i \/ j = m
    <3>1. CASE j = m
      BY <1>1, <1>3, <1>5, <1>8, <3>1
    <3>2. CASE j < m
      BY <1>1, <1>2, <1>5, <1>8, <3>2
    <3> QED BY <1>1, <3>1, <3>2
  <2>2. Before(a, i) = (0 .. i - 1) \cup {m}
    BY <1>1, <1>5, <2>1
  <2>3. m \notin 0 .. i - 1 /\ i \in Nat
    BY <1>1, <1>8
  <2>4. IsFiniteSet(0 .. i - 1) /\ Cardinality(0 .. i - 1) = i
    BY <2>3, Below0
  <2>5. Cardinality(Before(a, i)) = i + 1
    BY <2>2, <2>3, <2>4, FS_AddElement
  <2> QED BY <1>1, <1>8, <2>5
<1> QED BY <1>1, <1>6, <1>7, <1>8

\* SortKey brings a key from the end of a sorted array to its place.
LEMMA Sorted ==
  ASSUME NEW s \in Nat, NEW a \in Arr(s), NEW m, m <= s, NEW k \in Nat, NEW pos,
         NearlySorted(a, m, k, pos), NEW b, b = SortKey(a)
  PROVE  /\ b \in Arr(s) /\ b.n = m + 1 /\ PositionIn(b, k) = pos
         /\ \A j \in 0 .. m : b.at[j] = IF j < pos THEN a.at[j] ELSE IF j = pos THEN k ELSE a.at[j - 1]
         /\ \A j \in 0 .. s : j > m => b.at[j] = a.at[j]
<1> DEFINE R(j) == CHOOSE i \in 0 .. a.n - 1 : Cardinality(Before(a, i)) = j
           v == [j \in 0 .. s |-> IF j < a.n THEN a.at[R(j)] ELSE a.at[j]]
<1>1. /\ m \in Nat /\ a.n = m + 1 /\ a.at[m] = k /\ pos \in 0 .. m
      /\ \A j \in 0 .. s : a.at[j] \in Nat
  BY DEF NearlySorted, Arr
<1>2. \A i \in 0 .. m : Cardinality(Before(a, i)) = IF i = m THEN pos ELSE IF i < pos THEN i ELSE i + 1
  BY Ranks
<1>3. \A j \in 0 .. m : R(j) = IF j < pos THEN j ELSE IF j = pos THEN m ELSE j - 1
  <2>1. SUFFICES ASSUME NEW j \in 0 .. m PROVE R(j) = IF j < pos THEN j ELSE IF j = pos THEN m ELSE j - 1
    OBVIOUS
  <2> DEFINE w == IF j < pos THEN j ELSE IF j = pos THEN m ELSE j - 1
  <2>2. w \in 0 .. m /\ 0 .. a.n - 1 = 0 .. m
    BY <1>1
  <2>3. Cardinality(Before(a, w)) = j
    BY <1>1, <1>2, <2>2
  <2>4. \A i \in 0 .. m : Cardinality(Before(a, i)) = j => i = w
    BY <1>1, <1>2
  <2> HIDE DEF w
  <2>5. \A i \in 0 .. a.n - 1 : Cardinality(Before(a, i)) = j <=> i = w
    BY <2>2, <2>3, <2>4
  <2>6. R(j) = w
    BY <2>2, <2>5
  <2> QED BY <2>6 DEF w
<1>4. \A j \in 0 .. m : v[j] = IF j < pos THEN a.at[j] ELSE IF j = pos THEN k ELSE a.at[j - 1]
  <2> HIDE DEF R
  <2> QED BY <1>1, <1>3
<1>5. \A j \in 0 .. s : j > m => v[j] = a.at[j]
  BY <1>1
<1>6. v \in [0 .. s -> Nat]
  <2>1. ASSUME NEW j \in 0 .. s PROVE v[j] \in Nat
    <3> HIDE DEF v
    <3>1. CASE j > m
      BY <1>1, <1>5, <3>1
    <3>2. CASE j <= m
      BY <1>1, <1>4, <3>2
    <3> QED BY <1>1, <3>1, <3>2
  <2> HIDE DEF R
  <2> QED BY <2>1
<1>7. b = [a EXCEPT !.at = v]
  <2>1. DOMAIN a.at = 0 .. s
    BY DEF Arr
  <2> QED BY <2>1 DEF SortKey
<1> HIDE DEF v
<1>8. b \in Arr(s) /\ b.n = m + 1 /\ b.at = v
  BY <1>1, <1>6, <1>7 DEF Arr
<1>9. PositionIn(b, k) = pos
  <2> DEFINE S == {i \in 0 .. b.n - 1 : At(b, i) = k}
  <2>1. \A j \in 0 .. m - 1 : (j < pos => a.at[j] < k) /\ (pos <= j => k < a.at[j])
    BY DEF NearlySorted
  <2>2. ASSUME NEW j \in 0 .. m PROVE v[j] = k <=> j = pos
    <3>1. CASE j < pos
      BY <1>1, <1>4, <2>1, <3>1
    <3>2. CASE j = pos
      BY <1>4, <3>2
    <3>3. CASE j > pos
      BY <1>1, <1>4, <2>1, <3>3
    <3> QED BY <1>1, <3>1, <3>2, <3>3
  <2>3. S = {pos}
    BY <1>1, <1>8, <2>2 DEF At
  <2>4. S \subseteq Nat /\ S # {}
    BY <1>1, <2>3
  <2> HIDE DEF S
  <2>5. Min(S) = pos
    BY <2>3, <2>4, MinIsLeast
  <2> QED BY <2>4, <2>5 DEF PositionIn, S
<1> QED BY <1>4, <1>5, <1>8, <1>9

\* The separator leaves keys on both sides, and the children are divided with the keys.
LEMMA SepIs ==
  LET sep == SeparatorKeyIndex
  IN sep \in Nat /\ 0 < sep /\ sep < K /\ Center = sep + 1 /\ K \in Nat /\ K >= 2
<1>1. K \in Nat /\ K >= 2
  BY KAssumption
<1> QED BY <1>1 DEF SeparatorKeyIndex, Center

IsPut(b, a, s, i, x) ==
  b \in Arr(s) /\ b.n = a.n /\ \A j \in 0 .. s : b.at[j] = IF j = i THEN x ELSE a.at[j]

\* What Put writes.
LEMMA PutAt ==
  ASSUME NEW s \in Nat, NEW a \in Arr(s), NEW i \in 0 .. s, NEW x \in Nat, NEW b, b = Put(a, i, x)
  PROVE  IsPut(b, a, s, i, x)
BY DEF Put, Arr, IsPut

\* What Counted writes.
LEMMA CountedAt ==
  ASSUME NEW s \in Nat, NEW a \in Arr(s), NEW m \in Nat, NEW b, b = Counted(a, m)
  PROVE  b \in Arr(s) /\ b.n = m /\ b.at = a.at
BY DEF Counted, Arr

\* What Grown writes.
LEMMA GrownAt ==
  ASSUME NEW s \in Nat, NEW a \in Arr(s), NEW b, b = Grown(a)
  PROVE  b \in Arr(s) /\ b.n = a.n + 1 /\ b.at = a.at
BY DEF Grown, Counted, Arr

IsMoveInsert(b, a, s, i, x) ==
  /\ b \in Arr(s) /\ b.n = a.n
  /\ \A j \in 0 .. s : b.at[j] = IF j = i THEN x
                                 ELSE IF i < j /\ j <= a.n THEN a.at[j - 1] ELSE a.at[j]

\* What moveInsertKey and its like write.
LEMMA MoveInsertAt ==
  ASSUME NEW s \in Nat, NEW a \in Arr(s), NEW i \in Nat, NEW x \in Nat, NEW b, b = MoveInsert(a, i, x)
  PROVE  IsMoveInsert(b, a, s, i, x)
<1> DEFINE v == [j \in 0 .. s |-> IF j = i THEN x
                                  ELSE IF i < j /\ j <= a.n THEN a.at[j - 1] ELSE a.at[j]]
<1>1. a.n \in Nat /\ a.at \in [0 .. s -> Nat] /\ DOMAIN a.at = 0 .. s
  BY DEF Arr
<1>2. v \in [0 .. s -> Nat]
  BY <1>1
<1>3. b = [a EXCEPT !.at = v]
  BY <1>1 DEF MoveInsert
<1>4. \A j \in 0 .. s : v[j] = IF j = i THEN x ELSE IF i < j /\ j <= a.n THEN a.at[j - 1] ELSE a.at[j]
  OBVIOUS
<1> HIDE DEF v
<1>5. b \in Arr(s) /\ b.n = a.n /\ b.at = v
  BY <1>2, <1>3 DEF Arr
<1> QED BY <1>4, <1>5 DEF IsMoveInsert

IsMoveDelete(b, a, s, i) ==
  /\ b \in Arr(s) /\ b.n = a.n - 1
  /\ \A j \in 0 .. s : b.at[j] = IF i <= j /\ j < a.n - 1 THEN a.at[j + 1] ELSE a.at[j]

\* What moveDeleteKey and its like write.
LEMMA MoveDeleteAt ==
  ASSUME NEW s \in Nat, NEW a \in Arr(s), NEW i \in Nat, a.n # 0, a.n <= s + 1, NEW b, b = MoveDelete(a, i)
  PROVE  IsMoveDelete(b, a, s, i)
<1> DEFINE v == [j \in 0 .. s |-> IF i <= j /\ j < a.n - 1 THEN a.at[j + 1] ELSE a.at[j]]
<1>1. a.n \in Nat /\ a.at \in [0 .. s -> Nat] /\ DOMAIN a.at = 0 .. s
  BY DEF Arr
<1>2. v \in [0 .. s -> Nat]
  BY <1>1
<1>3. b = [n |-> a.n - 1, at |-> v]
  BY <1>1 DEF MoveDelete
<1>4. \A j \in 0 .. s : v[j] = IF i <= j /\ j < a.n - 1 THEN a.at[j + 1] ELSE a.at[j]
  OBVIOUS
<1> HIDE DEF v
<1>5. b \in Arr(s) /\ b.n = a.n - 1 /\ b.at = v
  BY <1>1, <1>2, <1>3 DEF Arr
<1> QED BY <1>4, <1>5 DEF IsMoveDelete

IsWritten(b, a, s, view, off, m) ==
  /\ b \in Arr(s) /\ b.n = m
  /\ \A j \in 0 .. s : b.at[j] = IF j < m THEN view.at[off + j] ELSE a.at[j]

\* What a copy from a view writes.
LEMMA WrittenAt ==
  ASSUME NEW s \in Nat, NEW a \in Arr(s), NEW z \in Nat, NEW view \in Arr(z), NEW off \in Nat, NEW m \in Nat,
         off + m <= z + 1, NEW b, b = Written(a, view, off, m)
  PROVE  IsWritten(b, a, s, view, off, m)
<1> DEFINE v == [j \in 0 .. s |-> IF j < m THEN view.at[off + j] ELSE a.at[j]]
<1>1. a.n \in Nat /\ a.at \in [0 .. s -> Nat] /\ DOMAIN a.at = 0 .. s
  BY DEF Arr
<1>2. v \in [0 .. s -> Nat]
  <2>1. view.at \in [0 .. z -> Nat]
    BY DEF Arr
  <2>2. ASSUME NEW j \in 0 .. s, j < m PROVE view.at[off + j] \in Nat
    BY <2>1, <2>2
  <2> QED BY <1>1, <2>2
<1>3. b = [n |-> m, at |-> v]
  BY <1>1 DEF Written, At
<1>4. \A j \in 0 .. s : v[j] = IF j < m THEN view.at[off + j] ELSE a.at[j]
  OBVIOUS
<1> HIDE DEF v
<1>5. b \in Arr(s) /\ b.n = m /\ b.at = v
  BY <1>1, <1>2, <1>3 DEF Arr
<1> QED BY <1>4, <1>5 DEF IsWritten

IsViewInsert(b, a, s, i, x) ==
  /\ b \in Arr(s)
  /\ \A j \in 0 .. s : b.at[j] = IF j = i THEN x ELSE IF i < j THEN a.at[j - 1]
                                 ELSE IF j < s THEN a.at[j] ELSE 0

\* What a view holds, a full array and one element more.
LEMMA ViewInsertAt ==
  ASSUME NEW s \in Nat, NEW a \in Arr(s), a.n = s, NEW i \in Nat, NEW x \in Nat, NEW b, b = ViewInsert(a, s, i, x)
  PROVE  IsViewInsert(b, a, s, i, x)
<1> DEFINE v == [j \in 0 .. s |-> IF j < a.n THEN a.at[j] ELSE 0]
           w == [n |-> s, at |-> v]
<1>1. a.n \in Nat /\ a.at \in [0 .. s -> Nat] /\ DOMAIN a.at = 0 .. s
  BY DEF Arr
<1>2. v \in [0 .. s -> Nat] /\ \A j \in 0 .. s : v[j] = IF j < s THEN a.at[j] ELSE 0
  BY <1>1
<1>3. b = MoveInsert(w, i, x)
  BY DEF ViewInsert, At
<1> HIDE DEF v
<1>4. w \in Arr(s) /\ w.n = s /\ w.at = v
  BY <1>2 DEF Arr
<1> HIDE DEF w
<1>5. b \in Arr(s) /\ \A j \in 0 .. s : b.at[j] = IF j = i THEN x
                                        ELSE IF i < j /\ j <= w.n THEN w.at[j - 1] ELSE w.at[j]
  <2>1. IsMoveInsert(b, w, s, i, x)
    BY <1>3, <1>4, MoveInsertAt
  <2> QED BY <2>1 DEF IsMoveInsert
<1>6. ASSUME NEW j \in 0 .. s
      PROVE b.at[j] = IF j = i THEN x ELSE IF i < j THEN a.at[j - 1]
                                        ELSE IF j < s THEN a.at[j] ELSE 0
  <2>1. CASE j = i
    BY <1>5, <2>1
  <2>2. CASE i < j
    <3>1. b.at[j] = v[j - 1] /\ j - 1 \in 0 .. s /\ j - 1 < s
      BY <1>4, <1>5, <2>2
    <3> QED BY <1>2, <2>2, <3>1
  <2>3. CASE j < i
    BY <1>2, <1>4, <1>5, <2>3
  <2> QED BY <2>1, <2>2, <2>3
<1> QED BY <1>5, <1>6 DEF IsViewInsert

\* A new array.
LEMMA ArrayIs ==
  ASSUME NEW s \in Nat
  PROVE  Array(s) \in Arr(s) /\ Array(s).n = 0 /\ \A j \in 0 .. s : Array(s).at[j] = 0
BY DEF Array, Arr

-----------------------------------------------------------------------------
(* Nodes                                                                   *)

NodeType == [parent : Nat, key : Arr(K), data : Arr(K), child : Arr(K + 1)]

NodeOK(nd, L) ==
  /\ nd.parent \in 0 .. L
  /\ Fits(nd.key, K) /\ Fits(nd.data, K) /\ Fits(nd.child, K + 1)
  /\ \A i \in 0 .. nd.child.n - 1 : nd.child.at[i] \in 1 .. L
  /\ \A i \in 0 .. nd.key.n - 1 : nd.key.at[i] \in Keys /\ nd.data.at[i] \in Keys

\* The node has the first m keys of f, and the first m + 1 children of g if its height
\* h is not 0.
Holds(nd, f, m, g, h) ==
  /\ nd.key.n = m /\ nd.data.n = m
  /\ \A j \in 0 .. m - 1 : nd.key.at[j] = f[j] /\ nd.data.at[j] = f[j]
  /\ nd.child.n = IF h = 0 THEN 0 ELSE m + 1
  /\ h # 0 => \A j \in 0 .. m : nd.child.at[j] = g[j]

\* The first m + 1 keys of f are in order.
Ordered(f, m) ==
  /\ \A j \in 0 .. m : f[j] \in Keys
  /\ \A i, j \in 0 .. m : i < j => f[i] < f[j]

\* Of m + 1 keys the one at pos, k, is not yet in the node; nor is child c to its right.
Lacks(nd, f, m, g, h, pos, k, c) ==
  /\ m \in Nat /\ pos \in 0 .. m /\ f[pos] = k /\ Ordered(f, m)
  /\ nd.key.n = m /\ nd.data.n = m
  /\ \A j \in 0 .. m - 1 : /\ nd.key.at[j] = f[IF j < pos THEN j ELSE j + 1]
                           /\ nd.data.at[j] = f[IF j < pos THEN j ELSE j + 1]
  /\ nd.child.n = IF h = 0 THEN 0 ELSE m + 1
  /\ IF h = 0 THEN c = 0 ELSE c # 0 /\ c = g[pos + 1]
  /\ h # 0 => \A j \in 0 .. m : nd.child.at[j] = g[IF j <= pos THEN j ELSE j + 1]

AddedKey(key, nd, f, m, pos, k) ==
  /\ key \in Arr(K) /\ key.n = m + 1 /\ PositionIn(key, k) = pos
  /\ \A j \in 0 .. m : key.at[j] = f[j]
  /\ \A j \in 0 .. K : j > m => key.at[j] = nd.key.at[j]

\* The keys of a node after the missing one was appended and sorted in.
LEMMA KeyAdded ==
  ASSUME NEW nd \in NodeType, NEW f, NEW m, m <= K, NEW g, NEW h, NEW pos, NEW k, NEW c,
         Lacks(nd, f, m, g, h, pos, k, c), NEW key, key = SortKey(Grown(Put(nd.key, m, k)))
  PROVE  AddedKey(key, nd, f, m, pos, k)
<1> DEFINE b == Put(nd.key, m, k)
           a == Grown(b)
<1>1. /\ m \in Nat /\ pos \in 0 .. m /\ f[pos] = k /\ K \in Nat /\ m \in 0 .. K /\ k \in Nat
      /\ nd.key.n = m /\ nd.key \in Arr(K)
      /\ \A j \in 0 .. m : f[j] \in Nat
  <2>1. m \in Nat /\ pos \in 0 .. m /\ f[pos] = k /\ nd.key.n = m /\ \A j \in 0 .. m : f[j] \in Keys
    BY DEF Lacks, Ordered
  <2>2. \A j \in 0 .. m : f[j] \in Nat
    BY <2>1, FiveNat
  <2>3. nd.key \in Arr(K)
    BY DEF NodeType
  <2> QED BY <2>1, <2>2, <2>3, KAssumption
<1>2. \A i, j \in 0 .. m : i < j => f[i] < f[j]
  BY DEF Lacks, Ordered
<1>3. \A j \in 0 .. m - 1 : nd.key.at[j] = f[IF j < pos THEN j ELSE j + 1]
  BY DEF Lacks
<1>4. b \in Arr(K) /\ b.n = m /\ \A j \in 0 .. K : b.at[j] = IF j = m THEN k ELSE nd.key.at[j]
  <2> DEFINE a0 == nd.key
             s0 == K
  <2>1. s0 \in Nat /\ a0 \in Arr(s0) /\ m \in 0 .. s0 /\ k \in Nat /\ b = Put(a0, m, k)
    BY <1>1
  <2> HIDE DEF a0, s0, b
  <2>2. IsPut(b, a0, s0, m, k)
    BY <2>1, PutAt
  <2> QED BY <1>1, <2>2 DEF IsPut, a0, s0
<1> HIDE DEF b
<1>5. a \in Arr(K) /\ a.n = m + 1 /\ \A j \in 0 .. K : a.at[j] = IF j = m THEN k ELSE nd.key.at[j]
  BY <1>1, <1>4, GrownAt
<1>6. key = SortKey(a)
  BY DEF b
<1> HIDE DEF a
<1>7. \A j \in 0 .. m - 1 : a.at[j] = f[IF j < pos THEN j ELSE j + 1]
  BY <1>1, <1>3, <1>5
<1>8. NearlySorted(a, m, k, pos)
  <2>1. ASSUME NEW i \in 0 .. m - 1, NEW j \in 0 .. m - 1, i < j PROVE a.at[i] < a.at[j]
    <3> DEFINE x == IF i < pos THEN i ELSE i + 1
               y == IF j < pos THEN j ELSE j + 1
    <3>1. x \in 0 .. m /\ y \in 0 .. m /\ x < y
      BY <1>1, <2>1
    <3>2. a.at[i] = f[x] /\ a.at[j] = f[y]
      BY <1>7
    <3> HIDE DEF x, y
    <3> QED BY <1>2, <3>1, <3>2
  <2>2. ASSUME NEW j \in 0 .. m - 1 PROVE (j < pos => a.at[j] < k) /\ (pos <= j => k < a.at[j])
    <3>1. CASE j < pos
      BY <1>1, <1>2, <1>7, <3>1
    <3>2. CASE pos <= j
      <4>1. a.at[j] = f[j + 1] /\ j + 1 \in 0 .. m /\ pos < j + 1
        BY <1>1, <1>7, <3>2
      <4> QED BY <1>1, <1>2, <3>2, <4>1
    <3> QED BY <1>1, <3>1, <3>2
  <2> QED BY <1>1, <1>5, <2>1, <2>2 DEF NearlySorted
<1>9. /\ key \in Arr(K) /\ key.n = m + 1 /\ PositionIn(key, k) = pos
      /\ \A j \in 0 .. m : key.at[j] = IF j < pos THEN a.at[j] ELSE IF j = pos THEN k ELSE a.at[j - 1]
      /\ \A j \in 0 .. K : j > m => key.at[j] = a.at[j]
  BY <1>1, <1>5, <1>6, <1>8, Sorted
<1>10. ASSUME NEW j \in 0 .. m PROVE key.at[j] = f[j]
  <2>1. CASE j < pos
    BY <1>1, <1>7, <1>9, <2>1
  <2>2. CASE j = pos
    BY <1>1, <1>9, <2>2
  <2>3. CASE j > pos
    <3>1. j - 1 \in 0 .. m - 1 /\ ~(j - 1 < pos) /\ j - 1 + 1 = j
      BY <1>1, <2>3
    <3>2. a.at[j - 1] = f[j]
      BY <1>7, <3>1
    <3> QED BY <1>1, <1>9, <2>3, <3>2
  <2> QED BY <1>1, <2>1, <2>2, <2>3
<1>11. ASSUME NEW j \in 0 .. K, j > m PROVE key.at[j] = nd.key.at[j]
  BY <1>1, <1>5, <1>9, <1>11
<1> QED BY <1>9, <1>10, <1>11 DEF AddedKey

\* A node with space, with the key and the child it lacks.
WithKey(nd, k, c) ==
  LET key == SortKey(Grown(Put(nd.key, nd.key.n, k)))
      pos == PositionIn(key, k)
  IN [nd EXCEPT !.key = key, !.data = Grown(MoveInsert(@, pos, k)),
                !.child = IF c = 0 THEN @
                          ELSE Counted(MoveInsert(@, pos + 1, c), key.n + 1)]

IsNode(nd, L, f, m, g, h, p) ==
  nd \in NodeType /\ NodeOK(nd, L) /\ Holds(nd, f, m, g, h) /\ nd.parent = p

\* A node with space that takes the missing key and child holds all of them.
LEMMA WithKeyOK ==
  ASSUME NEW L \in Nat, NEW nd \in NodeType, NodeOK(nd, L), NEW f, NEW m, m < K, NEW g, NEW h,
         NEW pos, NEW k, NEW c \in 0 .. L,
         Lacks(nd, f, m, g, h, pos, k, c), NEW md, md = WithKey(nd, k, c)
  PROVE  IsNode(md, L, f, m + 1, g, h, nd.parent)
<1> DEFINE key == SortKey(Grown(Put(nd.key, nd.key.n, k)))
           d0 == nd.data
           d1 == MoveInsert(d0, pos, k)
           data == Grown(d1)
           c0 == nd.child
           c1 == MoveInsert(c0, pos + 1, c)
           c2 == Counted(c1, m + 2)
           child == IF c = 0 THEN c0 ELSE c2
<1>1. /\ m \in Nat /\ pos \in 0 .. m /\ f[pos] = k /\ K \in Nat /\ K + 1 \in Nat /\ pos \in Nat /\ pos + 1 \in Nat
      /\ nd.key.n = m /\ d0.n = m /\ c \in Nat
  BY KAssumption DEF Lacks
<1>2. d0 \in Arr(K) /\ c0 \in Arr(K + 1) /\ nd.key \in Arr(K) /\ nd.parent \in Nat
  BY DEF NodeType
<1>3. (\A j \in 0 .. m : f[j] \in Keys) /\ k \in Nat /\ k \in Keys
  BY <1>1, FiveNat DEF Lacks, Ordered
<1>4. /\ key \in Arr(K) /\ key.n = m + 1 /\ PositionIn(key, k) = pos
      /\ \A j \in 0 .. m : key.at[j] = f[j]
      /\ \A j \in 0 .. K : j > m => key.at[j] = nd.key.at[j]
  <2>1. key = SortKey(Grown(Put(nd.key, m, k))) /\ m <= K
    BY <1>1
  <2> HIDE DEF key
  <2>2. AddedKey(key, nd, f, m, pos, k)
    BY <2>1, KeyAdded
  <2> QED BY <2>2 DEF AddedKey
<1>5. md = [nd EXCEPT !.key = key, !.data = data, !.child = child]
  <2>1. PositionIn(key, k) = pos /\ key.n + 1 = m + 2
    BY <1>1, <1>4
  <2>2. md = [nd EXCEPT !.key = key, !.data = Grown(MoveInsert(@, PositionIn(key, k), k)),
                        !.child = IF c = 0 THEN @
                                  ELSE Counted(MoveInsert(@, PositionIn(key, k) + 1, c), key.n + 1)]
    BY DEF WithKey
  <2> HIDE DEF key
  <2> QED BY <2>1, <2>2
<1> HIDE DEF key
<1>6. data \in Arr(K) /\ data.n = m + 1 /\ IsMoveInsert(d1, d0, K, pos, k) /\ data.at = d1.at
  <2> HIDE DEF d0
  <2>1. IsMoveInsert(d1, d0, K, pos, k)
    BY <1>1, <1>2, <1>3, MoveInsertAt
  <2>2. d1 \in Arr(K) /\ d1.n = m
    BY <1>1, <2>1 DEF IsMoveInsert
  <2> HIDE DEF d1
  <2> QED BY <1>1, <2>1, <2>2, GrownAt
<1>7. IsMoveInsert(c1, c0, K + 1, pos + 1, c) /\ c2 \in Arr(K + 1) /\ c2.n = m + 2 /\ c2.at = c1.at
  <2> HIDE DEF c0
  <2> DEFINE s0 == K + 1
             i0 == pos + 1
             m0 == m + 2
  <2>1. s0 \in Nat /\ i0 \in Nat /\ m0 \in Nat /\ c1 = MoveInsert(c0, i0, c) /\ c0 \in Arr(s0)
    BY <1>1, <1>2
  <2>11. c2 = Counted(c1, m0) /\ m0 \in Nat /\ s0 \in Nat
    BY <1>1
  <2> HIDE DEF s0, i0, m0, c1, c2
  <2>2. IsMoveInsert(c1, c0, s0, i0, c)
    BY <1>1, <2>1, MoveInsertAt
  <2>3. c1 \in Arr(s0)
    BY <2>2 DEF IsMoveInsert
  <2>4. c2 \in Arr(s0) /\ c2.n = m0 /\ c2.at = c1.at
    BY <2>11, <2>3 DEF Counted, Arr
  <2> QED BY <2>2, <2>4 DEF s0, i0, m0
<1> HIDE DEF d1, c1, c2, data
<1>8. child \in Arr(K + 1)
  BY <1>2, <1>7
<1>81. child.n = (IF h = 0 THEN 0 ELSE m + 2) /\ (h # 0 => child = c2)
  BY <1>7 DEF Lacks
<1> HIDE DEF child
<1>9. md \in NodeType /\ md.key = key /\ md.data = data /\ md.child = child /\ md.parent = nd.parent
  BY <1>2, <1>4, <1>5, <1>6, <1>8 DEF NodeType
<1>10. \A j \in 0 .. m : data.at[j] = f[j]
  <2>1. \A j \in 0 .. m - 1 : d0.at[j] = f[IF j < pos THEN j ELSE j + 1]
    BY DEF Lacks
  <2>2. SUFFICES ASSUME NEW j \in 0 .. m PROVE d1.at[j] = f[j]
    BY <1>6
  <2>3. d1.at[j] = IF j = pos THEN k ELSE IF pos < j /\ j <= d0.n THEN d0.at[j - 1] ELSE d0.at[j]
    BY <1>1, <1>6 DEF IsMoveInsert
  <2>4. CASE j < pos
    BY <1>1, <2>1, <2>3, <2>4
  <2>5. CASE j = pos
    BY <1>1, <2>3, <2>5
  <2>6. CASE j > pos
    <3>1. j - 1 \in 0 .. m - 1 /\ ~(j - 1 < pos) /\ j - 1 + 1 = j /\ d1.at[j] = d0.at[j - 1]
      BY <1>1, <2>3, <2>6
    <3> QED BY <2>1, <3>1
  <2> QED BY <1>1, <2>4, <2>5, <2>6
<1>11. ASSUME h # 0 PROVE \A j \in 0 .. m + 1 : child.at[j] = g[j]
  <2>1. c0.n = m + 1 /\ c # 0 /\ c = g[pos + 1] /\ \A j \in 0 .. m : c0.at[j] = g[IF j <= pos THEN j ELSE j + 1]
    BY <1>11 DEF Lacks
  <2>2. SUFFICES ASSUME NEW j \in 0 .. m + 1 PROVE c1.at[j] = g[j]
    BY <1>7, <1>11, <1>81
  <2>3. c1.at[j] = IF j = pos + 1 THEN c ELSE IF pos + 1 < j /\ j <= c0.n THEN c0.at[j - 1] ELSE c0.at[j]
    BY <1>1, <1>7 DEF IsMoveInsert
  <2>4. CASE j <= pos
    BY <1>1, <2>1, <2>3, <2>4
  <2>5. CASE j = pos + 1
    BY <1>1, <2>1, <2>3, <2>5
  <2>6. CASE j > pos + 1
    <3>1. j - 1 \in 0 .. m /\ ~(j - 1 <= pos) /\ j - 1 + 1 = j /\ c1.at[j] = c0.at[j - 1]
      BY <1>1, <2>1, <2>3, <2>6
    <3> QED BY <2>1, <3>1
  <2> QED BY <1>1, <2>4, <2>5, <2>6
<1>12. Holds(md, f, m + 1, g, h)
  BY <1>1, <1>4, <1>6, <1>81, <1>9, <1>10, <1>11 DEF Holds
<1>13. NodeOK(md, L)
  <2>0. nd.parent \in 0 .. L /\ Fits(nd.key, K) /\ Fits(d0, K) /\ Fits(c0, K + 1)
    BY DEF NodeOK
  <2>1. Fits(key, K)
    <3>1. key.at[K] = nd.key.at[K]
      BY <1>1, <1>4
    <3> QED BY <1>1, <1>4, <2>0, <3>1 DEF Fits, At
  <2>2. Fits(data, K)
    <3>1. d1.at[K] = d0.at[K]
      BY <1>1, <1>6 DEF IsMoveInsert
    <3> QED BY <1>1, <1>6, <2>0, <3>1 DEF Fits, At
  <2>3. Fits(child, K + 1)
    <3>1. CASE h = 0
      <4>1. child = c0
        BY <3>1 DEF child, Lacks
      <4> QED BY <2>0, <4>1
    <3>2. CASE h # 0
      <4>0. c0.n = m + 1
        BY <3>2 DEF Lacks
      <4>1. K + 1 \in 0 .. K + 1 /\ K + 1 # pos + 1 /\ ~(K + 1 <= c0.n)
        BY <1>1, <4>0
      <4>2. c1.at[K + 1] = c0.at[K + 1]
        BY <1>7, <4>1 DEF IsMoveInsert
      <4> QED BY <1>1, <1>7, <1>81, <2>0, <3>2, <4>2 DEF Fits, At
    <3> QED BY <3>1, <3>2
  <2>4. \A i \in 0 .. child.n - 1 : child.at[i] \in 1 .. L
    <3>1. CASE h = 0
      BY <1>81, <3>1
    <3>2. CASE h # 0
      <4>1. /\ c0.n = m + 1 /\ c # 0 /\ c = g[pos + 1]
            /\ \A j \in 0 .. m : c0.at[j] = g[IF j <= pos THEN j ELSE j + 1] /\ c0.at[j] \in 1 .. L
        BY <1>1, <3>2 DEF Lacks, NodeOK
      <4>2. ASSUME NEW j \in 0 .. m + 1 PROVE g[j] \in 1 .. L
        <5>1. CASE j <= pos
          BY <1>1, <4>1, <5>1
        <5>2. CASE j = pos + 1
          BY <1>1, <4>1, <5>2
        <5>3. CASE j > pos + 1
          <6>1. j - 1 \in 0 .. m /\ ~(j - 1 <= pos) /\ j - 1 + 1 = j
            BY <1>1, <5>3
          <6> QED BY <4>1, <6>1
        <5> QED BY <1>1, <5>1, <5>2, <5>3
      <4> QED BY <1>1, <1>11, <1>81, <3>2, <4>2
    <3> QED BY <3>1, <3>2
  <2>5. \A i \in 0 .. key.n - 1 : key.at[i] \in Keys /\ data.at[i] \in Keys
    BY <1>1, <1>3, <1>4, <1>10
  <2> HIDE DEF c0, d0
  <2> QED BY <1>9, <2>0, <2>1, <2>2, <2>3, <2>4, <2>5 DEF NodeOK
<1> QED BY <1>9, <1>12, <1>13 DEF IsNode

\* The views of a full node with key k and child c.
KeyView(nd, k)      == SortKey(Grown(Put(nd.key, K, k)))
DataView(nd, k)     == ViewInsert(nd.data, K, PositionIn(KeyView(nd, k), k), k)
ChildView(nd, k, c) == IF c = 0 THEN nd.child
                       ELSE ViewInsert(nd.child, K + 1, PositionIn(KeyView(nd, k), k) + 1, c)

Viewed(nd, f, g, h, k, c) ==
  /\ KeyView(nd, k) \in Arr(K) /\ DataView(nd, k) \in Arr(K) /\ ChildView(nd, k, c) \in Arr(K + 1)
  /\ \A j \in 0 .. K : /\ KeyView(nd, k).at[j] = f[j] /\ DataView(nd, k).at[j] = f[j]
                       /\ f[j] \in Keys
  /\ h # 0 => \A j \in 0 .. K + 1 : ChildView(nd, k, c).at[j] = g[j]

\* The views of a full node hold its keys and children and the missing ones.
LEMMA ViewsOK ==
  ASSUME NEW L \in Nat, NEW nd \in NodeType, NodeOK(nd, L), NEW f, NEW g, NEW h,
         NEW pos, NEW k, NEW c \in 0 .. L, Lacks(nd, f, K, g, h, pos, k, c)
  PROVE  Viewed(nd, f, g, h, k, c) /\ (h # 0 => \A j \in 0 .. K + 1 : g[j] \in 1 .. L)
<1> DEFINE key == KeyView(nd, k)
           d0 == nd.data
           data == ViewInsert(d0, K, pos, k)
           c0 == nd.child
           s1 == K + 1
           p1 == pos + 1
           cv == ViewInsert(c0, s1, p1, c)
<1>1. /\ K \in Nat /\ pos \in 0 .. K /\ f[pos] = k /\ K + 1 \in Nat /\ pos \in Nat /\ pos + 1 \in Nat
      /\ nd.key.n = K /\ d0.n = K /\ c \in Nat
  BY KAssumption DEF Lacks
<1>2. d0 \in Arr(K) /\ c0 \in Arr(K + 1)
  BY DEF NodeType
<1>3. (\A j \in 0 .. K : f[j] \in Keys) /\ k \in Nat
  BY <1>1, FiveNat DEF Lacks, Ordered
<1>4. key \in Arr(K) /\ PositionIn(key, k) = pos /\ \A j \in 0 .. K : key.at[j] = f[j]
  <2>1. key = SortKey(Grown(Put(nd.key, K, k))) /\ K <= K
    BY <1>1 DEF KeyView
  <2> HIDE DEF key
  <2>2. AddedKey(key, nd, f, K, pos, k)
    BY <2>1, KeyAdded
  <2> QED BY <2>2 DEF AddedKey
<1>5. DataView(nd, k) = data /\ ChildView(nd, k, c) = IF c = 0 THEN c0 ELSE cv
  BY <1>4 DEF DataView, ChildView
<1>6. data \in Arr(K) /\ \A j \in 0 .. K : data.at[j] = f[j]
  <2>1. \A j \in 0 .. K - 1 : d0.at[j] = f[IF j < pos THEN j ELSE j + 1]
    BY DEF Lacks
  <2> HIDE DEF d0
  <2>2. IsViewInsert(data, d0, K, pos, k)
    BY <1>1, <1>2, <1>3, ViewInsertAt
  <2> HIDE DEF data
  <2>3. SUFFICES ASSUME NEW j \in 0 .. K PROVE data.at[j] = f[j]
    BY <2>2 DEF IsViewInsert
  <2>4. data.at[j] = IF j = pos THEN k ELSE IF pos < j THEN d0.at[j - 1] ELSE IF j < K THEN d0.at[j] ELSE 0
    BY <2>2 DEF IsViewInsert
  <2>5. CASE j < pos
    <3>1. j \in 0 .. K - 1
      BY <1>1, <2>5
    <3> QED BY <1>1, <2>1, <2>4, <2>5, <3>1
  <2>6. CASE j = pos
    BY <1>1, <2>4, <2>6
  <2>7. CASE j > pos
    <3>1. j - 1 \in 0 .. K - 1 /\ ~(j - 1 < pos) /\ j - 1 + 1 = j /\ data.at[j] = d0.at[j - 1]
      BY <1>1, <2>4, <2>7
    <3> QED BY <2>1, <3>1
  <2> QED BY <1>1, <2>5, <2>6, <2>7
<1>7. ASSUME h # 0 PROVE /\ c # 0 /\ cv \in Arr(K + 1)
                         /\ \A j \in 0 .. K + 1 : cv.at[j] = g[j] /\ g[j] \in 1 .. L
  <2>1. /\ c0.n = s1 /\ c # 0 /\ c = g[pos + 1]
        /\ \A j \in 0 .. K : c0.at[j] = g[IF j <= pos THEN j ELSE j + 1] /\ c0.at[j] \in 1 .. L
    BY <1>1, <1>7 DEF Lacks, NodeOK
  <2>2. s1 \in Nat /\ p1 \in Nat /\ c0 \in Arr(s1) /\ c0.n = s1
    BY <1>1, <1>2, <2>1
  <2>3. IsViewInsert(cv, c0, s1, p1, c)
    <3> HIDE DEF c0, s1, p1
    <3> QED BY <1>1, <2>2, ViewInsertAt
  <2> HIDE DEF cv, c0
  <2>4. SUFFICES ASSUME NEW j \in 0 .. K + 1 PROVE cv.at[j] = g[j] /\ g[j] \in 1 .. L
    BY <2>1, <2>3 DEF IsViewInsert
  <2>5. cv.at[j] = IF j = p1 THEN c ELSE IF p1 < j THEN c0.at[j - 1] ELSE IF j < s1 THEN c0.at[j] ELSE 0
    <3>1. j \in 0 .. s1
      OBVIOUS
    <3> HIDE DEF s1, p1
    <3> QED BY <2>3, <3>1 DEF IsViewInsert
  <2>6. CASE j <= pos
    <3>1. j \in 0 .. K
      BY <1>1, <2>6
    <3> QED BY <1>1, <2>1, <2>5, <2>6, <3>1
  <2>7. CASE j = pos + 1
    BY <1>1, <2>1, <2>5, <2>7
  <2>8. CASE j > pos + 1
    <3>1. j - 1 \in 0 .. K /\ ~(j - 1 <= pos) /\ j - 1 + 1 = j /\ cv.at[j] = c0.at[j - 1]
      BY <1>1, <2>5, <2>8
    <3> QED BY <2>1, <3>1
  <2> QED BY <1>1, <2>6, <2>7, <2>8
<1> HIDE DEF cv, data, key
<1>8. ChildView(nd, k, c) \in Arr(K + 1)
  <2>1. CASE h = 0
    <3>1. c = 0
      BY <2>1 DEF Lacks
    <3> QED BY <1>2, <1>5, <3>1
  <2>2. CASE h # 0
    BY <1>5, <1>7, <2>2
  <2> QED BY <2>1, <2>2
<1> QED BY <1>3, <1>4, <1>5, <1>6, <1>7, <1>8 DEF Viewed, key

\* The arrays of md are written with m keys of the views, from off on.
IsHalf(md, L, p, off, m, ak, ad, ac, kv, dv, cv, f, g, h, ff, gg) ==
  /\ L \in Nat /\ md \in NodeType /\ md.parent = p /\ p \in 0 .. L
  /\ off \in Nat /\ m \in Nat /\ off + m <= K + 1 /\ m < K
  /\ ak.at[K] = 0 /\ ad.at[K] = 0 /\ ac.at[K + 1] = 0
  /\ IsWritten(md.key, ak, K, kv, off, m) /\ IsWritten(md.data, ad, K, dv, off, m)
  /\ \A j \in 0 .. K : kv.at[j] = f[j] /\ dv.at[j] = f[j] /\ f[j] \in Keys
  /\ h = 0 => md.child.n = 0 /\ md.child.at[K + 1] = 0
  /\ h # 0 => /\ IsWritten(md.child, ac, K + 1, cv, off, m + 1)
              /\ \A j \in 0 .. K + 1 : cv.at[j] = g[j] /\ g[j] \in 1 .. L
  /\ \A j \in 0 .. m : ff[j] = f[off + j] /\ gg[j] = g[off + j]

\* A node written from a part of the views holds that part.
LEMMA HalfOK ==
  ASSUME NEW md, NEW L, NEW p, NEW off, NEW m, NEW ak, NEW ad, NEW ac, NEW kv, NEW dv, NEW cv,
         NEW f, NEW g, NEW h, NEW ff, NEW gg,
         IsHalf(md, L, p, off, m, ak, ad, ac, kv, dv, cv, f, g, h, ff, gg)
  PROVE  IsNode(md, L, ff, m, gg, h, p)
<1> USE DEF IsHalf
<1>1. K \in Nat /\ K >= 2
  BY KAssumption
<1>2. md.key.n = m /\ md.data.n = m /\ md.key.at[K] = 0 /\ md.data.at[K] = 0
  BY <1>1 DEF IsWritten
<1>3. ASSUME NEW j \in 0 .. m - 1 PROVE md.key.at[j] = ff[j] /\ md.data.at[j] = ff[j] /\ ff[j] \in Keys
  <2>1. j \in 0 .. K /\ j < m /\ off + j \in 0 .. K /\ j \in 0 .. m
    BY <1>1
  <2>2. md.key.at[j] = kv.at[off + j] /\ md.data.at[j] = dv.at[off + j]
    BY <2>1 DEF IsWritten
  <2> QED BY <2>1, <2>2
<1>4. ASSUME h # 0 PROVE md.child.n = m + 1 /\ md.child.at[K + 1] = 0
  BY <1>1, <1>4 DEF IsWritten
<1>5. ASSUME h # 0, NEW j \in 0 .. m PROVE md.child.at[j] = gg[j] /\ gg[j] \in 1 .. L
  <2>1. j \in 0 .. K + 1 /\ j < m + 1 /\ off + j \in 0 .. K + 1
    BY <1>1
  <2>2. md.child.at[j] = cv.at[off + j]
    BY <1>5, <2>1 DEF IsWritten
  <2> QED BY <1>5, <2>1, <2>2
<1>6. Holds(md, ff, m, gg, h)
  BY <1>2, <1>3, <1>4, <1>5 DEF Holds
<1>7. NodeOK(md, L)
  <2>1. Fits(md.key, K) /\ Fits(md.data, K)
    BY <1>1, <1>2 DEF Fits, At
  <2>2. Fits(md.child, K + 1)
    BY <1>1, <1>4 DEF Fits, At
  <2>3. \A i \in 0 .. md.child.n - 1 : md.child.at[i] \in 1 .. L
    <3>1. CASE h = 0
      BY <3>1
    <3>2. CASE h # 0
      BY <1>4, <1>5, <3>2
    <3> QED BY <3>1, <3>2
  <2> QED BY <1>2, <1>3, <2>1, <2>2, <2>3 DEF NodeOK
<1> QED BY <1>6, <1>7 DEF IsNode

LeftHalf(nd, k, c) ==
  LET sep == SeparatorKeyIndex
  IN [nd EXCEPT !.key = Written(@, KeyView(nd, k), 0, sep), !.data = Written(@, DataView(nd, k), 0, sep),
                !.child = IF nd.child.n > 0 THEN Written(@, ChildView(nd, k, c), 0, Center) ELSE @]

RightHalf(nd, k, c) ==
  LET sep == SeparatorKeyIndex
  IN [parent |-> nd.parent,
      key    |-> Written(Array(K), KeyView(nd, k), sep + 1, K - sep),
      data   |-> Written(Array(K), DataView(nd, k), sep + 1, K - sep),
      child  |-> IF nd.child.n > 0 THEN Written(Array(K + 1), ChildView(nd, k, c), Center, K + 2 - Center)
                 ELSE Array(K + 1)]

\* The two nodes of a split hold the keys and children on both sides of the separator.
LEMMA HalvesOK ==
  ASSUME NEW L \in Nat, NEW nd \in NodeType, NodeOK(nd, L), NEW f, NEW g, NEW h,
         NEW pos, NEW k, NEW c \in 0 .. L, Lacks(nd, f, K, g, h, pos, k, c),
         NEW s, s = SeparatorKeyIndex
  PROVE  /\ IsNode(LeftHalf(nd, k, c), L, f, s, g, h, nd.parent)
         /\ IsNode(RightHalf(nd, k, c), L, Shifted(f, s + 1), K - s, Shifted(g, s + 1), h, nd.parent)
         /\ KeyView(nd, k).at[s] = f[s] /\ DataView(nd, k).at[s] = f[s]
<1> DEFINE kv == KeyView(nd, k)
           dv == DataView(nd, k)
           cv == ChildView(nd, k, c)
           s1 == s + 1
           m2 == K - s
           m3 == m2 + 1
           K1 == K + 1
           p == nd.parent
<1>1. s \in Nat /\ 0 < s /\ s < K /\ Center = s1 /\ K \in Nat /\ K >= 2
  BY SepIs
<1>11. s1 \in Nat /\ m2 \in Nat /\ m3 \in Nat /\ K1 \in Nat /\ K + 2 - Center = m3 /\ 0 \in Nat
  BY <1>1
<1>2. /\ kv \in Arr(K) /\ dv \in Arr(K) /\ cv \in Arr(K1)
      /\ \A j \in 0 .. K : kv.at[j] = f[j] /\ dv.at[j] = f[j] /\ f[j] \in Keys
      /\ h # 0 => \A j \in 0 .. K + 1 : cv.at[j] = g[j] /\ g[j] \in 1 .. L
  BY ViewsOK DEF Viewed
<1>3. nd.key \in Arr(K) /\ nd.data \in Arr(K) /\ nd.child \in Arr(K1) /\ p \in Nat
  BY DEF NodeType
<1>4. nd.key.at[K] = 0 /\ nd.data.at[K] = 0 /\ nd.child.at[K + 1] = 0 /\ p \in 0 .. L
  BY DEF NodeOK, Fits, At
<1>5. nd.child.n > 0 <=> h # 0
  BY <1>1, <1>3 DEF Lacks, Arr
<1>51. h = 0 => nd.child.n = 0
  BY DEF Lacks
<1> HIDE DEF kv, dv, cv, m2, m3
<1>6. IsNode(LeftHalf(nd, k, c), L, f, s, g, h, p)
  <2> DEFINE md == LeftHalf(nd, k, c)
             k0 == nd.key
             d0 == nd.data
             c0 == nd.child
             k1 == Written(k0, kv, 0, s)
             d1 == Written(d0, dv, 0, s)
             c1 == Written(c0, cv, 0, s1)
             ch == IF h # 0 THEN c1 ELSE c0
  <2>0. 0 + s <= K + 1 /\ 0 + s1 <= K1 + 1 /\ 0 + s1 <= K + 1 /\ s1 = s + 1
    BY <1>1
  <2>1. md = [nd EXCEPT !.key = k1, !.data = d1, !.child = ch]
    BY <1>1, <1>5 DEF LeftHalf, kv, dv, cv
  <2> HIDE DEF k0, d0, c0, s1, K1
  <2>2. k0 \in Arr(K) /\ d0 \in Arr(K) /\ c0 \in Arr(K1)
    BY <1>3 DEF k0, d0, c0
  <2>3. IsWritten(k1, k0, K, kv, 0, s) /\ IsWritten(d1, d0, K, dv, 0, s)
    BY <1>1, <1>11, <1>2, <2>0, <2>2, WrittenAt
  <2>4. IsWritten(c1, c0, K1, cv, 0, s1)
    BY <1>11, <1>2, <2>0, <2>2, WrittenAt
  <2>5. k1 \in Arr(K) /\ d1 \in Arr(K) /\ ch \in Arr(K1)
    BY <2>2, <2>3, <2>4 DEF IsWritten
  <2> HIDE DEF k1, d1, c1, md
  <2>6. md \in NodeType /\ md.key = k1 /\ md.data = d1 /\ md.child = ch /\ md.parent = p
    <3> HIDE DEF ch
    <3> QED BY <1>3, <2>1, <2>5 DEF NodeType, K1
  <2>7. h = 0 => md.child.n = 0 /\ md.child.at[K + 1] = 0
    BY <1>4, <1>51, <2>6 DEF c0
  <2>8. h # 0 => IsWritten(md.child, c0, K + 1, cv, 0, s + 1)
    BY <2>4, <2>6, <2>0 DEF K1
  <2>9. IsWritten(md.key, k0, K, kv, 0, s) /\ IsWritten(md.data, d0, K, dv, 0, s)
    BY <2>3, <2>6
  <2>10. \A j \in 0 .. s : f[j] = f[0 + j] /\ g[j] = g[0 + j]
    BY <1>1
  <2>11. k0.at[K] = 0 /\ d0.at[K] = 0 /\ c0.at[K + 1] = 0
    BY <1>4 DEF k0, d0, c0
  <2> HIDE DEF ch, p
  <2>12. IsNode(md, L, f, s, g, h, p)
    <3>1. md \in NodeType /\ md.parent = p
      BY <2>6
    <3>2. h # 0 => /\ IsWritten(md.child, c0, K + 1, cv, 0, s + 1)
                   /\ \A j \in 0 .. K + 1 : cv.at[j] = g[j] /\ g[j] \in 1 .. L
      BY <1>2, <2>8
    <3>3. IsHalf(md, L, p, 0, s, k0, d0, c0, kv, dv, cv, f, g, h, f, g)
      BY <1>1, <1>11, <1>2, <1>4, <2>0, <2>7, <2>9, <2>10, <2>11, <3>1, <3>2 DEF IsHalf
    <3> QED BY <3>3, HalfOK
  <2> QED BY <2>12 DEF md
<1>7. IsNode(RightHalf(nd, k, c), L, Shifted(f, s1), m2, Shifted(g, s1), h, p)
  <2> DEFINE md == RightHalf(nd, k, c)
             k0 == Array(K)
             c0 == Array(K1)
             k1 == Written(k0, kv, s1, m2)
             d1 == Written(k0, dv, s1, m2)
             c1 == Written(c0, cv, s1, m3)
             ch == IF h # 0 THEN c1 ELSE c0
             ff == Shifted(f, s1)
             gg == Shifted(g, s1)
  <2>0. s1 + m2 <= K + 1 /\ s1 + m3 <= K1 + 1 /\ m2 < K
    BY <1>1 DEF m2, m3
  <2>1. md = [parent |-> p, key |-> k1, data |-> d1, child |-> ch]
    BY <1>1, <1>11, <1>5 DEF RightHalf, kv, dv, cv, m2
  <2>10. \A j \in 0 .. m2 : ff[j] = f[s1 + j] /\ gg[j] = g[s1 + j]
    BY <1>1, <1>11 DEF Shifted
  <2>101. m2 + 1 = m3 /\ K1 = K + 1
    BY DEF m3
  <2> HIDE DEF k0, c0, s1, K1, ff, gg
  <2>2. /\ k0 \in Arr(K) /\ c0 \in Arr(K1) /\ k0.at[K] = 0 /\ c0.at[K1] = 0 /\ c0.n = 0
    BY <1>1, <1>11, ArrayIs DEF k0, c0
  <2>3. IsWritten(k1, k0, K, kv, s1, m2) /\ IsWritten(d1, k0, K, dv, s1, m2)
    BY <1>1, <1>11, <1>2, <2>0, <2>2, WrittenAt
  <2>4. IsWritten(c1, c0, K1, cv, s1, m3)
    BY <1>11, <1>2, <2>0, <2>2, WrittenAt
  <2>5. k1 \in Arr(K) /\ d1 \in Arr(K) /\ ch \in Arr(K1)
    BY <2>2, <2>3, <2>4 DEF IsWritten
  <2> HIDE DEF k1, d1, c1, md
  <2>6. md \in NodeType /\ md.key = k1 /\ md.data = d1 /\ md.child = ch /\ md.parent = p
    <3> HIDE DEF ch
    <3> QED BY <1>3, <2>1, <2>5 DEF NodeType, K1
  <2>7. h = 0 => md.child.n = 0 /\ md.child.at[K + 1] = 0
    BY <2>2, <2>6, <2>101
  <2>8. h # 0 => IsWritten(md.child, c0, K + 1, cv, s1, m2 + 1)
    BY <2>4, <2>6, <2>101
  <2>9. IsWritten(md.key, k0, K, kv, s1, m2) /\ IsWritten(md.data, k0, K, dv, s1, m2)
    BY <2>3, <2>6
  <2> HIDE DEF ch, p
  <2>12. IsNode(md, L, ff, m2, gg, h, p)
    <3>1. md \in NodeType /\ md.parent = p
      BY <2>6
    <3>2. h # 0 => /\ IsWritten(md.child, c0, K + 1, cv, s1, m2 + 1)
                   /\ \A j \in 0 .. K + 1 : cv.at[j] = g[j] /\ g[j] \in 1 .. L
      BY <1>2, <2>8
    <3>3. k0.at[K] = 0 /\ c0.at[K + 1] = 0
      BY <2>2, <2>101
    <3>4. IsHalf(md, L, p, s1, m2, k0, k0, c0, kv, dv, cv, f, g, h, ff, gg)
      BY <1>1, <1>11, <1>2, <1>4, <2>0, <2>7, <2>9, <2>10, <3>1, <3>2, <3>3 DEF IsHalf
    <3> QED BY <3>4, HalfOK
  <2> QED BY <2>12 DEF md, ff, gg
<1>8. kv.at[s] = f[s] /\ dv.at[s] = f[s]
  BY <1>1, <1>2
<1> QED BY <1>6, <1>7, <1>8 DEF kv, dv, m2

-----------------------------------------------------------------------------
(* Trees                                                                   *)

TreeType == [node : Seq(NodeType), root : Nat, meta : Nat, up : BOOLEAN]

TreeOK(T) == T \in TreeType /\ \A n \in 1 .. Len(T.node) : NodeOK(T.node[n], Len(T.node))

SameHead(T2, T) == T2.root = T.root /\ T2.meta = T.meta /\ T2.up = T.up

\* The nodes of a tree in the file.
LEMMA TreeFields ==
  ASSUME NEW T, TreeOK(T)
  PROVE  /\ Len(T.node) \in Nat /\ DOMAIN T.node = 1 .. Len(T.node) /\ T.node \in Seq(NodeType)
         /\ \A n \in 1 .. Len(T.node) : T.node[n] \in NodeType
<1>1. T.node \in Seq(NodeType)
  BY DEF TreeOK, TreeType
<1> HIDE DEF NodeType
<1> QED BY <1>1

\* More nodes leave a node what it is.
LEMMA NodeStays ==
  ASSUME NEW L \in Nat, NEW M \in Nat, L <= M, NEW nd, NodeOK(nd, L)
  PROVE  NodeOK(nd, M)
BY DEF NodeOK

\* One node written.
ChangedAt(T2, T, n, md) ==
  /\ TreeOK(T2) /\ Len(T2.node) = Len(T.node) /\ SameHead(T2, T) /\ T2.node[n] = md
  /\ \A m \in 1 .. Len(T.node) : m # n => T2.node[m] = T.node[m]

\* A node written over another.
LEMMA SetNode ==
  ASSUME NEW T, TreeOK(T), NEW n \in 1 .. Len(T.node), NEW md \in NodeType, NodeOK(md, Len(T.node)),
         NEW T2, T2 = [T EXCEPT !.node[n] = md]
  PROVE  ChangedAt(T2, T, n, md)
<1> DEFINE s == T.node
           t == [s EXCEPT ![n] = md]
<1>1. T \in TreeType /\ s \in Seq(NodeType) /\ n \in 1 .. Len(s)
  BY DEF TreeOK, TreeType
<1>2. T2 = [T EXCEPT !.node = t]
  OBVIOUS
<1> HIDE DEF s
<1>3. /\ t \in Seq(NodeType) /\ Len(t) = Len(s) /\ t[n] = md
      /\ \A m \in 1 .. Len(s) : m # n => t[m] = s[m]
  BY <1>1
<1> HIDE DEF t
<1>4. T2 \in TreeType /\ T2.node = t /\ SameHead(T2, T)
  BY <1>1, <1>2, <1>3 DEF TreeType, SameHead
<1>5. \A m \in 1 .. Len(T2.node) : NodeOK(T2.node[m], Len(T2.node))
  BY <1>3, <1>4 DEF TreeOK, s
<1> QED BY <1>3, <1>4, <1>5 DEF ChangedAt, TreeOK, s

\* One node written and one appended.
AppendedAt(T2, T, n, md, ed) ==
  /\ TreeOK(T2) /\ Len(T2.node) = Len(T.node) + 1 /\ SameHead(T2, T)
  /\ T2.node[n] = md /\ T2.node[Len(T.node) + 1] = ed
  /\ \A m \in 1 .. Len(T.node) : m # n => T2.node[m] = T.node[m]

\* A node written over another and a node appended.
LEMMA AppendNode ==
  ASSUME NEW T, TreeOK(T), NEW n \in 1 .. Len(T.node), NEW md \in NodeType, NodeOK(md, Len(T.node)),
         NEW ed \in NodeType, NodeOK(ed, Len(T.node) + 1),
         NEW T2, T2 = [T EXCEPT !.node = Append([@ EXCEPT ![n] = md], ed)]
  PROVE  AppendedAt(T2, T, n, md, ed)
<1> DEFINE s == T.node
           t == Append([s EXCEPT ![n] = md], ed)
<1>1. T \in TreeType /\ s \in Seq(NodeType) /\ n \in 1 .. Len(s) /\ Len(s) \in Nat
  BY DEF TreeOK, TreeType
<1>2. T2 = [T EXCEPT !.node = t]
  OBVIOUS
<1> HIDE DEF s
<1>3. /\ t \in Seq(NodeType) /\ Len(t) = Len(s) + 1 /\ t[n] = md /\ t[Len(s) + 1] = ed
      /\ \A m \in 1 .. Len(s) : m # n => t[m] = s[m]
  <2> DEFINE u == [s EXCEPT ![n] = md]
  <2>1. /\ u \in Seq(NodeType) /\ Len(u) = Len(s) /\ u[n] = md
        /\ \A m \in 1 .. Len(s) : m # n => u[m] = s[m]
    BY <1>1
  <2>2. t = Append(u, ed)
    OBVIOUS
  <2> HIDE DEF u, t
  <2>3. t \in Seq(NodeType) /\ Len(t) = Len(u) + 1 /\ t[Len(u) + 1] = ed
        /\ \A m \in 1 .. Len(u) : t[m] = u[m]
    BY <2>1, <2>2
  <2> QED BY <1>1, <2>1, <2>3
<1> HIDE DEF t
<1>4. T2 \in TreeType /\ T2.node = t /\ SameHead(T2, T)
  BY <1>1, <1>2, <1>3 DEF TreeType, SameHead
<1>5. \A m \in 1 .. Len(T2.node) : NodeOK(T2.node[m], Len(T2.node))
  <2>1. \A m \in 1 .. Len(s) : NodeOK(s[m], Len(s))
    BY DEF TreeOK, s
  <2> DEFINE L == Len(s)
             M == L + 1
  <2>11. L \in Nat /\ M \in Nat /\ L <= M
    BY <1>1
  <2>2. \A m \in 1 .. L : NodeOK(s[m], M)
    <3>1. \A m \in 1 .. L : NodeOK(s[m], L)
      BY <2>1
    <3> HIDE DEF L, M
    <3> QED BY <2>11, <3>1, NodeStays
  <2>3. NodeOK(md, M) /\ NodeOK(ed, M)
    <3>1. NodeOK(md, L) /\ NodeOK(ed, M)
      BY DEF s
    <3> HIDE DEF L, M
    <3> QED BY <2>11, <3>1, NodeStays
  <2>4. SUFFICES ASSUME NEW m \in 1 .. Len(s) + 1 PROVE NodeOK(t[m], Len(s) + 1)
    BY <1>3, <1>4
  <2>5. CASE m = n
    BY <1>3, <2>3, <2>5
  <2>6. CASE m = Len(s) + 1
    BY <1>3, <2>3, <2>6
  <2>7. CASE m # n /\ m # Len(s) + 1
    BY <1>1, <1>3, <2>2, <2>7
  <2> QED BY <2>5, <2>6, <2>7
<1> QED BY <1>3, <1>4, <1>5 DEF AppendedAt, TreeOK, s

SameArrays(md, nd) == md.key = nd.key /\ md.data = nd.data /\ md.child = nd.child

AdoptedBy(T2, T, n) ==
  /\ TreeOK(T2) /\ Len(T2.node) = Len(T.node) /\ SameHead(T2, T)
  /\ \A m \in 1 .. Len(T.node) :
       /\ SameArrays(T2.node[m], T.node[m])
       /\ T2.node[m].parent = IF m \in ChildNodes(T, n) THEN n ELSE T.node[m].parent

\* Adopt writes parent links only, those of the children of n.
LEMMA Adopts ==
  ASSUME NEW T, TreeOK(T), NEW n \in 1 .. Len(T.node), NEW T2, T2 = Adopt(T, n)
  PROVE  AdoptedBy(T2, T, n)
<1> DEFINE s == T.node
           C == ChildNodes(T, n)
           t == [m \in DOMAIN s |-> IF m \in C THEN [s[m] EXCEPT !.parent = n] ELSE s[m]]
<1>1. T \in TreeType /\ s \in Seq(NodeType) /\ n \in 1 .. Len(s) /\ Len(s) \in Nat /\ DOMAIN s = 1 .. Len(s)
  BY DEF TreeOK, TreeType
<1>2. T2 = [T EXCEPT !.node = t]
  BY DEF Adopt
<1> HIDE DEF s, C
<1>3. ASSUME NEW m \in 1 .. Len(s)
      PROVE  /\ s[m] \in NodeType /\ t[m] \in NodeType /\ SameArrays(t[m], s[m])
             /\ t[m].parent = IF m \in C THEN n ELSE s[m].parent
  <2>1. s[m] \in NodeType /\ n \in Nat
    BY <1>1
  <2>2. t[m] = IF m \in C THEN [s[m] EXCEPT !.parent = n] ELSE s[m]
    BY <1>1
  <2> HIDE DEF t
  <2> QED BY <2>1, <2>2 DEF NodeType, SameArrays
<1>4. t \in Seq(NodeType) /\ Len(t) = Len(s)
  BY <1>1, <1>3
<1> HIDE DEF t
<1>5. T2 \in TreeType /\ T2.node = t /\ SameHead(T2, T)
  BY <1>1, <1>2, <1>4 DEF TreeType, SameHead
<1>6. \A m \in 1 .. Len(T2.node) : NodeOK(T2.node[m], Len(T2.node))
  <2>1. SUFFICES ASSUME NEW m \in 1 .. Len(s) PROVE NodeOK(t[m], Len(s))
    BY <1>4, <1>5
  <2>2. NodeOK(s[m], Len(s))
    BY DEF TreeOK, s
  <2>3. t[m].parent \in 0 .. Len(s)
    BY <1>1, <1>3, <2>2 DEF NodeOK
  <2> QED BY <1>3, <2>2, <2>3 DEF NodeOK, SameArrays
<1> QED BY <1>3, <1>4, <1>5, <1>6 DEF AdoptedBy, TreeOK, s, C

-----------------------------------------------------------------------------
(* recursiveAdd                                                            *)

\* The nodes at the top and above have no parent.
Up(G, n) == IF G.height[G.top] <= G.height[n] THEN 0 ELSE G.parent[n]

Links(T, G) ==
  /\ G.live \subseteq 1 .. Len(T.node) /\ T.meta = G.meta
  /\ T.root \in G.live /\ G.height[G.top] <= G.height[T.root] /\ T.up = TRUE
  /\ G.height[G.meta] < Len(T.node)
  /\ \A n \in G.live : T.node[n].parent = Up(G, n)

Stored(T, G, n) == Holds(T.node[n], G.key[n], G.count[n], G.child[n], G.height[n])

\* The tree in the file is the forest G.
Represents(T, G) ==
  Forest(G) /\ TreeOK(T) /\ Links(T, G) /\ \A n \in G.live : Stored(T, G, n)

\* The tree in the file is G but for a key and a child of n.
Pending(T, G, n, k, c) ==
  /\ Forest(G) /\ TreeOK(T) /\ Links(T, G) /\ n \in G.live /\ G.height[n] <= G.height[G.top]
  /\ \A a \in G.live : a # n => Stored(T, G, a)
  /\ \E m, pos : /\ G.count[n] = m + 1
                 /\ Lacks(T.node[n], G.key[n], m, G.child[n], G.height[n], pos, k, c)

\* The keys of a node are in order.
LEMMA NodeOrdered ==
  ASSUME NEW G, Forest(G), NEW n \in G.live, NEW m \in Nat, G.count[n] = m + 1
  PROVE  Ordered(G.key[n], m)
<1>1. Ascending(G.range[n], G.key[n], m + 1)
  BY DEF Forest, KeysOK
<1>2. 0 .. m + 1 - 1 = 0 .. m
  OBVIOUS
<1>3. \A j \in 0 .. m : G.key[n][j] \in Keys
  BY <1>1, <1>2 DEF Ascending
<1>4. \A i, j \in 0 .. m : i < j => First5[G.key[n][i]] < First5[G.key[n][j]]
  BY <1>1, <1>2 DEF Ascending
<1> QED BY <1>3, <1>4, FiveNat DEF Ordered

\* The child that is lacking is a node.
LEMMA PendingChild ==
  ASSUME NEW T, NEW G, NEW n, NEW k, NEW c, Pending(T, G, n, k, c)
  PROVE  /\ n \in 1 .. Len(T.node) /\ T.node[n] \in NodeType /\ NodeOK(T.node[n], Len(T.node))
         /\ Len(T.node) \in Nat /\ c \in 0 .. Len(T.node) /\ G.live \subseteq 1 .. Len(T.node)
         /\ T.node[n].key.n \in Nat /\ G.count[n] = T.node[n].key.n + 1 /\ T.node[n].key.n <= K
         /\ G.height[n] \in Nat
         /\ \E pos : Lacks(T.node[n], G.key[n], T.node[n].key.n, G.child[n], G.height[n], pos, k, c)
<1>1. /\ Forest(G) /\ TreeOK(T) /\ Links(T, G) /\ n \in G.live
  BY DEF Pending
<1>2. PICK m, pos : /\ G.count[n] = m + 1
                    /\ Lacks(T.node[n], G.key[n], m, G.child[n], G.height[n], pos, k, c)
  BY DEF Pending
<1>3. G.live \subseteq 1 .. Len(T.node) /\ n \in 1 .. Len(T.node)
  BY <1>1 DEF Links
<1>4. Len(T.node) \in Nat /\ T.node[n] \in NodeType /\ NodeOK(T.node[n], Len(T.node))
  BY <1>1, <1>3, TreeFields DEF TreeOK
<1>5. T.node[n].key.n = m /\ m \in Nat /\ pos \in 0 .. m
  BY <1>2 DEF Lacks
<1>6. T.node[n].key.n <= K
  BY <1>4 DEF NodeOK, Fits
<1>7. G.height[n] \in Nat
  BY <1>1 DEF Forest, Labelled
<1>8. c \in 0 .. Len(T.node)
  <2>1. CASE G.height[n] = 0
    BY <1>2, <1>4, <2>1 DEF Lacks
  <2>2. CASE G.height[n] # 0
    <3>1. c = G.child[n][pos + 1] /\ pos + 1 \in 0 .. G.count[n]
      BY <1>2, <1>5, <2>2 DEF Lacks
    <3>2. G.child[n][pos + 1] \in G.live
      BY <1>1, <2>2, <3>1 DEF Forest, ChildrenOK, ChildOK
    <3> QED BY <1>3, <3>1, <3>2
  <2> QED BY <2>1, <2>2
<1> QED BY <1>2, <1>3, <1>4, <1>5, <1>6, <1>7, <1>8

\* A node with space takes the key, and nothing is lacking.
LEMMA SimpleAddOK ==
  ASSUME NEW T, NEW G, NEW n, NEW k, NEW c, Pending(T, G, n, k, c), HasSpace(T.node[n]),
         NEW T2, T2 = SimpleAdd(T, n, k, k, c)
  PROVE  Represents(T2, G) /\ Len(T2.node) = Len(T.node)
<1> DEFINE nd == T.node[n]
           md == WithKey(nd, k, c)
           L == Len(T.node)
           m == nd.key.n
           f == G.key[n]
           g == G.child[n]
           h == G.height[n]
           p == nd.parent
<1>1. /\ n \in 1 .. L /\ nd \in NodeType /\ NodeOK(nd, L) /\ L \in Nat /\ c \in 0 .. L
      /\ m \in Nat /\ G.count[n] = m + 1 /\ G.live \subseteq 1 .. L
  BY PendingChild
<1>2. PICK pos : Lacks(nd, f, m, g, h, pos, k, c)
  BY PendingChild
<1>3. Forest(G) /\ TreeOK(T) /\ Links(T, G) /\ n \in G.live /\ \A a \in G.live : a # n => Stored(T, G, a)
  BY DEF Pending
<1>4. m < K
  BY DEF HasSpace
<1>5. IsNode(md, L, f, m + 1, g, h, p)
  <2> HIDE DEF nd, L, m, f, g, h, p
  <2>1. IsNode(md, L, f, m + 1, g, h, nd.parent)
    BY <1>1, <1>2, <1>4, WithKeyOK
  <2> QED BY <2>1 DEF p
<1>6. T2 = [T EXCEPT !.node[n] = md]
  BY DEF SimpleAdd, WithKey
<1> HIDE DEF md
<1>7. ChangedAt(T2, T, n, md)
  BY <1>1, <1>3, <1>5, <1>6, SetNode DEF IsNode
<1>8. Links(T2, G)
  <2>1. Len(T2.node) = Len(T.node) /\ SameHead(T2, T)
    BY <1>7 DEF ChangedAt
  <2>2. \A a \in G.live : T2.node[a].parent = T.node[a].parent
    BY <1>1, <1>5, <1>7 DEF ChangedAt, IsNode
  <2> QED BY <1>3, <2>1, <2>2 DEF Links, SameHead
<1>9. \A a \in G.live : Stored(T2, G, a)
  <2>1. SUFFICES ASSUME NEW a \in G.live PROVE Stored(T2, G, a)
    OBVIOUS
  <2>2. CASE a = n
    BY <1>1, <1>5, <1>7, <2>2 DEF Stored, ChangedAt, IsNode
  <2>3. CASE a # n
    <3>1. T2.node[a] = T.node[a]
      BY <1>1, <1>7, <2>3 DEF ChangedAt
    <3> QED BY <1>3, <2>3, <3>1 DEF Stored
  <2> QED BY <2>2, <2>3
<1> QED BY <1>3, <1>7, <1>8, <1>9 DEF Represents, ChangedAt

IsSplit(x, T, G, n, s) ==
  /\ TreeOK(x.tree) /\ Len(x.tree.node) = Len(T.node) + 1 /\ SameHead(x.tree, T)
  /\ x.key = G.key[n][s] /\ x.data = G.key[n][s] /\ x.right = Len(T.node) + 1
  /\ G.count[n] = K + 1
  /\ Holds(x.tree.node[n], G.key[n], s, G.child[n], G.height[n])
  /\ Holds(x.tree.node[Len(T.node) + 1], Shifted(G.key[n], s + 1), K - s,
           Shifted(G.child[n], s + 1), G.height[n])
  /\ \A m \in 1 .. Len(T.node) : m # n => SameArrays(x.tree.node[m], T.node[m])
  /\ \A m \in 1 .. Len(T.node) :
       x.tree.node[m].parent = IF MovesRight(G, n, s, m) THEN Len(T.node) + 1 ELSE T.node[m].parent
  /\ x.tree.node[Len(T.node) + 1].parent = T.node[n].parent

\* What splitONode leaves in the file: two nodes of the forest, linked to their children.
LEMMA SplitTree ==
  ASSUME NEW T, NEW G, NEW n, NEW k, NEW c, Pending(T, G, n, k, c), ~HasSpace(T.node[n]),
         NEW x, x = SplitONode(T, n, k, k, c), NEW s, s = SeparatorKeyIndex
  PROVE  IsSplit(x, T, G, n, s)
<1> DEFINE nd == T.node[n]
           left == LeftHalf(nd, k, c)
           right == RightHalf(nd, k, c)
           L == Len(T.node)
           new == L + 1
           f == G.key[n]
           g == G.child[n]
           h == G.height[n]
           p == nd.parent
           U == [T EXCEPT !.node = Append([@ EXCEPT ![n] = left], right)]
           V == Adopt(U, new)
<1>1. /\ n \in 1 .. L /\ nd \in NodeType /\ NodeOK(nd, L) /\ L \in Nat /\ c \in 0 .. L
      /\ G.live \subseteq 1 .. L
  BY PendingChild
<1>2. nd.key.n = K /\ G.count[n] = K + 1
  <2>1. nd.key.n \in Nat /\ G.count[n] = nd.key.n + 1 /\ nd.key.n <= K
    BY PendingChild
  <2> QED BY <2>1, KAssumption DEF HasSpace
<1>3. PICK pos : Lacks(nd, f, K, g, h, pos, k, c)
  BY <1>2, PendingChild
<1>4. Forest(G) /\ TreeOK(T) /\ n \in G.live
  BY DEF Pending
<1>5. s \in Nat /\ 0 < s /\ s < K /\ K \in Nat
  BY SepIs
<1>6. x.tree = V /\ x.key = KeyView(nd, k).at[s] /\ x.data = DataView(nd, k).at[s] /\ x.right = new
  BY DEF SplitONode, LeftHalf, RightHalf, KeyView, DataView, ChildView, At
<1>7. /\ IsNode(left, L, f, s, g, h, p)
      /\ IsNode(right, L, Shifted(f, s + 1), K - s, Shifted(g, s + 1), h, p)
      /\ KeyView(nd, k).at[s] = f[s] /\ DataView(nd, k).at[s] = f[s]
  <2> HIDE DEF nd, L, f, g, h
  <2> QED BY <1>1, <1>3, HalvesOK
<1> HIDE DEF left, right
<1>8. AppendedAt(U, T, n, left, right)
  <2>1. NodeOK(right, L + 1)
    <3> DEFINE M == L + 1
    <3>1. M \in Nat /\ L <= M /\ NodeOK(right, L)
      BY <1>1, <1>7 DEF IsNode
    <3> HIDE DEF M, L
    <3>2. NodeOK(right, M)
      BY <1>1, <3>1, NodeStays
    <3> QED BY <3>2 DEF M
  <2>2. left \in NodeType /\ NodeOK(left, L) /\ right \in NodeType
    BY <1>7 DEF IsNode
  <2> QED BY <1>1, <1>4, <2>1, <2>2, AppendNode
<1> HIDE DEF U
<1>9. TreeOK(U) /\ Len(U.node) = new /\ new \in 1 .. Len(U.node)
  BY <1>1, <1>8 DEF AppendedAt
<1>10. AdoptedBy(V, U, new)
  <2> HIDE DEF new
  <2> QED BY <1>9, Adopts
<1>11. \A m : m \in ChildNodes(U, new) <=> MovesRight(G, n, s, m)
  <2> DEFINE ch == U.node[new].child
  <2>1. U.node[new] = right
    BY <1>8 DEF AppendedAt
  <2>2. /\ ch.n = IF h = 0 THEN 0 ELSE K - s + 1
        /\ h # 0 => \A j \in 0 .. K - s : ch.at[j] = Shifted(g, s + 1)[j]
    BY <1>7, <2>1 DEF IsNode, Holds
  <2>3. h # 0 => \A j \in 0 .. K - s : ch.at[j] = g[j + (s + 1)]
    <3>1. SUFFICES ASSUME h # 0, NEW j \in 0 .. K - s PROVE ch.at[j] = g[j + (s + 1)]
      OBVIOUS
    <3>2. j \in Nat
      BY <1>5
    <3>3. Shifted(g, s + 1)[j] = g[j + (s + 1)]
      BY <3>2 DEF Shifted
    <3> HIDE DEF ch, g, h
    <3> QED BY <2>2, <3>1, <3>3
  <2>4. ChildNodes(U, new) = {ch.at[i] : i \in 0 .. ch.n - 1}
    BY DEF ChildNodes, At
  <2> HIDE DEF ch
  <2>5. ASSUME NEW m \in ChildNodes(U, new) PROVE MovesRight(G, n, s, m)
    <3>1. PICK i \in 0 .. ch.n - 1 : m = ch.at[i]
      BY <2>4
    <3>2. h # 0 /\ i \in 0 .. K - s
      BY <1>5, <2>2, <3>1
    <3>3. i + (s + 1) \in s + 1 .. G.count[n] /\ g[i + (s + 1)] = m
      BY <1>2, <1>5, <2>3, <3>1, <3>2
    <3> QED BY <3>2, <3>3 DEF MovesRight
  <2>6. ASSUME NEW m, MovesRight(G, n, s, m) PROVE m \in ChildNodes(U, new)
    <3>1. PICK j \in s + 1 .. G.count[n] : g[j] = m
      BY <2>6 DEF MovesRight
    <3>2. h # 0
      BY <2>6 DEF MovesRight
    <3>3. j - (s + 1) \in 0 .. K - s /\ j - (s + 1) + (s + 1) = j
      BY <1>2, <1>5, <3>1
    <3>4. ch.at[j - (s + 1)] = m
      BY <2>3, <3>1, <3>2, <3>3
    <3>5. j - (s + 1) \in 0 .. ch.n - 1
      BY <1>5, <2>2, <3>2, <3>3
    <3> QED BY <2>4, <3>4, <3>5
  <2> QED BY <2>5, <2>6
<1>12. ~MovesRight(G, n, s, new)
  <2>1. SUFFICES ASSUME MovesRight(G, n, s, new) PROVE FALSE
    OBVIOUS
  <2>2. PICK j \in s + 1 .. G.count[n] : g[j] = new
    BY <2>1 DEF MovesRight
  <2>3. h # 0 /\ j \in 0 .. G.count[n]
    BY <1>2, <1>5, <2>1 DEF MovesRight
  <2>4. g[j] \in G.live
    BY <1>4, <2>3 DEF Forest, ChildrenOK, ChildOK
  <2> QED BY <1>1, <2>2, <2>4
<1>13. \A m \in 1 .. new : /\ SameArrays(V.node[m], U.node[m])
                           /\ V.node[m].parent = IF MovesRight(G, n, s, m) THEN new ELSE U.node[m].parent
  BY <1>9, <1>10, <1>11 DEF AdoptedBy
<1> HIDE DEF V
<1>14. /\ U.node[n] = left /\ U.node[new] = right
       /\ \A m \in 1 .. L : m # n => U.node[m] = T.node[m]
  BY <1>8 DEF AppendedAt
<1>15. Holds(V.node[n], f, s, g, h)
  <2>1. SameArrays(V.node[n], left)
    BY <1>1, <1>13, <1>14
  <2> QED BY <1>7, <2>1 DEF SameArrays, IsNode, Holds
<1>16. Holds(V.node[new], Shifted(f, s + 1), K - s, Shifted(g, s + 1), h)
  <2>1. SameArrays(V.node[new], right)
    BY <1>1, <1>13, <1>14
  <2> QED BY <1>7, <2>1 DEF SameArrays, IsNode, Holds
<1>17. \A m \in 1 .. L : m # n => SameArrays(V.node[m], T.node[m])
  BY <1>1, <1>13, <1>14
<1>18. \A m \in 1 .. L : U.node[m].parent = T.node[m].parent
  BY <1>7, <1>14 DEF IsNode
<1>19. \A m \in 1 .. L : V.node[m].parent = IF MovesRight(G, n, s, m) THEN new ELSE T.node[m].parent
  BY <1>1, <1>13, <1>18
<1>20. V.node[new].parent = p
  <2>1. right.parent = p
    BY <1>7 DEF IsNode
  <2> QED BY <1>1, <1>12, <1>13, <1>14, <2>1
<1>21. TreeOK(V) /\ Len(V.node) = new /\ SameHead(V, T)
  BY <1>8, <1>9, <1>10 DEF AdoptedBy, AppendedAt, SameHead
<1> QED BY <1>2, <1>6, <1>7, <1>15, <1>16, <1>17, <1>19, <1>20, <1>21 DEF IsSplit

\* A node with the same arrays holds the same keys and children.
LEMMA SameHolds ==
  ASSUME NEW nd, NEW md, SameArrays(md, nd), NEW f, NEW m, NEW g, NEW h, Holds(nd, f, m, g, h)
  PROVE  Holds(md, f, m, g, h)
BY DEF SameArrays, Holds

\* A node that holds its keys lacks one more, and the child to its right.
LEMMA NowLacks ==
  ASSUME NEW nd, NEW f, NEW m \in Nat, NEW g, NEW h, h # 0, Holds(nd, f, m, g, h),
         NEW i \in 0 .. m, NEW k, NEW c, c # 0,
         NEW ff, ff = Inserted(f, i, k), Ordered(ff, m), NEW gg, gg = Inserted(g, i + 1, c)
  PROVE  Lacks(nd, ff, m, gg, h, i, k, c)
<1>1. \A j \in Nat : ff[j] = IF j < i THEN f[j] ELSE IF j = i THEN k ELSE f[j - 1]
  BY DEF Inserted
<1>2. \A j \in Nat : gg[j] = IF j < i + 1 THEN g[j] ELSE IF j = i + 1 THEN c ELSE g[j - 1]
  BY DEF Inserted
<1>3. ff[i] = k /\ gg[i + 1] = c
  BY <1>1, <1>2
<1>4. ASSUME NEW j \in 0 .. m - 1 PROVE f[j] = ff[IF j < i THEN j ELSE j + 1]
  <2>1. CASE j < i
    BY <1>1, <2>1
  <2>2. CASE i <= j
    <3>1. j + 1 \in Nat /\ ~(j + 1 < i) /\ j + 1 # i /\ j + 1 - 1 = j
      BY <2>2
    <3> QED BY <1>1, <2>2, <3>1
  <2> QED BY <2>1, <2>2
<1>5. ASSUME NEW j \in 0 .. m PROVE g[j] = gg[IF j <= i THEN j ELSE j + 1]
  <2>1. CASE j <= i
    BY <1>2, <2>1
  <2>2. CASE i < j
    <3>1. j + 1 \in Nat /\ ~(j + 1 < i + 1) /\ j + 1 # i + 1 /\ j + 1 - 1 = j
      BY <2>2
    <3> QED BY <1>2, <2>2, <3>1
  <2> QED BY <2>1, <2>2
<1>6. \A j \in 0 .. m - 1 : nd.key.at[j] = f[j] /\ nd.data.at[j] = f[j]
  BY DEF Holds
<1>7. nd.key.n = m /\ nd.data.n = m /\ nd.child.n = m + 1 /\ \A j \in 0 .. m : nd.child.at[j] = g[j]
  BY DEF Holds
<1> HIDE DEF Inserted
<1> QED BY <1>3, <1>4, <1>5, <1>6, <1>7 DEF Lacks

Heights(G, H, n, p) ==
  /\ H.height[p] = G.height[n] + 1
  /\ H.height[H.top] = G.height[G.top]

\* After the split of a node with a parent, the key and the new node are missing in the
\* parent.
LEMMA SplitUp ==
  ASSUME NEW T, NEW G, NEW n, NEW k, NEW c, Pending(T, G, n, k, c), ~HasSpace(T.node[n]),
         NEW p, p = T.node[n].parent, p # 0,
         NEW x, x = SplitONode(T, n, k, k, c)
  PROVE  /\ x.data = x.key
         /\ \E H : /\ Pending(x.tree, H, p, x.key, x.right) /\ Content(H) = Content(G)
                   /\ Heights(G, H, n, p)
<1> DEFINE s == SeparatorKeyIndex
           L == Len(T.node)
           new == L + 1
           V == x.tree
<1>1. /\ Forest(G) /\ TreeOK(T) /\ Links(T, G) /\ n \in G.live /\ G.height[n] <= G.height[G.top]
      /\ \A a \in G.live : a # n => Stored(T, G, a)
  BY Zenon DEF Pending
<1>2. L \in Nat /\ G.live \subseteq 1 .. L /\ n \in 1 .. L
  BY PendingChild, Zenon
<1>3. s \in Nat /\ 0 < s /\ s < K /\ K \in Nat
  BY SepIs, Zenon
<1> HIDE DEF s
<1>4. IsSplit(x, T, G, n, s)
  BY SplitTree, Zenon DEF s
<1>5. \A a \in G.live : G.height[a] \in Nat /\ G.count[a] \in Nat
  BY <1>1, Zenon DEF Forest, Labelled
<1>6. G.top \in G.live /\ G.meta \in G.live /\ G.height[G.top] <= G.height[G.meta]
  BY <1>1, Zenon DEF Forest, Chain
<1>7. p = G.parent[n] /\ G.height[n] < G.height[G.top]
  BY <1>1, <1>5, <1>6 DEF Links, Up
<1>8. n # G.meta
  BY <1>5, <1>6, <1>7
<1>9. PICK i \in Nat : IsChild(G, p, i, n)
  BY <1>1, <1>7, <1>8, Zenon DEF Forest, Attached
<1>10. p \in G.live /\ G.height[p] # 0 /\ i \in 0 .. G.count[p] /\ G.height[p] = G.height[n] + 1
  BY <1>1, <1>9, OneParent DEF IsChild
<1>11. G.count[n] = K + 1
  BY <1>4, Zenon DEF IsSplit
<1>12. CanSplit(G, n, new, s, p, i)
  BY <1>1, <1>2, <1>3, <1>9, <1>11 DEF CanSplit
<1> DEFINE H == Split(G, n, new, s, p, i)
<1> HIDE DEF H, new, V
<1>13. Forest(H) /\ Content(H) = Content(G)
  BY <1>12, SplitOK, SplitContent DEF H
<1>14. H = Split(G, n, new, s, p, i)
  BY Zenon DEF H
<1>15. /\ n \in Nat /\ p \in Nat /\ n # p /\ new # n /\ new # p
       /\ H.live = G.live \cup {new} /\ H.meta = G.meta
       /\ H.top = IF G.height[G.top] < G.height[p] THEN p ELSE G.top
  BY <1>12, <1>14, SplitFields
<1>16. /\ \A m \in Nat \ {n, new, p} : H.count[m] = G.count[m]
       /\ H.count[n] = s /\ H.count[new] = G.count[n] - s - 1 /\ H.count[p] = G.count[p] + 1
  BY <1>12, <1>14, SplitFields
<1>17. \A m \in Nat \ {new, p} : H.key[m] = G.key[m] /\ H.child[m] = G.child[m]
  BY <1>12, <1>14, SplitFields
<1>18. H.key[new] = Shifted(G.key[n], s + 1) /\ H.child[new] = Shifted(G.child[n], s + 1)
  BY <1>12, <1>14, SplitFields
<1>19. H.key[p] = Inserted(G.key[p], i, G.key[n][s]) /\ H.child[p] = Inserted(G.child[p], i + 1, new)
  BY <1>12, <1>14, SplitFields
<1>20. (\A m \in Nat \ {new} : H.height[m] = G.height[m]) /\ H.height[new] = G.height[n]
  BY <1>12, <1>14, SplitFields
<1>21. /\ H.parent[new] = p
       /\ \A m \in Nat \ {new} : H.parent[m] = IF MovesRight(G, n, s, m) THEN new ELSE G.parent[m]
  BY <1>12, <1>14, SplitFields
<1>22. H.top = G.top
  <2>1. G.height[p] <= G.height[G.top] /\ G.height[p] \in Nat /\ G.height[G.top] \in Nat
    BY <1>1, <1>5, <1>6, <1>7, <1>10
  <2>2. ~(G.height[G.top] < G.height[p])
    BY <2>1
  <2> QED BY <1>15, <2>2, Zenon
<1>23. G.live \subseteq Nat \ {0, new}
  BY <1>2 DEF new
<1>24. \A a \in G.live : H.height[a] = G.height[a]
  BY <1>20, <1>23, Zenon
<1>25. Heights(G, H, n, p)
  BY <1>6, <1>10, <1>22, <1>24, Zenon DEF Heights
<1>26. x.key = G.key[n][s] /\ x.data = G.key[n][s] /\ x.right = new
  BY <1>4, Zenon DEF IsSplit, new
<1>27. TreeOK(V) /\ Len(V.node) = new /\ SameHead(V, T)
  BY <1>4, Zenon DEF IsSplit, new, V
<1>28. \A a \in G.live : G.height[G.top] <= G.height[a] => ~MovesRight(G, n, s, a)
  <2>1. SUFFICES ASSUME NEW a \in G.live, MovesRight(G, n, s, a) PROVE G.height[a] < G.height[G.top]
    BY <1>5, <1>6
  <2>2. PICK j \in s + 1 .. G.count[n] : G.child[n][j] = a
    BY <2>1, Zenon DEF MovesRight
  <2>3. IsChild(G, n, j, a)
    BY <1>1, <1>3, <1>11, <2>1, <2>2 DEF MovesRight, IsChild
  <2>4. G.height[a] + 1 = G.height[n]
    BY <1>1, <2>3, OneParent, Zenon
  <2> QED BY <1>5, <1>6, <1>7, <2>4
<1>29. Links(V, H)
  <2>1. H.live \subseteq 1 .. Len(V.node) /\ V.meta = H.meta /\ V.up = TRUE
    BY <1>1, <1>2, <1>15, <1>27 DEF Links, SameHead, new
  <2>2. V.root \in H.live /\ H.height[H.top] <= H.height[V.root]
    BY <1>1, <1>6, <1>15, <1>22, <1>24, <1>27, Zenon DEF Links, SameHead
  <2>3. H.height[H.meta] < Len(V.node)
    BY <1>1, <1>2, <1>5, <1>6, <1>15, <1>24, <1>27, SMTT(20) DEF Links, new
  <2>4. ASSUME NEW a \in G.live PROVE V.node[a].parent = Up(H, a)
    <3>1. V.node[a].parent = IF MovesRight(G, n, s, a) THEN new ELSE T.node[a].parent
      BY <1>2, <1>4, Zenon DEF IsSplit, V, new
    <3>2. T.node[a].parent = Up(G, a)
      BY <1>1, Zenon DEF Links
    <3>3. H.parent[a] = IF MovesRight(G, n, s, a) THEN new ELSE G.parent[a]
      BY <1>21, <1>23, Zenon
    <3>4. H.height[H.top] = G.height[G.top] /\ H.height[a] = G.height[a]
      BY <1>6, <1>22, <1>24, Zenon
    <3> QED BY <1>28, <3>1, <3>2, <3>3, <3>4, Zenon DEF Up
  <2>5. V.node[new].parent = Up(H, new)
    <3>1. V.node[new].parent = p
      BY <1>4, Zenon DEF IsSplit, V, new
    <3>2. ~(H.height[H.top] <= H.height[new])
      BY <1>1, <1>5, <1>6, <1>7, <1>20, <1>22, <1>24
    <3> QED BY <1>21, <3>1, <3>2, Zenon DEF Up
  <2>6. \A a \in H.live : V.node[a].parent = Up(H, a)
    BY <1>15, <2>4, <2>5, Zenon
  <2> QED BY <2>1, <2>2, <2>3, <2>6, Zenon DEF Links
<1>30. ASSUME NEW a \in H.live, a # p PROVE Stored(V, H, a)
  <2>1. CASE a = n
    <3>1. Holds(V.node[n], G.key[n], s, G.child[n], G.height[n])
      BY <1>4, Zenon DEF IsSplit, V
    <3> QED BY <1>1, <1>15, <1>16, <1>17, <1>24, <2>1, <3>1, Zenon DEF Stored
  <2>2. CASE a = new
    <3>1. Holds(V.node[new], Shifted(G.key[n], s + 1), K - s, Shifted(G.child[n], s + 1), G.height[n])
      BY <1>4, Zenon DEF IsSplit, V, new
    <3>2. H.count[new] = K - s
      BY <1>3, <1>11, <1>16
    <3> QED BY <1>18, <1>20, <2>2, <3>1, <3>2, Zenon DEF Stored
  <2>3. CASE a # n /\ a # new
    <3>1. a \in G.live /\ a \in Nat \ {n, new, p} /\ a \in 1 .. L
      BY <1>2, <1>15, <1>23, <1>30, <2>3, Zenon
    <3>2. SameArrays(V.node[a], T.node[a])
      BY <1>4, <2>3, <3>1, Zenon DEF IsSplit, V
    <3>3. Holds(T.node[a], G.key[a], G.count[a], G.child[a], G.height[a])
      BY <1>1, <2>3, <3>1, Zenon DEF Stored
    <3>4. H.key[a] = G.key[a] /\ H.count[a] = G.count[a] /\ H.child[a] = G.child[a] /\ H.height[a] = G.height[a]
      BY <1>16, <1>17, <1>24, <3>1, Zenon
    <3>5. Holds(V.node[a], G.key[a], G.count[a], G.child[a], G.height[a])
      BY <3>2, <3>3, SameHolds, Zenon
    <3> QED BY <3>4, <3>5, Zenon DEF Stored
  <2> QED BY <2>1, <2>2, <2>3, Zenon
<1>31. Lacks(V.node[p], H.key[p], G.count[p], H.child[p], H.height[p], i, x.key, x.right)
  <2> DEFINE nd == V.node[p]
             f == G.key[p]
             m == G.count[p]
             g == G.child[p]
             h == G.height[p]
             ff == H.key[p]
             gg == H.child[p]
             kk == G.key[n][s]
  <2>1. SameArrays(nd, T.node[p])
    BY <1>2, <1>4, <1>10, <1>15, Zenon DEF IsSplit, V
  <2>2. Holds(T.node[p], f, m, g, h)
    BY <1>1, <1>10, <1>15, Zenon DEF Stored
  <2>3. m \in Nat /\ h # 0 /\ i \in 0 .. m /\ new # 0
    BY <1>2, <1>5, <1>10 DEF new
  <2>4. Ordered(ff, m)
    BY <1>10, <1>13, <1>15, <1>16, <2>3, NodeOrdered
  <2>5. ff = Inserted(f, i, kk) /\ gg = Inserted(g, i + 1, new)
    BY <1>19, Zenon
  <2> HIDE DEF nd, f, m, g, h, ff, gg, kk
  <2>6. Holds(nd, f, m, g, h)
    BY <2>1, <2>2, SameHolds, Zenon
  <2>7. Lacks(nd, ff, m, gg, h, i, kk, new)
    BY <2>3, <2>4, <2>5, <2>6, NowLacks, Zenon
  <2>8. H.height[p] = h
    BY <1>10, <1>24, Zenon DEF h
  <2> QED BY <1>26, <2>7, <2>8, Zenon DEF nd, m, ff, gg, kk
<1>32. Pending(V, H, p, x.key, x.right)
  <2>1. p \in H.live /\ H.height[p] <= H.height[H.top]
    BY <1>5, <1>6, <1>7, <1>10, <1>15, <1>22, <1>24
  <2>2. H.count[p] = G.count[p] + 1
    BY <1>16, Zenon
  <2> QED BY <1>13, <1>27, <1>29, <1>30, <1>31, <2>1, <2>2, Zenon DEF Pending
<1> QED BY <1>13, <1>25, <1>26, <1>32, Zenon DEF V

RootNode(n, k, c) ==
  [parent |-> 0, key |-> Grown(Put(Array(K), 0, k)), data |-> Grown(Put(Array(K), 0, k)),
   child |-> Counted(Put(Put(Array(K + 1), 0, n), 1, c), 2)]

IsRoot(nd, n, k, c) ==
  /\ nd.key.n = 1 /\ nd.data.n = 1 /\ nd.child.n = 2
  /\ nd.key.at[0] = k /\ nd.data.at[0] = k /\ nd.child.at[0] = n /\ nd.child.at[1] = c

\* The new root that recursiveAdd writes.
LEMMA RootNodeOK ==
  ASSUME NEW L \in Nat, NEW n \in 1 .. L, NEW c \in 1 .. L, NEW k \in Keys,
         NEW nd, nd = RootNode(n, k, c)
  PROVE  nd \in NodeType /\ NodeOK(nd, L) /\ IsRoot(nd, n, k, c) /\ nd.parent = 0
<1> DEFINE K1 == K + 1
           a0 == Array(K)
           a1 == Put(a0, 0, k)
           a2 == Grown(a1)
           c0 == Array(K1)
           c1 == Put(c0, 0, n)
           c2 == Put(c1, 1, c)
           c3 == Counted(c2, 2)
<1>1. K \in Nat /\ K >= 2 /\ K1 \in Nat /\ k \in Nat /\ n \in Nat /\ c \in Nat /\ 2 \in Nat
      /\ 0 \in 0 .. K /\ 0 \in 0 .. K1 /\ 1 \in 0 .. K1
  BY KAssumption, FiveNat
<1>2. nd = [parent |-> 0, key |-> a2, data |-> a2, child |-> c3]
  BY DEF RootNode
<1>3. K1 = K + 1
  OBVIOUS
<1> HIDE DEF K1, a0, c0, c1
<1>4. a0 \in Arr(K) /\ a0.n = 0 /\ \A j \in 0 .. K : a0.at[j] = 0
  BY <1>1, ArrayIs DEF a0
<1>5. IsPut(a1, a0, K, 0, k)
  BY <1>1, <1>4, PutAt
<1>6. a1 \in Arr(K) /\ a1.n = 0 /\ a1.at[0] = k /\ a1.at[K] = 0
  BY <1>1, <1>4, <1>5 DEF IsPut
<1> HIDE DEF a1
<1>7. a2 \in Arr(K) /\ a2.n = 1 /\ a2.at[0] = k /\ a2.at[K] = 0
  BY <1>6 DEF Grown, Counted, Arr
<1>8. c0 \in Arr(K1) /\ \A j \in 0 .. K1 : c0.at[j] = 0
  BY <1>1, ArrayIs DEF c0
<1>9. IsPut(c1, c0, K1, 0, n)
  BY <1>1, <1>8, PutAt DEF c1
<1>10. c1 \in Arr(K1) /\ c1.at[0] = n /\ c1.at[K1] = 0
  BY <1>1, <1>3, <1>8, <1>9 DEF IsPut
<1>11. IsPut(c2, c1, K1, 1, c)
  BY <1>1, <1>10, PutAt
<1>12. c2 \in Arr(K1) /\ c2.at[0] = n /\ c2.at[1] = c /\ c2.at[K1] = 0
  BY <1>1, <1>3, <1>10, <1>11 DEF IsPut
<1> HIDE DEF c2
<1>13. c3 \in Arr(K1) /\ c3.n = 2 /\ c3.at[0] = n /\ c3.at[1] = c /\ c3.at[K1] = 0
  BY <1>12 DEF Counted, Arr
<1> HIDE DEF a2, c3
<1>14. nd \in NodeType /\ nd.parent = 0 /\ nd.key = a2 /\ nd.data = a2 /\ nd.child = c3
  BY <1>2, <1>3, <1>7, <1>13 DEF NodeType
<1>15. NodeOK(nd, L)
  <2>1. Fits(a2, K) /\ Fits(c3, K + 1)
    BY <1>1, <1>3, <1>7, <1>13 DEF Fits, At
  <2>2. \A i \in 0 .. c3.n - 1 : c3.at[i] \in 1 .. L
    BY <1>13
  <2>3. \A i \in 0 .. a2.n - 1 : a2.at[i] \in Keys
    BY <1>7
  <2> QED BY <1>14, <2>1, <2>2, <2>3 DEF NodeOK
<1> QED BY <1>7, <1>13, <1>14, <1>15 DEF IsRoot

IsNewRoot(T2, V, n, k, c) ==
  /\ TreeOK(T2) /\ Len(T2.node) = Len(V.node) + 1
  /\ T2.root = Len(V.node) + 1 /\ T2.meta = Len(V.node) + 1 /\ T2.up = V.up
  /\ \A m \in 1 .. Len(V.node) :
       /\ SameArrays(T2.node[m], V.node[m])
       /\ T2.node[m].parent = IF m \in {n, c} THEN Len(V.node) + 1 ELSE V.node[m].parent
  /\ T2.node[Len(V.node) + 1].parent = 0 /\ IsRoot(T2.node[Len(V.node) + 1], n, k, c)

\* What a new root leaves in the file.
LEMMA NewRootTree ==
  ASSUME NEW V, TreeOK(V), NEW n \in 1 .. Len(V.node), NEW c \in 1 .. Len(V.node), NEW k \in Keys,
         NEW T2, T2 = NewRoot(V, n, k, k, c)
  PROVE  IsNewRoot(T2, V, n, k, c)
<1> DEFINE s == V.node
           L == Len(s)
           r == L + 1
           R == RootNode(n, k, c)
           t == Append(s, R)
           W == [V EXCEPT !.node = t, !.root = r, !.meta = r]
<1>1. V \in TreeType /\ s \in Seq(NodeType) /\ L \in Nat /\ r \in Nat
  BY DEF TreeOK, TreeType
<1>2. R \in NodeType /\ NodeOK(R, L) /\ IsRoot(R, n, k, c) /\ R.parent = 0
  <2>1. L \in Nat /\ n \in 1 .. L /\ c \in 1 .. L
    BY <1>1
  <2> HIDE DEF L
  <2> QED BY <2>1, RootNodeOK
<1>3. T2 = Adopt(W, r)
  <2>1. MetaRoot([V EXCEPT !.node = t, !.root = r], r) = W
    BY <1>1 DEF MetaRoot, TreeType
  <2>2. T2 = Adopt(MetaRoot([V EXCEPT !.node = t, !.root = r], r), r)
    BY DEF NewRoot, RootNode
  <2> QED BY <2>1, <2>2
<1> HIDE DEF s, R
<1>4. t \in Seq(NodeType) /\ Len(t) = r /\ t[r] = R /\ \A m \in 1 .. L : t[m] = s[m]
  BY <1>1, <1>2
<1> HIDE DEF t
<1>5. W \in TreeType /\ W.node = t /\ W.root = r /\ W.meta = r /\ W.up = V.up
  <2> HIDE DEF r
  <2> QED BY <1>1, <1>4 DEF TreeType
<1> HIDE DEF W
<1>6. \A m \in 1 .. r : NodeOK(t[m], r)
  <2>0. L <= r
    BY <1>1
  <2>1. \A m \in 1 .. L : NodeOK(s[m], L)
    BY DEF TreeOK, s
  <2>2. NodeOK(R, r) /\ \A m \in 1 .. L : NodeOK(s[m], r)
    <3> HIDE DEF L, r
    <3> QED BY <1>1, <1>2, <2>0, <2>1, NodeStays
  <2>3. SUFFICES ASSUME NEW m \in 1 .. r PROVE NodeOK(t[m], r)
    OBVIOUS
  <2>4. CASE m = r
    BY <1>4, <2>2, <2>4
  <2>5. CASE m # r
    <3>1. m \in 1 .. L
      BY <1>1, <2>5
    <3> QED BY <1>4, <2>2, <3>1
  <2> QED BY <2>4, <2>5
<1>7. TreeOK(W) /\ r \in 1 .. Len(W.node)
  BY <1>1, <1>4, <1>5, <1>6 DEF TreeOK
<1>8. AdoptedBy(T2, W, r)
  <2> HIDE DEF r
  <2> QED BY <1>3, <1>7, Adopts
<1>9. ChildNodes(W, r) = {n, c}
  <2>1. W.node[r] = R
    BY <1>4, <1>5
  <2>2. R.child.n = 2 /\ R.child.at[0] = n /\ R.child.at[1] = c
    BY <1>2 DEF IsRoot
  <2>3. ChildNodes(W, r) = {R.child.at[i] : i \in 0 .. 1}
    BY <2>1, <2>2 DEF ChildNodes, At
  <2>4. 0 .. 1 = {0, 1}
    OBVIOUS
  <2> QED BY <2>2, <2>3, <2>4
<1>10. \A m \in 1 .. r : /\ SameArrays(T2.node[m], t[m])
                         /\ T2.node[m].parent = IF m \in {n, c} THEN r ELSE t[m].parent
  BY <1>4, <1>5, <1>8, <1>9 DEF AdoptedBy
<1>11. TreeOK(T2) /\ Len(T2.node) = r /\ T2.root = r /\ T2.meta = r /\ T2.up = V.up
  BY <1>4, <1>5, <1>8 DEF AdoptedBy, SameHead
<1>12. r \notin {n, c} /\ r \in 1 .. r
  BY <1>1 DEF s
<1>13. T2.node[r].parent = 0 /\ IsRoot(T2.node[r], n, k, c)
  BY <1>2, <1>4, <1>10, <1>12 DEF SameArrays, IsRoot
<1>14. \A m \in 1 .. L : /\ SameArrays(T2.node[m], s[m])
                         /\ T2.node[m].parent = IF m \in {n, c} THEN r ELSE s[m].parent
  BY <1>1, <1>4, <1>10
<1> QED BY <1>11, <1>13, <1>14 DEF IsNewRoot, s

\* The split of the root ends with a tree that represents a forest.
LEMMA SplitTop ==
  ASSUME NEW T, NEW G, NEW n, NEW k, NEW c, Pending(T, G, n, k, c), ~HasSpace(T.node[n]),
         T.node[n].parent = 0,
         NEW x, x = SplitONode(T, n, k, k, c),
         NEW T2, T2 = NewRoot(x.tree, n, x.key, x.data, x.right)
  PROVE  \E H : Represents(T2, H) /\ Content(H) = Content(G)
<1> DEFINE s == SeparatorKeyIndex
           L == Len(T.node)
           new == L + 1
           r == L + 2
           V == x.tree
           kk == G.key[n][s]
           F == Grow(G, r)
<1>1. /\ Forest(G) /\ TreeOK(T) /\ Links(T, G) /\ n \in G.live /\ G.height[n] <= G.height[G.top]
      /\ \A a \in G.live : a # n => Stored(T, G, a)
  BY Zenon DEF Pending
<1>2. L \in Nat /\ G.live \subseteq 1 .. L /\ n \in 1 .. L
  BY PendingChild, Zenon
<1>3. s \in Nat /\ 0 < s /\ s < K /\ K \in Nat
  BY SepIs, Zenon
<1> HIDE DEF s
<1>4. IsSplit(x, T, G, n, s)
  BY SplitTree, Zenon DEF s
<1>5. \A a \in G.live : G.height[a] \in Nat /\ G.count[a] \in Nat
  BY <1>1, Zenon DEF Forest, Labelled
<1>6. G.top \in G.live /\ G.meta \in G.live /\ G.height[G.top] <= G.height[G.meta]
  BY <1>1, Zenon DEF Forest, Chain
<1>7. n = G.top
  <2>1. T.node[n].parent = Up(G, n)
    BY <1>1, Zenon DEF Links
  <2>2. CASE G.height[G.top] <= G.height[n]
    <3>1. G.height[n] = G.height[G.top]
      BY <1>1, <1>5, <1>6, <2>2
    <3> QED BY <1>1, <1>6, <2>2, <3>1, Zenon DEF Forest, Chain
  <2>3. CASE ~(G.height[G.top] <= G.height[n])
    <3>1. n # G.meta
      BY <1>6, <2>3, Zenon
    <3>2. G.parent[n] \in G.live
      BY <1>1, <3>1, Zenon DEF Forest, Attached, IsChild
    <3>3. G.parent[n] = 0
      BY <2>1, <2>3, Zenon DEF Up
    <3> QED BY <1>2, <3>2, <3>3
  <2> QED BY <2>2, <2>3, Zenon
<1>8. G.count[n] = K + 1 /\ kk \in Keys
  <2>1. G.count[n] = K + 1
    BY <1>4, Zenon DEF IsSplit
  <2>2. s \in 0 .. G.count[n] - 1
    BY <1>3, <2>1
  <2> QED BY <1>1, <2>1, <2>2, Zenon DEF Forest, KeysOK, Ascending
<1>9. /\ TreeOK(V) /\ Len(V.node) = new /\ SameHead(V, T)
      /\ x.key = kk /\ x.data = kk /\ x.right = new
  BY <1>4, Zenon DEF IsSplit
<1>10. n \in 1 .. Len(V.node) /\ new \in 1 .. Len(V.node) /\ Len(V.node) + 1 = r /\ r \in Nat \ {0}
  BY <1>2, <1>9
<1>11. IsNewRoot(T2, V, n, kk, new)
  <2>1. T2 = NewRoot(V, n, kk, kk, new)
    BY <1>9, Zenon
  <2> HIDE DEF new, kk, V
  <2> QED BY <1>8, <1>9, <1>10, <2>1, NewRootTree, Zenon
<1>12. new \in Nat \ {0} /\ new \notin G.live /\ r \notin G.live /\ r # new /\ r # n /\ new # n
  BY <1>2
<1> HIDE DEF new, r, V
<1>13. Forest(F) /\ Content(F) = Content(G) /\ IsChild(F, r, 0, n)
  <2> HIDE DEF F
  <2>1. F = Grow(G, r)
    BY Zenon DEF F
  <2>2. Forest(F) /\ Content(F) = Content(G) /\ IsChild(F, r, 0, G.top)
    BY <1>1, <1>10, <1>12, <2>1, GrowOK, Zenon
  <2> QED BY <1>7, <2>2, Zenon
<1>14. F.live = {m \in G.live : G.height[m] <= G.height[n]} \cup {r} /\ F.top = n /\ F.meta = r
  BY <1>7, Zenon DEF Grow
<1>15. F.key = G.key /\ \A m \in Nat \ {r} : F.count[m] = G.count[m] /\ F.child[m] = G.child[m]
                                             /\ F.height[m] = G.height[m]
  BY Zenon DEF Grow
<1>16. F.count[r] = 0 /\ F.height[r] = G.height[n] + 1 /\ \A j \in Nat : F.child[r][j] = n
  BY <1>7, <1>10, Zenon DEF Grow
<1>17. \A m \in Nat : F.parent[m] = IF m = n THEN r ELSE G.parent[m]
  BY <1>7, Zenon DEF Grow
<1> HIDE DEF F
<1>18. CanSplit(F, n, new, s, r, 0)
  <2>1. F.count[n] = K + 1
    BY <1>2, <1>8, <1>12, <1>15
  <2>2. new \notin F.live
    BY <1>12, <1>14, Zenon
  <2> QED BY <1>3, <1>12, <1>13, <2>1, <2>2 DEF CanSplit
<1> DEFINE H == Split(F, n, new, s, r, 0)
<1> HIDE DEF H
<1>19. H = Split(F, n, new, s, r, 0)
  BY Zenon DEF H
<1>20. Forest(H) /\ Content(H) = Content(F)
  BY <1>18, <1>19, SplitOK, SplitContent
<1>21. /\ H.live = F.live \cup {new} /\ H.meta = F.meta
       /\ H.top = IF F.height[F.top] < F.height[r] THEN r ELSE F.top
  BY <1>18, <1>19, SplitFields
<1>22. /\ \A m \in Nat \ {n, new, r} : H.count[m] = F.count[m]
       /\ H.count[n] = s /\ H.count[new] = F.count[n] - s - 1 /\ H.count[r] = F.count[r] + 1
  BY <1>18, <1>19, SplitFields
<1>23. \A m \in Nat \ {new, r} : H.key[m] = F.key[m] /\ H.child[m] = F.child[m]
  BY <1>18, <1>19, SplitFields
<1>24. H.key[new] = Shifted(F.key[n], s + 1) /\ H.child[new] = Shifted(F.child[n], s + 1)
  BY <1>18, <1>19, SplitFields
<1>25. H.key[r] = Inserted(F.key[r], 0, F.key[n][s]) /\ H.child[r] = Inserted(F.child[r], 0 + 1, new)
  BY <1>18, <1>19, SplitFields
<1>26. (\A m \in Nat \ {new} : H.height[m] = F.height[m]) /\ H.height[new] = F.height[n]
  BY <1>18, <1>19, SplitFields
<1>27. /\ H.parent[new] = r
       /\ \A m \in Nat \ {new} : H.parent[m] = IF MovesRight(F, n, s, m) THEN new ELSE F.parent[m]
  BY <1>18, <1>19, SplitFields
<1>28. /\ n \in Nat /\ n \in Nat \ {r} /\ F.height[n] = G.height[n] /\ F.count[n] = K + 1
       /\ F.child[n] = G.child[n] /\ F.key[n] = G.key[n] /\ G.height[n] \in Nat
  BY <1>1, <1>2, <1>5, <1>8, <1>12, <1>15
<1>29. H.top = r /\ H.meta = r
  BY <1>14, <1>16, <1>21, <1>28
<1>30. \A m : MovesRight(F, n, s, m) <=> MovesRight(G, n, s, m)
  BY <1>8, <1>28, Zenon DEF MovesRight
<1>31. /\ H.height[r] = G.height[n] + 1 /\ H.height[new] = G.height[n] /\ H.height[n] = G.height[n]
       /\ \A a \in G.live : H.height[a] = G.height[a]
  BY <1>2, <1>10, <1>12, <1>15, <1>16, <1>26, <1>28, SMTT(20)
<1>32. H.live = {m \in G.live : G.height[m] <= G.height[n]} \cup {r, new}
  BY <1>14, <1>21, Zenon
<1>33. \A a \in G.live : G.height[a] <= G.height[n] => a = n \/ G.height[a] < G.height[n]
  BY <1>1, <1>5, <1>6, <1>7 DEF Forest, Chain
<1>34. \A m \in 1 .. L : m # n => SameArrays(V.node[m], T.node[m])
  BY <1>4, Zenon DEF IsSplit, V
<1>35. \A m \in 1 .. L : V.node[m].parent = IF MovesRight(G, n, s, m) THEN new ELSE T.node[m].parent
  BY <1>4, Zenon DEF IsSplit, V, new
<1>36. /\ TreeOK(T2) /\ Len(T2.node) = r /\ T2.root = r /\ T2.meta = r /\ T2.up = V.up
       /\ T2.node[r].parent = 0 /\ IsRoot(T2.node[r], n, kk, new)
  BY <1>10, <1>11, Zenon DEF IsNewRoot
<1>37. \A m \in 1 .. new : /\ SameArrays(T2.node[m], V.node[m])
                           /\ T2.node[m].parent = IF m \in {n, new} THEN r ELSE V.node[m].parent
  BY <1>9, <1>10, <1>11, Zenon DEF IsNewRoot
<1>38. new \in 1 .. new /\ 1 .. L \subseteq 1 .. new /\ r = L + 2 /\ new = L + 1
  BY <1>2 DEF new, r
<1>39. ~MovesRight(G, n, s, n)
  <2>1. SUFFICES ASSUME NEW j \in s + 1 .. G.count[n], G.child[n][j] = n, G.height[n] # 0 PROVE FALSE
    BY Zenon DEF MovesRight
  <2>2. j \in 0 .. G.count[n]
    BY <1>3, <1>8, <2>1
  <2>3. G.height[n] + 1 = G.height[n]
    BY <1>1, <2>1, <2>2 DEF Forest, ChildrenOK, ChildOK
  <2> QED BY <1>28, <2>3
<1>40. Links(T2, H)
  <2>1. H.live \subseteq 1 .. Len(T2.node) /\ T2.meta = H.meta /\ T2.root \in H.live
    BY <1>2, <1>29, <1>32, <1>36, <1>38
  <2>2. T2.up = TRUE
    BY <1>1, <1>9, <1>36, Zenon DEF Links, SameHead
  <2>3. H.height[H.top] <= H.height[T2.root] /\ H.height[H.meta] < Len(T2.node)
    <3>1. G.height[n] < L
      BY <1>1, <1>2, <1>5, <1>6, <1>7 DEF Links
    <3> QED BY <1>2, <1>28, <1>29, <1>31, <1>36, <1>38, <3>1
  <2>4. ASSUME NEW a \in H.live PROVE T2.node[a].parent = Up(H, a)
    <3>1. CASE a = r
      BY <1>28, <1>29, <1>31, <1>36, <3>1 DEF Up
    <3>2. CASE a = new
      <4>1. ~(H.height[H.top] <= H.height[new]) /\ H.parent[new] = r
        BY <1>27, <1>28, <1>29, <1>31
      <4> QED BY <1>37, <1>38, <3>2, <4>1, Zenon DEF Up
    <3>3. CASE a = n
      <4>1. ~(H.height[H.top] <= H.height[n]) /\ H.parent[n] = r
        BY <1>12, <1>17, <1>27, <1>28, <1>29, <1>30, <1>31, <1>39
      <4> QED BY <1>2, <1>37, <1>38, <3>3, <4>1, Zenon DEF Up
    <3>4. CASE a # r /\ a # new /\ a # n
      <4>1. a \in G.live /\ G.height[a] < G.height[n] /\ a \in 1 .. L /\ a \in Nat \ {new} /\ G.height[a] \in Nat
        BY <1>2, <1>5, <1>32, <1>33, <2>4, <3>4
      <4>2. ~(H.height[H.top] <= H.height[a]) /\ ~(G.height[G.top] <= G.height[a])
        BY <1>7, <1>28, <1>29, <1>31, <4>1
      <4>3. H.parent[a] = IF MovesRight(G, n, s, a) THEN new ELSE G.parent[a]
        BY <1>17, <1>27, <1>30, <3>4, <4>1, Zenon
      <4>4. T.node[a].parent = G.parent[a]
        BY <1>1, <4>1, <4>2, Zenon DEF Links, Up
      <4>5. T2.node[a].parent = V.node[a].parent
        BY <1>37, <1>38, <3>4, <4>1, Zenon
      <4> QED BY <1>35, <4>1, <4>2, <4>3, <4>4, <4>5, Zenon DEF Up
    <3> QED BY <3>1, <3>2, <3>3, <3>4, Zenon
  <2> QED BY <2>1, <2>2, <2>3, <2>4, Zenon DEF Links
<1>41. ASSUME NEW a \in H.live PROVE Stored(T2, H, a)
  <2>1. CASE a = n
    <3>1. Holds(V.node[n], G.key[n], s, G.child[n], G.height[n])
      BY <1>4, Zenon DEF IsSplit, V
    <3>2. SameArrays(T2.node[n], V.node[n])
      BY <1>2, <1>37, <1>38, Zenon
    <3>3. Holds(T2.node[n], G.key[n], s, G.child[n], G.height[n])
      BY <3>1, <3>2, SameHolds, Zenon
    <3>4. H.key[n] = G.key[n] /\ H.count[n] = s /\ H.child[n] = G.child[n] /\ H.height[n] = G.height[n]
      BY <1>12, <1>22, <1>23, <1>28, <1>31, Zenon
    <3> QED BY <2>1, <3>3, <3>4, Zenon DEF Stored
  <2>2. CASE a = new
    <3>1. Holds(V.node[new], Shifted(G.key[n], s + 1), K - s, Shifted(G.child[n], s + 1), G.height[n])
      BY <1>4, Zenon DEF IsSplit, V, new
    <3>2. SameArrays(T2.node[new], V.node[new])
      BY <1>37, <1>38, Zenon
    <3>3. Holds(T2.node[new], Shifted(G.key[n], s + 1), K - s, Shifted(G.child[n], s + 1), G.height[n])
      BY <3>1, <3>2, SameHolds
    <3>4. /\ H.key[new] = Shifted(G.key[n], s + 1) /\ H.child[new] = Shifted(G.child[n], s + 1)
          /\ H.height[new] = G.height[n]
      BY <1>24, <1>28, <1>31, Zenon
    <3>5. H.count[new] = K - s
      BY <1>3, <1>22, <1>28, SMTT(20)
    <3> QED BY <2>2, <3>3, <3>4, <3>5, Zenon DEF Stored
  <2>3. CASE a = r
    <3>1. H.key[r][0] = kk
      BY <1>25, <1>28 DEF Inserted
    <3>2. H.child[r][0] = n /\ H.child[r][1] = new
      BY <1>16, <1>25 DEF Inserted
    <3>3. H.count[r] = 1 /\ H.height[r] # 0
      BY <1>16, <1>22, <1>28, <1>31
    <3>4. 0 .. 1 - 1 = {0} /\ 0 .. 1 = {0, 1}
      OBVIOUS
    <3> HIDE DEF kk
    <3> QED BY ONLY <1>36, <2>3, <3>1, <3>2, <3>3, <3>4 DEF Stored, Holds, IsRoot
  <2>4. CASE a # r /\ a # new /\ a # n
    <3>1. a \in G.live /\ a \in 1 .. L /\ a \in Nat \ {n, new, r} /\ a \in 1 .. new
      BY <1>2, <1>32, <1>38, <1>41, <2>4
    <3>2. SameArrays(V.node[a], T.node[a]) /\ SameArrays(T2.node[a], V.node[a])
      BY <1>34, <1>37, <3>1, Zenon
    <3>3. SameArrays(T2.node[a], T.node[a])
      BY <3>2, Zenon DEF SameArrays
    <3>4. Holds(T.node[a], G.key[a], G.count[a], G.child[a], G.height[a])
      BY <1>1, <3>1, Zenon DEF Stored
    <3>5. Holds(T2.node[a], G.key[a], G.count[a], G.child[a], G.height[a])
      BY <3>3, <3>4, SameHolds, Zenon
    <3>6. H.key[a] = G.key[a] /\ H.count[a] = G.count[a] /\ H.child[a] = G.child[a] /\ H.height[a] = G.height[a]
      BY <1>15, <1>22, <1>23, <1>31, <3>1, Zenon
    <3> QED BY <3>5, <3>6, Zenon DEF Stored
  <2> QED BY <2>1, <2>2, <2>3, <2>4, Zenon
<1>42. Represents(T2, H)
  BY <1>20, <1>36, <1>40, <1>41, Zenon DEF Represents
<1> QED BY <1>13, <1>20, <1>42, Zenon

CallType == [tree : TreeType, n : Nat, k : Nat, d : Nat, c : Nat]

Finished(s, C) == s.n = 0 /\ \E H : Represents(s.tree, H) /\ Content(H) = C

\* The call on the node at height i of the way up to the top at height h.
Calling(s, i, h, C) ==
  /\ s.n # 0 /\ s.d = s.k
  /\ \E H : /\ Pending(s.tree, H, s.n, s.k, s.c) /\ Content(H) = C
            /\ H.height[s.n] = i /\ H.height[H.top] = h

CallOK(s, i, h, C) == s \in CallType /\ (Finished(s, C) \/ Calling(s, i, h, C))

\* What is missing is a key and a node.
LEMMA PendingKey ==
  ASSUME NEW T, NEW G, NEW n, NEW k, NEW c, Pending(T, G, n, k, c)
  PROVE  T \in TreeType /\ k \in Nat /\ k \in Keys /\ c \in Nat /\ n \in Nat
<1>1. T \in TreeType
  BY DEF Pending, TreeOK
<1>2. PICK m, pos : Lacks(T.node[n], G.key[n], m, G.child[n], G.height[n], pos, k, c)
  BY DEF Pending
<1>3. k \in Keys
  BY <1>2 DEF Lacks, Ordered
<1>4. c \in Nat /\ n \in Nat
  BY PendingChild
<1> QED BY <1>1, <1>3, <1>4, FiveNat

Ended(s, T2) == [s EXCEPT !.tree = T2, !.n = 0]

\* A call that makes no further one.
LEMMA LastCall ==
  ASSUME NEW s \in CallType, NEW T2 \in TreeType, NEW r, r = Ended(s, T2)
  PROVE  r \in CallType /\ r.tree = T2 /\ r.n = 0
<1>1. r \in CallType
  BY DEF CallType, Ended
<1>2. r.tree = T2
  BY DEF CallType, Ended
<1>3. r.n = 0
  BY DEF CallType, Ended
<1> QED BY <1>1, <1>2, <1>3

\* Every call of recursiveAdd finishes, or goes one level up.
LEMMA AddCall ==
  ASSUME NEW i \in Nat, NEW h, NEW C, NEW s, CallOK(s, i, h, C), NEW r, r = RecursiveAddCall(s)
  PROVE  CallOK(r, i + 1, h, C)
<1>1. s \in CallType
  BY DEF CallOK
<1>2. CASE s.n = 0
  <2>1. r = s /\ Finished(s, C)
    BY <1>2 DEF RecursiveAddCall, CallOK, Calling
  <2> QED BY <1>1, <2>1 DEF CallOK
<1>3. CASE s.n # 0
  <2> DEFINE T == s.tree
             n == s.n
             k == s.k
             c == s.c
             x == SplitONode(T, n, k, k, c)
             p == T.node[n].parent
  <2>1. s.d = s.k
    BY <1>3 DEF CallOK, Finished, Calling
  <2>2. PICK G : /\ Pending(T, G, n, k, c) /\ Content(G) = C
                 /\ G.height[n] = i /\ G.height[G.top] = h
    BY <1>3 DEF CallOK, Finished, Calling
  <2>3. CASE HasSpace(T.node[n])
    <3> DEFINE T2 == SimpleAdd(T, n, k, k, c)
    <3>1. r = Ended(s, T2)
      BY <1>3, <2>1, <2>3 DEF RecursiveAddCall, Ended
    <3> HIDE DEF T2
    <3>2. Represents(T2, G)
      <4> HIDE DEF T, n, k, c
      <4> QED BY <2>2, <2>3, SimpleAddOK DEF T2
    <3>3. T2 \in TreeType
      BY <3>2 DEF Represents, TreeOK
    <3>4. r \in CallType /\ r.tree = T2 /\ r.n = 0
      BY <1>1, <3>1, <3>3, LastCall
    <3> QED BY <2>2, <3>2, <3>4 DEF CallOK, Finished
  <2>4. CASE ~HasSpace(T.node[n]) /\ p = 0
    <3> DEFINE T2 == NewRoot(x.tree, n, x.key, x.data, x.right)
    <3>1. r = Ended(s, T2)
      BY <1>3, <2>1, <2>4 DEF RecursiveAddCall, Ended
    <3> HIDE DEF T2
    <3>2. PICK H : Represents(T2, H) /\ Content(H) = Content(G)
      <4>1. T2 = NewRoot(x.tree, n, x.key, x.data, x.right) /\ T.node[n].parent = 0
        BY <2>4 DEF T2
      <4>2. x = SplitONode(T, n, k, k, c)
        OBVIOUS
      <4> HIDE DEF T, n, k, c, x
      <4> QED BY <2>2, <2>4, <4>1, <4>2, SplitTop
    <3>3. T2 \in TreeType
      BY <3>2 DEF Represents, TreeOK
    <3>4. r \in CallType /\ r.tree = T2 /\ r.n = 0
      BY <1>1, <3>1, <3>3, LastCall
    <3> QED BY <2>2, <3>2, <3>4 DEF CallOK, Finished
  <2>5. CASE ~HasSpace(T.node[n]) /\ p # 0
    <3>1. r = [tree |-> x.tree, n |-> p, k |-> x.key, d |-> x.data, c |-> x.right]
      BY <1>3, <2>1, <2>5 DEF RecursiveAddCall
    <3>2. x = SplitONode(T, n, k, k, c) /\ p = T.node[n].parent
      OBVIOUS
    <3> HIDE DEF T, n, k, c, x, p
    <3>3. /\ x.data = x.key
          /\ \E H : /\ Pending(x.tree, H, p, x.key, x.right) /\ Content(H) = Content(G)
                    /\ Heights(G, H, n, p)
      BY <2>2, <2>5, <3>2, SplitUp
    <3>4. PICK H : /\ Pending(x.tree, H, p, x.key, x.right) /\ Content(H) = Content(G)
                   /\ Heights(G, H, n, p)
      BY <3>3
    <3>5. x.tree \in TreeType /\ x.key \in Nat /\ x.data \in Nat /\ x.right \in Nat /\ p \in Nat
      BY <3>3, <3>4, PendingKey
    <3>6. /\ r \in CallType /\ r.tree = x.tree /\ r.n = p /\ r.k = x.key /\ r.d = x.data /\ r.c = x.right
      BY <3>1, <3>5 DEF CallType
    <3>7. H.height[p] = i + 1 /\ H.height[H.top] = h
      BY <2>2, <3>4 DEF Heights
    <3> QED BY <2>2, <2>5, <3>3, <3>4, <3>6, <3>7 DEF CallOK, Calling
  <2> QED BY <2>3, <2>4, <2>5
<1> QED BY <1>2, <1>3

\* The calls on the way up end before the nodes do.
LEMMA RecursiveAddOK ==
  ASSUME NEW T, NEW G, NEW n, NEW k, Pending(T, G, n, k, 0), G.height[n] = 0,
         NEW T2, T2 = RecursiveAdd(T, n, k, k, 0)
  PROVE  \E H : Represents(T2, H) /\ Content(H) = Content(G)
<1> DEFINE N == Len(T.node)
           h == G.height[G.top]
           C == Content(G)
           s0 == [tree |-> T, n |-> n, k |-> k, d |-> k, c |-> 0]
           D == {s \in CallType : \E i \in Nat : CallOK(s, i, h, C)}
           g == [s \in D |-> RecursiveAddCall(s)]
           Step(f) == [i \in 0 .. N |-> IF i = 0 THEN s0 ELSE RecursiveAddCall(f[i - 1])]
           call == CHOOSE f : f = Step(f)
<1>0. N \in Nat /\ n \in 1 .. N
  BY PendingChild
<1>1. CallOK(s0, 0, h, C)
  <2>1. T \in TreeType /\ k \in Nat /\ n \in Nat
    BY PendingKey
  <2>2. s0 \in CallType
    BY <2>1 DEF CallType
  <2>3. s0.n = n /\ s0.k = k /\ s0.d = k /\ s0.c = 0 /\ s0.tree = T /\ n # 0
    BY <1>0
  <2> HIDE DEF s0
  <2> QED BY <2>2, <2>3 DEF CallOK, Calling
<1>2. s0 \in D
  BY <1>1 DEF CallOK
<1>3. \A s \in D : RecursiveAddCall(s) \in D
  <2>1. SUFFICES ASSUME NEW s \in D PROVE RecursiveAddCall(s) \in D
    OBVIOUS
  <2>2. PICK i \in Nat : CallOK(s, i, h, C)
    OBVIOUS
  <2> DEFINE r == RecursiveAddCall(s)
  <2>3. CallOK(r, i + 1, h, C)
    <3>1. r = RecursiveAddCall(s)
      OBVIOUS
    <3> HIDE DEF r, h, C
    <3> QED BY <2>2, <3>1, AddCall
  <2>4. i + 1 \in Nat /\ r \in CallType
    BY <2>3 DEF CallOK
  <2> HIDE DEF r
  <2>5. r \in D
    BY <2>3, <2>4
  <2> QED BY <2>5 DEF r
<1> HIDE DEF D, s0, h, C
<1>4. g \in [D -> D]
  BY <1>3
<1>5. PICK f \in [0 .. N -> D] : Iterates(f, N, s0, g)
  <2> HIDE DEF g, N
  <2> QED BY <1>0, <1>2, <1>4, Iterated
<1>6. f = Step(f)
  <2> HIDE DEF N
  <2>1. ASSUME NEW i \in 0 .. N PROVE f[i] = Step(f)[i]
    <3>1. CASE i = 0
      BY <1>5, <3>1 DEF Iterates
    <3>2. CASE i # 0
      <4>1. i \in 1 .. N /\ i - 1 \in 0 .. N
        BY <1>0, <3>2
      <4>2. f[i] = g[f[i - 1]]
        BY <1>5, <4>1 DEF Iterates
      <4>3. f[i - 1] \in D
        BY <4>1
      <4> QED BY <3>2, <4>2, <4>3
    <3> QED BY <3>1, <3>2
  <2> QED BY <2>1
<1>7. call = Step(call)
  <2>1. \E F : F = Step(F)
    BY <1>6
  <2> HIDE DEF Step
  <2> QED BY <2>1, Zenon
<1>8. T2 = call[N].tree
  BY Zenon DEF RecursiveAdd, s0
<1> HIDE DEF call, N
<1>9. call[0] = s0
  <2>1. 0 \in 0 .. N
    BY <1>0
  <2> QED BY <1>7, <2>1
<1>10. ASSUME NEW i \in 1 .. N PROVE call[i] = RecursiveAddCall(call[i - 1])
  <2>1. i \in 0 .. N /\ i # 0
    BY <1>0
  <2> QED BY <1>7, <2>1
<1> HIDE DEF Step
<1> DEFINE Q == {i \in Nat : i <= N => CallOK(call[i], i, h, C)}
<1>11. Nat \subseteq Q
  <2>1. 0 \in Q
    BY <1>1, <1>9
  <2>2. ASSUME NEW i \in Nat, i \in Q PROVE i + 1 \in Q
    <3>1. SUFFICES ASSUME i + 1 <= N PROVE CallOK(call[i + 1], i + 1, h, C)
      OBVIOUS
    <3>2. i + 1 \in 1 .. N /\ i <= N /\ i + 1 - 1 = i
      BY <1>0, <3>1
    <3>3. call[i + 1] = RecursiveAddCall(call[i]) /\ CallOK(call[i], i, h, C)
      BY <1>10, <2>2, <3>2
    <3> QED BY <3>3, AddCall
  <2> HIDE DEF Q
  <2> QED BY <2>1, <2>2, Induction
<1>12. CallOK(call[N], N, h, C)
  BY <1>0, <1>11
<1>13. h \in Nat /\ h < N
  <2>1. Forest(G) /\ Links(T, G)
    BY DEF Pending
  <2>2. G.top \in G.live /\ G.meta \in G.live /\ G.height[G.top] <= G.height[G.meta]
        /\ G.height[G.top] \in Nat /\ G.height[G.meta] \in Nat
    BY <2>1 DEF Forest, Chain, Labelled
  <2>3. G.height[G.meta] < N
    BY <2>1 DEF Links, N
  <2> QED BY <1>0, <2>2, <2>3 DEF h
<1>14. ~Calling(call[N], N, h, C)
  <2>1. SUFFICES ASSUME NEW H, Pending(call[N].tree, H, call[N].n, call[N].k, call[N].c),
                        H.height[call[N].n] = N, H.height[H.top] = h
                 PROVE FALSE
    BY DEF Calling
  <2>2. N <= h
    BY <2>1 DEF Pending
  <2> QED BY <1>0, <1>13, <2>2
<1>15. Finished(call[N], C)
  BY <1>12, <1>14 DEF CallOK
<1> QED BY <1>8, <1>15 DEF Finished, C

-----------------------------------------------------------------------------
(* Where searches end                                                      *)

\* A step that stays in D leads from n to a node of D.
Stays(step, D) == \A m \in D : step[m] \in D
ComesTo(T, step, n, D) ==
  \E at \in [0 .. Len(T.node) -> D] :
    Iterates(at, Len(T.node), n, step) /\ Descent(T, step, n) = at[Len(T.node)]

\* DescentAt, for a step that stays in a set.
LEMMA DescentComes ==
  ASSUME NEW T, Len(T.node) \in Nat, NEW D, NEW n \in D, NEW step, Stays(step, D)
  PROVE  ComesTo(T, step, n, D)
BY DescentAt DEF Stays, ComesTo

NodeIs(T, G, m) ==
  /\ m \in 1 .. Len(T.node) /\ G.count[m] \in Nat /\ G.height[m] \in Nat
  /\ T.node[m].key.n = G.count[m] /\ T.node[m].data.n = G.count[m]
  /\ \A j \in 0 .. G.count[m] - 1 : /\ T.node[m].key.at[j] = G.key[m][j]
                                    /\ T.node[m].data.at[j] = G.key[m][j]
                                    /\ G.key[m][j] \in Keys
  /\ T.node[m].child.n = IF G.height[m] = 0 THEN 0 ELSE G.count[m] + 1
  /\ G.height[m] # 0 =>
       \A j \in 0 .. G.count[m] : /\ T.node[m].child.at[j] = G.child[m][j]
                                  /\ G.child[m][j] \in G.live
                                  /\ G.height[G.child[m][j]] + 1 = G.height[m]
                                  /\ G.range[G.child[m][j]] = Gap(G, m, j)

\* What a live node of the tree holds.
LEMMA NodeFacts ==
  ASSUME NEW T, NEW G, Represents(T, G), NEW m \in G.live
  PROVE  NodeIs(T, G, m)
<1>1. Forest(G) /\ Links(T, G) /\ Holds(T.node[m], G.key[m], G.count[m], G.child[m], G.height[m])
  BY DEF Represents, Stored
<1>2. m \in 1 .. Len(T.node) /\ G.count[m] \in Nat /\ G.height[m] \in Nat
  BY <1>1 DEF Links, Forest, Labelled
<1>3. \A j \in 0 .. G.count[m] - 1 : G.key[m][j] \in Keys
  BY <1>1 DEF Forest, KeysOK, Ascending
<1>4. G.height[m] # 0 =>
       \A j \in 0 .. G.count[m] : /\ G.child[m][j] \in G.live
                                  /\ G.height[G.child[m][j]] + 1 = G.height[m]
                                  /\ G.range[G.child[m][j]] = Gap(G, m, j)
  BY <1>1 DEF Forest, ChildrenOK, ChildOK
<1> QED BY <1>1, <1>2, <1>3, <1>4 DEF NodeIs, Holds

\* The live nodes, and the two roots among them.
LEMMA RepNodes ==
  ASSUME NEW T, NEW G, Represents(T, G)
  PROVE  /\ Forest(G) /\ Len(T.node) \in Nat /\ G.live \subseteq 1 .. Len(T.node) /\ 0 \notin G.live
         /\ T.root \in G.live /\ T.meta \in G.live /\ T.meta = G.meta
         /\ G.height[G.top] <= G.height[T.root] /\ G.height[G.top] <= G.height[T.meta]
         /\ \A m \in G.live : G.height[m] \in Nat /\ G.height[m] < Len(T.node)
         /\ \A m \in G.live : G.height[G.top] <= G.height[m] => G.range[m] = Nat
<1>1. Forest(G) /\ Links(T, G) /\ TreeOK(T)
  BY DEF Represents
<1>2. Len(T.node) \in Nat
  BY <1>1, TreeFields
<1>3. \A m \in G.live : G.height[m] \in Nat
  BY <1>1 DEF Forest, Labelled
<1>4. G.meta \in G.live /\ G.height[G.meta] < Len(T.node) /\ \A m \in G.live : G.height[m] <= G.height[G.meta]
  BY <1>1 DEF Forest, Chain, Links
<1>5. G.top \in G.live
  BY <1>1 DEF Forest, Chain
<1>6. \A m \in G.live : G.height[m] < Len(T.node)
  BY <1>2, <1>3, <1>4
<1>7. \A m \in G.live : G.height[G.top] <= G.height[m] => G.range[m] = Nat
  BY <1>1 DEF Forest, Chain
<1>8. /\ G.live \subseteq 1 .. Len(T.node) /\ T.root \in G.live /\ T.meta = G.meta
      /\ G.height[G.top] <= G.height[T.root]
  BY <1>1 DEF Links
<1> QED BY <1>1, <1>2, <1>3, <1>4, <1>5, <1>6, <1>7, <1>8

\* The place of x among the keys.
LEMMA Place ==
  ASSUME NEW r, r \subseteq Nat, NEW f, NEW m \in Nat, Ascending(r, f, m), NEW x \in r,
         \A j \in 0 .. m - 1 : First5[f[j]] # x,
         NEW i \in 0 .. m,
         \A j \in 0 .. i - 1 : First5[f[j]] <= x,
         i < m => x <= First5[f[i]]
  PROVE  x \in GapOf(r, f, m, i)
<1>0. x \in Nat
  OBVIOUS
<1>1. \A j \in 0 .. m - 1 : First5[f[j]] \in Nat
  BY FiveNat DEF Ascending
<1>2. ASSUME NEW j \in 0 .. m - 1, j < i PROVE First5[f[j]] < x
  <2>1. j \in 0 .. i - 1
    BY <1>2
  <2>2. First5[f[j]] <= x /\ First5[f[j]] # x /\ First5[f[j]] \in Nat
    BY <1>1, <2>1
  <2> QED BY <1>0, <2>2
<1>3. ASSUME NEW j \in 0 .. m - 1, i <= j PROVE x < First5[f[j]]
  <2>1. i \in 0 .. m - 1 /\ i < m
    BY <1>3
  <2>2. x < First5[f[i]]
    <3>1. x <= First5[f[i]] /\ First5[f[i]] # x /\ First5[f[i]] \in Nat
      BY <1>1, <2>1
    <3> QED BY <1>0, <3>1
  <2>3. CASE i = j
    BY <2>2, <2>3
  <2>4. CASE i < j
    <3>1. First5[f[i]] < First5[f[j]]
      BY <2>1, <2>4 DEF Ascending
    <3>2. First5[f[i]] \in Nat /\ First5[f[j]] \in Nat
      BY <1>1, <2>1
    <3> QED BY <1>0, <2>2, <3>1, <3>2
  <2>5. i = j \/ i < j
    BY <1>3
  <2> QED BY <2>3, <2>4, <2>5
<1> QED BY <1>2, <1>3 DEF GapOf

Missing(G, k) == \A j \in Content(G) : First5[j] # First5[k]

\* add comes to the leaf the key belongs to.
LEMMA LeafOK ==
  ASSUME NEW T, NEW G, Represents(T, G), NEW k \in Keys, Missing(G, k), NEW n, n = Leaf(T, T.root, k)
  PROVE  n \in G.live /\ G.height[n] = 0 /\ First5[k] \in G.range[n]
<1> DEFINE N == Len(T.node)
           step == [m \in 1 .. N |->
             LET nd == T.node[m]
                 S  == {i \in 0 .. nd.child.n - 1 : k < At(nd.key, i)}
             IN IF nd.child.n = 0 THEN m
                ELSE At(nd.child, IF S = {} THEN nd.child.n - 1 ELSE Min(S))]
           x == First5[k]
           D == {m \in G.live : x \in G.range[m]}
<1>1. /\ Forest(G) /\ N \in Nat /\ G.live \subseteq 1 .. N
      /\ T.root \in G.live /\ G.height[G.top] <= G.height[T.root]
      /\ \A m \in G.live : G.height[m] \in Nat /\ G.height[m] < N
      /\ \A m \in G.live : G.height[G.top] <= G.height[m] => G.range[m] = Nat
  BY RepNodes
<1>2. x \in Nat /\ k \in Nat
  BY FiveNat, Zenon
<1>3. T.root \in D
  BY <1>1, <1>2, Zenon
<1>4. ASSUME NEW m \in D
      PROVE /\ step[m] \in D
            /\ G.height[m] = 0 => step[m] = m
            /\ G.height[m] # 0 => G.height[step[m]] + 1 = G.height[m]
  <2> DEFINE nd == T.node[m]
             c == G.count[m]
             S == {i \in 0 .. nd.child.n - 1 : k < At(nd.key, i)}
  <2>1. NodeIs(T, G, m)
    BY NodeFacts, Zenon
  <2>2. /\ m \in 1 .. N /\ c \in Nat /\ G.height[m] \in Nat
        /\ \A j \in 0 .. c - 1 : nd.key.at[j] = G.key[m][j] /\ G.key[m][j] \in Keys
        /\ nd.child.n = IF G.height[m] = 0 THEN 0 ELSE c + 1
    BY <2>1, Zenon DEF NodeIs
  <2>3. step[m] = IF nd.child.n = 0 THEN m ELSE nd.child.at[IF S = {} THEN nd.child.n - 1 ELSE Min(S)]
    BY <2>2, Zenon DEF At
  <2>4. CASE G.height[m] = 0
    BY <2>2, <2>3, <2>4, Zenon
  <2>5. CASE G.height[m] # 0
    <3> DEFINE i == IF S = {} THEN c ELSE Min(S)
    <3>1. nd.child.n = c + 1 /\ nd.child.n # 0 /\ nd.child.n - 1 = c /\ S \subseteq Nat
      BY <2>2, <2>5
    <3>2. step[m] = nd.child.at[i]
      BY <2>3, <3>1, Zenon
    <3> HIDE DEF step
    <3>21. i \in 0 .. c /\ \A j \in 0 .. i - 1 : ~(k < nd.key.at[j])
      <4>1. CASE S = {}
        BY <2>2, <3>1, <4>1, SMTT(20) DEF At
      <4>2. CASE S # {}
        <5>1. i \in S /\ \A j \in S : i <= j
          <6> HIDE DEF S
          <6> QED BY <3>1, <4>2, MinIsLeast, Zenon
        <5>2. i \in 0 .. c
          BY <3>1, <5>1, Zenon
        <5>3. \A j \in 0 .. i - 1 : j \notin S /\ j \in 0 .. nd.child.n - 1
          <6>1. c \in Nat /\ nd.child.n = c + 1
            BY <2>2, <3>1, Zenon
          <6> HIDE DEF S, i, c, nd
          <6> QED BY <5>1, <5>2, <6>1
        <5> HIDE DEF i
        <5> QED BY <5>2, <5>3, Zenon DEF At
      <4> QED BY <4>1, <4>2, Zenon
    <3>22. i < c => k < nd.key.at[i]
      <4>1. CASE S = {}
        BY <2>2, <4>1
      <4>2. CASE S # {}
        <5>1. i \in S
          <6> HIDE DEF S
          <6> QED BY <3>1, <4>2, MinIsLeast, Zenon
        <5> QED BY <5>1, Zenon DEF At
      <4> QED BY <4>1, <4>2, Zenon
    <3> HIDE DEF i
    <3>3. x \in Gap(G, m, i)
      <4> DEFINE r == G.range[m]
                 f == G.key[m]
      <4>1. r \subseteq Nat /\ Ascending(r, f, c) /\ x \in r
        BY <1>1, Zenon DEF Forest, Labelled, KeysOK
      <4>2. \A j \in 0 .. c - 1 : First5[f[j]] # x /\ f[j] \in Keys
        BY <1>1, <2>2, ContentFacts, Zenon DEF Missing
      <4>3. ASSUME NEW j \in 0 .. i - 1 PROVE First5[f[j]] <= x
        <5>1. j \in 0 .. c - 1
          BY <2>2, <3>21
        <5>2. f[j] \in Keys /\ nd.key.at[j] = f[j] /\ ~(k < nd.key.at[j])
          BY <2>2, <3>21, <5>1, Zenon
        <5>3. f[j] <= k
          <6>1. f[j] \in Nat /\ ~(k < f[j])
            BY <5>2, FiveNat, Zenon
          <6> HIDE DEF f
          <6> QED BY <1>2, <6>1
        <5> QED BY <5>2, <5>3, KeysAssumption, Zenon
      <4>4. ASSUME i < c PROVE x <= First5[f[i]]
        <5>1. i \in 0 .. c - 1
          BY <2>2, <3>21, <4>4
        <5>2. f[i] \in Keys /\ nd.key.at[i] = f[i] /\ k < nd.key.at[i]
          BY <2>2, <3>22, <4>4, <5>1, Zenon
        <5>3. k <= f[i]
          <6>1. f[i] \in Nat /\ k < f[i]
            BY <5>2, FiveNat, Zenon
          <6> HIDE DEF f
          <6> QED BY <1>2, <6>1
        <5> QED BY <5>2, <5>3, KeysAssumption, Zenon
      <4> HIDE DEF r, f, c, x
      <4>5. x \in GapOf(r, f, c, i)
        BY <2>2, <3>21, <4>1, <4>2, <4>3, <4>4, Place, Zenon
      <4> QED BY <4>5, Zenon DEF Gap, r, f, c
    <3>4. /\ nd.child.at[i] = G.child[m][i] /\ G.child[m][i] \in G.live
          /\ G.height[G.child[m][i]] + 1 = G.height[m] /\ G.range[G.child[m][i]] = Gap(G, m, i)
      BY <2>1, <2>5, <3>21, Zenon DEF NodeIs
    <3> QED BY <2>5, <3>2, <3>3, <3>4, Zenon
  <2> QED BY <2>4, <2>5, Zenon
<1> HIDE DEF step
<1>5. PICK at \in [0 .. N -> D] : Iterates(at, N, T.root, step) /\ Descent(T, step, T.root) = at[N]
  <2>1. Stays(step, D)
    BY <1>4, Zenon DEF Stays
  <2>2. Len(T.node) \in Nat
    BY <1>1, Zenon
  <2> HIDE DEF D
  <2>3. ComesTo(T, step, T.root, D)
    BY <1>3, <2>1, <2>2, DescentComes, Zenon
  <2> QED BY <2>3, Zenon DEF ComesTo
<1>6. n = at[N]
  BY <1>5, Zenon DEF Leaf, step
<1> HIDE DEF D
<1> DEFINE h == G.height[T.root]
           Q == {d \in Nat : d <= N => \/ G.height[at[d]] = 0
                                       \/ G.height[at[d]] + d = h}
<1>7. \A m \in D : m \in G.live /\ G.height[m] \in Nat
  BY <1>1, Zenon DEF D
<1>8. Nat \subseteq Q
  <2>1. 0 \in Q
    <3>1. at[0] = T.root
      BY <1>5, Zenon DEF Iterates
    <3> QED BY <1>1, <3>1
  <2>2. ASSUME NEW d \in Nat, d \in Q PROVE d + 1 \in Q
    <3>1. SUFFICES ASSUME d + 1 <= N PROVE G.height[at[d + 1]] = 0 \/ G.height[at[d + 1]] + (d + 1) = h
      OBVIOUS
    <3>2. d + 1 \in 1 .. N /\ d <= N /\ d + 1 - 1 = d /\ d \in 0 .. N
      BY <1>1, <3>1
    <3>3. at[d + 1] = step[at[d]] /\ at[d] \in D
      BY <1>5, <3>2 DEF Iterates
    <3>4. G.height[at[d]] = 0 \/ G.height[at[d]] + d = h
      BY <2>2, <3>2, Zenon
    <3>5. G.height[at[d]] \in Nat /\ at[d + 1] \in D /\ G.height[at[d + 1]] \in Nat /\ h \in Nat
      BY <1>1, <1>4, <1>7, <3>3, Zenon
    <3>6. CASE G.height[at[d]] = 0
      BY <1>4, <3>3, <3>6, Zenon
    <3>7. CASE G.height[at[d]] # 0
      <4>1. G.height[at[d + 1]] + 1 = G.height[at[d]] /\ G.height[at[d]] + d = h
        BY <1>4, <3>3, <3>4, <3>7, Zenon
      <4> DEFINE a == G.height[at[d]]
                 b == G.height[at[d + 1]]
      <4>2. b + 1 = a /\ a + d = h /\ a \in Nat /\ b \in Nat /\ h \in Nat
        BY <3>5, <4>1, Zenon
      <4> HIDE DEF h, a, b
      <4>3. b + (d + 1) = h
        BY <4>2
      <4> QED BY <4>3, Zenon DEF b
    <3> QED BY <3>6, <3>7, Zenon
  <2> HIDE DEF Q
  <2> QED BY <2>1, <2>2, Induction, Zenon
<1>9. at[N] \in D /\ (G.height[at[N]] = 0 \/ G.height[at[N]] + N = h)
  BY <1>1, <1>5, <1>8
<1>10. G.height[at[N]] = 0
  BY <1>1, <1>7, <1>9
<1> QED BY <1>6, <1>9, <1>10, Zenon DEF D

\* A key that is not there has its place in a gap.
LEMMA SomeGap ==
  ASSUME NEW r, r \subseteq Nat, NEW f, NEW m \in Nat, Ascending(r, f, m), NEW x \in r,
         \A j \in 0 .. m - 1 : First5[f[j]] # x
  PROVE  \E i \in 0 .. m : x \in GapOf(r, f, m, i)
<1> DEFINE S == {j \in 0 .. m : j < m => x <= First5[f[j]]}
<1>1. S \subseteq Nat /\ m \in S
  OBVIOUS
<1>2. PICK i \in S : \A j \in S : i <= j
  <2> HIDE DEF S
  <2> QED BY <1>1, Least
<1>3. i \in 0 .. m /\ (i < m => x <= First5[f[i]])
  OBVIOUS
<1>4. ASSUME NEW j \in 0 .. i - 1 PROVE First5[f[j]] <= x
  <2>1. j \in 0 .. m - 1 /\ j \in 0 .. m /\ j < m /\ ~(i <= j)
    BY <1>3
  <2>2. j \notin S
    BY <1>2, <2>1
  <2>3. ~(x <= First5[f[j]])
    BY <2>1, <2>2
  <2>4. First5[f[j]] \in Nat /\ x \in Nat
    BY <2>1, FiveNat DEF Ascending
  <2> QED BY <2>3, <2>4
<1> HIDE DEF S
<1>5. x \in GapOf(r, f, m, i)
  BY <1>3, <1>4, Place
<1> QED BY <1>3, <1>5

\* A leaf that holds its keys lacks one more.
LEMMA LeafLacks ==
  ASSUME NEW nd, NEW f, NEW m \in Nat, NEW g, Holds(nd, f, m, g, 0),
         NEW i \in 0 .. m, NEW k, NEW ff, ff = Inserted(f, i, k), Ordered(ff, m)
  PROVE  Lacks(nd, ff, m, g, 0, i, k, 0)
<1>1. ff[i] = k
  BY DEF Inserted
<1>2. ASSUME NEW j \in 0 .. m - 1
      PROVE  ff[IF j < i THEN j ELSE j + 1] = f[j]
  <2>1. CASE j < i
    BY <2>1 DEF Inserted
  <2>2. CASE ~(j < i)
    <3>1. j + 1 \in Nat /\ ~(j + 1 < i) /\ j + 1 # i /\ j + 1 - 1 = j
      BY <2>2
    <3> QED BY <2>2, <3>1 DEF Inserted
  <2> QED BY <2>1, <2>2
<1> QED BY <1>1, <1>2 DEF Lacks, Holds

\* add brings the key into the tree.
LEMMA AddOK ==
  ASSUME NEW T, NEW G, Represents(T, G), NEW k \in Keys, Missing(G, k),
         NEW T2, T2 = RecursiveAdd(T, Leaf(T, T.root, k), k, k, 0)
  PROVE  \E H : Represents(T2, H) /\ Content(H) = Content(G) \cup {k}
<1> DEFINE n == Leaf(T, T.root, k)
           m == G.count[n]
           r == G.range[n]
           f == G.key[n]
           x == First5[k]
<1>1. n \in G.live /\ G.height[n] = 0 /\ x \in r
  BY LeafOK
<1>2. T2 = RecursiveAdd(T, n, k, k, 0)
  OBVIOUS
<1> HIDE DEF n
<1>3. Forest(G) /\ TreeOK(T) /\ Links(T, G) /\ \A a \in G.live : Stored(T, G, a)
  BY DEF Represents
<1>4. m \in Nat /\ r \subseteq Nat /\ Ascending(r, f, m)
  BY <1>1, <1>3 DEF Forest, Labelled, KeysOK
<1>5. \A j \in 0 .. m - 1 : First5[f[j]] # x
  BY <1>1, <1>3, ContentFacts DEF Missing
<1>6. PICK i \in 0 .. m : x \in GapOf(r, f, m, i)
  <2> HIDE DEF r, f, m, x
  <2> QED BY <1>1, <1>4, <1>5, SomeGap
<1>7. x \in Gap(G, n, i)
  BY <1>6 DEF Gap
<1> DEFINE ff == Inserted(f, i, k)
           H == SetKeys(G, n, ff, m + 1)
<1>8. H = SetKeys(G, n, Inserted(G.key[n], i, k), G.count[n] + 1)
  OBVIOUS
<1>9. Forest(H) /\ Content(H) = Content(G) \cup {k}
  <2> HIDE DEF H
  <2> QED BY <1>1, <1>3, <1>7, <1>8, InsertInLeaf
<1>10. /\ H.live = G.live /\ H.child = G.child /\ H.height = G.height
       /\ H.parent = G.parent /\ H.top = G.top /\ H.meta = G.meta
  BY DEF SetKeys
<1>11. /\ H.count[n] = m + 1 /\ H.key[n] = ff
       /\ \A a \in G.live : a # n => H.count[a] = G.count[a] /\ H.key[a] = G.key[a]
  <2>1. G.live \subseteq Nat /\ n \in Nat
    BY <1>1, <1>3 DEF Forest, Labelled
  <2> QED BY <2>1 DEF SetKeys
<1>12. Ordered(ff, m)
  <2> HIDE DEF H, ff, m
  <2>1. Ordered(H.key[n], m)
    BY <1>1, <1>4, <1>9, <1>10, <1>11, NodeOrdered
  <2> QED BY <2>1, <1>11
<1>13. Lacks(T.node[n], ff, m, G.child[n], 0, i, k, 0)
  <2>1. Holds(T.node[n], f, m, G.child[n], 0)
    BY <1>1, <1>3 DEF Stored
  <2>2. ff = Inserted(f, i, k)
    OBVIOUS
  <2> HIDE DEF ff, f, m
  <2> QED BY <1>4, <1>12, <2>1, <2>2, LeafLacks
<1> HIDE DEF H, ff
<1>14. Pending(T, H, n, k, 0)
  <2>1. Links(T, H)
    BY <1>3, <1>10 DEF Links, Up
  <2>2. \A a \in H.live : a # n => Stored(T, H, a)
    BY <1>3, <1>10, <1>11 DEF Stored
  <2>3. n \in H.live /\ H.height[n] <= H.height[H.top]
    <3>1. H.height[n] = 0 /\ H.height[H.top] \in Nat
      BY <1>1, <1>9, <1>10 DEF Forest, Labelled, Chain
    <3> QED BY <1>1, <1>10, <3>1
  <2>4. /\ H.count[n] = m + 1
        /\ Lacks(T.node[n], H.key[n], m, H.child[n], H.height[n], i, k, 0)
    BY <1>1, <1>10, <1>11, <1>13
  <2> HIDE DEF m
  <2> QED BY <1>3, <1>9, <2>1, <2>2, <2>3, <2>4 DEF Pending
<1>15. H.height[n] = 0
  BY <1>1, <1>10
<1>16. \E F : Represents(T2, F) /\ Content(F) = Content(H)
  BY <1>2, <1>14, <1>15, RecursiveAddOK
<1> QED BY <1>9, <1>16

-----------------------------------------------------------------------------
(* find                                                                    *)

\* Where find stops in a node: at the key it looks for, or at its gap.
Stops(G, m, x, S) ==
  IF HasKey(G, m, x)
  THEN S # {} /\ Min(S) \in 0 .. G.count[m] - 1 /\ First5[G.key[m][Min(S)]] = x
  ELSE \E i \in 0 .. G.count[m] :
         /\ x \in Gap(G, m, i) /\ (S = {} => i = G.count[m])
         /\ S # {} => i = Min(S) /\ i < G.count[m] /\ First5[G.key[m][i]] # x

\* The first key that find does not pass is the one it looks for, or ends its gap.
LEMMA StopsAt ==
  ASSUME NEW T, NEW G, Represents(T, G), NEW m \in G.live, NEW k \in Keys,
         NEW x, x = First5[k], x \in G.range[m], NEW S, S = NotPassed(T.node[m], k)
  PROVE  Stops(G, m, x, S)
<1> DEFINE c == G.count[m]
           f == G.key[m]
           r == G.range[m]
           i == IF S = {} THEN c ELSE Min(S)
<1>1. Forest(G)
  BY DEF Represents
<1>2. c \in Nat /\ r \subseteq Nat /\ Ascending(r, f, c) /\ x \in Nat
  BY <1>1 DEF Forest, Labelled, KeysOK
<1>3. /\ T.node[m].key.n = c /\ \A j \in 0 .. c - 1 : T.node[m].key.at[j] = f[j]
  BY NodeFacts DEF NodeIs
<1>4. S = {j \in 0 .. c - 1 : x <= First5[f[j]]}
  <2>1. ASSUME NEW j PROVE j \in S <=> j \in 0 .. c - 1 /\ x <= First5[f[j]]
    BY <1>3 DEF NotPassed, At
  <2> QED BY <2>1
<1>5. \A j \in 0 .. c - 1 : First5[f[j]] \in Nat
  BY <1>2, FiveNat DEF Ascending
<1> HIDE DEF f, r, c
<1>6. S \subseteq Nat
  BY <1>4
<1>7. S # {} => i \in S /\ \A j \in S : i <= j
  BY <1>6, MinIsLeast
<1>8. i \in 0 .. c /\ (S # {} => i \in 0 .. c - 1 /\ i < c /\ x <= First5[f[i]])
  BY <1>2, <1>4, <1>7
<1>9. ASSUME NEW j \in 0 .. i - 1 PROVE j \in 0 .. c - 1 /\ First5[f[j]] < x
  <2>1. j \in 0 .. c - 1 /\ j < i /\ j \in Nat /\ i \in Nat
    BY <1>2, <1>8
  <2>2. j \notin S
    BY <1>7, <2>1
  <2>3. ~(x <= First5[f[j]]) /\ First5[f[j]] \in Nat
    BY <1>4, <1>5, <2>1, <2>2
  <2> QED BY <1>2, <2>1, <2>3
<1>10. CASE HasKey(G, m, x)
  <2>1. PICK j \in 0 .. c - 1 : First5[f[j]] = x
    BY <1>10 DEF HasKey, f, c
  <2>2. j \in S
    BY <1>2, <1>4, <2>1
  <2>3. i \in 0 .. c - 1 /\ i <= j /\ x <= First5[f[i]] /\ i = Min(S) /\ First5[f[i]] \in Nat
    BY <1>5, <1>7, <1>8, <2>2
  <2>4. First5[f[i]] = x
    <3>1. CASE i = j
      BY <2>1, <3>1
    <3>2. CASE i < j
      <4>1. First5[f[i]] < First5[f[j]]
        BY <1>2, <2>3, <3>2 DEF Ascending
      <4> QED BY <1>2, <2>1, <2>3, <4>1
    <3>3. i = j \/ i < j
      BY <1>2, <2>3
    <3> QED BY <3>1, <3>2, <3>3
  <2> QED BY <1>10, <2>2, <2>3, <2>4 DEF Stops, f, c
<1>11. CASE ~HasKey(G, m, x)
  <2>1. \A j \in 0 .. c - 1 : First5[f[j]] # x
    BY <1>11 DEF HasKey, f, c
  <2>2. \A j \in 0 .. i - 1 : First5[f[j]] <= x
    BY <1>2, <1>5, <1>9
  <2>3. i < c => x <= First5[f[i]]
    BY <1>2, <1>8
  <2>4. x \in r
    BY DEF r
  <2>5. x \in GapOf(r, f, c, i)
    <3> HIDE DEF i
    <3> QED BY <1>2, <1>8, <2>1, <2>2, <2>3, <2>4, Place
  <2>6. x \in Gap(G, m, i)
    BY <2>5 DEF Gap, r, f, c
  <2>7. S # {} => i = Min(S) /\ i < c /\ First5[f[i]] # x
    BY <1>8, <2>1
  <2>8. S = {} => i = c
    OBVIOUS
  <2> HIDE DEF i
  <2> QED BY <1>8, <1>11, <2>6, <2>7, <2>8 DEF Stops, f, c
<1> QED BY <1>10, <1>11

\* A search that comes to a leaf without the key: the key is not there.
LEMMA LeafMissing ==
  ASSUME NEW G, Forest(G), NEW k \in Keys, NEW m \in G.live, G.height[m] = 0,
         First5[k] \in G.range[m], ~HasKey(G, m, First5[k])
  PROVE  Missing(G, k)
<1>1. SUFFICES ASSUME NEW j \in Content(G), First5[j] = First5[k] PROVE FALSE
  BY DEF Missing
<1>2. PICK n \in G.live : \E i \in 0 .. G.count[n] - 1 : G.key[n][i] = j
  BY DEF Content
<1>3. HasKey(G, n, First5[k])
  BY <1>1, <1>2 DEF HasKey
<1>4. G.height[n] <= G.height[m] /\ (G.height[n] = G.height[m] => n = m)
  BY <1>2, <1>3, KeyBelow
<1>5. G.height[n] \in Nat
  BY <1>2 DEF Forest, Labelled
<1>6. n = m
  BY <1>4, <1>5
<1> QED BY <1>3, <1>6

\* What find answers for k.
Looked(G, k, v) ==
  \/ v = 0 /\ Missing(G, k)
  \/ v \in Content(G) /\ First5[v] = First5[k]

\* One step of find.
FindStep(T, k) ==
  [m \in 0 .. Len(T.node) |->
        IF m = 0 THEN 0
        ELSE LET nd == T.node[m]
                 S  == NotPassed(nd, k)
             IN IF S = {} THEN Child(nd, nd.child.n - 1)
                ELSE IF First5[At(nd.key, Min(S))] = First5[k] THEN m
                ELSE Child(nd, Min(S))]

\* From node m the step stays at the key, or goes one level down to where k belongs, or
\* ends below a leaf.
Goes(G, k, m, y) ==
  IF HasKey(G, m, First5[k]) THEN y = m
  ELSE IF G.height[m] = 0 THEN y = 0 /\ Missing(G, k)
  ELSE y \in G.live /\ First5[k] \in G.range[y] /\ G.height[y] + 1 = G.height[m]

\* One step of find.
LEMMA FindGoes ==
  ASSUME NEW T, NEW G, Represents(T, G), NEW k \in Keys, NEW m \in G.live, First5[k] \in G.range[m]
  PROVE  Goes(G, k, m, FindStep(T, k)[m])
<1> DEFINE x == First5[k]
           nd == T.node[m]
           S == NotPassed(nd, k)
           c == G.count[m]
           y == FindStep(T, k)[m]
<1>1. Forest(G) /\ m # 0 /\ m \in 0 .. Len(T.node)
  BY RepNodes
<1>2. y = IF S = {} THEN Child(nd, nd.child.n - 1)
          ELSE IF First5[nd.key.at[Min(S)]] = x THEN m ELSE Child(nd, Min(S))
  BY <1>1 DEF FindStep, At
<1>3. Stops(G, m, x, S)
  <2> HIDE DEF S
  <2>1. S = NotPassed(T.node[m], k)
    BY DEF S
  <2> HIDE DEF x
  <2>2. x = First5[k]
    BY DEF x
  <2> QED BY <2>1, <2>2, StopsAt
<1>4. /\ c \in Nat /\ G.height[m] \in Nat
      /\ \A j \in 0 .. c - 1 : nd.key.at[j] = G.key[m][j]
      /\ nd.child.n = IF G.height[m] = 0 THEN 0 ELSE c + 1
      /\ G.height[m] # 0 =>
           \A j \in 0 .. c : /\ nd.child.at[j] = G.child[m][j] /\ G.child[m][j] \in G.live
                             /\ G.height[G.child[m][j]] + 1 = G.height[m]
                             /\ G.range[G.child[m][j]] = Gap(G, m, j)
  <2>1. NodeIs(T, G, m)
    BY NodeFacts
  <2> QED BY <2>1 DEF NodeIs
<1> HIDE DEF y, S, x
<1>5. CASE HasKey(G, m, x)
  <2>1. S # {} /\ Min(S) \in 0 .. c - 1 /\ First5[G.key[m][Min(S)]] = x
    BY <1>3, <1>5 DEF Stops
  <2>2. First5[nd.key.at[Min(S)]] = x
    BY <1>4, <2>1
  <2>3. y = m
    BY <1>2, <2>1, <2>2
  <2> QED BY <1>5, <2>3 DEF Goes, x, y
<1>6. CASE ~HasKey(G, m, x)
  <2>1. PICK i \in 0 .. c :
         /\ x \in Gap(G, m, i) /\ (S = {} => i = c)
         /\ S # {} => i = Min(S) /\ i < c /\ First5[G.key[m][i]] # x
    BY <1>3, <1>6 DEF Stops
  <2>2. y = Child(nd, IF S = {} THEN nd.child.n - 1 ELSE i)
    <3>1. CASE S = {}
      BY <1>2, <3>1
    <3>2. CASE S # {}
      <4>1. i = Min(S) /\ i \in 0 .. c - 1 /\ First5[G.key[m][i]] # x
        BY <1>4, <2>1, <3>2
      <4> QED BY <1>2, <1>4, <3>2, <4>1
    <3> QED BY <3>1, <3>2
  <2>3. CASE G.height[m] = 0
    <3>1. y = 0
      BY <1>4, <2>1, <2>2, <2>3 DEF Child
    <3>2. Missing(G, k)
      BY <1>1, <1>6, <2>3, LeafMissing DEF x
    <3> QED BY <1>6, <2>3, <3>1, <3>2 DEF Goes, x, y
  <2>4. CASE G.height[m] # 0
    <3>1. nd.child.n = c + 1 /\ nd.child.n - 1 = c
      BY <1>4, <2>4
    <3>2. y = Child(nd, i)
      BY <2>1, <2>2, <3>1
    <3>3. Child(nd, i) = nd.child.at[i]
      BY <1>4, <3>1 DEF Child, At
    <3>4. y = G.child[m][i]
      BY <1>4, <2>4, <3>2, <3>3
    <3>5. y \in G.live /\ G.height[y] + 1 = G.height[m] /\ x \in G.range[y]
      BY <1>4, <2>1, <2>4, <3>4
    <3> QED BY <1>6, <2>4, <3>5 DEF Goes, x, y
  <2> QED BY <2>3, <2>4
<1> QED BY <1>5, <1>6

\* find, from the top or from a node above it, answers with the key of the content that
\* has the same first five bytes, and with null if there is none.
LEMMA FindOK ==
  ASSUME NEW T, NEW G, Represents(T, G), NEW k \in Keys, NEW r \in G.live,
         G.height[G.top] <= G.height[r]
  PROVE  Looked(G, k, SubtreeFind(T, r, k))
<1> DEFINE N == Len(T.node)
           step == FindStep(T, k)
           x == First5[k]
           D == {m \in G.live : x \in G.range[m]} \cup {z \in {0} : Missing(G, k)}
<1>1. /\ Forest(G) /\ N \in Nat /\ 0 \notin G.live
      /\ \A m \in G.live : G.height[m] \in Nat /\ G.height[m] < N
      /\ \A m \in G.live : G.height[G.top] <= G.height[m] => G.range[m] = Nat
  BY RepNodes
<1>2. r \in D
  <2>1. x \in Nat /\ G.range[r] = Nat
    BY <1>1, FiveNat
  <2> QED BY <2>1
<1>3. step[0] = 0
  BY <1>1 DEF FindStep
<1>4. ASSUME NEW m \in D PROVE m # 0 => m \in G.live /\ Goes(G, k, m, step[m])
  <2>1. SUFFICES ASSUME m # 0 PROVE m \in G.live /\ Goes(G, k, m, step[m])
    OBVIOUS
  <2>2. m \in G.live /\ First5[k] \in G.range[m]
    BY <2>1
  <2> HIDE DEF D
  <2> QED BY <2>2, FindGoes
<1>41. step = FindStep(T, k)
  OBVIOUS
<1> HIDE DEF step
<1>5. ASSUME NEW m \in D PROVE step[m] \in D
  <2>1. CASE m = 0
    BY <1>3, <2>1
  <2>2. CASE m # 0
    <3>1. m \in G.live /\ x \in G.range[m] /\ Goes(G, k, m, step[m])
      BY <1>4, <2>2
    <3>2. \/ step[m] = m
          \/ step[m] = 0 /\ Missing(G, k)
          \/ step[m] \in G.live /\ x \in G.range[step[m]]
      BY <3>1 DEF Goes
    <3> QED BY <3>1, <3>2
  <2> QED BY <2>1, <2>2
<1> HIDE DEF D
<1>6. PICK at \in [0 .. N -> D] : Iterates(at, N, r, step) /\ Descent(T, step, r) = at[N]
  <2>1. Stays(step, D)
    BY <1>5 DEF Stays
  <2>2. Len(T.node) \in Nat
    BY <1>1
  <2>3. ComesTo(T, step, r, D)
    BY <1>2, <2>1, <2>2, DescentComes
  <2> QED BY <2>3 DEF ComesTo
<1> DEFINE h == G.height[r]
           Q == {d \in Nat : d <= N => \/ at[d] = 0
                                       \/ at[d] # 0 /\ HasKey(G, at[d], x)
                                       \/ at[d] # 0 /\ G.height[at[d]] + d = h}
<1>7. Nat \subseteq Q
  <2>1. 0 \in Q
    <3>1. at[0] = r /\ r # 0 /\ G.height[r] \in Nat
      BY <1>1, <1>6 DEF Iterates
    <3> QED BY <3>1
  <2>2. ASSUME NEW d \in Nat, d \in Q PROVE d + 1 \in Q
    <3>1. SUFFICES ASSUME d + 1 <= N
                   PROVE \/ at[d + 1] = 0
                         \/ at[d + 1] # 0 /\ HasKey(G, at[d + 1], x)
                         \/ at[d + 1] # 0 /\ G.height[at[d + 1]] + (d + 1) = h
      OBVIOUS
    <3>2. d + 1 \in 1 .. N /\ d <= N /\ d + 1 - 1 = d /\ d \in 0 .. N
      BY <1>1, <3>1
    <3>3. at[d + 1] = step[at[d]] /\ at[d] \in D
      BY <1>6, <3>2 DEF Iterates
    <3>4. \/ at[d] = 0
          \/ at[d] # 0 /\ HasKey(G, at[d], x)
          \/ at[d] # 0 /\ G.height[at[d]] + d = h
      BY <2>2, <3>2
    <3>5. CASE at[d] = 0
      BY <1>3, <3>3, <3>5
    <3>6. CASE at[d] # 0
      <4>1. at[d] \in G.live /\ Goes(G, k, at[d], at[d + 1])
        BY <1>4, <3>3, <3>6
      <4>2. CASE HasKey(G, at[d], x)
        BY <3>6, <4>1, <4>2 DEF Goes
      <4>3. CASE ~HasKey(G, at[d], x)
        <5>1. CASE G.height[at[d]] = 0
          BY <4>1, <4>3, <5>1 DEF Goes
        <5>2. CASE G.height[at[d]] # 0
          <6> DEFINE a == G.height[at[d]]
                     b == G.height[at[d + 1]]
          <6>1. at[d + 1] \in G.live /\ b + 1 = a /\ a + d = h /\ at[d + 1] # 0
            BY <1>1, <3>4, <4>1, <4>3, <5>2 DEF Goes
          <6>2. a \in Nat /\ b \in Nat /\ h \in Nat
            BY <1>1, <4>1, <6>1
          <6> HIDE DEF a, b, h
          <6>3. b + (d + 1) = h
            BY <6>1, <6>2
          <6> QED BY <6>1, <6>3 DEF b
        <5> QED BY <5>1, <5>2
      <4> QED BY <4>2, <4>3
    <3> QED BY <3>5, <3>6
  <2> HIDE DEF Q
  <2> QED BY <2>1, <2>2, Induction
<1> DEFINE y == at[N]
<1>8. y \in D /\ (y = 0 \/ (y # 0 /\ HasKey(G, y, x)))
  <2>1. y \in D /\ (y = 0 \/ (y # 0 /\ HasKey(G, y, x)) \/ (y # 0 /\ G.height[y] + N = h))
    BY <1>1, <1>6, <1>7
  <2>2. y # 0 => y \in G.live /\ G.height[y] \in Nat /\ h < N /\ h \in Nat
    BY <1>1, <2>1 DEF D
  <2>3. y # 0 => G.height[y] + N # h
    <3> HIDE DEF h, y
    <3> QED BY <1>1, <2>2
  <2> QED BY <2>1, <2>3
<1>9. SubtreeFind(T, r, k) = IF y = 0 THEN 0 ELSE DataOptr(T.node[y], Min(NotPassed(T.node[y], k)))
  <2>1. Descent(T, FindStep(T, k), r) = y
    BY <1>6, <1>41
  <2> HIDE DEF y
  <2> QED BY <2>1 DEF SubtreeFind, FindStep
<1> HIDE DEF y
<1>10. CASE y = 0
  <2>1. Missing(G, k)
    BY <1>1, <1>8, <1>10 DEF D
  <2> QED BY <1>9, <1>10, <2>1 DEF Looked
<1>11. CASE y # 0
  <2> DEFINE S == NotPassed(T.node[y], k)
             i == Min(S)
  <2>1. y \in G.live /\ x \in G.range[y] /\ HasKey(G, y, x)
    BY <1>8, <1>11 DEF D
  <2>2. S = NotPassed(T.node[y], k) /\ x = First5[k]
    OBVIOUS
  <2>3. Stops(G, y, x, S)
    <3> HIDE DEF S, x
    <3> QED BY <2>1, <2>2, StopsAt
  <2>4. i \in 0 .. G.count[y] - 1 /\ First5[G.key[y][i]] = x
    BY <2>1, <2>3 DEF Stops
  <2> HIDE DEF i
  <2>5. NodeIs(T, G, y)
    BY <2>1, NodeFacts
  <2>6. DataOptr(T.node[y], i) = G.key[y][i]
    BY <2>4, <2>5 DEF NodeIs, DataOptr, At
  <2>7. SubtreeFind(T, r, k) = G.key[y][i]
    BY <1>9, <1>11, <2>6 DEF i
  <2>8. G.key[y][i] \in Content(G)
    BY <1>1, <2>1, <2>4, ContentFacts
  <2> QED BY <2>4, <2>7, <2>8 DEF Looked
<1> QED BY <1>10, <1>11

-----------------------------------------------------------------------------
(* remove                                                                  *)

\* remove looks for a key in a node of the tree.
LEMMA HolderOK ==
  ASSUME NEW T, NEW G, Represents(T, G), NEW k
  PROVE  Holder(T, T.root, k) \in G.live
<1> DEFINE step == [m \in 1 .. Len(T.node) |->
        LET nd == T.node[m]
            S  == {i \in 0 .. nd.child.n - 1 : k <= At(nd.key, i)}
        IN IF nd.child.n = 0 THEN m
           ELSE IF S = {} THEN At(nd.child, nd.child.n - 1)
           ELSE IF At(nd.key, Min(S)) = k THEN m
           ELSE At(nd.child, Min(S))]
           D == G.live
<1>1. Len(T.node) \in Nat /\ T.root \in D
  BY RepNodes
<1>2. ASSUME NEW m \in D PROVE step[m] \in D
  <2> DEFINE nd == T.node[m]
             S == {i \in 0 .. nd.child.n - 1 : k <= At(nd.key, i)}
             c == G.count[m]
  <2>1. NodeIs(T, G, m)
    BY NodeFacts
  <2>2. /\ m \in 1 .. Len(T.node) /\ c \in Nat
        /\ nd.child.n = IF G.height[m] = 0 THEN 0 ELSE c + 1
        /\ G.height[m] # 0 => \A j \in 0 .. c : nd.child.at[j] \in G.live
    BY <2>1 DEF NodeIs
  <2>3. step[m] = IF nd.child.n = 0 THEN m
                  ELSE IF S = {} THEN nd.child.at[nd.child.n - 1]
                  ELSE IF nd.key.at[Min(S)] = k THEN m ELSE nd.child.at[Min(S)]
    BY <2>2, Zenon DEF At
  <2>4. S # {} => Min(S) \in S
    <3>1. S \subseteq Nat
      BY <2>2
    <3> HIDE DEF S
    <3> QED BY <3>1, MinIsLeast
  <2>5. S \subseteq 0 .. nd.child.n - 1
    OBVIOUS
  <2> HIDE DEF S, step
  <2>6. CASE G.height[m] = 0
    BY <2>2, <2>3, <2>6
  <2>7. CASE G.height[m] # 0
    <3>1. nd.child.n = c + 1 /\ nd.child.n - 1 = c
      BY <2>2, <2>7
    <3>2. S # {} => Min(S) \in 0 .. c
      BY <2>4, <2>5, <3>1
    <3> QED BY <2>2, <2>3, <2>7, <3>1, <3>2, SMTT(20)
  <2> QED BY <2>6, <2>7
<1>3. Stays(step, D)
  BY <1>2 DEF Stays
<1>4. Holder(T, T.root, k) = Descent(T, step, T.root)
  BY DEF Holder
<1>5. Len(T.node) \in Nat
  BY <1>1
<1> HIDE DEF step, D
<1>6. ComesTo(T, step, T.root, D)
  BY <1>1, <1>3, <1>5, DescentComes
<1> QED BY <1>4, <1>5, <1>6 DEF ComesTo, D

\* An array of a node holds the first m elements of f.
HoldsArr(a, f, m) ==
  a \in Arr(K) /\ Fits(a, K) /\ a.n = m /\ \A j \in 0 .. m - 1 : a.at[j] = f[j]

\* The key array and the data array of a node that holds its keys.
LEMMA KeyArrays ==
  ASSUME NEW L, NEW nd \in NodeType, NodeOK(nd, L), NEW f, NEW m, NEW g, NEW h, Holds(nd, f, m, g, h)
  PROVE  HoldsArr(nd.key, f, m) /\ HoldsArr(nd.data, f, m)
BY DEF NodeType, NodeOK, Holds, HoldsArr

\* A key array after moveDelete.
LEMMA DropArr ==
  ASSUME NEW a, NEW f, NEW m \in Nat, HoldsArr(a, f, m), NEW i \in 0 .. m - 1,
         NEW b, b = MoveDelete(a, i)
  PROVE  HoldsArr(b, Dropped(f, i), m - 1)
<1>1. K \in Nat /\ K >= 2
  BY KAssumption
<1>2. a \in Arr(K) /\ a.n = m /\ m <= K /\ a.at[K] = 0
  BY DEF HoldsArr, Fits, At
<1>3. IsMoveDelete(b, a, K, i)
  <2>1. a.n # 0 /\ a.n <= K + 1 /\ i \in Nat
    BY <1>1, <1>2
  <2> QED BY <1>1, <1>2, <2>1, MoveDeleteAt
<1>4. b \in Arr(K) /\ b.n = m - 1 /\ m - 1 <= K /\ K \in 0 .. K
  BY <1>1, <1>2, <1>3 DEF IsMoveDelete
<1>5. b.at[K] = 0
  BY <1>1, <1>2, <1>3, <1>4 DEF IsMoveDelete
<1>6. ASSUME NEW j \in 0 .. (m - 1) - 1 PROVE b.at[j] = Dropped(f, i)[j]
  <2>1. /\ j \in 0 .. K /\ j < m - 1 /\ j \in Nat /\ j \in 0 .. m - 1 /\ j + 1 \in 0 .. m - 1
    BY <1>1, <1>2
  <2>2. b.at[j] = IF i <= j THEN a.at[j + 1] ELSE a.at[j]
    BY <1>2, <1>3, <2>1 DEF IsMoveDelete
  <2>3. a.at[j] = f[j] /\ a.at[j + 1] = f[j + 1]
    BY <2>1 DEF HoldsArr
  <2>4. Dropped(f, i)[j] = IF j < i THEN f[j] ELSE f[j + 1]
    BY <2>1 DEF Dropped
  <2> QED BY <2>1, <2>2, <2>3, <2>4
<1> QED BY <1>4, <1>5, <1>6 DEF HoldsArr, Fits, At

\* A key array with one key.
LEMMA OneArr ==
  ASSUME NEW a \in Arr(K), a.at[K] = 0, NEW x \in Nat, NEW b, b = Counted(Put(a, 0, x), 1)
  PROVE  HoldsArr(b, [j \in Nat |-> x], 1)
<1>1. K \in Nat /\ K >= 2 /\ 0 \in 0 .. K /\ K \in 0 .. K /\ K # 0
  BY KAssumption
<1> DEFINE d == Put(a, 0, x)
<1>2. IsPut(d, a, K, 0, x)
  <2>1. d = Put(a, 0, x)
    OBVIOUS
  <2> HIDE DEF d
  <2> QED BY <1>1, <2>1, PutAt
<1>3. b = Counted(d, 1)
  OBVIOUS
<1> HIDE DEF d
<1>4. d \in Arr(K) /\ d.at[0] = x /\ d.at[K] = 0
  BY <1>1, <1>2 DEF IsPut
<1>5. b \in Arr(K) /\ b.n = 1 /\ b.at = d.at
  BY <1>3, <1>4 DEF Counted, Arr
<1>6. \A j \in 0 .. 1 - 1 : b.at[j] = [i \in Nat |-> x][j]
  BY <1>4, <1>5
<1> QED BY <1>1, <1>4, <1>5, <1>6 DEF HoldsArr, Fits, At

\* A key array with one key replaced.
LEMMA PutArr ==
  ASSUME NEW a, NEW f, NEW m \in Nat, HoldsArr(a, f, m), NEW q \in 0 .. m - 1, NEW e \in Nat,
         NEW b, b = Put(a, q, e)
  PROVE  HoldsArr(b, Replaced(f, q, e), m)
<1>1. K \in Nat /\ K >= 2 /\ K \in 0 .. K
  BY KAssumption
<1>2. a \in Arr(K) /\ a.n = m /\ m <= K /\ a.at[K] = 0 /\ q # K /\ q \in 0 .. K
  BY <1>1 DEF HoldsArr, Fits, At
<1>3. IsPut(b, a, K, q, e)
  BY <1>1, <1>2, PutAt
<1>4. b \in Arr(K) /\ b.n = m /\ b.at[K] = 0
  BY <1>1, <1>2, <1>3 DEF IsPut
<1>5. ASSUME NEW j \in 0 .. m - 1 PROVE b.at[j] = Replaced(f, q, e)[j]
  <2>1. j \in 0 .. K /\ j \in Nat /\ a.at[j] = f[j]
    BY <1>1, <1>2 DEF HoldsArr
  <2>2. b.at[j] = IF j = q THEN e ELSE a.at[j]
    BY <1>3, <2>1 DEF IsPut
  <2> QED BY <2>1, <2>2 DEF Replaced
<1> QED BY <1>2, <1>4, <1>5 DEF HoldsArr, Fits, At

\* The second key of an array, in front of the first or behind it.
LEMMA InsertArr ==
  ASSUME NEW a, NEW f, HoldsArr(a, f, 1), NEW i \in {0, 1}, NEW x \in Nat,
         NEW b, b = Grown(MoveInsert(a, i, x))
  PROVE  HoldsArr(b, Inserted(f, i, x), 2)
<1>1. K \in Nat /\ K >= 2 /\ K \in 0 .. K /\ i \in Nat
  BY KAssumption
<1>2. a \in Arr(K) /\ a.n = 1 /\ a.at[K] = 0 /\ a.at[0] = f[0]
  BY DEF HoldsArr, Fits, At
<1> DEFINE d == MoveInsert(a, i, x)
<1>3. IsMoveInsert(d, a, K, i, x)
  <2>1. d = MoveInsert(a, i, x)
    OBVIOUS
  <2> HIDE DEF d
  <2> QED BY <1>1, <1>2, <2>1, MoveInsertAt
<1>4. b = Grown(d)
  OBVIOUS
<1> HIDE DEF d
<1>5. d \in Arr(K) /\ d.n = 1 /\ d.at[K] = 0
  BY <1>1, <1>2, <1>3 DEF IsMoveInsert
<1>6. b \in Arr(K) /\ b.n = 2 /\ b.at = d.at
  BY <1>1, <1>4, <1>5, GrownAt
<1>7. ASSUME NEW j \in 0 .. 2 - 1 PROVE b.at[j] = Inserted(f, i, x)[j]
  <2>1. j \in 0 .. K /\ j \in Nat /\ (j = 0 \/ j = 1)
    BY <1>1
  <2>2. b.at[j] = IF j = i THEN x ELSE IF i < j /\ j <= 1 THEN a.at[j - 1] ELSE a.at[j]
    BY <1>2, <1>3, <1>6, <2>1 DEF IsMoveInsert
  <2>3. Inserted(f, i, x)[j] = IF j < i THEN f[j] ELSE IF j = i THEN x ELSE f[j - 1]
    BY <2>1 DEF Inserted
  <2>4. CASE j = 0
    BY <1>2, <2>2, <2>3, <2>4
  <2>5. CASE j = 1
    <3>1. j - 1 = 0
      BY <2>5
    <3> QED BY <1>2, <2>2, <2>3, <2>5, <3>1
  <2> QED BY <2>1, <2>4, <2>5
<1> QED BY <1>1, <1>5, <1>6, <1>7 DEF HoldsArr, Fits, At

\* A node with other keys.
Keyed(nd, ka, da) == [nd EXCEPT !.key = ka, !.data = da]

IsKeyed(md, nd, L, f, m) ==
  /\ md \in NodeType /\ NodeOK(md, L) /\ md.parent = nd.parent /\ md.child = nd.child
  /\ HoldsArr(md.key, f, m) /\ HoldsArr(md.data, f, m)

\* A node with other keys is a node.
LEMMA KeyedOK ==
  ASSUME NEW L, NEW nd \in NodeType, NodeOK(nd, L), NEW f, NEW m,
         \A j \in 0 .. m - 1 : f[j] \in Keys,
         NEW ka, HoldsArr(ka, f, m), NEW da, HoldsArr(da, f, m), NEW md, md = Keyed(nd, ka, da)
  PROVE  IsKeyed(md, nd, L, f, m)
<1>1. ka \in Arr(K) /\ da \in Arr(K)
  BY DEF HoldsArr
<1>2. md = [parent |-> nd.parent, key |-> ka, data |-> da, child |-> nd.child]
  BY DEF Keyed, NodeType
<1>3. md \in NodeType /\ md.parent = nd.parent /\ md.child = nd.child /\ md.key = ka /\ md.data = da
  BY <1>1, <1>2 DEF NodeType
<1>4. NodeOK(md, L)
  BY <1>3 DEF NodeOK, HoldsArr
<1> QED BY <1>3, <1>4 DEF IsKeyed

\* A node with other keys keeps its children.
LEMMA KeyedHolds ==
  ASSUME NEW L, NEW nd, NEW md, NEW e, NEW c, NEW f, NEW m, NEW g, NEW h,
         Holds(nd, e, c, g, h), IsKeyed(md, nd, L, f, m), h # 0 => m = c
  PROVE  Holds(md, f, m, g, h)
BY DEF Holds, IsKeyed, HoldsArr

\* The forest with the same nodes and links.
SameShape(G, H) ==
  /\ H.live = G.live /\ H.child = G.child /\ H.height = G.height
  /\ H.parent = G.parent /\ H.top = G.top /\ H.meta = G.meta

\* A change of keys leaves the links.
LEMMA LinksStay ==
  ASSUME NEW T, NEW G, Links(T, G), NEW T2, NEW H, SameShape(G, H), SameHead(T2, T),
         Len(T2.node) = Len(T.node), \A a \in G.live : T2.node[a].parent = T.node[a].parent
  PROVE  Links(T2, H)
BY DEF Links, SameShape, SameHead, Up

\* The node of a live number, and its place in the tree.
LEMMA LiveNode ==
  ASSUME NEW T, NEW G, Represents(T, G), NEW n \in G.live
  PROVE  /\ Forest(G) /\ TreeOK(T) /\ Links(T, G) /\ Len(T.node) \in Nat
         /\ n \in 1 .. Len(T.node) /\ T.node[n] \in NodeType /\ NodeOK(T.node[n], Len(T.node))
         /\ Holds(T.node[n], G.key[n], G.count[n], G.child[n], G.height[n])
         /\ HoldsArr(T.node[n].key, G.key[n], G.count[n])
         /\ HoldsArr(T.node[n].data, G.key[n], G.count[n])
         /\ G.count[n] \in Nat /\ \A j \in 0 .. G.count[n] - 1 : G.key[n][j] \in Keys
<1>1. Forest(G) /\ TreeOK(T) /\ Links(T, G) /\ Stored(T, G, n)
  BY DEF Represents
<1>2. n \in 1 .. Len(T.node)
  BY <1>1 DEF Links
<1>3. T.node[n] \in NodeType /\ NodeOK(T.node[n], Len(T.node)) /\ Len(T.node) \in Nat
  BY <1>1, <1>2, TreeFields DEF TreeOK
<1>4. G.count[n] \in Nat /\ \A j \in 0 .. G.count[n] - 1 : G.key[n][j] \in Keys
  BY <1>1 DEF Forest, Labelled, KeysOK, Ascending
<1>5. Holds(T.node[n], G.key[n], G.count[n], G.child[n], G.height[n])
  BY <1>1 DEF Stored
<1>6. HoldsArr(T.node[n].key, G.key[n], G.count[n]) /\ HoldsArr(T.node[n].data, G.key[n], G.count[n])
  BY <1>3, <1>5, KeyArrays
<1> QED BY <1>1, <1>2, <1>3, <1>4, <1>5, <1>6

\* A leaf without a parent is the top; the parent of another one is at height 1.
LeafOf(G, n, p) ==
  /\ p = 0 => n = G.top
  /\ p # 0 => /\ p \in G.live /\ G.height[p] = 1 /\ G.height[G.top] >= 1
              /\ \E i \in 0 .. G.count[p] : IsChild(G, p, i, n)

\* The parent of a leaf in the file is its parent in the forest.
LEMMA LeafParent ==
  ASSUME NEW T, NEW G, Represents(T, G), NEW n \in G.live, G.height[n] = 0,
         NEW p, p = T.node[n].parent
  PROVE  LeafOf(G, n, p)
<1>1. Forest(G) /\ Links(T, G)
  BY DEF Represents
<1>2. G.height[G.top] \in Nat /\ G.top \in G.live /\ G.meta \in G.live /\ 0 \notin G.live
  BY <1>1 DEF Forest, Labelled, Chain
<1>3. p = IF G.height[G.top] <= G.height[n] THEN 0 ELSE G.parent[n]
  BY <1>1 DEF Links, Up
<1>4. CASE G.height[G.top] <= G.height[n]
  <2>1. p = 0 /\ G.height[G.top] = G.height[n]
    BY <1>2, <1>3, <1>4
  <2>2. n = G.top
    BY <1>1, <1>2, <1>4, <2>1 DEF Forest, Chain
  <2> QED BY <2>1, <2>2 DEF LeafOf
<1>5. CASE ~(G.height[G.top] <= G.height[n])
  <2>1. p = G.parent[n] /\ G.height[G.top] >= 1
    BY <1>2, <1>3, <1>5
  <2>2. n # G.meta
    <3>1. G.height[G.top] <= G.height[G.meta]
      BY <1>1, <1>2 DEF Forest, Chain
    <3> QED BY <1>5, <3>1
  <2>3. PICK i \in Nat : IsChild(G, p, i, n)
    BY <1>1, <2>1, <2>2 DEF Forest, Attached
  <2>4. p \in G.live /\ i \in 0 .. G.count[p]
    BY <2>3 DEF IsChild
  <2>5. G.height[n] + 1 = G.height[p]
    BY <1>1, <2>3, OneParent
  <2>6. G.height[p] = 1
    BY <2>5
  <2> QED BY <1>2, <2>1, <2>3, <2>4, <2>6 DEF LeafOf
<1> QED BY <1>4, <1>5

\* The tree in the file is one without k.
Without(T2, G, k) == \E H : Represents(T2, H) /\ Content(H) = Content(G) \ {k}

\* A leaf gives up a key and keeps others, or is the root.
LEMMA LeafDrop ==
  ASSUME NEW T, NEW G, Represents(T, G), NEW n \in G.live, G.height[n] = 0,
         NEW i \in 0 .. G.count[n] - 1, G.count[n] > 1 \/ n = G.top,
         NEW T2, T2 = [T EXCEPT !.node[n].key = MoveDelete(@, i), !.node[n].data = MoveDelete(@, i)]
  PROVE  Without(T2, G, G.key[n][i])
<1> DEFINE nd == T.node[n]
           L == Len(T.node)
           c == G.count[n]
           f == Dropped(G.key[n], i)
           c1 == c - 1
           ka == MoveDelete(nd.key, i)
           da == MoveDelete(nd.data, i)
           md == Keyed(nd, ka, da)
           H == SetKeys(G, n, f, c1)
<1>1. /\ Forest(G) /\ TreeOK(T) /\ Links(T, G) /\ L \in Nat
      /\ n \in 1 .. L /\ nd \in NodeType /\ NodeOK(nd, L)
      /\ Holds(nd, G.key[n], c, G.child[n], G.height[n])
      /\ HoldsArr(nd.key, G.key[n], c) /\ HoldsArr(nd.data, G.key[n], c) /\ c \in Nat
      /\ \A j \in 0 .. c - 1 : G.key[n][j] \in Keys
  BY LiveNode
<1>2. H = SetKeys(G, n, Dropped(G.key[n], i), G.count[n] - 1)
  OBVIOUS
<1>3. Forest(H) /\ Content(H) = Content(G) \ {G.key[n][i]}
  <2>1. Forest(G)
    BY <1>1
  <2> HIDE DEF H
  <2> QED BY ONLY <1>2, <2>1, n \in G.live, G.height[n] = 0, i \in 0 .. G.count[n] - 1,
                  G.count[n] > 1 \/ n = G.top, DropInLeaf
<1>4. SameShape(G, H)
  BY DEF SetKeys, SameShape
<1>5. /\ H.count[n] = c1 /\ H.key[n] = f
      /\ \A a \in G.live : a # n => H.count[a] = G.count[a] /\ H.key[a] = G.key[a]
  <2>1. G.live \subseteq Nat /\ n \in Nat
    BY <1>1 DEF Forest, Labelled
  <2> QED BY <2>1 DEF SetKeys
<1>6. HoldsArr(ka, f, c1) /\ HoldsArr(da, f, c1)
  <2>1. ka = MoveDelete(nd.key, i) /\ da = MoveDelete(nd.data, i)
    OBVIOUS
  <2> HIDE DEF ka, da, nd
  <2> QED BY <1>1, <2>1, DropArr
<1>7. \A j \in 0 .. c1 - 1 : f[j] \in Keys
  BY <1>1, SMTT(20) DEF Dropped
<1>8. T2 = [T EXCEPT !.node[n] = md]
  <2>1. T.node \in Seq(NodeType) /\ DOMAIN T.node = 1 .. L /\ T \in TreeType
    BY <1>1, TreeFields DEF TreeOK
  <2> QED BY <1>1, <2>1 DEF Keyed, TreeType, NodeType
<1>9. IsKeyed(md, nd, L, f, c1)
  <2>1. md = Keyed(nd, ka, da)
    OBVIOUS
  <2> HIDE DEF md, ka, da, nd, f, c1, L
  <2> QED BY <1>1, <1>6, <1>7, <2>1, KeyedOK
<1> HIDE DEF md, H, f, c1
<1>10. ChangedAt(T2, T, n, md)
  BY <1>1, <1>8, <1>9, SetNode DEF IsKeyed
<1>11. TreeOK(T2) /\ SameHead(T2, T) /\ Len(T2.node) = L /\ T2.node[n] = md
       /\ \A a \in G.live : a # n => T2.node[a] = T.node[a]
  BY <1>1, <1>10 DEF ChangedAt, Links
<1>12. Links(T2, H)
  <2>1. \A a \in G.live : T2.node[a].parent = T.node[a].parent
    BY <1>9, <1>11 DEF IsKeyed
  <2> QED BY <1>1, <1>4, <1>11, <2>1, LinksStay
<1>13. ASSUME NEW a \in H.live PROVE Stored(T2, H, a)
  <2>1. CASE a = n
    <3>1. Holds(md, f, c1, G.child[n], G.height[n])
      BY <1>1, <1>9, KeyedHolds
    <3> QED BY <1>4, <1>5, <1>11, <2>1, <3>1 DEF Stored, SameShape
  <2>2. CASE a # n
    <3>1. Stored(T, G, a)
      BY <1>4 DEF Represents, SameShape
    <3> QED BY <1>4, <1>5, <1>11, <2>2, <3>1 DEF Stored, SameShape
  <2> QED BY <2>1, <2>2
<1>14. Represents(T2, H)
  BY <1>3, <1>11, <1>12, <1>13 DEF Represents
<1> QED BY <1>3, <1>14 DEF Without

\* Three nodes written.
Written3(T2, T, a, ma, p, mp, b, mb) ==
  /\ TreeOK(T2) /\ Len(T2.node) = Len(T.node) /\ SameHead(T2, T)
  /\ T2.node[a] = ma /\ T2.node[p] = mp /\ T2.node[b] = mb
  /\ \A m \in 1 .. Len(T.node) : m \notin {a, p, b} => T2.node[m] = T.node[m]

\* Three different nodes written.
LEMMA SetThree ==
  ASSUME NEW T, TreeOK(T), NEW L, L = Len(T.node),
         NEW a \in 1 .. L, NEW p \in 1 .. L, NEW b \in 1 .. L, a # p, a # b, p # b,
         NEW ma \in NodeType, NodeOK(ma, L), NEW mp \in NodeType, NodeOK(mp, L),
         NEW mb \in NodeType, NodeOK(mb, L),
         NEW T2, T2 = [T EXCEPT !.node[a] = ma, !.node[p] = mp, !.node[b] = mb]
  PROVE  Written3(T2, T, a, ma, p, mp, b, mb)
<1> DEFINE U == [T EXCEPT !.node[a] = ma]
           V == [U EXCEPT !.node[p] = mp]
<1>1. T2 = [V EXCEPT !.node[b] = mb]
  OBVIOUS
<1>2. ChangedAt(U, T, a, ma)
  <2>1. U = [T EXCEPT !.node[a] = ma]
    OBVIOUS
  <2> HIDE DEF U
  <2> QED BY <2>1, SetNode
<1>3. V = [U EXCEPT !.node[p] = mp]
  OBVIOUS
<1> HIDE DEF U, V
<1>4. TreeOK(U) /\ Len(U.node) = L
  BY <1>2 DEF ChangedAt
<1>5. ChangedAt(V, U, p, mp)
  BY <1>3, <1>4, SetNode
<1>6. TreeOK(V) /\ Len(V.node) = L
  BY <1>4, <1>5 DEF ChangedAt
<1>7. ChangedAt(T2, V, b, mb)
  BY <1>1, <1>6, SetNode
<1> QED BY <1>2, <1>4, <1>5, <1>6, <1>7 DEF ChangedAt, Written3, SameHead

\* What a key that moves between brothers over their parent leaves in the file.
BorrowedIs(T2, T, G, n, p, q, b, e) ==
  /\ TreeOK(T2) /\ Len(T2.node) = Len(T.node) /\ SameHead(T2, T)
  /\ IsKeyed(T2.node[n], T.node[n], Len(T.node), [j \in Nat |-> G.key[p][q]], 1)
  /\ IsKeyed(T2.node[p], T.node[p], Len(T.node), Replaced(G.key[p], q, G.key[b][e]), G.count[p])
  /\ IsKeyed(T2.node[b], T.node[b], Len(T.node), Dropped(G.key[b], e), G.count[b] - 1)
  /\ \A m \in 1 .. Len(T.node) : m \notin {n, p, b} => T2.node[m] = T.node[m]

\* What Borrowed leaves in the file, node by node.
LEMMA BorrowedTree ==
  ASSUME NEW T, NEW G, Represents(T, G), NEW n \in G.live, NEW p \in G.live, NEW b \in G.live,
         n # p, n # b, p # b, NEW i, Child(T.node[p], i) = n,
         NEW q \in 0 .. G.count[p] - 1, NEW e \in 0 .. G.count[b] - 1,
         NEW T2, T2 = Borrowed(T, p, i, q, b, e, e)
  PROVE  BorrowedIs(T2, T, G, n, p, q, b, e)
<1> DEFINE L == Len(T.node)
           N == T.node[n]
           P == T.node[p]
           B == T.node[b]
           x == G.key[p][q]
           y == G.key[b][e]
           nk == Counted(Put(N.key, 0, x), 1)
           nv == Counted(Put(N.data, 0, x), 1)
           pk == Put(P.key, q, y)
           pv == Put(P.data, q, y)
           bk == MoveDelete(B.key, e)
           bv == MoveDelete(B.data, e)
           ma == Keyed(N, nk, nv)
           mp == Keyed(P, pk, pv)
           mb == Keyed(B, bk, bv)
<1>1. /\ TreeOK(T) /\ L \in Nat /\ n \in 1 .. L /\ N \in NodeType /\ NodeOK(N, L)
      /\ HoldsArr(N.key, G.key[n], G.count[n]) /\ HoldsArr(N.data, G.key[n], G.count[n])
  BY LiveNode
<1>2. /\ p \in 1 .. L /\ P \in NodeType /\ NodeOK(P, L) /\ G.count[p] \in Nat
      /\ HoldsArr(P.key, G.key[p], G.count[p]) /\ HoldsArr(P.data, G.key[p], G.count[p])
      /\ \A j \in 0 .. G.count[p] - 1 : G.key[p][j] \in Keys
  BY LiveNode
<1>3. /\ b \in 1 .. L /\ B \in NodeType /\ NodeOK(B, L) /\ G.count[b] \in Nat
      /\ HoldsArr(B.key, G.key[b], G.count[b]) /\ HoldsArr(B.data, G.key[b], G.count[b])
      /\ \A j \in 0 .. G.count[b] - 1 : G.key[b][j] \in Keys
  BY LiveNode
<1>4. x \in Keys /\ y \in Keys /\ x \in Nat /\ y \in Nat
  BY <1>2, <1>3, FiveNat
<1>5. /\ At(P.key, q) = x /\ DataOptr(P, q) = x /\ At(B.key, e) = y /\ DataOptr(B, e) = y
  BY <1>2, <1>3, SMTT(20) DEF At, DataOptr, HoldsArr
<1>6. T2 = [T EXCEPT !.node[n] = ma, !.node[p] = mp, !.node[b] = mb]
  <2>1. T.node \in Seq(NodeType) /\ DOMAIN T.node = 1 .. L /\ T \in TreeType
    BY <1>1, TreeFields DEF TreeOK
  <2>2. T2 = [T EXCEPT
       !.node[n] = [N EXCEPT !.key = Counted(Put(@, 0, x), 1), !.data = Counted(Put(@, 0, x), 1)],
       !.node[p] = [P EXCEPT !.key = Put(@, q, y), !.data = Put(@, q, y)],
       !.node[b] = [B EXCEPT !.key = MoveDelete(@, e), !.data = MoveDelete(@, e)]]
    <3> HIDE DEF x, y
    <3> QED BY <1>5 DEF Borrowed
  <2> HIDE DEF x, y
  <2>3. /\ [N EXCEPT !.key = Counted(Put(@, 0, x), 1), !.data = Counted(Put(@, 0, x), 1)] = ma
        /\ [P EXCEPT !.key = Put(@, q, y), !.data = Put(@, q, y)] = mp
        /\ [B EXCEPT !.key = MoveDelete(@, e), !.data = MoveDelete(@, e)] = mb
    BY <1>1, <1>2, <1>3 DEF Keyed, NodeType
  <2> QED BY <2>2, <2>3
<1>7. HoldsArr(nk, [j \in Nat |-> x], 1) /\ HoldsArr(nv, [j \in Nat |-> x], 1)
  <2>1. nk = Counted(Put(N.key, 0, x), 1) /\ nv = Counted(Put(N.data, 0, x), 1)
    OBVIOUS
  <2>2. N.key \in Arr(K) /\ N.data \in Arr(K) /\ N.key.at[K] = 0 /\ N.data.at[K] = 0
    BY <1>1 DEF HoldsArr, Fits, At
  <2> HIDE DEF nk, nv, x, N
  <2> QED BY <1>4, <2>1, <2>2, OneArr
<1>8. HoldsArr(pk, Replaced(G.key[p], q, y), G.count[p]) /\ HoldsArr(pv, Replaced(G.key[p], q, y), G.count[p])
  <2>1. pk = Put(P.key, q, y) /\ pv = Put(P.data, q, y)
    OBVIOUS
  <2> HIDE DEF pk, pv, y, P
  <2> QED BY <1>2, <1>4, <2>1, PutArr
<1>9. HoldsArr(bk, Dropped(G.key[b], e), G.count[b] - 1) /\ HoldsArr(bv, Dropped(G.key[b], e), G.count[b] - 1)
  <2>1. bk = MoveDelete(B.key, e) /\ bv = MoveDelete(B.data, e)
    OBVIOUS
  <2> HIDE DEF bk, bv, B
  <2> QED BY <1>3, <2>1, DropArr
<1>10. IsKeyed(ma, N, L, [j \in Nat |-> x], 1)
  <2> DEFINE f == [j \in Nat |-> x]
             one == 1
  <2>1. \A j \in 0 .. one - 1 : f[j] \in Keys
    BY <1>4
  <2>2. ma = Keyed(N, nk, nv)
    OBVIOUS
  <2>3. HoldsArr(nk, f, one) /\ HoldsArr(nv, f, one)
    BY <1>7
  <2> HIDE DEF ma, nk, nv, N, f, one, L
  <2>4. IsKeyed(ma, N, L, f, one)
    BY <1>1, <2>1, <2>2, <2>3, KeyedOK
  <2> QED BY <2>4 DEF f, one
<1>11. IsKeyed(mp, P, L, Replaced(G.key[p], q, y), G.count[p])
  <2> DEFINE f == Replaced(G.key[p], q, y)
             m == G.count[p]
  <2>1. \A j \in 0 .. m - 1 : f[j] \in Keys
    BY <1>2, <1>4 DEF Replaced
  <2>2. mp = Keyed(P, pk, pv)
    OBVIOUS
  <2>3. HoldsArr(pk, f, m) /\ HoldsArr(pv, f, m)
    BY <1>8
  <2> HIDE DEF mp, pk, pv, P, f, m, L
  <2>4. IsKeyed(mp, P, L, f, m)
    BY <1>2, <2>1, <2>2, <2>3, KeyedOK
  <2> QED BY <2>4 DEF f, m
<1>12. IsKeyed(mb, B, L, Dropped(G.key[b], e), G.count[b] - 1)
  <2> DEFINE f == Dropped(G.key[b], e)
             m == G.count[b] - 1
  <2>1. \A j \in 0 .. m - 1 : f[j] \in Keys
    BY <1>3 DEF Dropped
  <2>2. mb = Keyed(B, bk, bv)
    OBVIOUS
  <2>3. HoldsArr(bk, f, m) /\ HoldsArr(bv, f, m)
    BY <1>9
  <2> HIDE DEF mb, bk, bv, B, f, m, L
  <2>4. IsKeyed(mb, B, L, f, m)
    BY <1>3, <2>1, <2>2, <2>3, KeyedOK
  <2> QED BY <2>4 DEF f, m
<1> HIDE DEF ma, mp, mb
<1>13. Written3(T2, T, n, ma, p, mp, b, mb)
  <2>1. ma \in NodeType /\ NodeOK(ma, L) /\ mp \in NodeType /\ NodeOK(mp, L) /\ mb \in NodeType /\ NodeOK(mb, L)
    BY <1>10, <1>11, <1>12 DEF IsKeyed
  <2>2. L = Len(T.node)
    OBVIOUS
  <2> HIDE DEF L
  <2> QED BY <1>1, <1>2, <1>3, <1>6, <2>1, <2>2, SetThree, Zenon
<1> HIDE DEF x, y
<1>14. x = G.key[p][q] /\ y = G.key[b][e]
  BY DEF x, y
<1> QED BY <1>10, <1>11, <1>12, <1>13, <1>14 DEF Written3, BorrowedIs

\* The labels of n, p and b after a key moved from b to p and another from p to n.
Passed(G, H, n, p, q, b, e) ==
  /\ Forest(H) /\ SameShape(G, H)
  /\ H.count[n] = 1 /\ H.key[n] = [j \in Nat |-> G.key[p][q]]
  /\ H.count[p] = G.count[p] /\ H.key[p] = Replaced(G.key[p], q, G.key[b][e])
  /\ H.count[b] = G.count[b] - 1
  /\ \A j \in 0 .. G.count[b] - 1 - 1 : H.key[b][j] = Dropped(G.key[b], e)[j]
  /\ \A a \in G.live : a \notin {n, p, b} => H.count[a] = G.count[a] /\ H.key[a] = G.key[a]

\* After Borrowed the file represents the forest with the key moved.
LEMMA PassedOK ==
  ASSUME NEW T, NEW G, Represents(T, G), NEW n \in G.live, NEW p \in G.live, NEW b \in G.live,
         G.height[n] = 0, G.height[b] = 0, NEW q, NEW e, NEW T2, BorrowedIs(T2, T, G, n, p, q, b, e),
         NEW H, Passed(G, H, n, p, q, b, e)
  PROVE  Represents(T2, H)
<1> DEFINE L == Len(T.node)
<1>1. /\ Forest(G) /\ TreeOK(T) /\ Links(T, G) /\ G.live \subseteq 1 .. L
      /\ \A a \in G.live : Stored(T, G, a)
  BY DEF Represents, Links
<1>2. TreeOK(T2) /\ SameHead(T2, T) /\ Len(T2.node) = L
  BY DEF BorrowedIs
<1>3. /\ IsKeyed(T2.node[n], T.node[n], L, [j \in Nat |-> G.key[p][q]], 1)
      /\ IsKeyed(T2.node[p], T.node[p], L, Replaced(G.key[p], q, G.key[b][e]), G.count[p])
      /\ IsKeyed(T2.node[b], T.node[b], L, Dropped(G.key[b], e), G.count[b] - 1)
      /\ \A a \in G.live : a \notin {n, p, b} => T2.node[a] = T.node[a]
  BY <1>1 DEF BorrowedIs
<1>4. Links(T2, H)
  <2>1. \A a \in G.live : T2.node[a].parent = T.node[a].parent
    BY <1>3 DEF IsKeyed
  <2>2. SameShape(G, H)
    BY DEF Passed
  <2> QED BY <1>1, <1>2, <2>1, <2>2, LinksStay
<1>5. H.child = G.child /\ H.height = G.height /\ H.live = G.live
  BY DEF Passed, SameShape
<1>6. Stored(T2, H, n)
  <2> DEFINE f == [j \in Nat |-> G.key[p][q]]
             one == 1
  <2>1. IsKeyed(T2.node[n], T.node[n], L, f, one) /\ Holds(T.node[n], G.key[n], G.count[n], G.child[n], G.height[n])
    BY <1>1, <1>3 DEF Stored
  <2>2. H.key[n] = f /\ H.count[n] = one
    BY DEF Passed
  <2> HIDE DEF f, one
  <2>3. Holds(T2.node[n], f, one, G.child[n], G.height[n])
    BY <2>1, KeyedHolds
  <2> QED BY <1>5, <2>2, <2>3 DEF Stored
<1>7. Stored(T2, H, p)
  <2> DEFINE f == Replaced(G.key[p], q, G.key[b][e])
  <2>1. IsKeyed(T2.node[p], T.node[p], L, f, G.count[p]) /\ Holds(T.node[p], G.key[p], G.count[p], G.child[p], G.height[p])
    BY <1>1, <1>3 DEF Stored
  <2>2. H.key[p] = f /\ H.count[p] = G.count[p]
    BY DEF Passed
  <2> HIDE DEF f
  <2>3. Holds(T2.node[p], f, G.count[p], G.child[p], G.height[p])
    BY <2>1, KeyedHolds
  <2> QED BY <1>5, <2>2, <2>3 DEF Stored
<1>8. Stored(T2, H, b)
  <2> DEFINE f == Dropped(G.key[b], e)
             m == G.count[b] - 1
  <2>1. IsKeyed(T2.node[b], T.node[b], L, f, m) /\ Holds(T.node[b], G.key[b], G.count[b], G.child[b], G.height[b])
    BY <1>1, <1>3 DEF Stored
  <2>2. H.count[b] = m /\ \A j \in 0 .. m - 1 : H.key[b][j] = f[j]
    BY DEF Passed
  <2> HIDE DEF f, m
  <2>3. Holds(T2.node[b], f, m, G.child[b], G.height[b])
    BY <2>1, KeyedHolds
  <2>4. Holds(T2.node[b], H.key[b], m, G.child[b], G.height[b])
    BY <2>2, <2>3 DEF Holds
  <2> QED BY <1>5, <2>2, <2>4 DEF Stored
<1>9. ASSUME NEW a \in H.live PROVE Stored(T2, H, a)
  <2>1. CASE a \in {n, p, b}
    BY <1>6, <1>7, <1>8, <2>1
  <2>2. CASE a \notin {n, p, b}
    <3>1. Stored(T, G, a) /\ T2.node[a] = T.node[a] /\ H.count[a] = G.count[a] /\ H.key[a] = G.key[a]
      BY <1>1, <1>3, <1>5, <2>2 DEF Passed
    <3> QED BY <1>5, <3>1 DEF Stored
  <2> QED BY <2>1, <2>2
<1>10. Forest(H)
  BY DEF Passed
<1> QED BY <1>2, <1>4, <1>9, <1>10 DEF Represents

\* The child at a place of an inner node, and the place of a child.
ChildIs(T, G, p, i, n) ==
  /\ PositionIn(T.node[p].child, n) = i
  /\ Child(T.node[p], i) = n
  /\ Child(T.node[p], i - 1) = IF i = 0 THEN 0 ELSE G.child[p][i - 1]
  /\ Child(T.node[p], i + 1) = IF i = G.count[p] THEN 0 ELSE G.child[p][i + 1]

\* The position of a child in its parent, and its brothers.
LEMMA ChildAt ==
  ASSUME NEW T, NEW G, Represents(T, G), NEW p \in G.live, G.height[p] # 0, NEW i \in 0 .. G.count[p],
         NEW n, n = G.child[p][i]
  PROVE  ChildIs(T, G, p, i, n)
<1> DEFINE a == T.node[p].child
           c == G.count[p]
<1>1. NodeIs(T, G, p) /\ Forest(G)
  BY NodeFacts DEF Represents
<1>2. c \in Nat /\ a.n = c + 1 /\ \A j \in 0 .. c : a.at[j] = G.child[p][j]
  BY <1>1 DEF NodeIs
<1>3. \A j \in 0 .. c : G.child[p][j] = n => j = i
  BY <1>1 DEF Forest, ChildrenOK
<1> DEFINE S == {j \in 0 .. a.n - 1 : At(a, j) = n}
<1>4. S = {i}
  <2>1. ASSUME NEW j PROVE j \in S <=> j = i
    <3>1. a.n - 1 = c
      BY <1>2
    <3> QED BY <1>2, <1>3, <3>1 DEF At
  <2> QED BY <2>1
<1>5. PositionIn(a, n) = IF S = {} THEN -1 ELSE Min(S)
  BY DEF PositionIn
<1> HIDE DEF S
<1>6. Min(S) = i
  <2>1. S \subseteq Nat /\ S # {}
    BY <1>2, <1>4
  <2>2. Min(S) \in S
    BY <2>1, MinIsLeast
  <2> QED BY <1>4, <2>2
<1>7. PositionIn(a, n) = i
  BY <1>4, <1>5, <1>6
<1>8. Child(T.node[p], i) = n
  BY <1>2 DEF Child, At
<1>9. Child(T.node[p], i - 1) = IF i = 0 THEN 0 ELSE G.child[p][i - 1]
  <2>1. CASE i = 0
    BY <2>1 DEF Child
  <2>2. CASE i # 0
    <3>1. i - 1 \in 0 .. c /\ 0 <= i - 1 /\ i - 1 < a.n
      BY <1>2, <2>2
    <3> QED BY <1>2, <2>2, <3>1 DEF Child, At
  <2> QED BY <2>1, <2>2
<1>10. Child(T.node[p], i + 1) = IF i = c THEN 0 ELSE G.child[p][i + 1]
  <2>1. CASE i = c
    BY <1>2, <2>1 DEF Child
  <2>2. CASE i # c
    <3>1. i + 1 \in 0 .. c /\ 0 <= i + 1 /\ i + 1 < a.n
      BY <1>2, <2>2
    <3> QED BY <1>2, <2>2, <3>1 DEF Child, At
  <2> QED BY <2>1, <2>2
<1> QED BY <1>7, <1>8, <1>9, <1>10 DEF ChildIs

\* A removal that borrows from the left leaves a tree without the key.
LEMMA TakeLeft ==
  ASSUME NEW T, NEW G, Represents(T, G), NEW p \in G.live, G.height[p] = 1, NEW i \in 1 .. G.count[p],
         NEW l, l = G.child[p][i - 1], NEW n, n = G.child[p][i],
         NEW c, c = G.count[l], c >= 2, G.count[n] = 1,
         NEW T2, T2 = Borrowed(T, p, i, i - 1, l, c - 1, c - 1)
  PROVE  Without(T2, G, G.key[n][0])
<1> DEFINE q == i - 1
           e == c - 1
           H == BorrowLeft(G, p, i)
<1>1. Forest(G) /\ G.count[p] \in Nat
  BY Zenon DEF Represents, Forest, Labelled
<1>2. q \in 0 .. G.count[p] - 1 /\ q + 1 = i /\ i \in 0 .. G.count[p]
  BY <1>1, SMTT(20)
<1>3. /\ l \in G.live /\ n \in G.live /\ l # n /\ l # p /\ n # p
      /\ c \in Nat /\ G.height[l] = 0 /\ G.height[n] = 0
  <2> DEFINE S == Span(G.range[p], G.key[p], G.count[p], q)
  <2>1. S = Span(G.range[p], G.key[p], G.count[p], q) /\ l = G.child[p][q] /\ n = G.child[p][q + 1]
    BY <1>2, Zenon
  <2>2. p \in G.live /\ G.height[p] = 1 /\ c = G.count[l]
    OBVIOUS
  <2> HIDE DEF S, q
  <2> QED BY ONLY <1>1, <1>2, <2>1, <2>2, Beside
<1>4. e \in 0 .. c - 1 /\ e - 1 = c - 1 - 1
  BY <1>3
<1>5. /\ Moved(G, H, p, q, G.key[l][e], l, G.key[l], e, n, [j \in Nat |-> G.key[p][q]], 1)
      /\ Content(H) = Content(G) \ {G.key[n][0]}
  <2>1. H = BorrowLeft(G, p, i)
    BY Zenon
  <2> HIDE DEF H
  <2>2. LeftMoved(G, H, p, i, l, n, c)
    BY <1>1, <2>1, BorrowLeftOK, Zenon
  <2> QED BY <2>2, Zenon DEF LeftMoved
<1>6. Child(T.node[p], i) = n
  <2>1. G.height[p] # 0
    OBVIOUS
  <2>2. ChildIs(T, G, p, i, n)
    BY <1>2, <2>1, ChildAt, Zenon
  <2> QED BY <2>2, Zenon DEF ChildIs
<1>7. T2 = Borrowed(T, p, i, q, l, e, e)
  BY Zenon
<1> HIDE DEF H, q
<1>8. BorrowedIs(T2, T, G, n, p, q, l, e)
  <2> HIDE DEF e
  <2> QED BY <1>2, <1>3, <1>4, <1>6, <1>7, BorrowedTree, Zenon
<1>9. Passed(G, H, n, p, q, l, e)
  <2>1. \A j \in 0 .. c - 1 - 1 : H.key[l][j] = Dropped(G.key[l], e)[j]
    <3>1. H.key[l] = G.key[l]
      BY <1>5, Zenon DEF Moved
    <3>2. \A j \in 0 .. c - 1 - 1 : j \in Nat /\ j < e
      BY <1>3
    <3> QED BY <3>1, <3>2, Zenon DEF Dropped
  <2>2. SameShape(G, H) /\ Forest(H)
    BY <1>5, Zenon DEF Moved, SameShape
  <2>3. H.count[p] = G.count[p] /\ \A a \in G.live : a \notin {n, p, l} => H.count[a] = G.count[a] /\ H.key[a] = G.key[a]
    BY <1>3, <1>5, Zenon DEF Moved
  <2>4. H.count[n] = 1 /\ H.key[n] = [j \in Nat |-> G.key[p][q]] /\ H.count[l] = c - 1
        /\ H.key[p] = Replaced(G.key[p], q, G.key[l][e])
    BY <1>5, Zenon DEF Moved
  <2> HIDE DEF e
  <2> QED BY <2>1, <2>2, <2>3, <2>4, Zenon DEF Passed
<1>10. Represents(T2, H)
  <2> HIDE DEF e
  <2> QED BY <1>3, <1>8, <1>9, PassedOK, Zenon
<1> QED BY <1>5, <1>10, Zenon DEF Without

\* A removal that borrows from the right leaves a tree without the key.
LEMMA TakeRight ==
  ASSUME NEW T, NEW G, Represents(T, G), NEW p \in G.live, G.height[p] = 1,
         NEW i \in 0 .. G.count[p] - 1,
         NEW n, n = G.child[p][i], NEW r, r = G.child[p][i + 1],
         NEW c, c = G.count[r], c >= 2, G.count[n] = 1,
         NEW T2, T2 = Borrowed(T, p, i, i, r, 0, 0)
  PROVE  Without(T2, G, G.key[n][0])
<1> DEFINE e == 0
           H == BorrowRight(G, p, i)
<1>1. Forest(G) /\ G.count[p] \in Nat
  BY Zenon DEF Represents, Forest, Labelled
<1>2. i \in 0 .. G.count[p]
  BY <1>1
<1>3. /\ r \in G.live /\ n \in G.live /\ r # n /\ r # p /\ n # p
      /\ c \in Nat /\ G.height[r] = 0 /\ G.height[n] = 0
  <2> DEFINE S == Span(G.range[p], G.key[p], G.count[p], i)
  <2>1. S = Span(G.range[p], G.key[p], G.count[p], i)
    BY Zenon
  <2> HIDE DEF S
  <2> QED BY <1>1, <2>1, Beside
<1>4. e \in 0 .. c - 1
  BY <1>3
<1>5. /\ Moved(G, H, p, i, G.key[r][e], n, [j \in Nat |-> G.key[p][i]], 1, r, Dropped(G.key[r], e), c - 1)
      /\ Content(H) = Content(G) \ {G.key[n][0]}
  <2>1. H = BorrowRight(G, p, i)
    BY Zenon
  <2> HIDE DEF H
  <2>2. RightMoved(G, H, p, i, n, r, c)
    BY <1>1, <2>1, BorrowRightOK, Zenon
  <2> QED BY <2>2, Zenon DEF RightMoved
<1>6. Child(T.node[p], i) = n
  <2>1. G.height[p] # 0
    OBVIOUS
  <2>2. ChildIs(T, G, p, i, n)
    BY <1>2, <2>1, ChildAt, Zenon
  <2> QED BY <2>2, Zenon DEF ChildIs
<1>7. T2 = Borrowed(T, p, i, i, r, e, e)
  BY Zenon
<1> HIDE DEF H, e
<1>8. BorrowedIs(T2, T, G, n, p, i, r, e)
  BY <1>3, <1>4, <1>6, <1>7, BorrowedTree, Zenon
<1>9. Passed(G, H, n, p, i, r, e)
  <2>1. H.key[r] = Dropped(G.key[r], e)
    BY <1>5, Zenon DEF Moved
  <2>2. SameShape(G, H) /\ Forest(H)
    BY <1>5, Zenon DEF Moved, SameShape
  <2>3. H.count[p] = G.count[p] /\ \A a \in G.live : a \notin {n, p, r} => H.count[a] = G.count[a] /\ H.key[a] = G.key[a]
    BY <1>3, <1>5, Zenon DEF Moved
  <2>4. H.count[n] = 1 /\ H.key[n] = [j \in Nat |-> G.key[p][i]] /\ H.count[r] = c - 1
        /\ H.key[p] = Replaced(G.key[p], i, G.key[r][e])
    BY <1>5, Zenon DEF Moved
  <2> QED BY <2>1, <2>2, <2>3, <2>4, Zenon DEF Passed
<1>10. Represents(T2, H)
  BY <1>3, <1>8, <1>9, PassedOK, Zenon
<1> QED BY <1>5, <1>10, Zenon DEF Without

\* The root p with one key after it gave its key to its child t and dropped child i.
Emptied(P, i) == [P EXCEPT !.key = MoveDelete(@, 0), !.data = MoveDelete(@, 0), !.child = MoveDelete(@, i)]

IsEmptied(md, P, L, t) ==
  /\ md \in NodeType /\ NodeOK(md, L) /\ md.parent = P.parent
  /\ md.key.n = 0 /\ md.data.n = 0 /\ md.child.n = 1 /\ md.child.at[0] = t

\* The old root after the merge of its two leaves has no keys and one child.
LEMMA EmptiedOK ==
  ASSUME NEW L \in Nat, NEW P \in NodeType, NodeOK(P, L), P.key.n = 1, P.data.n = 1, P.child.n = 2,
         NEW i \in {0, 1}, NEW t, t = P.child.at[1 - i], NEW md, md = Emptied(P, i)
  PROVE  IsEmptied(md, P, L, t)
<1> DEFINE ka == MoveDelete(P.key, 0)
           da == MoveDelete(P.data, 0)
           ca == MoveDelete(P.child, i)
           K1 == K + 1
<1>1. K \in Nat /\ K >= 2 /\ K1 \in Nat /\ K \in 0 .. K /\ K1 \in 0 .. K1
  BY KAssumption
<1>2. /\ P.key \in Arr(K) /\ P.data \in Arr(K) /\ P.child \in Arr(K1)
      /\ P.key.at[K] = 0 /\ P.data.at[K] = 0 /\ P.child.at[K1] = 0 /\ P.parent \in 0 .. L /\ P.parent \in Nat
      /\ P.child.at[0] \in 1 .. L /\ P.child.at[1] \in 1 .. L
  BY DEF NodeType, NodeOK, Fits, At
<1>3. IsMoveDelete(ka, P.key, K, 0) /\ IsMoveDelete(da, P.data, K, 0)
  <2>1. ka = MoveDelete(P.key, 0) /\ da = MoveDelete(P.data, 0) /\ 0 \in Nat
        /\ P.key.n # 0 /\ P.key.n <= K + 1 /\ P.data.n # 0 /\ P.data.n <= K + 1
    BY <1>1
  <2> HIDE DEF ka, da
  <2> QED BY <1>1, <1>2, <2>1, MoveDeleteAt
<1>4. IsMoveDelete(ca, P.child, K1, i)
  <2>1. ca = MoveDelete(P.child, i) /\ i \in Nat /\ P.child.n # 0 /\ P.child.n <= K1 + 1
    BY <1>1
  <2> HIDE DEF ca, K1
  <2> QED BY <1>1, <1>2, <2>1, MoveDeleteAt
<1>5. md = [parent |-> P.parent, key |-> ka, data |-> da, child |-> ca]
  <2> HIDE DEF ka, da, ca
  <2>1. md = [P EXCEPT !.key = ka, !.data = da, !.child = ca]
    BY DEF Emptied, ka, da, ca
  <2> QED BY <2>1 DEF NodeType
<1> HIDE DEF ka, da, ca
<1>6. ka \in Arr(K) /\ ka.n = 0 /\ ka.at[K] = 0 /\ da \in Arr(K) /\ da.n = 0 /\ da.at[K] = 0
  BY <1>1, <1>2, <1>3 DEF IsMoveDelete
<1>7. ca \in Arr(K1) /\ ca.n = 1 /\ ca.at[K1] = 0
  BY <1>1, <1>2, <1>4 DEF IsMoveDelete
<1>8. ca.at[0] = t
  <2>1. 0 \in 0 .. K1 /\ 0 < P.child.n - 1
    BY <1>1
  <2>2. ca.at[0] = IF i <= 0 THEN P.child.at[0 + 1] ELSE P.child.at[0]
    BY <1>4, <2>1 DEF IsMoveDelete
  <2>3. CASE i = 0
    BY <2>2, <2>3
  <2>4. CASE i = 1
    BY <2>2, <2>4
  <2> QED BY <2>3, <2>4
<1>9. t \in 1 .. L
  BY <1>2
<1>10. /\ md \in NodeType /\ md.parent = P.parent /\ md.key = ka /\ md.data = da /\ md.child = ca
  BY <1>2, <1>5, <1>6, <1>7 DEF NodeType
<1>11. NodeOK(md, L)
  BY <1>1, <1>2, <1>6, <1>7, <1>8, <1>9, <1>10 DEF NodeOK, Fits, At
<1> QED BY <1>6, <1>7, <1>8, <1>10, <1>11 DEF IsEmptied

\* Two nodes written.
Written2(T2, T, a, ma, p, mp) ==
  /\ TreeOK(T2) /\ Len(T2.node) = Len(T.node) /\ SameHead(T2, T) /\ T2.node[a] = ma /\ T2.node[p] = mp
  /\ \A m \in 1 .. Len(T.node) : m \notin {a, p} => T2.node[m] = T.node[m]

\* Two different nodes written.
LEMMA SetTwo ==
  ASSUME NEW T, TreeOK(T), NEW L, L = Len(T.node), NEW a \in 1 .. L, NEW p \in 1 .. L, a # p,
         NEW ma \in NodeType, NodeOK(ma, L), NEW mp \in NodeType, NodeOK(mp, L),
         NEW T2, T2 = [T EXCEPT !.node[a] = ma, !.node[p] = mp]
  PROVE  Written2(T2, T, a, ma, p, mp)
<1> DEFINE U == [T EXCEPT !.node[a] = ma]
<1>1. T2 = [U EXCEPT !.node[p] = mp] /\ U = [T EXCEPT !.node[a] = ma]
  OBVIOUS
<1> HIDE DEF U
<1>2. ChangedAt(U, T, a, ma)
  BY <1>1, SetNode
<1>3. TreeOK(U) /\ Len(U.node) = L
  BY <1>2 DEF ChangedAt
<1>4. ChangedAt(T2, U, p, mp)
  BY <1>1, <1>3, SetNode
<1> QED BY <1>2, <1>3, <1>4 DEF ChangedAt, SameHead, Written2

\* A node becomes the root, in memory and without a parent.
RootedAt(T2, T, c) ==
  /\ TreeOK(T2) /\ Len(T2.node) = Len(T.node) /\ T2.root = c /\ T2.meta = T.meta /\ T2.up = T.up
  /\ T2.node[c].parent = 0 /\ SameArrays(T2.node[c], T.node[c])
  /\ \A m \in 1 .. Len(T.node) : m # c => T2.node[m] = T.node[m]

Rooted(T, c) == [SetParent(T, c, 0) EXCEPT !.root = c]

\* The promoted child loses its parent and becomes the root.
LEMMA SetRoot ==
  ASSUME NEW T, TreeOK(T), NEW c \in 1 .. Len(T.node), NEW T2, T2 = Rooted(T, c)
  PROVE  RootedAt(T2, T, c)
<1> DEFINE nd == T.node[c]
           L == Len(T.node)
           md == [nd EXCEPT !.parent = 0]
           U == [T EXCEPT !.node[c] = md]
<1>1. T \in TreeType /\ nd \in NodeType /\ NodeOK(nd, L) /\ L \in Nat /\ T.node \in Seq(NodeType)
  BY TreeFields DEF TreeOK
<1>2. md \in NodeType /\ md.parent = 0 /\ SameArrays(md, nd)
  BY <1>1 DEF NodeType, SameArrays
<1>3. NodeOK(md, L)
  <2> HIDE DEF md
  <2> QED BY <1>1, <1>2 DEF NodeOK, SameArrays
<1>4. U = SetParent(T, c, 0)
  BY <1>1 DEF SetParent, TreeType, NodeType
<1> HIDE DEF md
<1>5. ChangedAt(U, T, c, md)
  <2>1. U = [T EXCEPT !.node[c] = md]
    OBVIOUS
  <2> HIDE DEF U
  <2> QED BY <1>2, <1>3, <2>1, SetNode
<1> HIDE DEF U
<1>6. U \in TreeType /\ TreeOK(U) /\ T2 = [U EXCEPT !.root = c] /\ c \in Nat
  BY <1>1, <1>4, <1>5 DEF ChangedAt, TreeOK, Rooted
<1>7. /\ T2 \in TreeType /\ T2.node = U.node /\ T2.root = c /\ T2.meta = U.meta /\ T2.up = U.up
  BY <1>6 DEF TreeType
<1>8. TreeOK(T2)
  BY <1>6, <1>7 DEF TreeOK
<1> QED BY <1>2, <1>5, <1>7, <1>8 DEF RootedAt, ChangedAt, SameHead

\* Below a top with one key at height 1 there are its two children only.
LEMMA TopChildren ==
  ASSUME NEW G, Forest(G), NEW p, p = G.top, G.height[p] = 1, G.count[p] = 1,
         NEW a \in G.live, a # G.child[p][0], a # G.child[p][1]
  PROVE  G.height[a] >= 1
<1>1. G.height[a] \in Nat /\ p \in G.live /\ G.meta \in G.live /\ G.height[p] <= G.height[G.meta]
  BY DEF Forest, Labelled, Chain
<1>2. SUFFICES ASSUME G.height[a] = 0 PROVE FALSE
  BY <1>1
<1>3. a # G.meta
  BY <1>1, <1>2
<1>4. PICK j \in Nat : IsChild(G, G.parent[a], j, a)
  BY <1>3 DEF Forest, Attached
<1>5. G.parent[a] \in G.live /\ G.height[G.parent[a]] = 1
  <2>1. G.parent[a] \in G.live
    BY <1>4 DEF IsChild
  <2>2. G.height[a] + 1 = G.height[G.parent[a]]
    BY <1>4, OneParent
  <2> QED BY <1>2, <2>1, <2>2
<1>6. G.parent[a] = p
  BY <1>1, <1>5 DEF Forest, Chain
<1>7. j \in 0 .. 1 /\ G.child[p][j] = a
  BY <1>4, <1>6 DEF IsChild
<1> QED BY <1>7

\* What the merge of the two leaves below the root leaves in the file.
MergedIs(M, T, G, p, t, f) ==
  /\ TreeOK(M) /\ Len(M.node) = Len(T.node) /\ SameHead(M, T)
  /\ IsKeyed(M.node[t], T.node[t], Len(T.node), f, 2)
  /\ IsEmptied(M.node[p], T.node[p], Len(T.node), t)
  /\ \A m \in 1 .. Len(T.node) : m \notin {t, p} => M.node[m] = T.node[m]

\* Merged, below a root with one key, leaves the other leaf with both keys.
LEMMA MergedTree ==
  ASSUME NEW T, NEW G, Represents(T, G), NEW p \in G.live, G.height[p] = 1, G.count[p] = 1,
         NEW i \in {0, 1}, NEW t \in G.live, t = G.child[p][1 - i], t # p, G.count[t] = 1,
         NEW f, f = Inserted(G.key[t], i, G.key[p][0]),
         NEW left \in BOOLEAN, left <=> i = 1,
         NEW M, M = Merged(T, p, i, left, FALSE)
  PROVE  MergedIs(M, T, G, p, t, f)
<1> DEFINE L == Len(T.node)
           P == T.node[p]
           N == T.node[t]
           x == G.key[p][0]
           ka == Grown(MoveInsert(N.key, i, x))
           da == Grown(MoveInsert(N.data, i, x))
           ma == Keyed(N, ka, da)
           mp == Emptied(P, i)
<1>1. /\ TreeOK(T) /\ L \in Nat /\ t \in 1 .. L /\ N \in NodeType /\ NodeOK(N, L)
      /\ HoldsArr(N.key, G.key[t], 1) /\ HoldsArr(N.data, G.key[t], 1) /\ G.key[t][0] \in Keys
  BY LiveNode, SMTT(20)
<1>2. /\ p \in 1 .. L /\ P \in NodeType /\ NodeOK(P, L) /\ x \in Keys
      /\ HoldsArr(P.key, G.key[p], 1) /\ HoldsArr(P.data, G.key[p], 1)
      /\ Holds(P, G.key[p], 1, G.child[p], 1)
  <2>1. /\ p \in 1 .. L /\ P \in NodeType /\ NodeOK(P, L)
        /\ HoldsArr(P.key, G.key[p], G.count[p]) /\ HoldsArr(P.data, G.key[p], G.count[p])
        /\ Holds(P, G.key[p], G.count[p], G.child[p], G.height[p])
        /\ \A j \in 0 .. G.count[p] - 1 : G.key[p][j] \in Keys
    BY LiveNode, Zenon
  <2>2. x \in Keys
    BY <2>1
  <2> QED BY <2>1, <2>2, Zenon
<1>3. x \in Nat
  BY <1>2, FiveNat, Zenon
<1>4. At(P.key, 0) = x /\ DataOptr(P, 0) = x /\ N.key.n = 1 /\ N.data.n = 1
  <2>1. P.key.at[0] = x /\ P.data.at[0] = x /\ P.data.n = 1
    BY <1>2 DEF HoldsArr
  <2>2. N.key.n = 1 /\ N.data.n = 1
    BY <1>1, Zenon DEF HoldsArr
  <2> HIDE DEF x, P, N
  <2> QED BY <2>1, <2>2 DEF At, DataOptr
<1>5. P.child.n = 2 /\ P.child.at[0] = G.child[p][0] /\ P.child.at[1] = G.child[p][1]
      /\ P.key.n = 1 /\ P.data.n = 1
  BY <1>2 DEF Holds
<1>6. t = (IF left THEN Child(P, i - 1) ELSE Child(P, i + 1)) /\ (IF left THEN i - 1 ELSE i) = 0
      /\ (IF left THEN 1 ELSE 0) = i
  <2>1. CASE i = 0
    BY <1>5, <2>1 DEF Child, At
  <2>2. CASE i = 1
    BY <1>5, <2>2 DEF Child, At
  <2> QED BY <2>1, <2>2, Zenon
<1>7. M = [T EXCEPT !.node[t] = ma, !.node[p] = mp]
  <2>1. M = [T EXCEPT
       !.node[t] = [N EXCEPT !.key = Grown(MoveInsert(@, i, x)), !.data = Grown(MoveInsert(N.data, i, x))],
       !.node[p] = [P EXCEPT !.key = MoveDelete(@, 0), !.data = MoveDelete(@, 0), !.child = MoveDelete(@, i)]]
    <3> HIDE DEF x
    <3> QED BY <1>4, <1>6, ZenonT(40) DEF Merged
  <2>2. /\ [N EXCEPT !.key = Grown(MoveInsert(@, i, x)), !.data = Grown(MoveInsert(N.data, i, x))] = ma
        /\ [P EXCEPT !.key = MoveDelete(@, 0), !.data = MoveDelete(@, 0), !.child = MoveDelete(@, i)] = mp
    <3> HIDE DEF x
    <3> QED BY <1>1, <1>2, Zenon DEF Keyed, Emptied, NodeType
  <2> QED BY <2>1, <2>2, Zenon
<1>8. HoldsArr(ka, f, 2) /\ HoldsArr(da, f, 2)
  <2>1. ka = Grown(MoveInsert(N.key, i, x)) /\ da = Grown(MoveInsert(N.data, i, x)) /\ f = Inserted(G.key[t], i, x)
    BY Zenon
  <2>2. i \in {0, 1}
    BY Zenon
  <2> HIDE DEF ka, da, N, x
  <2> QED BY ONLY <1>1, <1>3, <2>1, <2>2, InsertArr
<1>9. IsKeyed(ma, N, L, f, 2)
  <2> DEFINE two == 2
  <2>1. \A j \in 0 .. two - 1 : f[j] \in Keys
    <3>1. f[0] \in Keys /\ f[1] \in Keys
      <4>1. G.key[t][0] \in Keys /\ G.key[p][0] \in Keys
        BY <1>1, <1>2, Zenon
      <4>2. /\ f[0] = IF 0 < i THEN G.key[t][0] ELSE IF 0 = i THEN G.key[p][0] ELSE G.key[t][0 - 1]
            /\ f[1] = IF 1 < i THEN G.key[t][1] ELSE IF 1 = i THEN G.key[p][0] ELSE G.key[t][0]
        BY DEF Inserted
      <4>3. i = 0 \/ i = 1
        BY Zenon
      <4> HIDE DEF x
      <4> QED BY ONLY <4>1, <4>2, <4>3
    <3> QED BY <3>1, SMTT(20)
  <2>2. ma = Keyed(N, ka, da) /\ HoldsArr(ka, f, two) /\ HoldsArr(da, f, two)
    BY <1>8, Zenon
  <2> HIDE DEF ma, N, ka, da, two, L
  <2>3. IsKeyed(ma, N, L, f, two)
    BY <1>1, <2>1, <2>2, KeyedOK, Zenon
  <2> QED BY <2>3, Zenon DEF two
<1>10. IsEmptied(mp, P, L, t)
  <2>1. mp = Emptied(P, i) /\ t = P.child.at[1 - i]
    BY <1>5
  <2> HIDE DEF mp, P, L
  <2> QED BY <1>1, <1>2, <1>5, <2>1, EmptiedOK, Zenon
<1> HIDE DEF ma, mp
<1>11. /\ TreeOK(M) /\ Len(M.node) = L /\ SameHead(M, T) /\ M.node[t] = ma /\ M.node[p] = mp
       /\ \A m \in 1 .. L : m \notin {t, p} => M.node[m] = T.node[m]
  <2>1. ma \in NodeType /\ NodeOK(ma, L) /\ mp \in NodeType /\ NodeOK(mp, L) /\ L = Len(T.node)
    BY <1>9, <1>10, Zenon DEF IsKeyed, IsEmptied
  <2> HIDE DEF L
  <2>2. Written2(M, T, t, ma, p, mp)
    BY <1>1, <1>2, <1>7, <2>1, SetTwo, ZenonT(40)
  <2> QED BY <2>1, <2>2, Zenon DEF Written2
<1> QED BY <1>9, <1>10, <1>11, Zenon DEF MergedIs

\* The root p with one key, and leaves n and t with one key below.
MergesTop(T, G, p, i, n, t, left) ==
  /\ Represents(T, G) /\ p = G.top /\ G.height[p] = 1 /\ G.count[p] = 1
  /\ i \in {0, 1} /\ n = G.child[p][i] /\ t = G.child[p][1 - i]
  /\ G.count[n] = 1 /\ G.count[t] = 1
  /\ left \in BOOLEAN /\ (left <=> i = 1)

\* The two leaves below the root become one, which is the root in memory; the head of
\* the file keeps the old one, which has no keys left and one child.
LEMMA MergeAtTop ==
  ASSUME NEW T, NEW G, NEW p, NEW i, NEW n, NEW t, NEW left, MergesTop(T, G, p, i, n, t, left),
         NEW M, M = Merged(T, p, i, left, FALSE),
         NEW T2, T2 = Rooted(M, At(M.node[p].child, 0))
  PROVE  Without(T2, G, G.key[n][0])
<1> DEFINE f == Inserted(G.key[t], i, G.key[p][0])
           H == MergeTop(G, p, t, n, f)
           L == Len(T.node)
<1>0. /\ Represents(T, G) /\ p = G.top /\ G.height[p] = 1 /\ G.count[p] = 1
      /\ i \in {0, 1} /\ n = G.child[p][i] /\ t = G.child[p][1 - i]
      /\ G.count[n] = 1 /\ G.count[t] = 1
      /\ left \in BOOLEAN /\ (left <=> i = 1)
  BY Zenon DEF MergesTop
<1> USE <1>0
<1>1. /\ Forest(G) /\ TreeOK(T) /\ Links(T, G) /\ G.live \subseteq 1 .. L
      /\ \A a \in G.live : Stored(T, G, a)
  BY Zenon DEF Represents, Links
<1>2. CanMergeTop(G, p, t, n, f)
  <2>1. CASE i = 0
    <3>1. t = G.child[p][1] /\ n = G.child[p][0] /\ f[0] = G.key[p][0] /\ f[1] = G.key[t][0]
      BY <2>1 DEF Inserted
    <3> HIDE DEF f
    <3> QED BY <1>1, <3>1, Zenon DEF CanMergeTop
  <2>2. CASE i = 1
    <3>1. t = G.child[p][0] /\ n = G.child[p][1] /\ f[0] = G.key[t][0] /\ f[1] = G.key[p][0]
      BY <2>2 DEF Inserted
    <3> HIDE DEF f
    <3> QED BY <1>1, <3>1, Zenon DEF CanMergeTop
  <2> QED BY <2>1, <2>2, Zenon
<1>3. /\ p \in G.live /\ t \in G.live /\ n \in G.live /\ t # n /\ t # p /\ n # p
      /\ G.height[t] = 0 /\ G.height[n] = 0 /\ G.height[p] = 1
      /\ H.live = G.live \ {n} /\ H.height = G.height /\ H.parent = G.parent
      /\ H.top = t /\ H.meta = G.meta
      /\ H.count[p] = 0 /\ H.count[t] = 2 /\ H.key[t] = f
      /\ \A j \in Nat : H.child[p][j] = t
      /\ \A a \in G.live \ {p, t} : H.count[a] = G.count[a]
      /\ \A a \in G.live \ {t} : H.key[a] = G.key[a]
      /\ \A a \in G.live \ {p} : H.child[a] = G.child[a]
      /\ Forest(H) /\ Content(H) = Content(G) \ {G.key[n][0]}
  <2>1. H = MergeTop(G, p, t, n, f)
    BY Zenon
  <2> HIDE DEF H, f
  <2>2. TopMerged(G, H, p, t, n, f)
    BY <1>2, <2>1, MergeTopOK, Zenon
  <2> QED BY <2>2, Zenon DEF TopMerged
<1>4. f = Inserted(G.key[t], i, G.key[p][0])
  BY Zenon
<1> HIDE DEF H, f
<1>5. MergedIs(M, T, G, p, t, f)
  BY <1>3, <1>4, MergedTree, Zenon
<1>6. /\ TreeOK(M) /\ Len(M.node) = L /\ SameHead(M, T)
      /\ IsKeyed(M.node[t], T.node[t], L, f, 2) /\ IsEmptied(M.node[p], T.node[p], L, t)
      /\ \A m \in G.live : m \notin {t, p} => M.node[m] = T.node[m]
  BY <1>1, <1>5, Zenon DEF MergedIs
<1>7. T2 = Rooted(M, t) /\ t \in 1 .. Len(M.node)
  BY <1>1, <1>3, <1>6, Zenon DEF IsEmptied, At
<1>8. RootedAt(T2, M, t)
  BY <1>6, <1>7, SetRoot, Zenon
<1>9. /\ TreeOK(T2) /\ Len(T2.node) = L /\ T2.root = t /\ T2.meta = T.meta /\ T2.up = T.up
      /\ T2.node[t].parent = 0 /\ SameArrays(T2.node[t], M.node[t])
      /\ T2.node[p] = M.node[p] /\ \A a \in G.live : a \notin {t, p} => T2.node[a] = T.node[a]
  <2>1. /\ TreeOK(T2) /\ Len(T2.node) = Len(M.node) /\ T2.root = t /\ T2.meta = M.meta /\ T2.up = M.up
        /\ T2.node[t].parent = 0 /\ SameArrays(T2.node[t], M.node[t])
        /\ \A m \in 1 .. Len(M.node) : m # t => T2.node[m] = M.node[m]
    BY <1>8, Zenon DEF RootedAt
  <2>2. Len(M.node) = L /\ M.meta = T.meta /\ M.up = T.up
    BY <1>6, Zenon DEF SameHead
  <2>3. p \in 1 .. L /\ p # t /\ \A a \in G.live : a \in 1 .. L
    BY <1>1, <1>3, Zenon
  <2>4. \A a \in G.live : a \notin {t, p} => M.node[a] = T.node[a]
    BY <1>6, Zenon
  <2>5. T2.node[p] = M.node[p]
    BY <2>1, <2>2, <2>3, Zenon
  <2>6. ASSUME NEW a \in G.live, a \notin {t, p} PROVE T2.node[a] = T.node[a]
    <3>1. a \in 1 .. Len(M.node) /\ a # t /\ M.node[a] = T.node[a]
      BY <2>2, <2>3, <2>4, <2>6, Zenon
    <3> QED BY <2>1, <3>1, Zenon
  <2>7. Len(T2.node) = L /\ T2.meta = T.meta /\ T2.up = T.up
    BY <2>1, <2>2, Zenon
  <2> HIDE DEF L
  <2> QED BY <2>1, <2>5, <2>6, <2>7, Zenon
<1>91. /\ G.height[t] = 0 /\ G.height[p] = 1 /\ H.height = G.height /\ H.top = t
       /\ H.live = G.live \ {n} /\ H.meta = G.meta
  BY <1>3, Zenon
<1>10. Links(T2, H)
  <2>1. ASSUME NEW a \in H.live PROVE T2.node[a].parent = 0 /\ H.height[H.top] <= H.height[a]
    <3>1. a \in G.live /\ a # n /\ G.height[a] \in Nat /\ H.height[H.top] = 0
      BY <1>1, <1>3, Zenon DEF Forest, Labelled
    <3>2. CASE a = t
      <4>1. T2.node[a].parent = 0
        BY <1>9, <3>2, Zenon
      <4>2. H.height[H.top] = H.height[a] /\ H.height[a] = 0
        BY <1>91, <3>1, <3>2, Zenon
      <4>3. H.height[H.top] <= H.height[a]
        BY ONLY <4>2
      <4> QED BY ONLY <4>1, <4>3, Zenon
    <3>3. CASE a = p
      <4>1. T.node[p].parent = 0
        <5>1. G.height[G.top] <= G.height[p]
          <6>1. G.height[G.top] = 1 /\ G.height[p] = 1
            BY <1>3, Zenon
          <6> QED BY ONLY <6>1
        <5> QED BY <1>1, <1>3, <5>1, Zenon DEF Links, Up
      <4>2. T2.node[p].parent = 0
        BY <1>6, <1>9, <4>1, Zenon DEF IsEmptied
      <4>3. H.height[H.top] = 0 /\ H.height[a] = 1
        BY <1>91, <3>1, <3>3, Zenon
      <4>4. H.height[H.top] <= H.height[a]
        BY ONLY <4>3
      <4>5. T2.node[a].parent = 0
        BY ONLY <3>3, <4>2, Zenon
      <4> QED BY ONLY <4>4, <4>5, Zenon
    <3>4. CASE a # t /\ a # p
      <4>1. a # G.child[p][0] /\ a # G.child[p][1]
        <5>1. i = 0 \/ i = 1
          BY Zenon
        <5>2. {G.child[p][0], G.child[p][1]} = {n, t}
          BY <5>1
        <5> QED BY <3>1, <3>4, <5>2, Zenon
      <4>2. G.height[a] >= 1
        BY <1>1, <3>1, <4>1, TopChildren, Zenon
      <4>3. Up(G, a) = 0
        BY <4>2, Zenon DEF Up
      <4>4. T2.node[a].parent = 0
        <5>1. T.node[a].parent = 0
          BY <1>1, <3>1, <4>3, Zenon DEF Links
        <5>2. T2.node[a] = T.node[a]
          BY <1>9, <3>1, <3>4, Zenon
        <5> QED BY <5>1, <5>2, Zenon
      <4>5. H.height[H.top] <= H.height[a]
        BY <1>91, <3>1, <4>2
      <4> QED BY <4>4, <4>5, Zenon
    <3> QED BY <3>2, <3>3, <3>4, Zenon
  <2>2. \A a \in H.live : T2.node[a].parent = Up(H, a)
    BY <2>1, Zenon DEF Up
  <2>3. /\ T.meta = G.meta /\ T.up = TRUE /\ G.height[G.meta] < L
    BY <1>1, Zenon DEF Links
  <2>4. t \in H.live /\ H.live \subseteq 1 .. L
    BY <1>1, <1>3, Zenon
  <2>5. H.height[H.top] <= H.height[T2.root]
    BY <1>9, <2>1, <2>4, Zenon
  <2> QED BY <1>3, <1>9, <2>2, <2>3, <2>4, <2>5, ZenonT(40) DEF Links
<1>11. ASSUME NEW a \in H.live PROVE Stored(T2, H, a)
  <2>1. a \in G.live /\ a # n
    BY <1>3, Zenon
  <2>2. CASE a = t
    <3> DEFINE two == 2
    <3>1. Holds(T.node[t], G.key[t], G.count[t], G.child[t], G.height[t]) /\ IsKeyed(M.node[t], T.node[t], L, f, two)
      BY <1>1, <1>3, <1>6, Zenon DEF Stored
    <3>2. G.height[t] # 0 => two = G.count[t]
      BY <1>3, Zenon
    <3> HIDE DEF two
    <3>3. Holds(M.node[t], f, two, G.child[t], G.height[t])
      BY ONLY <3>1, <3>2, KeyedHolds, Zenon
    <3>4. Holds(T2.node[t], f, two, G.child[t], G.height[t])
      BY <1>9, <3>3, SameHolds, Zenon
    <3>5. H.key[t] = f /\ H.count[t] = two /\ H.child[t] = G.child[t] /\ H.height[t] = G.height[t]
      BY <1>3, Zenon DEF two
    <3> QED BY <2>2, <3>4, <3>5, Zenon DEF Stored
  <2>3. CASE a = p
    <3>1. /\ T2.node[p].key.n = 0 /\ T2.node[p].data.n = 0
          /\ T2.node[p].child.n = 1 /\ T2.node[p].child.at[0] = t
      BY <1>6, <1>9, Zenon DEF IsEmptied
    <3>2. H.count[p] = 0 /\ H.height[p] = 1 /\ H.child[p][0] = t
      BY <1>3, Zenon
    <3> DEFINE md == T2.node[p]
               g == H.child[p]
               f0 == H.key[p]
    <3>4. md.key.n = 0 /\ md.data.n = 0 /\ md.child.n = 1 /\ md.child.at[0] = t /\ g[0] = t
      BY <3>1, <3>2, Zenon
    <3> HIDE DEF md, g, f0
    <3>5. Holds(md, f0, 0, g, 1)
      BY ONLY <3>4 DEF Holds
    <3>3. Holds(T2.node[p], H.key[p], H.count[p], H.child[p], H.height[p])
      BY <3>2, <3>5, Zenon DEF md, g, f0
    <3> QED BY <2>3, <3>3, Zenon DEF Stored
  <2>4. CASE a # t /\ a # p
    <3>1. Stored(T, G, a) /\ T2.node[a] = T.node[a]
      BY <1>1, <1>9, <2>1, <2>4, Zenon
    <3>2. H.count[a] = G.count[a] /\ H.key[a] = G.key[a] /\ H.child[a] = G.child[a] /\ H.height[a] = G.height[a]
      BY <1>3, <2>1, <2>4, Zenon
    <3> QED BY <3>1, <3>2, Zenon DEF Stored
  <2> QED BY <2>2, <2>3, <2>4, Zenon
<1>12. Represents(T2, H)
  BY <1>3, <1>9, <1>10, <1>11, Zenon DEF Represents
<1> QED BY <1>3, <1>12, Zenon DEF Without

\* What a removal leaves: a tree with the same keys, or without k.
Lost(T2, G, k) ==
  \E H : Represents(T2, H) /\ (Content(H) = Content(G) \/ Content(H) = Content(G) \ {k})

\* The tree after the root that a removal returns is taken over.
Taken(r) == IF r.root # 0 THEN [r.tree EXCEPT !.root = r.root] ELSE r.tree

\* A removal that returns no root keeps the root.
LEMMA TakenSame ==
  ASSUME NEW T
  PROVE  Taken(Same(T)) = T
BY DEF Taken, Same

\* The root with one key and two leaves with one key below.
LEMMA MergeLocal ==
  ASSUME NEW T, NEW G, Represents(T, G), NEW p \in G.live, G.height[p] = 1, G.height[G.top] >= 1,
         T.node[p].parent = 0, G.count[p] = 1, NEW i \in 0 .. G.count[p], NEW n, n = G.child[p][i],
         G.count[n] = 1,
         NEW l, l = Child(T.node[p], i - 1), ~(l # 0 /\ T.node[l].key.n >= 2),
         NEW r, r = Child(T.node[p], i + 1), ~(r # 0 /\ T.node[r].key.n >= 2)
  PROVE  Lost(Taken(Merge(T, p, i)), G, G.key[n][0])
<1> DEFINE P == T.node[p]
           t == G.child[p][1 - i]
           left == Child(P, i - 1) # 0
           M == Merged(T, p, i, left, FALSE)
           c == At(M.node[p].child, 0)
<1>1. Forest(G) /\ Links(T, G) /\ 0 \notin G.live
  BY Zenon DEF Represents, Forest, Labelled
<1>2. p = G.top
  <2>1. G.top \in G.live /\ G.height[G.top] \in Nat
    BY <1>1, Zenon DEF Forest, Labelled, Chain
  <2>2. G.height[G.top] <= G.height[p]
    <3>1. SUFFICES ASSUME ~(G.height[G.top] <= G.height[p]) PROVE FALSE
      OBVIOUS
    <3>2. G.parent[p] = 0 /\ p # G.meta
      BY <1>1, <2>1, <3>1, Zenon DEF Links, Up, Forest, Chain
    <3>3. 0 \in G.live
      BY <1>1, <3>2 DEF Forest, Attached, IsChild
    <3> QED BY <1>1, <3>3, Zenon
  <2>3. G.height[G.top] = G.height[p]
    BY <2>1, <2>2
  <2> QED BY <1>1, <2>1, <2>3, Zenon DEF Forest, Chain
<1>3. i \in {0, 1}
  OBVIOUS
<1>4. t \in G.live /\ n \in G.live /\ G.height[t] = 0 /\ t # 0
  <2>1. 1 - i \in 0 .. G.count[p] /\ G.height[p] # 0
    BY <1>3
  <2>2. ChildOK(G, p, 1 - i) /\ ChildOK(G, p, i)
    BY <1>1, <2>1, Zenon DEF Forest, ChildrenOK
  <2>3. G.height[t] + 1 = 1 /\ t \in G.live /\ n \in G.live
    BY <2>2, Zenon DEF ChildOK
  <2>4. G.height[t] \in Nat
    BY <1>1, <2>3, Zenon DEF Forest, Labelled
  <2> QED BY <1>1, <2>3, <2>4
<1>5. /\ Child(P, i - 1) = IF i = 0 THEN 0 ELSE G.child[p][i - 1]
      /\ Child(P, i + 1) = IF i = G.count[p] THEN 0 ELSE G.child[p][i + 1]
  <2>1. ChildIs(T, G, p, i, n)
    BY ChildAt
  <2> QED BY <2>1, Zenon DEF ChildIs
<1>6. (left <=> i = 1) /\ (i = 1 => l = t) /\ (i = 0 => r = t) /\ left \in BOOLEAN
  <2>1. CASE i = 0
    BY <1>4, <1>5, <2>1
  <2>2. CASE i = 1
    BY <1>4, <1>5, <2>2
  <2> QED BY <1>3, <2>1, <2>2, Zenon
<1>7. G.count[t] = 1
  <2>0. NodeIs(T, G, t)
    BY <1>4, NodeFacts, Zenon
  <2>1. T.node[t].key.n = G.count[t] /\ G.count[t] \in Nat
    BY <2>0, Zenon DEF NodeIs
  <2>2. ~(G.count[t] >= 2)
    <3>1. l = t \/ r = t
      BY <1>3, <1>6, Zenon
    <3> QED BY <1>4, <2>1, <3>1, Zenon
  <2>3. G.count[t] # 0
    BY <1>1, <1>2, <1>4 DEF Forest, Chain
  <2> QED BY <2>1, <2>2, <2>3
<1>8. P.key.n = 1
  <2>1. NodeIs(T, G, p)
    BY NodeFacts, Zenon
  <2> QED BY <2>1, Zenon DEF NodeIs
<1>9. ~(~left /\ Child(P, i + 1) = 0)
  <2>1. CASE i = 1
    BY <1>6, <2>1, Zenon
  <2>2. CASE i = 0
    BY <1>4, <1>6, <2>2, Zenon
  <2> QED BY <1>3, <2>1, <2>2, Zenon
<1>10. Merge(T, p, i) = Promoted(M, p)
  <2>1. (P.key.n >= 2) = FALSE /\ P.parent = 0
    BY <1>8
  <2>2. Merge(T, p, i) = IF ~left /\ Child(P, i + 1) = 0 THEN Same(T)
                         ELSE IF P.key.n >= 2 THEN Same(Merged(T, p, i, left, P.key.n >= 2))
                         ELSE IF P.parent = 0 THEN Promoted(Merged(T, p, i, left, P.key.n >= 2), p)
                         ELSE RecursiveMerge(Merged(T, p, i, left, P.key.n >= 2), P.parent, p)
    BY Zenon DEF Merge
  <2>3. Merged(T, p, i, left, P.key.n >= 2) = M
    BY <2>1, Zenon
  <2> HIDE DEF M, left
  <2> QED BY <1>9, <2>1, <2>2, <2>3, Zenon
<1>11. M = Merged(T, p, i, left, FALSE)
  BY Zenon
<1>12. t = G.child[p][1 - i]
  BY Zenon
<1> HIDE DEF M, left, t
<1>121. MergesTop(T, G, p, i, n, t, left)
  BY <1>2, <1>3, <1>6, <1>7, <1>12, Zenon DEF MergesTop
<1>13. \E H : Represents(Rooted(M, c), H) /\ Content(H) = Content(G) \ {G.key[n][0]}
  <2> DEFINE T2 == Rooted(M, At(M.node[p].child, 0))
  <2>1. T2 = Rooted(M, At(M.node[p].child, 0))
    BY Zenon
  <2> HIDE DEF T2
  <2>2. Without(T2, G, G.key[n][0])
    BY ONLY <1>11, <1>121, <2>1, MergeAtTop, Zenon
  <2> QED BY <2>1, <2>2, Zenon DEF Without
<1>14. c # 0
  <2>1. PICK H : Represents(Rooted(M, c), H)
    BY <1>13, Zenon
  <2>2. Rooted(M, c).root \in H.live /\ 0 \notin H.live
    BY <2>1, RepNodes, Zenon
  <2>3. SUFFICES ASSUME c = 0 PROVE FALSE
    OBVIOUS
  <2>4. Rooted(M, c) \in TreeType
    BY <2>1, Zenon DEF Represents, TreeOK
  <2>5. Rooted(M, c).root = c
    BY <2>4, Zenon DEF Rooted, TreeType, SetParent
  <2> QED BY <2>2, <2>3, <2>5, Zenon
<1>15. Taken(Promoted(M, p)) = Rooted(M, c)
  BY <1>14, Zenon DEF Taken, Promoted, Rooted
<1> QED BY <1>10, <1>13, <1>15, Zenon DEF Lost

\* A key in a node and its place.
LEMMA KeyPosition ==
  ASSUME NEW T, NEW G, Represents(T, G), NEW n \in G.live, NEW k, NEW i,
         i = PositionIn(T.node[n].key, k), i # -1
  PROVE  i \in 0 .. G.count[n] - 1 /\ G.key[n][i] = k
<1> DEFINE a == T.node[n].key
           S == {j \in 0 .. a.n - 1 : At(a, j) = k}
<1>1. NodeIs(T, G, n)
  BY NodeFacts
<1>2. a.n = G.count[n] /\ G.count[n] \in Nat /\ \A j \in 0 .. G.count[n] - 1 : a.at[j] = G.key[n][j]
  BY <1>1 DEF NodeIs
<1>3. i = IF S = {} THEN -1 ELSE Min(S)
  BY DEF PositionIn
<1>4. S \subseteq Nat
  BY <1>2
<1>5. i \in S
  <2> HIDE DEF S
  <2> QED BY <1>3, <1>4, MinIsLeast, Zenon
<1> QED BY <1>2, <1>5 DEF At

\* The only key of a leaf that is not the root.
LEMMA UnderflowOK ==
  ASSUME NEW T, NEW G, Represents(T, G), NEW n \in G.live, G.height[n] = 0, G.count[n] = 1,
         NEW p, p = T.node[n].parent, p # 0,
         NEW z, z = PositionIn(T.node[p].child, n),
         NEW l, l = Child(T.node[p], z - 1), NEW r, r = Child(T.node[p], z + 1),
         \/ l # 0 /\ T.node[l].key.n >= 2
         \/ r # 0 /\ T.node[r].key.n >= 2
         \/ T.node[p].parent = 0 /\ T.node[p].key.n = 1
  PROVE  Lost(Taken(Underflow(T, p, n)), G, G.key[n][0])
<1>1. /\ p \in G.live /\ G.height[p] = 1 /\ G.height[G.top] >= 1
      /\ \E i \in 0 .. G.count[p] : IsChild(G, p, i, n)
  <2>1. LeafOf(G, n, p)
    BY LeafParent, Zenon
  <2> QED BY <2>1, Zenon DEF LeafOf
<1>2. PICK i \in 0 .. G.count[p] : IsChild(G, p, i, n)
  BY <1>1, Zenon
<1>3. n = G.child[p][i] /\ G.height[p] # 0
  BY <1>1, <1>2, Zenon DEF IsChild
<1>4. /\ z = i
      /\ l = (IF i = 0 THEN 0 ELSE G.child[p][i - 1])
      /\ r = (IF i = G.count[p] THEN 0 ELSE G.child[p][i + 1])
  <2>1. ChildIs(T, G, p, i, n)
    BY <1>1, <1>3, ChildAt, Zenon
  <2>2. z = i
    BY <2>1, Zenon DEF ChildIs
  <2> QED BY <2>1, <2>2, Zenon DEF ChildIs
<1>5. Forest(G) /\ G.count[p] \in Nat /\ i # -1
  <2>1. Forest(G) /\ G.count[p] \in Nat
    BY <1>1, Zenon DEF Represents, Forest, Labelled
  <2>2. i # -1
    BY ONLY i \in 0 .. G.count[p], <2>1
  <2> QED BY <2>1, <2>2, Zenon
<1>6. \A j \in 0 .. G.count[p] : G.child[p][j] \in G.live
  BY <1>1, <1>3, <1>5, Zenon DEF Forest, ChildrenOK, ChildOK
<1>7. CASE l # 0 /\ T.node[l].key.n >= 2
  <2>1. i # 0 /\ l = G.child[p][i - 1]
    BY <1>4, <1>7, Zenon
  <2>2. i \in 1 .. G.count[p] /\ i - 1 \in 0 .. G.count[p]
    BY ONLY i \in 0 .. G.count[p], <1>5, <2>1
  <2>3. l \in G.live
    BY <1>6, <2>1, <2>2, Zenon
  <2>4. NodeIs(T, G, l)
    BY <2>3, NodeFacts, Zenon
  <2> DEFINE c == G.count[l]
  <2>5. T.node[l].key.n = c /\ T.node[l].data.n = c
    BY <2>4, Zenon DEF NodeIs
  <2> DEFINE T2 == Borrowed(T, p, i, i - 1, l, c - 1, c - 1)
  <2>6. Underflow(T, p, n) = Same(T2)
    BY <1>4, <1>5, <1>7, <2>5, Zenon DEF Underflow
  <2>7. T2 = Borrowed(T, p, i, i - 1, l, c - 1, c - 1) /\ c = G.count[l] /\ c >= 2
    BY <1>7, <2>5, Zenon
  <2> HIDE DEF T2, c
  <2>8. Without(T2, G, G.key[n][0])
    BY <1>1, <1>3, <2>1, <2>2, <2>7, TakeLeft, Zenon
  <2> QED BY <2>6, <2>8, TakenSame, Zenon DEF Lost, Without
<1>8. CASE ~(l # 0 /\ T.node[l].key.n >= 2) /\ r # 0 /\ T.node[r].key.n >= 2
  <2>1. i # G.count[p] /\ r = G.child[p][i + 1]
    BY <1>4, <1>8, Zenon
  <2>2. i \in 0 .. G.count[p] - 1 /\ i + 1 \in 0 .. G.count[p]
    BY ONLY i \in 0 .. G.count[p], <1>5, <2>1
  <2>3. r \in G.live
    BY <1>6, <2>1, <2>2, Zenon
  <2>4. NodeIs(T, G, r)
    BY <2>3, NodeFacts, Zenon
  <2> DEFINE c == G.count[r]
             T2 == Borrowed(T, p, i, i, r, 0, 0)
  <2>5. T.node[r].key.n = c
    BY <2>4, Zenon DEF NodeIs
  <2>6. Underflow(T, p, n) = Same(T2)
    BY <1>4, <1>5, <1>8, Zenon DEF Underflow
  <2>7. T2 = Borrowed(T, p, i, i, r, 0, 0) /\ c = G.count[r] /\ c >= 2
    BY <1>8, <2>5, Zenon
  <2> HIDE DEF T2, c
  <2>8. Without(T2, G, G.key[n][0])
    BY <1>1, <1>3, <2>1, <2>2, <2>7, TakeRight, Zenon
  <2> QED BY <2>6, <2>8, TakenSame, Zenon DEF Lost, Without
<1>9. CASE ~(l # 0 /\ T.node[l].key.n >= 2) /\ ~(r # 0 /\ T.node[r].key.n >= 2)
  <2>1. T.node[p].parent = 0 /\ T.node[p].key.n = 1
    BY <1>9, Zenon
  <2>2. NodeIs(T, G, p)
    BY <1>1, NodeFacts, Zenon
  <2>3. G.count[p] = 1
    BY <2>1, <2>2, Zenon DEF NodeIs
  <2>4. Underflow(T, p, n) = Merge(T, p, i)
    BY <1>4, <1>5, <1>9, Zenon DEF Underflow
  <2>5. l = Child(T.node[p], i - 1) /\ r = Child(T.node[p], i + 1)
    BY <1>4, Zenon
  <2>6. Lost(Taken(Merge(T, p, i)), G, G.key[n][0])
    BY <1>1, <1>3, <1>9, <2>1, <2>3, <2>5, MergeLocal, Zenon
  <2> QED BY <2>4, <2>6, Zenon
<1> QED BY <1>7, <1>8, <1>9, Zenon

\* A removal that stays local leaves a tree, with the key removed if it was found.
LEMMA RemoveOK ==
  ASSUME NEW T, NEW G, Represents(T, G), NEW k \in Keys, StaysLocal(T, k),
         NEW T2, T2 = Removed(T, k)
  PROVE  Lost(T2, G, k)
<1> DEFINE n == Holder(T, T.root, k)
           nd == T.node[n]
           i == PositionIn(nd.key, k)
           p == nd.parent
           z == PositionIn(T.node[p].child, n)
<1>1. n \in G.live
  BY HolderOK, Zenon
<1>2. T2 = Taken(ONodeRemove(T, n, k))
  BY Zenon DEF Removed, Taken
<1>3. i # -1 =>
        /\ nd.child.n = 0
        /\ (nd.key.n = 1 /\ p # 0) =>
             \/ Child(T.node[p], z - 1) # 0 /\ T.node[Child(T.node[p], z - 1)].key.n >= 2
             \/ Child(T.node[p], z + 1) # 0 /\ T.node[Child(T.node[p], z + 1)].key.n >= 2
             \/ T.node[p].parent = 0 /\ T.node[p].key.n = 1
  BY Zenon DEF StaysLocal
<1>4. NodeIs(T, G, n)
  BY <1>1, NodeFacts, Zenon
<1>5. nd.key.n = G.count[n] /\ G.count[n] \in Nat /\ nd.child.n = (IF G.height[n] = 0 THEN 0 ELSE G.count[n] + 1)
  BY <1>4, Zenon DEF NodeIs
<1> HIDE DEF n
<1>6. CASE i = -1
  <2>1. ONodeRemove(T, n, k) = Same(T)
    BY <1>6, Zenon DEF ONodeRemove
  <2>2. T2 = T
    BY <1>2, <2>1, TakenSame, Zenon
  <2> QED BY <2>2, Zenon DEF Lost
<1>7. CASE i # -1
  <2>1. i \in 0 .. G.count[n] - 1 /\ G.key[n][i] = k
    <3>1. i = PositionIn(T.node[n].key, k)
      BY Zenon
    <3> HIDE DEF i
    <3> QED BY <1>1, <1>7, <3>1, KeyPosition, SMTT(20)
  <2>2. nd.child.n = 0 /\ G.height[n] = 0
    <3>1. nd.child.n = 0
      BY <1>3, <1>7, Zenon
    <3> HIDE DEF nd
    <3> QED BY ONLY <1>5, <3>1
  <2>3. ONodeRemove(T, n, k) = LeafRemove(T, n, i)
    BY <1>7, <2>2 DEF ONodeRemove
  <2>4. CASE nd.key.n > 1 \/ nd.parent = 0
    <3> DEFINE U == [T EXCEPT !.node[n].key = MoveDelete(@, i), !.node[n].data = MoveDelete(@, i)]
    <3>1. LeafRemove(T, n, i) = Same(U)
      BY <2>4, Zenon DEF LeafRemove
    <3>2. T2 = U
      <4> HIDE DEF U
      <4> QED BY <1>2, <2>3, <3>1, TakenSame, Zenon
    <3>3. G.count[n] > 1 \/ n = G.top
      <4>1. CASE nd.key.n > 1
        BY <1>5, <4>1, Zenon
      <4>2. CASE nd.parent = 0
        <5>1. LeafOf(G, n, 0)
          BY <1>1, <2>2, <4>2, LeafParent, Zenon
        <5> QED BY <5>1, Zenon DEF LeafOf
      <4> QED BY <2>4, <4>1, <4>2, Zenon
    <3>4. T2 = [T EXCEPT !.node[n].key = MoveDelete(@, i), !.node[n].data = MoveDelete(@, i)]
      BY <3>2, Zenon
    <3> HIDE DEF i
    <3>5. Without(T2, G, G.key[n][i])
      BY <1>1, <2>1, <2>2, <3>3, <3>4, LeafDrop, Zenon
    <3> QED BY <2>1, <3>5, Zenon DEF Lost, Without
  <2>5. CASE ~(nd.key.n > 1 \/ nd.parent = 0)
    <3>1. LeafRemove(T, n, i) = Underflow(T, p, n)
      BY <2>5, Zenon DEF LeafRemove
    <3>2. G.count[n] = 1 /\ i = 0 /\ p # 0
      BY <1>5, <2>1, <2>5
    <3> DEFINE l == Child(T.node[p], z - 1)
               r == Child(T.node[p], z + 1)
    <3>3. \/ l # 0 /\ T.node[l].key.n >= 2
          \/ r # 0 /\ T.node[r].key.n >= 2
          \/ T.node[p].parent = 0 /\ T.node[p].key.n = 1
      BY <1>3, <1>5, <1>7, <3>2, Zenon
    <3>4. p = T.node[n].parent /\ z = PositionIn(T.node[p].child, n)
          /\ l = Child(T.node[p], z - 1) /\ r = Child(T.node[p], z + 1)
      BY Zenon
    <3> HIDE DEF p, z, l, r
    <3>5. Lost(Taken(Underflow(T, p, n)), G, G.key[n][0])
      BY <1>1, <2>2, <3>2, <3>3, <3>4, UnderflowOK, Zenon
    <3>6. G.key[n][0] = k /\ T2 = Taken(Underflow(T, p, n))
      BY <1>2, <2>1, <2>3, <3>1, <3>2, Zenon
    <3> QED BY <3>5, <3>6, Zenon
  <2> QED BY <2>4, <2>5, Zenon
<1> QED BY <1>6, <1>7, Zenon

-----------------------------------------------------------------------------
(* The search tree                                                         *)

\* The nodes of the forest that may be d levels below r.
Level(G, r, d) == {m \in G.live : G.height[m] + d = G.height[r] /\ G.range[m] \subseteq G.range[r]}

\* The children of a live node are live, one level down and in a part of its range.
LEMMA ChildNodesOK ==
  ASSUME NEW T, NEW G, Represents(T, G), NEW m \in G.live, NEW c \in ChildNodes(T, m)
  PROVE  c \in G.live /\ G.height[c] + 1 = G.height[m] /\ G.range[c] \subseteq G.range[m]
<1>1. NodeIs(T, G, m)
  BY NodeFacts
<1>2. PICK i \in 0 .. T.node[m].child.n - 1 : c = T.node[m].child.at[i]
  BY DEF ChildNodes, At
<1>3. G.height[m] # 0 /\ i \in 0 .. G.count[m]
  BY <1>1, <1>2 DEF NodeIs
<1>4. c \in G.live /\ G.height[c] + 1 = G.height[m] /\ G.range[c] = Gap(G, m, i)
  BY <1>1, <1>2, <1>3 DEF NodeIs
<1>5. Gap(G, m, i) \subseteq G.range[m]
  BY DEF Gap, GapOf
<1> QED BY <1>4, <1>5

\* The nodes one level below a set of nodes.
NextLevel(T, S) == UNION {ChildNodes(T, m) : m \in S}

\* The levels below a live node.
LevelsAre(T, G, r) ==
  \A d \in 0 .. Len(T.node) : Levels(T, r)[d] \subseteq Level(G, r, d)

\* d levels below a live node are live nodes of its height less d, in its range.
LEMMA LevelsOK ==
  ASSUME NEW T, NEW G, Represents(T, G), NEW r \in G.live
  PROVE  LevelsAre(T, G, r)
<1> DEFINE N == Len(T.node)
           D == SUBSET G.live
           g == [S \in D |-> NextLevel(T, S)]
           Step(f) == [d \in 0 .. N |-> IF d = 0 THEN {r} ELSE UNION {ChildNodes(T, m) : m \in f[d - 1]}]
           at == CHOOSE f : f = Step(f)
<1>1. N \in Nat /\ {r} \in D /\ \A m \in G.live : G.height[m] \in Nat
  BY RepNodes
<1>2. ASSUME NEW m \in G.live, NEW c \in ChildNodes(T, m)
      PROVE  c \in G.live /\ G.height[c] + 1 = G.height[m] /\ G.range[c] \subseteq G.range[m]
  BY ChildNodesOK
<1>3. g \in [D -> D]
  <2>1. \A S \in D : NextLevel(T, S) \in D
    BY <1>2 DEF NextLevel
  <2> QED BY <2>1
<1>4. PICK f \in [0 .. N -> D] : Iterates(f, N, {r}, g)
  <2> HIDE DEF g, N, D
  <2> QED BY <1>1, <1>3, Iterated
<1>5. f = Step(f)
  <2> HIDE DEF N
  <2>1. ASSUME NEW i \in 0 .. N PROVE f[i] = Step(f)[i]
    <3>1. CASE i = 0
      BY <1>4, <3>1 DEF Iterates
    <3>2. CASE i # 0
      <4>1. i \in 1 .. N /\ i - 1 \in 0 .. N
        BY <1>1, <3>2
      <4>2. f[i] = g[f[i - 1]]
        BY <1>4, <4>1 DEF Iterates
      <4>3. f[i - 1] \in D
        BY <4>1
      <4>4. g[f[i - 1]] = NextLevel(T, f[i - 1])
        BY <4>3
      <4> QED BY <3>2, <4>2, <4>4 DEF NextLevel
    <3> QED BY <3>1, <3>2
  <2> QED BY <2>1
<1>6. at = Step(at)
  <2>1. \E F : F = Step(F)
    BY <1>5
  <2> HIDE DEF Step
  <2> QED BY <2>1, Zenon
<1>7. Levels(T, r) = at
  BY Zenon DEF Levels
<1> HIDE DEF at, N
<1>8. ASSUME NEW d \in 0 .. N
      PROVE  at[d] = IF d = 0 THEN {r} ELSE NextLevel(T, at[d - 1])
  BY <1>6 DEF NextLevel
<1> HIDE DEF Step
<1> DEFINE S == {d \in Nat : d <= N => at[d] \subseteq Level(G, r, d)}
<1>9. 0 \in S
  <2>1. at[0] = {r}
    BY <1>1, <1>8
  <2>2. r \in Level(G, r, 0)
    BY <1>1 DEF Level
  <2> QED BY <2>1, <2>2
<1>10. ASSUME NEW d \in Nat, d \in S PROVE d + 1 \in S
  <2>1. SUFFICES ASSUME d + 1 <= N, NEW c \in at[d + 1] PROVE c \in Level(G, r, d + 1)
    OBVIOUS
  <2>2. at[d + 1] = NextLevel(T, at[d]) /\ at[d] \subseteq Level(G, r, d)
    <3>1. d + 1 \in 0 .. N /\ d + 1 # 0 /\ (d + 1) - 1 = d /\ d <= N
      BY <1>1, <2>1
    <3> QED BY <1>8, <1>10, <3>1
  <2>3. PICK m \in at[d] : c \in ChildNodes(T, m)
    BY <2>1, <2>2 DEF NextLevel
  <2>4. m \in G.live /\ G.height[m] + d = G.height[r] /\ G.range[m] \subseteq G.range[r]
    BY <2>2, <2>3 DEF Level
  <2>5. c \in G.live /\ G.height[c] + 1 = G.height[m] /\ G.range[c] \subseteq G.range[m]
    BY <1>2, <2>3, <2>4
  <2>6. G.height[c] + (d + 1) = G.height[r]
    BY <1>1, <2>4, <2>5, SMTT(20)
  <2> QED BY <2>4, <2>5, <2>6 DEF Level
<1>11. Nat \subseteq S
  <2> HIDE DEF S
  <2> QED BY <1>9, <1>10, Induction
<1>12. ASSUME NEW d \in 0 .. N PROVE at[d] \subseteq Level(G, r, d)
  <2>1. d \in Nat /\ d <= N
    BY <1>1
  <2> QED BY <1>11, <2>1
<1> QED BY <1>7, <1>12 DEF LevelsAre, N

\* The nodes below a live node are live and in its range.
LEMMA BelowOK ==
  ASSUME NEW T, NEW G, Represents(T, G), NEW r \in G.live, NEW m \in Below(T, r)
  PROVE  m \in G.live /\ G.range[m] \subseteq G.range[r]
<1>1. LevelsAre(T, G, r)
  BY LevelsOK
<1>2. PICK d \in 0 .. Len(T.node) : m \in Levels(T, r)[d]
  BY DEF Below
<1> QED BY <1>1, <1>2 DEF LevelsAre, Level

\* The keys of a live node are in order, and those below a child lie beside it.
NodeInOrder(T, n) ==
  LET key   == T.node[n].key
      child == T.node[n].child
  IN /\ \A i \in 1 .. key.n - 1 : At(key, i - 1) < At(key, i)
     /\ \A i \in 0 .. child.n - 1 : \A m \in Below(T, At(child, i)) :
          \A j \in 0 .. T.node[m].key.n - 1 :
            /\ i > 0 => At(key, i - 1) < At(T.node[m].key, j)
            /\ i < key.n => At(T.node[m].key, j) < At(key, i)

\* The keys of a live node are in order, with those below its children between them.
LEMMA NodeInOrderOK ==
  ASSUME NEW T, NEW G, Represents(T, G), NEW n \in G.live
  PROVE  NodeInOrder(T, n)
<1> DEFINE key   == T.node[n].key
           child == T.node[n].child
<1>1. NodeIs(T, G, n)
  BY NodeFacts
<1>2. key.n = G.count[n] /\ G.count[n] \in Nat /\ \A j \in 0 .. G.count[n] - 1 : key.at[j] = G.key[n][j]
  BY <1>1 DEF NodeIs
<1>3. Forest(G)
  BY DEF Represents
<1>4. /\ \A j \in 0 .. G.count[n] - 1 : G.key[n][j] \in Keys
      /\ \A i, j \in 0 .. G.count[n] - 1 : i < j => First5[G.key[n][i]] < First5[G.key[n][j]]
  BY <1>3 DEF Forest, KeysOK, Ascending
<1>5. ASSUME NEW i \in 1 .. key.n - 1 PROVE At(key, i - 1) < At(key, i)
  <2>1. i - 1 \in 0 .. G.count[n] - 1 /\ i \in 0 .. G.count[n] - 1 /\ i - 1 < i
    BY ONLY <1>2, i \in 1 .. key.n - 1
  <2>2. First5[G.key[n][i - 1]] < First5[G.key[n][i]]
    BY <1>4, <2>1
  <2>3. G.key[n][i - 1] < G.key[n][i]
    BY <1>4, <2>1, <2>2, FiveNat
  <2> QED BY <1>2, <2>1, <2>3 DEF At
<1>6. ASSUME NEW i \in 0 .. child.n - 1, NEW m \in Below(T, At(child, i)),
             NEW j \in 0 .. T.node[m].key.n - 1
      PROVE  /\ i > 0 => At(key, i - 1) < At(T.node[m].key, j)
             /\ i < key.n => At(T.node[m].key, j) < At(key, i)
  <2> DEFINE c == At(child, i)
             x == At(T.node[m].key, j)
  <2>1. i \in 0 .. G.count[n] /\ c \in G.live /\ G.range[c] = Gap(G, n, i)
    <3>1. G.height[n] # 0 /\ i \in 0 .. G.count[n]
      BY <1>1 DEF NodeIs
    <3> QED BY <1>1, <3>1 DEF NodeIs, At
  <2>2. m \in G.live /\ G.range[m] \subseteq G.range[c]
    BY <2>1, BelowOK
  <2>3. NodeIs(T, G, m)
    BY <2>2, NodeFacts
  <2>4. j \in 0 .. G.count[m] - 1 /\ x = G.key[m][j] /\ x \in Keys
    BY <2>3 DEF NodeIs, At
  <2>5. First5[x] \in G.range[m]
    BY <1>3, <2>2, <2>4 DEF Forest, KeysOK, Ascending
  <2>6. First5[x] \in GapOf(G.range[n], G.key[n], G.count[n], i)
    BY <2>1, <2>2, <2>5 DEF Gap
  <2> HIDE DEF x
  <2>7. \A a \in 0 .. G.count[n] - 1 : /\ a < i => First5[G.key[n][a]] < First5[x]
                                       /\ i <= a => First5[x] < First5[G.key[n][a]]
    BY <2>6 DEF GapOf
  <2>8. ASSUME i > 0 PROVE At(key, i - 1) < x
    <3>1. i - 1 \in 0 .. G.count[n] - 1 /\ i - 1 < i
      BY ONLY <1>2, <2>1, <2>8
    <3>2. First5[G.key[n][i - 1]] < First5[x]
      BY <2>7, <3>1
    <3>3. G.key[n][i - 1] < x
      BY <1>4, <2>4, <3>1, <3>2, FiveNat
    <3> QED BY <1>2, <3>1, <3>3 DEF At
  <2>9. ASSUME i < key.n PROVE x < At(key, i)
    <3>1. i \in 0 .. G.count[n] - 1 /\ i <= i
      BY ONLY <1>2, <2>1, <2>9
    <3>2. First5[x] < First5[G.key[n][i]]
      BY <2>7, <3>1
    <3>3. x < G.key[n][i]
      BY <1>4, <2>4, <3>1, <3>2, FiveNat
    <3> QED BY <1>2, <3>1, <3>3 DEF At
  <2> QED BY <2>8, <2>9 DEF x
<1> QED BY <1>5, <1>6 DEF NodeInOrder

\* The counts of a live node agree, and its children know it.
NodeLinked(T, n) ==
  LET nd == T.node[n] IN
  /\ nd.data.n = nd.key.n
  /\ nd.child.n # 0 => nd.child.n = nd.key.n + 1
  /\ \A i \in 0 .. nd.child.n - 1 :
       T.node[At(nd.child, i)].parent = IF nd.key.n = 0 THEN 0 ELSE n

\* A live node has its counts and is the parent of its children, unless it has no keys.
LEMMA NodeLinkedOK ==
  ASSUME NEW T, NEW G, Represents(T, G), NEW n \in G.live
  PROVE  NodeLinked(T, n)
<1> DEFINE nd == T.node[n]
<1>1. NodeIs(T, G, n)
  BY NodeFacts
<1>2. nd.data.n = nd.key.n /\ nd.key.n = G.count[n] /\ (nd.child.n # 0 => nd.child.n = nd.key.n + 1)
  BY <1>1 DEF NodeIs
<1>3. Forest(G) /\ Links(T, G)
  BY DEF Represents
<1>4. Chain(G)
  BY <1>3 DEF Forest
<1>5. ASSUME NEW i \in 0 .. nd.child.n - 1
      PROVE  T.node[At(nd.child, i)].parent = IF nd.key.n = 0 THEN 0 ELSE n
  <2> DEFINE c == G.child[n][i]
  <2>1. G.height[n] # 0 /\ i \in 0 .. G.count[n]
    BY <1>1 DEF NodeIs
  <2>2. At(nd.child, i) = c /\ c \in G.live /\ G.height[c] + 1 = G.height[n]
    BY <1>1, <2>1 DEF NodeIs, At
  <2>3. G.parent[c] = n
    BY <1>3, <2>1 DEF Forest, ChildrenOK, ChildOK
  <2>4. T.node[c].parent = Up(G, c)
    BY <1>3, <2>2 DEF Links
  <2> HIDE DEF c
  <2>5. /\ G.top \in G.live /\ \A m \in G.live : G.height[m] \in Nat
        /\ \A a, m \in G.live : G.height[a] = G.height[m] /\ G.height[G.top] <= G.height[m] => a = m
    BY <1>3, <1>4 DEF Forest, Labelled, Chain
  <2>6. CASE G.count[n] = 0
    <3>1. G.height[G.top] < G.height[n]
      <4>1. G.height[G.top] <= G.height[n]
        BY <1>4, <2>5, <2>6 DEF Chain
      <4>2. G.height[G.top] # G.height[n]
        <5>1. SUFFICES ASSUME G.height[G.top] = G.height[n] PROVE FALSE
          OBVIOUS
        <5>2. n = G.top
          BY <2>5, <4>1, <5>1
        <5>3. G.height[G.top] = 0
          BY <1>4, <2>6, <5>2 DEF Chain
        <5> QED BY <2>1, <5>2, <5>3
      <4> QED BY <2>5, <4>1, <4>2
    <3>2. G.height[G.top] <= G.height[c]
      BY <2>2, <2>5, <3>1
    <3> QED BY <1>2, <2>2, <2>4, <2>6, <3>2 DEF Up
  <2>7. CASE G.count[n] # 0
    <3>1. ~(G.height[G.top] < G.height[n])
      BY <1>4, <2>7 DEF Chain
    <3>2. ~(G.height[G.top] <= G.height[c])
      BY <2>2, <2>5, <3>1
    <3> QED BY <1>2, <2>2, <2>3, <2>4, <2>7, <3>2 DEF Up
  <2> QED BY <2>6, <2>7
<1> QED BY <1>2, <1>5 DEF NodeLinked

\* A tree in the file that is a forest of labels is a search tree.
LEMMA SearchTreeOK ==
  ASSUME NEW T, NEW G, Represents(T, G)
  PROVE  IsSearchTree(T)
<1>1. T.root \in G.live
  BY RepNodes
<1>2. \A n \in Below(T, T.root) : n \in G.live
  BY <1>1, BelowOK
<1>3. InOrder(T)
  <2>1. \A n \in Below(T, T.root) : NodeInOrder(T, n)
    BY <1>2, NodeInOrderOK
  <2> QED BY <2>1 DEF InOrder, NodeInOrder
<1>4. \A n \in Below(T, T.root) : NodeLinked(T, n)
  BY <1>2, NodeLinkedOK
<1>5. ASSUME NEW d \in 0 .. Len(T.node), NEW m \in Levels(T, T.root)[d], NEW n \in Levels(T, T.root)[d]
      PROVE  T.node[m].child.n = 0 <=> T.node[n].child.n = 0
  <2>1. LevelsAre(T, G, T.root)
    BY <1>1, LevelsOK
  <2>2. m \in Level(G, T.root, d) /\ n \in Level(G, T.root, d)
    BY <2>1 DEF LevelsAre
  <2>3. /\ m \in G.live /\ n \in G.live
        /\ G.height[m] + d = G.height[T.root] /\ G.height[n] + d = G.height[T.root]
    BY <2>2 DEF Level
  <2>4. NodeIs(T, G, m) /\ NodeIs(T, G, n)
    BY <2>3, NodeFacts
  <2>5. /\ G.height[m] \in Nat /\ G.height[n] \in Nat /\ G.count[m] \in Nat /\ G.count[n] \in Nat
        /\ T.node[m].child.n = IF G.height[m] = 0 THEN 0 ELSE G.count[m] + 1
        /\ T.node[n].child.n = IF G.height[n] = 0 THEN 0 ELSE G.count[n] + 1
    BY <2>4 DEF NodeIs
  <2>6. G.height[m] = G.height[n]
    BY <2>3, <2>5
  <2> QED BY <2>5, <2>6
<1> QED BY <1>3, <1>4, <1>5 DEF IsSearchTree, NodeLinked

-----------------------------------------------------------------------------
(* A new file                                                              *)

\* The labels of a new file.
OneLeaf ==
  [live |-> {1}, count |-> [m \in Nat |-> 0], key |-> [m \in Nat |-> [j \in Nat |-> 0]],
   child |-> [m \in Nat |-> [j \in Nat |-> 0]], height |-> [m \in Nat |-> 0],
   range |-> [m \in Nat |-> Nat], parent |-> [m \in Nat |-> 0], top |-> 1, meta |-> 1]

NewFile == [node |-> <<ItemSet>>, root |-> 1, meta |-> 1, up |-> TRUE]

\* A new file is a tree without keys.
LEMMA NewFileOK ==
  Represents(NewFile, OneLeaf) /\ Content(OneLeaf) = {}
<1> DEFINE G == OneLeaf
           T == NewFile
<1>1. /\ G.live = {1} /\ G.top = 1 /\ G.meta = 1 /\ G.count[1] = 0 /\ G.height[1] = 0
      /\ G.range[1] = Nat
  BY DEF OneLeaf
<1>2. K \in Nat /\ K + 1 \in Nat
  BY KAssumption
<1>3. /\ ItemSet \in NodeType /\ NodeOK(ItemSet, 1) /\ ItemSet.parent = 0
      /\ ItemSet.key.n = 0 /\ ItemSet.data.n = 0 /\ ItemSet.child.n = 0
  <2> DEFINE a == Array(K)
             b == Array(K + 1)
  <2>1. a \in Arr(K) /\ Fits(a, K) /\ a.n = 0 /\ b \in Arr(K + 1) /\ Fits(b, K + 1) /\ b.n = 0
    BY <1>2, ArrayIs DEF Fits, At
  <2>2. ItemSet = [parent |-> 0, key |-> a, data |-> a, child |-> b]
    BY DEF ItemSet
  <2> HIDE DEF a, b
  <2> QED BY <2>1, <2>2 DEF NodeType, NodeOK
<1>4. T.node = <<ItemSet>> /\ T.root = 1 /\ T.meta = 1 /\ T.up = TRUE
  BY DEF NewFile
<1>5. Len(T.node) = 1 /\ T.node[1] = ItemSet
  BY <1>4
<1>6. T \in TreeType
  <2>1. <<ItemSet>> \in Seq(NodeType)
    BY <1>3
  <2> QED BY <2>1 DEF NewFile, TreeType
<1> HIDE DEF T, G
<1>7. Forest(G)
  BY <1>1 DEF Forest, Labelled, KeysOK, Ascending, ChildrenOK, Attached, Chain
<1>8. TreeOK(T)
  BY <1>3, <1>5, <1>6 DEF TreeOK
<1>9. Links(T, G)
  BY <1>1, <1>3, <1>4, <1>5 DEF Links, Up
<1>10. \A n \in G.live : Stored(T, G, n)
  BY <1>1, <1>3, <1>5 DEF Stored, Holds
<1>11. Content(G) = {}
  BY <1>1 DEF Content
<1> QED BY <1>7, <1>8, <1>9, <1>10, <1>11 DEF Represents, T, G

-----------------------------------------------------------------------------
(* The invariant                                                           *)

\* The function f is what searches in the tree with the labels G answer.
Answers(f, G) == f \in [Keys -> Keys \cup {0}] /\ \A k \in Keys : Looked(G, k, f[k])

\* The index is a forest of labels, and find answers with what is in it.
IInv == \E G : Represents(tree, G) /\ Answers(found, G)

\* The labels of the next tree: the same keys, one more, or one less.
Turns(G, H) ==
  \/ Content(H) = Content(G)
  \/ \E k \in Keys : Content(H) = Content(G) \cup {k} \/ Content(H) = Content(G) \ {k}

\* An addition, a local removal and a restart lead to a tree.
LEMMA ChangeOK ==
  ASSUME NEW G, Represents(tree, G), (\E k \in Keys : Add(k) \/ RemoveLocal(k)) \/ Restart
  PROVE  \E H : Represents(tree', H) /\ Turns(G, H)
<1>1. ASSUME NEW k \in Keys, Add(k) PROVE \E H : Represents(tree', H) /\ Turns(G, H)
  <2>1. tree.root \in G.live /\ G.height[G.top] <= G.height[tree.root]
    BY RepNodes
  <2>2. Looked(G, k, Find(tree, k))
    BY <2>1, FindOK DEF Find
  <2>3. 0 \notin Content(G)
    BY KeysAssumption DEF Content
  <2>4. Missing(G, k)
    BY <1>1, <2>2, <2>3 DEF Add, Looked
  <2>5. tree' = RecursiveAdd(tree, Leaf(tree, tree.root, k), k, k, 0)
    BY <1>1 DEF Add
  <2>6. \E H : Represents(tree', H) /\ Content(H) = Content(G) \cup {k}
    BY <2>4, <2>5, AddOK
  <2> QED BY <2>6 DEF Turns
<1>2. ASSUME NEW k \in Keys, RemoveLocal(k) PROVE \E H : Represents(tree', H) /\ Turns(G, H)
  <2>1. StaysLocal(tree, k) /\ tree' = Removed(tree, k)
    BY <1>2 DEF RemoveLocal, Remove
  <2>2. Lost(tree', G, k)
    BY <2>1, RemoveOK
  <2> QED BY <2>2 DEF Lost, Turns
<1>3. ASSUME Restart PROVE \E H : Represents(tree', H) /\ Turns(G, H)
  <2>1. tree' = [tree EXCEPT !.root = tree.meta, !.up = TRUE]
    BY <1>3 DEF Restart
  <2>2. /\ Forest(G) /\ TreeOK(tree) /\ Links(tree, G) /\ \A n \in G.live : Stored(tree, G, n)
    BY DEF Represents
  <2>3. tree.meta \in G.live /\ G.height[G.top] <= G.height[tree.meta]
    BY RepNodes
  <2>4. tree \in TreeType
    BY <2>2 DEF TreeOK
  <2>5. tree' \in TreeType /\ tree'.node = tree.node /\ tree'.root = tree.meta /\ tree'.meta = tree.meta
        /\ tree'.up = TRUE
    <3> HIDE DEF NodeType
    <3> QED BY <2>1, <2>4 DEF TreeType
  <2>6. TreeOK(tree')
    BY <2>2, <2>5 DEF TreeOK
  <2>7. Links(tree', G)
    BY <2>2, <2>3, <2>5 DEF Links
  <2>8. \A n \in G.live : Stored(tree', G, n)
    BY <2>2, <2>5 DEF Stored
  <2> QED BY <2>2, <2>6, <2>7, <2>8 DEF Represents, Turns
<1> QED BY <1>1, <1>2, <1>3

\* A search answers with a key or with nothing.
LEMMA LookedKey ==
  ASSUME NEW G, NEW k, NEW v, Looked(G, k, v)
  PROVE  v \in Keys \cup {0}
BY DEF Looked, Content

\* A step leads to a tree, and find answers with what is in it.
LEMMA NextOK ==
  ASSUME NEW G, Represents(tree, G), Next
  PROVE  \E H : Represents(tree', H) /\ Turns(G, H) /\ Answers(found', H)
<1>1. PICK H : Represents(tree', H) /\ Turns(G, H)
  BY ChangeOK DEF Next
<1>2. tree'.root \in H.live /\ H.height[H.top] <= H.height[tree'.root]
  BY <1>1, RepNodes
<1>3. \A k \in Keys : Looked(H, k, Find(tree', k))
  BY <1>1, <1>2, FindOK DEF Find
<1>4. found' = [k \in Keys |-> Find(tree', k)]
  BY DEF Next, Observe
<1>5. \A k \in Keys : Find(tree', k) \in Keys \cup {0}
  BY <1>3, LookedKey
<1>6. found' \in [Keys -> Keys \cup {0}] /\ \A k \in Keys : Looked(H, k, found'[k])
  BY <1>3, <1>4, <1>5
<1> QED BY <1>1, <1>6 DEF Answers

-----------------------------------------------------------------------------
(* The theorems                                                            *)

\* The index stays a forest of labels through additions, local removals and restarts,
\* and what find answers for every key is in its content.
THEOREM IndexInvariant == Spec => []IInv
<1>1. Init => IInv
  <2> SUFFICES ASSUME Init PROVE IInv
    OBVIOUS
  <2>1. tree = NewFile /\ found = [k \in Keys |-> 0]
    BY DEF Init, NewFile
  <2>2. Represents(tree, OneLeaf) /\ Content(OneLeaf) = {}
    BY <2>1, NewFileOK
  <2>3. Answers(found, OneLeaf)
    BY <2>1, <2>2 DEF Answers, Looked, Missing
  <2> QED BY <2>2, <2>3 DEF IInv
<1>2. IInv /\ [Next]_vars => IInv'
  <2> SUFFICES ASSUME IInv, [Next]_vars PROVE IInv'
    OBVIOUS
  <2>1. CASE Next
    <3>1. PICK G : Represents(tree, G) /\ Answers(found, G)
      BY DEF IInv
    <3>2. PICK H : Represents(tree', H) /\ Answers(found', H)
      BY <2>1, <3>1, NextOK
    <3> QED BY <3>2 DEF IInv
  <2>2. CASE UNCHANGED vars
    <3>1. tree' = tree /\ found' = found
      BY <2>2 DEF vars
    <3> QED BY <3>1 DEF IInv, Answers
  <2> QED BY <2>1, <2>2
<1> QED BY <1>1, <1>2, PTL DEF Spec

\* Links lead to nodes, and neither a split nor a move of keys between brothers writes
\* an array of a node past its end.
THEOREM IndexTypeOK == Spec => []TypeOK
<1>1. IInv => TypeOK
  <2> SUFFICES ASSUME IInv PROVE TypeOK
    OBVIOUS
  <2>1. PICK G : Represents(tree, G)
    BY DEF IInv
  <2>2. TreeOK(tree) /\ Links(tree, G)
    BY <2>1 DEF Represents
  <2>3. Len(tree.node) \in Nat /\ DOMAIN tree.node = 1 .. Len(tree.node)
    BY <2>2, TreeFields
  <2>4. /\ tree.root \in 1 .. Len(tree.node) /\ tree.meta \in 1 .. Len(tree.node)
        /\ tree.up \in BOOLEAN
    BY <2>1, <2>2, RepNodes DEF Links
  <2>5. \A n \in 1 .. Len(tree.node) : NodeOK(tree.node[n], Len(tree.node))
    BY <2>2 DEF TreeOK
  <2>6. InBounds(tree)
    BY <2>3, <2>5 DEF InBounds, NodeOK
  <2>7. ASSUME NEW n \in 1 .. Len(tree.node)
        PROVE  LET nd == tree.node[n] IN
               /\ nd.parent \in (1 .. Len(tree.node)) \cup {0}
               /\ \A i \in 0 .. nd.child.n - 1 : At(nd.child, i) \in 1 .. Len(tree.node)
               /\ \A i \in 0 .. nd.key.n - 1 : At(nd.key, i) \in Keys /\ At(nd.data, i) \in Keys
    <3>1. NodeOK(tree.node[n], Len(tree.node))
      BY <2>5
    <3>2. tree.node[n].parent \in (1 .. Len(tree.node)) \cup {0}
      BY <2>3, <3>1 DEF NodeOK
    <3> QED BY <3>1, <3>2 DEF NodeOK, At
  <2> QED BY <2>3, <2>4, <2>6, <2>7 DEF TypeOK
<1> QED BY <1>1, IndexInvariant, PTL

\* Through splits that go up by the parent links while they change them, and moves of
\* keys between brothers, the index stays a search tree, for every node size.
THEOREM IndexSearchTree == Spec => []SearchTree
<1>1. IInv => SearchTree
  BY SearchTreeOK DEF IInv, SearchTree
<1> QED BY <1>1, IndexInvariant, PTL

\* The process that starts again from the root in the head of the file, which a removal
\* does not write, finds the same data for every key.
THEOREM IndexRestartFinds == Spec => []RestartFinds
<1>1. IInv => RestartFinds
  <2> SUFFICES ASSUME IInv, NEW k \in Keys PROVE SubtreeFind(tree, tree.meta, k) = found[k]
    BY DEF RestartFinds
  <2>1. PICK G : Represents(tree, G) /\ Answers(found, G)
    BY DEF IInv
  <2>2. Forest(G) /\ tree.meta \in G.live /\ G.height[G.top] <= G.height[tree.meta]
    BY <2>1, RepNodes
  <2> DEFINE v == SubtreeFind(tree, tree.meta, k)
  <2>3. Looked(G, k, v) /\ Looked(G, k, found[k])
    BY <2>1, <2>2, FindOK DEF Answers
  <2> HIDE DEF v
  <2>4. \A i, j \in Content(G) : First5[i] = First5[j] => i = j
    BY <2>2, ContentFacts
  <2>5. v = found[k]
    BY <2>3, <2>4 DEF Looked, Missing
  <2> QED BY <2>5 DEF v
<1> QED BY <1>1, IndexInvariant, PTL

\* Keys differ in their first five bytes.
KeysDiffer == \A j, k \in Keys : First5[j] = First5[k] => j = k

\* What find answers for every key if the keys in C are in the index.
MapOf(C) == [k \in Keys |-> IF k \in C THEN k ELSE 0]

\* What find answers determines, and is determined by, the keys in the index.
LEMMA AnswersMap ==
  ASSUME KeysDiffer, NEW G, NEW f, Answers(f, G)
  PROVE  f = MapOf(Content(G))
<1>1. Content(G) \subseteq Keys
  BY DEF Content
<1>2. ASSUME NEW k \in Keys PROVE f[k] = IF k \in Content(G) THEN k ELSE 0
  <2>1. Looked(G, k, f[k])
    BY DEF Answers
  <2> QED BY <1>1, <2>1 DEF Looked, Missing, KeysDiffer
<1> QED BY <1>2 DEF Answers, MapOf

\* A key more or less in the index is a step of the map.
LEMMA MapStep ==
  ASSUME NEW C, NEW D, C \subseteq Keys, NEW k \in Keys, D = C \cup {k} \/ D = C \ {k},
         found = MapOf(C), found' = MapOf(D)
  PROVE  [Map!Next]_found
<1>1. found' \in [Keys -> Keys \cup {0}]
  BY DEF MapOf
<1>2. \A j \in Keys \ {k} : found'[j] = found[j]
  BY DEF MapOf
<1>3. CASE D = C
  BY <1>3
<1>4. CASE D # C /\ D = C \cup {k}
  <2>1. found[k] = 0 /\ found'[k] = k
    BY <1>4 DEF MapOf
  <2> QED BY <1>1, <1>2, <2>1 DEF Map!Next, Map!Add, Map!Others
<1>5. CASE D # C /\ D = C \ {k}
  <2>1. found'[k] = 0
    BY <1>5 DEF MapOf
  <2> QED BY <1>1, <1>2, <2>1 DEF Map!Next, Map!Remove, Map!Others
<1> QED BY <1>3, <1>4, <1>5

\* The index is the map from keys to data pointers the storage engine takes it for, if
\* its keys differ in the five bytes that find compares.
THEOREM IndexRefinesKeyMap == ASSUME KeysDiffer PROVE Spec => MapSpec
<1>1. Init => Map!Init
  BY DEF Init, Map!Init
<1>2. IInv /\ [Next]_vars => [Map!Next]_found
  <2> SUFFICES ASSUME IInv, [Next]_vars PROVE [Map!Next]_found
    OBVIOUS
  <2>1. CASE Next
    <3>1. PICK G : Represents(tree, G) /\ Answers(found, G)
      BY DEF IInv
    <3>2. PICK H : Turns(G, H) /\ Answers(found', H)
      BY <2>1, <3>1, NextOK
    <3> DEFINE C == Content(G)
               D == Content(H)
    <3>3. found = MapOf(C)
      BY <3>1, AnswersMap
    <3>4. found' = MapOf(D)
      BY <3>2, AnswersMap
    <3>5. C \subseteq Keys
      BY DEF Content
    <3>6. C = D \/ \E k \in Keys : D = C \cup {k} \/ D = C \ {k}
      BY <3>2 DEF Turns
    <3> HIDE DEF C, D
    <3>7. CASE C = D
      BY <3>3, <3>4, <3>7
    <3>8. CASE \E k \in Keys : D = C \cup {k} \/ D = C \ {k}
      BY <3>3, <3>4, <3>5, <3>8, MapStep
    <3> QED BY <3>6, <3>7, <3>8
  <2>2. CASE UNCHANGED vars
    BY <2>2 DEF vars
  <2> QED BY <2>1, <2>2
<1> QED BY <1>1, <1>2, IndexInvariant, PTL DEF Spec, MapSpec, Map!Spec

=============================================================================
