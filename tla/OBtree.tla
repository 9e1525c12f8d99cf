------------------------------- MODULE OBtree -------------------------------
(***************************************************************************)
(* The B-tree in an index file: OBtree and ONode of the index manager.     *)
(* A node is what its item set holds in the file: the parent, and three    *)
(* arrays with counts.  Shrinking an array leaves the old elements in the  *)
(* slots behind its count, and some readers look at the first of them.     *)
(* Nodes are never freed, so a node's address is its number.  One call of  *)
(* add or remove is one step: one thread executes queries.                 *)
(***************************************************************************)
EXTENDS Integers, Sequences, FiniteSetsExt

CONSTANTS
  K,          \* DEFAULT_KEY_COUNT: keys a node has space for
  Keys,       \* the keys, as numbers in the order of memcmp
  First5,     \* First5[k]: the first five bytes of k, all that find compares
  MaxNodes,   \* bound on the nodes allocated
  MaxRemoves  \* bound on the removals

ASSUME KAssumption == K \in Nat /\ K >= 2
ASSUME KeysAssumption ==
  /\ Keys \subseteq Nat \ {0} /\ Keys \subseteq DOMAIN First5
  /\ First5 \in [DOMAIN First5 -> Nat]
  /\ \A j, k \in Keys : j <= k => First5[j] <= First5[k]
ASSUME BoundAssumption == MaxNodes \in Nat \ {0} /\ MaxRemoves \in Nat

VARIABLES
  tree,       \* the index, a record
  removes,    \* counts the removals, for the bound
  found       \* history: what find answers, for every key
(* tree.node  the item sets in the file, by address; address 0 is null
   tree.root  _rootONode
   tree.meta  the root's address in the head of the file
   tree.up    FALSE once a null pointer was dereferenced                   *)
vars == <<tree, removes, found>>

-----------------------------------------------------------------------------
(* Item sets                                                               *)

\* An array of size slots and the memory behind it, as one slot more.
Array(size) == [n |-> 0, at |-> [i \in 0 .. size |-> 0]]
ItemSet == [parent |-> 0, key |-> Array(K), data |-> Array(K), child |-> Array(K + 1)]

At(a, i)      == a.at[i]
Put(a, i, x)  == [a EXCEPT !.at[i] = x]
Counted(a, n) == [a EXCEPT !.n = n]
Grown(a)      == Counted(a, a.n + 1)

\* Mutant of MoveInsert: nothing moves.
MoveInsertOver(a, i, x) == Put(a, i, x)

\* moveInsertKey, moveInsertDataOptr, moveInsertChildOptr: the count stays.
MoveInsert(a, i, x) ==
  [a EXCEPT !.at = [j \in DOMAIN @ |-> IF j = i THEN x
                                       ELSE IF i < j /\ j <= a.n THEN @[j - 1] ELSE @[j]]]

\* moveDeleteKey, moveDeleteDataOptr, moveDeleteChildOptr: the last slot is kept.
MoveDelete(a, i) ==
  IF a.n <= 0 THEN a
  ELSE [n |-> a.n - 1,
        at |-> [j \in DOMAIN a.at |-> IF i <= j /\ j < a.n - 1 THEN a.at[j + 1] ELSE a.at[j]]]

\* The elements that come before the one at i when an array is sorted.
Before(a, i) ==
  {j \in 0 .. a.n - 1 : At(a, j) < At(a, i) \/ (At(a, j) = At(a, i) /\ j < i)}

SortKey(a) ==
  LET Ranked(j) == CHOOSE i \in 0 .. a.n - 1 : Cardinality(Before(a, i)) = j
  IN [a EXCEPT !.at = [j \in DOMAIN @ |-> IF j < a.n THEN @[Ranked(j)] ELSE @[j]]]

\* The position of x among the elements of an array, -1 if it is not there.
PositionIn(a, x) ==
  LET S == {i \in 0 .. a.n - 1 : At(a, i) = x} IN IF S = {} THEN -1 ELSE Min(S)

\* The getter lets one slot behind the count be read.
DataOptr(nd, i) == IF 0 <= i /\ i <= nd.data.n THEN At(nd.data, i) ELSE 0

\* child(i); null if there is no such child.
Child(nd, i) == IF 0 <= i /\ i < nd.child.n THEN At(nd.child, i) ELSE 0

SetParent(T, n, p) == [T EXCEPT !.node[n].parent = p]

\* Where the recursion from node n ends, if step leads from a node to the next one
\* and from the last one to itself.  No way down the tree is longer than the nodes.
Descent(T, step, n) ==
  LET at[i \in 0 .. Len(T.node)] == IF i = 0 THEN n ELSE step[at[i - 1]]
  IN at[Len(T.node)]

-----------------------------------------------------------------------------
(* find                                                                    *)

\* The keys of a node that find does not pass.
NotPassed(nd, k) == {i \in 0 .. nd.key.n - 1 : First5[k] <= First5[At(nd.key, i)]}

\* The node with a key equal to k in what is compared, 0 if the way ends below a leaf.
SubtreeFind(T, n, k) ==
  LET step == [m \in 0 .. Len(T.node) |->
        IF m = 0 THEN 0
        ELSE LET nd == T.node[m]
                 S  == NotPassed(nd, k)
             IN IF S = {} THEN Child(nd, nd.child.n - 1)
                ELSE IF First5[At(nd.key, Min(S))] = First5[k] THEN m
                ELSE Child(nd, Min(S))]
      m == Descent(T, step, n)
  IN IF m = 0 THEN 0 ELSE DataOptr(T.node[m], Min(NotPassed(T.node[m], k)))

Find(T, k) == SubtreeFind(T, T.root, k)

-----------------------------------------------------------------------------
(* add                                                                     *)

\* The leaf a new key belongs to.  For the last child the loop also compares the
\* slot behind the keys; either answer leads to the last child.
Leaf(T, n, k) ==
  LET step == [m \in 1 .. Len(T.node) |->
        LET nd == T.node[m]
            S  == {i \in 0 .. nd.child.n - 1 : k < At(nd.key, i)}
        IN IF nd.child.n = 0 THEN m
           ELSE At(nd.child, IF S = {} THEN nd.child.n - 1 ELSE Min(S))]
  IN Descent(T, step, n)

\* ViewItemSet: an array of size slots with an element more, those behind its count null.
ViewInsert(a, size, i, x) ==
  MoveInsert([n |-> size, at |-> [j \in 0 .. size |-> IF j < a.n THEN At(a, j) ELSE 0]], i, x)

\* The first m slots written from those of a view that begin at off.
Written(a, view, off, m) ==
  [n |-> m, at |-> [j \in DOMAIN a.at |-> IF j < m THEN At(view, off + j) ELSE At(a, j)]]

SeparatorKeyIndex == IF (K + 1) % 2 = 0 THEN (K + 1) \div 2 - 1 ELSE (K + 1) \div 2
Center == (K + 2) \div 2

\* Mutant of Adopt: the children that move keep their parent.
AdoptNone(T, n) == T

ChildNodes(T, n) == {At(T.node[n].child, i) : i \in 0 .. T.node[n].child.n - 1}

\* The children of n get n as their parent.
Adopt(T, n) ==
  [T EXCEPT !.node = [m \in DOMAIN @ |-> IF m \in ChildNodes(T, n)
                                         THEN [@[m] EXCEPT !.parent = n] ELSE @[m]]]

\* The node n, full, with key k (and right child c) becomes n and a new right node;
\* key and data are what goes up to the parent.
SplitONode(T, n, k, d, c) ==
  LET nd    == T.node[n]
      key   == SortKey(Grown(Put(nd.key, K, k)))
      pos   == PositionIn(key, k)
      data  == ViewInsert(nd.data, K, pos, d)
      child == IF c = 0 THEN nd.child ELSE ViewInsert(nd.child, K + 1, pos + 1, c)
      sep   == SeparatorKeyIndex
      inner == nd.child.n > 0
      left  == [nd EXCEPT !.key = Written(@, key, 0, sep), !.data = Written(@, data, 0, sep),
                          !.child = IF inner THEN Written(@, child, 0, Center) ELSE @]
      right == [parent |-> nd.parent,
                key    |-> Written(Array(K), key, sep + 1, K - sep),
                data   |-> Written(Array(K), data, sep + 1, K - sep),
                child  |-> IF inner THEN Written(Array(K + 1), child, Center, K + 2 - Center)
                           ELSE Array(K + 1)]
      new   == Len(T.node) + 1
  IN [tree |-> Adopt([T EXCEPT !.node = Append([@ EXCEPT ![n] = left], right)], new),
      key |-> At(key, sep), data |-> At(data, sep), right |-> new]

\* Mutant of MetaRoot: the head of the file is not written.
MetaRootNot(T, n) == T

\* The root's address in the head of the file.
MetaRoot(T, n) == [T EXCEPT !.meta = n]

\* The root n was split: a new root over n and c, also in the head of the file.
NewRoot(T, n, k, d, c) ==
  LET new  == Len(T.node) + 1
      root == [parent |-> 0, key |-> Grown(Put(Array(K), 0, k)),
               data |-> Grown(Put(Array(K), 0, d)),
               child |-> Counted(Put(Put(Array(K + 1), 0, n), 1, c), 2)]
  IN Adopt(MetaRoot([T EXCEPT !.node = Append(@, root), !.root = new], new), new)

\* A node with space takes the key and the child to its right.
SimpleAdd(T, n, k, d, c) ==
  LET nd  == T.node[n]
      key == SortKey(Grown(Put(nd.key, nd.key.n, k)))
      pos == PositionIn(key, k)
  IN [T EXCEPT !.node[n] =
        [nd EXCEPT !.key = key, !.data = Grown(MoveInsert(@, pos, d)),
                   !.child = IF c = 0 THEN @
                             ELSE Counted(MoveInsert(@, pos + 1, c), key.n + 1)]]

\* Mutant of HasSpace: a full node takes a key more.
HasSpaceOneMore(nd) == nd.key.n <= K

HasSpace(nd) == nd.key.n < K

\* One call of recursiveAdd on node n, and the call on the parent it makes; n is 0
\* when it makes none.
RecursiveAddCall(s) ==
  LET nd == s.tree.node[s.n]
      x  == SplitONode(s.tree, s.n, s.k, s.d, s.c)
  IN IF s.n = 0 THEN s
     ELSE IF HasSpace(nd)
     THEN [s EXCEPT !.tree = SimpleAdd(s.tree, s.n, s.k, s.d, s.c), !.n = 0]
     ELSE IF nd.parent = 0
     THEN [s EXCEPT !.tree = NewRoot(x.tree, s.n, x.key, x.data, x.right), !.n = 0]
     ELSE [tree |-> x.tree, n |-> nd.parent, k |-> x.key, d |-> x.data, c |-> x.right]

RecursiveAdd(T, n, k, d, c) ==
  LET call[i \in 0 .. Len(T.node)] ==
        IF i = 0 THEN [tree |-> T, n |-> n, k |-> k, d |-> d, c |-> c]
        ELSE RecursiveAddCall(call[i - 1])
  IN call[Len(T.node)].tree

-----------------------------------------------------------------------------
(* remove: an operator gives the tree and the node it returns as the new   *)
(* root, 0 for null                                                        *)

Same(T)     == [tree |-> T, root |-> 0]
Crashed(T)  == [tree |-> [T EXCEPT !.up = FALSE], root |-> 0]

\* The only child of n loses its parent and is returned as the root.
Promoted(T, n) ==
  LET c == At(T.node[n].child, 0) IN [tree |-> SetParent(T, c, 0), root |-> c]

\* The key of parent p beside its child i, and its data pointer, move to the left
\* or right neighbour of the child, and the child is dropped.  several is the case
\* of a parent with more keys, in which p keeps the data pointer, and a right
\* neighbour does not count the one it gets.
Merged(T, p, i, left, several) ==
  LET P == T.node[p]
      q == IF left THEN i - 1 ELSE i
      t == IF left THEN Child(P, i - 1) ELSE Child(P, i + 1)
      N == T.node[t]
      Inserted(a, x) == MoveInsert(a, IF left THEN a.n ELSE 0, x)
      data == Inserted(N.data, DataOptr(P, q))
  IN [T EXCEPT
       !.node[t] = [N EXCEPT !.key  = Grown(Inserted(@, At(P.key, q))),
                             !.data = IF several /\ ~left THEN data ELSE Grown(data)],
       !.node[p] = [P EXCEPT !.key   = MoveDelete(@, q),
                             !.data  = IF several THEN @ ELSE MoveDelete(@, q),
                             !.child = MoveDelete(@, i)]]

\* A left brother with two keys: child(childOptrCount) is null and is dereferenced
\* after keys and data pointers were moved, those behind the last ones.
PushFromLeft(T, p, s, l) ==
  LET P == T.node[p]
      L == T.node[l]
  IN Crashed([T EXCEPT
       !.node[s] = [@ EXCEPT !.key = Grown(Put(@, 0, At(P.key, 0))),
                             !.data = Put(@, 0, DataOptr(P, 0))],
       !.node[p] = [@ EXCEPT !.key = Counted(Put(@, 0, At(L.key, L.key.n)), 1),
                             !.data = Counted(Put(@, 0, DataOptr(L, L.data.n)), 1)],
       !.node[l] = [@ EXCEPT !.key = Counted(@, L.key.n - 1),
                             !.data = Counted(@, L.data.n - 1)]])

\* A right brother with two keys gives its first key to p, which gives its own to s.
PushFromRight(T, p, s, r) ==
  LET P == T.node[p]
      R == T.node[r]
      c == At(R.child, 0)
  IN Same(SetParent([T EXCEPT
       !.node[s] = [@ EXCEPT !.key = Grown(Put(@, 0, At(P.key, 0))),
                             !.data = Put(@, 0, DataOptr(P, 0)),
                             !.child = Grown(Put(@, @.n, c))],
       !.node[p] = [@ EXCEPT !.key = Counted(Put(@, 0, At(R.key, 0)), 1),
                             !.data = Counted(Put(@, 0, DataOptr(R, 0)), 1)],
       !.node[r] = [@ EXCEPT !.key = MoveDelete(@, 0), !.data = MoveDelete(@, 0),
                             !.child = MoveDelete(@, 0)]], c, s))

\* The last resort: the brother t takes the key of p and the only child of s.  It is
\* always t's last child whose parent is set.
MergedInner(T, p, i, left) ==
  LET s == Child(T.node[p], i)
      t == Child(T.node[p], IF left THEN i - 1 ELSE i + 1)
      M == Merged(T, p, i, left, FALSE)
      U == [M EXCEPT !.node[t].child =
              Grown(MoveInsert(@, IF left THEN @.n ELSE 0, At(T.node[s].child, 0)))]
      last == At(U.node[t].child, U.node[t].child.n - 1)
      V == SetParent(U, last, t)
  IN IF V.node[p].key.n <= 0 THEN Promoted(V, p) ELSE Same(V)

\* p's child s has no keys and one child.  The comment of the code says that p has
\* exactly one key; nothing ensures it.
RecursiveMerge(T, p, s) ==
  LET P == T.node[p]
      i == PositionIn(P.child, s)
      l == Child(P, i - 1)
      r == Child(P, i + 1)
  IN CASE P.key.n <= 0                      -> Promoted(T, p)
       [] P.key.n > 0 /\ i = -1             -> Crashed(T)
       [] OTHER ->
            IF l # 0 /\ T.node[l].key.n >= 2 THEN PushFromLeft(T, p, s, l)
            ELSE IF r # 0 /\ T.node[r].key.n >= 2 THEN PushFromRight(T, p, s, r)
            ELSE IF l # 0 THEN MergedInner(T, p, i, TRUE)
            ELSE IF r # 0 THEN MergedInner(T, p, i, FALSE)
            ELSE Same(T)

\* No brother of child i has a key to spare.
Merge(T, p, i) ==
  LET P       == T.node[p]
      left    == Child(P, i - 1) # 0
      several == P.key.n >= 2
      M       == Merged(T, p, i, left, several)
  IN IF ~left /\ Child(P, i + 1) = 0 THEN Same(T)
     ELSE IF several THEN Same(M)
     ELSE IF P.parent = 0 THEN Promoted(M, p)
     ELSE RecursiveMerge(M, P.parent, p)

\* Child i takes the key of p at q, p the key of the brother b at position e.
Borrowed(T, p, i, q, b, e, f) ==
  LET P == T.node[p]
      B == T.node[b]
      n == Child(P, i)
      N == T.node[n]
  IN [T EXCEPT
       !.node[n] = [N EXCEPT !.key = Counted(Put(@, 0, At(P.key, q)), 1),
                             !.data = Counted(Put(@, 0, DataOptr(P, q)), 1)],
       !.node[p] = [P EXCEPT !.key = Put(@, q, At(B.key, e)),
                             !.data = Put(@, q, DataOptr(B, f))],
       !.node[b] = [B EXCEPT !.key = MoveDelete(@, e), !.data = MoveDelete(@, f)]]

\* The only key of leaf n is removed.
Underflow(T, p, n) ==
  LET P == T.node[p]
      i == PositionIn(P.child, n)
      l == Child(P, i - 1)
      r == Child(P, i + 1)
  IN IF i = -1 THEN Same(T)
     ELSE IF l # 0 /\ T.node[l].key.n >= 2
          THEN Same(Borrowed(T, p, i, i - 1, l, T.node[l].key.n - 1, T.node[l].data.n - 1))
     ELSE IF r # 0 /\ T.node[r].key.n >= 2 THEN Same(Borrowed(T, p, i, i, r, 0, 0))
     ELSE Merge(T, p, i)

\* remove in a leaf.
LeafRemove(T, n, i) ==
  LET nd == T.node[n]
  IN IF nd.key.n > 1 \/ nd.parent = 0
     THEN Same([T EXCEPT !.node[n].key = MoveDelete(@, i),
                         !.node[n].data = MoveDelete(@, i)])
     ELSE Underflow(T, nd.parent, n)

SubtreeMax(T, n) ==
  LET step == [m \in 1 .. Len(T.node) |->
        LET c == T.node[m].child IN IF c.n >= 1 THEN At(c, c.n - 1) ELSE m]
  IN Descent(T, step, n)

\* remove in an inner node: the greatest key below its first child, whichever key i
\* is removed, takes the key's place and is removed below.
InnerRemove(T, n, i) ==
  LET m == SubtreeMax(T, At(T.node[n].child, 0))
      M == T.node[m]
      k == At(M.key, M.key.n - 1)
      U == [T EXCEPT !.node[n].key = Put(@, i, k),
                     !.node[n].data = Put(@, i, DataOptr(M, M.data.n - 1))]
      r == LeafRemove(U, m, PositionIn(M.key, k))
      R == r.tree.node[r.root]
  IN IF M.key.n = 0 THEN Crashed(T)
     ELSE IF r.root # 0 /\ R.key.n <= 0 /\ R.child.n = 1 /\ R.parent = 0
          THEN Promoted(r.tree, r.root)
     ELSE r

ONodeRemove(T, n, k) ==
  LET i == PositionIn(T.node[n].key, k)
  IN IF i = -1 THEN Same(T)
     ELSE IF T.node[n].child.n >= 1 THEN InnerRemove(T, n, i)
     ELSE LeafRemove(T, n, i)

\* Where remove looks for k: the first node met whose slots, the one behind the keys
\* included, hold it, or a leaf.
Holder(T, n, k) ==
  LET step == [m \in 1 .. Len(T.node) |->
        LET nd == T.node[m]
            S  == {i \in 0 .. nd.child.n - 1 : k <= At(nd.key, i)}
        IN IF nd.child.n = 0 THEN m
           ELSE IF S = {} THEN At(nd.child, nd.child.n - 1)
           ELSE IF At(nd.key, Min(S)) = k THEN m
           ELSE At(nd.child, Min(S))]
  IN Descent(T, step, n)

Removed(T, k) ==
  LET r == ONodeRemove(T, Holder(T, T.root, k), k)
  IN IF r.root # 0 THEN [r.tree EXCEPT !.root = r.root] ELSE r.tree

-----------------------------------------------------------------------------
(* The index                                                               *)

\* A new file: an empty root, and its address in the head.
Init ==
  /\ tree = [node |-> <<ItemSet>>, root |-> 1, meta |-> 1, up |-> TRUE]
  /\ removes = 0
  /\ found = [k \in Keys |-> 0]

\* No array has been written past its end.
Fits(a, size) == a.n <= size /\ At(a, size) = 0
InBounds(T) ==
  \A n \in DOMAIN T.node :
    Fits(T.node[n].key, K) /\ Fits(T.node[n].data, K) /\ Fits(T.node[n].child, K + 1)

Running == tree.up /\ InBounds(tree)

\* add, of a key that is not in the index.  The data pointer of k is written k.
Add(k) ==
  /\ Running
  /\ Find(tree, k) = 0
  /\ tree' = RecursiveAdd(tree, Leaf(tree, tree.root, k), k, k, 0)
  /\ Len(tree'.node) <= MaxNodes                                  \* bound
  /\ UNCHANGED removes

Remove(k) ==
  /\ Running
  /\ removes < MaxRemoves                                         \* bound
  /\ tree' = Removed(tree, k)
  /\ removes' = IF tree' = tree THEN removes ELSE removes + 1

\* The process ends, or has crashed, and starts again.
Restart ==
  /\ tree' = [tree EXCEPT !.root = tree.meta, !.up = TRUE]
  /\ UNCHANGED removes

\* The removals of keys in leaves that end in the leaf, with a key from a brother,
\* or in a root with one key.
StaysLocal(T, k) ==
  LET n == Holder(T, T.root, k)
      p == T.node[n].parent
      i == PositionIn(T.node[p].child, n)
      CanGive(b) == b # 0 /\ T.node[b].key.n >= 2
  IN PositionIn(T.node[n].key, k) # -1 =>
       /\ T.node[n].child.n = 0
       /\ (T.node[n].key.n = 1 /\ p # 0) =>
            \/ CanGive(Child(T.node[p], i - 1)) \/ CanGive(Child(T.node[p], i + 1))
            \/ T.node[p].parent = 0 /\ T.node[p].key.n = 1

RemoveLocal(k) == StaysLocal(tree, k) /\ Remove(k)

Observe == found' = [k \in Keys |-> Find(tree', k)]

Next       == ((\E k \in Keys : Add(k) \/ RemoveLocal(k)) \/ Restart) /\ Observe
RemoveNext == ((\E k \in Keys : Add(k) \/ Remove(k)) \/ Restart) /\ Observe

Spec       == Init /\ [][Next]_vars
\* All removals.
RemoveSpec == Init /\ [][RemoveNext]_vars

-----------------------------------------------------------------------------
(* Properties                                                              *)

\* Links lead to nodes, and no array is written past its end, although the arrays
\* of a node are shifted by different counts.
TypeOK ==
  LET Nodes == DOMAIN tree.node IN
  /\ tree.root \in Nodes /\ tree.meta \in Nodes /\ tree.up \in BOOLEAN
  /\ InBounds(tree)
  /\ \A n \in Nodes :
       LET nd == tree.node[n] IN
       /\ nd.parent \in Nodes \cup {0}
       /\ \A i \in 0 .. nd.child.n - 1 : At(nd.child, i) \in Nodes
       /\ \A i \in 0 .. nd.key.n - 1 : At(nd.key, i) \in Keys /\ At(nd.data, i) \in Keys

\* Levels(T, n)[d]: the nodes d levels below node n.
Levels(T, n) ==
  LET level[d \in 0 .. Len(T.node)] ==
        IF d = 0 THEN {n} ELSE UNION {ChildNodes(T, m) : m \in level[d - 1]}
  IN level

Below(T, n) == UNION {Levels(T, n)[d] : d \in 0 .. Len(T.node)}

\* The keys of the nodes below the root are in the order of the tree.
InOrder(T) ==
  \A n \in Below(T, T.root) :
    LET key   == T.node[n].key
        child == T.node[n].child
    IN /\ \A i \in 1 .. key.n - 1 : At(key, i - 1) < At(key, i)
       /\ \A i \in 0 .. child.n - 1 : \A m \in Below(T, At(child, i)) :
            \A j \in 0 .. T.node[m].key.n - 1 :
              /\ i > 0 => At(key, i - 1) < At(T.node[m].key, j)
              /\ i < key.n => At(T.node[m].key, j) < At(key, i)

\* The nodes below the root form a search tree: its leaves have one depth, an inner
\* node has a child more than keys, its keys are in order, and every child knows its
\* parent (one below a root without keys has none).
IsSearchTree(T) ==
  /\ \A d \in 0 .. Len(T.node) : \A m, n \in Levels(T, T.root)[d] :
       T.node[m].child.n = 0 <=> T.node[n].child.n = 0
  /\ InOrder(T)
  /\ \A n \in Below(T, T.root) :
       LET nd == T.node[n] IN
       /\ nd.data.n = nd.key.n
       /\ nd.child.n # 0 => nd.child.n = nd.key.n + 1
       /\ \A i \in 0 .. nd.child.n - 1 :
            T.node[At(nd.child, i)].parent = IF nd.key.n = 0 THEN 0 ELSE n

\* Through splits that go up by the parent links while they change them, and through
\* moves of keys between brothers, the index stays a search tree.
SearchTree == IsSearchTree(tree)

\* remove does not write a new root to the head of the file, but the process that
\* starts from the old root finds the same data for every key.
RestartFinds ==
  \A k \in Keys : SubtreeFind(tree, tree.meta, k) = found[k]

Map == INSTANCE KeyMap WITH map <- found

\* The index is a map from keys to data pointers, as the storage engine takes it.
MapSpec == Map!Spec

\* A key removed from an inner node is replaced by its neighbour in the order of the
\* keys, so a removal leaves the keys of the tree in order.
RemoveKeepsOrder == InOrder(tree)

=============================================================================
