------------------------------ MODULE SafeOBtree -----------------------------
(***************************************************************************)
(* The index of a safe-mode session: SafeOBtree, SafeONode and the table   *)
(* ONodeConversionTable.  The session starts on the nodes of the normal    *)
(* tree; before a node is written it is copied into the session's file and *)
(* the copy is entered in the table, through which every address is read.  *)
(* A commit brings the session's nodes back into the normal tree.          *)
(*                                                                         *)
(* The table leads the address of a node and that of its copy to the same  *)
(* item set, so a node has one number here: a node of the normal tree      *)
(* keeps its number, a new one gets the next.  Its keys are bare addresses *)
(* of two files; they never meet, as a node takes 103 bytes and lies at    *)
(* 100 + 103 * i in one file and at 103 * j in the other.                  *)
(*                                                                         *)
(* The algorithms are those of ONode, written a second time in the code;   *)
(* what is the same is taken from OBtree.  A record of key k lies at k in  *)
(* the normal value file and at k + 1 in the session's.  A data pointer is *)
(* that number, negative when its flag in the table (_dataOptrLocation)    *)
(* says that the record lies in the session's file.                        *)
(*                                                                         *)
(* The session's file is formatted a second time after its head was        *)
(* reserved (MMyISAM.cpp, migrateToSafeMode).  So the first node of a      *)
(* session is at address 0, where the head is: the address that means no   *)
(* node, and into which the root's address is written: its children are    *)
(* taken for the root.                                                     *)
(***************************************************************************)
EXTENDS OBtree

CONSTANTS
  NoSession,    \* no session is open
  MaxSessions,  \* bound on the sessions opened
  Removable     \* bound: the keys that a session removes

ASSUME SessionsAssumption == MaxSessions \in Nat /\ Removable \subseteq Keys

VARIABLES
  session,      \* the open session's tree, a record, or NoSession
  opened,       \* counts the sessions, for the bound
  seen          \* history: what find answers in the session, for every key
(* session.node, root  as in tree
   session.zero        the node at address 0 of the session's file, 0 if none
   session.copied      the nodes of the normal tree that have a copy
   session.byCopy      those of them whose parent, or _rootONode, refers to
                       them by the address of the copy                     *)
safeVars == <<vars, session, opened, seen>>

InSession == session # NoSession

-----------------------------------------------------------------------------
(* The session's tree                                                      *)

\* Bytes 20 to 24 of the file, the root's address in its head, are also bytes 14 to
\* 18 of the first key of the node at address 0.  Keys are even; an odd number is a
\* key with other bytes there.
Overwritten(k) == IF k % 2 = 0 THEN k + 1 ELSE k

\* The node the session writes first is the one at address 0.
FirstWritten(S, n) == IF S.zero = 0 THEN [S EXCEPT !.zero = n] ELSE S

\* The test for the root: the address of the parent, or of its copy, is zero.
IsRoot(S, n) == S.node[n].parent \in {0, S.zero}

\* Node n becomes a child by the address of its item set, its copy's if it has one.
Relinked(S, n) == IF n \in S.copied THEN [S EXCEPT !.byCopy = @ \cup {n}] ELSE S

\* S became U: the nodes that were written have a copy.
Copied(S, U) ==
  [U EXCEPT !.copied = @ \cup {n \in DOMAIN tree.node : U.node[n] # S.node[n]}]

\* The session's find: it reads every node through the table.
SafeFind(S, k) == Find(S, k)

-----------------------------------------------------------------------------
(* add                                                                     *)

\* A new root is also written to the head of the file; it refers to the old root,
\* which was written before, by the address of its copy.
Rooted(S, n) ==
  [S EXCEPT !.node[S.zero].key = Put(@, 0, Overwritten(At(@, 0))),
            !.byCopy = @ \cup ({n} \cap DOMAIN tree.node)]

\* One call of recursiveAdd on node n, and the call on the parent it makes.
SafeRecursiveAddCall(s) ==
  LET nd == s.tree.node[s.n]
      x  == SplitONode(s.tree, s.n, s.k, s.d, s.c)
  IN IF s.n = 0 THEN s
     ELSE IF HasSpace(nd)
     THEN [s EXCEPT !.tree = SimpleAdd(s.tree, s.n, s.k, s.d, s.c), !.n = 0]
     ELSE IF IsRoot(s.tree, s.n)
     THEN [s EXCEPT !.tree = Rooted(NewRoot(x.tree, s.n, x.key, x.data, x.right), s.n),
                    !.n = 0]
     ELSE [tree |-> x.tree, n |-> nd.parent, k |-> x.key, d |-> x.data, c |-> x.right]

\* The record is new in the session's value file.
NewOptr(k) == -(k + 1)

\* When the leaf is full, the node split off from it is the first that is written.
SafeAdded(S, k) ==
  LET n == Leaf(S, S.root, k)
      T == FirstWritten(S, IF HasSpace(S.node[n]) THEN n ELSE Len(S.node) + 1)
      call[i \in 0 .. Len(S.node)] ==
        IF i = 0 THEN [tree |-> T, n |-> n, k |-> k, d |-> NewOptr(k), c |-> 0]
        ELSE SafeRecursiveAddCall(call[i - 1])
  IN Copied(S, call[Len(S.node)].tree)

-----------------------------------------------------------------------------
(* remove: as in OBtree, but for data pointers and their flags, the test   *)
(* for the root, and which node is written first                           *)

Flag(d) == d < 0
Abs(d)  == IF d < 0 THEN -d ELSE d

\* moveDeleteDataOptr moves the pointers; their flags in the table stay.
FlagsStay(a, i) ==
  LET b == MoveDelete(a, i)
  IN [b EXCEPT !.at = [j \in DOMAIN @ |-> IF Flag(At(a, j)) THEN -Abs(At(b, j))
                                          ELSE Abs(At(b, j))]]

\* SafeOItemSet::moveInsertDataOptr, which merges give the item set P of the parent:
\* what moves up from i are the pointers of the parent.
InsertedOf(P, a, i, x) ==
  [a EXCEPT !.at = [j \in DOMAIN @ |-> IF j = i THEN x
                    ELSE IF i < j /\ j <= P.data.n THEN DataOptr(P, j - 1) ELSE @[j]]]

\* As Merged, with other data pointers.
SafeMerged(S, p, i, left, several) ==
  LET P == S.node[p]
      q == IF left THEN i - 1 ELSE i
      t == IF left THEN Child(P, i - 1) ELSE Child(P, i + 1)
      a == S.node[t].data
      x == DataOptr(P, q)
      data == IF several /\ left THEN Put(a, a.n, x)
              ELSE InsertedOf(P, a, IF left THEN a.n ELSE 0, x)
  IN [Merged(S, p, i, left, several) EXCEPT
       !.node[t].data = IF several /\ ~left THEN data ELSE Grown(data),
       !.node[p].data = IF several THEN P.data ELSE FlagsStay(P.data, q)]

\* The child of r that s gets is referred to by its copy, if it has one.
SafePushFromRight(S, p, s, r) ==
  LET R == S.node[r]
      U == PushFromRight(S, p, s, r).tree
  IN Same(Relinked([U EXCEPT !.node[r].data = FlagsStay(R.data, 0)], At(R.child, 0)))

\* The child of s that the brother t takes was written by the merge below; t's last
\* child is written.
SafeMergedInner(S, p, i, left) ==
  LET s == Child(S.node[p], i)
      c == At(S.node[s].child, 0)
      t == Child(S.node[p], IF left THEN i - 1 ELSE i + 1)
      M == SafeMerged(S, p, i, left, FALSE)
      U == [M EXCEPT !.node[t].child = Grown(MoveInsert(@, IF left THEN @.n ELSE 0, c)),
                     !.byCopy = @ \cup ({c} \cap DOMAIN tree.node)]
      last == At(U.node[t].child, U.node[t].child.n - 1)
      V == [SetParent(U, last, t) EXCEPT !.copied = @ \cup ({last} \cap DOMAIN tree.node)]
  IN IF V.node[p].key.n <= 0 THEN Promoted(V, p) ELSE Same(V)

SafeRecursiveMerge(S, p, s) ==
  LET P == S.node[p]
      i == PositionIn(P.child, s)
      l == Child(P, i - 1)
      r == Child(P, i + 1)
  IN IF P.key.n <= 0 THEN Promoted(S, p)
     ELSE IF i = -1 THEN Crashed(S)
     ELSE IF l # 0 /\ S.node[l].key.n >= 2 THEN PushFromLeft(S, p, s, l)
     ELSE IF r # 0 /\ S.node[r].key.n >= 2 THEN SafePushFromRight(S, p, s, r)
     ELSE IF l # 0 \/ r # 0 THEN SafeMergedInner(S, p, i, l # 0)
     ELSE Same(S)

\* With several keys p is the first node that is written, otherwise the brother is.
SafeMerge(S, p, i) ==
  LET P       == S.node[p]
      l       == Child(P, i - 1)
      r       == Child(P, i + 1)
      several == P.key.n >= 2
      T       == FirstWritten(S, IF several THEN p ELSE IF l # 0 THEN l ELSE r)
      M       == SafeMerged(T, p, i, l # 0, several)
  IN IF l = 0 /\ r = 0 THEN Same(S)
     ELSE IF several THEN Same(M)
     ELSE IF IsRoot(M, p) THEN Promoted(M, p)
     ELSE SafeRecursiveMerge(M, P.parent, p)

SafeBorrowed(S, p, i, q, b, e, f) ==
  [Borrowed(FirstWritten(S, Child(S.node[p], i)), p, i, q, b, e, f)
     EXCEPT !.node[b].data = FlagsStay(S.node[b].data, f)]

SafeUnderflow(S, p, n) ==
  LET P == S.node[p]
      i == PositionIn(P.child, n)
      l == Child(P, i - 1)
      r == Child(P, i + 1)
      L == S.node[l]
  IN IF i = -1 THEN Same(S)
     ELSE IF l # 0 /\ L.key.n >= 2
          THEN Same(SafeBorrowed(S, p, i, i - 1, l, L.key.n - 1, L.data.n - 1))
     ELSE IF r # 0 /\ S.node[r].key.n >= 2 THEN Same(SafeBorrowed(S, p, i, i, r, 0, 0))
     ELSE SafeMerge(S, p, i)

SafeLeafRemove(S, n, i) ==
  LET nd == S.node[n]
  IN IF nd.key.n > 1 \/ IsRoot(S, n)
     THEN Same([FirstWritten(S, n) EXCEPT !.node[n].key = MoveDelete(@, i),
                                          !.node[n].data = FlagsStay(@, i)])
     ELSE SafeUnderflow(S, nd.parent, n)

\* A new root without keys is replaced by its only child.
SecondCandidate(r) ==
  LET R == r.tree.node[r.root]
  IN IF r.root # 0 /\ R.key.n <= 0 /\ R.child.n = 1 /\ IsRoot(r.tree, r.root)
     THEN Promoted(r.tree, r.root) ELSE r

\* The inner node n is written before the leaf, whose parent it may be.
SafeInnerRemove(S, n, i) ==
  LET m == SubtreeMax(S, At(S.node[n].child, 0))
      M == S.node[m]
      k == At(M.key, M.key.n - 1)
      U == [FirstWritten(S, n) EXCEPT
              !.node[n].key = Put(@, i, k),
              !.node[n].data = Put(@, i, DataOptr(M, M.data.n - 1))]
  IN IF M.key.n = 0 THEN Crashed(S)
     ELSE SecondCandidate(SafeLeafRemove(U, m, PositionIn(M.key, k)))

SafeONodeRemove(S, n, k) ==
  LET i == PositionIn(S.node[n].key, k)
  IN IF i = -1 THEN Same(S)
     ELSE IF S.node[n].child.n >= 1 THEN SafeInnerRemove(S, n, i)
     ELSE SafeLeafRemove(S, n, i)

\* The node that is returned becomes the root, in memory only.
Returned(r) == IF r.root # 0 THEN [r.tree EXCEPT !.root = r.root] ELSE r.tree

SafeRemoved(S, k) ==
  Copied(S, Returned(SafeONodeRemove(S, Holder(S, S.root, k), k)))

-----------------------------------------------------------------------------
(* Commit                                                                  *)

\* The record lies in the session's value file.
InSafeFile(d) == d % 2 = 1

\* Mutant of DataMerged: the records stay where they are.
DataNotMerged(nd) == nd

\* mergeDataOptr: what the flag says to lie in the session's value file is copied to
\* the normal one.  With the wrong flag it is not the record of a key.
DataMerged(nd) ==
  [nd EXCEPT !.data.at = [j \in DOMAIN @ |->
     IF j < nd.data.n /\ Flag(@[j]) /\ InSafeFile(Abs(@[j])) THEN Abs(@[j]) - 1 ELSE @[j]]]

\* Mutant of Placed: the node keeps its parent.
PlacedKeepsParent(N, S, n, a, p) ==
  LET nd == DataMerged(S.node[n])
  IN [N EXCEPT !.node = IF a \in DOMAIN @ THEN [@ EXCEPT ![a] = nd] ELSE Append(@, nd)]

\* Node n of the session is copied to address a, with parent p.
Placed(N, S, n, a, p) ==
  LET nd == [DataMerged(S.node[n]) EXCEPT !.parent = p]
  IN [N EXCEPT !.node = IF a \in DOMAIN @ THEN [@ EXCEPT ![a] = nd] ELSE Append(@, nd)]

\* Address a is child i of p, or the root.
Linked(N, a, p, i) ==
  IF p = 0 THEN [N EXCEPT !.root = a, !.meta = a]
  ELSE [N EXCEPT !.node[p].child = Put(@, i, a)]

\* mergeSafeBtree: node n, child i of p, is copied over the node it is a copy of, or
\* to a new address of the normal file; then its children are.
RECURSIVE MergeSafeBtree(_, _, _, _, _)
MergeSafeBtree(N, S, n, p, i) ==
  LET a  == IF n \in DOMAIN tree.node \ S.byCopy THEN n ELSE Len(N.node) + 1
      c  == S.node[n].child
      C[j \in 0 .. c.n] ==
        IF j = 0 THEN Linked(Placed(N, S, n, a, p), a, p, i)
        ELSE MergeSafeBtree(C[j - 1], S, At(c, j - 1), a, j - 1)
  IN C[c.n]

-----------------------------------------------------------------------------
(* The index with sessions                                                 *)

\* add to the normal tree closes the session.
NormalAdd(k) ==
  /\ Add(k)
  /\ session' = NoSession
  /\ UNCHANGED opened

\* migrateToSafeMode
OpenSession ==
  /\ opened < MaxSessions                                         \* bound
  /\ session' = [node |-> tree.node, root |-> tree.root, meta |-> tree.meta, up |-> TRUE,
                 zero |-> 0, copied |-> {}, byCopy |-> {}]
  /\ opened' = opened + 1
  /\ UNCHANGED <<tree, removes>>

\* A session in which no null pointer was dereferenced and no array overrun.
SessionRunning == InSession /\ session.up /\ InBounds(session)

SessionAdd(k) ==
  /\ SessionRunning
  /\ SafeFind(session, k) = 0
  /\ session' = SafeAdded(session, k)
  /\ Len(session'.node) <= MaxNodes                               \* bound
  /\ UNCHANGED <<tree, removes, opened>>

SessionRemove(k) ==
  /\ SessionRunning
  /\ removes < MaxRemoves                                         \* bound
  /\ session' = SafeRemoved(session, k)
  /\ removes' = IF session' = session THEN removes ELSE removes + 1
  /\ UNCHANGED <<tree, opened>>

\* safeCommitExit
Commit ==
  /\ SessionRunning
  /\ tree' = MergeSafeBtree(tree, session, session.root, 0, 0)
  /\ Len(tree'.node) <= MaxNodes                                  \* bound
  /\ session' = NoSession
  /\ UNCHANGED <<removes, opened>>

\* safeAbortExit; without a session it changes nothing.
Abort ==
  /\ session' = NoSession
  /\ UNCHANGED <<tree, removes, opened>>

\* The flags from position i of node n on are equal.
EqualFlags(S, n, i) ==
  LET d == S.node[n].data
  IN \A j \in i .. d.n - 1 : Flag(At(d, j)) = Flag(At(d, i))

\* The removal of key i of leaf n ends in the leaf, with a key from a brother, or with
\* a left brother under a root with one key; it moves no pointer to a slot with
\* another flag.
PlainInLeaf(S, n, i) ==
  LET P == S.node[S.node[n].parent]
      j == PositionIn(P.child, n)
      l == Child(P, j - 1)
      r == Child(P, j + 1)
      CanGive(b) == b # 0 /\ S.node[b].key.n >= 2
  IN IF S.node[n].key.n > 1 \/ IsRoot(S, n) THEN EqualFlags(S, n, i)
     ELSE \/ CanGive(l)
          \/ ~CanGive(l) /\ CanGive(r) /\ EqualFlags(S, r, 0)
          \/ ~CanGive(r) /\ l # 0 /\ P.key.n = 1 /\ IsRoot(S, S.node[n].parent)

\* The removals in leaves that are plain, and those of the first key of an inner node
\* that are plain below, when address 0 is taken.
StaysPlain(S, k) ==
  LET n == Holder(S, S.root, k)
      i == PositionIn(S.node[n].key, k)
      m == SubtreeMax(S, Child(S.node[n], 0))
  IN i # -1 =>
       IF S.node[n].child.n = 0 THEN PlainInLeaf(S, n, i)
       ELSE i = 0 /\ S.zero # 0 /\ PlainInLeaf(S, m, S.node[m].key.n - 1)

SessionRemovePlain(k) == SessionRunning /\ StaysPlain(session, k) /\ SessionRemove(k)

SafeInit == Init /\ session = NoSession /\ opened = 0 /\ seen = NoSession

\* Everything but the removals in a session.
Others ==
  OpenSession \/ Commit \/ Abort \/ \E k \in Keys : NormalAdd(k) \/ SessionAdd(k)

SafeObserve ==
  /\ Observe
  /\ seen' = IF session' = NoSession THEN NoSession
             ELSE [k \in Keys |-> SafeFind(session', k)]

SafeNext       == (Others \/ \E k \in Removable : SessionRemovePlain(k)) /\ SafeObserve
SafeRemoveNext == (Others \/ \E k \in Removable : SessionRemove(k)) /\ SafeObserve

SafeSpec       == SafeInit /\ [][SafeNext]_safeVars
\* All removals.
SafeRemoveSpec == SafeInit /\ [][SafeRemoveNext]_safeVars

-----------------------------------------------------------------------------
(* Properties                                                              *)

\* Links lead to nodes and no array of the normal tree or of a session's copies is
\* written past its end.
SafeTypeOK ==
  \A T \in {tree} \cup (IF InSession THEN {session} ELSE {}) :
    LET Nodes == DOMAIN T.node IN
    /\ T.root \in Nodes /\ T.meta \in Nodes /\ InBounds(T)
    /\ \A n \in Nodes :
         /\ T.node[n].parent \in Nodes \cup {0}
         /\ \A i \in 0 .. T.node[n].child.n - 1 : At(T.node[n].child, i) \in Nodes

\* Through additions and the plain removals of a session, copies and nodes that were
\* never copied, reached through one table, form a search tree, and after a commit
\* they do in the normal file, where some copies went back to their old place and
\* others to a new one.  In particular the test for the root finds the root, although
\* one node of the session is at address 0.
SearchTrees == IsSearchTree(tree) /\ (InSession => IsSearchTree(session))

Safe == INSTANCE SafeMap WITH map <- found, work <- seen

\* With additions and the plain removals a session is a map of its own, that no one
\* sees before the commit; the commit makes it the index, with every record in the
\* normal value file.
SafeMapSpec == Safe!Spec

\* Whenever a data pointer is stored or moved its flag goes with it: what find gives
\* in a session is marked with the value file its record lies in.
FlagsFollow ==
  InSession => \A k \in Keys : seen[k] # 0 => (Flag(seen[k]) <=> InSafeFile(Abs(seen[k])))

=============================================================================
