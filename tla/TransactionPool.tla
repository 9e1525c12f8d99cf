---------------------------- MODULE TransactionPool ----------------------------
(***************************************************************************)
(* The pool of unconfirmed transactions (transaction_pool.cpp,             *)
(* txcb_table.cpp, txcb_bucket.cpp): a tree of tables that is searched by  *)
(* the half bytes of a transaction ID, with buckets at its leaves.  A      *)
(* bucket is a circular doubly linked list of control blocks (TxCB); when  *)
(* it has counted ScaleSize additions it is replaced by a table one layer  *)
(* further down, and its blocks are moved into the buckets of that table.  *)
(*                                                                         *)
(* A table or bucket is named by the half bytes that lead to it, a control *)
(* block by its transaction ID, the sequence of its half bytes.            *)
(***************************************************************************)
EXTENDS Naturals, FiniteSets, SequencesExt

CONSTANTS
  IDLength,    \* half bytes of a transaction ID
  TxIDs,       \* transaction IDs: sequences of half bytes
  Blocks,      \* the transactions of the blocks that add and remove are called with
  ScaleSize,   \* DEFAULT_SCALE_SIZE
  MaxCount,    \* bound: additions a bucket counts
  Null

ASSUME LengthAssumption == IDLength \in Nat \ {0}
ASSUME IDsAssumption ==
  IsFiniteSet(TxIDs) /\ TxIDs \subseteq [1 .. IDLength -> 0 .. 15] /\ Null \notin TxIDs
ASSUME BlocksAssumption == Blocks \subseteq Seq(TxIDs)
ASSUME ScaleAssumption == ScaleSize \in Nat \ {0, 1} /\ MaxCount \in Nat

VARIABLE pool   \* the tables, each bucket's _txcbHead and _txCount, each TxCB's links

vars == <<pool>>

Prefix(t, n) == SubSeq(t, 1, n)
Places == UNION {{Prefix(t, n) : n \in 1 .. IDLength} : t \in TxIDs}
Buckets(s) == {p \in Places : p \notin s.tables /\ Front(p) \in s.tables}

\* TransactionPool::TransactionPool: the root table with empty buckets.
Init ==
  pool = [ tables |-> {<< >>},
           head   |-> [p \in Places |-> Null],
           count  |-> [p \in Places |-> 0],
           next   |-> [t \in TxIDs |-> Null],
           prev   |-> [t \in TxIDs |-> Null] ]

----------------------------------------------------------------------------
(* Searching                                                               *)

\* The bucket TxCBTable::add, find and remove end in: on each layer the next
\* half byte of t selects the entry, as long as that entry is a table.
BucketOf(s, t) ==
  Prefix(t, CHOOSE n \in 1 .. IDLength :
              Prefix(t, n) \notin s.tables /\ \A j \in 0 .. n - 1 : Prefix(t, j) \in s.tables)

\* The blocks met from block h on along the links, and those until h comes up again.
Walk(link, h) ==
  LET w[i \in 0 .. Cardinality(TxIDs)] ==
        IF i = 0 THEN h ELSE IF w[i - 1] = Null THEN Null ELSE link[w[i - 1]]
  IN  w

Ring(link, h) ==
  LET N == Cardinality(TxIDs)
      w == Walk(link, h)
      K == {i \in 1 .. N : w[i] \in {h, Null}}
      k == IF K = {} THEN N ELSE CHOOSE i \in K : \A j \in K : i <= j
  IN  IF h = Null THEN << >> ELSE [i \in 1 .. k |-> w[i - 1]]

\* TxCBBucket::find walks backwards.
Found(s, t) == t \in Range(Ring(s.prev, s.head[BucketOf(s, t)]))

----------------------------------------------------------------------------
(* Adding                                                                  *)

\* Mutants of Link: the head's addition is not counted; the new head keeps the
\* links it had.
LinkUncounted(s, p, t) ==
  LET h == s.head[p] IN
  IF h = Null THEN [s EXCEPT !.head[p] = t, !.next[t] = t, !.prev[t] = t]
  ELSE [s EXCEPT !.count[p] = @ + 1,
                 !.next[s.prev[h]] = t, !.next[t] = h, !.prev[t] = s.prev[h], !.prev[h] = t]

LinkKeepsLinks(s, p, t) ==
  LET h == s.head[p] IN
  IF h = Null THEN [s EXCEPT !.head[p] = t, !.count[p] = @ + 1]
  ELSE [s EXCEPT !.count[p] = @ + 1,
                 !.next[s.prev[h]] = t, !.next[t] = h, !.prev[t] = s.prev[h], !.prev[h] = t]

\* TxCBBucket::add: t becomes the head, or the last block before the head.
Link(s, p, t) ==
  LET h    == s.head[p]
      tail == s.prev[h]
      n    == s.next[tail]
  IN  IF h = Null
      THEN [s EXCEPT !.head = [s.head EXCEPT ![p] = t],
                     !.count = [s.count EXCEPT ![p] = s.count[p] + 1],
                     !.next = [s.next EXCEPT ![t] = t],
                     !.prev = [s.prev EXCEPT ![t] = t]]
      ELSE [s EXCEPT !.count = [s.count EXCEPT ![p] = s.count[p] + 1],
                     !.next = [s.next EXCEPT ![t] = n, ![tail] = t],
                     !.prev = [s.prev EXCEPT ![t] = tail, ![n] = t]]

\* The bucket p has become a table.
Split(s, p) ==
  [s EXCEPT !.tables = s.tables \cup {p},
            !.head = [s.head EXCEPT ![p] = Null],
            !.count = [s.count EXCEPT ![p] = 0]]

\* Mutant of AutoScaleUp: the successor is read after the block was moved, when
\* its links are those of its new bucket.
AutoScaleUpLate(s, p, todo) == [pool |-> Split(s, p), todo |-> <<s.head[p]>> \o todo]

\* autoScaleUp: the blocks of p, in the order of the list, are added to a new
\* table before anything else is.
AutoScaleUp(s, p, todo) == [pool |-> Split(s, p), todo |-> Ring(s.next, s.head[p]) \o todo]

\* Mutant of Scales: it waits for one block more.
ScalesLate(s, p) == s.count[p] > ScaleSize
Scales(s, p) == s.count[p] >= ScaleSize

\* TxCBBucket::add of the first of the blocks that are still to be added.
Move(x) ==
  LET t == Head(x.todo)
      p == BucketOf(x.pool, t)
      l == Link(x.pool, p, t)
  IN  IF x.todo = << >> THEN x
      ELSE IF Found(x.pool, t) THEN [pool |-> x.pool, todo |-> Tail(x.todo)]
      ELSE IF x.pool.head[p] # Null /\ Scales(l, p) THEN AutoScaleUp(l, p, Tail(x.todo))
      ELSE [pool |-> l, todo |-> Tail(x.todo)]

\* A block moves at most once on every layer.
Moves == Cardinality(TxIDs \X (1 .. IDLength))

\* TxCBTable::add with all the calls of TxCBBucket::add and autoScaleUp it leads to.
Moving(s, t) ==
  LET x[n \in 0 .. Moves] ==
        IF n = 0 THEN [pool |-> s, todo |-> <<t>>] ELSE Move(x[n - 1])
  IN  x
Added(s, t) == Moving(s, t)[Moves].pool

----------------------------------------------------------------------------
(* Removing                                                                *)

RemoveOneLink(s, t) ==                                  \* mutant of Removed
  LET p == BucketOf(s, t) IN
  IF ~Found(s, t) THEN s
  ELSE IF t = s.head[p] THEN [s EXCEPT !.head[p] = Null]
  ELSE [s EXCEPT !.next[s.prev[t]] = s.next[t]]

\* TxCBBucket::remove.  A removed head takes its whole bucket with it, and
\* _txCount keeps counting.
Removed(s, t) ==
  LET p == BucketOf(s, t) IN
  IF ~Found(s, t) THEN s
  ELSE IF t = s.head[p] \/ s.next[t] = t \/ s.prev[t] = t
  THEN [s EXCEPT !.head = [s.head EXCEPT ![p] = Null]]
  ELSE [s EXCEPT !.next = [s.next EXCEPT ![s.prev[t]] = s.next[t]],
                 !.prev = [s.prev EXCEPT ![s.next[t]] = s.prev[t]]]

----------------------------------------------------------------------------
\* add and remove of a block: its transactions, one after the other.
Adding(s, b) ==
  LET a[i \in 0 .. Len(b)] == IF i = 0 THEN s ELSE Added(a[i - 1], b[i]) IN a

Removing(s, b) ==
  LET r[i \in 0 .. Len(b)] == IF i = 0 THEN s ELSE Removed(r[i - 1], b[i]) IN r

Bounded(s) == \A p \in Places : s.count[p] <= MaxCount

AddTx(t)       == pool' = Added(pool, t) /\ Bounded(pool')
RemoveTx(t)    == pool' = Removed(pool, t)
AddBlock(b)    == pool' = Adding(pool, b)[Len(b)] /\ Bounded(pool')
RemoveBlock(b) == pool' = Removing(pool, b)[Len(b)]

Next ==
  \/ \E t \in TxIDs : AddTx(t) \/ RemoveTx(t)
  \/ \E b \in Blocks : AddBlock(b) \/ RemoveBlock(b)

Spec == Init /\ [][Next]_vars

----------------------------------------------------------------------------
(* Properties                                                              *)

Listed(s, p) == Range(Ring(s.prev, s.head[p]))
Stored(s) == UNION {Listed(s, p) : p \in Buckets(s)}

\* The tree of tables has no gaps, and a bucket has counted at least the blocks
\* it holds.
TypeOK ==
  /\ pool.tables \subseteq Places \cup {<< >>}
  /\ \A p \in pool.tables : p = << >> \/ Front(p) \in pool.tables
  /\ pool.head \in [Places -> TxIDs \cup {Null}]
  /\ pool.count \in [Places -> 0 .. MaxCount]
  /\ pool.next \in [TxIDs -> TxIDs \cup {Null}]
  /\ pool.prev \in [TxIDs -> TxIDs \cup {Null}]
  /\ \A p \in Places : Len(Ring(pool.next, pool.head[p])) <= pool.count[p]

\* The walks of find, autoScaleUp and printBucket come back to the head: in every
\* bucket the two directions are inverse to each other and meet the same blocks.
ListsClose ==
  \A p \in Buckets(pool) : \A t \in Listed(pool, p) :
    /\ pool.next[pool.prev[t]] = t /\ pool.prev[pool.next[t]] = t
    /\ t \in Range(Ring(pool.next, pool.head[p]))

\* However often buckets were scaled and blocks removed, a block lies in the
\* bucket a search for its ID ends in, and in no other.
Searchable ==
  \A p \in Buckets(pool) : \A t \in Listed(pool, p) : BucketOf(pool, t) = p

\* Although _txCount is never decremented, a bucket never holds ScaleSize blocks:
\* a search looks at fewer.
BucketsStaySmall ==
  \A p \in Buckets(pool) : Len(Ring(pool.next, pool.head[p])) < ScaleSize

\* An addition loses nothing, also when it splits buckets over several layers.
AddKeepsOthers ==
  [][\A t \in TxIDs : AddTx(t) => Stored(pool') = Stored(pool) \cup {t}]_vars

\* A removal takes its transaction out of the pool for good, whatever links earlier
\* additions, splits and removals left, and loses no other, unless the transaction
\* is the head of its bucket: then the blocks of that bucket go with it, no others.
RemoveIsLocal ==
  [][\A t \in TxIDs : RemoveTx(t) =>
       LET p == BucketOf(pool, t) IN
       Stored(pool') = Stored(pool) \ (IF t = pool.head[p] THEN Listed(pool, p) ELSE {t})]_vars

----------------------------------------------------------------------------
(* The inductive invariant                                                 *)

PoolType ==
  [ tables : SUBSET (Places \cup {<< >>}),
    head   : [Places -> TxIDs \cup {Null}],
    count  : [Places -> Nat],
    next   : [TxIDs -> TxIDs \cup {Null}],
    prev   : [TxIDs -> TxIDs \cup {Null}] ]

Follows(i, n) == IF i = n THEN 1 ELSE i + 1

\* q is the list that starts at block h: no block comes twice, and the links lead
\* along it and back to h in both directions.
IsList(next, prev, h, q) ==
  \/ h = Null /\ q = << >>
  \/ /\ q \in Seq(TxIDs) /\ q # << >> /\ h = q[1]
     /\ \A i, j \in 1 .. Len(q) : q[i] = q[j] => i = j
     /\ \A i \in 1 .. Len(q) : /\ next[q[i]] = q[Follows(i, Len(q))]
                              /\ prev[q[Follows(i, Len(q))]] = q[i]

\* The tables are a tree whose leaves the search reaches: the last half byte of an
\* ID selects a bucket.
Tree(s) ==
  /\ << >> \in s.tables
  /\ \A p \in s.tables : /\ Len(p) < IDLength
                         /\ p = << >> \/ Front(p) \in s.tables

\* What the pool consists of: a list in every bucket, of blocks that a search
\* looks for in that bucket, shorter than ScaleSize and than its count says.
Sound(s) ==
  /\ s \in PoolType
  /\ Tree(s)
  /\ \A p \in Places :
       LET q == Ring(s.next, s.head[p]) IN
       /\ IsList(s.next, s.prev, s.head[p], q)
       /\ \A i \in 1 .. Len(q) : BucketOf(s, q[i]) = p
       /\ Len(q) <= s.count[p]
       /\ Len(q) < ScaleSize

\* The inductive invariant.
IInv == Sound(pool) /\ Bounded(pool)

=============================================================================
