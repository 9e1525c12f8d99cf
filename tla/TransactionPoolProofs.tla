------------------------- MODULE TransactionPoolProofs -------------------------
(***************************************************************************)
(* Proofs about TransactionPool, for every length of the IDs, every finite *)
(* set of transactions, every scale size and every block.  The first part  *)
(* says what the searches and the walks along the lists come to, the       *)
(* second what each operation does to the lists of the buckets, the third  *)
(* that an addition finishes, and the last part that every step keeps the  *)
(* inductive invariant.                                                    *)
(***************************************************************************)
EXTENDS TransactionPool, FiniteSetTheorems, SequenceTheorems, WellFoundedInduction, TLAPS

-----------------------------------------------------------------------------
(* Induction                                                               *)

\* A non-empty set of numbers has a least element.
LEMMA Least ==
  ASSUME NEW S, S \subseteq Nat, S # {}
  PROVE  \E k \in S : \A j \in S : k <= j
<1> DEFINE R == OpToRel(<, Nat)
<1>1. PICK k \in S : \A j \in S : ~(<<j, k>> \in R)
  <2> HIDE DEF R
  <2>1. IsWellFoundedOn(R, Nat)
    BY NatLessThanWellFounded DEF R
  <2> QED BY <2>1, WFMin
<1>2. ASSUME NEW j \in S PROVE k <= j
  <2>1. ~(<<j, k>> \in R)
    BY <1>1
  <2>2. j \in Nat /\ k \in Nat
    OBVIOUS
  <2>3. <<j, k>> \in R <=> j < k
    BY <2>2 DEF OpToRel
  <2> HIDE DEF R
  <2> QED BY <2>1, <2>2, <2>3
<1> QED BY <1>2

\* Induction over the numbers, with the claim given as the set it holds for.
LEMMA Induction ==
  ASSUME NEW S, 0 \in S, \A n \in Nat : n \in S => n + 1 \in S
  PROVE  Nat \subseteq S
<1> SUFFICES ASSUME Nat \ S # {} PROVE FALSE
  OBVIOUS
<1>1. PICK k \in Nat \ S : \A j \in Nat \ S : k <= j
  <2>1. Nat \ S \subseteq Nat
    OBVIOUS
  <2> QED BY <2>1, Least
<1>2. k # 0 /\ k \in Nat
  OBVIOUS
<1>3. k - 1 \in Nat /\ ~(k <= k - 1) /\ (k - 1) + 1 = k
  BY <1>2
<1>4. k - 1 \in S
  BY <1>1, <1>3
<1> QED BY <1>3, <1>4

\* f is what the steps G lead to from d.
Iterates(f, N, d, G) == f[0] = d /\ \A n \in 1 .. N : f[n] = G[<<n, f[n - 1]>>]

\* A step that stays in D can be iterated from every element of D.
LEMMA Iterated ==
  ASSUME NEW D, NEW N \in Nat, NEW d \in D, NEW G \in [(1 .. N) \X D -> D]
  PROVE  \E f \in [0 .. N -> D] : Iterates(f, N, d, G)
<1> DEFINE Step(f) == [n \in 0 .. N |-> IF n = 0 THEN d ELSE G[<<n, f[n - 1]>>]]
           Fs == [0 .. N -> D]
           S == {k \in Nat : \E f \in Fs : \A n \in 0 .. N : n <= k => f[n] = Step(f)[n]}
<1>1. ASSUME NEW f \in Fs PROVE Step(f) \in Fs
  <2>1. ASSUME NEW n \in 0 .. N, n # 0 PROVE G[<<n, f[n - 1]>>] \in D
    <3>1. n - 1 \in 0 .. N /\ n \in 1 .. N
      BY <2>1
    <3>2. <<n, f[n - 1]>> \in (1 .. N) \X D
      BY <3>1
    <3> QED BY <3>2
  <2> QED BY <2>1
<1>2. 0 \in S
  <2> DEFINE f == [n \in 0 .. N |-> d]
  <2>1. f \in Fs
    OBVIOUS
  <2>2. \A n \in 0 .. N : n <= 0 => f[n] = Step(f)[n]
    OBVIOUS
  <2> QED BY <2>1, <2>2
<1>3. ASSUME NEW k \in Nat, k \in S PROVE k + 1 \in S
  <2>1. PICK f \in Fs : \A n \in 0 .. N : n <= k => f[n] = Step(f)[n]
    BY <1>3
  <2> DEFINE g == Step(f)
  <2>2. g \in Fs
    BY <1>1
  <2>3. ASSUME NEW n \in 0 .. N, n <= k + 1 PROVE g[n] = Step(g)[n]
    <3>1. CASE n = 0
      BY <3>1
    <3>2. CASE n # 0
      <4>1. n - 1 \in 0 .. N /\ n - 1 <= k
        BY <2>3, <3>2
      <4>2. f[n - 1] = g[n - 1]
        BY <2>1, <4>1
      <4>3. g[n] = G[<<n, f[n - 1]>>]
        BY <3>2
      <4>4. Step(g)[n] = G[<<n, g[n - 1]>>]
        BY <3>2
      <4> HIDE DEF g, Step
      <4> QED BY <4>2, <4>3, <4>4
    <3> QED BY <3>1, <3>2
  <2>4. k + 1 \in Nat
    OBVIOUS
  <2> HIDE DEF g, Step
  <2> QED BY <2>2, <2>3, <2>4
<1>4. N \in S
  <2> HIDE DEF S
  <2>1. Nat \subseteq S
    BY <1>2, <1>3, Induction
  <2> QED BY <2>1
<1>5. PICK f \in Fs : \A n \in 0 .. N : f[n] = Step(f)[n]
  BY <1>4
<1>6. f[0] = d
  <2>1. 0 \in 0 .. N
    OBVIOUS
  <2>2. f[0] = Step(f)[0]
    BY <1>5, <2>1
  <2> QED BY <2>1, <2>2
<1>7. ASSUME NEW n \in 1 .. N PROVE f[n] = G[<<n, f[n - 1]>>]
  <2>1. n \in 0 .. N /\ n # 0
    OBVIOUS
  <2>2. f[n] = Step(f)[n]
    BY <1>5, <2>1
  <2> QED BY <2>1, <2>2
<1>8. Iterates(f, N, d, G)
  BY <1>6, <1>7 DEF Iterates
<1> QED BY <1>8

-----------------------------------------------------------------------------
(* Searching                                                               *)

\* The first half bytes of an ID.
LEMMA PrefixFacts ==
  ASSUME NEW t \in TxIDs, NEW n \in 0 .. IDLength
  PROVE  /\ Prefix(t, n) \in Seq(0 .. 15)
         /\ Len(Prefix(t, n)) = n
         /\ \A i \in 1 .. n : Prefix(t, n)[i] = t[i]
         /\ n # 0 => Prefix(t, n) \in Places
         /\ Prefix(t, n) \in Places \cup {<< >>}
<1>0. IDLength \in Nat /\ t \in [1 .. IDLength -> 0 .. 15]
  BY LengthAssumption, IDsAssumption
<1>1. \A i \in 1 .. n : t[i] \in 0 .. 15
  BY <1>0
<1>2. /\ Prefix(t, n) \in Seq(0 .. 15)
      /\ Len(Prefix(t, n)) = IF 1 <= n THEN n - 1 + 1 ELSE 0
      /\ \A i \in 1 .. n - 1 + 1 : Prefix(t, n)[i] = t[1 + i - 1]
  <2>1. 1 \in Int /\ n \in Int
    BY <1>0
  <2> QED BY <1>1, <2>1, SubSeqProperties DEF Prefix
<1>3. n # 0 => Prefix(t, n) \in Places
  BY <1>0 DEF Places
<1>4. n = 0 => Prefix(t, n) = << >>
  BY SubSeqEmpty DEF Prefix
<1>5. \A i \in 1 .. n : i \in 1 .. n - 1 + 1 /\ 1 + i - 1 = i
  BY <1>0
<1>6. Len(Prefix(t, n)) = n /\ \A i \in 1 .. n : Prefix(t, n)[i] = t[i]
  BY <1>0, <1>2, <1>5
<1> QED BY <1>2, <1>3, <1>4, <1>6

\* The whole ID, the empty prefix, and a prefix without its last half byte.
LEMMA PrefixLast ==
  ASSUME NEW t \in TxIDs
  PROVE  /\ Prefix(t, IDLength) = t
         /\ Prefix(t, 0) = << >>
         /\ \A n \in 1 .. IDLength : Front(Prefix(t, n)) = Prefix(t, n - 1)
<1>0. IDLength \in Nat /\ t \in [1 .. IDLength -> 0 .. 15]
  BY LengthAssumption, IDsAssumption
<1>1. t \in Seq(0 .. 15) /\ Len(t) = IDLength
  BY <1>0
<1>2. Prefix(t, IDLength) = t
  BY <1>1, SubSeqFull DEF Prefix
<1>3. Prefix(t, 0) = << >>
  BY SubSeqEmpty DEF Prefix
<1>4. ASSUME NEW n \in 1 .. IDLength PROVE Front(Prefix(t, n)) = Prefix(t, n - 1)
  <2> DEFINE p == Prefix(t, n)
             u == Prefix(t, n - 1)
  <2>0. n \in 0 .. IDLength /\ n - 1 \in 0 .. IDLength /\ n \in Int /\ n - 1 \in Int
    BY <1>0
  <2>1. p \in Seq(0 .. 15) /\ Len(p) = n /\ \A i \in 1 .. n : p[i] = t[i]
    BY <2>0, PrefixFacts
  <2>2. u \in Seq(0 .. 15) /\ Len(u) = n - 1 /\ \A i \in 1 .. n - 1 : u[i] = t[i]
    BY <2>0, PrefixFacts
  <2> HIDE DEF p, u
  <2>3. \A i \in 1 .. n - 1 : p[i] \in 0 .. 15
    BY <2>0, <2>1
  <2>4. /\ SubSeq(p, 1, n - 1) \in Seq(0 .. 15)
        /\ Len(SubSeq(p, 1, n - 1)) = IF 1 <= n - 1 THEN n - 1 - 1 + 1 ELSE 0
        /\ \A i \in 1 .. n - 1 - 1 + 1 : SubSeq(p, 1, n - 1)[i] = p[1 + i - 1]
    <3>1. 1 \in Int /\ n - 1 \in Int
      BY <2>0
    <3> QED BY <2>3, <3>1, SubSeqProperties
  <2>5. Len(SubSeq(p, 1, n - 1)) = Len(u)
    BY <2>0, <2>2, <2>4
  <2>6. ASSUME NEW i \in 1 .. Len(SubSeq(p, 1, n - 1)) PROVE SubSeq(p, 1, n - 1)[i] = u[i]
    <3>1. i \in 1 .. n - 1 /\ i \in 1 .. n - 1 - 1 + 1 /\ 1 + i - 1 = i /\ i \in 1 .. n
      BY <2>0, <2>2, <2>5, <2>6
    <3> QED BY <2>1, <2>2, <2>4, <3>1
  <2>7. SubSeq(p, 1, n - 1) = u
    BY <2>2, <2>4, <2>5, <2>6, SeqEqual
  <2>8. Front(p) = SubSeq(p, 1, n - 1)
    BY <2>1 DEF Front
  <2> QED BY <2>7, <2>8 DEF p, u
<1> QED BY <1>2, <1>3, <1>4

\* n is the layer at which a search for t leaves the tables.
Ends(s, t, n) ==
  Prefix(t, n) \notin s.tables /\ \A j \in 0 .. n - 1 : Prefix(t, j) \in s.tables

\* A search for an ID ends in a bucket.
LEMMA BucketFacts ==
  ASSUME NEW s, Tree(s), NEW t \in TxIDs
  PROVE  \E n \in 1 .. IDLength : BucketOf(s, t) = Prefix(t, n) /\ Ends(s, t, n)
<1>0. IDLength \in Nat
  BY LengthAssumption
<1> DEFINE S == {n \in 0 .. IDLength : Prefix(t, n) \notin s.tables}
<1>1. IDLength \in S
  <2>1. Prefix(t, IDLength) = t /\ Len(t) = IDLength
    BY <1>0, PrefixFacts, PrefixLast
  <2>2. t \notin s.tables
    BY <1>0, <2>1 DEF Tree
  <2> QED BY <1>0, <2>1, <2>2
<1>2. PICK k \in S : \A j \in S : k <= j
  <2>1. S \subseteq Nat /\ S # {}
    BY <1>0, <1>1
  <2> HIDE DEF S
  <2> QED BY <2>1, Least
<1>3. k # 0
  BY PrefixLast DEF Tree
<1>4. k \in 1 .. IDLength
  BY <1>0, <1>3
<1>5. Ends(s, t, k)
  <2>1. ASSUME NEW j \in 0 .. k - 1 PROVE Prefix(t, j) \in s.tables
    <3>1. j \in 0 .. IDLength /\ ~(k <= j)
      BY <1>0, <1>4
    <3> QED BY <1>2, <3>1
  <2> QED BY <2>1 DEF Ends
<1>6. BucketOf(s, t) = Prefix(t, CHOOSE n \in 1 .. IDLength : Ends(s, t, n))
  BY DEF BucketOf, Ends
<1> QED BY <1>4, <1>5, <1>6

\* The layer at which a search ends is unique.
LEMMA BucketIs ==
  ASSUME NEW s, NEW t \in TxIDs, NEW n \in 1 .. IDLength, Ends(s, t, n)
  PROVE  BucketOf(s, t) = Prefix(t, n)
<1> DEFINE k == CHOOSE m \in 1 .. IDLength : Ends(s, t, m)
<1>1. BucketOf(s, t) = Prefix(t, k)
  BY DEF BucketOf, Ends
<1>2. k \in 1 .. IDLength /\ Ends(s, t, k)
  OBVIOUS
<1> HIDE DEF k
<1>3. ~(k < n) /\ ~(n < k)
  BY <1>2, LengthAssumption DEF Ends
<1>4. k = n
  BY <1>2, <1>3, LengthAssumption
<1> QED BY <1>1, <1>4

\* After a bucket became a table, a search for another ID ends where it ended, and
\* a search that ended in that bucket ends further down.
LEMMA BucketSplit ==
  ASSUME NEW s, Tree(s), NEW r, NEW p, r.tables = s.tables \cup {p}, NEW t \in TxIDs
  PROVE  /\ BucketOf(s, t) # p => BucketOf(r, t) = BucketOf(s, t)
         /\ BucketOf(s, t) = p /\ Tree(r) => Len(BucketOf(r, t)) > Len(p)
<1>1. PICK n \in 1 .. IDLength : BucketOf(s, t) = Prefix(t, n) /\ Ends(s, t, n)
  BY BucketFacts
<1>2. ASSUME BucketOf(s, t) # p PROVE BucketOf(r, t) = BucketOf(s, t)
  <2>1. Ends(r, t, n)
    BY <1>1, <1>2 DEF Ends
  <2> QED BY <1>1, <2>1, BucketIs
<1>3. ASSUME BucketOf(s, t) = p, Tree(r) PROVE Len(BucketOf(r, t)) > Len(p)
  <2>1. PICK m \in 1 .. IDLength : BucketOf(r, t) = Prefix(t, m) /\ Ends(r, t, m)
    BY <1>3, BucketFacts
  <2>2. m # n
    BY <1>1, <1>3, <2>1 DEF Ends
  <2>3. ~(m < n)
    <3>1. SUFFICES ASSUME m < n PROVE FALSE
      OBVIOUS
    <3>2. m \in 0 .. n - 1
      BY <3>1, LengthAssumption
    <3> QED BY <1>1, <2>1, <3>2 DEF Ends
  <2>4. m \in 0 .. IDLength /\ n \in 0 .. IDLength
    BY LengthAssumption
  <2>5. Len(BucketOf(r, t)) = m /\ Len(p) = n
    BY <1>1, <1>3, <2>1, <2>4, PrefixFacts
  <2> QED BY <2>2, <2>3, <2>5, LengthAssumption
<1> QED BY <1>2, <1>3

\* What the bucket of an ID is.
LEMMA BucketType ==
  ASSUME NEW s, Tree(s), NEW t \in TxIDs
  PROVE  /\ BucketOf(s, t) \in Places
         /\ BucketOf(s, t) \in Buckets(s)
         /\ BucketOf(s, t) \notin s.tables
         /\ Len(BucketOf(s, t)) \in 1 .. IDLength
         /\ Len(BucketOf(s, t)) = IDLength => BucketOf(s, t) = t
         /\ BucketOf(s, t) # << >>
         /\ Front(BucketOf(s, t)) \in s.tables
<1>0. IDLength \in Nat
  BY LengthAssumption
<1>1. PICK n \in 1 .. IDLength : BucketOf(s, t) = Prefix(t, n) /\ Ends(s, t, n)
  BY BucketFacts
<1>2. n \in 0 .. IDLength /\ n # 0 /\ n - 1 \in 0 .. n - 1 /\ n \in Nat
  BY <1>0
<1>3. Prefix(t, n) \in Places /\ Len(Prefix(t, n)) = n
  BY <1>2, PrefixFacts
<1>4. Front(Prefix(t, n)) = Prefix(t, n - 1) /\ Prefix(t, IDLength) = t
  BY PrefixLast
<1>5. Prefix(t, n - 1) \in s.tables /\ Prefix(t, n) \notin s.tables
  BY <1>1, <1>2 DEF Ends
<1>6. Prefix(t, n) # << >>
  BY <1>2, <1>3, EmptySeq
<1> QED BY <1>1, <1>3, <1>4, <1>5, <1>6 DEF Buckets

-----------------------------------------------------------------------------
(* Walking along the lists                                                 *)

BlockOrNull == TxIDs \cup {Null}
Links == [TxIDs -> BlockOrNull]

LEMMA TxIDsFinite == Cardinality(TxIDs) \in Nat
BY IDsAssumption, FS_CardinalityType

\* Walk is well defined.
LEMMA WalkDef ==
  ASSUME NEW link \in Links, NEW h \in BlockOrNull
  PROVE  /\ Walk(link, h) \in [0 .. Cardinality(TxIDs) -> BlockOrNull]
         /\ Walk(link, h)[0] = h
         /\ \A i \in 1 .. Cardinality(TxIDs) :
              Walk(link, h)[i - 1] # Null => Walk(link, h)[i] = link[Walk(link, h)[i - 1]]
<1> DEFINE N == Cardinality(TxIDs)
           Step(f) == [i \in 0 .. N |->
                         IF i = 0 THEN h ELSE IF f[i - 1] = Null THEN Null ELSE link[f[i - 1]]]
           G == [z \in (1 .. N) \X BlockOrNull |-> IF z[2] = Null THEN Null ELSE link[z[2]]]
<1>0. N \in Nat
  BY TxIDsFinite
<1>1. G \in [(1 .. N) \X BlockOrNull -> BlockOrNull]
  BY DEF BlockOrNull, Links
<1>2. PICK f \in [0 .. N -> BlockOrNull] : Iterates(f, N, h, G)
  <2> HIDE DEF G, N
  <2> QED BY <1>0, <1>1, Iterated
<1>3. ASSUME NEW n \in 0 .. N, n # 0
      PROVE  G[<<n, f[n - 1]>>] = IF f[n - 1] = Null THEN Null ELSE link[f[n - 1]]
  <2>1. n - 1 \in 0 .. N /\ n \in 1 .. N
    BY <1>0, <1>3
  <2>2. <<n, f[n - 1]>> \in (1 .. N) \X BlockOrNull
    BY <2>1
  <2> QED BY <2>2
<1>4. f = Step(f)
  <2> HIDE DEF G
  <2>1. ASSUME NEW n \in 0 .. N PROVE f[n] = Step(f)[n]
    <3>1. CASE n = 0
      BY <1>2, <3>1 DEF Iterates
    <3>2. CASE n # 0
      <4>1. n \in 1 .. N
        BY <1>0, <3>2
      <4>2. f[n] = G[<<n, f[n - 1]>>]
        BY <1>2, <4>1 DEF Iterates
      <4> QED BY <1>3, <3>2, <4>2
    <3> QED BY <3>1, <3>2
  <2> QED BY <2>1
<1>5. \E F : F = Step(F)
  BY <1>4
<1>6. Walk(link, h) = Step(Walk(link, h))
  BY <1>5, Zenon DEF Walk
<1> HIDE DEF G
<1> DEFINE w == Walk(link, h)
<1>7. w = Step(w)
  BY <1>6
<1> HIDE DEF w
<1>8. w[0] = h
  BY <1>0, <1>7
<1>9. ASSUME NEW i \in 1 .. N
      PROVE  w[i] = IF w[i - 1] = Null THEN Null ELSE link[w[i - 1]]
  <2>1. i \in 0 .. N /\ i # 0
    BY <1>0
  <2> QED BY <1>7, <2>1
<1>10. w \in [0 .. N -> BlockOrNull]
  <2> DEFINE S == {k \in Nat : k <= N => w[k] \in BlockOrNull}
  <2>1. 0 \in S
    BY <1>8
  <2>2. ASSUME NEW k \in Nat, k \in S PROVE k + 1 \in S
    <3>1. SUFFICES ASSUME k + 1 <= N PROVE w[k + 1] \in BlockOrNull
      OBVIOUS
    <3>2. k + 1 \in 1 .. N /\ k <= N /\ (k + 1) - 1 = k
      BY <1>0, <3>1
    <3>3. w[k] \in BlockOrNull
      BY <2>2, <3>2
    <3>4. w[k + 1] = IF w[k] = Null THEN Null ELSE link[w[k]]
      BY <1>9, <3>2
    <3> QED BY <3>3, <3>4 DEF BlockOrNull, Links
  <2>3. Nat \subseteq S
    <3> HIDE DEF S
    <3> QED BY <2>1, <2>2, Induction
  <2>4. \A k \in 0 .. N : w[k] \in BlockOrNull
    BY <1>0, <2>3
  <2> QED BY <1>7, <2>4
<1> QED BY <1>8, <1>9, <1>10 DEF w

\* q lists the blocks met from h on along the links.
Along(link, h, q) ==
  /\ q \in Seq(TxIDs) /\ q # << >> /\ h = q[1]
  /\ \A i, j \in 1 .. Len(q) : q[i] = q[j] => i = j
  /\ \A i \in 1 .. Len(q) : link[q[i]] = q[Follows(i, Len(q))]

\* A sequence without duplicates is not longer than there are transactions.
LEMMA ShortList ==
  ASSUME NEW q \in Seq(TxIDs), \A i, j \in 1 .. Len(q) : q[i] = q[j] => i = j
  PROVE  Len(q) <= Cardinality(TxIDs)
<1>1. Len(q) \in Nat /\ q \in [1 .. Len(q) -> TxIDs]
  BY LenProperties
<1>2. IsFiniteSet(1 .. Len(q)) /\ Cardinality(1 .. Len(q)) = Len(q)
  BY <1>1, FS_Interval
<1>3. SUFFICES ASSUME Cardinality(TxIDs) < Len(q) PROVE FALSE
  BY <1>1, TxIDsFinite
<1>4. \E x, y \in 1 .. Len(q) : x # y /\ q[x] = q[y]
  BY <1>1, <1>2, <1>3, IDsAssumption, FS_PigeonHole
<1> QED BY <1>4

\* Ring finds the list.
LEMMA RingIs ==
  ASSUME NEW link \in Links, NEW h, NEW q, Along(link, h, q)
  PROVE  Ring(link, h) = q
<1> DEFINE N == Cardinality(TxIDs)
           w == Walk(link, h)
           n == Len(q)
           K == {i \in 1 .. N : w[i] \in {h, Null}}
           k == IF K = {} THEN N ELSE CHOOSE i \in K : \A j \in K : i <= j
<1>0. N \in Nat
  BY TxIDsFinite
<1>1. n \in Nat /\ n # 0 /\ q \in [1 .. n -> TxIDs] /\ n <= N
  <2>1. q \in Seq(TxIDs) /\ q # << >>
    BY DEF Along
  <2>2. n \in Nat /\ n # 0 /\ q \in [1 .. n -> TxIDs]
    BY <2>1, LenProperties, EmptySeq
  <2>3. n <= N
    BY <2>1, ShortList DEF Along
  <2> QED BY <2>2, <2>3
<1>2. h = q[1] /\ h \in TxIDs /\ h # Null
  <2>1. h = q[1] /\ 1 \in 1 .. n
    BY <1>1 DEF Along
  <2> QED BY <1>1, <2>1, IDsAssumption
<1>3. /\ w[0] = h
      /\ \A i \in 1 .. N : w[i - 1] # Null => w[i] = link[w[i - 1]]
  <2>1. h \in BlockOrNull
    BY <1>2 DEF BlockOrNull
  <2> QED BY <2>1, WalkDef
<1> HIDE DEF N, w, n, K, k
<1>4. ASSUME NEW i \in 1 .. n PROVE link[q[i]] = q[Follows(i, n)]
  BY DEF Along, n
<1> DEFINE S == {j \in Nat : j < n => w[j] = q[j + 1]}
<1>5. 0 \in S
  BY <1>2, <1>3
<1>6. ASSUME NEW j \in Nat, j \in S PROVE j + 1 \in S
  <2>1. SUFFICES ASSUME j + 1 < n PROVE w[j + 1] = q[j + 2]
    BY <1>1
  <2>2. j < n /\ j + 1 \in 1 .. n /\ j + 1 \in 1 .. N /\ (j + 1) - 1 = j /\ j + 1 # n
    BY <1>0, <1>1, <2>1
  <2>3. w[j] = q[j + 1]
    BY <1>6, <2>2
  <2>4. w[j] # Null
    BY <1>1, <2>2, <2>3, IDsAssumption
  <2>5. w[j + 1] = link[w[j]]
    BY <1>3, <2>2, <2>4
  <2>6. Follows(j + 1, n) = j + 2
    BY <2>2 DEF Follows
  <2> QED BY <1>4, <2>2, <2>3, <2>5, <2>6
<1>7. Nat \subseteq S
  <2> HIDE DEF S
  <2> QED BY <1>5, <1>6, Induction
<1>8. \A j \in 0 .. n - 1 : w[j] = q[j + 1]
  BY <1>1, <1>7
<1>9. w[n] = h
  <2>1. n - 1 \in 0 .. n - 1 /\ n \in 1 .. n /\ n \in 1 .. N /\ (n - 1) + 1 = n
    BY <1>0, <1>1
  <2>2. w[n - 1] = q[n]
    BY <1>8, <2>1
  <2>3. w[n - 1] # Null
    BY <1>1, <2>1, <2>2, IDsAssumption
  <2>4. w[n] = link[q[n]]
    BY <1>3, <2>1, <2>2, <2>3
  <2>5. Follows(n, n) = 1
    BY DEF Follows
  <2> QED BY <1>2, <1>4, <2>1, <2>4, <2>5
<1>10. n \in K
  BY <1>0, <1>1, <1>9 DEF K
<1>11. ASSUME NEW i \in K PROVE n <= i
  <2>1. i \in 1 .. N /\ w[i] \in {h, Null}
    BY DEF K
  <2>2. SUFFICES ASSUME i < n PROVE FALSE
    BY <1>0, <1>1, <2>1
  <2>3. i \in 0 .. n - 1 /\ i + 1 \in 1 .. n /\ i + 1 # 1 /\ 1 \in 1 .. n
    BY <1>0, <1>1, <2>1, <2>2
  <2>4. w[i] = q[i + 1]
    BY <1>8, <2>3
  <2>5. q[i + 1] # q[1]
    BY <2>3 DEF Along, n
  <2>6. q[i + 1] # Null
    BY <1>1, <2>3, IDsAssumption
  <2> QED BY <1>2, <2>1, <2>4, <2>5, <2>6
<1>12. k = n
  <2>1. K \subseteq Nat
    BY <1>0 DEF K
  <2>2. k \in K /\ \A j \in K : k <= j
    BY <1>10, <1>11 DEF k
  <2>3. k <= n /\ n <= k /\ k \in Nat
    BY <1>10, <1>11, <2>1, <2>2
  <2> QED BY <1>1, <2>3
<1>13. Ring(link, h) = [i \in 1 .. k |-> w[i - 1]]
  BY <1>2 DEF Ring, N, w, K, k
<1>14. \A i \in 1 .. n : w[i - 1] = q[i]
  BY <1>1, <1>8
<1> QED BY <1>1, <1>12, <1>13, <1>14

\* The members of a sequence, by their positions.
LEMMA InRange ==
  ASSUME NEW S, NEW q \in Seq(S), NEW x
  PROVE  x \in Range(q) <=> \E i \in 1 .. Len(q) : q[i] = x
BY RangeEquality

\* The links of a list lead along it forwards, and backwards to the same blocks.
LEMMA ListIs ==
  ASSUME NEW next \in Links, NEW prev \in Links, NEW h, NEW q, IsList(next, prev, h, q)
  PROVE  /\ q \in Seq(TxIDs)
         /\ h \in BlockOrNull
         /\ h = Null <=> q = << >>
         /\ Ring(next, h) = q
         /\ Range(Ring(prev, h)) = Range(q)
<1>1. CASE h = Null /\ q = << >>
  <2>1. Ring(next, h) = << >> /\ Ring(prev, h) = << >>
    BY <1>1 DEF Ring
  <2> QED BY <1>1, <2>1, EmptySeq DEF BlockOrNull
<1>2. CASE ~(h = Null /\ q = << >>)
  <2> DEFINE n == Len(q)
             b == [i \in 1 .. n |-> IF i = 1 THEN q[1] ELSE q[n + 2 - i]]
  <2>1. /\ q \in Seq(TxIDs) /\ q # << >> /\ h = q[1]
        /\ \A i, j \in 1 .. n : q[i] = q[j] => i = j
        /\ \A i \in 1 .. n : next[q[i]] = q[Follows(i, n)] /\ prev[q[Follows(i, n)]] = q[i]
    BY <1>2 DEF IsList
  <2>2. n \in Nat /\ n # 0 /\ q \in [1 .. n -> TxIDs] /\ 1 \in 1 .. n
    BY <2>1, LenProperties, EmptySeq
  <2>3. h \in TxIDs /\ h # Null
    BY <2>1, <2>2, IDsAssumption
  <2>4. Ring(next, h) = q
    <3>1. Along(next, h, q)
      BY <2>1 DEF Along
    <3> QED BY <3>1, RingIs
  <2>5. b \in [1 .. n -> TxIDs]
    <3>1. \A i \in 1 .. n : i # 1 => n + 2 - i \in 1 .. n
      BY <2>2
    <3> HIDE DEF n
    <3> QED BY <2>2, <3>1
  <2>6. b \in Seq(TxIDs) /\ Len(b) = n
    <3> HIDE DEF n, b
    <3> QED BY <2>2, <2>5
  <2>7. b[1] = h /\ b # << >>
    <3>1. b[1] = q[1]
      BY <2>2
    <3> HIDE DEF b
    <3> QED BY <2>1, <2>2, <2>6, <3>1, EmptySeq
  <2>8. ASSUME NEW i \in 1 .. n, NEW j \in 1 .. n, b[i] = b[j] PROVE i = j
    <3> DEFINE c == IF i = 1 THEN 1 ELSE n + 2 - i
               d == IF j = 1 THEN 1 ELSE n + 2 - j
    <3>1. b[i] = q[c] /\ b[j] = q[d]
      OBVIOUS
    <3>2. c \in 1 .. n /\ d \in 1 .. n
      BY <2>2
    <3>3. q[c] = q[d]
      BY <2>8, <3>1
    <3>4. c = d
      <4> HIDE DEF c, d, b, n
      <4> QED BY <2>1, <3>2, <3>3
    <3> HIDE DEF n, b
    <3> QED BY <2>2, <3>4
  <2>9. ASSUME NEW i \in 1 .. n PROVE prev[b[i]] = b[Follows(i, n)]
    <3>1. CASE i = 1
      <4>1. b[i] = q[Follows(n, n)] /\ n \in 1 .. n
        BY <2>2, <3>1 DEF Follows
      <4>2. prev[b[i]] = q[n]
        BY <2>1, <4>1
      <4>3. b[Follows(i, n)] = q[n]
        BY <2>2, <3>1 DEF Follows
      <4> HIDE DEF b, n
      <4> QED BY <4>2, <4>3
    <3>2. CASE i # 1
      <4> DEFINE k == n + 1 - i
      <4>1. k \in 1 .. n /\ k # n /\ Follows(k, n) = n + 2 - i
        BY <2>2, <3>2 DEF Follows
      <4>2. b[i] = q[Follows(k, n)]
        BY <3>2, <4>1
      <4>3. prev[b[i]] = q[k]
        <5> HIDE DEF b, k, n
        <5> QED BY <2>1, <4>1, <4>2
      <4>4. CASE i = n
        <5>1. b[Follows(i, n)] = q[1] /\ k = 1
          BY <2>2, <4>4 DEF Follows
        <5> HIDE DEF b, k
        <5> QED BY <4>3, <5>1
      <4>5. CASE i # n
        <5>1. Follows(i, n) = i + 1 /\ i + 1 \in 1 .. n /\ i + 1 # 1 /\ n + 2 - (i + 1) = k
          <6> HIDE DEF n, b
          <6>1. Follows(i, n) = i + 1
            BY <4>5 DEF Follows
          <6>2. i + 1 \in 1 .. n /\ i + 1 # 1 /\ n + 2 - (i + 1) = k
            BY <2>2, <4>5
          <6> QED BY <6>1, <6>2
        <5>2. b[i + 1] = q[n + 2 - (i + 1)]
          BY <5>1
        <5> HIDE DEF b, k
        <5> QED BY <4>3, <5>1, <5>2
      <4> QED BY <4>4, <4>5
    <3> QED BY <3>1, <3>2
  <2>10. Ring(prev, h) = b
    <3> HIDE DEF b
    <3>1. Along(prev, h, b)
      BY <2>6, <2>7, <2>8, <2>9 DEF Along
    <3> QED BY <3>1, RingIs
  <2>11. Range(b) = Range(q)
    <3>1. ASSUME NEW i \in 1 .. n PROVE \E j \in 1 .. n : q[j] = b[i]
      <4>1. CASE i = 1
        BY <2>2, <4>1
      <4>2. CASE i # 1
        <5>1. n + 2 - i \in 1 .. n /\ b[i] = q[n + 2 - i]
          BY <2>2, <4>2
        <5> HIDE DEF b
        <5> QED BY <5>1
      <4> QED BY <4>1, <4>2
    <3>2. ASSUME NEW i \in 1 .. n PROVE \E j \in 1 .. n : b[j] = q[i]
      <4>1. CASE i = 1
        BY <2>2, <4>1
      <4>2. CASE i # 1
        <5>1. n + 2 - i \in 1 .. n /\ n + 2 - i # 1 /\ n + 2 - (n + 2 - i) = i
          BY <2>2, <4>2
        <5>2. b[n + 2 - i] = q[i]
          BY <5>1
        <5> HIDE DEF b
        <5> QED BY <5>1, <5>2
      <4> QED BY <4>1, <4>2
    <3> HIDE DEF b
    <3>3. ASSUME NEW x PROVE x \in Range(b) <=> x \in Range(q)
      <4>1. x \in Range(b) <=> \E i \in 1 .. n : b[i] = x
        BY <2>6, InRange
      <4>2. x \in Range(q) <=> \E i \in 1 .. n : q[i] = x
        BY <2>1, InRange
      <4> HIDE DEF n
      <4> QED BY <3>1, <3>2, <4>1, <4>2
    <3> QED BY <3>3
  <2> QED BY <2>1, <2>3, <2>4, <2>10, <2>11 DEF BlockOrNull
<1> QED BY <1>1, <1>2

-----------------------------------------------------------------------------
(* What add and remove do to a list                                        *)

\* A list that is not empty, spelled out.
IsCycle(next, prev, h, q) ==
  /\ q \in Seq(TxIDs) /\ q \in [1 .. Len(q) -> TxIDs]
  /\ Len(q) \in Nat /\ Len(q) >= 1 /\ h = q[1]
  /\ \A i, j \in 1 .. Len(q) : q[i] = q[j] => i = j
  /\ \A i \in 1 .. Len(q) : i # Len(q) => next[q[i]] = q[i + 1] /\ prev[q[i + 1]] = q[i]
  /\ next[q[Len(q)]] = q[1] /\ prev[q[1]] = q[Len(q)]

LEMMA ListFacts ==
  ASSUME NEW next, NEW prev, NEW h \in TxIDs, NEW q, IsList(next, prev, h, q)
  PROVE  IsCycle(next, prev, h, q)
<1>1. /\ q \in Seq(TxIDs) /\ q # << >> /\ h = q[1]
      /\ \A i, j \in 1 .. Len(q) : q[i] = q[j] => i = j
      /\ \A i \in 1 .. Len(q) : /\ next[q[i]] = q[Follows(i, Len(q))]
                                /\ prev[q[Follows(i, Len(q))]] = q[i]
  BY IDsAssumption DEF IsList
<1>2. Len(q) \in Nat /\ Len(q) # 0 /\ q \in [1 .. Len(q) -> TxIDs]
  BY <1>1, LenProperties, EmptySeq
<1>3. Len(q) >= 1 /\ Len(q) \in 1 .. Len(q)
  BY <1>2
<1>4. \A i \in 1 .. Len(q) : Follows(i, Len(q)) = IF i = Len(q) THEN 1 ELSE i + 1
  BY DEF Follows
<1> QED BY <1>1, <1>2, <1>3, <1>4 DEF IsCycle

\* The converse.
LEMMA ListIntro ==
  ASSUME NEW next, NEW prev, NEW h, NEW q \in Seq(TxIDs), Len(q) >= 1, h = q[1],
         \A i, j \in 1 .. Len(q) : q[i] = q[j] => i = j,
         \A i \in 1 .. Len(q) : i # Len(q) => /\ next[q[i]] = q[i + 1]
                                              /\ prev[q[i + 1]] = q[i],
         next[q[Len(q)]] = q[1], prev[q[1]] = q[Len(q)]
  PROVE  IsList(next, prev, h, q)
<1>1. q # << >>
  BY EmptySeq
<1>2. ASSUME NEW i \in 1 .. Len(q)
      PROVE  /\ next[q[i]] = q[Follows(i, Len(q))]
             /\ prev[q[Follows(i, Len(q))]] = q[i]
  <2>1. Follows(i, Len(q)) = IF i = Len(q) THEN 1 ELSE i + 1
    BY DEF Follows
  <2> QED BY <2>1
<1> QED BY <1>1, <1>2 DEF IsList

\* Links that agree on the blocks of a list have the same list.
LEMMA ListFrame ==
  ASSUME NEW next, NEW prev, NEW h, NEW q, IsList(next, prev, h, q), NEW next2, NEW prev2,
         \A i \in 1 .. Len(q) : next2[q[i]] = next[q[i]] /\ prev2[q[i]] = prev[q[i]]
  PROVE  IsList(next2, prev2, h, q)
<1>1. CASE h = Null /\ q = << >>
  BY <1>1 DEF IsList
<1>2. CASE ~(h = Null /\ q = << >>)
  <2>1. q \in Seq(TxIDs) /\ q # << >>
    BY <1>2 DEF IsList
  <2>2. Len(q) \in Nat /\ Len(q) # 0
    BY <2>1, EmptySeq
  <2>3. \A i \in 1 .. Len(q) : Follows(i, Len(q)) \in 1 .. Len(q)
    BY <2>2 DEF Follows
  <2> QED BY <1>2, <2>3 DEF IsList
<1> QED BY <1>1, <1>2

\* TxCBBucket::add puts the block between the last one and the head.
LEMMA AppendList ==
  ASSUME NEW next \in Links, NEW prev \in Links, NEW h \in TxIDs, NEW q,
         IsList(next, prev, h, q), NEW t \in TxIDs, \A i \in 1 .. Len(q) : q[i] # t
  PROVE  /\ prev[h] = q[Len(q)] /\ prev[h] \in TxIDs
         /\ next[prev[h]] = h
         /\ IsList([next EXCEPT ![t] = h, ![prev[h]] = t],
                   [prev EXCEPT ![t] = prev[h], ![h] = t], h, Append(q, t))
<1> DEFINE n == Len(q)
           a == Append(q, t)
           next2 == [next EXCEPT ![t] = h, ![prev[h]] = t]
           prev2 == [prev EXCEPT ![t] = prev[h], ![h] = t]
<1>1. /\ q \in Seq(TxIDs) /\ q \in [1 .. n -> TxIDs]
      /\ n \in Nat /\ n >= 1 /\ h = q[1]
      /\ \A i, j \in 1 .. n : q[i] = q[j] => i = j
      /\ \A i \in 1 .. n : i # n => next[q[i]] = q[i + 1] /\ prev[q[i + 1]] = q[i]
      /\ next[q[n]] = q[1] /\ prev[q[1]] = q[n]
  <2>1. IsCycle(next, prev, h, q)
    BY ListFacts
  <2> QED BY <2>1 DEF IsCycle
<1>2. /\ a \in Seq(TxIDs) /\ Len(a) = n + 1
      /\ \A i \in 1 .. n : a[i] = q[i]
      /\ a[n + 1] = t
  BY <1>1, AppendProperties
<1>3. \A i \in 1 .. n : q[i] # t
  OBVIOUS
<1> HIDE DEF n, a
<1>4. 1 \in 1 .. n /\ n \in 1 .. n /\ prev[h] = q[n] /\ q[n] \in TxIDs /\ next[prev[h]] = h
  BY <1>1
<1>5. ASSUME NEW x \in TxIDs
      PROVE  /\ next2[x] = IF x = q[n] THEN t ELSE IF x = t THEN h ELSE next[x]
             /\ prev2[x] = IF x = h THEN t ELSE IF x = t THEN q[n] ELSE prev[x]
  BY <1>4 DEF Links
<1> HIDE DEF next2, prev2
<1>6. \A i, j \in 1 .. Len(a) : a[i] = a[j] => i = j
  <2>1. \A i \in 1 .. n + 1 : i \in 1 .. n \/ i = n + 1
    BY <1>1
  <2> QED BY <1>1, <1>2, <1>3, <2>1
<1>7. ASSUME NEW i \in 1 .. Len(a), i # Len(a)
      PROVE  next2[a[i]] = a[i + 1] /\ prev2[a[i + 1]] = a[i]
  <2>1. i \in 1 .. n /\ a[i] = q[i] /\ q[i] \in TxIDs /\ q[i] # t
    BY <1>1, <1>2, <1>3, <1>7
  <2>2. CASE i = n
    <3>1. a[i + 1] = t /\ q[n] # t /\ h # t
      BY <1>1, <1>2, <1>3, <1>4, <2>2
    <3>2. next2[a[i]] = t
      BY <1>5, <2>1, <2>2
    <3>3. prev2[t] = q[n]
      BY <1>5, <3>1
    <3> QED BY <2>1, <2>2, <3>1, <3>2, <3>3
  <2>3. CASE i # n
    <3>1. i + 1 \in 1 .. n /\ i + 1 # 1
      BY <1>1, <2>1, <2>3
    <3>2. a[i + 1] = q[i + 1] /\ q[i + 1] \in TxIDs /\ q[i + 1] # t /\ q[i + 1] # h
      BY <1>1, <1>2, <1>3, <1>4, <3>1
    <3>3. q[i] # q[n]
      BY <1>1, <1>4, <2>1, <2>3
    <3>4. next2[q[i]] = next[q[i]] /\ prev2[q[i + 1]] = prev[q[i + 1]]
      BY <1>5, <2>1, <3>2, <3>3
    <3> QED BY <1>1, <2>1, <2>3, <3>2, <3>4
  <2> QED BY <2>2, <2>3
<1>8. next2[a[Len(a)]] = a[1] /\ prev2[a[1]] = a[Len(a)]
  <2>1. a[Len(a)] = t /\ a[1] = h /\ q[n] # t
    BY <1>1, <1>2, <1>3, <1>4
  <2> QED BY <1>5, <2>1
<1>9. Len(a) >= 1 /\ h = a[1]
  BY <1>1, <1>2, <1>4
<1>10. IsList(next2, prev2, h, a)
  BY <1>2, <1>6, <1>7, <1>8, <1>9, ListIntro
<1> QED BY <1>4, <1>10 DEF n, a, next2, prev2

\* A block alone is a list.
LEMMA SingleList ==
  ASSUME NEW next \in Links, NEW prev \in Links, NEW t \in TxIDs
  PROVE  IsList([next EXCEPT ![t] = t], [prev EXCEPT ![t] = t], t, <<t>>)
<1> DEFINE q == <<t>>
           next2 == [next EXCEPT ![t] = t]
           prev2 == [prev EXCEPT ![t] = t]
<1>1. q \in Seq(TxIDs) /\ Len(q) = 1 /\ q[1] = t /\ q # << >>
  OBVIOUS
<1>2. next2[t] = t /\ prev2[t] = t
  BY DEF Links
<1> HIDE DEF q, next2, prev2
<1>3. IsList(next2, prev2, t, q)
  <2>2. \A i \in 1 .. Len(q) : i = 1 /\ Follows(i, Len(q)) = 1
    BY <1>1 DEF Follows
  <2> QED BY <1>1, <1>2, <2>2 DEF IsList
<1> QED BY <1>3 DEF q, next2, prev2

\* q without its j-th block.
Without(q, j) == [i \in 1 .. Len(q) - 1 |-> IF i < j THEN q[i] ELSE q[i + 1]]

\* TxCBBucket::remove takes a block that is not the head out of the list.
LEMMA RemoveList ==
  ASSUME NEW next \in Links, NEW prev \in Links, NEW h \in TxIDs, NEW q,
         IsList(next, prev, h, q), NEW j \in 2 .. Len(q)
  PROVE  /\ prev[q[j]] \in TxIDs /\ next[q[j]] \in TxIDs
         /\ prev[q[j]] # q[j] /\ next[q[j]] # q[j]
         /\ prev[q[j]] \in Range(q) /\ next[q[j]] \in Range(q)
         /\ Without(q, j) \in Seq(TxIDs) /\ Len(Without(q, j)) = Len(q) - 1
         /\ IsList([next EXCEPT ![prev[q[j]]] = next[q[j]]],
                   [prev EXCEPT ![next[q[j]]] = prev[q[j]]], h, Without(q, j))
<1> DEFINE n == Len(q)
           a == Without(q, j)
           x == prev[q[j]]
           y == next[q[j]]
           next2 == [next EXCEPT ![x] = y]
           prev2 == [prev EXCEPT ![y] = x]
<1>1. /\ q \in Seq(TxIDs) /\ q \in [1 .. n -> TxIDs]
      /\ n \in Nat /\ n >= 1 /\ h = q[1]
      /\ \A i, k \in 1 .. n : q[i] = q[k] => i = k
      /\ \A i \in 1 .. n : i # n => next[q[i]] = q[i + 1] /\ prev[q[i + 1]] = q[i]
      /\ next[q[n]] = q[1] /\ prev[q[1]] = q[n]
  <2>1. IsCycle(next, prev, h, q)
    BY ListFacts
  <2> QED BY <2>1 DEF IsCycle
<1>2. j \in 2 .. n
  OBVIOUS
<1>3. a = [i \in 1 .. n - 1 |-> IF i < j THEN q[i] ELSE q[i + 1]]
  BY DEF Without
<1> HIDE DEF n, a
<1>4. n >= 2 /\ n - 1 \in Nat /\ j - 1 \in 1 .. n /\ j - 1 # n /\ (j - 1) + 1 = j /\ j \in 1 .. n
  BY <1>1, <1>2
<1>5. x = q[j - 1]
  BY <1>1, <1>4
<1>6. y = IF j = n THEN q[1] ELSE q[j + 1]
  BY <1>1, <1>4
<1>7. x \in TxIDs /\ y \in TxIDs
  BY <1>1, <1>2, <1>4, <1>5, <1>6
<1>8. x # q[j] /\ y # q[j]
  BY <1>1, <1>2, <1>4, <1>5, <1>6
<1>9. x \in Range(q) /\ y \in Range(q)
  <2>1. \E i \in 1 .. n : q[i] = x
    BY <1>4, <1>5
  <2>2. \E i \in 1 .. n : q[i] = y
    <3>1. CASE j = n
      <4>1. 1 \in 1 .. n
        BY <1>1
      <4> QED BY <1>6, <3>1, <4>1
    <3>2. CASE j # n
      <4>1. j + 1 \in 1 .. n
        BY <1>1, <1>2, <3>2
      <4> QED BY <1>6, <3>2, <4>1
    <3> QED BY <3>1, <3>2
  <2> HIDE DEF x, y
  <2> QED BY <1>1, <2>1, <2>2, InRange DEF n
<1>10. a \in [1 .. n - 1 -> TxIDs]
  <2>1. \A i \in 1 .. n - 1 : i \in 1 .. n /\ i + 1 \in 1 .. n
    BY <1>1
  <2> QED BY <1>1, <1>3, <2>1
<1>11. a \in Seq(TxIDs) /\ Len(a) = n - 1
  BY <1>4, <1>10
<1>12. ASSUME NEW b \in TxIDs
       PROVE  /\ next2[b] = IF b = x THEN y ELSE next[b]
              /\ prev2[b] = IF b = y THEN x ELSE prev[b]
  BY <1>7 DEF Links
<1> HIDE DEF x, y, next2, prev2
<1>13. ASSUME NEW i \in 1 .. n - 1
       PROVE  /\ i < j => a[i] = q[i]
              /\ ~(i < j) => a[i] = q[i + 1]
              /\ i \in 1 .. n /\ i + 1 \in 1 .. n
  BY <1>1, <1>3
<1>14. \A i, k \in 1 .. Len(a) : a[i] = a[k] => i = k
  <2>1. SUFFICES ASSUME NEW i \in 1 .. n - 1, NEW k \in 1 .. n - 1, a[i] = a[k] PROVE i = k
    BY <1>11
  <2> DEFINE c == IF i < j THEN i ELSE i + 1
             d == IF k < j THEN k ELSE k + 1
  <2>2. a[i] = q[c] /\ a[k] = q[d] /\ c \in 1 .. n /\ d \in 1 .. n
    BY <1>13
  <2>3. c = d
    <3>1. q[c] = q[d]
      BY <2>1, <2>2
    <3> HIDE DEF c, d
    <3> QED BY <1>1, <2>2, <3>1
  <2> QED BY <1>1, <1>2, <2>3
<1>15. ASSUME NEW i \in 1 .. Len(a), i # Len(a)
       PROVE  next2[a[i]] = a[i + 1] /\ prev2[a[i + 1]] = a[i]
  <2>1. /\ i \in 1 .. n - 1 /\ i # n - 1 /\ i + 1 \in 1 .. n - 1 /\ i \in 1 .. n /\ i # n
        /\ i + 1 \in 1 .. n
    BY <1>1, <1>11, <1>15
  <2>2. CASE i + 1 < j
    <3>1. a[i] = q[i] /\ a[i + 1] = q[i + 1]
      BY <1>2, <1>13, <2>1, <2>2
    <3>2. q[i] # x
      BY <1>1, <1>2, <1>4, <1>5, <2>1, <2>2
    <3>3. q[i + 1] # y
      <4>1. CASE j = n
        <5>1. i + 1 # 1 /\ 1 \in 1 .. n
          BY <1>1, <2>1
        <5> QED BY <1>1, <1>6, <2>1, <4>1, <5>1
      <4>2. CASE j # n
        <5>1. i + 1 # j + 1 /\ j + 1 \in 1 .. n
          BY <1>1, <1>2, <2>2, <4>2
        <5> QED BY <1>1, <1>6, <2>1, <4>2, <5>1
      <4> QED BY <4>1, <4>2
    <3>4. next2[q[i]] = next[q[i]] /\ prev2[q[i + 1]] = prev[q[i + 1]]
      BY <1>1, <1>12, <2>1, <3>2, <3>3
    <3> QED BY <1>1, <2>1, <3>1, <3>4
  <2>3. CASE i + 1 = j
    <3>1. i = j - 1 /\ i < j /\ ~(i + 1 < j) /\ j # n /\ i + 1 + 1 = j + 1
      BY <1>1, <1>2, <2>1, <2>3
    <3>2. a[i] = x /\ a[i + 1] = y
      BY <1>5, <1>6, <1>13, <2>1, <3>1
    <3> QED BY <1>7, <1>12, <3>2
  <2>4. CASE i + 1 > j
    <3>1. /\ ~(i < j) /\ ~(i + 1 < j) /\ j # n /\ (i + 1) + 1 \in 1 .. n
          /\ i + 1 # n /\ i + 1 # j - 1 /\ (i + 1) + 1 # j + 1 /\ j + 1 \in 1 .. n
      BY <1>1, <1>2, <2>1, <2>4
    <3>2. a[i] = q[i + 1] /\ a[i + 1] = q[(i + 1) + 1]
      BY <1>13, <2>1, <3>1
    <3>3. q[i + 1] # x /\ q[(i + 1) + 1] # y
      BY <1>1, <1>4, <1>5, <1>6, <2>1, <3>1
    <3>4. next2[q[i + 1]] = next[q[i + 1]] /\ prev2[q[(i + 1) + 1]] = prev[q[(i + 1) + 1]]
      BY <1>1, <1>12, <2>1, <3>1, <3>3
    <3> QED BY <1>1, <2>1, <3>1, <3>2, <3>4
  <2> QED BY <1>1, <1>2, <2>1, <2>2, <2>3, <2>4
<1>16. next2[a[Len(a)]] = a[1] /\ prev2[a[1]] = a[Len(a)]
  <2>0. n - 1 \in 1 .. n - 1 /\ 1 \in 1 .. n - 1 /\ 1 < j /\ 1 \in 1 .. n /\ n \in 1 .. n
    BY <1>1, <1>2, <1>4
  <2>1. a[1] = q[1]
    BY <1>13, <2>0
  <2>2. CASE j = n
    <3>1. n - 1 < j
      BY <1>1, <2>2
    <3>2. a[n - 1] = x /\ q[1] = y
      BY <1>5, <1>6, <1>13, <2>0, <2>2, <3>1
    <3> QED BY <1>7, <1>11, <1>12, <2>1, <3>2
  <2>3. CASE j # n
    <3>1. ~(n - 1 < j) /\ (n - 1) + 1 = n /\ j + 1 \in 1 .. n /\ j + 1 # 1 /\ j - 1 # n
      BY <1>1, <1>2, <2>3
    <3>2. a[n - 1] = q[n]
      BY <1>13, <2>0, <3>1
    <3>3. q[n] # x /\ q[1] # y
      BY <1>1, <1>4, <1>5, <1>6, <2>0, <2>3, <3>1
    <3>4. next2[q[n]] = next[q[n]] /\ prev2[q[1]] = prev[q[1]]
      BY <1>1, <1>12, <2>0, <3>3
    <3> QED BY <1>1, <1>11, <2>1, <3>2, <3>4
  <2> QED BY <2>2, <2>3
<1>17. Len(a) >= 1 /\ h = a[1]
  <2>1. 1 \in 1 .. n - 1 /\ 1 < j
    BY <1>1, <1>2, <1>4
  <2>2. a[1] = q[1]
    BY <1>13, <2>1
  <2> QED BY <1>1, <1>4, <1>11, <2>2
<1>18. IsList(next2, prev2, h, a)
  BY <1>11, <1>14, <1>15, <1>16, <1>17, ListIntro
<1> QED BY <1>7, <1>8, <1>9, <1>11, <1>18 DEF n, a, x, y, next2, prev2

-----------------------------------------------------------------------------
(* The lists of the buckets                                                *)

\* Q gives the list of every bucket of pool s.
Rep(s, Q) ==
  /\ s \in PoolType
  /\ Tree(s)
  /\ Q \in [Places -> Seq(TxIDs)]
  /\ \A p \in Places : /\ IsList(s.next, s.prev, s.head[p], Q[p])
                       /\ \A i \in 1 .. Len(Q[p]) : BucketOf(s, Q[p][i]) = p
                       /\ Len(Q[p]) <= s.count[p]

Small(Q) == \A p \in Places : Len(Q[p]) < ScaleSize
All(Q) == UNION {Range(Q[p]) : p \in Places}

LEMMA PoolFields ==
  ASSUME NEW s \in PoolType
  PROVE  /\ s.tables \subseteq Places \cup {<< >>}
         /\ s.head \in [Places -> BlockOrNull]
         /\ s.count \in [Places -> Nat]
         /\ s.next \in Links /\ s.prev \in Links
BY DEF PoolType, Links, BlockOrNull

\* The lists are what the walks of the code find.
LEMMA RepFacts ==
  ASSUME NEW s, NEW Q, Rep(s, Q), NEW p \in Places
  PROVE  /\ Q[p] \in Seq(TxIDs)
         /\ s.head[p] \in BlockOrNull
         /\ s.head[p] = Null <=> Q[p] = << >>
         /\ Ring(s.next, s.head[p]) = Q[p]
         /\ Listed(s, p) = Range(Q[p])
<1>1. s \in PoolType /\ IsList(s.next, s.prev, s.head[p], Q[p])
  BY DEF Rep
<1>2. s.next \in Links /\ s.prev \in Links
  BY <1>1, PoolFields
<1> DEFINE next == s.next
           prev == s.prev
           h == s.head[p]
           q == Q[p]
<1>3. next \in Links /\ prev \in Links /\ IsList(next, prev, h, q)
  BY <1>1, <1>2
<1> HIDE DEF next, prev, h, q
<1>4. /\ q \in Seq(TxIDs) /\ h \in BlockOrNull /\ (h = Null <=> q = << >>)
      /\ Ring(next, h) = q /\ Range(Ring(prev, h)) = Range(q)
  BY <1>3, ListIs
<1> QED BY <1>4 DEF next, prev, h, q, Listed

LEMMA InAll ==
  ASSUME NEW Q \in [Places -> Seq(TxIDs)], NEW x
  PROVE  x \in All(Q) <=> \E p \in Places : \E i \in 1 .. Len(Q[p]) : Q[p][i] = x
<1>1. \A p \in Places : x \in Range(Q[p]) <=> \E i \in 1 .. Len(Q[p]) : Q[p][i] = x
  BY InRange
<1>2. x \in All(Q) <=> \E p \in Places : x \in Range(Q[p])
  BY DEF All
<1> QED BY <1>1, <1>2

\* A block of a list is searched for in that list's bucket.
LEMMA RepWhere ==
  ASSUME NEW s, NEW Q, Rep(s, Q), NEW p \in Places, NEW i \in 1 .. Len(Q[p])
  PROVE  Q[p][i] \in TxIDs /\ BucketOf(s, Q[p][i]) = p
<1>1. Q[p] \in Seq(TxIDs)
  BY DEF Rep
<1>2. Q[p][i] \in TxIDs
  BY <1>1, ElementOfSeq
<1> QED BY <1>2 DEF Rep

\* find finds what is listed.
LEMMA RepFound ==
  ASSUME NEW s, NEW Q, Rep(s, Q), NEW t \in TxIDs
  PROVE  /\ BucketOf(s, t) \in Places
         /\ Found(s, t) <=> t \in Range(Q[BucketOf(s, t)])
         /\ Found(s, t) <=> t \in All(Q)
<1>1. Tree(s) /\ Q \in [Places -> Seq(TxIDs)]
  BY DEF Rep
<1>2. BucketOf(s, t) \in Places
  BY <1>1, BucketType
<1>3. Found(s, t) <=> t \in Range(Q[BucketOf(s, t)])
  <2>1. Listed(s, BucketOf(s, t)) = Range(Q[BucketOf(s, t)])
    BY <1>2, RepFacts
  <2> QED BY <2>1 DEF Found, Listed
<1>4. t \in All(Q) => t \in Range(Q[BucketOf(s, t)])
  <2>1. SUFFICES ASSUME t \in All(Q) PROVE t \in Range(Q[BucketOf(s, t)])
    OBVIOUS
  <2>2. PICK p \in Places : \E i \in 1 .. Len(Q[p]) : Q[p][i] = t
    BY <1>1, <2>1, InAll
  <2>3. PICK i \in 1 .. Len(Q[p]) : Q[p][i] = t
    BY <2>2
  <2>4. BucketOf(s, t) = p
    BY <2>3, RepWhere
  <2>5. t \in Range(Q[p])
    BY <1>1, <2>3, InRange
  <2> QED BY <2>4, <2>5
<1>5. t \in Range(Q[BucketOf(s, t)]) => t \in All(Q)
  BY <1>2 DEF All
<1> QED BY <1>2, <1>3, <1>4, <1>5

LEMMA RepStored ==
  ASSUME NEW s, NEW Q, Rep(s, Q)
  PROVE  Stored(s) = All(Q)
<1>0. Tree(s) /\ Q \in [Places -> Seq(TxIDs)]
  BY DEF Rep
<1>1. ASSUME NEW x \in Stored(s) PROVE x \in All(Q)
  <2>1. PICK p \in Buckets(s) : x \in Listed(s, p)
    BY DEF Stored
  <2>2. p \in Places
    BY DEF Buckets
  <2>3. x \in Range(Q[p])
    BY <2>1, <2>2, RepFacts
  <2> QED BY <2>2, <2>3 DEF All
<1>2. ASSUME NEW x \in All(Q) PROVE x \in Stored(s)
  <2>1. PICK p \in Places : \E i \in 1 .. Len(Q[p]) : Q[p][i] = x
    BY <1>0, InAll
  <2>2. PICK i \in 1 .. Len(Q[p]) : Q[p][i] = x
    BY <2>1
  <2>3. x \in TxIDs /\ BucketOf(s, x) = p
    BY <2>2, RepWhere
  <2>4. p \in Buckets(s)
    BY <1>0, <2>3, BucketType
  <2>5. x \in Range(Q[p])
    BY <1>0, <2>2, InRange
  <2>6. x \in Listed(s, p)
    BY <2>5, RepFacts
  <2> QED BY <2>4, <2>6 DEF Stored
<1> QED BY <1>1, <1>2

\* Sound, in terms of the lists.
LEMMA SoundIntro ==
  ASSUME NEW s, NEW Q, Rep(s, Q), Small(Q)
  PROVE  Sound(s)
<1>1. ASSUME NEW p \in Places
      PROVE  LET q == Ring(s.next, s.head[p]) IN
             /\ IsList(s.next, s.prev, s.head[p], q)
             /\ \A i \in 1 .. Len(q) : BucketOf(s, q[i]) = p
             /\ Len(q) <= s.count[p]
             /\ Len(q) < ScaleSize
  <2>1. Ring(s.next, s.head[p]) = Q[p]
    BY RepFacts
  <2> QED BY <2>1 DEF Rep, Small
<1> QED BY <1>1 DEF Sound, Rep

LEMMA SoundLists ==
  ASSUME NEW s, Sound(s)
  PROVE  \E Q : Rep(s, Q) /\ Small(Q)
<1> DEFINE Q == [p \in Places |-> Ring(s.next, s.head[p])]
<1>0. s \in PoolType /\ Tree(s) /\ s.next \in Links /\ s.prev \in Links
  BY PoolFields DEF Sound
<1>1. ASSUME NEW p \in Places
      PROVE  /\ IsList(s.next, s.prev, s.head[p], Q[p])
             /\ \A i \in 1 .. Len(Q[p]) : BucketOf(s, Q[p][i]) = p
             /\ Len(Q[p]) <= s.count[p]
             /\ Len(Q[p]) < ScaleSize
  BY DEF Sound
<1>2. Q \in [Places -> Seq(TxIDs)]
  <2>1. ASSUME NEW p \in Places PROVE Q[p] \in Seq(TxIDs)
    <3> HIDE DEF Q
    <3>1. IsList(s.next, s.prev, s.head[p], Q[p])
      BY <1>1
    <3> QED BY <1>0, <3>1, ListIs
  <2> QED BY <2>1
<1> HIDE DEF Q
<1>3. Rep(s, Q) /\ Small(Q)
  BY <1>0, <1>1, <1>2 DEF Rep, Small
<1> QED BY <1>3

-----------------------------------------------------------------------------
(* What the operations do to the lists                                     *)

\* The lists with q for the bucket p.
With(Q, p, q) == [Q EXCEPT ![p] = q]

\* q is the list of the bucket p of pool r.
Fits(r, p, q) ==
  /\ IsList(r.next, r.prev, r.head[p], q)
  /\ \A i \in 1 .. Len(q) : BucketOf(r, q[i]) = p
  /\ Len(q) <= r.count[p]

\* Pool r is like s in every bucket but p.
SameBut(s, r, Q, p) ==
  \A o \in Places : o # p =>
    /\ r.head[o] = s.head[o] /\ r.count[o] = s.count[o]
    /\ \A i \in 1 .. Len(Q[o]) : /\ r.next[Q[o][i]] = s.next[Q[o][i]]
                                 /\ r.prev[Q[o][i]] = s.prev[Q[o][i]]
                                 /\ BucketOf(r, Q[o][i]) = o

\* A pool whose lists are those of Q but in one bucket.
LEMMA RepChange ==
  ASSUME NEW s, NEW Q, Rep(s, Q), NEW p \in Places, NEW q \in Seq(TxIDs),
         NEW r \in PoolType, Tree(r), Fits(r, p, q), SameBut(s, r, Q, p)
  PROVE  Rep(r, With(Q, p, q))
<1> DEFINE R == With(Q, p, q)
<1>1. Q \in [Places -> Seq(TxIDs)]
  BY DEF Rep
<1>2. R \in [Places -> Seq(TxIDs)] /\ R[p] = q /\ \A o \in Places : o # p => R[o] = Q[o]
  BY <1>1 DEF With
<1> HIDE DEF R
<1>3. ASSUME NEW o \in Places
      PROVE  /\ IsList(r.next, r.prev, r.head[o], R[o])
             /\ \A i \in 1 .. Len(R[o]) : BucketOf(r, R[o][i]) = o
             /\ Len(R[o]) <= r.count[o]
  <2>1. CASE o = p
    BY <1>2, <2>1 DEF Fits
  <2>2. CASE o # p
    <3>1. R[o] = Q[o] /\ r.head[o] = s.head[o] /\ r.count[o] = s.count[o]
      BY <1>2, <2>2 DEF SameBut
    <3>2. IsList(s.next, s.prev, s.head[o], Q[o]) /\ Len(Q[o]) <= s.count[o]
      BY DEF Rep
    <3>3. \A i \in 1 .. Len(Q[o]) : /\ r.next[Q[o][i]] = s.next[Q[o][i]]
                                    /\ r.prev[Q[o][i]] = s.prev[Q[o][i]]
                                    /\ BucketOf(r, Q[o][i]) = o
      BY <2>2 DEF SameBut
    <3>4. IsList(r.next, r.prev, s.head[o], Q[o])
      BY <3>2, <3>3, ListFrame
    <3> QED BY <3>1, <3>2, <3>3, <3>4
  <2> QED BY <2>1, <2>2
<1>4. Rep(r, R)
  BY <1>2, <1>3 DEF Rep
<1> QED BY <1>4 DEF R

\* The fields of a pool after TxCBBucket::add to a bucket with head h and last
\* block z.
IsLinked(s, p, t, h, z, l) ==
  /\ l \in PoolType
  /\ l.tables = s.tables
  /\ l.count = [s.count EXCEPT ![p] = s.count[p] + 1]
  /\ h = Null => /\ l.head = [s.head EXCEPT ![p] = t]
                 /\ l.next = [s.next EXCEPT ![t] = t]
                 /\ l.prev = [s.prev EXCEPT ![t] = t]
  /\ h # Null => /\ l.head = s.head
                 /\ l.next = [s.next EXCEPT ![t] = h, ![z] = t]
                 /\ l.prev = [s.prev EXCEPT ![t] = z, ![h] = t]

LEMMA LinkFields ==
  ASSUME NEW s \in PoolType, NEW p \in Places, NEW t \in TxIDs, NEW l, l = Link(s, p, t),
         NEW h, h = s.head[p], NEW z, z = s.prev[h],
         h # Null => z \in TxIDs /\ s.next[z] = h
  PROVE  IsLinked(s, p, t, h, z, l)
<1>1. CASE h = Null
  <2>1. l = [s EXCEPT !.head = [s.head EXCEPT ![p] = t],
                      !.count = [s.count EXCEPT ![p] = s.count[p] + 1],
                      !.next = [s.next EXCEPT ![t] = t],
                      !.prev = [s.prev EXCEPT ![t] = t]]
    BY <1>1 DEF Link
  <2> DEFINE head == [s.head EXCEPT ![p] = t]
             count == [s.count EXCEPT ![p] = s.count[p] + 1]
             next == [s.next EXCEPT ![t] = t]
             prev == [s.prev EXCEPT ![t] = t]
  <2>2. head \in [Places -> TxIDs \cup {Null}] /\ count \in [Places -> Nat]
    BY DEF PoolType
  <2>3. next \in [TxIDs -> TxIDs \cup {Null}] /\ prev \in [TxIDs -> TxIDs \cup {Null}]
    BY DEF PoolType
  <2>4. l = [s EXCEPT !.head = head, !.count = count, !.next = next, !.prev = prev]
    BY <2>1
  <2> HIDE DEF head, count, next, prev
  <2>5. l \in PoolType /\ l.tables = s.tables /\ l.head = head /\ l.count = count
        /\ l.next = next /\ l.prev = prev
    BY <2>2, <2>3, <2>4 DEF PoolType
  <2> QED BY <1>1, <2>5 DEF head, count, next, prev, IsLinked
<1>2. CASE h # Null
  <2>1. l = [s EXCEPT !.count = [s.count EXCEPT ![p] = s.count[p] + 1],
                      !.next = [s.next EXCEPT ![t] = h, ![z] = t],
                      !.prev = [s.prev EXCEPT ![t] = z, ![h] = t]]
    BY <1>2 DEF Link
  <2>2. h \in TxIDs /\ z \in TxIDs
    BY <1>2 DEF PoolType
  <2> DEFINE count == [s.count EXCEPT ![p] = s.count[p] + 1]
             next == [s.next EXCEPT ![t] = h, ![z] = t]
             prev == [s.prev EXCEPT ![t] = z, ![h] = t]
  <2>3. count \in [Places -> Nat]
    BY DEF PoolType
  <2>4. next \in [TxIDs -> TxIDs \cup {Null}] /\ prev \in [TxIDs -> TxIDs \cup {Null}]
    BY <2>2 DEF PoolType
  <2>5. l = [s EXCEPT !.count = count, !.next = next, !.prev = prev]
    BY <2>1
  <2> HIDE DEF count, next, prev
  <2>6. l \in PoolType /\ l.tables = s.tables /\ l.head = s.head /\ l.count = count
        /\ l.next = next /\ l.prev = prev
    BY <2>3, <2>4, <2>5 DEF PoolType
  <2> QED BY <1>2, <2>6 DEF count, next, prev, IsLinked
<1> QED BY <1>1, <1>2

\* TxCBBucket::add appends the block to the list of its bucket.
LEMMA LinkRep ==
  ASSUME NEW s, NEW Q, Rep(s, Q), NEW t \in TxIDs, ~Found(s, t),
         NEW p, p = BucketOf(s, t), NEW l, l = Link(s, p, t)
  PROVE  /\ Rep(l, With(Q, p, Append(Q[p], t)))
         /\ l.tables = s.tables
         /\ l.count[p] = s.count[p] + 1
<1>0. s \in PoolType /\ Tree(s) /\ Q \in [Places -> Seq(TxIDs)] /\ p \in Places
  BY RepFound DEF Rep
<1>1. s.next \in Links /\ s.prev \in Links /\ s.count \in [Places -> Nat]
      /\ s.head \in [Places -> BlockOrNull]
  BY <1>0, PoolFields
<1> DEFINE h == s.head[p]
           z == s.prev[h]
           q == Q[p]
           a == Append(q, t)
<1>2. q \in Seq(TxIDs) /\ IsList(s.next, s.prev, h, q) /\ (h = Null <=> q = << >>)
  BY <1>0, RepFacts DEF Rep
<1>3. \A i \in 1 .. Len(q) : q[i] # t
  BY <1>0, <1>2, RepFound, InRange
<1>4. /\ a \in Seq(TxIDs) /\ Len(a) = Len(q) + 1
      /\ \A i \in 1 .. Len(q) : a[i] = q[i]
      /\ a[Len(q) + 1] = t
  BY <1>2, AppendProperties
<1>5. h # Null => /\ h \in TxIDs /\ z = q[Len(q)] /\ z \in TxIDs /\ s.next[z] = h
                  /\ h = q[1] /\ Len(q) >= 1
                  /\ IsList([s.next EXCEPT ![t] = h, ![z] = t],
                            [s.prev EXCEPT ![t] = z, ![h] = t], h, a)
  <2>1. SUFFICES ASSUME h # Null
                 PROVE  /\ h \in TxIDs /\ z = q[Len(q)] /\ z \in TxIDs /\ s.next[z] = h
                        /\ h = q[1] /\ Len(q) >= 1
                        /\ IsList([s.next EXCEPT ![t] = h, ![z] = t],
                                  [s.prev EXCEPT ![t] = z, ![h] = t], h, a)
    OBVIOUS
  <2>2. h \in TxIDs
    BY <1>0, <1>1, <2>1 DEF BlockOrNull
  <2>3. IsCycle(s.next, s.prev, h, q)
    BY <1>2, <2>2, ListFacts
  <2>4. Len(q) >= 1 /\ h = q[1]
    BY <2>3 DEF IsCycle
  <2> DEFINE next == s.next
             prev == s.prev
  <2>5. next \in Links /\ prev \in Links /\ IsList(next, prev, h, q)
    BY <1>1, <1>2
  <2> HIDE DEF h, q, next, prev
  <2>6. /\ prev[h] = q[Len(q)] /\ prev[h] \in TxIDs
        /\ next[prev[h]] = h
        /\ IsList([next EXCEPT ![t] = h, ![prev[h]] = t],
                  [prev EXCEPT ![t] = prev[h], ![h] = t], h, Append(q, t))
    BY <1>3, <2>2, <2>5, AppendList
  <2> QED BY <2>2, <2>4, <2>6 DEF next, prev
<1>6. /\ l \in PoolType
      /\ l.tables = s.tables
      /\ l.count = [s.count EXCEPT ![p] = s.count[p] + 1]
      /\ h = Null => /\ l.head = [s.head EXCEPT ![p] = t]
                     /\ l.next = [s.next EXCEPT ![t] = t]
                     /\ l.prev = [s.prev EXCEPT ![t] = t]
      /\ h # Null => /\ l.head = s.head
                     /\ l.next = [s.next EXCEPT ![t] = h, ![z] = t]
                     /\ l.prev = [s.prev EXCEPT ![t] = z, ![h] = t]
  <2>1. h # Null => z \in TxIDs /\ s.next[z] = h
    BY <1>5
  <2>2. h = s.head[p] /\ z = s.prev[h]
    OBVIOUS
  <2> HIDE DEF h, z
  <2>3. IsLinked(s, p, t, h, z, l)
    BY <1>0, <2>1, <2>2, LinkFields
  <2> QED BY <2>3 DEF IsLinked
<1> HIDE DEF h, z, q, a
<1>7. Tree(l) /\ \A x : BucketOf(l, x) = BucketOf(s, x)
  BY <1>0, <1>6 DEF Tree, BucketOf
<1>8. IsList(l.next, l.prev, l.head[p], a)
  <2>1. CASE h = Null
    <3>1. a = <<t>>
      BY <1>2, <2>1 DEF a
    <3>2. l.head[p] = t
      BY <1>0, <1>1, <1>6, <2>1
    <3>3. IsList([s.next EXCEPT ![t] = t], [s.prev EXCEPT ![t] = t], t, <<t>>)
      BY <1>1, SingleList
    <3> QED BY <1>6, <2>1, <3>1, <3>2, <3>3
  <2>2. CASE h # Null
    BY <1>5, <1>6, <2>2 DEF h
  <2> QED BY <2>1, <2>2
<1>9. ASSUME NEW i \in 1 .. Len(a) PROVE BucketOf(l, a[i]) = p
  <2>1. i \in 1 .. Len(q) \/ i = Len(q) + 1
    BY <1>2, <1>4
  <2>2. CASE i \in 1 .. Len(q)
    <3>1. BucketOf(s, q[i]) = p
      BY <1>0, <2>2, RepWhere DEF q
    <3> QED BY <1>4, <1>7, <2>2, <3>1
  <2>3. CASE i = Len(q) + 1
    BY <1>4, <1>7, <2>3
  <2> QED BY <2>1, <2>2, <2>3
<1>10. l.count[p] = s.count[p] + 1 /\ Len(a) <= l.count[p]
  <2>1. Len(q) <= s.count[p]
    BY <1>0 DEF Rep, q
  <2>2. l.count[p] = s.count[p] + 1 /\ s.count[p] \in Nat /\ Len(q) \in Nat
    BY <1>0, <1>1, <1>2, <1>6
  <2> QED BY <1>4, <2>1, <2>2
<1>11. ASSUME NEW o \in Places, o # p
       PROVE  /\ l.head[o] = s.head[o] /\ l.count[o] = s.count[o]
              /\ \A i \in 1 .. Len(Q[o]) : /\ l.next[Q[o][i]] = s.next[Q[o][i]]
                                           /\ l.prev[Q[o][i]] = s.prev[Q[o][i]]
                                           /\ BucketOf(l, Q[o][i]) = o
  <2>1. l.head[o] = s.head[o] /\ l.count[o] = s.count[o]
    BY <1>0, <1>1, <1>6, <1>11
  <2>2. ASSUME NEW i \in 1 .. Len(Q[o])
        PROVE  /\ l.next[Q[o][i]] = s.next[Q[o][i]]
               /\ l.prev[Q[o][i]] = s.prev[Q[o][i]]
               /\ BucketOf(l, Q[o][i]) = o
    <3> DEFINE x == Q[o][i]
    <3>1. x \in TxIDs /\ BucketOf(s, x) = o
      BY RepWhere
    <3> HIDE DEF x
    <3>2. x # t
      BY <1>11, <3>1
    <3>3. h # Null => x # h /\ x # z
      <4>1. \A k \in 1 .. Len(q) : BucketOf(s, q[k]) = p
        BY <1>0, RepWhere DEF q
      <4>2. SUFFICES ASSUME h # Null PROVE x # h /\ x # z
        OBVIOUS
      <4>3. 1 \in 1 .. Len(q) /\ Len(q) \in 1 .. Len(q)
        BY <1>2, <1>5, <4>2
      <4>4. BucketOf(s, h) = p /\ BucketOf(s, z) = p
        BY <1>5, <4>1, <4>2, <4>3
      <4> QED BY <1>11, <3>1, <4>4
    <3>4. l.next[x] = s.next[x] /\ l.prev[x] = s.prev[x]
      BY <1>1, <1>6, <3>1, <3>2, <3>3 DEF Links
    <3> QED BY <1>7, <3>1, <3>4 DEF x
  <2> QED BY <2>1, <2>2
<1>12. Rep(l, With(Q, p, a))
  <2>1. Fits(l, p, a)
    BY <1>8, <1>9, <1>10 DEF Fits
  <2>2. SameBut(s, l, Q, p)
    BY <1>11 DEF SameBut
  <2> QED BY <1>0, <1>4, <1>6, <1>7, <2>1, <2>2, RepChange
<1> QED BY <1>6, <1>10, <1>12 DEF a, q

\* autoScaleUp leaves the bucket without blocks, and the other lists as they are.
LEMMA SplitRep ==
  ASSUME NEW s, NEW Q, Rep(s, Q), NEW t \in TxIDs, NEW p, p = BucketOf(s, t),
         Len(p) < IDLength, NEW r, r = Split(s, p)
  PROVE  /\ Rep(r, With(Q, p, << >>))
         /\ r.tables = s.tables \cup {p}
<1>0. s \in PoolType /\ Tree(s) /\ p \in Places /\ Q \in [Places -> Seq(TxIDs)]
  BY RepFound DEF Rep
<1>1. s.count \in [Places -> Nat] /\ s.head \in [Places -> BlockOrNull]
  BY <1>0, PoolFields
<1> DEFINE tables == s.tables \cup {p}
           head == [s.head EXCEPT ![p] = Null]
           count == [s.count EXCEPT ![p] = 0]
<1>2. tables \in SUBSET (Places \cup {<< >>})
  BY <1>0 DEF PoolType
<1>3. head \in [Places -> TxIDs \cup {Null}] /\ count \in [Places -> Nat]
  BY <1>1 DEF BlockOrNull
<1>4. r = [s EXCEPT !.tables = tables, !.head = head, !.count = count]
  BY DEF Split
<1>5. /\ head[p] = Null /\ count[p] = 0
      /\ \A o \in Places : o # p => head[o] = s.head[o] /\ count[o] = s.count[o]
  BY <1>0, <1>1
<1> HIDE DEF tables, head, count
<1>6. /\ r \in PoolType /\ r.tables = tables /\ r.head = head /\ r.count = count
      /\ r.next = s.next /\ r.prev = s.prev
  BY <1>0, <1>2, <1>3, <1>4 DEF PoolType
<1>7. Tree(r)
  <2>1. Front(p) \in s.tables
    BY <1>0, BucketType
  <2> QED BY <1>0, <1>6, <2>1 DEF Tree, tables
<1>8. r.tables = s.tables \cup {p}
  BY <1>6 DEF tables
<1>9. Fits(r, p, << >>)
  <2>1. Len(<< >>) = 0 /\ ~\E i \in 1 .. 0 : TRUE
    BY EmptySeq
  <2>2. IsList(r.next, r.prev, r.head[p], << >>)
    BY <1>5, <1>6 DEF IsList
  <2>3. \A i \in 1 .. Len(<< >>) : BucketOf(r, << >>[i]) = p
    BY <2>1
  <2>4. Len(<< >>) <= r.count[p]
    BY <1>5, <1>6, <2>1
  <2> QED BY <2>2, <2>3, <2>4 DEF Fits
<1>10. SameBut(s, r, Q, p)
  <2>1. ASSUME NEW o \in Places, o # p, NEW i \in 1 .. Len(Q[o])
        PROVE  BucketOf(r, Q[o][i]) = o
    <3> DEFINE x == Q[o][i]
    <3>1. x \in TxIDs /\ BucketOf(s, x) = o
      BY RepWhere
    <3> HIDE DEF x
    <3>2. BucketOf(s, x) # p
      BY <2>1, <3>1
    <3>3. BucketOf(r, x) = BucketOf(s, x)
      BY <1>0, <1>8, <3>1, <3>2, BucketSplit
    <3> QED BY <3>1, <3>3 DEF x
  <2> QED BY <1>5, <1>6, <2>1 DEF SameBut
<1>11. << >> \in Seq(TxIDs)
  BY EmptySeq
<1> QED BY <1>0, <1>6, <1>7, <1>8, <1>9, <1>10, <1>11, RepChange

\* The blocks of all lists after one list changed.
LEMMA AllChange ==
  ASSUME NEW s, NEW Q, Rep(s, Q), NEW p \in Places, NEW q
  PROVE  All(With(Q, p, q)) = (All(Q) \ Range(Q[p])) \cup Range(q)
<1> DEFINE R == With(Q, p, q)
<1>0. Q \in [Places -> Seq(TxIDs)]
  BY DEF Rep
<1>1. R[p] = q /\ \A o \in Places : o # p => R[o] = Q[o]
  BY <1>0 DEF With
<1> HIDE DEF R
<1>2. ASSUME NEW o \in Places, o # p, NEW x \in Range(Q[o]) PROVE x \notin Range(Q[p])
  <2>1. PICK i \in 1 .. Len(Q[o]) : Q[o][i] = x
    BY <1>0, InRange
  <2>2. BucketOf(s, x) = o
    BY <2>1, RepWhere
  <2>3. SUFFICES ASSUME x \in Range(Q[p]) PROVE FALSE
    OBVIOUS
  <2>4. PICK j \in 1 .. Len(Q[p]) : Q[p][j] = x
    BY <1>0, <2>3, InRange
  <2>5. BucketOf(s, x) = p
    BY <2>4, RepWhere
  <2> QED BY <1>2, <2>2, <2>5
<1>3. ASSUME NEW x \in All(R) PROVE x \in (All(Q) \ Range(Q[p])) \cup Range(q)
  <2>1. PICK o \in Places : x \in Range(R[o])
    BY DEF All
  <2>2. CASE o = p
    BY <1>1, <2>1, <2>2
  <2>3. CASE o # p
    <3>1. x \in Range(Q[o])
      BY <1>1, <2>1, <2>3
    <3> QED BY <1>2, <2>3, <3>1 DEF All
  <2> QED BY <2>2, <2>3
<1>4. ASSUME NEW x \in (All(Q) \ Range(Q[p])) \cup Range(q) PROVE x \in All(R)
  <2>1. CASE x \in Range(q)
    BY <1>1, <2>1 DEF All
  <2>2. CASE x \in All(Q) \ Range(Q[p])
    <3>1. PICK o \in Places : x \in Range(Q[o])
      BY <2>2 DEF All
    <3>2. o # p
      BY <2>2, <3>1
    <3> QED BY <1>1, <3>1, <3>2 DEF All
  <2> QED BY <1>4, <2>1, <2>2
<1> QED BY <1>3, <1>4 DEF R

LEMMA RangeEmpty == Range(<< >>) = {}
<1> DEFINE e == << >>
<1>1. e \in Seq(TxIDs) /\ Len(e) = 0
  BY EmptySeq
<1> HIDE DEF e
<1>2. ASSUME NEW x PROVE x \notin Range(e)
  <2>1. x \in Range(e) <=> \E i \in 1 .. Len(e) : e[i] = x
    BY <1>1, InRange
  <2> QED BY <1>1, <2>1
<1> QED BY <1>2 DEF e

LEMMA RangeAppend ==
  ASSUME NEW q \in Seq(TxIDs), NEW t \in TxIDs
  PROVE  Range(Append(q, t)) = Range(q) \cup {t}
<1> DEFINE a == Append(q, t)
<1>1. /\ a \in Seq(TxIDs) /\ Len(a) = Len(q) + 1
      /\ \A i \in 1 .. Len(q) : a[i] = q[i]
      /\ a[Len(q) + 1] = t
  BY AppendProperties
<1> HIDE DEF a
<1>2. Len(q) \in Nat
  OBVIOUS
<1>3. ASSUME NEW x PROVE x \in Range(a) <=> x \in Range(q) \/ x = t
  <2>1. x \in Range(a) <=> \E i \in 1 .. Len(q) + 1 : a[i] = x
    BY <1>1, InRange
  <2>2. x \in Range(q) <=> \E i \in 1 .. Len(q) : q[i] = x
    BY InRange
  <2>3. \A i : i \in 1 .. Len(q) + 1 <=> i \in 1 .. Len(q) \/ i = Len(q) + 1
    BY <1>2
  <2> QED BY <1>1, <2>1, <2>2, <2>3
<1> QED BY <1>3 DEF a

LEMMA RangeWithout ==
  ASSUME NEW q \in Seq(TxIDs), NEW j \in 1 .. Len(q), Without(q, j) \in Seq(TxIDs),
         Len(Without(q, j)) = Len(q) - 1,
         \A i, k \in 1 .. Len(q) : q[i] = q[k] => i = k
  PROVE  Range(Without(q, j)) = Range(q) \ {q[j]}
<1> DEFINE a == Without(q, j)
           n == Len(q)
<1>1. \A i \in 1 .. n - 1 : a[i] = IF i < j THEN q[i] ELSE q[i + 1]
  BY DEF Without
<1>2. n \in Nat /\ a \in Seq(TxIDs) /\ Len(a) = n - 1 /\ j \in 1 .. n
      /\ \A i, k \in 1 .. n : q[i] = q[k] => i = k
  OBVIOUS
<1>0. ASSUME NEW x PROVE x \in Range(q) <=> \E i \in 1 .. n : q[i] = x
  BY InRange
<1> HIDE DEF a, n
<1>3. ASSUME NEW x \in Range(a) PROVE x \in Range(q) \ {q[j]}
  <2>1. PICK i \in 1 .. n - 1 : a[i] = x
    BY <1>2, InRange
  <2> DEFINE c == IF i < j THEN i ELSE i + 1
  <2>2. c \in 1 .. n /\ c # j /\ q[c] = x
    BY <1>1, <1>2, <2>1
  <2> HIDE DEF c
  <2> QED BY <1>0, <1>2, <2>2
<1>4. ASSUME NEW x \in Range(q) \ {q[j]} PROVE x \in Range(a)
  <2>1. PICK i \in 1 .. n : q[i] = x
    BY <1>0
  <2>2. i # j
    BY <2>1
  <2> DEFINE c == IF i < j THEN i ELSE i - 1
  <2>3. c \in 1 .. n - 1 /\ a[c] = q[i]
    <3>1. CASE i < j
      <4>1. i \in 1 .. n - 1
        BY <1>2, <3>1
      <4> QED BY <1>1, <3>1, <4>1
    <3>2. CASE ~(i < j)
      <4>1. i - 1 \in 1 .. n - 1 /\ ~(i - 1 < j) /\ (i - 1) + 1 = i
        BY <1>2, <2>2, <3>2
      <4> QED BY <1>1, <3>2, <4>1
    <3> QED BY <3>1, <3>2
  <2> HIDE DEF c
  <2>4. \E k \in 1 .. Len(a) : a[k] = x
    BY <1>2, <2>1, <2>3
  <2> QED BY <1>2, <2>4, InRange
<1> QED BY <1>3, <1>4 DEF a

\* A pool after TxCBBucket::remove of a head, and of another block between x and y.
Emptied(s, p) == [s EXCEPT !.head = [s.head EXCEPT ![p] = Null]]
Closed(s, x, y) ==
  [s EXCEPT !.next = [s.next EXCEPT ![x] = y], !.prev = [s.prev EXCEPT ![y] = x]]

LEMMA RemoveHeadFields ==
  ASSUME NEW s \in PoolType, NEW p \in Places, NEW r, r = Emptied(s, p)
  PROVE  /\ r \in PoolType /\ r.tables = s.tables /\ r.count = s.count
         /\ r.next = s.next /\ r.prev = s.prev
         /\ r.head[p] = Null /\ \A o \in Places : o # p => r.head[o] = s.head[o]
<1> DEFINE head == [s.head EXCEPT ![p] = Null]
<1>1. s.head \in [Places -> TxIDs \cup {Null}]
  BY DEF PoolType
<1>2. /\ head \in [Places -> TxIDs \cup {Null}] /\ head[p] = Null
      /\ \A o \in Places : o # p => head[o] = s.head[o]
  BY <1>1
<1>3. r = [s EXCEPT !.head = head]
  BY DEF Emptied
<1> HIDE DEF head
<1>4. /\ r \in PoolType /\ r.tables = s.tables /\ r.count = s.count
      /\ r.next = s.next /\ r.prev = s.prev /\ r.head = head
  BY <1>2, <1>3 DEF PoolType
<1> QED BY <1>2, <1>4

IsClosed(s, x, y, r) ==
  /\ r \in PoolType /\ r.tables = s.tables /\ r.count = s.count /\ r.head = s.head
  /\ r.next = [s.next EXCEPT ![x] = y] /\ r.prev = [s.prev EXCEPT ![y] = x]

LEMMA RemoveBlockFields ==
  ASSUME NEW s \in PoolType, NEW x \in TxIDs, NEW y \in TxIDs,
         NEW r, r = Closed(s, x, y)
  PROVE  IsClosed(s, x, y, r)
<1> DEFINE next == [s.next EXCEPT ![x] = y]
           prev == [s.prev EXCEPT ![y] = x]
<1>1. next \in [TxIDs -> TxIDs \cup {Null}] /\ prev \in [TxIDs -> TxIDs \cup {Null}]
  BY DEF PoolType
<1>2. r = [s EXCEPT !.next = next, !.prev = prev]
  BY DEF Closed
<1> HIDE DEF next, prev
<1>3. /\ r \in PoolType /\ r.tables = s.tables /\ r.count = s.count /\ r.head = s.head
      /\ r.next = next /\ r.prev = prev
  BY <1>1, <1>2 DEF PoolType
<1> QED BY <1>3 DEF next, prev, IsClosed

\* In pool r the bucket p of s has the list q, which lost t, or its blocks with t.
IsRemoval(s, Q, t, p, r, q) ==
  /\ Rep(r, With(Q, p, q))
  /\ r.count = s.count
  /\ Len(q) <= Len(Q[p])
  /\ Range(q) = Range(Q[p]) \ (IF t = s.head[p] THEN Range(Q[p]) ELSE {t})

\* TxCBBucket::remove empties the list when the block is its head, and otherwise
\* takes only the block out of it.
LEMMA RemovedRep ==
  ASSUME NEW s, NEW Q, Rep(s, Q), NEW t \in TxIDs, NEW p, p = BucketOf(s, t),
         NEW r, r = Removed(s, t)
  PROVE  \E q \in Seq(TxIDs) : IsRemoval(s, Q, t, p, r, q)
<1>0. s \in PoolType /\ Tree(s) /\ p \in Places /\ Q \in [Places -> Seq(TxIDs)]
  BY RepFound DEF Rep
<1>1. s.next \in Links /\ s.prev \in Links /\ s.head \in [Places -> BlockOrNull]
  BY <1>0, PoolFields
<1> DEFINE q == Q[p]
           h == s.head[p]
<1>2. q \in Seq(TxIDs) /\ IsList(s.next, s.prev, h, q) /\ (h = Null <=> q = << >>)
  BY <1>0, RepFacts DEF Rep
<1>3. Found(s, t) <=> \E i \in 1 .. Len(q) : q[i] = t
  BY <1>0, <1>2, RepFound, InRange
<1>4. \A i \in 1 .. Len(q) : BucketOf(s, q[i]) = p
  BY <1>0, RepWhere
<1>5. Fits(s, p, q)
  BY <1>0 DEF Rep, Fits
<1>6. h \in TxIDs => IsCycle(s.next, s.prev, h, q)
  BY <1>2, ListFacts
<1>7. CASE ~Found(s, t)
  <2>1. r = s
    BY <1>7 DEF Removed
  <2>2. With(Q, p, q) = Q
    BY <1>0 DEF With
  <2>3. t # h
    <3>1. SUFFICES ASSUME t = h PROVE FALSE
      OBVIOUS
    <3>2. h = q[1] /\ 1 \in 1 .. Len(q)
      BY <1>6, <3>1 DEF IsCycle
    <3> QED BY <1>3, <1>7, <3>1, <3>2
  <2>4. t \notin Range(q)
    BY <1>2, <1>3, <1>7, InRange
  <2>5. Range(q) = Range(q) \ (IF t = h THEN Range(q) ELSE {t})
    BY <2>3, <2>4
  <2>6. Len(q) <= Len(q)
    BY <1>2
  <2>7. Rep(r, With(Q, p, q)) /\ r.count = s.count
    BY <2>1, <2>2
  <2> QED BY <1>2, <2>5, <2>6, <2>7 DEF IsRemoval
<1>8. CASE Found(s, t)
  <2>1. PICK j \in 1 .. Len(q) : q[j] = t
    BY <1>3, <1>8
  <2>2. h # Null /\ h \in TxIDs
    <3>1. q # << >>
      BY <2>1, EmptySeq
    <3> QED BY <1>0, <1>1, <1>2, <3>1 DEF BlockOrNull
  <2>3. IsCycle(s.next, s.prev, h, q)
    BY <1>6, <2>2
  <2>4. Len(q) \in Nat /\ h = q[1] /\ \A i, k \in 1 .. Len(q) : q[i] = q[k] => i = k
    BY <2>3 DEF IsCycle
  <2> HIDE DEF q, h
  <2>5. CASE t = h
    <3> DEFINE e == << >>
    <3>1. r = Emptied(s, p)
      BY <1>8, <2>5 DEF Removed, Emptied, h
    <3>2. /\ r \in PoolType /\ r.tables = s.tables /\ r.count = s.count
          /\ r.next = s.next /\ r.prev = s.prev
          /\ r.head[p] = Null /\ \A o \in Places : o # p => r.head[o] = s.head[o]
      BY <1>0, <3>1, RemoveHeadFields
    <3>3. Tree(r) /\ \A x : BucketOf(r, x) = BucketOf(s, x)
      BY <1>0, <3>2 DEF Tree, BucketOf
    <3>4. e \in Seq(TxIDs) /\ Len(e) = 0 /\ Range(e) = {} /\ IsList(r.next, r.prev, r.head[p], e)
      BY <3>2, EmptySeq, RangeEmpty DEF IsList
    <3> HIDE DEF e
    <3>5. Fits(r, p, e)
      <4>1. s.count[p] \in Nat
        BY <1>0 DEF PoolType
      <4> QED BY <3>2, <3>4, <4>1 DEF Fits
    <3>6. SameBut(s, r, Q, p)
      BY <3>2, <3>3, RepWhere DEF SameBut
    <3>7. Rep(r, With(Q, p, e))
      BY <1>0, <3>2, <3>3, <3>4, <3>5, <3>6, RepChange
    <3>8. Range(e) = Range(q) \ (IF t = h THEN Range(q) ELSE {t})
      BY <2>5, <3>4
    <3>9. Len(e) <= Len(q)
      BY <2>4, <3>4
    <3> QED BY <3>2, <3>4, <3>7, <3>8, <3>9 DEF q, h, IsRemoval
  <2>6. CASE t # h
    <3> DEFINE x == s.prev[t]
               y == s.next[t]
               a == Without(q, j)
    <3>1. j \in 2 .. Len(q)
      BY <2>1, <2>4, <2>6
    <3>2. /\ x \in TxIDs /\ y \in TxIDs /\ x # t /\ y # t
          /\ x \in Range(q) /\ y \in Range(q)
          /\ a \in Seq(TxIDs) /\ Len(a) = Len(q) - 1
          /\ IsList([s.next EXCEPT ![x] = y], [s.prev EXCEPT ![y] = x], h, a)
      <4> DEFINE next == s.next
                 prev == s.prev
      <4>1. next \in Links /\ prev \in Links /\ IsList(next, prev, h, q)
        BY <1>1, <1>2 DEF q, h
      <4> HIDE DEF next, prev
      <4>2. /\ prev[q[j]] \in TxIDs /\ next[q[j]] \in TxIDs
            /\ prev[q[j]] # q[j] /\ next[q[j]] # q[j]
            /\ prev[q[j]] \in Range(q) /\ next[q[j]] \in Range(q)
            /\ Without(q, j) \in Seq(TxIDs) /\ Len(Without(q, j)) = Len(q) - 1
            /\ IsList([next EXCEPT ![prev[q[j]]] = next[q[j]]],
                      [prev EXCEPT ![next[q[j]]] = prev[q[j]]], h, Without(q, j))
        BY <2>2, <3>1, <4>1, RemoveList
      <4> QED BY <2>1, <4>2 DEF next, prev
    <3>3. Range(a) = Range(q) \ {t}
      <4>1. q \in Seq(TxIDs) /\ a = Without(q, j) /\ q[j] = t
        BY <1>2, <2>1 DEF q
      <4> HIDE DEF a
      <4> QED BY <2>4, <3>2, <4>1, RangeWithout
    <3>4. r = Closed(s, x, y)
      BY <1>8, <2>6, <3>2 DEF Removed, Closed, h
    <3>5. \A i \in 1 .. Len(a) : a[i] \in Range(q)
      BY <3>2, <3>3, InRange
    <3> HIDE DEF x, y, a
    <3>6. /\ r \in PoolType /\ r.tables = s.tables /\ r.count = s.count /\ r.head = s.head
          /\ r.next = [s.next EXCEPT ![x] = y] /\ r.prev = [s.prev EXCEPT ![y] = x]
      <4>1. s \in PoolType /\ x \in TxIDs /\ y \in TxIDs
        BY <1>0, <3>2
      <4>2. IsClosed(s, x, y, r)
        BY <3>4, <4>1, RemoveBlockFields
      <4> QED BY <4>2 DEF IsClosed
    <3>7. Tree(r) /\ \A b : BucketOf(r, b) = BucketOf(s, b)
      BY <1>0, <3>6 DEF Tree, BucketOf
    <3>8. ASSUME NEW b \in Range(q) PROVE BucketOf(s, b) = p
      <4>1. PICK i \in 1 .. Len(q) : q[i] = b
        BY <1>2, InRange DEF q
      <4> QED BY <1>4, <4>1 DEF q
    <3>9. Fits(r, p, a)
      <4>1. Len(q) <= s.count[p] /\ s.count[p] \in Nat
        BY <1>0, <1>5 DEF Fits, PoolType, q
      <4>2. Len(a) <= r.count[p]
        BY <2>4, <3>2, <3>6, <4>1
      <4>3. IsList(r.next, r.prev, r.head[p], a)
        BY <3>2, <3>6 DEF h
      <4> QED BY <3>5, <3>7, <3>8, <4>2, <4>3 DEF Fits
    <3>10. SameBut(s, r, Q, p)
      <4>1. ASSUME NEW o \in Places, o # p, NEW i \in 1 .. Len(Q[o])
            PROVE  /\ r.next[Q[o][i]] = s.next[Q[o][i]] /\ r.prev[Q[o][i]] = s.prev[Q[o][i]]
                   /\ BucketOf(r, Q[o][i]) = o
        <5> DEFINE b == Q[o][i]
        <5>1. b \in TxIDs /\ BucketOf(s, b) = o
          BY RepWhere
        <5> HIDE DEF b
        <5>2. b # x /\ b # y
          BY <3>2, <3>8, <4>1, <5>1
        <5>3. r.next[b] = s.next[b] /\ r.prev[b] = s.prev[b]
          BY <1>1, <3>6, <5>1, <5>2 DEF Links
        <5> QED BY <3>7, <5>1, <5>3 DEF b
      <4> QED BY <3>6, <4>1 DEF SameBut
    <3>11. Rep(r, With(Q, p, a))
      BY <1>0, <3>2, <3>6, <3>7, <3>9, <3>10, RepChange
    <3>12. Range(a) = Range(q) \ (IF t = h THEN Range(q) ELSE {t})
      BY <2>6, <3>3
    <3>13. Len(a) <= Len(q)
      BY <2>4, <3>2
    <3> QED BY <3>2, <3>6, <3>11, <3>12, <3>13 DEF q, h, IsRemoval
  <2> QED BY <2>5, <2>6
<1> QED BY <1>7, <1>8

-----------------------------------------------------------------------------
(* An addition with its splits                                             *)

\* The blocks that are still to be added are different, and in no list.
Pending(x, Q) ==
  /\ Rep(x.pool, Q) /\ Small(Q)
  /\ x.todo \in Seq(TxIDs)
  /\ \A i, j \in 1 .. Len(x.todo) : x.todo[i] = x.todo[j] => i = j
  /\ \A i \in 1 .. Len(x.todo) : x.todo[i] \notin All(Q)

Depth(s, t) == Len(BucketOf(s, t))

\* The moves that may still come: a block to be added can move once on its layer
\* and on each one below, a listed block on the layers below.
Left(x) ==
  {w \in TxIDs \X (1 .. IDLength) :
     \/ w[1] \in Range(x.todo) /\ w[2] <= IDLength - Depth(x.pool, w[1]) + 1
     \/ Found(x.pool, w[1]) /\ w[2] <= IDLength - Depth(x.pool, w[1])}

\* The first of the pending blocks and the others.
LEMMA HeadTail ==
  ASSUME NEW q \in Seq(TxIDs), q # << >>,
         \A i, j \in 1 .. Len(q) : q[i] = q[j] => i = j
  PROVE  /\ Head(q) \in TxIDs /\ Tail(q) \in Seq(TxIDs)
         /\ Head(q) = q[1] /\ 1 \in 1 .. Len(q)
         /\ Range(q) = {Head(q)} \cup Range(Tail(q))
         /\ Head(q) \notin Range(Tail(q))
         /\ \A i, j \in 1 .. Len(Tail(q)) : Tail(q)[i] = Tail(q)[j] => i = j
<1> DEFINE t == Head(q)
           u == Tail(q)
<1>1. /\ t \in TxIDs /\ u \in Seq(TxIDs) /\ Len(u) = Len(q) - 1
      /\ \A i \in 1 .. Len(u) : u[i] = q[i + 1]
  BY HeadTailProperties
<1>2. t = q[1]
  OBVIOUS
<1>3. Len(q) \in Nat /\ Len(q) # 0
  BY EmptySeq
<1> HIDE DEF t, u
<1>4. 1 \in 1 .. Len(q) /\ \A i \in 1 .. Len(u) : i + 1 \in 1 .. Len(q) /\ i + 1 # 1
  BY <1>1, <1>3
<1>5. \A i, j \in 1 .. Len(u) : u[i] = u[j] => i = j
  <2>1. SUFFICES ASSUME NEW i \in 1 .. Len(u), NEW j \in 1 .. Len(u), u[i] = u[j]
                 PROVE  i = j
    OBVIOUS
  <2>2. i + 1 = j + 1
    BY <1>1, <1>4, <2>1
  <2>3. Len(u) \in Nat
    BY <1>1, <1>3
  <2> QED BY <2>2, <2>3
<1>6. ASSUME NEW x PROVE x \in Range(q) <=> x = t \/ x \in Range(u)
  <2>1. x \in Range(q) <=> \E i \in 1 .. Len(q) : q[i] = x
    BY InRange
  <2>2. x \in Range(u) <=> \E i \in 1 .. Len(u) : u[i] = x
    BY <1>1, InRange
  <2>3. \A i \in 1 .. Len(q) : i = 1 \/ (i - 1 \in 1 .. Len(u) /\ (i - 1) + 1 = i)
    BY <1>1, <1>3
  <2>4. ASSUME x \in Range(q) PROVE x = t \/ x \in Range(u)
    <3>1. PICK i \in 1 .. Len(q) : q[i] = x
      BY <2>1, <2>4
    <3>2. i # 1 => u[i - 1] = x
      BY <1>1, <2>3, <3>1
    <3> QED BY <1>2, <2>2, <2>3, <3>1, <3>2
  <2>5. ASSUME x \in Range(u) PROVE x \in Range(q)
    <3>1. PICK i \in 1 .. Len(u) : u[i] = x
      BY <2>2, <2>5
    <3> QED BY <1>1, <1>4, <2>1, <3>1
  <2> QED BY <1>2, <1>4, <2>1, <2>4, <2>5
<1>7. t \notin Range(u)
  <2>1. t \in Range(u) <=> \E i \in 1 .. Len(u) : u[i] = t
    BY <1>1, InRange
  <2> QED BY <1>1, <1>2, <1>4, <2>1
<1> QED BY <1>1, <1>2, <1>4, <1>5, <1>6, <1>7 DEF t, u

\* The members of two sequences, one after the other.
LEMMA ConcatDifferent ==
  ASSUME NEW q \in Seq(TxIDs), NEW u \in Seq(TxIDs),
         \A i, j \in 1 .. Len(q) : q[i] = q[j] => i = j,
         \A i, j \in 1 .. Len(u) : u[i] = u[j] => i = j,
         \A i \in 1 .. Len(q), j \in 1 .. Len(u) : q[i] # u[j]
  PROVE  /\ q \o u \in Seq(TxIDs)
         /\ Range(q \o u) = Range(q) \cup Range(u)
         /\ \A i, j \in 1 .. Len(q \o u) : (q \o u)[i] = (q \o u)[j] => i = j
<1> DEFINE c == q \o u
           n == Len(q)
           m == Len(u)
<1>1. /\ c \in Seq(TxIDs) /\ Len(c) = n + m
      /\ \A i \in 1 .. n + m : c[i] = IF i <= n THEN q[i] ELSE u[i - n]
  BY ConcatProperties
<1>2. Range(c) = Range(q) \cup Range(u)
  BY RangeConcatenation
<1>3. n \in Nat /\ m \in Nat
  OBVIOUS
<1>4. /\ \A i, j \in 1 .. n : q[i] = q[j] => i = j
      /\ \A i, j \in 1 .. m : u[i] = u[j] => i = j
      /\ \A i \in 1 .. n, j \in 1 .. m : q[i] # u[j]
  OBVIOUS
<1> HIDE DEF c, n, m
<1>5. ASSUME NEW i \in 1 .. n + m, NEW j \in 1 .. n + m, c[i] = c[j] PROVE i = j
  <2>1. CASE i <= n /\ j <= n
    <3>1. i \in 1 .. n /\ j \in 1 .. n
      BY <1>3, <2>1
    <3> QED BY <1>1, <1>4, <1>5, <2>1, <3>1
  <2>2. CASE i <= n /\ ~(j <= n)
    <3>1. i \in 1 .. n /\ j - n \in 1 .. m
      BY <1>3, <2>2
    <3> QED BY <1>1, <1>4, <1>5, <2>2, <3>1
  <2>3. CASE ~(i <= n) /\ j <= n
    <3>1. i - n \in 1 .. m /\ j \in 1 .. n
      BY <1>3, <2>3
    <3> QED BY <1>1, <1>4, <1>5, <2>3, <3>1
  <2>4. CASE ~(i <= n) /\ ~(j <= n)
    <3>1. i - n \in 1 .. m /\ j - n \in 1 .. m
      BY <1>3, <2>4
    <3>2. i - n = j - n
      BY <1>1, <1>4, <1>5, <2>4, <3>1
    <3> QED BY <1>3, <3>2
  <2> QED BY <2>1, <2>2, <2>3, <2>4
<1> QED BY <1>1, <1>2, <1>5 DEF c

LEMMA WithFacts ==
  ASSUME NEW Q \in [Places -> Seq(TxIDs)], NEW p \in Places, NEW q
  PROVE  With(Q, p, q)[p] = q /\ \A o \in Places : o # p => With(Q, p, q)[o] = Q[o]
BY DEF With

\* The block t of the blocks q to be added, u the others, was appended to the list
\* of its bucket p: l and R are the pool and the lists now.
IsLinking(s, q, Q, t, u, p, l, R) ==
  /\ t \in TxIDs /\ p \in Places /\ ~Found(s, t)
  /\ t \in Range(q) /\ t \notin Range(u)
  /\ Range(q) = {t} \cup Range(u)
  /\ u \in Seq(TxIDs)
  /\ \A i, j \in 1 .. Len(u) : u[i] = u[j] => i = j
  /\ Range(q) \cap All(Q) = {}
  /\ Rep(l, R)
  /\ l.tables = s.tables /\ l.count[p] = s.count[p] + 1
  /\ All(R) = All(Q) \cup {t}
  /\ Q[p] \in Seq(TxIDs) /\ R[p] = Append(Q[p], t)
  /\ \A o \in Places : o # p => R[o] = Q[o]

\* One move, of a block that is added to its bucket.
LEMMA MoveLinks ==
  ASSUME NEW x, NEW Q, Pending(x, Q), x.todo # << >>, NEW t, t = Head(x.todo),
         NEW p, p = BucketOf(x.pool, t), NEW l, l = Link(x.pool, p, t)
  PROVE  IsLinking(x.pool, x.todo, Q, t, Tail(x.todo), p, l, With(Q, p, Append(Q[p], t)))
<1> DEFINE q == x.todo
           s == x.pool
<1>0. /\ Rep(s, Q) /\ q \in Seq(TxIDs) /\ q # << >>
      /\ \A i, j \in 1 .. Len(q) : q[i] = q[j] => i = j
      /\ \A i \in 1 .. Len(q) : q[i] \notin All(Q)
  BY DEF Pending
<1>a. p = BucketOf(s, t) /\ l = Link(s, p, t) /\ t = Head(q)
  OBVIOUS
<1> HIDE DEF q, s
<1>1. /\ Head(q) \in TxIDs /\ Tail(q) \in Seq(TxIDs)
      /\ Head(q) = q[1] /\ 1 \in 1 .. Len(q)
      /\ Range(q) = {Head(q)} \cup Range(Tail(q))
      /\ Head(q) \notin Range(Tail(q))
      /\ \A i, j \in 1 .. Len(Tail(q)) : Tail(q)[i] = Tail(q)[j] => i = j
  BY <1>0, HeadTail
<1>2. Range(q) \cap All(Q) = {}
  BY <1>0, InRange
<1>3. t \in TxIDs /\ t \notin All(Q)
  BY <1>0, <1>1, <1>a
<1>4. ~Found(s, t) /\ p \in Places
  BY <1>0, <1>3, <1>a, RepFound
<1>5. /\ Rep(l, With(Q, p, Append(Q[p], t)))
      /\ l.tables = s.tables /\ l.count[p] = s.count[p] + 1
  BY <1>0, <1>3, <1>4, <1>a, LinkRep
<1>6. All(With(Q, p, Append(Q[p], t))) = All(Q) \cup {t}
  <2>1. Q[p] \in Seq(TxIDs)
    BY <1>0, <1>4 DEF Rep
  <2>2. All(With(Q, p, Append(Q[p], t)))
          = (All(Q) \ Range(Q[p])) \cup Range(Append(Q[p], t))
    BY <1>0, <1>4, AllChange
  <2>3. Range(Append(Q[p], t)) = Range(Q[p]) \cup {t}
    BY <1>3, <2>1, RangeAppend
  <2>4. Range(Q[p]) \subseteq All(Q)
    BY <1>4 DEF All
  <2> QED BY <2>2, <2>3, <2>4
<1> DEFINE R == With(Q, p, Append(Q[p], t))
<1>7. Rep(l, R) /\ All(R) = All(Q) \cup {t}
  BY <1>5, <1>6
<1>8. R = With(Q, p, Append(Q[p], t))
  OBVIOUS
<1> HIDE DEF R
<1>9. /\ R[p] = Append(Q[p], t) /\ \A o \in Places : o # p => R[o] = Q[o]
      /\ Q[p] \in Seq(TxIDs)
  <2>1. Q \in [Places -> Seq(TxIDs)]
    BY <1>0 DEF Rep
  <2>2. Q[p] \in Seq(TxIDs)
    BY <1>4, <2>1
  <2> DEFINE a == Append(Q[p], t)
  <2>3. R = With(Q, p, a)
    BY <1>8
  <2> HIDE DEF a
  <2>4. R[p] = a /\ \A o \in Places : o # p => R[o] = Q[o]
    BY <1>4, <2>1, <2>3, WithFacts
  <2> QED BY <2>2, <2>4 DEF a
<1>10. IsLinking(s, q, Q, t, Tail(q), p, l, R)
  BY <1>1, <1>2, <1>3, <1>4, <1>5, <1>7, <1>9, <1>a DEF IsLinking
<1> QED BY <1>10 DEF q, s, R

\* What a move does to the moves that are left.
Advances(x, y) == \E w \in Left(x) : Left(y) \subseteq Left(x) \ {w}

\* A move towards the end of an addition.
IsMove(x, Q, y, R) ==
  /\ Pending(y, R)
  /\ All(R) \cup Range(y.todo) = All(Q) \cup Range(x.todo)
  /\ Advances(x, y)

\* A move that advances: no pending block rises, and the first one is listed or
\* falls.
LEMMA MoveAdvances ==
  ASSUME NEW x, NEW y, NEW t \in TxIDs, Tree(x.pool), Tree(y.pool), t \in Range(x.todo),
         \A u \in TxIDs : Depth(y.pool, u) >= Depth(x.pool, u),
         \A u \in TxIDs : u \in Range(y.todo) =>
           \/ u \in Range(x.todo) /\ u # t
           \/ /\ u = t \/ Found(x.pool, u)
              /\ Depth(y.pool, u) > Depth(x.pool, u),
         \A u \in TxIDs : Found(y.pool, u) => Found(x.pool, u) \/ u = t,
         ~Found(x.pool, t)
  PROVE  Advances(x, y)
<1> DEFINE d(u) == Depth(x.pool, u)
           e(u) == Depth(y.pool, u)
           w == <<t, IDLength - d(t) + 1>>
<1>0. IDLength \in Nat
  BY LengthAssumption
<1>1. ASSUME NEW u \in TxIDs PROVE d(u) \in 1 .. IDLength /\ e(u) \in 1 .. IDLength
  BY BucketType DEF Depth
<1> HIDE DEF d, e
<1>2. w \in Left(x)
  <2>1. d(t) \in 1 .. IDLength
    BY <1>1
  <2>2. IDLength - d(t) + 1 \in 1 .. IDLength
    BY <1>0, <2>1
  <2>3. w \in TxIDs \X (1 .. IDLength)
    BY <2>2
  <2>4. w[1] \in Range(x.todo) /\ w[2] <= IDLength - Depth(x.pool, w[1]) + 1
    BY <1>0, <2>2 DEF d
  <2> HIDE DEF w
  <2> QED BY <2>3, <2>4 DEF Left
<1>3. ASSUME NEW v \in Left(y) PROVE v \in Left(x) \ {w}
  <2>1. v \in TxIDs \X (1 .. IDLength)
    BY DEF Left
  <2>2. PICK u \in TxIDs, k \in 1 .. IDLength : v = <<u, k>>
    BY <2>1
  <2>3. v[1] = u /\ v[2] = k
    BY <2>2
  <2>4. \/ u \in Range(y.todo) /\ k <= IDLength - e(u) + 1
        \/ Found(y.pool, u) /\ k <= IDLength - e(u)
    BY <2>3 DEF Left, e
  <2>5. SUFFICES /\ \/ u \in Range(x.todo) /\ k <= IDLength - d(u) + 1
                    \/ Found(x.pool, u) /\ k <= IDLength - d(u)
                 /\ u = t => k <= IDLength - d(u)
    <3>1. v \in Left(x)
      BY <2>1, <2>3, <2>5 DEF Left, d
    <3>2. d(u) \in Int
      BY <1>1
    <3>3. v # w
      <4>1. SUFFICES ASSUME v = w PROVE FALSE
        OBVIOUS
      <4>2. u = t /\ k = IDLength - d(t) + 1
        BY <2>2, <4>1
      <4> QED BY <1>0, <2>5, <3>2, <4>2
    <3> HIDE DEF w
    <3> QED BY <3>1, <3>3
  <2>6. d(u) \in 1 .. IDLength /\ e(u) \in 1 .. IDLength /\ e(u) >= d(u)
    BY <1>1 DEF d, e
  <2>7. CASE u \in Range(y.todo) /\ k <= IDLength - e(u) + 1
    <3>1. CASE u \in Range(x.todo) /\ u # t
      <4>1. k <= IDLength - d(u) + 1
        BY <1>0, <2>6, <2>7
      <4> QED BY <3>1, <4>1
    <3>2. CASE (u = t \/ Found(x.pool, u)) /\ e(u) > d(u)
      <4>1. k <= IDLength - d(u) /\ k <= IDLength - d(u) + 1
        BY <1>0, <2>6, <2>7, <3>2
      <4> QED BY <3>2, <4>1
    <3> QED BY <2>7, <3>1, <3>2 DEF d, e
  <2>8. CASE Found(y.pool, u) /\ k <= IDLength - e(u)
    <3>1. k <= IDLength - d(u) /\ k <= IDLength - d(u) + 1
      BY <1>0, <2>6, <2>8
    <3>2. Found(x.pool, u) \/ u = t
      BY <2>8
    <3> QED BY <3>1, <3>2
  <2> QED BY <2>4, <2>7, <2>8
<1> HIDE DEF w
<1> QED BY <1>2, <1>3 DEF Advances

\* A move that does not fill its bucket.
LEMMA MoveStays ==
  ASSUME NEW x, NEW Q, Pending(x, Q), x.todo # << >>, NEW t, t = Head(x.todo),
         NEW p, p = BucketOf(x.pool, t), NEW l, l = Link(x.pool, p, t),
         ~(x.pool.head[p] # Null /\ Scales(l, p)),
         NEW y, y = [pool |-> l, todo |-> Tail(x.todo)]
  PROVE  IsMove(x, Q, y, With(Q, p, Append(Q[p], t)))
<1> DEFINE R == With(Q, p, Append(Q[p], t))
           u == Tail(x.todo)
           s == x.pool
<1>0. y.pool = l /\ y.todo = u
  OBVIOUS
<1>1. Rep(s, Q) /\ Small(Q)
  BY DEF Pending
<1>a. ~(s.head[p] # Null /\ Scales(l, p)) /\ p = BucketOf(s, t)
  OBVIOUS
<1>b. IsLinking(x.pool, x.todo, Q, t, Tail(x.todo), p, l, R)
  BY MoveLinks
<1> HIDE DEF R, u, s
<1>2. /\ t \in TxIDs /\ p \in Places /\ ~Found(s, t)
      /\ t \in Range(x.todo) /\ t \notin Range(u)
      /\ Range(x.todo) = {t} \cup Range(u)
      /\ u \in Seq(TxIDs)
      /\ \A i, j \in 1 .. Len(u) : u[i] = u[j] => i = j
      /\ Range(x.todo) \cap All(Q) = {}
      /\ Rep(l, R)
      /\ l.tables = s.tables
      /\ All(R) = All(Q) \cup {t}
  BY <1>b DEF IsLinking, u, s
<1>3. /\ Q[p] \in Seq(TxIDs) /\ R[p] = Append(Q[p], t)
      /\ \A o \in Places : o # p => R[o] = Q[o]
  BY <1>b DEF IsLinking
<1>4. Small(R)
  <2>1. ASSUME NEW o \in Places PROVE Len(R[o]) < ScaleSize
    <3>1. CASE o # p
      BY <1>1, <1>3, <3>1 DEF Small
    <3>2. CASE o = p /\ s.head[p] = Null
      <4>1. Q[p] = << >>
        BY <1>1, <1>2, <3>2, RepFacts
      <4>2. Len(R[p]) = 1
        BY <1>2, <1>3, <4>1, AppendProperties, EmptySeq
      <4> QED BY <3>2, <4>2, ScaleAssumption
    <3>3. CASE o = p /\ s.head[p] # Null
      <4>1. l \in PoolType /\ Len(R[p]) <= l.count[p] /\ R[p] \in Seq(TxIDs)
        BY <1>2 DEF Rep
      <4>2. l.count[p] \in Nat /\ ~(l.count[p] >= ScaleSize)
        BY <1>2, <1>a, <3>3, <4>1, PoolFields DEF Scales
      <4> QED BY <3>3, <4>1, <4>2, ScaleAssumption, LenProperties
    <3> QED BY <3>1, <3>2, <3>3
  <2> QED BY <2>1 DEF Small
<1>5. \A i \in 1 .. Len(u) : u[i] \notin All(R)
  <2>1. \A i \in 1 .. Len(u) : u[i] \in Range(u)
    BY <1>2, InRange
  <2> QED BY <1>2, <2>1
<1>6. Pending(y, R)
  BY <1>0, <1>2, <1>4, <1>5 DEF Pending
<1>7. All(R) \cup Range(y.todo) = All(Q) \cup Range(x.todo)
  BY <1>0, <1>2
<1>8. Advances(x, y)
  <2>1. Tree(s) /\ Tree(l)
    BY <1>1, <1>2 DEF Rep
  <2>2. \A v \in TxIDs : Depth(l, v) = Depth(s, v) /\ Depth(s, v) \in 1 .. IDLength
    BY <1>2, <2>1, BucketType DEF Depth, BucketOf
  <2>3. \A v \in TxIDs : Depth(y.pool, v) >= Depth(x.pool, v)
    BY <1>0, <2>2, LengthAssumption DEF s
  <2>4. \A v \in TxIDs : v \in Range(y.todo) => v \in Range(x.todo) /\ v # t
    BY <1>0, <1>2
  <2>5. \A v \in TxIDs : Found(y.pool, v) => Found(x.pool, v) \/ v = t
    BY <1>0, <1>1, <1>2, RepFound DEF s
  <2> QED BY <1>0, <1>2, <2>1, <2>3, <2>4, <2>5, MoveAdvances DEF s
<1> QED BY <1>6, <1>7, <1>8 DEF IsMove, R

\* A move that fills its bucket: its blocks are to be added again, further down.
LEMMA MoveSplits ==
  ASSUME NEW x, NEW Q, Pending(x, Q), x.todo # << >>, NEW t, t = Head(x.todo),
         NEW p, p = BucketOf(x.pool, t), NEW l, l = Link(x.pool, p, t),
         x.pool.head[p] # Null,
         NEW y, y = AutoScaleUp(l, p, Tail(x.todo))
  PROVE  \E S : IsMove(x, Q, y, S)
<1> DEFINE R == With(Q, p, Append(Q[p], t))
           u == Tail(x.todo)
           s == x.pool
           r == Split(l, p)
           e == << >>
           S == With(R, p, e)
           q == R[p]
           c == q \o u
<1>0. y.pool = r /\ y.todo = Ring(l.next, l.head[p]) \o u
  BY DEF AutoScaleUp
<1>1. Rep(s, Q) /\ Small(Q) /\ Tree(s)
  BY DEF Pending, Rep
<1>a. s.head[p] # Null /\ p = BucketOf(s, t) /\ e = << >> /\ r = Split(l, p)
      /\ S = With(R, p, << >>) /\ q = R[p] /\ c = q \o u
  OBVIOUS
<1>c. S = With(R, p, e)
  OBVIOUS
<1>d. q = R[p]
  OBVIOUS
<1>b. IsLinking(x.pool, x.todo, Q, t, Tail(x.todo), p, l, R)
  BY MoveLinks
<1> HIDE DEF R, u, s, r, e, S, q, c
<1>2. /\ t \in TxIDs /\ p \in Places /\ ~Found(s, t)
      /\ t \in Range(x.todo) /\ t \notin Range(u)
      /\ Range(x.todo) = {t} \cup Range(u)
      /\ u \in Seq(TxIDs)
      /\ \A i, j \in 1 .. Len(u) : u[i] = u[j] => i = j
      /\ Range(x.todo) \cap All(Q) = {}
      /\ Rep(l, R)
      /\ l.tables = s.tables
      /\ All(R) = All(Q) \cup {t}
      /\ Q[p] \in Seq(TxIDs) /\ q = Append(Q[p], t)
      /\ \A o \in Places : o # p => R[o] = Q[o]
  BY <1>a, <1>b DEF IsLinking, u, s
<1>3. Len(p) < IDLength
  <2>1. Len(p) \in 1 .. IDLength /\ (Len(p) = IDLength => p = t)
    BY <1>1, <1>2, <1>a, BucketType
  <2>2. SUFFICES ASSUME Len(p) = IDLength PROVE FALSE
    BY <2>1, LengthAssumption
  <2>3. Q[p] # << >>
    BY <1>1, <1>2, <1>a, RepFacts
  <2>4. 1 \in 1 .. Len(Q[p])
    BY <1>2, <2>3, EmptySeq
  <2>5. Q[p][1] \in TxIDs /\ BucketOf(s, Q[p][1]) = p
    BY <1>1, <1>2, <2>4, RepWhere
  <2>6. Q[p][1] = t
    BY <1>1, <2>1, <2>2, <2>5, BucketType
  <2>7. t \in Range(Q[p])
    BY <1>2, <2>4, <2>6, InRange
  <2> QED BY <1>1, <1>2, <1>a, <2>7, RepFound
<1>4. p = BucketOf(l, t)
  BY <1>2, <1>a DEF BucketOf
<1>5. Rep(r, S) /\ r.tables = l.tables \cup {p}
  <2>1. Rep(l, R) /\ t \in TxIDs
    BY <1>2
  <2>2. r = Split(l, p) /\ S = With(R, p, << >>)
    BY <1>a
  <2>3. Rep(r, With(R, p, << >>)) /\ r.tables = l.tables \cup {p}
    BY <1>3, <1>4, <2>1, <2>2, SplitRep
  <2> QED BY <2>2, <2>3
<1>6. Ring(l.next, l.head[p]) = q /\ q \in Seq(TxIDs)
  <2>1. Rep(l, R) /\ p \in Places
    BY <1>2
  <2>2. Ring(l.next, l.head[p]) = R[p] /\ R[p] \in Seq(TxIDs)
    BY <2>1, RepFacts
  <2> QED BY <1>d, <2>2
<1>7. \A i, j \in 1 .. Len(q) : q[i] = q[j] => i = j
  <2>1. IsList(l.next, l.prev, l.head[p], q)
    BY <1>2, <1>a DEF Rep
  <2>2. CASE q = << >>
    BY <2>2, EmptySeq
  <2>3. CASE q # << >>
    BY <2>1, <2>3 DEF IsList
  <2> QED BY <2>2, <2>3
<1>8. All(S) = All(R) \ Range(q)
  <2>1. Range(e) = {}
    BY <1>a, RangeEmpty
  <2>2. All(S) = (All(R) \ Range(q)) \cup Range(e)
    <3>1. All(With(R, p, e)) = (All(R) \ Range(R[p])) \cup Range(e)
      BY <1>2, AllChange
    <3> QED BY <1>c, <1>d, <3>1
  <2> QED BY <2>1, <2>2
<1>9. Range(q) \subseteq All(R) /\ Range(q) = Range(Q[p]) \cup {t} /\ Range(Q[p]) \subseteq All(Q)
  <2>1. Range(q) = Range(Q[p]) \cup {t}
    BY <1>2, RangeAppend
  <2>2. p \in Places
    BY <1>2
  <2>3. Range(R[p]) \subseteq All(R) /\ Range(Q[p]) \subseteq All(Q)
    BY <2>2 DEF All
  <2> QED BY <1>d, <2>1, <2>3
<1>10. Range(q) \cap Range(u) = {}
  BY <1>2, <1>9
<1>11. /\ c \in Seq(TxIDs) /\ Range(c) = Range(q) \cup Range(u)
       /\ \A i, j \in 1 .. Len(c) : c[i] = c[j] => i = j
  <2>1. ASSUME NEW i \in 1 .. Len(q), NEW j \in 1 .. Len(u) PROVE q[i] # u[j]
    <3>1. q[i] \in Range(q) /\ u[j] \in Range(u)
      BY <1>2, <1>6, InRange
    <3> QED BY <1>10, <3>1
  <2> QED BY <1>2, <1>6, <1>7, <1>a, <2>1, ConcatDifferent
<1>12. y.todo = c
  BY <1>0, <1>6, <1>a
<1>13. Small(S)
  <2>1. R \in [Places -> Seq(TxIDs)]
    BY <1>2 DEF Rep
  <2>2. S[p] = e /\ \A o \in Places : o # p => S[o] = R[o]
    BY <1>2, <1>c, <2>1, WithFacts
  <2>3. Len(e) = 0
    BY <1>a
  <2> QED BY <1>1, <1>2, <2>2, <2>3, ScaleAssumption DEF Small
<1>14. Pending(y, S)
  <2>1. \A i \in 1 .. Len(c) : c[i] \in Range(c)
    BY <1>11, InRange
  <2>2. Range(c) \cap All(S) = {}
    BY <1>2, <1>8, <1>9, <1>11
  <2>3. \A i \in 1 .. Len(c) : c[i] \notin All(S)
    BY <2>1, <2>2
  <2>4. /\ Rep(y.pool, S) /\ y.todo = c
    BY <1>0, <1>5, <1>12
  <2> QED BY <1>11, <1>13, <2>3, <2>4 DEF Pending
<1>15. All(S) \cup Range(y.todo) = All(Q) \cup Range(x.todo)
  BY <1>2, <1>8, <1>9, <1>11, <1>12
<1>16. Advances(x, y)
  <2>1. Tree(l) /\ Tree(r)
    BY <1>2, <1>5 DEF Rep
  <2>2. \A v \in TxIDs : BucketOf(l, v) = BucketOf(s, v) /\ Depth(l, v) = Depth(s, v)
    BY <1>2 DEF Depth, BucketOf
  <2>3. ASSUME NEW v \in TxIDs
        PROVE  /\ Depth(r, v) \in Nat /\ Depth(s, v) \in Nat
               /\ BucketOf(l, v) = p => Depth(r, v) > Depth(s, v)
               /\ BucketOf(l, v) # p => Depth(r, v) = Depth(s, v)
    <3>1. Len(BucketOf(r, v)) \in 1 .. IDLength /\ Len(BucketOf(s, v)) \in 1 .. IDLength
      BY <1>1, <2>1, BucketType
    <3>2. /\ BucketOf(l, v) # p => BucketOf(r, v) = BucketOf(l, v)
          /\ BucketOf(l, v) = p => Len(BucketOf(r, v)) > Len(p)
      BY <1>5, <2>1, BucketSplit
    <3> QED BY <2>2, <3>1, <3>2, LengthAssumption DEF Depth
  <2>4. \A v \in TxIDs : Depth(r, v) >= Depth(s, v)
    <3>1. SUFFICES ASSUME NEW v \in TxIDs PROVE Depth(r, v) >= Depth(s, v)
      OBVIOUS
    <3>2. CASE BucketOf(l, v) = p
      BY <2>3, <3>2
    <3>3. CASE BucketOf(l, v) # p
      BY <2>3, <3>3
    <3> QED BY <3>2, <3>3
  <2>5. ASSUME NEW v \in TxIDs, v \in Range(q)
        PROVE  Depth(r, v) > Depth(s, v) /\ (v = t \/ Found(s, v))
    <3>1. PICK i \in 1 .. Len(q) : q[i] = v
      BY <1>6, <2>5, InRange
    <3>2. BucketOf(l, v) = p
      <4>1. i \in 1 .. Len(R[p]) /\ R[p][i] = v
        BY <1>d, <3>1
      <4> QED BY <1>2, <4>1, RepWhere
    <3>3. v = t \/ v \in All(Q)
      BY <1>9, <2>5
    <3>4. v \in All(Q) => Found(s, v)
      BY <1>1, RepFound
    <3> QED BY <2>3, <3>2, <3>3, <3>4
  <2>6. \A v \in TxIDs : v \in Range(y.todo) =>
           \/ v \in Range(x.todo) /\ v # t
           \/ (v = t \/ Found(s, v)) /\ Depth(r, v) > Depth(s, v)
    BY <1>2, <1>11, <1>12, <2>5
  <2>7. \A v \in TxIDs : Found(r, v) => Found(s, v) \/ v = t
    <3>1. SUFFICES ASSUME NEW v \in TxIDs, Found(r, v), v # t PROVE Found(s, v)
      OBVIOUS
    <3>2. v \in All(S)
      BY <1>5, <3>1, RepFound
    <3>3. v \in All(Q)
      BY <1>2, <1>8, <3>1, <3>2
    <3> QED BY <1>1, <3>3, RepFound
  <2>8. x.pool = s /\ y.pool = r
    BY <1>0 DEF s
  <2> QED BY <1>1, <1>2, <2>1, <2>4, <2>6, <2>7, <2>8, MoveAdvances
<1>17. IsMove(x, Q, y, S)
  BY <1>14, <1>15, <1>16 DEF IsMove
<1> QED BY <1>17

\* Every move of an addition leads on: no block is met that is there already.
LEMMA MoveRep ==
  ASSUME NEW x, NEW Q, Pending(x, Q), x.todo # << >>, NEW y, y = Move(x)
  PROVE  \E R : IsMove(x, Q, y, R)
<1> DEFINE t == Head(x.todo)
           p == BucketOf(x.pool, t)
           l == Link(x.pool, p, t)
<1>1. y = IF x.todo = << >> THEN x
          ELSE IF Found(x.pool, t) THEN [pool |-> x.pool, todo |-> Tail(x.todo)]
          ELSE IF x.pool.head[p] # Null /\ Scales(l, p) THEN AutoScaleUp(l, p, Tail(x.todo))
          ELSE [pool |-> l, todo |-> Tail(x.todo)]
  BY DEF Move
<1>2. t = Head(x.todo) /\ p = BucketOf(x.pool, t) /\ l = Link(x.pool, p, t)
  OBVIOUS
<1> HIDE DEF t, p, l
<1>3. ~Found(x.pool, t)
  <2>1. IsLinking(x.pool, x.todo, Q, t, Tail(x.todo), p, l, With(Q, p, Append(Q[p], t)))
    BY <1>2, MoveLinks
  <2> QED BY <2>1 DEF IsLinking
<1>4. CASE x.pool.head[p] # Null /\ Scales(l, p)
  <2>1. y = AutoScaleUp(l, p, Tail(x.todo))
    BY <1>1, <1>3, <1>4
  <2> QED BY <1>2, <1>4, <2>1, MoveSplits
<1>5. CASE ~(x.pool.head[p] # Null /\ Scales(l, p))
  <2>1. y = [pool |-> l, todo |-> Tail(x.todo)]
    BY <1>1, <1>3, <1>5
  <2> QED BY <1>2, <1>5, <2>1, MoveStays
<1> QED BY <1>4, <1>5

-----------------------------------------------------------------------------
(* An addition comes to its end                                            *)

\* What holds at first and is kept by every step holds of every iterate.
LEMMA IterIn ==
  ASSUME NEW D, NEW N \in Nat, NEW f, f[0] \in D,
         \A n \in 1 .. N : f[n - 1] \in D => f[n] \in D
  PROVE  \A n \in 0 .. N : f[n] \in D
<1> DEFINE S == {k \in Nat : k <= N => f[k] \in D}
<1>1. 0 \in S
  OBVIOUS
<1>2. ASSUME NEW k \in Nat, k \in S PROVE k + 1 \in S
  <2>1. SUFFICES ASSUME k + 1 <= N PROVE f[k + 1] \in D
    OBVIOUS
  <2>2. k + 1 \in 1 .. N /\ k <= N /\ (k + 1) - 1 = k
    BY <2>1
  <2> QED BY <1>2, <2>2
<1>3. Nat \subseteq S
  <2> HIDE DEF S
  <2> QED BY <1>1, <1>2, Induction
<1> QED BY <1>3

LEMMA MovesFinite ==
  /\ IsFiniteSet(TxIDs \X (1 .. IDLength))
  /\ Moves \in Nat
<1>1. IsFiniteSet(1 .. IDLength)
  BY LengthAssumption, FS_Interval
<1>2. IsFiniteSet(TxIDs \X (1 .. IDLength))
  BY <1>1, IDsAssumption, FS_Product
<1> QED BY <1>2, FS_CardinalityType DEF Moves

\* Moving is well defined: the moves stay in a set that Move does not leave.
LEMMA MovingDef ==
  ASSUME NEW D, NEW s, NEW t, [pool |-> s, todo |-> <<t>>] \in D,
         \A x \in D : Move(x) \in D
  PROVE  /\ Moving(s, t)[0] = [pool |-> s, todo |-> <<t>>]
         /\ \A n \in 1 .. Moves : Moving(s, t)[n] = Move(Moving(s, t)[n - 1])
         /\ \A n \in 0 .. Moves : Moving(s, t)[n] \in D
<1> DEFINE d == [pool |-> s, todo |-> <<t>>]
           N == Moves
           Step(f) == [n \in 0 .. N |-> IF n = 0 THEN d ELSE Move(f[n - 1])]
           G == [z \in (1 .. N) \X D |-> Move(z[2])]
<1>0. N \in Nat /\ d \in D
  BY MovesFinite
<1>1. G \in [(1 .. N) \X D -> D]
  OBVIOUS
<1>2. PICK f \in [0 .. N -> D] : Iterates(f, N, d, G)
  <2> HIDE DEF G, N, d
  <2> QED BY <1>0, <1>1, Iterated
<1> HIDE DEF d, N
<1>3. ASSUME NEW n \in 0 .. N, n # 0 PROVE G[<<n, f[n - 1]>>] = Move(f[n - 1])
  <2>1. n - 1 \in 0 .. N /\ n \in 1 .. N
    BY <1>0, <1>3
  <2>2. <<n, f[n - 1]>> \in (1 .. N) \X D
    BY <2>1
  <2> QED BY <2>2
<1>4. f = Step(f)
  <2> HIDE DEF G
  <2>1. ASSUME NEW n \in 0 .. N PROVE f[n] = Step(f)[n]
    <3>1. CASE n = 0
      BY <1>2, <3>1 DEF Iterates
    <3>2. CASE n # 0
      <4>1. n \in 1 .. N
        BY <1>0, <3>2
      <4>2. f[n] = G[<<n, f[n - 1]>>]
        BY <1>2, <4>1 DEF Iterates
      <4> QED BY <1>3, <3>2, <4>2
    <3> QED BY <3>1, <3>2
  <2> QED BY <2>1
<1>5. \E F : F = Step(F)
  BY <1>4
<1>6. Moving(s, t) = Step(Moving(s, t))
  BY <1>5, Zenon DEF Moving, d, N
<1> HIDE DEF G
<1> DEFINE w == Moving(s, t)
<1>7. w = Step(w)
  BY <1>6
<1> HIDE DEF w
<1>8. w[0] = d
  BY <1>0, <1>7
<1>9. ASSUME NEW n \in 1 .. N PROVE w[n] = Move(w[n - 1])
  <2>1. n \in 0 .. N /\ n # 0
    BY <1>0
  <2> QED BY <1>7, <2>1
<1>10. \A n \in 0 .. N : w[n] \in D
  <2>1. \A n \in 1 .. N : w[n - 1] \in D => w[n] \in D
    BY <1>9
  <2> QED BY <1>0, <1>8, <2>1, IterIn
<1> QED BY <1>8, <1>9, <1>10 DEF w, d, N

\* TxCBBucket::add of a transaction that is there changes nothing.
LEMMA AddedFound ==
  ASSUME NEW s, NEW t, Found(s, t)
  PROVE  Added(s, t) = s
<1> DEFINE a == [pool |-> s, todo |-> <<t>>]
           b == [pool |-> s, todo |-> << >>]
           D == {a, b}
<1>1. Move(a) = b
  <2>1. a.todo # << >> /\ Head(a.todo) = t /\ Tail(a.todo) = << >> /\ a.pool = s
    OBVIOUS
  <2> HIDE DEF a
  <2> QED BY <2>1 DEF Move
<1>2. Move(b) = b
  <2>1. b.todo = << >>
    OBVIOUS
  <2> HIDE DEF b
  <2> QED BY <2>1 DEF Move
<1>3. a.pool = s /\ b.pool = s /\ [pool |-> s, todo |-> <<t>>] = a
  OBVIOUS
<1> HIDE DEF a, b
<1>4. a \in D /\ \A x \in D : Move(x) \in D
  BY <1>1, <1>2
<1> HIDE DEF D
<1>5. \A n \in 0 .. Moves : Moving(s, t)[n] \in D
  BY <1>3, <1>4, MovingDef
<1>6. Moving(s, t)[Moves] \in D
  BY <1>5, MovesFinite
<1> QED BY <1>3, <1>6 DEF D, Added

\* The states of an addition after which the pool holds the transactions c.
Ongoing(c) ==
  {x \in [pool : PoolType, todo : Seq(TxIDs)] :
     \E Q : Pending(x, Q) /\ All(Q) \cup Range(x.todo) = c}

LEMMA MoveOngoing ==
  ASSUME NEW c, NEW x \in Ongoing(c)
  PROVE  /\ Move(x) \in Ongoing(c)
         /\ x.todo = << >> => Move(x) = x
         /\ x.todo # << >> => Advances(x, Move(x))
<1>1. CASE x.todo = << >>
  BY <1>1 DEF Move
<1>2. CASE x.todo # << >>
  <2> DEFINE y == Move(x)
             t == Head(x.todo)
             p == BucketOf(x.pool, t)
             l == Link(x.pool, p, t)
  <2>1. PICK Q : Pending(x, Q) /\ All(Q) \cup Range(x.todo) = c
    BY DEF Ongoing
  <2>2. y = Move(x)
    OBVIOUS
  <2>3. y = [pool |-> y.pool, todo |-> y.todo]
    <3>1. \/ y = [pool |-> x.pool, todo |-> Tail(x.todo)]
          \/ y = [pool |-> Split(l, p), todo |-> Ring(l.next, l.head[p]) \o Tail(x.todo)]
          \/ y = [pool |-> l, todo |-> Tail(x.todo)]
      BY <1>2, Zenon DEF Move, AutoScaleUp
    <3> HIDE DEF y, p, l
    <3> QED BY <3>1
  <2> HIDE DEF y
  <2>4. PICK R : IsMove(x, Q, y, R)
    BY <1>2, <2>1, <2>2, MoveRep
  <2>5. Pending(y, R) /\ All(R) \cup Range(y.todo) = c /\ Advances(x, y)
    BY <2>1, <2>4 DEF IsMove
  <2>6. y.pool \in PoolType /\ y.todo \in Seq(TxIDs)
    BY <2>5 DEF Pending, Rep
  <2>7. y \in [pool : PoolType, todo : Seq(TxIDs)]
    BY <2>3, <2>6
  <2>8. y \in Ongoing(c)
    BY <2>5, <2>7 DEF Ongoing
  <2> QED BY <1>2, <2>2, <2>5, <2>8
<1> QED BY <1>1, <1>2

\* As many moves as there are blocks and layers end every addition.
LEMMA MovesSuffice ==
  ASSUME NEW c, NEW X, \A n \in 0 .. Moves : X[n] \in Ongoing(c),
         \A n \in 1 .. Moves : X[n] = Move(X[n - 1])
  PROVE  X[Moves].todo = << >>
<1> DEFINE All0 == TxIDs \X (1 .. IDLength)
           N == Moves
           C(n) == Cardinality(Left(X[n]))
           S == {k \in Nat : k <= N => X[k].todo = << >> \/ C(k) + k <= N}
<1>0. N \in Nat /\ IsFiniteSet(All0) /\ Cardinality(All0) = N
  BY MovesFinite DEF Moves
<1>1. ASSUME NEW x PROVE IsFiniteSet(Left(x)) /\ Cardinality(Left(x)) \in Nat
                         /\ Cardinality(Left(x)) <= N
  <2>1. Left(x) \in SUBSET All0
    BY DEF Left
  <2> HIDE DEF All0
  <2>2. IsFiniteSet(Left(x)) /\ Cardinality(Left(x)) <= N
    BY <1>0, <2>1, FS_Subset
  <2> QED BY <2>2, FS_CardinalityType
<1>2. \A n \in 0 .. N : X[n] \in Ongoing(c)
  OBVIOUS
<1>3. \A n \in 1 .. N : X[n] = Move(X[n - 1])
  OBVIOUS
<1> HIDE DEF N, All0
<1>4. ASSUME NEW x, NEW y, Advances(x, y)
      PROVE  Cardinality(Left(y)) <= Cardinality(Left(x)) - 1
  <2>1. PICK w \in Left(x) : Left(y) \subseteq Left(x) \ {w}
    BY <1>4 DEF Advances
  <2>2. IsFiniteSet(Left(x) \ {w}) /\ Cardinality(Left(x) \ {w}) = Cardinality(Left(x)) - 1
    BY <1>1, FS_RemoveElement
  <2>3. Cardinality(Left(y)) <= Cardinality(Left(x) \ {w})
    BY <2>1, <2>2, FS_Subset
  <2> QED BY <2>2, <2>3
<1>5. 0 \in S
  <2>1. C(0) \in Nat /\ C(0) <= N
    BY <1>1
  <2> QED BY <1>0, <2>1
<1>6. ASSUME NEW k \in Nat, k \in S PROVE k + 1 \in S
  <2>1. SUFFICES ASSUME k + 1 <= N
                 PROVE  X[k + 1].todo = << >> \/ C(k + 1) + (k + 1) <= N
    OBVIOUS
  <2>2. k + 1 \in 1 .. N /\ k \in 0 .. N /\ k <= N /\ (k + 1) - 1 = k
    BY <1>0, <2>1
  <2>3. X[k + 1] = Move(X[k]) /\ X[k] \in Ongoing(c)
    BY <1>2, <1>3, <2>2
  <2>4. CASE X[k].todo = << >>
    BY <2>3, <2>4, MoveOngoing
  <2>5. CASE X[k].todo # << >>
    <3>1. Advances(X[k], X[k + 1])
      BY <2>3, <2>5, MoveOngoing
    <3>2. C(k + 1) <= C(k) - 1
      BY <1>4, <3>1
    <3>3. C(k) + k <= N
      BY <1>6, <2>2, <2>5
    <3>4. C(k) \in Nat /\ C(k + 1) \in Nat
      BY <1>1
    <3> HIDE DEF C
    <3> QED BY <1>0, <3>2, <3>3, <3>4
  <2> QED BY <2>4, <2>5
<1>7. N \in S
  <2> HIDE DEF S
  <2>1. Nat \subseteq S
    BY <1>5, <1>6, Induction
  <2> QED BY <1>0, <2>1
<1>8. SUFFICES ASSUME X[N].todo # << >> PROVE FALSE
  BY DEF N
<1>9. C(N) + N <= N
  BY <1>0, <1>7, <1>8
<1>10. C(N) = 0
  <2>1. C(N) \in Nat
    BY <1>1
  <2> HIDE DEF C
  <2> QED BY <1>0, <1>9, <2>1
<1>11. Left(X[N]) = {}
  BY <1>1, <1>10, FS_EmptySet
<1>12. Advances(X[N], Move(X[N]))
  BY <1>0, <1>2, <1>8, MoveOngoing
<1> QED BY <1>11, <1>12 DEF Advances

\* An addition keeps the pool in order and loses nothing.
LEMMA AddedSound ==
  ASSUME NEW s, Sound(s), NEW t \in TxIDs
  PROVE  Sound(Added(s, t)) /\ Stored(Added(s, t)) = Stored(s) \cup {t}
<1>1. PICK Q : Rep(s, Q) /\ Small(Q)
  BY SoundLists
<1>2. Stored(s) = All(Q)
  BY <1>1, RepStored
<1>3. CASE Found(s, t)
  <2>1. Added(s, t) = s
    BY <1>3, AddedFound
  <2>2. t \in All(Q)
    BY <1>1, <1>3, RepFound
  <2> QED BY <1>2, <2>1, <2>2
<1>4. CASE ~Found(s, t)
  <2> DEFINE c == All(Q) \cup {t}
             q == <<t>>
             a == [pool |-> s, todo |-> q]
  <2>1. q \in Seq(TxIDs) /\ Len(q) = 1 /\ q[1] = t
    OBVIOUS
  <2>2. a.pool = s /\ a.todo = q /\ a = [pool |-> s, todo |-> <<t>>]
    OBVIOUS
  <2>3. s \in PoolType
    BY <1>1 DEF Rep
  <2>4. a \in [pool : PoolType, todo : Seq(TxIDs)]
    BY <2>1, <2>3
  <2> HIDE DEF q, a
  <2>5. t \notin All(Q)
    BY <1>1, <1>4, RepFound
  <2>6. Range(q) = {t}
    <3>1. \A y : y \in Range(q) <=> \E i \in 1 .. Len(q) : q[i] = y
      BY <2>1, InRange
    <3> QED BY <2>1, <3>1
  <2>7. Pending(a, Q)
    <3>1. \A i \in 1 .. Len(q) : i = 1 /\ q[i] \notin All(Q)
      BY <2>1, <2>5
    <3>2. a.pool = s /\ a.todo = q
      BY <2>2
    <3> QED BY <1>1, <2>1, <3>1, <3>2 DEF Pending
  <2>8. All(Q) \cup Range(a.todo) = c
    BY <2>2, <2>6
  <2> HIDE DEF c
  <2>9. a \in Ongoing(c)
    BY <2>4, <2>7, <2>8 DEF Ongoing
  <2> DEFINE X == Moving(s, t)
             D == Ongoing(c)
  <2>10. \A x \in D : Move(x) \in D
    BY MoveOngoing
  <2> HIDE DEF D
  <2>11. /\ \A n \in 1 .. Moves : X[n] = Move(X[n - 1])
         /\ \A n \in 0 .. Moves : X[n] \in D
    BY <2>2, <2>9, <2>10, MovingDef DEF D
  <2>12. Added(s, t) = X[Moves].pool
    BY DEF Added
  <2> HIDE DEF X
  <2>13. X[Moves].todo = << >>
    BY <2>11, MovesSuffice DEF D
  <2>14. X[Moves] \in Ongoing(c)
    BY <2>11, MovesFinite DEF D
  <2>15. PICK R : Pending(X[Moves], R) /\ All(R) \cup Range(X[Moves].todo) = c
    BY <2>14 DEF Ongoing
  <2>16. Rep(Added(s, t), R) /\ Small(R) /\ All(R) = c
    BY <2>12, <2>13, <2>15, RangeEmpty DEF Pending
  <2>17. Sound(Added(s, t)) /\ Stored(Added(s, t)) = c
    BY <2>16, SoundIntro, RepStored
  <2> QED BY <1>2, <2>17 DEF c
<1> QED BY <1>3, <1>4

\* A removal keeps the pool in order, and takes the transaction out of it, or the
\* blocks of the bucket it is the head of.
LEMMA RemovedSound ==
  ASSUME NEW s, Sound(s), NEW t \in TxIDs, NEW p, p = BucketOf(s, t)
  PROVE  /\ Sound(Removed(s, t)) /\ Removed(s, t).count = s.count
         /\ Stored(Removed(s, t))
              = Stored(s) \ (IF t = s.head[p] THEN Listed(s, p) ELSE {t})
<1>1. PICK Q : Rep(s, Q) /\ Small(Q)
  BY SoundLists
<1> DEFINE r == Removed(s, t)
           z == IF t = s.head[p] THEN Range(Q[p]) ELSE {t}
<1>2. PICK q \in Seq(TxIDs) : /\ Rep(r, With(Q, p, q))
                              /\ r.count = s.count
                              /\ Len(q) <= Len(Q[p])
                              /\ Range(q) = Range(Q[p]) \ z
  <2>1. r = Removed(s, t)
    OBVIOUS
  <2> HIDE DEF r
  <2>2. PICK q \in Seq(TxIDs) : IsRemoval(s, Q, t, p, r, q)
    BY <1>1, <2>1, RemovedRep
  <2> QED BY <2>2 DEF IsRemoval
<1> DEFINE R == With(Q, p, q)
<1>3. p \in Places /\ (t \in All(Q) => t \in Range(Q[p]))
  BY <1>1, RepFound
<1>4. Q \in [Places -> Seq(TxIDs)]
  BY <1>1 DEF Rep
<1>5. R[p] = q /\ \A o \in Places : o # p => R[o] = Q[o]
  BY <1>3, <1>4, WithFacts
<1>6. All(R) = (All(Q) \ Range(Q[p])) \cup Range(q)
  BY <1>1, <1>3, AllChange
<1>7. Rep(r, R)
  BY <1>2
<1> HIDE DEF R, r
<1>8. Small(R)
  <2>1. ASSUME NEW o \in Places PROVE Len(R[o]) < ScaleSize
    <3>1. Len(Q[o]) < ScaleSize
      BY <1>1 DEF Small
    <3>2. CASE o # p
      BY <1>5, <3>1, <3>2
    <3>3. CASE o = p
      <4>1. Len(q) \in Nat /\ Len(Q[p]) \in Nat
        BY <1>3, <1>4
      <4> QED BY <1>2, <1>5, <3>1, <3>3, <4>1, ScaleAssumption
    <3> QED BY <3>2, <3>3
  <2> QED BY <2>1 DEF Small
<1>9. All(R) = All(Q) \ z
  <2>1. Range(Q[p]) \subseteq All(Q)
    BY <1>3 DEF All
  <2>2. CASE t = s.head[p]
    BY <1>2, <1>6, <2>2
  <2>3. CASE t # s.head[p]
    BY <1>2, <1>3, <1>6, <2>1, <2>3
  <2> QED BY <2>2, <2>3
<1>10. Sound(r) /\ Stored(r) = All(R) /\ Stored(s) = All(Q)
  BY <1>1, <1>7, <1>8, SoundIntro, RepStored
<1>11. Listed(s, p) = Range(Q[p])
  BY <1>1, <1>3, RepFacts
<1> QED BY <1>2, <1>9, <1>10, <1>11 DEF r

-----------------------------------------------------------------------------
(* The transactions of a block                                             *)

LEMMA AddingSound ==
  ASSUME NEW s, Sound(s), NEW b \in Seq(TxIDs)
  PROVE  Sound(Adding(s, b)[Len(b)])
<1> DEFINE D == {x \in PoolType : Sound(x)}
           N == Len(b)
           Step(f) == [i \in 0 .. N |-> IF i = 0 THEN s ELSE Added(f[i - 1], b[i])]
           G == [y \in (1 .. N) \X D |-> Added(y[2], b[y[1]])]
<1>0. N \in Nat /\ s \in D
  BY DEF Sound
<1>1. ASSUME NEW n \in 1 .. N, NEW x \in D PROVE Added(x, b[n]) \in D
  <2>1. b[n] \in TxIDs
    BY ElementOfSeq
  <2>2. Sound(Added(x, b[n]))
    BY <2>1, AddedSound
  <2> QED BY <2>2 DEF Sound
<1> HIDE DEF D, N
<1>2. G \in [(1 .. N) \X D -> D]
  BY <1>1
<1>3. PICK f \in [0 .. N -> D] : Iterates(f, N, s, G)
  <2> HIDE DEF G
  <2> QED BY <1>0, <1>2, Iterated
<1>4. ASSUME NEW n \in 0 .. N, n # 0 PROVE G[<<n, f[n - 1]>>] = Added(f[n - 1], b[n])
  <2>1. n - 1 \in 0 .. N /\ n \in 1 .. N
    BY <1>0, <1>4
  <2>2. <<n, f[n - 1]>> \in (1 .. N) \X D
    BY <2>1
  <2> QED BY <2>2
<1>5. f = Step(f)
  <2> HIDE DEF G
  <2>1. ASSUME NEW n \in 0 .. N PROVE f[n] = Step(f)[n]
    <3>1. CASE n = 0
      BY <1>3, <3>1 DEF Iterates
    <3>2. CASE n # 0
      <4>1. n \in 1 .. N
        BY <1>0, <3>2
      <4>2. f[n] = G[<<n, f[n - 1]>>]
        BY <1>3, <4>1 DEF Iterates
      <4> QED BY <1>4, <3>2, <4>2
    <3> QED BY <3>1, <3>2
  <2> QED BY <2>1
<1>6. \E F : F = Step(F)
  BY <1>5
<1> DEFINE w == Adding(s, b)
<1>7. w = Step(w)
  BY <1>6, Zenon DEF Adding, N
<1> HIDE DEF G, w
<1>8. w[0] \in D
  BY <1>0, <1>7
<1>9. \A n \in 1 .. N : w[n - 1] \in D => w[n] \in D
  <2>1. SUFFICES ASSUME NEW n \in 1 .. N, w[n - 1] \in D PROVE w[n] \in D
    OBVIOUS
  <2>2. n \in 0 .. N /\ n # 0
    BY <1>0
  <2>3. w[n] = Added(w[n - 1], b[n])
    BY <1>7, <2>2
  <2> QED BY <1>1, <2>1, <2>3
<1>10. \A n \in 0 .. N : w[n] \in D
  BY <1>0, <1>8, <1>9, IterIn
<1>11. w[N] \in D
  BY <1>0, <1>10
<1> QED BY <1>11 DEF D, w, N

LEMMA RemovingSound ==
  ASSUME NEW s, Sound(s), NEW b \in Seq(TxIDs)
  PROVE  Sound(Removing(s, b)[Len(b)]) /\ Removing(s, b)[Len(b)].count = s.count
<1> DEFINE D == {x \in PoolType : Sound(x) /\ x.count = s.count}
           N == Len(b)
           Step(f) == [i \in 0 .. N |-> IF i = 0 THEN s ELSE Removed(f[i - 1], b[i])]
           G == [y \in (1 .. N) \X D |-> Removed(y[2], b[y[1]])]
<1>0. N \in Nat /\ s \in D
  BY DEF Sound
<1>1. ASSUME NEW n \in 1 .. N, NEW x \in D PROVE Removed(x, b[n]) \in D
  <2>1. b[n] \in TxIDs
    BY ElementOfSeq
  <2>2. Sound(Removed(x, b[n])) /\ Removed(x, b[n]).count = x.count
    BY <2>1, RemovedSound
  <2> QED BY <2>2 DEF Sound
<1> HIDE DEF D, N
<1>2. G \in [(1 .. N) \X D -> D]
  BY <1>1
<1>3. PICK f \in [0 .. N -> D] : Iterates(f, N, s, G)
  <2> HIDE DEF G
  <2> QED BY <1>0, <1>2, Iterated
<1>4. ASSUME NEW n \in 0 .. N, n # 0 PROVE G[<<n, f[n - 1]>>] = Removed(f[n - 1], b[n])
  <2>1. n - 1 \in 0 .. N /\ n \in 1 .. N
    BY <1>0, <1>4
  <2>2. <<n, f[n - 1]>> \in (1 .. N) \X D
    BY <2>1
  <2> QED BY <2>2
<1>5. f = Step(f)
  <2> HIDE DEF G
  <2>1. ASSUME NEW n \in 0 .. N PROVE f[n] = Step(f)[n]
    <3>1. CASE n = 0
      BY <1>3, <3>1 DEF Iterates
    <3>2. CASE n # 0
      <4>1. n \in 1 .. N
        BY <1>0, <3>2
      <4>2. f[n] = G[<<n, f[n - 1]>>]
        BY <1>3, <4>1 DEF Iterates
      <4> QED BY <1>4, <3>2, <4>2
    <3> QED BY <3>1, <3>2
  <2> QED BY <2>1
<1>6. \E F : F = Step(F)
  BY <1>5
<1> DEFINE w == Removing(s, b)
<1>7. w = Step(w)
  BY <1>6, Zenon DEF Removing, N
<1> HIDE DEF G, w
<1>8. w[0] \in D
  BY <1>0, <1>7
<1>9. \A n \in 1 .. N : w[n - 1] \in D => w[n] \in D
  <2>1. SUFFICES ASSUME NEW n \in 1 .. N, w[n - 1] \in D PROVE w[n] \in D
    OBVIOUS
  <2>2. n \in 0 .. N /\ n # 0
    BY <1>0
  <2>3. w[n] = Removed(w[n - 1], b[n])
    BY <1>7, <2>2
  <2> QED BY <1>1, <2>1, <2>3
<1>10. \A n \in 0 .. N : w[n] \in D
  BY <1>0, <1>8, <1>9, IterIn
<1>11. w[N] \in D
  BY <1>0, <1>10
<1> QED BY <1>11 DEF D, w, N

-----------------------------------------------------------------------------
(* The inductive invariant                                                 *)

LEMMA InitSound ==
  ASSUME Init
  PROVE  IInv
<1> DEFINE e == << >>
           Q == [p \in Places |-> e]
<1>1. /\ pool.tables = {e} /\ pool.head = [p \in Places |-> Null]
      /\ pool.count = [p \in Places |-> 0]
  BY DEF Init
<1>2. pool \in PoolType
  <2> DEFINE tables == {<< >>}
             head == [p \in Places |-> Null]
             count == [p \in Places |-> 0]
             next == [t \in TxIDs |-> Null]
  <2>1. /\ tables \in SUBSET (Places \cup {<< >>})
        /\ head \in [Places -> TxIDs \cup {Null}]
        /\ count \in [Places -> Nat]
        /\ next \in [TxIDs -> TxIDs \cup {Null}]
    OBVIOUS
  <2>2. pool = [tables |-> tables, head |-> head, count |-> count,
                next |-> next, prev |-> next]
    BY DEF Init
  <2> HIDE DEF tables, head, count, next
  <2> QED BY <2>1, <2>2 DEF PoolType
<1>3. e \in Seq(TxIDs) /\ Len(e) = 0 /\ e = << >>
  BY EmptySeq
<1>4. Tree(pool)
  <2> HIDE DEF e
  <2>1. Len(e) < IDLength
    BY <1>3, LengthAssumption
  <2> QED BY <1>1, <1>3, <2>1 DEF Tree
<1>5. Q \in [Places -> Seq(TxIDs)] /\ \A p \in Places : Q[p] = e
  BY <1>3
<1> HIDE DEF Q, e
<1>6. ASSUME NEW p \in Places
      PROVE  /\ IsList(pool.next, pool.prev, pool.head[p], Q[p])
             /\ \A i \in 1 .. Len(Q[p]) : BucketOf(pool, Q[p][i]) = p
             /\ Len(Q[p]) <= pool.count[p]
             /\ Len(Q[p]) < ScaleSize
  <2>1. Q[p] = << >> /\ Len(Q[p]) = 0
    BY <1>3, <1>5
  <2>2. pool.head[p] = Null /\ pool.count[p] = 0
    BY <1>1
  <2>3. IsList(pool.next, pool.prev, pool.head[p], Q[p])
    BY <2>1, <2>2 DEF IsList
  <2>4. \A i \in 1 .. Len(Q[p]) : BucketOf(pool, Q[p][i]) = p
    BY <2>1
  <2> QED BY <2>1, <2>2, <2>3, <2>4, ScaleAssumption
<1>7. Rep(pool, Q) /\ Small(Q)
  BY <1>2, <1>4, <1>5, <1>6 DEF Rep, Small
<1>8. Bounded(pool)
  BY <1>1, ScaleAssumption DEF Bounded
<1> QED BY <1>7, <1>8, SoundIntro DEF IInv

\* Every operation keeps the pool in order.
LEMMA NextSound ==
  ASSUME IInv, [Next]_vars
  PROVE  IInv'
<1>0. Sound(pool) /\ Bounded(pool)
  BY DEF IInv
<1>1. ASSUME NEW t \in TxIDs, AddTx(t) PROVE IInv'
  <2>1. Sound(Added(pool, t))
    BY <1>0, AddedSound
  <2> QED BY <1>1, <2>1 DEF AddTx, IInv
<1>2. ASSUME NEW t \in TxIDs, RemoveTx(t) PROVE IInv'
  <2>1. Sound(Removed(pool, t)) /\ Removed(pool, t).count = pool.count
    BY <1>0, RemovedSound
  <2>2. Sound(pool') /\ pool'.count = pool.count
    BY <1>2, <2>1 DEF RemoveTx
  <2> QED BY <1>0, <2>2 DEF Bounded, IInv
<1>3. ASSUME NEW b \in Blocks, AddBlock(b) PROVE IInv'
  <2>1. Sound(Adding(pool, b)[Len(b)])
    BY <1>0, BlocksAssumption, AddingSound
  <2> QED BY <1>3, <2>1 DEF AddBlock, IInv
<1>4. ASSUME NEW b \in Blocks, RemoveBlock(b) PROVE IInv'
  <2>1. Sound(Removing(pool, b)[Len(b)]) /\ Removing(pool, b)[Len(b)].count = pool.count
    BY <1>0, BlocksAssumption, RemovingSound
  <2>2. Sound(pool') /\ pool'.count = pool.count
    BY <1>4, <2>1 DEF RemoveBlock
  <2> QED BY <1>0, <2>2 DEF Bounded, IInv
<1>5. CASE UNCHANGED vars
  BY <1>5 DEF vars, IInv
<1> QED BY <1>1, <1>2, <1>3, <1>4, <1>5 DEF Next

\* The pool is in order in every state: in every bucket a list that closes, whose
\* blocks a search looks for there.
THEOREM PoolInvariant == Spec => []IInv
<1>1. Init => IInv
  BY InitSound
<1>2. IInv /\ [Next]_vars => IInv'
  BY NextSound
<1> QED BY <1>1, <1>2, PTL DEF Spec

-----------------------------------------------------------------------------
(* What the invariant says                                                 *)

\* The tree of tables has no gaps, and a bucket has counted at least the blocks it
\* holds (txcb_bucket.cpp, _txCount).
THEOREM PoolTypeOK == Spec => []TypeOK
<1>1. IInv => TypeOK
  <2>1. SUFFICES ASSUME IInv PROVE TypeOK
    OBVIOUS
  <2>2. Sound(pool) /\ Bounded(pool) /\ pool \in PoolType /\ Tree(pool)
    BY <2>1 DEF IInv, Sound
  <2>3. pool.count \in [Places -> 0 .. MaxCount]
    <3>1. pool.count \in [Places -> Nat]
      BY <2>2 DEF PoolType
    <3>2. \A p \in Places : pool.count[p] \in 0 .. MaxCount
      BY <2>2, <3>1, ScaleAssumption DEF Bounded
    <3> QED BY <3>1, <3>2
  <2>4. \A p \in pool.tables : p = << >> \/ Front(p) \in pool.tables
    BY <2>2 DEF Tree
  <2>5. \A p \in Places : Len(Ring(pool.next, pool.head[p])) <= pool.count[p]
    BY <2>2 DEF Sound
  <2>6. /\ pool.tables \subseteq Places \cup {<< >>}
        /\ pool.head \in [Places -> TxIDs \cup {Null}]
        /\ pool.next \in [TxIDs -> TxIDs \cup {Null}]
        /\ pool.prev \in [TxIDs -> TxIDs \cup {Null}]
    BY <2>2 DEF PoolType
  <2> QED BY <2>3, <2>4, <2>5, <2>6 DEF TypeOK
<1> QED BY <1>1, PoolInvariant, PTL

\* In every bucket the walks of find and of autoScaleUp come back to the head and
\* meet the same blocks.
THEOREM PoolListsClose == Spec => []ListsClose
<1>1. IInv => ListsClose
  <2>1. SUFFICES ASSUME IInv, NEW p \in Buckets(pool), NEW t \in Listed(pool, p)
                 PROVE  /\ pool.next[pool.prev[t]] = t /\ pool.prev[pool.next[t]] = t
                        /\ t \in Range(Ring(pool.next, pool.head[p]))
    BY DEF ListsClose
  <2>2. PICK Q : Rep(pool, Q) /\ Small(Q)
    BY <2>1, SoundLists DEF IInv
  <2>3. p \in Places
    BY DEF Buckets
  <2> DEFINE q == Q[p]
             n == Len(q)
             next == pool.next
             prev == pool.prev
  <2>4. q \in Seq(TxIDs) /\ Ring(next, pool.head[p]) = q /\ t \in Range(q)
    BY <2>2, <2>3, RepFacts
  <2>5. IsList(next, prev, pool.head[p], q)
    BY <2>2, <2>3 DEF Rep
  <2>6. n \in Nat
    BY <2>4
  <2> HIDE DEF q, next, prev
  <2>7. PICK i \in 1 .. n : q[i] = t
    BY <2>4, InRange
  <2>8. q # << >>
    BY <2>7, EmptySeq
  <2>9. \A k \in 1 .. n : /\ next[q[k]] = q[Follows(k, n)]
                          /\ prev[q[Follows(k, n)]] = q[k]
    BY <2>5, <2>8 DEF IsList
  <2> HIDE DEF n
  <2>10. prev[next[t]] = t
    BY <2>7, <2>9
  <2>11. PICK k \in 1 .. n : Follows(k, n) = i
    <3>1. CASE i = 1
      <4>1. n \in 1 .. n /\ Follows(n, n) = i
        BY <2>6, <3>1 DEF Follows
      <4> QED BY <4>1
    <3>2. CASE i # 1
      <4>1. i - 1 \in 1 .. n /\ Follows(i - 1, n) = i
        BY <2>6, <3>2 DEF Follows
      <4> QED BY <4>1
    <3> QED BY <3>1, <3>2
  <2>12. next[prev[t]] = t
    BY <2>7, <2>9, <2>11
  <2> QED BY <2>4, <2>10, <2>12 DEF next, prev
<1> QED BY <1>1, PoolInvariant, PTL

\* A block lies in the bucket a search for its ID ends in, and in no other.
THEOREM PoolSearchable == Spec => []Searchable
<1>1. IInv => Searchable
  <2>1. SUFFICES ASSUME IInv, NEW p \in Buckets(pool), NEW t \in Listed(pool, p)
                 PROVE  BucketOf(pool, t) = p
    BY DEF Searchable
  <2>2. PICK Q : Rep(pool, Q) /\ Small(Q)
    BY <2>1, SoundLists DEF IInv
  <2>3. p \in Places
    BY DEF Buckets
  <2>4. Q[p] \in Seq(TxIDs) /\ t \in Range(Q[p])
    BY <2>2, <2>3, RepFacts
  <2>5. PICK i \in 1 .. Len(Q[p]) : Q[p][i] = t
    BY <2>4, InRange
  <2> QED BY <2>2, <2>3, <2>5, RepWhere
<1> QED BY <1>1, PoolInvariant, PTL

\* A bucket never holds ScaleSize blocks, although _txCount is never decremented.
THEOREM PoolBucketsStaySmall == Spec => []BucketsStaySmall
<1>1. IInv => BucketsStaySmall
  <2>1. SUFFICES ASSUME IInv, NEW p \in Buckets(pool)
                 PROVE  Len(Ring(pool.next, pool.head[p])) < ScaleSize
    BY DEF BucketsStaySmall
  <2> QED BY <2>1 DEF IInv, Sound, Buckets
<1> QED BY <1>1, PoolInvariant, PTL

\* An addition, with the splits it leads to, loses nothing and adds its transaction.
THEOREM PoolAddKeepsOthers == Spec => AddKeepsOthers
<1>1. ASSUME IInv, NEW t \in TxIDs, AddTx(t)
      PROVE  Stored(pool') = Stored(pool) \cup {t}
  <2>1. Stored(Added(pool, t)) = Stored(pool) \cup {t}
    BY <1>1, AddedSound DEF IInv
  <2> QED BY <1>1, <2>1 DEF AddTx
<1>2. IInv => [\A t \in TxIDs : AddTx(t) => Stored(pool') = Stored(pool) \cup {t}]_vars
  BY <1>1
<1> QED BY <1>2, PoolInvariant, PTL DEF AddKeepsOthers

\* A removal takes its transaction out, and no other unless it is the head of its
\* bucket: then the blocks of that bucket go with it.
THEOREM PoolRemoveIsLocal == Spec => RemoveIsLocal
<1>1. ASSUME IInv, NEW t \in TxIDs, RemoveTx(t)
      PROVE  LET p == BucketOf(pool, t) IN
             Stored(pool') = Stored(pool) \ (IF t = pool.head[p] THEN Listed(pool, p) ELSE {t})
  <2> DEFINE p == BucketOf(pool, t)
  <2>1. p = BucketOf(pool, t) /\ Sound(pool) /\ pool' = Removed(pool, t)
    BY <1>1 DEF IInv, RemoveTx
  <2> HIDE DEF p
  <2>2. Stored(Removed(pool, t))
          = Stored(pool) \ (IF t = pool.head[p] THEN Listed(pool, p) ELSE {t})
    BY <2>1, RemovedSound
  <2> QED BY <2>1, <2>2
<1>2. IInv => [\A t \in TxIDs : RemoveTx(t) =>
                 LET p == BucketOf(pool, t) IN
                 Stored(pool')
                   = Stored(pool) \ (IF t = pool.head[p] THEN Listed(pool, p) ELSE {t})]_vars
  BY <1>1
<1> QED BY <1>2, PoolInvariant, PTL DEF RemoveIsLocal

=============================================================================
