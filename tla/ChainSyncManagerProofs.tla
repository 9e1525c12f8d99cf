------------------------ MODULE ChainSyncManagerProofs ------------------------
(***************************************************************************)
(* Proofs about ChainSyncManager, for every finite set of headers without  *)
(* a cycle, every message length and every limit.  extend and the export   *)
(* of a chain are recursive, so the first part shows that their recursion  *)
(* is well founded and what it comes to; the second part shows that every  *)
(* step keeps the inductive invariant.                                     *)
(***************************************************************************)
EXTENDS ChainSyncManager, FiniteSetTheorems, SequenceTheorems, WellFoundedInduction, TLAPS

-----------------------------------------------------------------------------
(* Induction                                                               *)

\* A non-empty set of numbers has a least element.
LEMMA Least ==
  ASSUME NEW S, S \subseteq Nat, S # {}
  PROVE  \E k \in S : \A j \in S : k <= j
<1> DEFINE R == OpToRel(<, Nat)
<1>1. PICK k \in S : \A j \in S : ~(<<j, k>> \in R)
  <2> HIDE DEF R
  <2>1. IsWellFoundedOn(R, Nat)
    BY NatLessThanWellFounded DEF R
  <2> QED BY <2>1, WFMin
<1>2. ASSUME NEW j \in S PROVE k <= j
  <2>1. ~(<<j, k>> \in R)
    BY <1>1
  <2>2. j \in Nat /\ k \in Nat
    OBVIOUS
  <2>3. <<j, k>> \in R <=> j < k
    BY <2>2 DEF OpToRel
  <2> HIDE DEF R
  <2> QED BY <2>1, <2>2, <2>3
<1> QED BY <1>2

\* Induction over the numbers, with the claim given as the set it holds for.
LEMMA Induction ==
  ASSUME NEW S, 0 \in S, \A n \in Nat : n \in S => n + 1 \in S
  PROVE  Nat \subseteq S
<1> SUFFICES ASSUME Nat \ S # {} PROVE FALSE
  OBVIOUS
<1>1. PICK k \in Nat \ S : \A j \in Nat \ S : k <= j
  <2>1. Nat \ S \subseteq Nat
    OBVIOUS
  <2> QED BY <2>1, Least
<1>2. k # 0 /\ k \in Nat
  OBVIOUS
<1>3. k - 1 \in Nat /\ ~(k <= k - 1) /\ (k - 1) + 1 = k
  BY <1>2
<1>4. k - 1 \in S
  BY <1>1, <1>3
<1> QED BY <1>3, <1>4

LEMMA NumberFacts == Number(Headers) \in Nat
BY HeadersAssumption, FS_CardinalityType DEF Number

\* Induction over the headers, from the ones before to the ones after.
LEMMA HeightInduction ==
  ASSUME NEW Q,
         \A h \in Headers : (Prev[h] \in Headers => Prev[h] \in Q) => h \in Q
  PROVE  Headers \subseteq Q
<1> DEFINE N == Number(Headers)
<1>0. N \in Nat
  BY NumberFacts
<1>1. PICK r \in [Headers -> 0 .. N - 1] :
        \A g \in Headers : Prev[g] \in Headers => r[Prev[g]] < r[g]
  BY AcyclicAssumption DEF Number
<1> HIDE DEF N
<1> DEFINE S == {k \in Nat : \A h \in Headers : r[h] < k => h \in Q}
<1>2. 0 \in S
  BY <1>0, <1>1
<1>3. ASSUME NEW k \in Nat, k \in S PROVE k + 1 \in S
  <2>1. ASSUME NEW h \in Headers, r[h] < k + 1, Prev[h] \in Headers PROVE Prev[h] \in Q
    <3>1. r[Prev[h]] < r[h] /\ r[Prev[h]] \in Nat /\ r[h] \in Nat
      BY <1>0, <1>1, <2>1
    <3>2. r[Prev[h]] < k
      BY <2>1, <3>1
    <3> QED BY <1>3, <2>1, <3>2
  <2> QED BY <2>1
<1>4. N \in S
  <2> HIDE DEF S
  <2>1. Nat \subseteq S
    BY <1>2, <1>3, Induction
  <2> QED BY <1>0, <2>1
<1>5. \A h \in Headers : r[h] < N
  BY <1>0, <1>1
<1> QED BY <1>4, <1>5

-----------------------------------------------------------------------------
(* The rounds of extend                                                    *)

\* What findByPrevBlockHash returns, when it is one header.
LEMMA FollowFacts ==
  ASSUME NEW pool, NEW stop, NEW h \in Headers
  PROVE  /\ Follow(pool, stop, h) \in Headers
         /\ \/ Follow(pool, stop, h) = h
            \/ /\ h # stop
               /\ Prev[Follow(pool, stop, h)] = h
               /\ pool[Follow(pool, stop, h)] > 0
               /\ Single(pool, h)
         /\ Follow(pool, h, h) = h
         /\ Follow(pool, stop, h) = h => h = stop \/ ~Single(pool, h)
<1>1. Follow(pool, h, h) = h
  BY DEF Follow
<1>2. CASE h # stop /\ Single(pool, h)
  <2> DEFINE d == Follow(pool, stop, h)
  <2>1. d = CHOOSE e \in Children(pool, h) : TRUE
    BY <1>2 DEF Follow
  <2>2. Children(pool, h) # {}
    <3>1. Number(Children(pool, h)) = 1
      BY <1>2 DEF Single
    <3>2. Cardinality({}) = 0
      BY FS_EmptySet
    <3> QED BY <3>1, <3>2 DEF Number
  <2>3. d \in Children(pool, h)
    BY <2>1, <2>2
  <2>4. d \in Headers /\ Prev[d] = h /\ pool[d] > 0
    BY <2>3 DEF Children
  <2>5. d # h
    <3>1. PICK r \in [Headers -> 0 .. Cardinality(Headers) - 1] :
            \A g \in Headers : Prev[g] \in Headers => r[Prev[g]] < r[g]
      BY AcyclicAssumption
    <3>2. SUFFICES ASSUME d = h PROVE FALSE
      OBVIOUS
    <3>3. r[h] < r[h]
      BY <2>4, <3>1, <3>2
    <3>4. r[h] \in Nat
      BY <3>1
    <3> QED BY <3>3, <3>4
  <2> QED BY <1>1, <1>2, <2>4, <2>5
<1>3. CASE ~(h # stop /\ Single(pool, h))
  <2>1. Follow(pool, stop, h) = h
    BY <1>3 DEF Follow
  <2> QED BY <1>1, <1>3, <2>1
<1> QED BY <1>2, <1>3

\* Rounds is well defined.
LEMMA RoundsDef ==
  ASSUME NEW pool, NEW stop, NEW h \in Headers
  PROVE  Rounds(pool, stop, h) =
           [n \in 0 .. Number(Headers) |->
              IF n = 0 THEN h ELSE Follow(pool, stop, Rounds(pool, stop, h)[n - 1])]
<1> DEFINE N == Number(Headers)
           Step(f) == [n \in 0 .. N |-> IF n = 0 THEN h ELSE Follow(pool, stop, f[n - 1])]
           Fs == [0 .. N -> Headers]
           S == {k \in Nat : \E f \in Fs : \A n \in 0 .. N : n <= k => f[n] = Step(f)[n]}
<1>0. N \in Nat
  BY NumberFacts
<1>1. ASSUME NEW f \in Fs PROVE Step(f) \in Fs
  BY <1>0, FollowFacts
<1>2. 0 \in S
  <2> DEFINE f == [n \in 0 .. N |-> h]
  <2>1. f \in Fs
    OBVIOUS
  <2>2. \A n \in 0 .. N : n <= 0 => f[n] = Step(f)[n]
    BY <1>0
  <2> QED BY <2>1, <2>2
<1>3. ASSUME NEW k \in Nat, k \in S PROVE k + 1 \in S
  <2>1. PICK f \in Fs : \A n \in 0 .. N : n <= k => f[n] = Step(f)[n]
    BY <1>3
  <2> DEFINE g == Step(f)
  <2>2. g \in Fs
    BY <1>1
  <2>3. ASSUME NEW n \in 0 .. N, n <= k + 1 PROVE g[n] = Step(g)[n]
    <3>1. CASE n = 0
      BY <3>1
    <3>2. CASE n # 0
      <4>1. n - 1 \in 0 .. N /\ n - 1 <= k
        BY <1>0, <2>3, <3>2
      <4>2. f[n - 1] = g[n - 1]
        BY <2>1, <4>1
      <4>3. g[n] = Follow(pool, stop, f[n - 1])
        BY <3>2
      <4>4. Step(g)[n] = Follow(pool, stop, g[n - 1])
        BY <3>2
      <4> HIDE DEF g, Step
      <4> QED BY <4>2, <4>3, <4>4
    <3> QED BY <3>1, <3>2
  <2>4. k + 1 \in Nat
    OBVIOUS
  <2> HIDE DEF g, Step
  <2> QED BY <2>2, <2>3, <2>4
<1>4. N \in S
  <2> HIDE DEF S
  <2>1. Nat \subseteq S
    BY <1>2, <1>3, Induction
  <2> QED BY <1>0, <2>1
<1>5. PICK f \in Fs : \A n \in 0 .. N : f[n] = Step(f)[n]
  BY <1>0, <1>4
<1>6. f = Step(f)
  BY <1>1, <1>5
<1>7. \E F : F = Step(F)
  BY <1>6
<1> QED BY <1>7, Zenon DEF Rounds

\* What holds of h and is kept by a round holds after every round.
LEMMA RoundsIn ==
  ASSUME NEW pool, NEW stop, NEW h \in Headers,
         NEW Q, Q \subseteq Headers, h \in Q, \A g \in Q : Follow(pool, stop, g) \in Q
  PROVE  /\ \A n \in 0 .. Number(Headers) : Rounds(pool, stop, h)[n] \in Q
         /\ Furthest(pool, stop, h) \in Q
<1> DEFINE N == Number(Headers)
           R == Rounds(pool, stop, h)
           S == {n \in Nat : n \in 0 .. N => R[n] \in Q}
<1>0. N \in Nat
  BY NumberFacts
<1>1. R = [n \in 0 .. N |-> IF n = 0 THEN h ELSE Follow(pool, stop, R[n - 1])]
  BY RoundsDef
<1> HIDE DEF R, N
<1>2. 0 \in S
  BY <1>0, <1>1
<1>3. ASSUME NEW n \in Nat, n \in S PROVE n + 1 \in S
  <2> SUFFICES ASSUME n + 1 \in 0 .. N PROVE R[n + 1] \in Q
    OBVIOUS
  <2>1. n \in 0 .. N /\ n + 1 # 0 /\ (n + 1) - 1 = n
    BY <1>0
  <2>2. R[n] \in Q
    BY <1>3, <2>1
  <2>3. R[n + 1] = Follow(pool, stop, R[n])
    BY <1>1, <2>1
  <2> QED BY <2>2, <2>3
<1>4. Nat \subseteq S
  <2> HIDE DEF S
  <2> QED BY <1>2, <1>3, Induction
<1>5. \A n \in 0 .. N : R[n] \in Q
  BY <1>0, <1>4
<1>6. N \in 0 .. N
  BY <1>0
<1> QED BY <1>5, <1>6 DEF Furthest, N, R

\* extend comes to its end: every round goes to a header of greater height.
LEMMA FurthestEnds ==
  ASSUME NEW pool, NEW stop, NEW h \in Headers
  PROVE  Follow(pool, stop, Furthest(pool, stop, h)) = Furthest(pool, stop, h)
<1> DEFINE N == Number(Headers)
           R == Rounds(pool, stop, h)
           Ended(n) == Follow(pool, stop, R[n]) = R[n]
<1>0. N \in Nat
  BY NumberFacts
<1>1. R = [n \in 0 .. N |-> IF n = 0 THEN h ELSE Follow(pool, stop, R[n - 1])]
  BY RoundsDef
<1>2. \A n \in 0 .. N : R[n] \in Headers
  BY FollowFacts, RoundsIn
<1>3. PICK r \in [Headers -> 0 .. N - 1] :
        \A g \in Headers : Prev[g] \in Headers => r[Prev[g]] < r[g]
  BY AcyclicAssumption DEF Number
<1> DEFINE S == {n \in Nat : n \in 0 .. N => Ended(n) \/ r[R[n]] >= n}
<1> HIDE DEF R, N
<1>4. 0 \in S
  <2>1. 0 \in 0 .. N => r[R[0]] >= 0
    BY <1>0, <1>2, <1>3
  <2> QED BY <2>1
<1>5. ASSUME NEW n \in Nat, n \in S PROVE n + 1 \in S
  <2> SUFFICES ASSUME n + 1 \in 0 .. N PROVE Ended(n + 1) \/ r[R[n + 1]] >= n + 1
    OBVIOUS
  <2>1. n \in 0 .. N /\ n + 1 # 0 /\ (n + 1) - 1 = n
    BY <1>0
  <2>2. R[n + 1] = Follow(pool, stop, R[n])
    BY <1>1, <2>1
  <2>3. CASE Ended(n)
    BY <2>2, <2>3
  <2>4. CASE ~Ended(n)
    <3>1. r[R[n]] >= n
      BY <1>5, <2>1, <2>4
    <3>2. Prev[R[n + 1]] = R[n] /\ R[n] \in Headers /\ R[n + 1] \in Headers
      BY <1>2, <2>1, <2>2, <2>4, FollowFacts
    <3>3. r[R[n]] < r[R[n + 1]]
      BY <1>3, <3>2
    <3>4. r[R[n]] \in Nat /\ r[R[n + 1]] \in Nat
      BY <1>0, <1>3, <3>2
    <3>5. r[R[n + 1]] >= n + 1
      BY <3>1, <3>3, <3>4
    <3> QED BY <3>5
  <2> QED BY <2>3, <2>4
<1>6. Nat \subseteq S
  <2> HIDE DEF S
  <2> QED BY <1>4, <1>5, Induction
<1>7. N \in 0 .. N
  BY <1>0
<1>8. ~(r[R[N]] >= N)
  BY <1>0, <1>2, <1>3, <1>7
<1>9. Ended(N)
  BY <1>0, <1>6, <1>7, <1>8
<1> QED BY <1>9 DEF Furthest, N, R

\* Where extend comes to: it stops at once at the stop hash, every header it goes to is the
\* only one that refers to the one before, and it leaves no such header out.
LEMMA FurthestFacts ==
  ASSUME NEW pool, NEW stop, NEW h \in Headers
  PROVE  /\ Furthest(pool, stop, h) \in Headers
         /\ Furthest(pool, stop, h) # h => Single(pool, Prev[Furthest(pool, stop, h)])
         /\ Furthest(pool, stop, h) = stop \/ ~Single(pool, Furthest(pool, stop, h))
         /\ Furthest(pool, h, h) = h
<1> DEFINE Q == {g \in Headers : g = h \/ Single(pool, Prev[g])}
<1>1. Q \subseteq Headers /\ h \in Q
  OBVIOUS
<1>2. ASSUME NEW g \in Q PROVE Follow(pool, stop, g) \in Q
  BY FollowFacts
<1>3. Furthest(pool, stop, h) \in Q
  <2> HIDE DEF Q
  <2> QED BY <1>1, <1>2, RoundsIn
<1>4. Furthest(pool, stop, h) = stop \/ ~Single(pool, Furthest(pool, stop, h))
  <2>1. Furthest(pool, stop, h) \in Headers
    BY <1>3
  <2> QED BY <2>1, FurthestEnds, FollowFacts
<1>5. Furthest(pool, h, h) \in {h}
  <2>1. \A g \in {h} : Follow(pool, h, g) \in {h}
    BY FollowFacts
  <2>2. {h} \subseteq Headers /\ h \in {h}
    OBVIOUS
  <2> QED BY <2>1, <2>2, RoundsIn
<1> QED BY <1>3, <1>4, <1>5

-----------------------------------------------------------------------------
(* The export of a chain                                                   *)

\* Back is well defined.
LEMMA BackDef ==
  /\ Back \in [Headers -> Seq(Headers)]
  /\ \A h \in Headers :
       Back[h] = IF Prev[h] \in Headers THEN <<h>> \o Back[Prev[h]] ELSE <<h>>
<1> DEFINE N == Number(Headers)
           Step(f) == [h \in Headers |->
                         IF Prev[h] \in Headers THEN <<h>> \o f[Prev[h]] ELSE <<h>>]
           Fs == [Headers -> Seq(Headers)]
<1>0. N \in Nat
  BY NumberFacts
<1>1. ASSUME NEW f \in Fs PROVE Step(f) \in Fs
  <2>1. ASSUME NEW h \in Headers
        PROVE  (IF Prev[h] \in Headers THEN <<h>> \o f[Prev[h]] ELSE <<h>>) \in Seq(Headers)
    <3>1. <<h>> \in Seq(Headers)
      OBVIOUS
    <3>2. CASE Prev[h] \in Headers
      <4>1. f[Prev[h]] \in Seq(Headers)
        BY <3>2
      <4> QED BY <3>1, <3>2, <4>1, ConcatProperties
    <3> QED BY <3>1, <3>2
  <2> QED BY <2>1
<1>2. PICK r \in [Headers -> 0 .. N - 1] :
        \A g \in Headers : Prev[g] \in Headers => r[Prev[g]] < r[g]
  BY AcyclicAssumption DEF Number
<1> DEFINE Good(f, k) == \A g \in Headers : r[g] < k => f[g] = Step(f)[g]
           S == {k \in Nat : \E f \in Fs : Good(f, k)}
<1>3. 0 \in S
  <2> DEFINE f == [h \in Headers |-> << >>]
  <2>1. f \in Fs
    OBVIOUS
  <2>2. Good(f, 0)
    <3>1. \A g \in Headers : ~(r[g] < 0)
      BY <1>0, <1>2
    <3> QED BY <3>1
  <2> QED BY <2>1, <2>2
<1>4. ASSUME NEW k \in Nat, k \in S PROVE k + 1 \in S
  <2>1. PICK f \in Fs : Good(f, k)
    BY <1>4
  <2> DEFINE g == Step(f)
  <2>2. g \in Fs
    BY <1>1
  <2>3. ASSUME NEW h \in Headers, r[h] < k + 1 PROVE g[h] = Step(g)[h]
    <3>1. CASE Prev[h] \in Headers
      <4>1. r[Prev[h]] < k
        <5>1. r[Prev[h]] < r[h] /\ r[Prev[h]] \in Nat /\ r[h] \in Nat
          BY <1>0, <1>2, <3>1
        <5> QED BY <2>3, <5>1
      <4>2. f[Prev[h]] = g[Prev[h]]
        BY <2>1, <3>1, <4>1
      <4>3. g[h] = <<h>> \o f[Prev[h]]
        BY <3>1
      <4>4. Step(g)[h] = <<h>> \o g[Prev[h]]
        BY <3>1
      <4> HIDE DEF g, Step
      <4> QED BY <4>2, <4>3, <4>4
    <3>2. CASE Prev[h] \notin Headers
      BY <3>2
    <3> QED BY <3>1, <3>2
  <2>4. k + 1 \in Nat
    OBVIOUS
  <2> HIDE DEF g, Step
  <2> QED BY <2>2, <2>3, <2>4
<1>5. N \in S
  <2> HIDE DEF S
  <2>1. Nat \subseteq S
    BY <1>3, <1>4, Induction
  <2> QED BY <1>0, <2>1
<1>6. PICK f \in Fs : \A g \in Headers : f[g] = Step(f)[g]
  <2>1. \A g \in Headers : r[g] < N
    BY <1>0, <1>2
  <2> QED BY <1>5, <2>1
<1>7. f = Step(f)
  BY <1>1, <1>6
<1>8. \E F : F = Step(F)
  BY <1>7
<1>9. Back = Step(Back)
  BY <1>8, Zenon DEF Back
<1>10. \A h \in Headers : Back[h] = Step(Back)[h]
  BY <1>9
<1> DEFINE T == {h \in Headers : Back[h] \in Seq(Headers)}
<1>11. ASSUME NEW h \in Headers, Prev[h] \in Headers => Prev[h] \in T PROVE h \in T
  <2>1. <<h>> \in Seq(Headers)
    OBVIOUS
  <2>2. CASE Prev[h] \in Headers
    <3>1. Back[Prev[h]] \in Seq(Headers)
      BY <1>11, <2>2
    <3>2. Back[h] = <<h>> \o Back[Prev[h]]
      BY <1>10, <2>2
    <3>3. Back[h] \in Seq(Headers)
      BY <2>1, <3>1, <3>2, ConcatProperties
    <3> QED BY <3>3
  <2>3. CASE Prev[h] \notin Headers
    BY <1>10, <2>1, <2>3
  <2> QED BY <2>2, <2>3
<1>12. \A h \in Headers : Back[h] \in Seq(Headers)
  <2> HIDE DEF T
  <2>1. Headers \subseteq T
    BY <1>11, HeightInduction
  <2> QED BY <2>1 DEF T
<1>13. Back = [h \in Headers |-> Back[h]]
  BY <1>9
<1>14. Back \in [Headers -> Seq(Headers)]
  BY <1>12, <1>13
<1> QED BY <1>10, <1>14

\* Back begins with its header and goes on with the ones before.
LEMMA BackFacts ==
  ASSUME NEW h \in Headers
  PROVE  /\ Back[h] \in Seq(Headers)
         /\ Len(Back[h]) \in Nat \ {0}
         /\ Back[h][1] = h
         /\ Prev[h] \notin Headers => Len(Back[h]) = 1
         /\ Prev[h] \in Headers =>
              /\ Len(Back[h]) = Len(Back[Prev[h]]) + 1
              /\ \A i \in 1 .. Len(Back[Prev[h]]) : Back[h][i + 1] = Back[Prev[h]][i]
<1>1. Back[h] \in Seq(Headers)
  BY BackDef
<1>2. CASE Prev[h] \in Headers
  <2> DEFINE b == Back[Prev[h]]
  <2>1. b \in Seq(Headers) /\ Back[h] = <<h>> \o b
    BY <1>2, BackDef
  <2>2. Len(b) \in Nat
    BY <2>1, LenProperties
  <2>3. <<h>> \in Seq(Headers) /\ Len(<<h>>) = 1 /\ <<h>>[1] = h
    OBVIOUS
  <2> HIDE DEF b
  <2>4. /\ Len(Back[h]) = 1 + Len(b)
        /\ \A i \in 1 .. 1 + Len(b) : Back[h][i] = IF i <= 1 THEN <<h>>[i] ELSE b[i - 1]
    BY <2>1, <2>3, ConcatProperties
  <2>5. Back[h][1] = h
    BY <2>2, <2>3, <2>4
  <2>6. ASSUME NEW i \in 1 .. Len(b) PROVE Back[h][i + 1] = b[i]
    BY <2>2, <2>4
  <2> QED BY <1>1, <1>2, <2>2, <2>4, <2>5, <2>6 DEF b
<1>3. CASE Prev[h] \notin Headers
  <2>1. Back[h] = <<h>>
    BY <1>3, BackDef
  <2> QED BY <1>1, <1>3, <2>1
<1> QED BY <1>2, <1>3

\* Each header of Back refers to the next.
LEMMA BackLinks ==
  ASSUME NEW h \in Headers, NEW i \in 1 .. Len(Back[h]) - 1
  PROVE  Back[h][i + 1] = Prev[Back[h][i]]
<1> DEFINE T == {g \in Headers :
                   \A k \in 1 .. Len(Back[g]) - 1 : Back[g][k + 1] = Prev[Back[g][k]]}
<1>1. ASSUME NEW g \in Headers, Prev[g] \in Headers => Prev[g] \in T,
             NEW k \in 1 .. Len(Back[g]) - 1
      PROVE  Back[g][k + 1] = Prev[Back[g][k]]
  <2>1. Prev[g] \in Headers
    <3>1. Len(Back[g]) # 1
      BY BackFacts
    <3> QED BY <3>1, BackFacts
  <2> DEFINE b == Back[Prev[g]]
  <2>2. /\ Len(Back[g]) = Len(b) + 1 /\ Len(b) \in Nat \ {0} /\ b[1] = Prev[g]
        /\ Back[g][1] = g
        /\ \A j \in 1 .. Len(b) : Back[g][j + 1] = b[j]
    BY <2>1, BackFacts
  <2>3. \A j \in 1 .. Len(b) - 1 : b[j + 1] = Prev[b[j]]
    BY <1>1, <2>1
  <2> HIDE DEF b
  <2>4. CASE k = 1
    BY <2>2, <2>4
  <2>5. CASE k # 1
    <3>1. k - 1 \in 1 .. Len(b) - 1 /\ (k - 1) + 1 = k /\ k \in 1 .. Len(b) /\ k - 1 \in 1 .. Len(b)
      BY <2>2, <2>5
    <3>2. Back[g][k + 1] = b[k]
      BY <2>2, <3>1
    <3>3. Back[g][k] = b[k - 1]
      BY <2>2, <3>1
    <3>4. b[k] = Prev[b[k - 1]]
      BY <2>3, <3>1
    <3> QED BY <3>2, <3>3, <3>4
  <2> QED BY <2>4, <2>5
<1>2. \A g \in Headers : (Prev[g] \in Headers => Prev[g] \in T) => g \in T
  BY <1>1
<1>3. Headers \subseteq T
  <2> HIDE DEF T
  <2> QED BY <1>2, HeightInduction
<1> QED BY <1>3

\* exportChainVector ends, and where: at the first header whose predecessor is not in
\* the pool.
LEMMA ExportFacts ==
  ASSUME NEW pool, NEW h \in Headers
  PROVE  \E n \in 1 .. Len(Back[h]) :
           /\ Export(pool, h) = SubSeq(Back[h], 1, n)
           /\ n = Len(Back[h]) \/ ~(pool[Back[h][n + 1]] > 0)
<1> DEFINE L == Len(Back[h])
           Here(n) == n <= L /\ \A i \in 2 .. n : pool[Back[h][i]] > 0
           S == {n \in Nat : n >= 1 /\ ~Here(n + 1)}
           n == CHOOSE k \in 1 .. L : Here(k) /\ ~Here(k + 1)
<1>1. L \in Nat \ {0}
  BY BackFacts
<1> HIDE DEF L
<1>2. L \in S
  BY <1>1
<1>3. PICK k \in S : \A j \in S : k <= j
  <2>1. S \subseteq Nat /\ S # {}
    BY <1>2
  <2> HIDE DEF S
  <2> QED BY <2>1, Least
<1>4. k \in 1 .. L /\ ~Here(k + 1)
  <2>1. k <= L /\ k \in Nat /\ k >= 1
    BY <1>2, <1>3
  <2> QED BY <1>1, <1>3, <2>1
<1>5. Here(k)
  <2>1. CASE k = 1
    BY <1>1, <2>1
  <2>2. CASE k # 1
    <3>1. k - 1 \in Nat /\ k - 1 >= 1 /\ ~(k <= k - 1) /\ (k - 1) + 1 = k
      BY <1>1, <1>4, <2>2
    <3>2. k - 1 \notin S
      <4> HIDE DEF S
      <4> QED BY <1>3, <3>1
    <3>3. ~(~Here((k - 1) + 1))
      <4> HIDE DEF Here
      <4> QED BY <3>1, <3>2
    <3> HIDE DEF Here
    <3> QED BY <3>1, <3>3
  <2> QED BY <2>1, <2>2
<1>6. n \in 1 .. L /\ Here(n) /\ ~Here(n + 1)
  <2> HIDE DEF Here
  <2> QED BY <1>4, <1>5
<1>7. Export(pool, h) = SubSeq(Back[h], 1, n)
  BY Zenon DEF Export, L
<1> HIDE DEF n
<1>8. n = L \/ ~(pool[Back[h][n + 1]] > 0)
  <2> SUFFICES ASSUME n # L PROVE ~(pool[Back[h][n + 1]] > 0)
    OBVIOUS
  <2>1. n \in Nat /\ n + 1 <= L
    BY <1>1, <1>6
  <2>2. PICK i \in 2 .. n + 1 : ~(pool[Back[h][i]] > 0)
    BY <1>6, <2>1
  <2>3. ~(i \in 2 .. n)
    BY <1>6, <2>2
  <2>4. i = n + 1
    BY <2>1, <2>2, <2>3
  <2> QED BY <2>2, <2>4
<1> QED BY <1>6, <1>7, <1>8 DEF L

LEMMA ExportType ==
  ASSUME NEW pool, NEW h \in Headers
  PROVE  Export(pool, h) \in Seq(Headers)
<1>1. PICK n \in 1 .. Len(Back[h]) : Export(pool, h) = SubSeq(Back[h], 1, n)
  BY ExportFacts
<1>2. Back[h] \in Seq(Headers) /\ Len(Back[h]) \in Nat
  BY BackFacts
<1>3. \A i \in 1 .. n : Back[h][i] \in Headers
  BY <1>2, ElementOfSeq
<1> QED BY <1>1, <1>2, <1>3, SubSeqProperties

\* A linked header's export reaches start.
LEMMA LinkedExport ==
  ASSUME NEW pool, NEW start, NEW h \in Headers, Linked(pool, start, h)
  PROVE  LET e == Export(pool, h) IN start \in ToSet(e) \/ Prev[Last(e)] = start
<1>1. PICK n \in 1 .. Len(Back[h]) :
        /\ Export(pool, h) = SubSeq(Back[h], 1, n)
        /\ n = Len(Back[h]) \/ ~(pool[Back[h][n + 1]] > 0)
  BY ExportFacts
<1>2. PICK k \in 1 .. Len(Back[h]) :
        Back[h][k] = start /\ \A i \in 1 .. k - 1 : pool[Back[h][i]] > 0
  BY DEF Linked
<1>3. Back[h] \in Seq(Headers) /\ Len(Back[h]) \in Nat
  BY BackFacts
<1> DEFINE e == Export(pool, h)
<1>4. Len(e) = n /\ \A i \in 1 .. n : e[i] = Back[h][i]
  BY <1>1, <1>3, SubSeqProperties
<1>5. e \in Seq(Headers)
  BY ExportType
<1> HIDE DEF e
<1>6. CASE k <= n
  <2>1. k \in DOMAIN e /\ e[k] = start
    BY <1>2, <1>4, <1>5, <1>6
  <2> QED BY <2>1 DEF ToSet, e
<1>7. CASE n < k
  <2>1. n # Len(Back[h])
    BY <1>3, <1>7
  <2>2. ~(n + 1 \in 1 .. k - 1)
    BY <1>1, <1>2, <2>1
  <2>3. n + 1 = k /\ n \in 1 .. n /\ n \in 1 .. Len(Back[h]) - 1
    BY <1>3, <1>7, <2>2
  <2>4. Last(e) = Back[h][n]
    BY <1>4, <2>3 DEF Last
  <2>5. Prev[Back[h][n]] = Back[h][n + 1]
    BY <2>3, BackLinks
  <2> QED BY <1>2, <2>3, <2>4, <2>5 DEF e
<1> QED BY <1>3, <1>6, <1>7

\* A header on top of a linked one is linked when the pool has it.
LEMMA LinkedOn ==
  ASSUME NEW pool, NEW start, NEW d \in Headers, Prev[d] \in Headers,
         pool[d] > 0, Linked(pool, start, Prev[d])
  PROVE  Linked(pool, start, d)
<1> DEFINE b == Back[Prev[d]]
<1>1. PICK n \in 1 .. Len(b) : b[n] = start /\ \A i \in 1 .. n - 1 : pool[b[i]] > 0
  BY DEF Linked
<1>2. /\ Len(b) \in Nat \ {0} /\ Len(Back[d]) = Len(b) + 1 /\ Back[d][1] = d
      /\ \A i \in 1 .. Len(b) : Back[d][i + 1] = b[i]
  BY BackFacts
<1> HIDE DEF b
<1>3. n + 1 \in 1 .. Len(Back[d]) /\ Back[d][n + 1] = start
  BY <1>1, <1>2
<1>4. ASSUME NEW i \in 1 .. (n + 1) - 1 PROVE pool[Back[d][i]] > 0
  <2>1. CASE i = 1
    BY <1>2, <2>1
  <2>2. CASE i # 1
    <3>1. i - 1 \in 1 .. n - 1 /\ i - 1 \in 1 .. Len(b) /\ (i - 1) + 1 = i
      BY <1>1, <1>2, <2>2
    <3>2. Back[d][i] = b[i - 1]
      BY <1>2, <3>1
    <3> QED BY <1>1, <3>1, <3>2
  <2> QED BY <2>1, <2>2
<1> QED BY <1>3, <1>4 DEF Linked

\* extend keeps a subchain linked.
LEMMA LinkedFurthest ==
  ASSUME NEW pool, NEW start, NEW stop, NEW h \in Headers, Linked(pool, start, h)
  PROVE  Linked(pool, start, Furthest(pool, stop, h))
<1> DEFINE Q == {g \in Headers : Linked(pool, start, g)}
<1>1. Q \subseteq Headers /\ h \in Q
  OBVIOUS
<1>2. ASSUME NEW g \in Q PROVE Follow(pool, stop, g) \in Q
  <2> DEFINE d == Follow(pool, stop, g)
  <2>1. d \in Headers /\ (d = g \/ (Prev[d] = g /\ pool[d] > 0))
    BY FollowFacts
  <2> HIDE DEF d
  <2>2. CASE d = g
    BY <2>2 DEF d
  <2>3. CASE Prev[d] = g /\ pool[d] > 0
    <3>1. Linked(pool, start, d)
      BY <2>1, <2>3, LinkedOn
    <3> QED BY <2>1, <3>1 DEF d
  <2> QED BY <2>1, <2>2, <2>3
<1>3. Furthest(pool, stop, h) \in Q
  <2> HIDE DEF Q
  <2> QED BY <1>1, <1>2, RoundsIn
<1> QED BY <1>3

-----------------------------------------------------------------------------
(* The pool                                                                *)

\* Nothing is ever taken out of the pool q that was p.
Grown(p, q) ==
  /\ p \in [Headers -> 0 .. 2] /\ q \in [Headers -> 0 .. 2]
  /\ \A h \in Headers : p[h] <= q[h]

LEMMA LinkedGrown ==
  ASSUME NEW p, NEW q, Grown(p, q), NEW start, NEW h \in Headers, Linked(p, start, h)
  PROVE  Linked(q, start, h)
<1>1. PICK n \in 1 .. Len(Back[h]) :
        Back[h][n] = start /\ \A i \in 1 .. n - 1 : p[Back[h][i]] > 0
  BY DEF Linked
<1>2. Back[h] \in Seq(Headers) /\ Len(Back[h]) \in Nat
  BY BackFacts
<1>3. ASSUME NEW i \in 1 .. n - 1 PROVE q[Back[h][i]] > 0
  <2>1. i \in 1 .. Len(Back[h])
    BY <1>2
  <2>2. Back[h][i] \in Headers
    BY <1>2, <2>1, ElementOfSeq
  <2>3. p[Back[h][i]] > 0
    BY <1>1
  <2> QED BY <2>2, <2>3 DEF Grown
<1> QED BY <1>1, <1>3 DEF Linked

LEMMA SeveralGrown ==
  ASSUME NEW p, NEW q, Grown(p, q), NEW h, Several(p, h)
  PROVE  Several(q, h)
<1>1. PICK d \in Children(p, h), e \in Children(p, h) : d # e \/ p[d] = 2
  BY DEF Several
<1>2. d \in Headers /\ e \in Headers /\ d \in Children(q, h) /\ e \in Children(q, h)
  BY DEF Children, Grown
<1>3. p[d] = 2 => q[d] = 2
  BY <1>2 DEF Grown
<1> QED BY <1>1, <1>2, <1>3 DEF Several

LEMMA SingleOrSeveral ==
  ASSUME NEW pool, NEW h, Single(pool, h)
  PROVE  ~Several(pool, h)
<1> DEFINE C == Children(pool, h)
<1>1. IsFiniteSet(C)
  <2>1. C \subseteq Headers
    BY DEF Children
  <2> QED BY <2>1, HeadersAssumption, FS_Subset
<1>2. Cardinality(C) = 1 /\ \A d \in C : pool[d] = 1
  BY DEF Single, Number
<1>3. \E x : C = {x}
  <2> HIDE DEF C
  <2> QED BY <1>1, <1>2, FS_Singleton
<1> QED BY <1>2, <1>3 DEF Several

\* How often a header comes in a message.
LEMMA TimesFacts ==
  ASSUME NEW hs \in Messages, NEW h
  PROVE  /\ Number(Times(hs, h)) \in Nat
         /\ \A i \in Times(hs, h) : Number(Times(hs, h)) >= 1
         /\ \A i, j \in Times(hs, h) : i # j => Number(Times(hs, h)) >= 2
<1> DEFINE T == Times(hs, h)
<1>1. PICK n \in 1 .. MaxVector : hs \in [1 .. n -> Headers]
  BY DEF Messages
<1>2. T \subseteq 1 .. n
  BY <1>1 DEF Times, Passed
<1>3. IsFiniteSet(T)
  <2>1. IsFiniteSet(1 .. n)
    BY FS_Interval, LimitsAssumption
  <2> QED BY <1>2, <2>1, FS_Subset
<1> HIDE DEF T
<1>4. Cardinality(T) \in Nat
  BY <1>3, FS_CardinalityType
<1>5. ASSUME NEW i \in T PROVE Cardinality(T) >= 1
  <2>1. Cardinality(T) # 0
    BY <1>3, <1>5, FS_EmptySet
  <2> QED BY <1>4, <2>1
<1>6. ASSUME NEW i \in T, NEW j \in T, i # j PROVE Cardinality(T) >= 2
  <2>1. Cardinality(T) # 1
    BY <1>3, <1>6, FS_Singleton
  <2> QED BY <1>4, <1>5, <2>1
<1> QED BY <1>4, <1>5, <1>6 DEF Number, T

\* push only adds, and a duplicate is one of several that refer to the same header.
LEMMA PushFacts ==
  ASSUME NEW pool \in [Headers -> 0 .. 2], NEW hs \in Messages
  PROVE  /\ Grown(pool, Push(pool, hs))
         /\ \A h \in Duplicates(pool, hs) : h \in Headers /\ Several(Push(pool, hs), Prev[h])
<1> DEFINE q == Push(pool, hs)
           N(h) == Number(Times(hs, h))
<1>0. \A h \in Headers : N(h) \in Nat
  BY TimesFacts
<1>1. \A h \in Headers : q[h] = Capped(pool[h] + N(h))
  BY DEF Push
<1>2. q = [h \in Headers |-> q[h]]
  BY DEF Push
<1> HIDE DEF q, N
<1>3. Grown(pool, q)
  <2>1. ASSUME NEW h \in Headers PROVE q[h] \in 0 .. 2 /\ pool[h] <= q[h]
    BY <1>0, <1>1 DEF Capped
  <2> QED BY <1>2, <2>1 DEF Grown
<1>4. ASSUME NEW h \in Duplicates(pool, hs) PROVE h \in Headers /\ Several(q, Prev[h])
  <2>1. PICK i \in Passed(hs) :
          /\ h = hs[i]
          /\ \/ Children(pool, Prev[h]) # {}
             \/ \E j \in Passed(hs) : j < i /\ Prev[hs[j]] = Prev[h]
    BY DEF Duplicates
  <2>2. \A k \in Passed(hs) : hs[k] \in Headers /\ k \in Nat
    BY DEF Passed, Messages
  <2>3. \A k \in Passed(hs) : k \in Times(hs, hs[k])
    BY DEF Times
  <2>4. \A k \in Passed(hs) : N(hs[k]) >= 1
    BY <2>3, TimesFacts DEF N
  <2>5. \A k \in Passed(hs) : q[hs[k]] > 0
    BY <1>0, <1>1, <2>2, <2>4 DEF Capped
  <2>6. h \in Headers /\ h \in Children(q, Prev[h])
    BY <2>1, <2>2, <2>5 DEF Children
  <2>7. CASE Children(pool, Prev[h]) # {}
    <3>1. PICK d \in Headers : Prev[d] = Prev[h] /\ pool[d] > 0
      BY <2>7 DEF Children
    <3>2. d \in Children(q, Prev[h])
      BY <1>3, <3>1 DEF Children, Grown
    <3>3. CASE d # h
      BY <2>6, <3>2, <3>3 DEF Several
    <3>4. CASE d = h
      <4>1. q[h] = 2
        BY <1>0, <1>1, <2>1, <2>4, <2>6, <3>1, <3>4 DEF Capped
      <4> QED BY <2>6, <4>1 DEF Several
    <3> QED BY <2>6, <3>3, <3>4
  <2>8. CASE \E j \in Passed(hs) : j < i /\ Prev[hs[j]] = Prev[h]
    <3>1. PICK j \in Passed(hs) : j < i /\ Prev[hs[j]] = Prev[h]
      BY <2>8
    <3>2. hs[j] \in Children(q, Prev[h]) /\ j # i
      BY <2>2, <2>5, <3>1 DEF Children
    <3>3. CASE hs[j] # h
      BY <2>6, <3>2, <3>3 DEF Several
    <3>4. CASE hs[j] = h
      <4>1. i \in Times(hs, h) /\ j \in Times(hs, h)
        BY <2>1, <2>3, <3>4
      <4>2. N(h) >= 2
        BY <3>2, <4>1, TimesFacts DEF N
      <4>3. q[h] = 2
        BY <1>0, <1>1, <2>6, <4>2 DEF Capped
      <4> QED BY <2>6, <4>3 DEF Several
    <3> QED BY <2>6, <3>3, <3>4
  <2> QED BY <2>1, <2>7, <2>8
<1> QED BY <1>3, <1>4 DEF q

-----------------------------------------------------------------------------
(* Subchains                                                               *)

LEMMA ExtendedFacts ==
  ASSUME NEW pool, NEW c \in SubChains
  PROVE  /\ Extended(pool, c) \in SubChains
         /\ Extended(pool, c).stop = c.stop
         /\ ~IsActive(c) => Extended(pool, c) = c
         /\ IsActive(c) =>
              /\ Extended(pool, c).latest = Furthest(pool, c.stop, c.latest)
              /\ Extended(pool, c).stopped <=>
                   (c.stopped \/ Furthest(pool, c.stop, c.latest) = c.stop)
         /\ Extended(pool, c).latest = c.latest => Extended(pool, c).age = c.age
         /\ c.stopped => Extended(pool, c).stopped
         /\ Stops(pool, c) => Extended(pool, c).stopped
<1> DEFINE l == Furthest(pool, c.stop, c.latest)
<1>0. /\ c.latest \in Headers /\ c.stop \in Headers \cup {NoHeader} /\ c.age \in 0 .. Lifetime
      /\ c.stopped \in BOOLEAN
  BY DEF SubChains
<1>1. CASE ~IsActive(c)
  <2>1. Extended(pool, c) = c
    BY <1>1 DEF Extended
  <2>2. ~Stops(pool, c)
    BY <1>1 DEF Stops
  <2> QED BY <1>1, <2>1, <2>2
<1>2. CASE IsActive(c)
  <2>1. l \in Headers
    BY <1>0, FurthestFacts
  <2>2. Extended(pool, c) = [c EXCEPT !.latest = l,
                                      !.age = IF l = c.latest THEN c.age ELSE 0,
                                      !.stopped = c.stopped \/ l = c.stop]
    BY <1>2 DEF Extended
  <2>3. Stops(pool, c) => l = c.stop
    BY DEF Stops
  <2> HIDE DEF l
  <2>4. Extended(pool, c) = [latest |-> l, stop |-> c.stop,
                             age |-> IF l = c.latest THEN c.age ELSE 0,
                             stopped |-> (c.stopped \/ l = c.stop)]
    BY <2>2 DEF SubChains
  <2>5. (c.stopped \/ l = c.stop) \in BOOLEAN
    OBVIOUS
  <2>6. (IF l = c.latest THEN c.age ELSE 0) \in 0 .. Lifetime
    BY <1>0, LimitsAssumption
  <2>7. Extended(pool, c) \in SubChains
    BY <1>0, <2>1, <2>4, <2>5, <2>6 DEF SubChains
  <2> DEFINE s == c.stopped \/ l = c.stop
  <2>8. /\ Extended(pool, c).stop = c.stop /\ Extended(pool, c).latest = l
        /\ Extended(pool, c).latest = c.latest => Extended(pool, c).age = c.age
    BY <2>4
  <2>9. Extended(pool, c).stopped = s
    <3> HIDE DEF s
    <3> QED BY <2>4 DEF s
  <2> QED BY <1>2, <2>3, <2>7, <2>8, <2>9 DEF l
<1> QED BY <1>1, <1>2

\* A stopped subchain stays where it is.
LEMMA StoppedStays ==
  ASSUME NEW pool, NEW c \in SubChains, c.stopped, c.latest = c.stop
  PROVE  Extended(pool, c).latest = c.latest /\ Extended(pool, c).stopped
<1>1. c.latest \in Headers
  BY DEF SubChains
<1>2. Furthest(pool, c.stop, c.latest) = c.latest
  BY <1>1, FurthestFacts
<1> QED BY <1>2, ExtendedFacts

\* A built subchain stops at the header it was built for.
Built(h) == [latest |-> h, stop |-> h, age |-> 0, stopped |-> TRUE]

LEMMA BuildFacts ==
  ASSUME NEW m, m.start \in Headers, NEW h \in Headers
  PROVE  Build(m, h) = Built(h) /\ Built(h) \in SubChains
<1> DEFINE b == SubChain(m.start, h)
           c == [b EXCEPT !.latest = h]
<1>1. b \in SubChains /\ b.stop = h /\ b.age = 0 /\ b.stopped = FALSE
  BY LimitsAssumption DEF SubChain, SubChains
<1> HIDE DEF b
<1>2. c \in SubChains /\ c.stop = h /\ c.latest = h /\ c.age = 0 /\ c.stopped = FALSE
  BY <1>1 DEF SubChains
<1>3. Build(m, h) = Extended(m.pool, c)
  BY DEF Build, b
<1> HIDE DEF c
<1>4. IsActive(c)
  BY <1>2, LimitsAssumption DEF IsActive
<1>5. Furthest(m.pool, c.stop, c.latest) = h
  BY <1>2, FurthestFacts
<1> DEFINE x == Extended(m.pool, c)
<1>6. x \in SubChains /\ x.latest = h /\ x.stop = h /\ x.age = 0 /\ x.stopped
  BY <1>2, <1>4, <1>5, ExtendedFacts
<1> HIDE DEF x
<1>7. x = Built(h)
  BY <1>6 DEF Built, SubChains
<1>8. Built(h) \in SubChains
  BY LimitsAssumption DEF Built, SubChains
<1> QED BY <1>3, <1>7, <1>8 DEF x

\* extend, with a pool that has grown, keeps the shape of a subchain.
LEMMA ExtendedShape ==
  ASSUME NEW m, NEW w, w.start = m.start, w.stop = m.stop, Grown(m.pool, w.pool),
         NEW c \in SubChains, Shape(m, c)
  PROVE  Shape(w, Extended(w.pool, c))
<1> DEFINE x == Extended(w.pool, c)
           l == Furthest(w.pool, c.stop, c.latest)
<1>1. c.latest \in Headers
  BY DEF SubChains
<1>2. x.stop = c.stop
  BY ExtendedFacts
<1>3. CASE c.stopped
  <2>1. c.latest = c.stop /\ (c.stop # m.stop => Several(m.pool, Prev[c.latest]))
    BY <1>3 DEF Shape
  <2>2. x.latest = c.latest /\ x.stopped
    BY <1>3, <2>1, StoppedStays
  <2>3. c.stop # w.stop => Several(w.pool, Prev[c.latest])
    BY <2>1, SeveralGrown
  <2> HIDE DEF x
  <2> QED BY <1>2, <2>1, <2>2, <2>3 DEF Shape, x
<1>4. CASE ~c.stopped
  <2>1. c.stop = w.stop /\ Linked(m.pool, w.start, c.latest)
    BY <1>4 DEF Shape
  <2>2. Linked(w.pool, w.start, c.latest)
    BY <1>1, <2>1, LinkedGrown
  <2>3. CASE ~IsActive(c)
    <3>1. x = c
      BY <2>3, ExtendedFacts
    <3> HIDE DEF x
    <3> QED BY <1>4, <2>1, <2>2, <2>3, <3>1 DEF Shape, x
  <2>4. CASE IsActive(c)
    <3>1. x.latest = l /\ (x.stopped <=> l = c.stop)
      BY <1>4, <2>4, ExtendedFacts
    <3>2. Linked(w.pool, w.start, l)
      BY <1>1, <2>2, LinkedFurthest
    <3>3. l = c.stop \/ ~Single(w.pool, l)
      BY <1>1, FurthestFacts
    <3> HIDE DEF x, l
    <3> QED BY <1>2, <2>1, <3>1, <3>2, <3>3 DEF Shape, x
  <2> QED BY <2>3, <2>4
<1> QED BY <1>3, <1>4

\* extend does not bring the subchain that has not stopped to the end of a stopped one:
\* where one was built, several headers refer to the same one.
LEMMA ExtendedPair ==
  ASSUME NEW pool, NEW stop, NEW c \in SubChains, NEW d \in SubChains,
         c.latest = d.latest => c = d,
         ~c.stopped /\ ~d.stopped => c = d,
         c.stopped => c.latest = c.stop,
         c.stop # stop => Several(pool, Prev[c.latest]),
         d.stop # stop => d.stopped
  PROVE  Pair(Extended(pool, c), Extended(pool, d))
<1> DEFINE x == Extended(pool, c)
           y == Extended(pool, d)
<1>1. ~x.stopped /\ ~y.stopped => x = y
  <2>1. ~x.stopped /\ ~y.stopped => ~c.stopped /\ ~d.stopped
    BY ExtendedFacts
  <2> QED BY <2>1
<1>2. ASSUME x.latest = y.latest, x.stopped, ~y.stopped PROVE FALSE
  <2>1. ~d.stopped /\ d.stop = stop
    BY <1>2, ExtendedFacts
  <2>2. c.stopped
    BY <1>2, <2>1
  <2>3. x.latest = c.latest /\ c.latest = c.stop
    BY <2>2, StoppedStays
  <2>4. y.latest # d.latest
    <3> HIDE DEF x, y
    <3> QED BY <1>2, <2>1, <2>2, <2>3
  <2>5. IsActive(d)
    BY <2>4, ExtendedFacts
  <2>6. y.latest = Furthest(pool, d.stop, d.latest) /\ y.latest # d.stop
    BY <1>2, <2>5, ExtendedFacts
  <2>7. d.latest \in Headers
    BY DEF SubChains
  <2>8. Single(pool, Prev[y.latest])
    BY <2>4, <2>6, <2>7, FurthestFacts
  <2> HIDE DEF x, y
  <2>9. c.stop # stop
    BY <1>2, <2>1, <2>3, <2>6
  <2>10. Several(pool, Prev[y.latest])
    BY <1>2, <2>3, <2>9
  <2> QED BY <2>8, <2>10, SingleOrSeveral
<1> HIDE DEF x, y
<1> QED BY <1>1, <1>2 DEF Pair, x, y

-----------------------------------------------------------------------------
(* What the operations do to a manager                                     *)

\* A new manager: one subchain, an empty pool.
LEMMA NewManagerInv ==
  ASSUME NEW start \in Headers, NEW stop \in Headers \cup {NoHeader}
  PROVE  ManagerType(Manager(start, stop), NotAdding) /\ ManagerInv(Manager(start, stop), NotAdding)
<1> DEFINE m == Manager(start, stop)
           c == SubChain(start, stop)
<1>1. c \in SubChains /\ c.latest = start /\ c.stop = stop /\ c.stopped = FALSE
  BY LimitsAssumption DEF SubChain, SubChains
<1>2. /\ m.start = start /\ m.stop = stop /\ m.chains = {c} /\ m.finished = FALSE
      /\ m.pool = [h \in Headers |-> 0]
  BY DEF Manager
<1>3. m \in Managers
  <2>1. m.pool \in [Headers -> 0 .. 2]
    BY <1>2
  <2> HIDE DEF c
  <2> QED BY <1>1, <1>2, <2>1 DEF Managers, Manager, c
<1>4. NotAdding \in Additions /\ NotAdding.busy = FALSE /\ NotAdding.todo = {} /\ NotAdding.flag = FALSE
  BY DEF NotAdding, Additions
<1> HIDE DEF m, c
<1>5. ManagerType(m, NotAdding)
  BY <1>2, <1>3, <1>4 DEF ManagerType
<1>6. Linked(m.pool, start, start)
  <2>1. 1 \in 1 .. Len(Back[start]) /\ Back[start][1] = start
    BY BackFacts
  <2>2. 1 .. 1 - 1 = {}
    OBVIOUS
  <2> QED BY <2>1, <2>2 DEF Linked
<1>7. ~Single(m.pool, start)
  <2>1. Children(m.pool, start) = {}
    BY <1>2 DEF Children
  <2>2. Cardinality({}) = 0
    BY FS_EmptySet
  <2> QED BY <2>1, <2>2 DEF Single, Number
<1>8. Shape(m, c)
  BY <1>1, <1>2, <1>6, <1>7 DEF Shape
<1>9. m.chains \cup NotAdding.todo = {c}
  BY <1>2, <1>4
<1>10. ManagerInv(m, NotAdding)
  BY <1>1, <1>2, <1>4, <1>8, <1>9 DEF ManagerInv, Pair
<1> QED BY <1>5, <1>10 DEF m

\* What a message leaves in the set: the subchains there were, and one for each duplicate
\* at whose header none ends.
LEMMA ReceivedFacts ==
  ASSUME NEW m \in Managers, NEW hs \in Messages
  PROVE  LET M == Received(m, hs) IN
         /\ M \in Managers /\ M.start = m.start /\ M.stop = m.stop /\ M.finished = m.finished
         /\ M.pool = Push(m.pool, hs) /\ Grown(m.pool, M.pool)
         /\ m.chains \subseteq M.chains
         /\ \A c \in M.chains \ m.chains :
              \E h \in Headers : /\ c = Built(h) /\ Several(M.pool, Prev[h])
                                 /\ \A d \in m.chains : d.latest # h
<1> DEFINE q == Push(m.pool, hs)
           p == [m EXCEPT !.pool = q]
           B == {Build(p, h) : h \in Duplicates(m.pool, hs)}
           I == Insert(m.chains, B)
           M == Received(m, hs)
<1>1. m.pool \in [Headers -> 0 .. 2] /\ m.start \in Headers /\ m.chains \subseteq SubChains
  BY DEF Managers
<1>2. /\ Grown(m.pool, q)
      /\ \A h \in Duplicates(m.pool, hs) : h \in Headers /\ Several(q, Prev[h])
  BY <1>1, PushFacts
<1>3. M = [p EXCEPT !.chains = I]
  BY DEF Received
<1> HIDE DEF q
<1>4. p \in Managers /\ p.start = m.start /\ p.pool = q /\ p.chains = m.chains
  BY <1>1, <1>2 DEF Managers, Grown
<1>5. ASSUME NEW c \in B
      PROVE  \E h \in Headers : c = Built(h) /\ c \in SubChains /\ Several(q, Prev[h])
  <2>1. PICK h \in Duplicates(m.pool, hs) : c = Build(p, h)
    OBVIOUS
  <2>2. h \in Headers /\ Several(q, Prev[h])
    BY <1>2
  <2>3. p.start \in Headers
    BY <1>1, <1>4
  <2> HIDE DEF p
  <2>4. Build(p, h) = Built(h) /\ Built(h) \in SubChains
    BY <2>2, <2>3, BuildFacts
  <2> QED BY <2>1, <2>2, <2>4
<1>6. I \subseteq SubChains /\ m.chains \subseteq I
  <2> HIDE DEF B
  <2> QED BY <1>1, <1>5 DEF Insert
<1>7. ASSUME NEW c \in I \ m.chains
      PROVE  \E h \in Headers : /\ c = Built(h) /\ Several(q, Prev[h])
                                /\ \A d \in m.chains : d.latest # h
  <2>1. c \in B /\ \A d \in m.chains : d.latest # c.latest
    BY DEF Insert
  <2>2. PICK h \in Headers : c = Built(h) /\ Several(q, Prev[h])
    BY <1>5, <2>1
  <2>3. c.latest = h
    BY <2>2 DEF Built
  <2> HIDE DEF I
  <2> QED BY <2>1, <2>2, <2>3
<1> HIDE DEF I, M
<1>8. /\ M \in Managers /\ M.start = m.start /\ M.stop = m.stop /\ M.finished = m.finished
      /\ M.pool = q /\ M.chains = I
  BY <1>1, <1>2, <1>3, <1>4, <1>6 DEF Managers, Grown
<1>9. \A c \in M.chains \ m.chains :
        \E h \in Headers : /\ c = Built(h) /\ Several(M.pool, Prev[h])
                           /\ \A d \in m.chains : d.latest # h
  BY <1>7, <1>8
<1> QED BY <1>2, <1>6, <1>8, <1>9 DEF M, q

\* add, as far as the point where the set is cleared.
LEMMA AddHeadersInv ==
  ASSUME NEW m, NEW a, ManagerType(m, a), ManagerInv(m, a), ~a.busy, NEW hs \in Messages,
         NEW w, w = [Received(m, hs) EXCEPT !.chains = {}],
         NEW b, b = [busy |-> TRUE,
                     todo |-> {Extended(Received(m, hs).pool, c) : c \in Received(m, hs).chains},
                     flag |-> \E c \in Received(m, hs).chains : Stops(Received(m, hs).pool, c)]
  PROVE  ManagerType(w, b) /\ ManagerInv(w, b)
<1> DEFINE M == Received(m, hs)
           Ext(c) == Extended(M.pool, c)
<1>1. m \in Managers /\ a \in Additions /\ \A c, d \in m.chains : c.latest = d.latest => c = d
  BY DEF ManagerType
<1>2. a.todo = {}
  BY DEF ManagerInv
<1>3. /\ \A c \in m.chains : Shape(m, c)
      /\ \A c, d \in m.chains : Pair(c, d)
      /\ m.finished => \E c \in m.chains : c.stopped
  BY <1>2 DEF ManagerInv
<1>4. /\ M \in Managers /\ M.start = m.start /\ M.stop = m.stop /\ M.finished = m.finished
      /\ Grown(m.pool, M.pool) /\ m.chains \subseteq M.chains
  BY <1>1, ReceivedFacts
<1>5. ASSUME NEW c \in M.chains \ m.chains
      PROVE  \E h \in Headers : /\ c = Built(h) /\ Several(M.pool, Prev[h])
                                /\ \A d \in m.chains : d.latest # h
  BY <1>1, ReceivedFacts
<1> HIDE DEF M
<1>6. /\ w \in Managers /\ w.start = M.start /\ w.stop = M.stop /\ w.finished = M.finished
      /\ w.pool = M.pool /\ w.chains = {}
  BY <1>4 DEF Managers, M
<1>7. /\ b.busy = TRUE /\ b.todo = {Ext(c) : c \in M.chains}
      /\ b.flag = (\E c \in M.chains : Stops(M.pool, c))
  BY Zenon DEF M
<1>8. M.chains \subseteq SubChains
  BY <1>4 DEF Managers
<1>9. ASSUME NEW c \in M.chains
      PROVE  /\ Ext(c) \in SubChains
             /\ Shape(w, Ext(c))
  <2>1. CASE c \in m.chains
    <3>1. Shape(w, Extended(w.pool, c))
      BY <1>3, <1>4, <1>6, <1>8, <2>1, ExtendedShape
    <3> QED BY <1>6, <1>8, <3>1, ExtendedFacts
  <2>2. CASE c \notin m.chains
    <3>1. PICK h \in Headers : c = Built(h) /\ Several(M.pool, Prev[h])
      BY <1>5, <2>2
    <3>2. c.latest = h /\ c.stop = h /\ c.stopped = TRUE
      BY <3>1 DEF Built
    <3>3. Shape(w, c)
      BY <1>6, <3>1, <3>2 DEF Shape
    <3>4. Grown(w.pool, w.pool)
      BY <1>4, <1>6 DEF Grown
    <3>5. Shape(w, Extended(w.pool, c))
      BY <1>8, <3>3, <3>4, ExtendedShape
    <3> QED BY <1>6, <1>8, <3>5, ExtendedFacts
  <2> QED BY <2>1, <2>2
<1>10. ASSUME NEW c \in M.chains
       PROVE  /\ c.stopped => c.latest = c.stop
              /\ c.stop # m.stop => c.stopped /\ Several(M.pool, Prev[c.latest])
              /\ ~c.stopped => c \in m.chains
  <2>1. CASE c \in m.chains
    BY <1>3, <1>4, <2>1, SeveralGrown DEF Shape
  <2>2. CASE c \notin m.chains
    <3>1. PICK h \in Headers : c = Built(h) /\ Several(M.pool, Prev[h])
      BY <1>5, <2>2
    <3>2. c.latest = h /\ c.stop = h /\ c.stopped = TRUE
      BY <3>1 DEF Built
    <3> QED BY <3>1, <3>2
  <2> QED BY <2>1, <2>2
<1>11. ASSUME NEW c \in M.chains, NEW d \in M.chains, c.latest = d.latest PROVE c = d
  <2>1. \A e \in M.chains \ m.chains :
          e = Built(e.latest) /\ \A f \in m.chains : f.latest # e.latest
    <3> SUFFICES ASSUME NEW e \in M.chains \ m.chains
                 PROVE  e = Built(e.latest) /\ \A f \in m.chains : f.latest # e.latest
      OBVIOUS
    <3>1. PICK h \in Headers : e = Built(h) /\ \A f \in m.chains : f.latest # h
      BY <1>5
    <3>2. e.latest = h
      BY <3>1 DEF Built
    <3> QED BY <3>1, <3>2
  <2>2. CASE c \in m.chains /\ d \in m.chains
    BY <1>1, <1>11, <2>2
  <2>3. CASE c \in m.chains /\ d \notin m.chains
    BY <1>11, <2>1, <2>3
  <2>4. CASE c \notin m.chains /\ d \in m.chains
    BY <1>11, <2>1, <2>4
  <2>5. CASE c \notin m.chains /\ d \notin m.chains
    <3>1. c = Built(c.latest) /\ d = Built(d.latest)
      BY <2>1, <2>5
    <3> QED BY <1>11, <3>1, Zenon
  <2> QED BY <2>2, <2>3, <2>4, <2>5
<1>12. ASSUME NEW c \in M.chains, NEW d \in M.chains PROVE Pair(Ext(c), Ext(d))
  <2>1. ~c.stopped /\ ~d.stopped => c = d
    BY <1>3, <1>10 DEF Pair
  <2>2. c \in SubChains /\ d \in SubChains
    BY <1>8
  <2> QED BY <1>10, <1>11, <2>1, <2>2, ExtendedPair
<1>13. b.flag => \E x \in b.todo : x.stopped
  <2> SUFFICES ASSUME b.flag PROVE \E x \in b.todo : x.stopped
    OBVIOUS
  <2>1. PICK c \in M.chains : Stops(M.pool, c)
    BY <1>7
  <2>2. Ext(c).stopped
    BY <1>8, <2>1, ExtendedFacts
  <2> QED BY <1>7, <2>2
<1>14. w.finished => \E x \in b.todo : x.stopped
  <2> SUFFICES ASSUME w.finished PROVE \E x \in b.todo : x.stopped
    OBVIOUS
  <2>1. PICK c \in m.chains : c.stopped
    BY <1>3, <1>4, <1>6
  <2>2. c \in M.chains
    BY <1>4
  <2>3. Ext(c).stopped
    BY <1>8, <2>1, <2>2, ExtendedFacts
  <2> QED BY <1>7, <2>2, <2>3
<1>15. b \in Additions
  <2>1. b.todo \subseteq SubChains
    BY <1>7, <1>9
  <2>2. b.busy \in BOOLEAN /\ b.flag \in BOOLEAN
    BY <1>7
  <2>3. b = [busy |-> b.busy, todo |-> b.todo, flag |-> b.flag]
    BY <1>7
  <2> QED BY <2>1, <2>2, <2>3 DEF Additions
<1>16. w.chains \cup b.todo = b.todo
  BY <1>6
<1>17. \A x \in b.todo : Shape(w, x)
  BY <1>7, <1>9
<1>18. \A x, y \in b.todo : Pair(x, y)
  BY <1>7, <1>12
<1>19. ManagerType(w, b)
  BY <1>6, <1>15 DEF ManagerType
<1>20. ManagerInv(w, b)
  BY <1>7, <1>13, <1>14, <1>16, <1>17, <1>18 DEF ManagerInv
<1> QED BY <1>19, <1>20

\* One subchain goes back into the set: if it had stopped and is dropped, the one in its
\* place has stopped too.
LEMMA ReInsertInv ==
  ASSUME NEW m, NEW a, ManagerType(m, a), ManagerInv(m, a), NEW c \in a.todo,
         NEW w, w = [m EXCEPT !.chains = Insert(m.chains, {c})],
         NEW b, b = [a EXCEPT !.todo = a.todo \ {c}]
  PROVE  ManagerType(w, b) /\ ManagerInv(w, b)
<1> DEFINE I == Insert(m.chains, {c})
           U == m.chains \cup a.todo
           V == w.chains \cup b.todo
<1>1. m \in Managers /\ a \in Additions /\ \A d, e \in m.chains : d.latest = e.latest => d = e
  BY DEF ManagerType
<1>2. /\ ~a.busy => a.todo = {}
      /\ \A d \in U : Shape(m, d)
      /\ \A d, e \in U : Pair(d, e)
      /\ m.finished \/ a.flag => \E d \in U : d.stopped
  BY Zenon DEF ManagerInv
<1>3. /\ m.chains \subseteq I /\ I \subseteq m.chains \cup {c}
      /\ c \notin I => \E d \in m.chains : d.latest = c.latest
      /\ \A d, e \in I : d.latest = e.latest => d = e
  BY <1>1 DEF Insert
<1>4. m.chains \subseteq SubChains /\ a.todo \subseteq SubChains
  BY <1>1 DEF Managers, Additions
<1> HIDE DEF I
<1>5. /\ w \in Managers /\ w.start = m.start /\ w.stop = m.stop /\ w.pool = m.pool
      /\ w.finished = m.finished /\ w.chains = I
  BY <1>1, <1>3, <1>4 DEF Managers, I
<1>6. b \in Additions /\ b.busy = a.busy /\ b.flag = a.flag /\ b.todo = a.todo \ {c}
  BY <1>1, <1>4 DEF Additions
<1>7. V \subseteq U
  BY <1>3, <1>5, <1>6
<1>8. \A d \in V : Shape(w, d)
  BY <1>2, <1>5, <1>7 DEF Shape
<1>9. w.finished \/ b.flag => \E d \in V : d.stopped
  <2> SUFFICES ASSUME w.finished \/ b.flag PROVE \E d \in V : d.stopped
    OBVIOUS
  <2>1. PICK d \in U : d.stopped
    BY <1>2, <1>5, <1>6
  <2>2. CASE d \in V
    BY <2>1, <2>2
  <2>3. CASE d \notin V
    <3>1. d = c /\ c \notin I
      BY <1>3, <1>5, <1>6, <2>3
    <3>2. PICK e \in m.chains : e.latest = c.latest
      BY <1>3, <3>1
    <3>3. Pair(d, e)
      BY <1>2
    <3>4. e.stopped
      BY <2>1, <3>1, <3>2, <3>3 DEF Pair
    <3>5. e \in V
      BY <1>3, <1>5
    <3> QED BY <3>4, <3>5
  <2> QED BY <2>2, <2>3
<1>10. ManagerType(w, b)
  BY <1>3, <1>5, <1>6 DEF ManagerType
<1>11. a.busy
  BY <1>2
<1>12. \A d, e \in V : Pair(d, e)
  BY <1>2, <1>7
<1> QED BY <1>6, <1>8, <1>9, <1>10, <1>11, <1>12, Zenon DEF ManagerInv

\* extend and add return.
LEMMA ExtendEndsInv ==
  ASSUME NEW m, NEW a, ManagerType(m, a), ManagerInv(m, a), a.todo = {},
         NEW w, w = [m EXCEPT !.finished = m.finished \/ a.flag]
  PROVE  ManagerType(w, NotAdding) /\ ManagerInv(w, NotAdding)
<1>1. m \in Managers /\ a \in Additions /\ \A d, e \in m.chains : d.latest = e.latest => d = e
  BY DEF ManagerType
<1>2. /\ \A d \in m.chains : Shape(m, d)
      /\ \A d, e \in m.chains : Pair(d, e)
      /\ m.finished \/ a.flag => \E d \in m.chains : d.stopped
  BY DEF ManagerInv
<1> DEFINE f == m.finished \/ a.flag
<1>3. f \in BOOLEAN
  OBVIOUS
<1>4. w = [m EXCEPT !.finished = f]
  OBVIOUS
<1> HIDE DEF f
<1>5. /\ w \in Managers /\ w.start = m.start /\ w.stop = m.stop /\ w.pool = m.pool
      /\ w.chains = m.chains /\ w.finished = f
  BY <1>1, <1>3, <1>4 DEF Managers
<1>6. NotAdding \in Additions /\ NotAdding.busy = FALSE /\ NotAdding.todo = {} /\ NotAdding.flag = FALSE
  BY DEF NotAdding, Additions
<1>7. \A d \in w.chains : Shape(w, d)
  BY <1>2, <1>5 DEF Shape
<1>8. w.chains \cup NotAdding.todo = m.chains
  BY <1>5, <1>6
<1>9. w.finished \/ NotAdding.flag => \E d \in m.chains : d.stopped
  BY <1>2, <1>5, <1>6 DEF f
<1>10. ManagerInv(w, NotAdding)
  BY <1>2, <1>5, <1>6, <1>7, <1>8, <1>9 DEF ManagerInv
<1> QED BY <1>1, <1>5, <1>6, <1>10 DEF ManagerType

\* A second passes for one subchain.
Older(c) == [c EXCEPT !.age = IF c.age < Lifetime THEN c.age + 1 ELSE c.age]

LEMMA OlderFacts ==
  ASSUME NEW c \in SubChains
  PROVE  /\ Older(c) \in SubChains /\ Older(c).latest = c.latest /\ Older(c).stop = c.stop
         /\ Older(c).stopped = c.stopped
         /\ IsActive(Older(c)) => IsActive(c)
<1> DEFINE n == IF c.age < Lifetime THEN c.age + 1 ELSE c.age
<1>1. c.age \in 0 .. Lifetime
  BY DEF SubChains
<1>2. n \in 0 .. Lifetime /\ (n < Lifetime => c.age < Lifetime)
  BY <1>1, LimitsAssumption
<1>3. Older(c) = [c EXCEPT !.age = n]
  BY DEF Older
<1> HIDE DEF n
<1>4. /\ Older(c) \in SubChains /\ Older(c).latest = c.latest /\ Older(c).stop = c.stop
      /\ Older(c).stopped = c.stopped /\ Older(c).age = n
  BY <1>2, <1>3 DEF SubChains
<1> QED BY <1>2, <1>4 DEF IsActive

LEMMA TickInv ==
  ASSUME NEW m, NEW a, ManagerType(m, a), ManagerInv(m, a),
         NEW w, w = [m EXCEPT !.chains = Aged(m.chains)],
         NEW b, b = [a EXCEPT !.todo = Aged(a.todo)]
  PROVE  ManagerType(w, b) /\ ManagerInv(w, b)
<1> DEFINE U == m.chains \cup a.todo
           V == w.chains \cup b.todo
<1>1. m \in Managers /\ a \in Additions /\ \A d, e \in m.chains : d.latest = e.latest => d = e
  BY DEF ManagerType
<1>2. /\ ~a.busy => a.todo = {}
      /\ \A d \in U : Shape(m, d)
      /\ \A d, e \in U : Pair(d, e)
      /\ m.finished \/ a.flag => \E d \in U : d.stopped
  BY Zenon DEF ManagerInv
<1>3. m.chains \subseteq SubChains /\ a.todo \subseteq SubChains
  BY <1>1 DEF Managers, Additions
<1>4. \A S : Aged(S) = {Older(c) : c \in S}
  BY DEF Aged, Older
<1>5. ASSUME NEW S, S \subseteq SubChains PROVE Aged(S) \subseteq SubChains
  BY <1>4, <1>5, OlderFacts
<1>6. /\ w \in Managers /\ w.start = m.start /\ w.stop = m.stop /\ w.pool = m.pool
      /\ w.finished = m.finished /\ w.chains = Aged(m.chains)
  BY <1>1, <1>3, <1>5 DEF Managers
<1>7. b \in Additions /\ b.busy = a.busy /\ b.flag = a.flag /\ b.todo = Aged(a.todo)
  BY <1>1, <1>3, <1>5 DEF Additions
<1>8. V = {Older(c) : c \in U}
  BY <1>4, <1>6, <1>7
<1>9. U \subseteq SubChains
  BY <1>3
<1>10. \A d, e \in w.chains : d.latest = e.latest => d = e
  <2> SUFFICES ASSUME NEW d \in w.chains, NEW e \in w.chains, d.latest = e.latest
               PROVE  d = e
    OBVIOUS
  <2>1. PICK x \in m.chains : d = Older(x)
    BY <1>4, <1>6
  <2>2. PICK y \in m.chains : e = Older(y)
    BY <1>4, <1>6
  <2>3. x.latest = y.latest
    BY <1>3, <2>1, <2>2, OlderFacts
  <2> QED BY <1>1, <2>1, <2>2, <2>3
<1> HIDE DEF U, V
<1>11. ASSUME NEW d \in V PROVE Shape(w, d)
  <2>1. PICK c \in U : d = Older(c)
    BY <1>8
  <2>2. Shape(m, c)
    BY <1>2
  <2>3. /\ d.latest = c.latest /\ d.stop = c.stop /\ d.stopped = c.stopped
        /\ IsActive(d) => IsActive(c)
    BY <1>9, <2>1, OlderFacts
  <2> QED BY <1>6, <2>2, <2>3 DEF Shape
<1>12. ASSUME NEW d \in V, NEW e \in V PROVE Pair(d, e)
  <2>1. PICK x \in U : d = Older(x)
    BY <1>8
  <2>2. PICK y \in U : e = Older(y)
    BY <1>8
  <2>3. Pair(x, y)
    BY <1>2
  <2>4. /\ d.latest = x.latest /\ d.stopped = x.stopped
        /\ e.latest = y.latest /\ e.stopped = y.stopped
    BY <1>9, <2>1, <2>2, OlderFacts
  <2> QED BY <2>1, <2>2, <2>3, <2>4 DEF Pair
<1>13. (\E d \in U : d.stopped) => \E d \in V : d.stopped
  BY <1>8, <1>9, OlderFacts
<1>14. ~b.busy => b.todo = {}
  <2>1. Aged({}) = {}
    BY DEF Aged
  <2> QED BY <1>2, <1>7, <2>1
<1>15. w.finished \/ b.flag => \E d \in V : d.stopped
  BY <1>2, <1>6, <1>7, <1>13
<1>16. ManagerInv(w, b)
  BY <1>11, <1>12, <1>14, <1>15, Zenon DEF ManagerInv, V
<1> QED BY <1>6, <1>7, <1>10, <1>16 DEF ManagerType

-----------------------------------------------------------------------------
(* Every step keeps the invariant                                          *)

LEMMA InitIInv == Init => IInv
<1> SUFFICES ASSUME Init PROVE IInv
  OBVIOUS
<1>1. Tip \in Headers
  BY HeadersAssumption
<1>2. ManagerType(hm, adding) /\ ManagerInv(hm, adding)
  BY <1>1, NewManagerInv DEF Init
<1>3. BuilderType
  BY HeadersAssumption, LimitsAssumption DEF Init, BuilderType
<1>4. BuilderInv
  BY DEF Init, BuilderInv
<1> QED BY <1>2, <1>3, <1>4 DEF IInv, TypeOK

\* A step of the builder that leaves the manager alone.
LEMMA ManagerUnchanged ==
  ASSUME IInv, UNCHANGED <<hm, adding>>, BuilderType', BuilderInv'
  PROVE  IInv'
BY Zenon DEF IInv, TypeOK

\* A step that leaves the builder alone.
LEMMA BuilderUnchanged ==
  ASSUME IInv, UNCHANGED <<builder, arrived>>
  PROVE  BuilderType' /\ BuilderInv'
BY DEF IInv, TypeOK, BuilderType, BuilderInv, builder

LEMMA AddHeadersStep == ASSUME IInv, NEW hs \in Messages, AddHeaders(hs) PROVE IInv'
<1>1. ManagerType(hm, adding) /\ ManagerInv(hm, adding)
  BY DEF IInv, TypeOK
<1> DEFINE m == Received(hm, hs)
<1>2. /\ ~adding.busy
      /\ hm' = [m EXCEPT !.chains = {}]
      /\ adding' = [busy |-> TRUE,
                    todo |-> {Extended(m.pool, c) : c \in m.chains},
                    flag |-> \E c \in m.chains : Stops(m.pool, c)]
      /\ UNCHANGED <<builder, arrived>>
  BY DEF AddHeaders
<1>3. ManagerType(hm', adding') /\ ManagerInv(hm', adding')
  BY <1>1, <1>2, AddHeadersInv, Zenon
<1>4. BuilderType' /\ BuilderInv'
  BY <1>2, BuilderUnchanged
<1> QED BY <1>3, <1>4 DEF IInv, TypeOK

LEMMA ReInsertStep == ASSUME IInv, ReInsert PROVE IInv'
<1>1. ManagerType(hm, adding) /\ ManagerInv(hm, adding)
  BY DEF IInv, TypeOK
<1>2. PICK c \in adding.todo :
        /\ hm' = [hm EXCEPT !.chains = Insert(hm.chains, {c})]
        /\ adding' = [adding EXCEPT !.todo = adding.todo \ {c}]
  BY DEF ReInsert
<1>3. ManagerType(hm', adding') /\ ManagerInv(hm', adding')
  BY <1>1, <1>2, ReInsertInv
<1>4. BuilderType' /\ BuilderInv'
  BY BuilderUnchanged DEF ReInsert
<1> QED BY <1>3, <1>4 DEF IInv, TypeOK

LEMMA ExtendEndsStep == ASSUME IInv, ExtendEnds PROVE IInv'
<1>1. ManagerType(hm, adding) /\ ManagerInv(hm, adding)
  BY DEF IInv, TypeOK
<1>2. /\ adding.todo = {} /\ adding' = NotAdding
      /\ hm' = [hm EXCEPT !.finished = hm.finished \/ adding.flag]
  BY DEF ExtendEnds
<1>3. ManagerType(hm', adding') /\ ManagerInv(hm', adding')
  BY <1>1, <1>2, ExtendEndsInv
<1>4. BuilderType' /\ BuilderInv'
  BY BuilderUnchanged DEF ExtendEnds
<1> QED BY <1>3, <1>4 DEF IInv, TypeOK

LEMMA AddBlockStep == ASSUME IInv, NEW h \in Headers, AddBlock(h) PROVE IInv'
<1>1. BuilderType' /\ BuilderInv'
  <2>1. arrived' \subseteq ToSet(wanted)
    BY DEF AddBlock, IInv, TypeOK, BuilderType
  <2> QED BY <2>1 DEF AddBlock, IInv, TypeOK, BuilderType, BuilderInv, builder
<1>2. UNCHANGED <<hm, adding>>
  BY DEF AddBlock
<1> QED BY <1>1, <1>2, ManagerUnchanged

LEMMA TickStep == ASSUME IInv, Tick PROVE IInv'
<1>1. ManagerType(hm, adding) /\ ManagerInv(hm, adding)
  BY DEF IInv, TypeOK
<1>2. /\ hm' = [hm EXCEPT !.chains = Aged(hm.chains)]
      /\ adding' = [adding EXCEPT !.todo = Aged(adding.todo)]
  BY DEF Tick
<1>3. ManagerType(hm', adding') /\ ManagerInv(hm', adding')
  BY <1>1, <1>2, TickInv
<1>4. slept' \in 0 .. Timeout
  BY LimitsAssumption DEF Tick, IInv, TypeOK, BuilderType
<1>5. BuilderType' /\ BuilderInv'
  BY <1>4 DEF Tick, IInv, TypeOK, BuilderType, BuilderInv
<1> QED BY <1>3, <1>5 DEF IInv, TypeOK

\* A new header sync manager.
LEMMA NewManagerStep ==
  ASSUME IInv, NEW start \in Headers, NEW stop \in Headers \cup {NoHeader},
         NewManager(start, stop), UNCHANGED local, mode' \in {"forward", "backward"},
         forkPoint' \in local, count' \in 0 .. Decrements,
         mode' = "forward" => count' < Decrements
  PROVE  IInv'
<1>1. ManagerType(hm', adding') /\ ManagerInv(hm', adding')
  BY NewManagerInv DEF NewManager
<1>2. BuilderType'
  BY LimitsAssumption DEF NewManager, IInv, TypeOK, BuilderType
<1>3. BuilderInv'
  BY DEF BuilderInv
<1> QED BY <1>1, <1>2, <1>3 DEF IInv, TypeOK

\* A chain goes to the block sync manager.
LEMMA HandOverStep ==
  ASSUME IInv, NEW chain \in Seq(Headers), HandOver(chain), UNCHANGED <<mode, local>>,
         mode # "none", forkPoint' \in local, count' \in 0 .. Decrements
  PROVE  IInv'
<1>1. BuilderType'
  BY LimitsAssumption DEF HandOver, IInv, TypeOK, BuilderType
<1>2. BuilderInv'
  BY DEF HandOver, BuilderInv
<1>3. UNCHANGED <<hm, adding>>
  BY DEF HandOver
<1> QED BY <1>1, <1>2, <1>3, ManagerUnchanged

\* The builder's own state, and what it can export.
LEMMA BuilderFacts ==
  ASSUME IInv
  PROVE  /\ BuilderType /\ BuilderInv
         /\ forkPoint \in Headers /\ forkPoint \in local
         /\ Lowered(forkPoint) \in local /\ Lowered(forkPoint) \in Headers
         /\ hm.stop \in Headers \cup {NoHeader}
         /\ \A c \in hm.chains : Export(hm.pool, c.latest) \in Seq(Headers)
<1>1. BuilderType /\ BuilderInv /\ hm \in Managers
  BY DEF IInv, TypeOK, ManagerType
<1>2. forkPoint \in local /\ local \subseteq Headers
  BY <1>1 DEF BuilderType
<1>3. Lowered(forkPoint) \in local
  BY <1>2 DEF Lowered
<1>4. hm.stop \in Headers \cup {NoHeader} /\ hm.chains \subseteq SubChains
  BY <1>1 DEF Managers
<1>5. \A c \in hm.chains : c.latest \in Headers
  BY <1>4 DEF SubChains
<1>6. \A c \in hm.chains : Export(hm.pool, c.latest) \in Seq(Headers)
  BY <1>5, ExportType
<1> QED BY <1>1, <1>2, <1>3, <1>4, <1>6

LEMMA ForwardStep == ASSUME IInv, Forward PROVE IInv'
<1>1. /\ forkPoint \in Headers /\ forkPoint \in local /\ count = 0
      /\ NewManager(forkPoint, NoHeader) /\ UNCHANGED <<forkPoint, count, local>>
      /\ mode' = "forward"
  BY BuilderFacts DEF Forward, BuilderInv
<1>2. 0 \in 0 .. Decrements /\ 0 < Decrements
  BY LimitsAssumption
<1> QED BY <1>1, <1>2, NewManagerStep

LEMMA BackwardStep == ASSUME IInv, Backward PROVE IInv'
<1>1. /\ forkPoint \in Headers /\ forkPoint \in local /\ count = 0
      /\ UNCHANGED <<forkPoint, count, local>> /\ mode' = "backward"
  BY BuilderFacts DEF Backward, BuilderInv
<1>2. PICK o \in Objectives : NewManager(forkPoint, o)
  BY DEF Backward
<1>3. o \in Headers \cup {NoHeader}
  BY HeadersAssumption
<1>4. 0 \in 0 .. Decrements /\ 0 < Decrements
  BY LimitsAssumption
<1> QED BY <1>1, <1>2, <1>3, <1>4, NewManagerStep

LEMMA WaitStep == ASSUME IInv, Wait PROVE IInv'
<1>1. BuilderType' /\ BuilderInv'
  BY BuilderFacts, LimitsAssumption DEF Wait, BuilderType, BuilderInv
<1> QED BY <1>1, ManagerUnchanged DEF Wait

LEMMA LeaveStep == ASSUME IInv, Leave PROVE IInv'
<1>1. BuilderType' /\ BuilderInv'
  BY BuilderFacts DEF Leave, BuilderType, BuilderInv
<1> QED BY <1>1, ManagerUnchanged DEF Leave

LEMMA ChooseStep == ASSUME IInv, Choose PROVE IInv'
<1>1. PICK e \in Exports : HandOver(e)
  BY DEF Choose
<1>2. e \in Seq(Headers)
  BY BuilderFacts DEF Exports
<1>3. /\ mode # "none" /\ UNCHANGED <<mode, local>> /\ forkPoint' \in local
      /\ count' \in 0 .. Decrements
  BY BuilderFacts DEF Choose, BuilderType
<1> QED BY <1>1, <1>2, <1>3, HandOverStep

LEMMA TryFurtherBackStep == ASSUME IInv, TryFurtherBack PROVE IInv'
<1>1. /\ mode = "forward" /\ pc = "left" /\ forkPoint' = Lowered(forkPoint)
      /\ count' = count + 1 /\ UNCHANGED <<mode, local>>
      /\ IF count' < Decrements THEN NewManager(forkPoint', NoHeader) ELSE HandOver(<< >>)
  BY DEF TryFurtherBack
<1>2. forkPoint' \in local /\ forkPoint' \in Headers
  BY <1>1, BuilderFacts
<1>3. count' \in 0 .. Decrements
  BY <1>1, BuilderFacts, LimitsAssumption DEF BuilderType, BuilderInv
<1>4. CASE count' < Decrements
  BY <1>1, <1>2, <1>3, <1>4, NewManagerStep
<1>5. CASE ~(count' < Decrements)
  <2>1. << >> \in Seq(Headers)
    OBVIOUS
  <2> QED BY <1>1, <1>2, <1>3, <1>5, <2>1, HandOverStep
<1> QED BY <1>4, <1>5

LEMMA JudgeStep == ASSUME IInv, Judge PROVE IInv'
<1>1. /\ mode = "backward" /\ forkPoint' = Lowered(forkPoint)
      /\ count' = (IF count < Decrements THEN count + 1 ELSE count) /\ UNCHANGED <<mode, local>>
  BY DEF Judge
<1>2. forkPoint' \in local /\ forkPoint' \in Headers
  BY <1>1, BuilderFacts
<1>3. count' \in 0 .. Decrements
  BY <1>1, BuilderFacts, LimitsAssumption DEF BuilderType
<1>4. CASE NewManager(forkPoint', hm.stop)
  BY <1>1, <1>2, <1>3, <1>4, BuilderFacts, NewManagerStep
<1>5. CASE \E c \in hm.chains : HandOver(Export(hm.pool, c.latest))
  BY <1>1, <1>2, <1>3, <1>5, BuilderFacts, HandOverStep
<1>6. CASE /\ pc' = "crashed"
           /\ UNCHANGED <<status, slept, hm, adding, wanted, arrived, tries>>
  <2>1. BuilderType' /\ BuilderInv'
    BY <1>1, <1>2, <1>3, <1>6, BuilderFacts DEF BuilderType, BuilderInv
  <2> QED BY <1>6, <2>1, ManagerUnchanged
<1>7. \/ NewManager(forkPoint', hm.stop)
      \/ \E c \in hm.chains : HandOver(Export(hm.pool, c.latest))
      \/ pc' = "crashed" /\ UNCHANGED <<status, slept, hm, adding, wanted, arrived, tries>>
  BY Zenon DEF Judge
<1> QED BY <1>4, <1>5, <1>6, <1>7

LEMMA DownloadStep == ASSUME IInv, Download PROVE IInv'
<1>1. tries' \in 0 .. Retransmissions /\ slept' \in 0 .. Timeout
  BY BuilderFacts, LimitsAssumption DEF Download, BuilderType
<1>2. BuilderType' /\ BuilderInv'
  BY <1>1, BuilderFacts DEF Download, BuilderType, BuilderInv
<1> QED BY <1>2, ManagerUnchanged DEF Download

LEMMA BlockEndStep == ASSUME IInv, BlockEnd PROVE IInv'
<1>1. forkPoint \in local' /\ local' \subseteq Headers
  <2>1. wanted \in Seq(Headers) /\ forkPoint \in local /\ local \subseteq Headers
    BY BuilderFacts DEF BuilderType
  <2>2. ToSet(wanted) \subseteq Headers
    BY <2>1 DEF ToSet
  <2> QED BY <2>1, <2>2 DEF BlockEnd
<1>2. BuilderType' /\ BuilderInv'
  BY <1>1, BuilderFacts DEF BlockEnd, BuilderType, BuilderInv
<1> QED BY <1>2, ManagerUnchanged DEF BlockEnd

LEMMA NextIInv == IInv /\ [Next]_vars => IInv'
<1> SUFFICES ASSUME IInv, [Next]_vars PROVE IInv'
  OBVIOUS
<1>1. CASE Forward
  BY <1>1, ForwardStep
<1>2. CASE Backward
  BY <1>2, BackwardStep
<1>3. CASE Builder
  BY <1>3, WaitStep, LeaveStep, ChooseStep, TryFurtherBackStep, JudgeStep, DownloadStep,
     BlockEndStep DEF Builder
<1>4. CASE Tick
  BY <1>4, TickStep
<1>5. CASE \E hs \in Messages : AddHeaders(hs)
  BY <1>5, AddHeadersStep
<1>6. CASE ReInsert
  BY <1>6, ReInsertStep
<1>7. CASE ExtendEnds
  BY <1>7, ExtendEndsStep
<1>8. CASE \E h \in Headers : AddBlock(h)
  BY <1>8, AddBlockStep
<1>9. CASE UNCHANGED vars
  <2>1. UNCHANGED <<builder, arrived>> /\ UNCHANGED <<hm, adding>>
    BY <1>9 DEF vars
  <2> QED BY <2>1, BuilderUnchanged, ManagerUnchanged
<1> QED BY <1>1, <1>2, <1>3, <1>4, <1>5, <1>6, <1>7, <1>8, <1>9 DEF Next

-----------------------------------------------------------------------------
(* Theorems                                                                *)

\* Every behaviour of the builder, the thread that brings headers and the clock keeps the
\* inductive invariant.
THEOREM ChainSyncInvariant == Spec => []IInv
BY InitIInv, NextIInv, PTL DEF Spec

\* The set never holds two subchains with the same latest header, the counters of forward
\* and backward stay at their limits, and the fork point is a block of the local storage.
THEOREM ChainSyncTypeOK == Spec => []TypeOK
<1>1. IInv => TypeOK
  BY DEF IInv
<1> QED BY <1>1, ChainSyncInvariant, PTL

\* What the subchain that has not stopped exports leads back to the fork point its manager
\* began at, in whatever order and however often headers arrived.
THEOREM ChainSyncConnected == Spec => []Connected
<1>1. IInv => Connected
  <2> SUFFICES ASSUME IInv, NEW c \in Under, ~c.stopped
               PROVE  LET e == Export(hm.pool, c.latest)
                      IN hm.start \in ToSet(e) \/ Prev[Last(e)] = hm.start
    BY DEF Connected
  <2>1. hm \in Managers /\ adding \in Additions
    BY DEF IInv, TypeOK, ManagerType
  <2>2. c \in SubChains
    BY <2>1 DEF Under, Managers, Additions
  <2>3. c.latest \in Headers
    BY <2>2 DEF SubChains
  <2>4. Linked(hm.pool, hm.start, c.latest)
    BY DEF IInv, ManagerInv, Shape, Under
  <2> QED BY <2>3, <2>4, LinkedExport
<1> QED BY <1>1, ChainSyncInvariant, PTL

\* extend leaves no header out: between two messages no live subchain has a single header
\* in the pool to go on with.
THEOREM ChainSyncMaximal == Spec => []Maximal
<1>1. IInv => Maximal
  BY DEF IInv, ManagerInv, Shape, Maximal
<1> QED BY <1>1, ChainSyncInvariant, PTL

\* FINISHED always has a stopped subchain, in the set or on its way back into it.
THEOREM ChainSyncFinishedHasStopped == Spec => []FinishedHasStopped
<1>1. IInv => FinishedHasStopped
  BY DEF IInv, ManagerInv, FinishedHasStopped, Under
<1> QED BY <1>1, ChainSyncInvariant, PTL

\* backward takes a null subchain for the stopped one only while the other thread is
\* putting subchains back into the set it has cleared.
THEOREM CrashOnlyWhileAdding == Spec => [][pc # "crashed" /\ pc' = "crashed" => adding.busy]_vars
<1>1. IInv /\ [Next]_vars => [pc # "crashed" /\ pc' = "crashed" => adding.busy]_vars
  <2> SUFFICES ASSUME IInv, Next, pc # "crashed", pc' = "crashed", ~adding.busy PROVE FALSE
    OBVIOUS
  <2>1. Judge
    BY DEF Next, Forward, Backward, Builder, Tick, AddHeaders, ReInsert, ExtendEnds, AddBlock,
           NewManager, HandOver, Wait, Leave, Choose, TryFurtherBack, Download, BlockEnd, builder
  <2>2. hm.finished /\ \A c \in hm.chains : ~c.stopped
    BY <2>1 DEF Judge, NewManager, HandOver
  <2>3. adding.todo = {} /\ \E c \in hm.chains \cup adding.todo : c.stopped
    BY <2>2 DEF IInv, ManagerInv
  <2> QED BY <2>2, <2>3
<1> QED BY <1>1, ChainSyncInvariant, PTL DEF Spec

=============================================================================
