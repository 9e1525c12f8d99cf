-------------------------- MODULE CacheTableProofs --------------------------
(***************************************************************************)
(* Proofs about CacheTable, for every number of slots from 3 on and every  *)
(* set of frames.  The hand moves one slot per convert() and clears the    *)
(* bit it leaves, so the scan for a victim always meets a clear bit; and   *)
(* it meets one before it comes round to the page returned last.           *)
(***************************************************************************)
EXTENDS CacheTable, WellFoundedInduction, TLAPS

\* Reducing an index that is at most one round ahead.
LEMMA ModFacts ==
  ASSUME NEW x \in Nat, x < CacheBlockCount + CacheBlockCount
  PROVE  x % CacheBlockCount = IF x < CacheBlockCount THEN x ELSE x - CacheBlockCount
<1>1. CASE x < CacheBlockCount
  BY <1>1, CountAssumption, SMTT(30)
<1>2. CASE CacheBlockCount <= x
  BY <1>2, CountAssumption, SMTT(30)
<1> QED BY <1>1, <1>2, CountAssumption

\* The slot looked at in round k.
LEMMA ScannedFacts ==
  ASSUME ref \in Slots, NEW k \in 0 .. CacheBlockCount - 1
  PROVE  /\ Scanned(k) \in Slots
         /\ Scanned(k) = IF ref + k < CacheBlockCount THEN ref + k
                         ELSE ref + k - CacheBlockCount
<1>1. ref + k \in Nat /\ ref + k < CacheBlockCount + CacheBlockCount
  BY CountAssumption DEF Slots
<1>2. Scanned(k) = IF ref + k < CacheBlockCount THEN ref + k ELSE ref + k - CacheBlockCount
  <2> DEFINE x == ref + k
  <2>1. x \in Nat /\ x < CacheBlockCount + CacheBlockCount
    BY <1>1
  <2>2. Scanned(k) = x % CacheBlockCount
    BY DEF Scanned
  <2> HIDE DEF x
  <2>3. x % CacheBlockCount = IF x < CacheBlockCount THEN x ELSE x - CacheBlockCount
    BY <2>1, ModFacts, Zenon
  <2>4. Scanned(k) = IF x < CacheBlockCount THEN x ELSE x - CacheBlockCount
    BY <2>2, <2>3, Zenon
  <2> QED BY <2>4, CountAssumption DEF x, Slots
<1> QED BY <1>2, CountAssumption DEF Slots

\* The hand moves to the next slot, and Left is the slot it was on.
LEMMA AfterFacts ==
  ASSUME ref \in Slots
  PROVE  /\ After(ref) = IF ref + 1 = CacheBlockCount THEN 0 ELSE ref + 1
         /\ After(ref) \in Slots
<1>1. ref + 1 \in Nat /\ ref + 1 < CacheBlockCount + CacheBlockCount
  BY CountAssumption DEF Slots
<1>2. After(ref) = IF ref + 1 < CacheBlockCount THEN ref + 1 ELSE ref + 1 - CacheBlockCount
  <2> DEFINE x == ref + 1
  <2>1. x \in Nat /\ x < CacheBlockCount + CacheBlockCount
    BY <1>1
  <2>2. After(ref) = x % CacheBlockCount
    BY DEF After
  <2> HIDE DEF x
  <2>3. x % CacheBlockCount = IF x < CacheBlockCount THEN x ELSE x - CacheBlockCount
    BY <2>1, ModFacts, Zenon
  <2>4. After(ref) = IF x < CacheBlockCount THEN x ELSE x - CacheBlockCount
    BY <2>2, <2>3, Zenon
  <2> QED BY <2>4, CountAssumption DEF x, Slots
<1> QED BY <1>2, CountAssumption DEF Slots

\* A non-empty set of rounds has a first one.
LEMMA FirstRound ==
  ASSUME NEW S, S \subseteq Nat, S # {}
  PROVE  \E k \in S : \A j \in S : k <= j
<1> DEFINE R == OpToRel(<, Nat)
<1>1. PICK k \in S : \A j \in S : ~(<<j, k>> \in R)
  <2> HIDE DEF R
  <2>1. IsWellFoundedOn(R, Nat)
    BY NatLessThanWellFounded DEF R
  <2> QED BY <2>1, WFMin
<1>2. ASSUME NEW j \in S PROVE k <= j
  <2>1. ~(<<j, k>> \in R)
    BY <1>1
  <2>2. j \in Nat /\ k \in Nat
    OBVIOUS
  <2>3. <<j, k>> \in R <=> j < k
    BY <2>2 DEF OpToRel
  <2> HIDE DEF R
  <2> QED BY <2>1, <2>2, <2>3
<1> QED BY <1>2

\* The victim: the hand itself when no bit is clear, else the slot of the first
\* round that meets a clear bit.
LEMMA TargetFacts ==
  ASSUME ref \in Slots
  PROVE  /\ ClearRounds = {} => TargetOutPage = ref
         /\ ClearRounds # {} =>
              \E k \in ClearRounds : /\ TargetOutPage = Scanned(k)
                                     /\ \A j \in ClearRounds : k <= j
         /\ TargetOutPage \in Slots
<1>1. ClearRounds \subseteq 0 .. CacheBlockCount - 1 /\ ClearRounds \subseteq Nat
  BY CountAssumption DEF ClearRounds, LastRound
<1>2. CASE ClearRounds = {}
  BY <1>2 DEF TargetOutPage
<1>3. CASE ClearRounds # {}
  <2> DEFINE k == CHOOSE i \in ClearRounds : \A j \in ClearRounds : i <= j
  <2>1. k \in ClearRounds /\ \A j \in ClearRounds : k <= j
    BY <1>1, <1>3, FirstRound
  <2>2. TargetOutPage = Scanned(k)
    BY <1>3 DEF TargetOutPage
  <2> HIDE DEF k
  <2> QED BY <1>1, <1>3, <2>1, <2>2, ScannedFacts
<1> QED BY <1>2, <1>3

\* A page fault does not choose the slot returned last.
LEMMA VictimFacts ==
  ASSUME IInv, returned # -1
  PROVE  TargetOutPage # returned
<1>0. /\ ref \in Slots /\ returned \in Slots /\ bit \in [Slots -> BOOLEAN]
      /\ ~bit[Left]
      /\ returned = Left \/ bit[returned]
      /\ returned = BeforeLeft \/ ~bit[BeforeLeft]
  BY DEF IInv, TypeOK, LeftIsClear, ReturnedSafe
<1> DEFINE m == CacheBlockCount - 2
<1>1. m \in 0 .. LastRound /\ m \in 0 .. CacheBlockCount - 1
  BY CountAssumption DEF LastRound
<1>2. Scanned(m) = BeforeLeft
  BY <1>0, <1>1, ScannedFacts, CountAssumption DEF BeforeLeft, Left, Slots
<1>3. CASE ClearRounds = {}
  <2>1. bit[BeforeLeft]
    BY <1>1, <1>2, <1>3 DEF ClearRounds
  <2>2. LastRound = m
    <3>1. SUFFICES ASSUME ref # 0 PROVE FALSE
      BY DEF LastRound
    <3>2. CacheBlockCount - 1 \in 0 .. LastRound
      BY <3>1, CountAssumption DEF LastRound
    <3>3. Scanned(CacheBlockCount - 1) = Left
      BY <3>1, <1>0, ScannedFacts, CountAssumption DEF Left, Slots
    <3> QED BY <3>2, <3>3, <1>0, <1>3 DEF ClearRounds
  <2>3. ref = 0
    BY <2>2, CountAssumption DEF LastRound
  <2>4. BeforeLeft # 0
    BY <2>3, CountAssumption DEF BeforeLeft, Left
  <2>5. TargetOutPage = ref
    BY <1>0, <1>3, TargetFacts
  <2> QED BY <1>0, <2>1, <2>3, <2>4, <2>5
<1>4. CASE ClearRounds # {}
  <2>1. PICK k \in ClearRounds : /\ TargetOutPage = Scanned(k)
                                 /\ \A j \in ClearRounds : k <= j
    BY <1>0, <1>4, TargetFacts
  <2>2. k \in 0 .. LastRound /\ ~bit[Scanned(k)] /\ k \in 0 .. CacheBlockCount - 1
    BY CountAssumption DEF ClearRounds, LastRound
  <2>3. SUFFICES ASSUME Scanned(k) = returned PROVE FALSE
    BY <2>1
  <2>4. returned = Left
    BY <1>0, <2>2, <2>3
  <2>5. BeforeLeft # Left
    BY <1>0, CountAssumption DEF BeforeLeft, Left, Slots
  <2>6. m \in ClearRounds
    BY <1>0, <1>1, <1>2, <2>4, <2>5 DEF ClearRounds
  <2>7. k <= m
    BY <2>1, <2>6
  <2>8. Scanned(k) = IF ref + k < CacheBlockCount THEN ref + k ELSE ref + k - CacheBlockCount
    BY <1>0, <2>2, ScannedFacts
  <2> QED BY <1>0, <2>2, <2>3, <2>4, <2>7, <2>8, CountAssumption DEF Left, Slots
<1> QED BY <1>3, <1>4

\* What reference() and incrementReferencePtr() leave behind.
LEMMA TouchFacts ==
  ASSUME TypeOK, LeftIsClear, NEW i \in Slots, Touch(i), returned' = i
  PROVE  /\ bit' \in [Slots -> BOOLEAN]
         /\ ref' \in Slots
         /\ LeftIsClear'
         /\ ReturnedSafe'
<1>1. /\ ref \in Slots /\ bit \in [Slots -> BOOLEAN] /\ ~bit[Left]
      /\ bit' = [bit EXCEPT ![i] = TRUE, ![ref] = FALSE]
      /\ ref' = After(ref)
  BY DEF TypeOK, LeftIsClear, Touch
<1>2. ref' = (IF ref + 1 = CacheBlockCount THEN 0 ELSE ref + 1) /\ ref' \in Slots
  BY <1>1, AfterFacts
<1>3. Left' = ref
  BY <1>1, <1>2, CountAssumption DEF Left, Slots
<1>4. BeforeLeft' = Left /\ Left \in Slots /\ Left # ref
  <2>1. BeforeLeft' = IF ref = 0 THEN CacheBlockCount - 1 ELSE ref - 1
    BY <1>3 DEF BeforeLeft
  <2> QED BY <1>1, <2>1, CountAssumption DEF Left, Slots
<1>5. bit' \in [Slots -> BOOLEAN]
  BY <1>1
<1>6. ~bit'[ref]
  BY <1>1
<1>7. i = ref \/ bit'[i]
  BY <1>1
<1>8. i = Left \/ ~bit'[Left]
  BY <1>1, <1>4
<1>9. LeftIsClear'
  BY <1>3, <1>6 DEF LeftIsClear
<1>10. ReturnedSafe'
  BY <1>3, <1>4, <1>7, <1>8 DEF ReturnedSafe
<1> QED BY <1>2, <1>5, <1>9, <1>10

\* A hit returns the only slot that holds the frame.
LEMMA HitFacts ==
  ASSUME TypeOK, OneMapping, NEW frame \in Frames, Hit(frame)
  PROVE  CacheFind(frame) \in Slots /\ mapping[CacheFind(frame)] = frame
<1>1. PICK i \in Slots : Matches(i, frame)
  BY DEF Hit
<1>2. \A j \in Slots : Matches(j, frame) => j = i
  BY <1>1 DEF OneMapping, Matches
<1>3. \A j \in Slots : j < i => ~Matches(j, frame)
  BY <1>2 DEF Slots
<1>4. CacheFind(frame) \in Slots /\ Matches(CacheFind(frame), frame)
  BY <1>1, <1>3 DEF CacheFind
<1> QED BY <1>4 DEF Matches, OneMapping

\* The inductive step.
LEMMA NextIInv == IInv /\ [Next]_vars => IInv'
<1> SUFFICES ASSUME IInv, [Next]_vars PROVE IInv'
  OBVIOUS
<1>0. TypeOK /\ LeftIsClear /\ OneMapping
  BY DEF IInv
<1>1. ASSUME NEW frame \in Frames, ConvertHit(frame) PROVE IInv'
  <2>1. CacheFind(frame) \in Slots
    BY <1>0, <1>1, HitFacts DEF ConvertHit
  <2>2. /\ bit' \in [Slots -> BOOLEAN] /\ ref' \in Slots /\ LeftIsClear' /\ ReturnedSafe'
    BY <1>0, <1>1, <2>1, TouchFacts DEF ConvertHit
  <2>3. TypeOK'
    BY <1>0, <1>1, <2>1, <2>2 DEF TypeOK, ConvertHit
  <2>4. OneMapping'
    BY <1>0, <1>1 DEF OneMapping, ConvertHit
  <2> QED BY <2>2, <2>3, <2>4 DEF IInv
<1>2. ASSUME NEW frame \in Frames, ConvertMiss(frame) PROVE IInv'
  <2> DEFINE out == TargetOutPage
  <2>1. out \in Slots
    BY <1>0, TargetFacts DEF TypeOK
  <2> HIDE DEF out
  <2>2. /\ cacheing' = [cacheing EXCEPT ![out] = frame]
        /\ mapping' = [mapping EXCEPT ![out] = frame]
        /\ returned' = out /\ Touch(out)
    BY <1>2 DEF ConvertMiss, out
  <2>3. /\ bit' \in [Slots -> BOOLEAN] /\ ref' \in Slots /\ LeftIsClear' /\ ReturnedSafe'
    BY <1>0, <2>1, <2>2, TouchFacts
  <2>4. TypeOK'
    BY <1>0, <2>1, <2>2, <2>3 DEF TypeOK
  <2>5. OneMapping'
    <3>1. cacheing' = mapping'
      BY <1>0, <2>2 DEF OneMapping
    <3>2. cacheing \in [Slots -> Frames \cup {None}]
      BY <1>0 DEF TypeOK
    <3>3. \A i \in Slots : cacheing[i] = frame => frame \in HighFrames
      BY <1>2 DEF ConvertMiss, Hit, Matches
    <3>4. ASSUME NEW i \in Slots, NEW j \in Slots, cacheing'[i] = cacheing'[j],
                 cacheing'[i] \in Frames \ HighFrames
          PROVE  i = j
      BY <1>0, <2>1, <2>2, <3>2, <3>3, <3>4 DEF OneMapping
    <3> QED BY <3>1, <3>4 DEF OneMapping
  <2> QED BY <2>3, <2>4, <2>5 DEF IInv
<1>3. CASE UNCHANGED vars
  BY <1>3 DEF vars, IInv, TypeOK, LeftIsClear, Left, OneMapping, ReturnedSafe, BeforeLeft
<1> QED BY <1>1, <1>2, <1>3 DEF Next, Convert

\* The table starts empty with every bit clear.
LEMMA InitIInv == Init => IInv
<1> SUFFICES ASSUME Init PROVE IInv
  OBVIOUS
<1>1. TypeOK
  BY CountAssumption DEF Init, TypeOK, Slots
<1>2. LeftIsClear
  BY CountAssumption DEF Init, LeftIsClear, Left, Slots
<1>3. OneMapping
  BY FramesAssumption DEF Init, OneMapping
<1>4. ReturnedSafe
  BY DEF Init, ReturnedSafe
<1> QED BY <1>1, <1>2, <1>3, <1>4 DEF IInv

\* The clock and the two lists of the cache keep their inductive invariant.
THEOREM CacheInvariant == Spec => []IInv
BY InitIInv, NextIInv, PTL DEF Spec

\* The hand and the tables of the cache keep their types: every slot maps a frame or none,
\* and the address returned last lies in a slot.
THEOREM CacheTypeOK == Spec => []TypeOK
<1>1. IInv => TypeOK
  BY DEF IInv
<1> QED BY <1>1, CacheInvariant, PTL

\* targetOutPage ends: the slot behind the hand always has a clear bit.
THEOREM CacheScanEnds == Spec => []LeftIsClear
<1>1. IInv => LeftIsClear
  BY DEF IInv
<1> QED BY <1>1, CacheInvariant, PTL

\* A frame that fits a short is mapped once.
THEOREM CacheOneMapping == Spec => []OneMapping
<1>1. IInv => OneMapping
  BY DEF IInv
<1> QED BY <1>1, CacheInvariant, PTL

\* convert() returns an address in the mapping of the frame asked for.
THEOREM CacheRightFrame == Spec => RightFrame
<1>1. IInv /\ [Next]_vars =>
        [\A frame \in Frames : Convert(frame) => mapping'[returned'] = frame]_vars
  <2> SUFFICES ASSUME IInv, NEW frame \in Frames, Convert(frame)
               PROVE  mapping'[returned'] = frame
    OBVIOUS
  <2>0. TypeOK /\ OneMapping
    BY DEF IInv
  <2>1. CASE ConvertHit(frame)
    <3>1. returned' = CacheFind(frame) /\ mapping' = mapping /\ Hit(frame)
      BY <2>1 DEF ConvertHit
    <3> QED BY <2>0, <3>1, HitFacts
  <2>2. CASE ConvertMiss(frame)
    <3>1. TargetOutPage \in Slots
      BY <2>0, TargetFacts DEF TypeOK
    <3>2. mapping' = [mapping EXCEPT ![TargetOutPage] = frame] /\ returned' = TargetOutPage
      BY <2>2 DEF ConvertMiss
    <3> QED BY <2>0, <3>1, <3>2 DEF TypeOK
  <2> QED BY <2>1, <2>2 DEF Convert
<1> QED BY <1>1, CacheInvariant, PTL DEF Spec, RightFrame

\* A page fault keeps the page that the last convert() returned.
THEOREM CacheLastPageKept == Spec => LastPageKept
<1>1. IInv /\ [Next]_vars => [returned # -1 => mapping'[returned] = mapping[returned]]_vars
  <2> SUFFICES ASSUME IInv, Next, returned # -1
               PROVE  mapping'[returned] = mapping[returned]
    OBVIOUS
  <2>1. PICK frame \in Frames : Convert(frame)
    BY DEF Next
  <2>2. CASE ConvertHit(frame)
    BY <2>2 DEF ConvertHit
  <2>3. CASE ConvertMiss(frame)
    <3>1. mapping' = [mapping EXCEPT ![TargetOutPage] = frame]
      BY <2>3 DEF ConvertMiss
    <3>2. TargetOutPage # returned
      BY VictimFacts
    <3>3. mapping \in [Slots -> Frames \cup {None}] /\ returned \in Slots
      BY DEF IInv, TypeOK
    <3> QED BY <3>1, <3>2, <3>3
  <2> QED BY <2>1, <2>2, <2>3 DEF Convert
<1> QED BY <1>1, CacheInvariant, PTL DEF Spec, LastPageKept

=============================================================================
