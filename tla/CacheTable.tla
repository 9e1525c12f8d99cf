----------------------------- MODULE CacheTable -----------------------------
(***************************************************************************)
(* The page cache in front of every MiyaDB data file (cache_table.cpp,     *)
(* cache_table_LRU.cpp, mapper.cpp).  A file is cut into 65536-byte        *)
(* frames; CACHE_BLOCK_COUNT of them are mmapped at a time.  convert()     *)
(* turns an overlay pointer into an address inside the mapping of its      *)
(* frame.  Victims are chosen by a clock: reference bits                   *)
(* (_invalidCacheList) and a hand (_referencePtr) that every convert()     *)
(* moves on by one slot.                                                   *)
(*                                                                         *)
(* _cacheingList is an array of short, while frame numbers are unsigned    *)
(* short: a frame of 32768 or more is stored as a negative number and      *)
(* never compares equal to itself again.  HighFrames is the set of those   *)
(* frames; a lookup of one of them is always a miss.                       *)
(***************************************************************************)
EXTENDS Integers

CONSTANTS
  CacheBlockCount,   \* CACHE_BLOCK_COUNT
  Frames,            \* frame numbers in use
  HighFrames,        \* those that do not fit a short
  None               \* nullptr in _mappingList, -1 in _cacheingList

ASSUME CountAssumption  == CacheBlockCount \in Nat /\ CacheBlockCount >= 3
ASSUME FramesAssumption == HighFrames \subseteq Frames /\ None \notin Frames

VARIABLES
  cacheing,     \* _cacheingList: the frame each slot is recorded to hold
  mapping,      \* _mappingList: the frame each slot's mmapped area shows
  bit,          \* _LRU._invalidCacheList: reference bits
  ref,          \* _LRU._referencePtr: the hand
  returned      \* slot of the mapping the last convert() returned, -1 at first

vars == <<cacheing, mapping, bit, ref, returned>>

Slots == 0 .. CacheBlockCount - 1

\* Mutant of After: the hand does not wrap.
AfterNoWrap(i) == i + 1

\* incrementReferencePtr's successor of slot i.
After(i) == (i + 1) % CacheBlockCount

Init ==
  /\ cacheing = [i \in Slots |-> None]
  /\ mapping = [i \in Slots |-> None]
  /\ bit = [i \in Slots |-> FALSE]
  /\ ref = 0
  /\ returned = -1

\* Mutants of Matches: a lookup compares the low bits only; it misses a frame
\* that is mapped.
MatchesAny(i, frame) == cacheing[i] # None
MatchesNever(i, frame) == FALSE

\* cacheFind's comparison of slot i with the frame looked for.
Matches(i, frame) == cacheing[i] = frame /\ frame \notin HighFrames

\* cacheFind: the first slot that matches.
Hit(frame) == \E i \in Slots : Matches(i, frame)
CacheFind(frame) ==
  CHOOSE i \in Slots : Matches(i, frame) /\ \A j \in Slots : j < i => ~Matches(j, frame)

\* The slot targetOutPage looks at in round k of its loop.
Scanned(k) == (ref + k) % CacheBlockCount

\* The loop of targetOutPage counts i up from the hand without reducing it and
\* leaves at i = (_referencePtr - 1 + N) % N.  Only a hand at 0 gets there, in
\* round N - 2; any other hand is past that value from the start, and its loop
\* ends at a clear bit or never.
LastRound == IF ref = 0 THEN CacheBlockCount - 2 ELSE CacheBlockCount - 1
ClearRounds == {k \in 0 .. LastRound : ~bit[Scanned(k)]}
ScanEnds == ref = 0 \/ ClearRounds # {}

\* Mutant of TargetOutPage: the reference bits are ignored.
TargetHand == ref

TargetOutPage ==
  IF ClearRounds = {} THEN ref
  ELSE Scanned(CHOOSE k \in ClearRounds : \A j \in ClearRounds : k <= j)

\* Mutant of Touch: the bit of the slot in use is set after the hand cleared it.
TouchLate(i) ==
  /\ bit' = [bit EXCEPT ![ref] = FALSE, ![i] = TRUE]
  /\ ref' = After(ref)

\* reference(idx), then incrementReferencePtr: the hand clears the bit it leaves,
\* which may be the one just set.
Touch(i) ==
  /\ bit' = [bit EXCEPT ![i] = TRUE, ![ref] = FALSE]
  /\ ref' = After(ref)

\* convert() of a frame that cacheFind finds ...
ConvertHit(frame) ==
  /\ Hit(frame)
  /\ returned' = CacheFind(frame)
  /\ Touch(CacheFind(frame))
  /\ UNCHANGED <<cacheing, mapping>>

\* ... and of one it does not: pageFault unmaps the victim (pageOut) and maps the
\* frame in its place (pageIn), whose reference bit Touch sets again.
ConvertMiss(frame) ==
  LET out == TargetOutPage
  IN  /\ ~Hit(frame)
      /\ ScanEnds
      /\ cacheing' = [cacheing EXCEPT ![out] = frame]
      /\ mapping' = [mapping EXCEPT ![out] = frame]
      /\ returned' = out
      /\ Touch(out)

Convert(frame) == ConvertHit(frame) \/ ConvertMiss(frame)

Next == \E frame \in Frames : Convert(frame)

Spec == Init /\ [][Next]_vars

----------------------------------------------------------------------------
(* Properties                                                              *)

TypeOK ==
  /\ cacheing \in [Slots -> Frames \cup {None}]
  /\ mapping \in [Slots -> Frames \cup {None}]
  /\ bit \in [Slots -> BOOLEAN]
  /\ ref \in Slots
  /\ returned \in Slots \cup {-1}

\* The slot the hand has just left.
Left == IF ref = 0 THEN CacheBlockCount - 1 ELSE ref - 1

\* targetOutPage always ends although its loop compares a reduced with an
\* unreduced index: the slot the hand has just left has a clear bit.
LeftIsClear == ~bit[Left]

\* A frame below 32768 is mapped at most once, and where it is recorded: all
\* accesses to it go through one mapping.
OneMapping ==
  /\ cacheing = mapping
  /\ \A i, j \in Slots :
       cacheing[i] = cacheing[j] /\ cacheing[i] \in Frames \ HighFrames => i = j

\* convert() returns an address inside the mapping of the frame it was asked for.
RightFrame ==
  [][\A frame \in Frames : Convert(frame) => mapping'[returned'] = frame]_vars

\* A page fault never evicts the page that the convert() before it returned: two
\* overlay pointers used in turn (ocmp, omemcpy between pointers) do not
\* evict each other.
LastPageKept ==
  [][returned # -1 => mapping'[returned] = mapping[returned]]_vars

\* The slot before the one the hand has just left.
BeforeLeft == IF Left = 0 THEN CacheBlockCount - 1 ELSE Left - 1

\* Why the page returned last is kept: its bit is set, unless the hand has just
\* left it; and the scan meets a clear bit before it gets to the slot just left.
ReturnedSafe ==
  returned # -1 =>
    /\ returned = Left \/ bit[returned]
    /\ returned = BeforeLeft \/ ~bit[BeforeLeft]

\* The inductive invariant of Spec.
IInv == TypeOK /\ LeftIsClear /\ OneMapping /\ ReturnedSafe

=============================================================================
