----------------------- MODULE OverlayMemoryAllocator -----------------------
(***************************************************************************)
(* The allocator behind every MiyaDB file (overlay_memory_allocator.cpp,   *)
(* meta_block.cpp, control_block.cpp).  Its whole state is the control     *)
(* file (".ofl"): a meta block with three list heads and the tail of the   *)
(* control-block area, followed by 20-byte control blocks.  A control      *)
(* block carries prev and next links, the start address of the data region *)
(* it describes (mapping) and the address just behind it (end); an end of  *)
(* 0 reads back as nullptr and marks the unbounded region at the end of    *)
(* the data file.                                                          *)
(*                                                                         *)
(* A control block is named by its position in the file: block 1 sits at   *)
(* META_BLOCK_SIZE, block k + 1 directly behind block k.  NULL (0) is the  *)
(* all-zero address.  Each setter of MetaBlock and ControlBlock is an      *)
(* operator from control files to control files, applied in the order in   *)
(* which the code performs the writes, and every read that the code does   *)
(* again after a write is done again here.                                 *)
(***************************************************************************)
EXTENDS Naturals, FiniteSets

CONSTANTS
  MaxBlocks,   \* bound: control blocks the control file may hold
  Sizes        \* the sizes callers ask for

ASSUME MaxBlocksAssumption == MaxBlocks \in Nat /\ MaxBlocks >= 3
ASSUME SizesAssumption == Sizes \subseteq Nat \ {0}

VARIABLES
  ctl,    \* the control file
  live    \* regions <<start, size>> callers hold: allocated since the last clear

vars == <<ctl, live>>

NULL == 0
Blocks == 1 .. MaxBlocks
Lists == {"free", "allocated", "unused"}

----------------------------------------------------------------------------
(* Control blocks and the meta block                                       *)

\* A file of zeroes: what a freshly created control file reads as.
ZeroFile ==
  [ head    |-> [l \in Lists |-> NULL],
    tail    |-> NULL,
    prev    |-> [b \in Blocks |-> NULL],
    next    |-> [b \in Blocks |-> NULL],
    mapping |-> [b \in Blocks |-> 0],
    end     |-> [b \in Blocks |-> 0] ]

\* MetaBlock::freeBlockHead / allocatedBlockHead / unUsedControlBlockHead (b):
\* "set the head" also links b in front of the list when the list is not empty.
\* The old head's prev is read twice, before and after b's own prev was written;
\* both reads give the same block.
ClearHead(c, l) == [c EXCEPT !.head = [@ EXCEPT ![l] = NULL]]
LinkAlone(c, l, b) ==
  [c EXCEPT !.head = [@ EXCEPT ![l] = b],
            !.prev = [@ EXCEPT ![b] = b],
            !.next = [@ EXCEPT ![b] = b]]
LinkFront(c, l, b) ==
  LET h == c.head[l]
      p == c.prev[h]
  IN  [c EXCEPT !.head = [@ EXCEPT ![l] = b],
                !.prev = [@ EXCEPT ![b] = p, ![h] = b],
                !.next = [@ EXCEPT ![b] = h, ![p] = b]]
SetHead(c, l, b) ==
  IF b = NULL THEN ClearHead(c, l)
  ELSE IF c.head[l] = NULL THEN LinkAlone(c, l, b) ELSE LinkFront(c, l, b)

\* Taking b out of its neighbours' links, as useUnUsedControlBlockHead and
\* toUnUsedControlBlock do: first the next block's prev, then, with prev read
\* again, the previous block's next.
Bypass(c, b) ==
  LET c1 == [c EXCEPT !.prev = [@ EXCEPT ![c.next[b]] = c.prev[b]]]
  IN  [c1 EXCEPT !.next = [@ EXCEPT ![c1.prev[b]] = c1.next[b]]]

\* MetaBlock::useUnUsedControlBlockHead, for a non-empty unused list: the head
\* is returned; the rest of the list is re-headed with the linking setter.
UseUnUsed(c) ==
  LET u == c.head["unused"]
  IN  IF c.next[u] = u
      THEN SetHead(c, "unused", NULL)
      ELSE LET c1 == Bypass(c, u) IN SetHead(c1, "unused", c1.next[u])

\* The control block the next caller gets, and the file after it was taken:
\* the unused head, or else a new block behind the tail (newControlBlock).
TakenBlock(c) == IF c.head["unused"] = NULL THEN c.tail + 1 ELSE c.head["unused"]
TakeBlock(c)  == IF c.head["unused"] = NULL THEN [c EXCEPT !.tail = c.tail + 1]
                                            ELSE UseUnUsed(c)

\* ControlBlock::freeBlockSize: 0 stands for "no end", the unbounded region.
FreeBlockSize(c, b) == IF c.end[b] = 0 THEN 0 ELSE c.end[b] - c.mapping[b]

\* The list block b heads, in the order in which toUnUsedControlBlock compares
\* the heads; NoList when it heads none.
NoList == "none"
HeadOf(c, b) ==
  CASE c.head["free"] = b      -> "free"
    [] c.head["free"] # b /\ c.head["allocated"] = b -> "allocated"
    [] c.head["free"] # b /\ c.head["allocated"] # b /\ c.head["unused"] = b -> "unused"
    [] OTHER -> NoList

\* OverlayMemoryAllocator::toUnUsedControlBlock
ReHead(c, l, b) == IF l = NoList THEN c ELSE SetHead(c, l, b)
ToUnUsed(c, b) ==
  IF c.prev[b] = b \/ c.next[b] = b
  THEN SetHead(ReHead(c, HeadOf(c, b), NULL), "unused", b)
  ELSE SetHead(Bypass(ReHead(c, HeadOf(c, b), c.next[b]), b), "unused", b)

----------------------------------------------------------------------------
(* Walking a list                                                          *)

\* The block reached from the head of list l after k steps along next.
Walk(c, l) ==
  LET w[k \in 0 .. MaxBlocks] == IF k = 0 THEN c.head[l] ELSE c.next[w[k - 1]]
  IN  w

\* The blocks a walk over list l visits before it is back at the head.
Chain(c, l) ==
  IF c.head[l] = NULL THEN {} ELSE {Walk(c, l)[k] : k \in 0 .. MaxBlocks}

Fits(c, b, size) == FreeBlockSize(c, b) = 0 \/ FreeBlockSize(c, b) >= size

\* findFreeBlock( ControlBlock*, size ): first fit from the head; it recurses
\* for ever when no block of the chain fits.
HasFit(c, size) == \E b \in Chain(c, "free") : Fits(c, b, size)
FindFree(c, size) ==
  LET w == Walk(c, "free")
      k == CHOOSE i \in 0 .. MaxBlocks :
             /\ Fits(c, w[i], size)
             /\ \A j \in 0 .. i - 1 : ~Fits(c, w[j], size)
  IN  IF Fits(c, c.head["free"], size) THEN c.head["free"] ELSE w[k]

----------------------------------------------------------------------------
(* Operations                                                              *)

\* The first control block, linked to itself, describes the whole data file.
FirstBlock(c) ==
  [c EXCEPT !.prev = [@ EXCEPT ![1] = 1],    !.next = [@ EXCEPT ![1] = 1],
            !.mapping = [@ EXCEPT ![1] = 0], !.end = [@ EXCEPT ![1] = 0]]

\* Mutant of Format: the tail is not written.
FormatNoTail(c) == SetHead(SetHead(FirstBlock(c), "free", 1), "unused", NULL)

\* OverlayMemoryAllocator::init on file c; clear() is the same call on a file
\* in use.  The allocated head is not reset.
Format(c) ==
  SetHead([SetHead(FirstBlock(c), "free", 1) EXCEPT !.tail = 1], "unused", NULL)

\* Control block b describes the region from address a up to address e.
Describe(c, b, a, e) ==
  [c EXCEPT !.mapping = [@ EXCEPT ![b] = a], !.end = [@ EXCEPT ![b] = e]]

\* allocate: the file after the allocated block was linked ...
Reserve(c, size) ==
  LET n     == TakenBlock(c)
      start == c.mapping[FindFree(c, size)]
  IN  SetHead(Describe(TakeBlock(c), n, start, start + size), "allocated", n)

\* Mutants of AllocateFile: the new free block starts where the allocated one
\* starts; it ends where the allocated block ends.
AllocateFileNoAdvance(c, size) ==
  LET t  == FindFree(c, size)
      c1 == Reserve(c, size)
      m  == TakenBlock(c1)
      c2 == Describe(TakeBlock(c1), m, c1.mapping[TakenBlock(c)], c1.end[t])
  IN  SetHead(ToUnUsed(c2, t), "free", m)
AllocateFileBounded(c, size) ==
  LET t  == FindFree(c, size)
      c1 == Reserve(c, size)
      m  == TakenBlock(c1)
      start == c1.mapping[TakenBlock(c)] + size
      c2 == Describe(TakeBlock(c1), m, start, start + size)
  IN  SetHead(ToUnUsed(c2, t), "free", m)

\* ... and the file after the remainder of the target was made a free block.
Split(c, t, n, size) ==
  LET m == TakenBlock(c)
  IN  SetHead(ToUnUsed(Describe(TakeBlock(c), m, c.mapping[n] + size, c.end[t]), t),
              "free", m)
AllocateFile(c, size) ==
  LET t  == FindFree(c, size)
      c1 == Reserve(c, size)
  IN  IF FreeBlockSize(c1, t) = 0 \/ FreeBlockSize(c1, t) > size
      THEN Split(c1, t, TakenBlock(c), size)
      ELSE ToUnUsed(c1, t)

Allocate(size) ==
  /\ ctl.head["free"] # NULL
  /\ HasFit(ctl, size)
  /\ ctl.tail + 2 <= MaxBlocks                         \* bound
  /\ ctl' = AllocateFile(ctl, size)
  /\ live' = live \cup {<<ctl'.mapping[TakenBlock(ctl)], size>>}

Clear ==
  /\ ctl' = Format(ctl)
  /\ live' = {}

----------------------------------------------------------------------------
Init ==
  /\ ctl = Format(ZeroFile)
  /\ live = {}

\* What the database does with an allocator: it allocates, and it clears the
\* files of a safe-mode session.  Nothing in the program calls deallocate.
Next == (\E size \in Sizes : Allocate(size)) \/ Clear
Spec == Init /\ [][Next]_vars

----------------------------------------------------------------------------
(* Properties                                                              *)

CtlType ==
  [ head    : [Lists -> {NULL} \cup Blocks],
    tail    : {NULL} \cup Blocks,
    prev    : [Blocks -> {NULL} \cup Blocks],
    next    : [Blocks -> {NULL} \cup Blocks],
    mapping : [Blocks -> Nat],
    end     : [Blocks -> Nat] ]

\* The control file holds addresses of control blocks and data addresses, and
\* init has placed a block; the callers hold regions of the sizes they asked for.
TypeOK == ctl \in CtlType /\ ctl.tail # NULL /\ live \in SUBSET (Nat \X Sizes)

\* allocate never hands out a byte that another caller still holds: two
\* regions allocated since the last clear do not overlap.
LiveDisjoint ==
  \A r, s \in live : r = s \/ r[1] + r[2] <= s[1] \/ s[1] + s[2] <= r[1]

\* findFreeBlock, called with the head of the free list, does not dereference
\* null and does not recurse for ever: the head is the unbounded region, and it
\* lies behind every region in use.
FreeBehindLive ==
  /\ ctl.head["free"] # NULL
  /\ ctl.end[ctl.head["free"]] = 0
  /\ \A r \in live : r[1] + r[2] <= ctl.mapping[ctl.head["free"]]

\* The links between control blocks form no dangling chain: a block has both
\* links or none, and a linked block is linked to linked blocks.
Closed(c) ==
  \A b \in Blocks :
    /\ c.prev[b] = NULL <=> c.next[b] = NULL
    /\ c.prev[b] # NULL => c.prev[c.prev[b]] # NULL /\ c.prev[c.next[b]] # NULL

HeadsLinked(c) == \A l \in Lists : c.head[l] # NULL => c.prev[c.head[l]] # NULL

\* The free head is a placed block, and an unused head is the only one on its
\* list, placed, and not the free head.
HeadsPlaced(c) ==
  /\ c.head["free"] \in 1 .. c.tail
  /\ c.head["unused"] # NULL =>
       /\ c.head["unused"] \in 1 .. c.tail
       /\ c.head["unused"] # c.head["free"]
       /\ c.next[c.head["unused"]] = c.head["unused"]

\* The inductive invariant of Spec: allocating and clearing keep the links
\* closed, at most one unused block, and the unbounded region as free head
\* behind every region in use.
IInv ==
  /\ TypeOK
  /\ Closed(ctl)
  /\ HeadsLinked(ctl)
  /\ HeadsPlaced(ctl)
  /\ FreeBehindLive
  /\ LiveDisjoint

\* The allocator as the database uses it implements RegionAllocator; the break
\* is the start of the region the free head describes.
Region == INSTANCE RegionAllocator WITH brk <- ctl.mapping[ctl.head["free"]]
RegionSpec == Region!Spec

=============================================================================
