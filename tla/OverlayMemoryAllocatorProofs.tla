-------------------- MODULE OverlayMemoryAllocatorProofs --------------------
(***************************************************************************)
(* Proofs about OverlayMemoryAllocator: the allocator, used as the         *)
(* database uses it (allocate and clear), never hands out a byte twice,    *)
(* never runs out of a fitting free block, and implements RegionAllocator. *)
(*                                                                         *)
(* The argument.  The free head always describes the unbounded region      *)
(* (end = 0), so first fit always stops at it and the target of every      *)
(* allocation is the head.  toUnUsedControlBlock then makes the old head   *)
(* the only unused block, linked to itself; the next allocation takes it   *)
(* again, so useUnUsedControlBlockHead never re-heads a longer list.  What *)
(* the linking setter does to the rest of the lists only has to keep the   *)
(* links closed (no null link is ever followed).                           *)
(***************************************************************************)
EXTENDS OverlayMemoryAllocator, TLAPS

\* The all-zero address is no control block.
LEMMA NullNoBlock == NULL \notin Blocks
BY MaxBlocksAssumption DEF NULL, Blocks

\* Linking a block alone, or in front of a linked head, keeps the file's shape.
LEMMA LinkAloneType ==
  ASSUME NEW c \in CtlType, NEW l \in Lists, NEW b \in Blocks
  PROVE  LinkAlone(c, l, b) \in CtlType
BY DEF LinkAlone, CtlType

LEMMA LinkFrontType ==
  ASSUME NEW c \in CtlType, NEW l \in Lists, NEW b \in Blocks,
         c.head[l] \in Blocks, c.prev[c.head[l]] \in Blocks
  PROVE  LinkFront(c, l, b) \in CtlType
BY DEF LinkFront, CtlType

\* The setter of a list head changes that head and the links, nothing else, and
\* keeps the links closed.
LEMMA SetHeadFacts ==
  ASSUME NEW c \in CtlType, NEW l \in Lists, NEW b \in {NULL} \cup Blocks,
         Closed(c), HeadsLinked(c)
  PROVE  /\ SetHead(c, l, b) \in CtlType
         /\ SetHead(c, l, b).head = [c.head EXCEPT ![l] = b]
         /\ SetHead(c, l, b).tail = c.tail
         /\ SetHead(c, l, b).mapping = c.mapping
         /\ SetHead(c, l, b).end = c.end
         /\ Closed(SetHead(c, l, b))
         /\ HeadsLinked(SetHead(c, l, b))
<1> DEFINE d == SetHead(c, l, b)
<1> USE NullNoBlock
<1>1. CASE b = NULL
  <2>1. d = ClearHead(c, l)
    BY <1>1 DEF SetHead
  <2>2. /\ d \in CtlType /\ d.head = [c.head EXCEPT ![l] = b]
        /\ d.tail = c.tail /\ d.mapping = c.mapping /\ d.end = c.end
        /\ d.prev = c.prev /\ d.next = c.next
    BY <2>1, <1>1 DEF ClearHead, CtlType
  <2>3. Closed(d)
    BY <2>2 DEF Closed
  <2>4. HeadsLinked(d)
    BY <2>2, <1>1 DEF HeadsLinked, CtlType
  <2> QED BY <2>2, <2>3, <2>4
<1>2. CASE b # NULL /\ c.head[l] = NULL
  <2>1. d = LinkAlone(c, l, b)
    BY <1>2 DEF SetHead
  <2>a. b \in Blocks
    BY <1>2
  <2>b. d \in CtlType
    BY <2>a, <2>1, LinkAloneType
  <2>c. /\ d.head = [c.head EXCEPT ![l] = b]
        /\ d.tail = c.tail /\ d.mapping = c.mapping /\ d.end = c.end
        /\ d.prev = [c.prev EXCEPT ![b] = b] /\ d.next = [c.next EXCEPT ![b] = b]
    BY <2>a, <2>1 DEF LinkAlone, CtlType
  <2>2. /\ d \in CtlType /\ d.head = [c.head EXCEPT ![l] = b]
        /\ d.tail = c.tail /\ d.mapping = c.mapping /\ d.end = c.end
        /\ d.prev = [c.prev EXCEPT ![b] = b] /\ d.next = [c.next EXCEPT ![b] = b]
    BY <2>b, <2>c
  <2>3. Closed(d)
    BY <2>2, <1>2 DEF Closed, CtlType
  <2>4. HeadsLinked(d)
    BY <2>2, <1>2 DEF HeadsLinked, CtlType
  <2> QED BY <2>2, <2>3, <2>4
<1>3. CASE b # NULL /\ c.head[l] # NULL
  <2> DEFINE h == c.head[l]
             p == c.prev[h]
  <2>1. h \in Blocks /\ p \in Blocks /\ c.prev[p] # NULL
    BY <1>3 DEF CtlType, HeadsLinked, Closed
  <2>2. d = LinkFront(c, l, b)
    BY <1>3 DEF SetHead
  <2>a. b \in Blocks
    BY <1>3
  <2>b. /\ d.head = [c.head EXCEPT ![l] = b]
        /\ d.tail = c.tail /\ d.mapping = c.mapping /\ d.end = c.end
        /\ d.prev = [c.prev EXCEPT ![b] = p, ![h] = b]
        /\ d.next = [c.next EXCEPT ![b] = h, ![p] = b]
    BY <2>a, <2>1, <2>2 DEF LinkFront, CtlType
  <2>c. d \in CtlType
    BY <2>a, <2>1, <2>2, LinkFrontType
  <2>3. /\ d \in CtlType /\ d.head = [c.head EXCEPT ![l] = b]
        /\ d.tail = c.tail /\ d.mapping = c.mapping /\ d.end = c.end
        /\ d.prev = [c.prev EXCEPT ![b] = p, ![h] = b]
        /\ d.next = [c.next EXCEPT ![b] = h, ![p] = b]
    BY <2>b, <2>c
  <2>4. Closed(d)
    <3>1. ASSUME NEW x \in Blocks PROVE d.prev[x] = NULL <=> d.next[x] = NULL
      <4>1. /\ d.prev[x] = IF x = h THEN b ELSE IF x = b THEN p ELSE c.prev[x]
            /\ d.next[x] = IF x = p THEN b ELSE IF x = b THEN h ELSE c.next[x]
        BY <2>a, <2>1, <2>b DEF CtlType
      <4>2. /\ c.prev[x] = NULL <=> c.next[x] = NULL
            /\ c.prev[h] # NULL /\ c.prev[p] # NULL
        BY <2>1 DEF Closed
      <4> QED BY <4>1, <4>2, <2>1, <2>a
    <3>2. \A x \in Blocks : c.prev[x] # NULL \/ x = b => d.prev[x] # NULL
      BY <2>1, <2>3, <1>3 DEF CtlType
    <3>3. \A x \in Blocks : d.prev[x] # NULL =>
             d.prev[x] \in Blocks /\ d.next[x] \in Blocks
      BY <2>3, <3>1 DEF CtlType
    <3>4. ASSUME NEW x \in Blocks, d.prev[x] # NULL
          PROVE  /\ c.prev[d.prev[x]] # NULL \/ d.prev[x] = b
                 /\ c.prev[d.next[x]] # NULL \/ d.next[x] = b
      <4>1. c.prev[h] # NULL /\ c.prev[p] # NULL
        BY <2>1
      <4>2. c.prev[x] # NULL => c.prev[c.prev[x]] # NULL /\ c.prev[c.next[x]] # NULL
        BY DEF Closed
      <4>3. d.prev[x] \in {c.prev[x], p, b} /\ d.next[x] \in {c.next[x], h, b}
        BY <2>1, <2>3, <1>3 DEF CtlType
      <4>4. d.prev[x] = c.prev[x] => c.prev[x] # NULL
        BY <3>4
      <4>5. d.next[x] = c.next[x] => c.prev[x] # NULL
        BY <3>1, <3>4 DEF Closed
      <4> QED BY <4>1, <4>2, <4>3, <4>4, <4>5
    <3> QED BY <3>1, <3>2, <3>3, <3>4 DEF Closed
  <2>5. HeadsLinked(d)
    BY <2>1, <2>3, <1>3 DEF HeadsLinked, CtlType
  <2> QED BY <2>3, <2>4, <2>5
<1> QED BY <1>1, <1>2, <1>3

\* The links after the head of an empty, and of a non-empty, list was set.
LEMMA LinksAlone ==
  ASSUME NEW c \in CtlType, NEW l \in Lists, NEW b \in Blocks, c.head[l] = NULL
  PROVE  /\ SetHead(c, l, b).next[b] = b
         /\ \A x \in Blocks : x # b => SetHead(c, l, b).prev[x] = c.prev[x]
<1>1. SetHead(c, l, b) = LinkAlone(c, l, b)
  BY NullNoBlock DEF SetHead
<1> QED BY <1>1 DEF LinkAlone, CtlType

LEMMA LinksFront ==
  ASSUME NEW c \in CtlType, NEW l \in Lists, NEW b \in Blocks,
         NEW h \in Blocks, NEW p \in Blocks, c.head[l] = h, c.prev[h] = p
  PROVE  /\ SetHead(c, l, b).prev = [c.prev EXCEPT ![b] = p, ![h] = b]
         /\ SetHead(c, l, b).next = [c.next EXCEPT ![b] = h, ![p] = b]
<1>1. SetHead(c, l, b) = LinkFront(c, l, b)
  BY NullNoBlock DEF SetHead
<1> QED BY <1>1 DEF LinkFront, CtlType

\* Taking block b out from between its only neighbour g leaves g linked to
\* itself.
LEMMA BypassFacts ==
  ASSUME NEW c \in CtlType, NEW b \in Blocks, NEW g \in Blocks, g # b,
         c.prev[b] = g, c.next[b] = g, Closed(c), HeadsLinked(c)
  PROVE  /\ Bypass(c, b) \in CtlType
         /\ Bypass(c, b).head = c.head
         /\ Bypass(c, b).tail = c.tail
         /\ Bypass(c, b).mapping = c.mapping
         /\ Bypass(c, b).end = c.end
         /\ Bypass(c, b).prev[g] = g
         /\ Closed(Bypass(c, b))
         /\ HeadsLinked(Bypass(c, b))
<1> USE NullNoBlock
<1> DEFINE d  == Bypass(c, b)
           c1 == [c EXCEPT !.prev = [c.prev EXCEPT ![g] = g]]
<1>1. d = [c1 EXCEPT !.next = [c1.next EXCEPT ![c1.prev[b]] = c1.next[b]]]
  BY DEF Bypass
<1>2. /\ c1 \in CtlType /\ c1.prev = [c.prev EXCEPT ![g] = g] /\ c1.next = c.next
      /\ c1.head = c.head /\ c1.tail = c.tail /\ c1.mapping = c.mapping /\ c1.end = c.end
  BY DEF CtlType
<1>3. c1.prev[b] = g /\ c1.next[b] = g
  BY <1>2 DEF CtlType
<1> HIDE DEF c1
<1>4. /\ d \in CtlType
      /\ d.head = c.head /\ d.tail = c.tail /\ d.mapping = c.mapping /\ d.end = c.end
      /\ d.prev = [c.prev EXCEPT ![g] = g] /\ d.next = [c.next EXCEPT ![g] = g]
  BY <1>1, <1>2, <1>3 DEF CtlType
<1>5. Closed(d)
  BY <1>4 DEF Closed, CtlType
<1>6. HeadsLinked(d)
  BY <1>4 DEF HeadsLinked, CtlType
<1>7. d.prev[g] = g
  BY <1>4 DEF CtlType
<1> QED BY <1>4, <1>5, <1>6, <1>7

\* toUnUsedControlBlock on the free head, when no block is unused: the block
\* ends up as the only unused one, linked to itself, and what is left as free
\* head, if anything, is linked to itself too.
LEMMA ToUnUsedFree ==
  ASSUME NEW c \in CtlType, NEW f \in Blocks, Closed(c), HeadsLinked(c),
         c.head["free"] = f, c.head["unused"] = NULL
  PROVE  /\ ToUnUsed(c, f) \in CtlType
         /\ Closed(ToUnUsed(c, f))
         /\ HeadsLinked(ToUnUsed(c, f))
         /\ ToUnUsed(c, f).tail = c.tail
         /\ ToUnUsed(c, f).mapping = c.mapping
         /\ ToUnUsed(c, f).end = c.end
         /\ ToUnUsed(c, f).head["unused"] = f
         /\ ToUnUsed(c, f).head["free"] # f
         /\ ToUnUsed(c, f).next[f] = f
         /\ ToUnUsed(c, f).head["free"] # NULL =>
              ToUnUsed(c, f).prev[ToUnUsed(c, f).head["free"]] # f
<1> USE NullNoBlock
<1>0. "free" \in Lists /\ "unused" \in Lists /\ f # NULL
  BY DEF Lists
<1>1. HeadOf(c, f) = "free" /\ "free" # NoList
  BY DEF HeadOf, NoList
<1>2. CASE c.prev[f] = f \/ c.next[f] = f
  <2> DEFINE c1 == SetHead(c, "free", NULL)
             d  == SetHead(c1, "unused", f)
  <2>1. ToUnUsed(c, f) = d
    BY <1>1, <1>2 DEF ToUnUsed, ReHead
  <2>2. /\ c1 \in CtlType /\ Closed(c1) /\ HeadsLinked(c1)
        /\ c1.head = [c.head EXCEPT !["free"] = NULL]
        /\ c1.tail = c.tail /\ c1.mapping = c.mapping /\ c1.end = c.end
    BY <1>0, SetHeadFacts
  <2>3. c1.head["unused"] = NULL /\ c1.head["free"] = NULL
    BY <1>0, <2>2 DEF CtlType
  <2> HIDE DEF c1
  <2>4. /\ d \in CtlType /\ Closed(d) /\ HeadsLinked(d)
        /\ d.head = [c1.head EXCEPT !["unused"] = f]
        /\ d.tail = c.tail /\ d.mapping = c.mapping /\ d.end = c.end
    BY <1>0, <2>2, SetHeadFacts
  <2>a. c1 \in CtlType
    BY <2>2
  <2>5. d.next[f] = f
    BY <1>0, <2>a, <2>3, LinksAlone
  <2>6. d.head["unused"] = f /\ d.head["free"] = NULL /\ d.next[f] = f
    BY <1>0, <2>2, <2>3, <2>4, <2>5 DEF CtlType
  <2> QED BY <1>0, <2>1, <2>4, <2>6
<1>3. CASE c.prev[f] # f /\ c.next[f] # f
  <2> DEFINE g  == c.next[f]
             p  == c.prev[f]
             c1 == SetHead(c, "free", g)
             c2 == Bypass(c1, f)
             d  == SetHead(c2, "unused", f)
  <2>1. ToUnUsed(c, f) = d
    BY <1>1, <1>3 DEF ToUnUsed, ReHead
  <2>2. g \in Blocks /\ p \in Blocks /\ g # f /\ p # f
    BY <1>0, <1>3 DEF CtlType, HeadsLinked, Closed
  <2>3. /\ c1 \in CtlType /\ Closed(c1) /\ HeadsLinked(c1)
        /\ c1.head = [c.head EXCEPT !["free"] = g]
        /\ c1.tail = c.tail /\ c1.mapping = c.mapping /\ c1.end = c.end
    BY <1>0, <2>2, SetHeadFacts
  <2>4. /\ c1.prev = [c.prev EXCEPT ![g] = p, ![f] = g]
        /\ c1.next = [c.next EXCEPT ![g] = f, ![p] = g]
    BY <1>0, <2>2, LinksFront
  <2>5. c1.prev[f] = g /\ c1.next[f] = g
    BY <2>2, <2>4 DEF CtlType
  <2>6. c1.head["unused"] = NULL /\ c1.head["free"] = g
    BY <1>0, <2>2, <2>3 DEF CtlType
  <2> HIDE DEF c1, g, p
  <2>7. /\ c2 \in CtlType /\ Closed(c2) /\ HeadsLinked(c2)
        /\ c2.head = c1.head /\ c2.prev[g] = g
        /\ c2.tail = c.tail /\ c2.mapping = c.mapping /\ c2.end = c.end
    BY <2>2, <2>3, <2>5, BypassFacts
  <2> HIDE DEF c2
  <2>8. /\ d \in CtlType /\ Closed(d) /\ HeadsLinked(d)
        /\ d.head = [c2.head EXCEPT !["unused"] = f]
        /\ d.tail = c.tail /\ d.mapping = c.mapping /\ d.end = c.end
    BY <1>0, <2>7, SetHeadFacts
  <2>9. d.next[f] = f /\ \A x \in Blocks : x # f => d.prev[x] = c2.prev[x]
    BY <1>0, <2>6, <2>7, LinksAlone
  <2>10. d.head["unused"] = f /\ d.head["free"] = g /\ d.next[f] = f
    BY <1>0, <2>3, <2>6, <2>7, <2>8, <2>9 DEF CtlType
  <2>11. d.prev[g] = g
    BY <2>2, <2>7, <2>9
  <2> QED BY <1>0, <2>1, <2>2, <2>8, <2>10, <2>11
<1> QED BY <1>2, <1>3

\* Describing a region changes neither the lists nor the links.
LEMMA DescribeFacts ==
  ASSUME NEW c \in CtlType, NEW b \in Blocks, NEW a \in Nat, NEW e \in Nat,
         Closed(c), HeadsLinked(c)
  PROVE  /\ Describe(c, b, a, e) \in CtlType
         /\ Closed(Describe(c, b, a, e))
         /\ HeadsLinked(Describe(c, b, a, e))
         /\ Describe(c, b, a, e).head = c.head
         /\ Describe(c, b, a, e).tail = c.tail
         /\ Describe(c, b, a, e).mapping = [c.mapping EXCEPT ![b] = a]
         /\ Describe(c, b, a, e).end = [c.end EXCEPT ![b] = e]
<1> DEFINE d == Describe(c, b, a, e)
<1>1. d \in CtlType
  BY DEF Describe, CtlType
<1>2. /\ d.head = c.head /\ d.tail = c.tail /\ d.prev = c.prev /\ d.next = c.next
      /\ d.mapping = [c.mapping EXCEPT ![b] = a] /\ d.end = [c.end EXCEPT ![b] = e]
  BY DEF Describe, CtlType
<1>3. Closed(d) /\ HeadsLinked(d)
  BY <1>2 DEF Closed, HeadsLinked
<1> QED BY <1>1, <1>2, <1>3

\* What a caller of useUnUsedControlBlockHead / newControlBlock gets: a block
\* that is not the free head, and no unused block is left.
LEMMA TakeFacts ==
  ASSUME NEW c \in CtlType, Closed(c), HeadsLinked(c), HeadsPlaced(c),
         c.tail + 2 <= MaxBlocks, c.tail # NULL
  PROVE  /\ TakeBlock(c) \in CtlType
         /\ Closed(TakeBlock(c))
         /\ HeadsLinked(TakeBlock(c))
         /\ TakenBlock(c) \in Blocks
         /\ TakenBlock(c) # c.head["free"]
         /\ TakenBlock(c) \in 1 .. TakeBlock(c).tail
         /\ TakeBlock(c).head["free"] = c.head["free"]
         /\ TakeBlock(c).head["unused"] = NULL
         /\ TakeBlock(c).mapping = c.mapping
         /\ TakeBlock(c).end = c.end
         /\ TakeBlock(c).tail \in c.tail .. c.tail + 1
<1> DEFINE d == TakeBlock(c)
<1>0. c.tail \in Nat /\ c.tail >= 1 /\ c.tail + 1 \in Blocks
  BY MaxBlocksAssumption DEF CtlType, Blocks, NULL
<1>1. CASE c.head["unused"] = NULL
  <2>1. d = [c EXCEPT !.tail = c.tail + 1] /\ TakenBlock(c) = c.tail + 1
    BY <1>1 DEF TakeBlock, TakenBlock
  <2>2. d \in CtlType
    BY <1>0, <2>1 DEF CtlType
  <2>3. /\ d.head = c.head /\ d.prev = c.prev /\ d.next = c.next
        /\ d.mapping = c.mapping /\ d.end = c.end /\ d.tail = c.tail + 1
    BY <2>1 DEF CtlType
  <2>4. Closed(d) /\ HeadsLinked(d)
    BY <2>3 DEF Closed, HeadsLinked
  <2>5. TakenBlock(c) # c.head["free"]
    BY <1>0, <2>1 DEF HeadsPlaced
  <2>6. TakenBlock(c) \in 1 .. d.tail /\ d.tail \in c.tail .. c.tail + 1
    BY <1>0, <2>1, <2>3
  <2> QED BY <1>0, <1>1, <2>1, <2>2, <2>3, <2>4, <2>5, <2>6
<1>2. CASE c.head["unused"] # NULL
  <2> DEFINE u == c.head["unused"]
  <2>0. "unused" \in Lists /\ "free" \in Lists /\ NULL \in {NULL} \cup Blocks
    BY DEF Lists
  <2>1. u \in 1 .. c.tail /\ u # c.head["free"] /\ c.next[u] = u
    BY <1>2 DEF HeadsPlaced
  <2>2. d = SetHead(c, "unused", NULL) /\ TakenBlock(c) = u
    BY <1>2, <2>1 DEF TakeBlock, TakenBlock, UseUnUsed
  <2>3. /\ d \in CtlType /\ Closed(d) /\ HeadsLinked(d)
        /\ d.head = [c.head EXCEPT !["unused"] = NULL]
        /\ d.tail = c.tail /\ d.mapping = c.mapping /\ d.end = c.end
    BY <2>0, <2>2, SetHeadFacts
  <2>4. d.head["unused"] = NULL /\ d.head["free"] = c.head["free"]
    BY <2>0, <2>3 DEF CtlType
  <2>5. u \in Blocks
    BY <1>2, <2>0 DEF CtlType
  <2>6. u \in 1 .. d.tail /\ d.tail \in c.tail .. c.tail + 1
    BY <1>0, <2>1, <2>3
  <2> QED BY <2>1, <2>2, <2>3, <2>4, <2>5, <2>6
<1> QED BY <1>1, <1>2

\* With the unbounded region as free head, first fit stops at once.
LEMMA FindFreeHead ==
  ASSUME NEW c, NEW size, c.end[c.head["free"]] = 0
  PROVE  FindFree(c, size) = c.head["free"]
BY DEF FindFree, Fits, FreeBlockSize

\* allocate, first half: the region at the start of the unbounded one is
\* described by a linked block; the free head is untouched.
LEMMA ReserveFacts ==
  ASSUME NEW c \in CtlType, NEW size \in Nat, Closed(c), HeadsLinked(c),
         HeadsPlaced(c), c.tail + 2 <= MaxBlocks, c.tail # NULL,
         c.end[c.head["free"]] = 0
  PROVE  /\ Reserve(c, size) \in CtlType
         /\ Closed(Reserve(c, size))
         /\ HeadsLinked(Reserve(c, size))
         /\ Reserve(c, size).head["free"] = c.head["free"]
         /\ Reserve(c, size).head["unused"] = NULL
         /\ Reserve(c, size).tail \in c.tail .. c.tail + 1
         /\ TakenBlock(c) \in 1 .. Reserve(c, size).tail
         /\ TakenBlock(c) \in Blocks /\ TakenBlock(c) # c.head["free"]
         /\ Reserve(c, size).mapping[TakenBlock(c)] = c.mapping[c.head["free"]]
         /\ Reserve(c, size).end[c.head["free"]] = 0
<1> DEFINE f  == c.head["free"]
           n  == TakenBlock(c)
           c1 == TakeBlock(c)
           start == c.mapping[f]
           c2 == Describe(c1, n, start, start + size)
           r  == SetHead(c2, "allocated", n)
<1>0. "unused" \in Lists /\ "free" \in Lists /\ "allocated" \in Lists
  BY DEF Lists
<1>1. r = Reserve(c, size)
  BY FindFreeHead DEF Reserve
<1>2. /\ c1 \in CtlType /\ Closed(c1) /\ HeadsLinked(c1)
      /\ n \in Blocks /\ n # f /\ n \in 1 .. c1.tail
      /\ c1.head["free"] = f /\ c1.head["unused"] = NULL
      /\ c1.mapping = c.mapping /\ c1.end = c.end /\ c1.tail \in c.tail .. c.tail + 1
  BY TakeFacts
<1>3. f \in Blocks
  BY <1>0, MaxBlocksAssumption DEF HeadsPlaced, CtlType, NULL, Blocks
<1>4. start \in Nat /\ start + size \in Nat
  BY <1>3 DEF CtlType
<1> HIDE DEF c1, n, start
<1>5. /\ c2 \in CtlType /\ Closed(c2) /\ HeadsLinked(c2)
      /\ c2.head = c1.head /\ c2.tail = c1.tail
      /\ c2.mapping = [c1.mapping EXCEPT ![n] = start]
      /\ c2.end = [c1.end EXCEPT ![n] = start + size]
  BY <1>2, <1>4, DescribeFacts
<1> HIDE DEF c2
<1>6. /\ r \in CtlType /\ Closed(r) /\ HeadsLinked(r)
      /\ r.head = [c2.head EXCEPT !["allocated"] = n]
      /\ r.tail = c2.tail /\ r.mapping = c2.mapping /\ r.end = c2.end
  BY <1>0, <1>2, <1>5, SetHeadFacts
<1>7. r.head["free"] = f /\ r.head["unused"] = NULL
  BY <1>0, <1>2, <1>5, <1>6 DEF CtlType
<1>8. r.mapping[n] = start /\ r.end[f] = 0
  BY <1>2, <1>3, <1>5, <1>6 DEF CtlType
<1>9. r.tail = c1.tail
  BY <1>5, <1>6
<1> QED BY <1>1, <1>2, <1>6, <1>7, <1>8, <1>9 DEF n, start

\* allocate as a whole: the file stays well formed, the region handed out is
\* the start of the unbounded region, and the unbounded region, still the free
\* head, starts behind it.
LEMMA AllocateFacts ==
  ASSUME NEW c \in CtlType, NEW size \in Nat, Closed(c), HeadsLinked(c),
         HeadsPlaced(c), c.tail + 2 <= MaxBlocks, c.tail # NULL,
         c.end[c.head["free"]] = 0
  PROVE  LET d == AllocateFile(c, size)
         IN  /\ d \in CtlType /\ Closed(d) /\ HeadsLinked(d) /\ HeadsPlaced(d)
             /\ d.tail # NULL
             /\ d.head["free"] # NULL
             /\ d.end[d.head["free"]] = 0
             /\ d.mapping[d.head["free"]] = c.mapping[c.head["free"]] + size
             /\ d.mapping[TakenBlock(c)] = c.mapping[c.head["free"]]
<1> DEFINE f  == c.head["free"]
           n  == TakenBlock(c)
           r  == Reserve(c, size)
           m  == TakenBlock(r)
           start == c.mapping[f]
           c2 == TakeBlock(r)
           c3 == Describe(c2, m, r.mapping[n] + size, r.end[f])
           c4 == ToUnUsed(c3, f)
           d  == SetHead(c4, "free", m)
<1>0. "unused" \in Lists /\ "free" \in Lists /\ "allocated" \in Lists
  BY DEF Lists
<1>1. f \in Blocks /\ f \in 1 .. c.tail /\ c.tail \in Nat
  BY <1>0, MaxBlocksAssumption DEF HeadsPlaced, CtlType, NULL, Blocks
<1>2. start \in Nat
  BY <1>1 DEF CtlType
<1>3. /\ r \in CtlType /\ Closed(r) /\ HeadsLinked(r)
      /\ r.head["free"] = f /\ r.head["unused"] = NULL
      /\ r.tail \in c.tail .. c.tail + 1
      /\ n \in 1 .. r.tail /\ n \in Blocks /\ n # f
      /\ r.mapping[n] = start /\ r.end[f] = 0
  BY ReserveFacts
<1>4. AllocateFile(c, size) = d
  <2>1. FindFree(c, size) = f
    BY FindFreeHead
  <2>2. FreeBlockSize(r, f) = 0
    BY <1>3 DEF FreeBlockSize
  <2> QED BY <2>1, <2>2 DEF AllocateFile, Split
<1> HIDE DEF r, n, start
<1>5. /\ m = r.tail + 1 /\ m \in Blocks /\ m # n /\ m # f
      /\ f \in 1 .. m
  BY <1>1, <1>3, MaxBlocksAssumption DEF TakenBlock, Blocks
<1>6. /\ c2 \in CtlType /\ Closed(c2) /\ HeadsLinked(c2)
      /\ c2.head = r.head /\ c2.mapping = r.mapping /\ c2.end = r.end /\ c2.tail = m
  <2>1. c2 = [r EXCEPT !.tail = m]
    BY <1>3, <1>5 DEF TakeBlock
  <2>2. r \in CtlType
    BY <1>3
  <2>3. m \in Blocks
    BY <1>5
  <2> HIDE DEF m
  <2>4. c2 \in CtlType
    BY <2>1, <2>2, <2>3 DEF CtlType
  <2>5. /\ c2.head = r.head /\ c2.mapping = r.mapping /\ c2.end = r.end /\ c2.tail = m
        /\ c2.prev = r.prev /\ c2.next = r.next
    BY <2>1, <2>2 DEF CtlType
  <2>6. Closed(c2) /\ HeadsLinked(c2)
    BY <1>3, <2>5 DEF Closed, HeadsLinked
  <2> QED BY <2>4, <2>5, <2>6
<1>7. r.mapping[n] + size \in Nat /\ r.end[f] \in Nat
  BY <1>2, <1>3
<1> HIDE DEF m, c2
<1>8. /\ c3 \in CtlType /\ Closed(c3) /\ HeadsLinked(c3)
      /\ c3.head = r.head /\ c3.tail = m
      /\ c3.mapping = [r.mapping EXCEPT ![m] = r.mapping[n] + size]
      /\ c3.end = [r.end EXCEPT ![m] = r.end[f]]
  BY <1>5, <1>6, <1>7, DescribeFacts
<1>9. /\ c3.mapping[m] = start + size /\ c3.mapping[n] = start /\ c3.end[m] = 0
      /\ c3.head["free"] = f /\ c3.head["unused"] = NULL
  <2>1. c3.head["free"] = f /\ c3.head["unused"] = NULL
    BY <1>3, <1>8
  <2>2. r.mapping \in [Blocks -> Nat] /\ r.end \in [Blocks -> Nat]
    BY <1>3 DEF CtlType
  <2>3. c3.mapping[m] = start + size /\ c3.mapping[n] = start /\ c3.end[m] = 0
    BY <2>2, <1>3, <1>5, <1>8
  <2> QED BY <2>1, <2>3
<1> HIDE DEF c3
<1>10. /\ c4 \in CtlType /\ Closed(c4) /\ HeadsLinked(c4)
       /\ c4.tail = c3.tail /\ c4.mapping = c3.mapping /\ c4.end = c3.end
       /\ c4.head["unused"] = f /\ c4.head["free"] # f /\ c4.next[f] = f
       /\ c4.head["free"] # NULL => c4.prev[c4.head["free"]] # f
  BY <1>1, <1>8, <1>9, ToUnUsedFree
<1> HIDE DEF c4
<1>11. /\ d \in CtlType /\ Closed(d) /\ HeadsLinked(d)
       /\ d.head = [c4.head EXCEPT !["free"] = m]
       /\ d.tail = c4.tail /\ d.mapping = c4.mapping /\ d.end = c4.end
  BY <1>0, <1>5, <1>10, SetHeadFacts
<1>12. d.head["free"] = m /\ d.head["unused"] = f
  BY <1>0, <1>10, <1>11 DEF CtlType
<1>13. d.next[f] = f
  <2>0. c4 \in CtlType /\ m \in Blocks /\ m # f /\ f \in Blocks
    BY <1>1, <1>5, <1>10
  <2>1. CASE c4.head["free"] = NULL
    <3>1. d = LinkAlone(c4, "free", m)
      BY <2>0, <2>1, NullNoBlock DEF SetHead
    <3>2. d.next = [c4.next EXCEPT ![m] = m]
      BY <2>0, <3>1, <1>0 DEF LinkAlone, CtlType
    <3> QED BY <2>0, <3>2, <1>10 DEF CtlType
  <2>2. CASE c4.head["free"] # NULL
    <3>1. PICK h \in Blocks : c4.head["free"] = h
      BY <2>0, <2>2, <1>0 DEF CtlType
    <3>2. PICK p \in Blocks : c4.prev[h] = p
      BY <2>0, <3>1, <2>2, <1>0, <1>10 DEF CtlType, HeadsLinked
    <3>3. d.next = [c4.next EXCEPT ![m] = h, ![p] = m]
      <4>1. d = LinkFront(c4, "free", m)
        BY <2>0, <2>2, NullNoBlock DEF SetHead
      <4> QED BY <2>0, <3>1, <3>2, <4>1, <1>0 DEF LinkFront, CtlType
    <3>4. p # f
      BY <2>2, <3>1, <3>2, <1>10
    <3> QED BY <2>0, <3>3, <3>4, <1>10 DEF CtlType
  <2> QED BY <2>1, <2>2
<1>14. d.tail = m /\ m # NULL /\ m \in Nat /\ m >= 1
  BY <1>3, <1>5, <1>8, <1>10, <1>11, <1>1 DEF NULL
<1>15. HeadsPlaced(d)
  <2>1. m \in 1 .. d.tail /\ f \in 1 .. d.tail /\ f # m
    BY <1>5, <1>14
  <2> QED BY <2>1, <1>12, <1>13 DEF HeadsPlaced
<1> QED BY <1>4, <1>9, <1>10, <1>11, <1>12, <1>14, <1>15 DEF n, start

\* init and clear: whatever the links were, the file afterwards has the first
\* block as unbounded free head and no unused block.
LEMMA FormatFacts ==
  ASSUME NEW c \in CtlType, Closed(c), HeadsLinked(c)
  PROVE  /\ Format(c) \in CtlType
         /\ Closed(Format(c))
         /\ HeadsLinked(Format(c))
         /\ HeadsPlaced(Format(c))
         /\ Format(c).tail # NULL
         /\ Format(c).head["free"] = 1
         /\ Format(c).end[1] = 0
         /\ Format(c).mapping[1] = 0
<1> DEFINE c1 == FirstBlock(c)
           c2 == SetHead(c1, "free", 1)
           c3 == [c2 EXCEPT !.tail = 1]
           d  == SetHead(c3, "unused", NULL)
<1>0. "unused" \in Lists /\ "free" \in Lists /\ NULL \in {NULL} \cup Blocks
  BY DEF Lists
<1>1. 1 \in Blocks /\ 1 # NULL
  BY MaxBlocksAssumption DEF Blocks, NULL
<1>2. c1 \in CtlType
  BY <1>1 DEF FirstBlock, CtlType
<1>3. /\ c1.head = c.head /\ c1.tail = c.tail
      /\ c1.prev = [c.prev EXCEPT ![1] = 1] /\ c1.next = [c.next EXCEPT ![1] = 1]
      /\ c1.mapping = [c.mapping EXCEPT ![1] = 0] /\ c1.end = [c.end EXCEPT ![1] = 0]
  BY <1>1 DEF FirstBlock, CtlType
<1>4. c1.mapping[1] = 0 /\ c1.end[1] = 0
  BY <1>1, <1>3 DEF CtlType
<1>5. Closed(c1)
  BY <1>1, <1>3, NullNoBlock DEF Closed, CtlType
<1>6. HeadsLinked(c1)
  BY <1>1, <1>3, NullNoBlock DEF HeadsLinked, CtlType
<1> HIDE DEF c1
<1>7. /\ c2 \in CtlType /\ Closed(c2) /\ HeadsLinked(c2)
      /\ c2.head = [c1.head EXCEPT !["free"] = 1]
      /\ c2.mapping = c1.mapping /\ c2.end = c1.end
  BY <1>0, <1>1, <1>2, <1>5, <1>6, SetHeadFacts
<1>8. c2.head["free"] = 1
  BY <1>0, <1>2, <1>7 DEF CtlType
<1> HIDE DEF c2
<1>9. c2 \in CtlType
  BY <1>7
<1>10. c3 \in CtlType
  BY <1>1, <1>9 DEF CtlType
<1>11. /\ c3.head = c2.head /\ c3.tail = 1 /\ c3.prev = c2.prev /\ c3.next = c2.next
       /\ c3.mapping = c2.mapping /\ c3.end = c2.end
  BY <1>9 DEF CtlType
<1> HIDE DEF c3
<1>12. Closed(c3) /\ HeadsLinked(c3)
  BY <1>7, <1>11 DEF Closed, HeadsLinked
<1>13. /\ d \in CtlType /\ Closed(d) /\ HeadsLinked(d)
       /\ d.head = [c3.head EXCEPT !["unused"] = NULL]
       /\ d.tail = c3.tail /\ d.mapping = c3.mapping /\ d.end = c3.end
  BY <1>0, <1>10, <1>12, SetHeadFacts
<1>14. d.head["free"] = 1 /\ d.head["unused"] = NULL
  BY <1>0, <1>8, <1>10, <1>11, <1>13 DEF CtlType
<1>15. d.tail = 1 /\ d.mapping[1] = 0 /\ d.end[1] = 0
  BY <1>4, <1>7, <1>11, <1>13
<1>16. HeadsPlaced(d)
  BY <1>14, <1>15 DEF HeadsPlaced
<1>17. Format(c) = d
  BY DEF Format, c3, c2, c1
<1> QED BY <1>1, <1>13, <1>14, <1>15, <1>16, <1>17

\* The initial state satisfies the inductive invariant.
LEMMA InitIInv == Init => IInv
<1> SUFFICES ASSUME Init PROVE IInv
  OBVIOUS
<1>1. ZeroFile \in CtlType
  BY DEF ZeroFile, CtlType
<1>2. Closed(ZeroFile) /\ HeadsLinked(ZeroFile)
  BY DEF ZeroFile, Closed, HeadsLinked
<1>3. ctl = Format(ZeroFile) /\ live = {}
  BY DEF Init
<1>4. /\ ctl \in CtlType /\ Closed(ctl) /\ HeadsLinked(ctl) /\ HeadsPlaced(ctl)
      /\ ctl.tail # NULL /\ ctl.head["free"] = 1 /\ ctl.end[1] = 0
  BY <1>1, <1>2, <1>3, FormatFacts
<1>5. FreeBehindLive
  BY <1>3, <1>4 DEF FreeBehindLive, NULL
<1> QED BY <1>3, <1>4, <1>5 DEF IInv, TypeOK, LiveDisjoint

\* What an allocation does to the break and to the regions in use.
LEMMA AllocateStep ==
  ASSUME IInv, NEW size \in Sizes, Allocate(size)
  PROVE  /\ ctl' \in CtlType /\ Closed(ctl') /\ HeadsLinked(ctl') /\ HeadsPlaced(ctl')
         /\ ctl'.tail # NULL /\ ctl'.head["free"] # NULL
         /\ ctl'.end[ctl'.head["free"]] = 0
         /\ ctl.mapping[ctl.head["free"]] \in Nat
         /\ ctl'.mapping[ctl'.head["free"]] = ctl.mapping[ctl.head["free"]] + size
         /\ live' = live \cup {<<ctl.mapping[ctl.head["free"]], size>>}
<1>1. /\ ctl \in CtlType /\ Closed(ctl) /\ HeadsLinked(ctl) /\ HeadsPlaced(ctl)
      /\ ctl.tail # NULL /\ ctl.end[ctl.head["free"]] = 0 /\ ctl.head["free"] # NULL
  BY DEF IInv, TypeOK, FreeBehindLive
<1>2. size \in Nat /\ ctl.tail + 2 <= MaxBlocks /\ ctl' = AllocateFile(ctl, size)
      /\ live' = live \cup {<<ctl'.mapping[TakenBlock(ctl)], size>>}
  BY SizesAssumption DEF Allocate
<1>3. ctl.mapping[ctl.head["free"]] \in Nat
  BY <1>1 DEF CtlType, Lists
<1> QED BY <1>1, <1>2, <1>3, AllocateFacts

\* Every step keeps the inductive invariant.
LEMMA NextIInv == IInv /\ [Next]_vars => IInv'
<1> SUFFICES ASSUME IInv, [Next]_vars PROVE IInv'
  OBVIOUS
<1>1. ASSUME NEW size \in Sizes, Allocate(size) PROVE IInv'
  <2> DEFINE b == ctl.mapping[ctl.head["free"]]
  <2>1. /\ ctl' \in CtlType /\ Closed(ctl') /\ HeadsLinked(ctl') /\ HeadsPlaced(ctl')
        /\ ctl'.tail # NULL /\ ctl'.head["free"] # NULL
        /\ ctl'.end[ctl'.head["free"]] = 0 /\ b \in Nat
        /\ ctl'.mapping[ctl'.head["free"]] = b + size
        /\ live' = live \cup {<<b, size>>}
    BY <1>1, AllocateStep
  <2>2. size \in Nat
    BY SizesAssumption
  <2>3. \A r \in live : r \in Nat \X Sizes /\ r[1] + r[2] <= b
    BY DEF IInv, TypeOK, FreeBehindLive
  <2> HIDE DEF b
  <2>4. TypeOK'
    BY <2>1, <2>3 DEF TypeOK
  <2>5. ASSUME NEW r \in live' PROVE r[1] + r[2] <= b + size
    <3>1. b \in Nat
      BY <2>1
    <3>2. CASE r \in live
      <4>1. r[1] \in Nat /\ r[2] \in Nat /\ r[1] + r[2] <= b
        BY <2>3, <3>2, SizesAssumption
      <4> QED BY <4>1, <3>1, <2>2
    <3>3. CASE r = <<b, size>>
      BY <3>1, <3>3, <2>2
    <3> QED BY <2>1, <3>2, <3>3
  <2>6. FreeBehindLive'
    BY <2>1, <2>5 DEF FreeBehindLive
  <2>7. LiveDisjoint'
    <3>1. SUFFICES ASSUME NEW r \in live', NEW s \in live', r # s
                   PROVE  r[1] + r[2] <= s[1] \/ s[1] + s[2] <= r[1]
      BY DEF LiveDisjoint
    <3>2. CASE r \in live /\ s \in live
      BY <3>1, <3>2 DEF IInv, LiveDisjoint
    <3>3. CASE r \notin live
      <4>1. r[1] = b /\ s \in live
        BY <3>1, <3>3, <2>1
      <4> QED BY <4>1, <2>3
    <3>4. CASE s \notin live
      <4>1. s[1] = b /\ r \in live
        BY <3>1, <3>4, <2>1
      <4> QED BY <4>1, <2>3
    <3> QED BY <3>2, <3>3, <3>4
  <2> QED BY <2>1, <2>4, <2>6, <2>7 DEF IInv
<1>2. CASE Clear
  <2>1. ctl \in CtlType /\ Closed(ctl) /\ HeadsLinked(ctl)
    BY DEF IInv, TypeOK
  <2>2. ctl' = Format(ctl) /\ live' = {}
    BY <1>2 DEF Clear
  <2>3. /\ ctl' \in CtlType /\ Closed(ctl') /\ HeadsLinked(ctl') /\ HeadsPlaced(ctl')
        /\ ctl'.tail # NULL /\ ctl'.head["free"] = 1 /\ ctl'.end[1] = 0
    BY <2>1, <2>2, FormatFacts
  <2>4. FreeBehindLive'
    BY <2>2, <2>3 DEF FreeBehindLive, NULL
  <2> QED BY <2>2, <2>3, <2>4 DEF IInv, TypeOK, LiveDisjoint
<1>3. CASE UNCHANGED vars
  BY <1>3 DEF vars, IInv, TypeOK, FreeBehindLive, LiveDisjoint, Closed, HeadsLinked,
              HeadsPlaced
<1> QED BY <1>1, <1>2, <1>3 DEF Next

\* The allocator as the database uses it: allocating and clearing keep the
\* inductive invariant.
THEOREM AllocatorInvariant == Spec => []IInv
BY InitIInv, NextIInv, PTL DEF Spec

\* The control file keeps its shape: no link or head written by allocate, init
\* or clear is anything but a control block or null.
THEOREM AllocatorTypeOK == Spec => []TypeOK
<1>1. IInv => TypeOK
  BY DEF IInv
<1> QED BY <1>1, AllocatorInvariant, PTL

\* allocate never hands out a byte that is still in use.
THEOREM AllocatorLiveDisjoint == Spec => []LiveDisjoint
<1>1. IInv => LiveDisjoint
  BY DEF IInv
<1> QED BY <1>1, AllocatorInvariant, PTL

\* findFreeBlock always finds the unbounded region, behind every region in use.
THEOREM AllocatorFreeBehindLive == Spec => []FreeBehindLive
<1>1. IInv => FreeBehindLive
  BY DEF IInv
<1> QED BY <1>1, AllocatorInvariant, PTL

\* The list manipulation implements the bump allocator: every allocation hands
\* out the region at the break, every clear resets the break.
THEOREM AllocatorRefinesRegion == Spec => RegionSpec
<1>1. Init => Region!Init
  <2> SUFFICES ASSUME Init PROVE Region!Init
    OBVIOUS
  <2>1. ZeroFile \in CtlType
    BY DEF ZeroFile, CtlType
  <2>2. Closed(ZeroFile) /\ HeadsLinked(ZeroFile)
    BY DEF ZeroFile, Closed, HeadsLinked
  <2>3. ctl = Format(ZeroFile) /\ live = {}
    BY DEF Init
  <2>4. ctl.head["free"] = 1 /\ ctl.mapping[1] = 0
    BY <2>1, <2>2, <2>3, FormatFacts
  <2> QED BY <2>3, <2>4 DEF Region!Init
<1>2. IInv /\ [Next]_vars => [Region!Next]_(Region!vars)
  <2> SUFFICES ASSUME IInv, [Next]_vars PROVE [Region!Next]_(Region!vars)
    OBVIOUS
  <2>1. ASSUME NEW size \in Sizes, Allocate(size) PROVE Region!Allocate(size)
    BY <2>1, AllocateStep DEF Region!Allocate
  <2>2. CASE Clear
    <3>1. ctl \in CtlType /\ Closed(ctl) /\ HeadsLinked(ctl)
      BY DEF IInv, TypeOK
    <3>2. ctl' = Format(ctl) /\ live' = {}
      BY <2>2 DEF Clear
    <3>3. ctl'.head["free"] = 1 /\ ctl'.mapping[1] = 0
      BY <3>1, <3>2, FormatFacts
    <3> QED BY <3>2, <3>3 DEF Region!Next, Region!Clear
  <2>3. CASE UNCHANGED vars
    BY <2>3 DEF vars, Region!vars
  <2> QED BY <2>1, <2>2, <2>3 DEF Next, Region!Next
<1> QED BY <1>1, <1>2, AllocatorInvariant, PTL DEF Spec, RegionSpec, Region!Spec

=============================================================================
