------------------------ MODULE BlockLocalStrageProofs -------------------------
(***************************************************************************)
(* Proofs about BlockLocalStrage: for any blocks, container sizes, file    *)
(* size and number of files, the process starts again wherever it was      *)
(* killed, and an index entry stands for completely written containers.    *)
(* The lemmas on LocalFileController say what opening and the two halves   *)
(* of a write keep; then there is one lemma per action.                    *)
(***************************************************************************)
EXTENDS BlockLocalStrage, FiniteSetTheorems, TLAPS

\* What is complete in F is complete in G.
Keeps(F, G) ==
  \A g, at, size, b : at \in Nat /\ size \in Nat /\ Complete(F, g, at, size, b)
                        => Complete(G, g, at, size, b)

----------------------------------------------------------------------------
(* LocalFileController                                                     *)

\* Opening a file changes no file that exists.
LEMMA OpenedFacts ==
  ASSUME NEW F, IsData(F), Apart(F), NEW f \in Numbers
  PROVE  /\ IsData(Opened(F, f))
         /\ Apart(Opened(F, f))
         /\ Exists(Opened(F, f)) = Exists(F) \cup {f}
         /\ Keeps(F, Opened(F, f))
<1>1. CASE F[f] # None
  BY <1>1 DEF Opened, Exists, Keeps
<1>2. CASE F[f] = None
  <2> DEFINE new == [end |-> MetaSize, recs |-> {}]
             G   == [F EXCEPT ![f] = new]
  <2>1. Opened(F, f) = G
    BY <1>2 DEF Opened
  <2>2. new \in DataFiles /\ new.end = MetaSize /\ new.recs = {}
    BY BoundsAssumption DEF DataFiles
  <2>3. new # None
    BY <2>2, NoneAssumption
  <2> HIDE DEF new
  <2>4. G \in [Numbers -> DataFiles \cup {None}] /\ G[f] = new
        /\ \A g \in Numbers : g # f => G[g] = F[g]
    BY <2>2 DEF IsData
  <2> HIDE DEF G
  <2>5. Exists(G) = Exists(F) \cup {f}
    BY <2>3, <2>4 DEF Exists
  <2>6. \A g \in Exists(F) : G[g] = F[g]
    BY <1>2, <2>4 DEF Exists
  <2>7. IsData(G)
    BY <2>2, <2>4, <2>5, <2>6, BoundsAssumption DEF IsData
  <2>8. Apart(G)
    BY <2>2, <2>4, <2>5, <2>6 DEF Apart
  <2>9. Keeps(F, G)
    BY <2>5, <2>6 DEF Keeps, Complete
  <2> QED BY <2>1, <2>5, <2>7, <2>8, <2>9
<1> QED BY <1>1, <1>2

\* The first half of a write goes behind the end: it removes no complete
\* container, and nothing else begins where it begins.
LEMMA CopiedFacts ==
  ASSUME NEW F, IsData(F), Apart(F), NEW f \in Exists(F), NEW b \in Blocks,
         NEW size \in Nat \ {0}, F[f].end + size < MaxBytes
  PROVE  /\ IsData(Copied(F, f, b, size))
         /\ Apart(Copied(F, f, b, size))
         /\ Exists(Copied(F, f, b, size)) = Exists(F)
         /\ HalfWritten(Copied(F, f, b, size), f, F[f].end, size, b)
         /\ Keeps(F, Copied(F, f, b, size))
<1> DEFINE end  == F[f].end
           new  == [at |-> end, size |-> size, of |-> b]
           kept == {r \in F[f].recs : ~Overlap(r, end, size)}
           file == [end |-> end, recs |-> kept \cup {new}]
           G    == [F EXCEPT ![f] = file]
<1>1. Copied(F, f, b, size) = G
  BY DEF Copied
<1>2. f \in Numbers /\ F[f] # None /\ F[f] \in DataFiles /\ end \in Nat
      /\ F[f].recs \subseteq Containers
  BY DEF Exists, IsData, DataFiles
<1>3. new \in Containers /\ new.at = end
  BY <1>2 DEF Containers
<1>4. \A r \in kept : r \in F[f].recs /\ r.at # end
  BY <1>2 DEF Overlap, Containers
<1>5. \A r \in F[f].recs : r.at + r.size <= end => r \in kept
  BY <1>2 DEF Overlap, Containers
<1>6. kept \subseteq F[f].recs
  OBVIOUS
<1> HIDE DEF kept, new
<1>7. file \in DataFiles /\ file.end = end /\ file.recs = kept \cup {new}
  BY <1>2, <1>3, <1>6 DEF DataFiles
<1>8. file # None
  BY <1>7, NoneAssumption
<1> HIDE DEF file, G
<1>9. G \in [Numbers -> DataFiles \cup {None}] /\ G[f] = file
      /\ \A g \in Numbers : g # f => G[g] = F[g]
  BY <1>2, <1>7 DEF IsData, G
<1>10. Exists(G) = Exists(F)
  BY <1>2, <1>8, <1>9 DEF Exists
<1>11. IsData(G)
  <2> SUFFICES ASSUME NEW g \in Exists(G) PROVE G[g].end \in MetaSize .. MaxBytes - 1
    BY <1>9 DEF IsData
  <2>1. g \in Exists(F) /\ g \in Numbers
    BY <1>10 DEF Exists
  <2>2. G[g].end = F[g].end
    BY <1>7, <1>9, <2>1
  <2> QED BY <2>1, <2>2 DEF IsData
<1>12. Apart(G)
  <2> SUFFICES ASSUME NEW g \in Exists(G), NEW r \in G[g].recs, NEW s \in G[g].recs,
                      r.at = s.at
               PROVE  r = s
    BY DEF Apart
  <2>1. g \in Exists(F) /\ g \in Numbers
    BY <1>10 DEF Exists
  <2>2. CASE g # f
    BY <1>9, <2>1, <2>2 DEF Apart
  <2>3. CASE g = f
    <3>1. r \in kept \cup {new} /\ s \in kept \cup {new}
      BY <1>7, <1>9, <2>3
    <3> QED BY <3>1, <1>3, <1>4, <2>1, <2>3 DEF Apart
  <2> QED BY <2>2, <2>3
<1>13. HalfWritten(G, f, end, size, b)
  BY <1>7, <1>9, <1>10 DEF HalfWritten, new
<1>14. ASSUME NEW g, NEW at \in Nat, NEW sz \in Nat, NEW c, Complete(F, g, at, sz, c)
       PROVE  Complete(G, g, at, sz, c)
  <2> DEFINE old == [at |-> at, size |-> sz, of |-> c]
  <2>1. g \in Exists(F) /\ g \in Numbers /\ old \in F[g].recs /\ at + sz <= F[g].end
    BY <1>14 DEF Complete, Exists
  <2>2. CASE g # f
    BY <1>9, <1>10, <2>1, <2>2 DEF Complete
  <2>3. CASE g = f
    <3>1. old \in kept
      BY <1>5, <2>1, <2>3
    <3> QED BY <1>7, <1>9, <1>10, <2>1, <2>3, <3>1 DEF Complete
  <2> QED BY <2>2, <2>3
<1>15. Keeps(F, G)
  BY <1>14 DEF Keeps
<1> QED BY <1>1, <1>10, <1>11, <1>12, <1>13, <1>15

\* The second half of a write completes the container of the first.
LEMMA AdvancedFacts ==
  ASSUME NEW F, IsData(F), Apart(F), NEW f, NEW b \in Blocks,
         NEW size \in Nat \ {0}, NEW at \in Nat, HalfWritten(F, f, at, size, b)
  PROVE  /\ IsData(Advanced(F, f, size))
         /\ Apart(Advanced(F, f, size))
         /\ Exists(Advanced(F, f, size)) = Exists(F)
         /\ Complete(Advanced(F, f, size), f, at, size, b)
         /\ Keeps(F, Advanced(F, f, size))
<1> DEFINE G    == Advanced(F, f, size)
           file == [end |-> at + size, recs |-> F[f].recs]
<1>1. f \in Numbers /\ f \in Exists(F) /\ F[f] # None /\ F[f] \in DataFiles
      /\ at = F[f].end /\ at \in Nat /\ F[f].recs \subseteq Containers
      /\ at + size < MaxBytes /\ MetaSize <= at
      /\ [at |-> at, size |-> size, of |-> b] \in F[f].recs
  BY DEF HalfWritten, Exists, IsData, DataFiles
<1>2. G = [F EXCEPT ![f] = file]
  BY <1>1 DEF Advanced, IsData, DataFiles
<1>3. file \in DataFiles /\ file.end = at + size /\ file.recs = F[f].recs
  BY <1>1 DEF DataFiles
<1>4. file # None
  BY <1>3, NoneAssumption
<1> HIDE DEF file, G
<1>5. G \in [Numbers -> DataFiles \cup {None}] /\ G[f] = file
      /\ \A g \in Numbers : g # f => G[g] = F[g]
  BY <1>1, <1>2, <1>3 DEF IsData
<1>6. Exists(G) = Exists(F)
  BY <1>1, <1>4, <1>5 DEF Exists
<1>7. \A g \in Exists(F) : G[g].recs = F[g].recs /\ F[g].end <= G[g].end
                           /\ G[g].end \in MetaSize .. MaxBytes - 1
  <2> TAKE g \in Exists(F)
  <2>1. g \in Numbers /\ F[g].end \in MetaSize .. MaxBytes - 1
    BY DEF Exists, IsData
  <2>2. CASE g = f
    BY <1>1, <1>3, <1>5, <2>2, BoundsAssumption
  <2>3. CASE g # f
    BY <1>5, <2>1, <2>3, BoundsAssumption
  <2> QED BY <2>2, <2>3
<1>8. IsData(G)
  BY <1>5, <1>6, <1>7 DEF IsData
<1>9. Apart(G)
  BY <1>6, <1>7 DEF Apart
<1>10. Complete(G, f, at, size, b)
  BY <1>1, <1>3, <1>5, <1>6 DEF Complete
<1>11. ASSUME NEW g, NEW p \in Nat, NEW sz \in Nat, NEW c, Complete(F, g, p, sz, c)
       PROVE  Complete(G, g, p, sz, c)
  <2>1. g \in Exists(F) /\ p + sz <= F[g].end
    BY <1>11 DEF Complete
  <2>2. F[g].end \in Nat /\ G[g].end \in Nat
    BY <2>1, <1>7, BoundsAssumption DEF IsData
  <2> QED BY <1>6, <1>7, <1>11, <2>1, <2>2 DEF Complete
<1>12. Keeps(F, G)
  BY <1>11 DEF Keeps
<1> QED BY <1>6, <1>8, <1>9, <1>10, <1>12 DEF G

----------------------------------------------------------------------------
(* The actions                                                             *)

\* The types the steps need, in the form they need them.
LEMMA TypeFacts ==
  ASSUME TypeOK
  PROVE  /\ blkFile # None => blkFile \in Exists(blk) /\ revFile \in Exists(rev)
         /\ pc # "idle" => /\ cur \in Blocks
                           /\ blkFile = lastIndex /\ blkFile \in Exists(blk)
                           /\ revFile \in Exists(rev)
                           /\ BlkSize[cur] \in Nat \ {0} /\ RevSize[cur] \in Nat \ {0}
         /\ \A f \in Exists(blk) : f \in Numbers /\ blk[f].end \in Nat
         /\ \A f \in Exists(rev) : f \in Numbers /\ rev[f].end \in Nat
<1>1. lastIndex # None
  BY NoneAssumption DEF TypeOK
<1>2. \A f \in Exists(blk) : f \in Numbers /\ blk[f].end \in Nat
  BY BoundsAssumption DEF TypeOK, IsData, Exists
<1>3. \A f \in Exists(rev) : f \in Numbers /\ rev[f].end \in Nat
  BY BoundsAssumption DEF TypeOK, IsData, Exists
<1> QED BY <1>1, <1>2, <1>3, SizeAssumption DEF TypeOK

\* An entry stays good as long as complete containers stay.
LEMMA IndexedKept ==
  ASSUME TypeOK, IndexedIsComplete, Keeps(blk, blk'), Keeps(rev, rev'),
         UNCHANGED <<index, home>>
  PROVE  IndexedIsComplete'
<1> SUFFICES ASSUME NEW b \in Blocks, index[b] # None
             PROVE  /\ home[b] # None
                    /\ Complete(blk', home[b].blk, index[b].blockOffset, BlkSize[b], b)
                    /\ Complete(rev', home[b].rev, index[b].reversalOffset, RevSize[b], b)
  BY DEF IndexedIsComplete
<1>1. index[b].blockOffset \in Nat /\ index[b].reversalOffset \in Nat
  BY DEF TypeOK, Entries
<1>2. BlkSize[b] \in Nat /\ RevSize[b] \in Nat
  BY SizeAssumption
<1> QED BY <1>1, <1>2 DEF IndexedIsComplete, Keeps

LEMMA Unchanged == \A F : Keeps(F, F)
BY DEF Keeps

LEMMA InitIInv == Init => IInv
<1> SUFFICES ASSUME Init PROVE IInv
  OBVIOUS
<1> DEFINE none == [f \in Numbers |-> None]
<1>1. IsData(none) /\ Apart(none) /\ Exists(none) = {}
  BY DEF IsData, Apart, Exists
<1>2. 0 \in Numbers
  BY BoundsAssumption DEF Numbers
<1>3. IsData(blk) /\ Apart(blk) /\ Exists(blk) = {0}
  <2> HIDE DEF none
  <2> QED BY <1>1, <1>2, OpenedFacts DEF Init, none
<1>4. IsData(rev) /\ Apart(rev) /\ Exists(rev) = {}
  BY <1>1 DEF Init
<1>5. TypeOK
  BY <1>2, <1>3, <1>4 DEF Init, TypeOK
<1>6. StartsAgain
  BY <1>3, <1>4 DEF Init, StartsAgain
<1>7. Progress /\ IndexedIsComplete
  BY DEF Init, Progress, IndexedIsComplete
<1> QED BY <1>3, <1>4, <1>5, <1>6, <1>7 DEF IInv

LEMMA WriteBlockStep == ASSUME IInv, NEW b \in Blocks, WriteBlock(b) PROVE IInv'
<1> USE DEF IInv
<1>1. lastIndex \in Numbers /\ lastIndex \in 0 .. lastIndex /\ lastIndex # None
  BY NoneAssumption DEF TypeOK, Numbers
<1>2. /\ IsData(blk') /\ Apart(blk') /\ Keeps(blk, blk')
      /\ Exists(blk') = Exists(blk)
      /\ lastIndex \in Exists(blk')
  <2>1. CASE blkFile = lastIndex
    BY <2>1, <1>1, Unchanged, TypeFacts DEF WriteBlock, TypeOK, files
  <2>2. CASE blkFile # lastIndex
    <3>1. blk' = Opened(blk, lastIndex) /\ IsData(blk) /\ Apart(blk)
      BY <2>2 DEF WriteBlock, TypeOK
    <3>2. lastIndex \in Exists(blk)
      BY <1>1 DEF StartsAgain
    <3>3. /\ IsData(blk') /\ Apart(blk') /\ Keeps(blk, blk')
          /\ Exists(blk') = Exists(blk) \cup {lastIndex}
      BY <3>1, <1>1, OpenedFacts
    <3> QED BY <3>2, <3>3
  <2> QED BY <2>1, <2>2
<1>3. /\ IsData(rev') /\ Apart(rev') /\ Keeps(rev, rev')
      /\ Exists(rev') \subseteq Exists(rev) \cup {lastIndex}
      /\ revFile' \in Exists(rev') /\ blkFile' = lastIndex
  <2>1. CASE blkFile = lastIndex
    BY <2>1, <1>1, Unchanged, TypeFacts DEF WriteBlock, TypeOK, files
  <2>2. CASE blkFile # lastIndex
    BY <2>2, <1>1, OpenedFacts DEF WriteBlock, TypeOK
  <2> QED BY <2>1, <2>2
<1>4. /\ pc' = "blk" /\ cur' = b /\ UNCHANGED <<index, home, lastIndex, blkOffset, revOffset>>
  BY DEF WriteBlock
<1>5. revFile' # None
  BY <1>3, NoneAssumption DEF Exists
<1>6. TypeOK'
  BY <1>1, <1>2, <1>3, <1>4, <1>5 DEF TypeOK
<1>7. StartsAgain'
  BY <1>1, <1>2, <1>3, <1>4 DEF StartsAgain
<1>8. Progress'
  BY <1>4 DEF Progress
<1>9. IndexedIsComplete'
  BY <1>2, <1>3, <1>4, IndexedKept
<1> QED BY <1>2, <1>3, <1>6, <1>7, <1>8, <1>9

LEMMA WriteBlkStep == ASSUME IInv, WriteBlk PROVE IInv'
<1> USE DEF IInv
<1> DEFINE size == BlkSize[cur]
           end  == blk[blkFile].end
<1>1. /\ cur \in Blocks /\ size \in Nat \ {0} /\ end \in Nat
      /\ blkFile \in Exists(blk)
      /\ UNCHANGED <<rev, index, lastIndex, blkFile, revFile, cur, revOffset, home>>
  BY TypeFacts DEF WriteBlk, memory
<1>2. CASE end + size >= MaxBytes
  <2>1. blkOffset' = -1 /\ pc' = "rev" /\ UNCHANGED blk
    BY <1>2 DEF WriteBlk, Place
  <2>2. TypeOK'
    BY <1>1, <2>1 DEF TypeOK, WriteBlk
  <2>3. StartsAgain' /\ Apart(blk') /\ Apart(rev')
    BY <1>1, <2>1 DEF StartsAgain
  <2>4. Progress'
    BY <2>1 DEF Progress
  <2>5. IndexedIsComplete'
    BY <1>1, <2>1, Unchanged, IndexedKept
  <2> QED BY <2>2, <2>3, <2>4, <2>5
<1>3. CASE ~(end + size >= MaxBytes)
  <2> HIDE DEF size
  <2>1. blkOffset' = end /\ pc' = "blkEnd" /\ blk' = Copied(blk, blkFile, cur, size)
    BY <1>1, <1>3 DEF WriteBlk, Place, size
  <2>2. end + size < MaxBytes
    BY <1>1, <1>3, BoundsAssumption
  <2>3. /\ IsData(blk') /\ Apart(blk') /\ Keeps(blk, blk') /\ Exists(blk') = Exists(blk)
        /\ HalfWritten(blk', blkFile, blkOffset', size, cur)
    BY <1>1, <2>1, <2>2, CopiedFacts DEF TypeOK
  <2>4. TypeOK'
    BY <1>1, <2>1, <2>3 DEF TypeOK, WriteBlk
  <2>5. StartsAgain' /\ Apart(rev')
    BY <1>1, <2>3 DEF StartsAgain
  <2>6. Progress'
    BY <1>1, <2>1, <2>3 DEF Progress, size
  <2>7. IndexedIsComplete'
    BY <1>1, <2>3, Unchanged, IndexedKept
  <2> QED BY <2>3, <2>4, <2>5, <2>6, <2>7
<1> QED BY <1>2, <1>3

LEMMA WriteBlkEndStep == ASSUME IInv, WriteBlkEnd PROVE IInv'
<1> USE DEF IInv
<1> DEFINE size == BlkSize[cur]
<1>1. /\ cur \in Blocks /\ size \in Nat \ {0} /\ blkFile \in Exists(blk)
      /\ blk[blkFile].end \in Nat
      /\ UNCHANGED <<rev, index, lastIndex, blkFile, revFile, cur, blkOffset, revOffset, home>>
      /\ pc' = "rev" /\ blk' = Advanced(blk, blkFile, size)
  BY TypeFacts DEF WriteBlkEnd, memory
<1>2. HalfWritten(blk, blkFile, blkOffset, size, cur) /\ blkOffset \in Nat
  BY <1>1 DEF WriteBlkEnd, Progress, HalfWritten
<1> HIDE DEF size
<1>3. /\ IsData(blk') /\ Apart(blk') /\ Keeps(blk, blk') /\ Exists(blk') = Exists(blk)
      /\ Complete(blk', blkFile, blkOffset, size, cur)
  BY <1>1, <1>2, AdvancedFacts DEF TypeOK
<1>4. TypeOK'
  BY <1>1, <1>3 DEF TypeOK, WriteBlkEnd
<1>5. StartsAgain' /\ Apart(rev')
  BY <1>1, <1>3 DEF StartsAgain
<1>6. Progress'
  BY <1>1, <1>3 DEF Progress, size
<1>7. IndexedIsComplete'
  BY <1>1, <1>3, Unchanged, IndexedKept
<1> QED BY <1>3, <1>4, <1>5, <1>6, <1>7

LEMMA WriteRevStep == ASSUME IInv, WriteRev PROVE IInv'
<1> USE DEF IInv
<1> DEFINE size == RevSize[cur]
           end  == rev[revFile].end
<1>1. /\ cur \in Blocks /\ size \in Nat \ {0} /\ end \in Nat
      /\ revFile \in Exists(rev) /\ pc = "rev"
      /\ UNCHANGED <<blk, index, lastIndex, blkFile, revFile, cur, blkOffset, home>>
  BY TypeFacts DEF WriteRev, memory
<1>2. CASE end + size >= MaxBytes
  <2>1. revOffset' = -1 /\ pc' = "written" /\ UNCHANGED rev
    BY <1>2 DEF WriteRev, Place
  <2>2. TypeOK'
    BY <1>1, <2>1 DEF TypeOK, WriteRev
  <2>3. StartsAgain' /\ Apart(blk') /\ Apart(rev')
    BY <1>1, <2>1 DEF StartsAgain
  <2>4. Progress'
    BY <1>1, <2>1 DEF Progress
  <2>5. IndexedIsComplete'
    BY <1>1, <2>1, Unchanged, IndexedKept
  <2> QED BY <2>2, <2>3, <2>4, <2>5
<1>3. CASE ~(end + size >= MaxBytes)
  <2> HIDE DEF size
  <2>1. revOffset' = end /\ pc' = "revEnd" /\ rev' = Copied(rev, revFile, cur, size)
    BY <1>1, <1>3 DEF WriteRev, Place, size
  <2>2. end + size < MaxBytes
    BY <1>1, <1>3, BoundsAssumption
  <2>3. /\ IsData(rev') /\ Apart(rev') /\ Keeps(rev, rev') /\ Exists(rev') = Exists(rev)
        /\ HalfWritten(rev', revFile, revOffset', size, cur)
    BY <1>1, <2>1, <2>2, CopiedFacts DEF TypeOK
  <2>4. TypeOK'
    BY <1>1, <2>1, <2>3 DEF TypeOK, WriteRev
  <2>5. StartsAgain' /\ Apart(blk')
    BY <1>1, <2>3 DEF StartsAgain
  <2>6. Progress'
    BY <1>1, <2>1, <2>3 DEF Progress, size
  <2>7. IndexedIsComplete'
    BY <1>1, <2>3, Unchanged, IndexedKept
  <2> QED BY <2>3, <2>4, <2>5, <2>6, <2>7
<1> QED BY <1>2, <1>3

LEMMA WriteRevEndStep == ASSUME IInv, WriteRevEnd PROVE IInv'
<1> USE DEF IInv
<1> DEFINE size == RevSize[cur]
<1>1. /\ cur \in Blocks /\ size \in Nat \ {0} /\ revFile \in Exists(rev)
      /\ rev[revFile].end \in Nat /\ pc = "revEnd"
      /\ UNCHANGED <<blk, index, lastIndex, blkFile, revFile, cur, blkOffset, revOffset, home>>
      /\ pc' = "written" /\ rev' = Advanced(rev, revFile, size)
  BY TypeFacts DEF WriteRevEnd, memory
<1>2. HalfWritten(rev, revFile, revOffset, size, cur) /\ revOffset \in Nat
  BY <1>1 DEF Progress, HalfWritten
<1> HIDE DEF size
<1>3. /\ IsData(rev') /\ Apart(rev') /\ Keeps(rev, rev') /\ Exists(rev') = Exists(rev)
      /\ Complete(rev', revFile, revOffset, size, cur)
  BY <1>1, <1>2, AdvancedFacts DEF TypeOK
<1>4. TypeOK'
  BY <1>1, <1>3 DEF TypeOK
<1>5. StartsAgain' /\ Apart(blk')
  BY <1>1, <1>3 DEF StartsAgain
<1>6. Progress'
  BY <1>1, <1>3 DEF Progress, size
<1>7. IndexedIsComplete'
  BY <1>1, <1>3, Unchanged, IndexedKept
<1> QED BY <1>3, <1>4, <1>5, <1>6, <1>7

\* The files of the next number do not exist yet: both are created.
LEMMA RotateStep == ASSUME IInv, Rotate PROVE IInv'
<1> USE DEF IInv
<1>1. /\ lastIndex \in Nat /\ lastIndex' = lastIndex + 1 /\ lastIndex' \in Numbers
      /\ blkFile' = lastIndex' /\ revFile' = lastIndex' /\ pc' = "blk"
      /\ blk' = Opened(blk, lastIndex') /\ rev' = Opened(rev, lastIndex')
      /\ cur \in Blocks /\ UNCHANGED <<index, cur, blkOffset, revOffset, home>>
  BY TypeFacts DEF Rotate, TypeOK, Numbers
<1>2. IsData(blk') /\ Apart(blk') /\ Keeps(blk, blk') /\ Exists(blk') = Exists(blk) \cup {lastIndex'}
  BY <1>1, OpenedFacts DEF TypeOK
<1>3. IsData(rev') /\ Apart(rev') /\ Keeps(rev, rev') /\ Exists(rev') = Exists(rev) \cup {lastIndex'}
  BY <1>1, OpenedFacts DEF TypeOK
<1>4. lastIndex' # None
  BY <1>1, NoneAssumption
<1>5. TypeOK'
  BY <1>1, <1>2, <1>3, <1>4 DEF TypeOK
<1>6. StartsAgain'
  <2>1. 0 .. lastIndex' = (0 .. lastIndex) \cup {lastIndex'}
    BY <1>1
  <2>2. Exists(blk) = 0 .. lastIndex /\ Exists(rev) \subseteq 0 .. lastIndex
    BY DEF StartsAgain
  <2>3. Exists(blk') = 0 .. lastIndex' /\ Exists(rev') \subseteq 0 .. lastIndex'
    BY <1>2, <1>3, <2>1, <2>2
  <2> QED BY <2>3 DEF StartsAgain
<1>7. Progress'
  BY <1>1 DEF Progress
<1>8. IndexedIsComplete'
  BY <1>1, <1>2, <1>3, IndexedKept
<1> QED BY <1>2, <1>3, <1>5, <1>6, <1>7, <1>8

LEMMA AddIndexStep == ASSUME IInv, AddIndex PROVE IInv'
<1> USE DEF IInv
<1>1. /\ cur \in Blocks /\ blkFile \in Exists(blk) /\ revFile \in Exists(rev)
      /\ blkFile \in Numbers /\ revFile \in Numbers
      /\ blkOffset \in Nat /\ revOffset \in Nat /\ pc = "written" /\ pc' = "idle"
      /\ UNCHANGED <<blk, rev, lastIndex, blkFile, revFile, cur, blkOffset, revOffset>>
  BY TypeFacts DEF AddIndex, Full, TypeOK, files, memory
<1>2. /\ index' = [index EXCEPT ![cur] = Entry]
      /\ home' = [home EXCEPT ![cur] = [blk |-> blkFile, rev |-> revFile]]
  BY DEF AddIndex
<1>3. Entry \in Entries /\ Entry.blockOffset = blkOffset /\ Entry.reversalOffset = revOffset
  BY <1>1 DEF Entry, Entries
<1>4. [blk |-> blkFile, rev |-> revFile] \in Homes
  BY <1>1 DEF Homes
<1>5. TypeOK'
  <2>1. index' \in [Blocks -> Entries \cup {None}] /\ home' \in [Blocks -> Homes \cup {None}]
    BY <1>2, <1>3, <1>4 DEF TypeOK
  <2> QED BY <1>1, <2>1 DEF TypeOK
<1>6. StartsAgain' /\ Apart(blk') /\ Apart(rev') /\ Progress'
  BY <1>1 DEF StartsAgain, Progress
<1>7. IndexedIsComplete'
  <2> SUFFICES ASSUME NEW b \in Blocks, index'[b] # None
               PROVE  /\ home'[b] # None
                      /\ Complete(blk, home'[b].blk, index'[b].blockOffset, BlkSize[b], b)
                      /\ Complete(rev, home'[b].rev, index'[b].reversalOffset, RevSize[b], b)
    BY <1>1 DEF IndexedIsComplete
  <2>1. CASE b = cur
    <3>1. index'[b] = Entry /\ home'[b] = [blk |-> blkFile, rev |-> revFile]
      BY <1>2, <2>1 DEF TypeOK
    <3>2. Complete(blk, blkFile, blkOffset, BlkSize[b], b)
          /\ Complete(rev, revFile, revOffset, RevSize[b], b)
      BY <1>1, <2>1 DEF Progress
    <3> QED BY <1>3, <1>4, <3>1, <3>2, NoneAssumption
  <2>2. CASE b # cur
    BY <1>2, <2>2 DEF TypeOK, IndexedIsComplete
  <2> QED BY <2>1, <2>2
<1> QED BY <1>5, <1>6, <1>7

\* The files a read or a release opens: file 0 always exists as a blk file.
LEMMA OpenForReading ==
  ASSUME IInv, NEW b \in Blocks, index[b] # None, NEW f, f = index[b].fileIndex
  PROVE  f \in Numbers /\ f \in Exists(blk) /\ f \in 0 .. lastIndex /\ f # None
<1>1. f = 0 /\ lastIndex \in Nat /\ f \in Numbers
  BY BoundsAssumption DEF IInv, TypeOK, Entries, Numbers
<1> QED BY <1>1, NoneAssumption DEF IInv, StartsAgain

LEMMA ReadBlockStep == ASSUME IInv, NEW b \in Blocks, ReadBlock(b) PROVE IInv'
<1> DEFINE f == index[b].fileIndex
<1>1. /\ pc = "idle" /\ blkFile' = f /\ revFile' = f
      /\ blk' = Opened(blk, f) /\ rev' = Opened(rev, f) /\ index[b] # None
      /\ UNCHANGED <<index, lastIndex, pc, cur, blkOffset, revOffset, home>>
  BY DEF ReadBlock, call
<1>2. f \in Numbers /\ f \in Exists(blk) /\ f \in 0 .. lastIndex /\ f # None
  BY <1>1, OpenForReading
<1> HIDE DEF f
<1>3. IsData(blk') /\ Apart(blk') /\ Keeps(blk, blk') /\ Exists(blk') = Exists(blk) \cup {f}
  BY <1>1, <1>2, OpenedFacts DEF IInv, TypeOK
<1>4. IsData(rev') /\ Apart(rev') /\ Keeps(rev, rev') /\ Exists(rev') = Exists(rev) \cup {f}
  BY <1>1, <1>2, OpenedFacts DEF IInv, TypeOK
<1>5. TypeOK'
  BY <1>1, <1>2, <1>3, <1>4 DEF IInv, TypeOK
<1>6. StartsAgain'
  BY <1>1, <1>2, <1>3, <1>4 DEF IInv, StartsAgain
<1>7. Progress'
  BY <1>1 DEF Progress
<1>8. IndexedIsComplete'
  BY <1>1, <1>3, <1>4, IndexedKept DEF IInv
<1> QED BY <1>3, <1>4, <1>5, <1>6, <1>7, <1>8 DEF IInv

LEMMA ReadUndoStep == ASSUME IInv, NEW b \in Blocks, ReadUndo(b) PROVE IInv'
<1> DEFINE f == index[b].fileIndex
<1>1. /\ pc = "idle" /\ revFile' = f /\ rev' = Opened(rev, f) /\ index[b] # None
      /\ UNCHANGED <<blk, index, lastIndex, blkFile, pc, cur, blkOffset, revOffset, home>>
  BY DEF ReadUndo, call
<1>2. f \in Numbers /\ f \in Exists(blk) /\ f \in 0 .. lastIndex /\ f # None
  BY <1>1, OpenForReading
<1> HIDE DEF f
<1>3. IsData(rev') /\ Apart(rev') /\ Keeps(rev, rev') /\ Exists(rev') = Exists(rev) \cup {f}
  BY <1>1, <1>2, OpenedFacts DEF IInv, TypeOK
<1>4. TypeOK'
  BY <1>1, <1>2, <1>3 DEF IInv, TypeOK
<1>5. StartsAgain'
  BY <1>1, <1>2, <1>3 DEF IInv, StartsAgain
<1>6. Progress' /\ Apart(blk')
  BY <1>1 DEF IInv, Progress
<1>7. IndexedIsComplete'
  BY <1>1, <1>3, Unchanged, IndexedKept DEF IInv
<1> QED BY <1>3, <1>4, <1>5, <1>6, <1>7 DEF IInv

LEMMA ReleaseBlockStep == ASSUME IInv, NEW b \in Blocks, ReleaseBlock(b) PROVE IInv'
<1> DEFINE f == index[b].fileIndex
<1>1. /\ pc = "idle" /\ revFile' = f /\ rev' = Opened(rev, f) /\ index[b] # None
      /\ UNCHANGED <<blk, lastIndex, blkFile, pc, cur, blkOffset, revOffset>>
      /\ index' = [index EXCEPT ![b] = None] /\ home' = [home EXCEPT ![b] = None]
  BY DEF ReleaseBlock, call
<1>2. f \in Numbers /\ f \in Exists(blk) /\ f \in 0 .. lastIndex /\ f # None
  BY <1>1, OpenForReading
<1> HIDE DEF f
<1>3. IsData(rev') /\ Apart(rev') /\ Keeps(rev, rev') /\ Exists(rev') = Exists(rev) \cup {f}
  BY <1>1, <1>2, OpenedFacts DEF IInv, TypeOK
<1>4. TypeOK'
  BY <1>1, <1>2, <1>3 DEF IInv, TypeOK
<1>5. StartsAgain'
  BY <1>1, <1>2, <1>3 DEF IInv, StartsAgain
<1>6. Progress' /\ Apart(blk')
  BY <1>1 DEF IInv, Progress
<1>7. IndexedIsComplete'
  <2> SUFFICES ASSUME NEW c \in Blocks, index'[c] # None
               PROVE  /\ home'[c] # None
                      /\ Complete(blk, home'[c].blk, index'[c].blockOffset, BlkSize[c], c)
                      /\ Complete(rev', home'[c].rev, index'[c].reversalOffset, RevSize[c], c)
    BY <1>1 DEF IndexedIsComplete
  <2>1. c # b /\ index'[c] = index[c] /\ home'[c] = home[c]
    BY <1>1 DEF IInv, TypeOK
  <2>2. index[c].reversalOffset \in Nat /\ RevSize[c] \in Nat
    BY <2>1, SizeAssumption DEF IInv, TypeOK, Entries
  <2> QED BY <1>3, <2>1, <2>2 DEF IInv, IndexedIsComplete, Keeps
<1> QED BY <1>3, <1>4, <1>5, <1>6, <1>7 DEF IInv

\* The highest number of a blk file is _lastIndex, so that the constructor finds
\* what the process that was killed had.
LEMMA HighestNumber ==
  ASSUME IInv
  PROVE  Max(Exists(blk)) = lastIndex /\ NumbersComplete(lastIndex)
<1>1. lastIndex \in Nat /\ Exists(blk) = 0 .. lastIndex
  BY DEF IInv, TypeOK, Numbers, StartsAgain
<1>2. \A x \in 0 .. lastIndex : (\A y \in 0 .. lastIndex : x >= y) => x = lastIndex
  BY <1>1
<1>3. lastIndex \in 0 .. lastIndex /\ \A y \in 0 .. lastIndex : lastIndex >= y
  BY <1>1
<1>4. Max(Exists(blk)) = lastIndex
  BY <1>1, <1>2, <1>3 DEF Max
<1>5. Cardinality(0 .. lastIndex) = lastIndex - 0 + 1
  BY <1>1, FS_Interval
<1> QED BY <1>1, <1>4, <1>5 DEF NumbersComplete

LEMMA RestartStep == ASSUME IInv, Restart PROVE IInv'
<1>1. /\ lastIndex' = lastIndex /\ UNCHANGED <<blk, rev, index, home>>
      /\ blkFile' = None /\ revFile' = None /\ pc' = "idle"
      /\ blkOffset' = -1 /\ revOffset' = -1
  BY HighestNumber DEF Restart, files
<1>2. TypeOK'
  BY <1>1 DEF IInv, TypeOK
<1>3. StartsAgain' /\ Apart(blk') /\ Apart(rev') /\ Progress'
  BY <1>1 DEF IInv, StartsAgain, Progress
<1>4. IndexedIsComplete'
  BY <1>1, Unchanged, IndexedKept DEF IInv
<1> QED BY <1>2, <1>3, <1>4 DEF IInv

LEMMA NextIInv == IInv /\ [Next]_vars => IInv'
<1> SUFFICES ASSUME IInv, [Next]_vars PROVE IInv'
  OBVIOUS
<1>1. CASE UNCHANGED vars
  <2>1. UNCHANGED <<blk, rev, index, lastIndex, blkFile, revFile, pc, cur, blkOffset,
                    revOffset, home>>
    BY <1>1 DEF vars, files, memory, call
  <2> QED BY <2>1 DEF IInv, TypeOK, StartsAgain, Progress, IndexedIsComplete
<1>2. ASSUME NEW b \in Blocks, WriteBlock(b) \/ ReadBlock(b) \/ ReadUndo(b) \/ ReleaseBlock(b)
      PROVE  IInv'
  BY <1>2, WriteBlockStep, ReadBlockStep, ReadUndoStep, ReleaseBlockStep
<1>3. CASE WriteBlk \/ WriteBlkEnd \/ WriteRev \/ WriteRevEnd
  BY <1>3, WriteBlkStep, WriteBlkEndStep, WriteRevStep, WriteRevEndStep
<1>4. CASE Rotate \/ AddIndex \/ Restart
  BY <1>4, RotateStep, AddIndexStep, RestartStep
<1> QED BY <1>1, <1>2, <1>3, <1>4 DEF Next

----------------------------------------------------------------------------
(* The theorems                                                            *)

\* Whatever is written, read and released, and wherever the process is killed,
\* files are numbered without a gap, their containers do not share an offset, and
\* what the index names is complete.
THEOREM StorageInvariant == Spec => []IInv
BY InitIInv, NextIInv, PTL DEF Spec

\* No file grows past DEFAULT_BLK_REV_MAX_BYTES, and a file is open for a write.
THEOREM StorageTypeOK == Spec => []TypeOK
<1>1. IInv => TypeOK
  BY DEF IInv
<1> QED BY <1>1, StorageInvariant, PTL

\* The blk files have the numbers from 0 to _lastIndex at every point where the
\* process may be killed.
THEOREM StorageStartsAgain == Spec => []StartsAgain
<1>1. IInv => StartsAgain
  BY DEF IInv
<1> QED BY <1>1, StorageInvariant, PTL

\* So the assertion of the constructor of BlockLocalStrage holds at every start.
THEOREM ConstructorAssertion == Spec => []NumbersComplete(Max(Exists(blk)))
<1>1. IInv => NumbersComplete(Max(Exists(blk)))
  BY HighestNumber
<1> QED BY <1>1, StorageInvariant, PTL

\* A complete container is what a read at its offset gives back.
LEMMA CompleteIsRead ==
  ASSUME NEW F, Apart(F), NEW f, NEW at, NEW size, NEW b, Complete(F, f, at, size, b)
  PROVE  ReadAt(F, f, at) = b /\ at + size <= F[f].end
<1> DEFINE rec == [at |-> at, size |-> size, of |-> b]
<1>1. f \in Exists(F) /\ F[f] # None /\ rec \in F[f].recs /\ rec.at = at /\ rec.of = b
  BY DEF Complete, Exists
<1> HIDE DEF rec
<1>2. \A r \in F[f].recs : r.at = at => r = rec
  BY <1>1 DEF Apart
<1>3. (CHOOSE r \in F[f].recs : r.at = at) = rec
  BY <1>1, <1>2
<1> QED BY <1>1, <1>3 DEF ReadAt, Complete

\* An index entry is only made for a block and undo data that are completely
\* written, and no later write, rotation or restart changes them.
THEOREM StorageIndexedIsWritten == Spec => []IndexedIsWritten
<1>1. IInv => IndexedIsWritten
  <2> SUFFICES ASSUME IInv, NEW b \in Blocks, index[b] # None
               PROVE  /\ ReadAt(blk, home[b].blk, index[b].blockOffset) = b
                      /\ index[b].blockOffset + BlkSize[b] <= blk[home[b].blk].end
                      /\ ReadAt(rev, home[b].rev, index[b].reversalOffset) = b
                      /\ index[b].reversalOffset + RevSize[b] <= rev[home[b].rev].end
                      /\ home[b].blk = index[b].fileIndex => Read(b) = b
                      /\ home[b].rev = index[b].fileIndex => Undo(b) = b
    BY DEF IndexedIsWritten
  <2>1. /\ Apart(blk) /\ Complete(blk, home[b].blk, index[b].blockOffset, BlkSize[b], b)
        /\ Apart(rev) /\ Complete(rev, home[b].rev, index[b].reversalOffset, RevSize[b], b)
    BY DEF IInv, IndexedIsComplete
  <2>2. /\ ReadAt(blk, home[b].blk, index[b].blockOffset) = b
        /\ index[b].blockOffset + BlkSize[b] <= blk[home[b].blk].end
    BY <2>1, CompleteIsRead
  <2>3. /\ ReadAt(rev, home[b].rev, index[b].reversalOffset) = b
        /\ index[b].reversalOffset + RevSize[b] <= rev[home[b].rev].end
    BY <2>1, CompleteIsRead
  <2>4. home[b].blk = index[b].fileIndex => Read(b) = b
    BY <2>2 DEF Read
  <2>5. home[b].rev = index[b].fileIndex => Undo(b) = b
    BY <2>3 DEF Undo
  <2> QED BY <2>2, <2>3, <2>4, <2>5
<1> QED BY <1>1, StorageInvariant, PTL

=============================================================================
