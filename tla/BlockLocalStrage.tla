--------------------------- MODULE BlockLocalStrage ----------------------------
(***************************************************************************)
(* Block storage (local_strage_manager.cpp, local_file_controller.cpp):    *)
(* blocks are appended to blk files, their undo data to rev files, and an  *)
(* entry of the index database says where they are.  When a file is full   *)
(* both kinds go on in a new file.                                         *)
(*                                                                         *)
(* The writes of writeBlock are steps of their own, and the process may be *)
(* killed between them; what it wrote through its shared mappings stays.   *)
(* One thread uses the object.  The index database is external: it answers *)
(* one call after the other and keeps what it was given.                   *)
(***************************************************************************)
EXTENDS Integers, FiniteSets, FiniteSetsExt

CONSTANTS
  Blocks,
  BlkSize,     \* BlkSize[b]: bytes of b's block container
  RevSize,     \* RevSize[b]: bytes of b's undo container
  MetaSize,    \* BLK_REV_META_BLOCK_SIZE
  MaxBytes,    \* DEFAULT_BLK_REV_MAX_BYTES
  MaxFile,     \* bound: the highest number of a file
  None         \* no block, no entry, no file

Numbers    == 0 .. MaxFile
Containers == [at : Nat, size : Nat \ {0}, of : Blocks]
DataFiles  == [end : Nat, recs : SUBSET Containers]
Entries    == [fileIndex : {0}, blockOffset : Nat, reversalOffset : Nat]
Homes      == [blk : Numbers, rev : Numbers]

ASSUME BoundsAssumption ==
  MetaSize \in Nat /\ MaxBytes \in Nat /\ MetaSize < MaxBytes /\ MaxFile \in Nat
ASSUME NoneAssumption ==
  /\ None \notin Blocks \cup Numbers
  /\ None \notin DataFiles /\ None \notin Entries /\ None \notin Homes
ASSUME SizeAssumption ==
  \A b \in Blocks : BlkSize[b] \in Nat \ {0} /\ RevSize[b] \in Nat \ {0}
\* A container fits a new file.
ASSUME FitAssumption ==
  \A b \in Blocks : MetaSize + BlkSize[b] < MaxBytes /\ MetaSize + RevSize[b] < MaxBytes

VARIABLES
  blk, rev,     \* the files: actualDataSize and the containers in a file
  index,        \* the index database: BlockIndex of each block
  lastIndex,    \* _lastIndex
  blkFile,      \* the file _blkFileManager has open
  revFile,      \* the file _revFileManager has open
  pc, cur,      \* where writeBlock is, and with which block
  blkOffset, revOffset,
  home          \* history: the files the containers of an indexed block are in

files  == <<blk, rev>>
memory == <<lastIndex, blkFile, revFile>>
call   == <<pc, cur, blkOffset, revOffset>>
vars   == <<files, index, memory, call, home>>

Exists(F) == {f \in Numbers : F[f] # None}

----------------------------------------------------------------------------
(* LocalFileController                                                     *)

\* open: a file that does not exist is created and gets its meta block.
Opened(F, f) ==
  IF F[f] = None THEN [F EXCEPT ![f] = [end |-> MetaSize, recs |-> {}]] ELSE F

Overlap(r, at, size) == r.at < at + size /\ at < r.at + r.size

\* write, first half: the bytes are copied behind the end of the data, over
\* whatever a write that never finished left there.
Copied(F, f, b, size) ==
  LET at == F[f].end IN
  [F EXCEPT ![f] = [ end  |-> at,
                     recs |-> {r \in F[f].recs : ~Overlap(r, at, size)}
                              \cup {[at |-> at, size |-> size, of |-> b]} ]]

\* write, second half: actualDataSize moves on.
AdvancedNot(F, f, size) == F                             \* mutant of Advanced
Advanced(F, f, size) ==
  [F EXCEPT ![f] = [end |-> F[f].end + size, recs |-> F[f].recs]]

\* Mutant of Place: a container that ends at the limit's byte is let in.
PlaceAtLimit(F, f, size) == IF F[f].end + size > MaxBytes THEN -1 ELSE F[f].end

\* The answer of write: where the data begins, or -1 if the file is full.
Place(F, f, size) == IF F[f].end + size >= MaxBytes THEN -1 ELSE F[f].end

\* read at an offset: the container that begins there.
ReadAt(F, f, at) ==
  IF F[f] # None /\ \E r \in F[f].recs : r.at = at
  THEN (CHOOSE r \in F[f].recs : r.at = at).of ELSE None

----------------------------------------------------------------------------
(* writeBlock                                                              *)

\* A block is written once: the callers read it first.  If the blk file that is
\* open is not the last one, both files are opened.
WriteBlock(b) ==
  /\ pc = "idle"
  /\ index[b] = None
  /\ cur' = b
  /\ pc' = "blk"
  /\ IF blkFile = lastIndex THEN UNCHANGED <<files, blkFile, revFile>>
     ELSE /\ blkFile' = lastIndex /\ revFile' = lastIndex
          /\ blk' = Opened(blk, lastIndex) /\ rev' = Opened(rev, lastIndex)
  /\ UNCHANGED <<index, lastIndex, blkOffset, revOffset, home>>

\* The two halves of LocalFileController::write on the open blk file.
WriteBlk ==
  /\ pc = "blk"
  /\ blkOffset' = Place(blk, blkFile, BlkSize[cur])
  /\ IF blkOffset' = -1 THEN pc' = "rev" /\ UNCHANGED blk
     ELSE pc' = "blkEnd" /\ blk' = Copied(blk, blkFile, cur, BlkSize[cur])
  /\ UNCHANGED <<rev, index, memory, cur, revOffset, home>>

WriteBlkEnd ==
  /\ pc = "blkEnd"
  /\ blk' = Advanced(blk, blkFile, BlkSize[cur])
  /\ pc' = "rev"
  /\ UNCHANGED <<rev, index, memory, cur, blkOffset, revOffset, home>>

WriteRev ==
  /\ pc = "rev"
  /\ revOffset' = Place(rev, revFile, RevSize[cur])
  /\ IF revOffset' = -1 THEN pc' = "written" /\ UNCHANGED rev
     ELSE pc' = "revEnd" /\ rev' = Copied(rev, revFile, cur, RevSize[cur])
  /\ UNCHANGED <<blk, index, memory, cur, blkOffset, home>>

WriteRevEnd ==
  /\ pc = "revEnd"
  /\ rev' = Advanced(rev, revFile, RevSize[cur])
  /\ pc' = "written"
  /\ UNCHANGED <<blk, index, memory, cur, blkOffset, revOffset, home>>

Full == blkOffset = -1 \/ revOffset = -1

RotateKeepsIndex ==                                      \* mutant of Rotate
  /\ pc = "written"
  /\ Full
  /\ lastIndex + 1 \in Numbers
  /\ blkFile' = lastIndex + 1 /\ revFile' = lastIndex + 1
  /\ blk' = Opened(blk, lastIndex + 1) /\ rev' = Opened(rev, lastIndex + 1)
  /\ pc' = "blk"
  /\ UNCHANGED <<index, lastIndex, cur, blkOffset, revOffset, home>>

\* One of the two files is full: both containers are written to new files, where
\* they fit.
Rotate ==
  /\ pc = "written"
  /\ Full
  /\ lastIndex + 1 \in Numbers                           \* bound
  /\ lastIndex' = lastIndex + 1
  /\ blkFile' = lastIndex' /\ revFile' = lastIndex'
  /\ blk' = Opened(blk, lastIndex') /\ rev' = Opened(rev, lastIndex')
  /\ pc' = "blk"
  /\ UNCHANGED <<index, cur, blkOffset, revOffset, home>>

\* The entry always names file 0.
Entry == [fileIndex |-> 0, blockOffset |-> blkOffset, reversalOffset |-> revOffset]

AddIndex ==
  /\ pc = "written"
  /\ ~Full
  /\ index' = [index EXCEPT ![cur] = Entry]
  /\ home' = [home EXCEPT ![cur] = [blk |-> blkFile, rev |-> revFile]]
  /\ pc' = "idle"
  /\ UNCHANGED <<files, memory, cur, blkOffset, revOffset>>

----------------------------------------------------------------------------
(* Reading and releasing.  A read opens the file the entry names, unless    *)
(* it is open; readBlock opens both kinds, readUndo the rev file only.      *)

Undo(b) == ReadAt(rev, index[b].fileIndex, index[b].reversalOffset)
Read(b) == ReadAt(blk, index[b].fileIndex, index[b].blockOffset)

ReadBlock(b) ==
  /\ pc = "idle"
  /\ index[b] # None
  /\ LET f == index[b].fileIndex IN
       /\ blkFile # f
       /\ blkFile' = f /\ revFile' = f
       /\ blk' = Opened(blk, f) /\ rev' = Opened(rev, f)
  /\ UNCHANGED <<index, lastIndex, call, home>>

ReadUndo(b) ==
  /\ pc = "idle"
  /\ index[b] # None
  /\ LET f == index[b].fileIndex IN
       /\ revFile' = f
       /\ rev' = Opened(rev, f)
  /\ UNCHANGED <<blk, index, lastIndex, blkFile, call, home>>

\* releaseBlock: readUndo, and the index entry is removed.
ReleaseBlock(b) ==
  /\ pc = "idle"
  /\ index[b] # None
  /\ LET f == index[b].fileIndex IN
       /\ revFile' = f
       /\ rev' = Opened(rev, f)
  /\ index' = [index EXCEPT ![b] = None]
  /\ home' = [home EXCEPT ![b] = None]
  /\ UNCHANGED <<blk, lastIndex, blkFile, call>>

----------------------------------------------------------------------------
\* The process is killed, at any point of a call, and starts again: the
\* constructor takes the highest number of a blk file, and asserts that there is
\* a file for every number below it.
NumbersComplete(n) == Cardinality(Exists(blk)) - 1 = n
Restart ==
  /\ lastIndex' = Max(Exists(blk))
  /\ NumbersComplete(lastIndex')
  /\ blkFile' = None /\ revFile' = None
  /\ pc' = "idle" /\ cur' = None /\ blkOffset' = -1 /\ revOffset' = -1
  /\ UNCHANGED <<files, index, home>>

\* The repository ships with an empty blk0.dat.
Init ==
  /\ blk = Opened([f \in Numbers |-> None], 0)
  /\ rev = [f \in Numbers |-> None]
  /\ index = [b \in Blocks |-> None]
  /\ lastIndex = 0 /\ blkFile = None /\ revFile = None
  /\ pc = "idle" /\ cur = None /\ blkOffset = -1 /\ revOffset = -1
  /\ home = [b \in Blocks |-> None]

Next ==
  \/ \E b \in Blocks : WriteBlock(b) \/ ReadBlock(b) \/ ReadUndo(b) \/ ReleaseBlock(b)
  \/ WriteBlk \/ WriteBlkEnd \/ WriteRev \/ WriteRevEnd \/ Rotate \/ AddIndex
  \/ Restart

Spec == Init /\ [][Next]_vars

----------------------------------------------------------------------------
(* Properties                                                              *)

IsData(F) ==
  /\ F \in [Numbers -> DataFiles \cup {None}]
  /\ \A f \in Exists(F) : F[f].end \in MetaSize .. MaxBytes - 1

\* A file is open for what is being written, and no file grows past its limit.
TypeOK ==
  /\ IsData(blk) /\ IsData(rev)
  /\ index \in [Blocks -> Entries \cup {None}]
  /\ home \in [Blocks -> Homes \cup {None}]
  /\ lastIndex \in Numbers
  /\ blkFile \in Exists(blk) \cup {None} /\ revFile \in Exists(rev) \cup {None}
  /\ pc \in {"idle", "blk", "blkEnd", "rev", "revEnd", "written"}
  /\ blkOffset \in Nat \cup {-1} /\ revOffset \in Nat \cup {-1}
  /\ blkFile # None => revFile # None
  /\ pc # "idle" => cur \in Blocks /\ blkFile = lastIndex

\* The constructor's assertion holds whenever the process starts: the blk files
\* have the numbers from 0 to _lastIndex, at every point where it may be killed.
\* So the files a rotation opens are new.
StartsAgain == Exists(blk) = 0 .. lastIndex /\ Exists(rev) \subseteq 0 .. lastIndex

\* An index entry is only made for what is completely written: whatever was
\* interrupted, overwritten or written twice before, the block's container lies
\* at its offset below the end of its blk file, the undo container in its rev file.
\* So readBlock and readUndo give back what was written, if the entry names the file
\* it went to (it always names file 0).
IndexedIsWritten ==
  \A b \in Blocks : index[b] # None =>
    /\ ReadAt(blk, home[b].blk, index[b].blockOffset) = b
    /\ index[b].blockOffset + BlkSize[b] <= blk[home[b].blk].end
    /\ ReadAt(rev, home[b].rev, index[b].reversalOffset) = b
    /\ index[b].reversalOffset + RevSize[b] <= rev[home[b].rev].end
    /\ home[b].blk = index[b].fileIndex => Read(b) = b
    /\ home[b].rev = index[b].fileIndex => Undo(b) = b

\* What makes IndexedIsWritten inductive.  A container is complete when it lies
\* below the end of the data, where no later write goes.
Complete(F, f, at, size, b) ==
  /\ f \in Exists(F)
  /\ [at |-> at, size |-> size, of |-> b] \in F[f].recs
  /\ at + size <= F[f].end

\* The first half of a write is done and the second is not.
HalfWritten(F, f, at, size, b) ==
  /\ f \in Exists(F)
  /\ [at |-> at, size |-> size, of |-> b] \in F[f].recs
  /\ at = F[f].end /\ at + size < MaxBytes

Apart(F) == \A f \in Exists(F) : \A r, s \in F[f].recs : r.at = s.at => r = s

\* What writeBlock has done when it is at pc.
Progress ==
  /\ pc = "blkEnd" => HalfWritten(blk, blkFile, blkOffset, BlkSize[cur], cur)
  /\ pc \in {"rev", "revEnd", "written"} /\ blkOffset # -1 =>
       Complete(blk, blkFile, blkOffset, BlkSize[cur], cur)
  /\ pc = "revEnd" => HalfWritten(rev, revFile, revOffset, RevSize[cur], cur)
  /\ pc = "written" /\ revOffset # -1 =>
       Complete(rev, revFile, revOffset, RevSize[cur], cur)

IndexedIsComplete ==
  \A b \in Blocks : index[b] # None =>
    /\ home[b] # None
    /\ Complete(blk, home[b].blk, index[b].blockOffset, BlkSize[b], b)
    /\ Complete(rev, home[b].rev, index[b].reversalOffset, RevSize[b], b)

\* The inductive invariant: the type and the file numbers, containers that begin
\* at different offsets, and what is complete at each point of writeBlock.
IInv ==
  /\ TypeOK
  /\ StartsAgain
  /\ Apart(blk) /\ Apart(rev)
  /\ Progress
  /\ IndexedIsComplete

=============================================================================
