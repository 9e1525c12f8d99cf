--------------------------- MODULE ChainSyncManager ---------------------------
(***************************************************************************)
(* The synchronisation of the chain: ChainSyncManager with its             *)
(* VirtualHeaderSyncManager, VirtualHeaderSubChain, BlockHeaderPool and    *)
(* VirtualBlockSyncManager.  Three actors share their state without a      *)
(* lock: the builder thread of forward or backward, the thread that brings *)
(* headers and blocks, and the clock.                                      *)
(*                                                                         *)
(* A header is its hash, Prev gives the one it refers to.  Commands to     *)
(* other nodes are not sent (the bodies of sendRequestSyncedCommand are    *)
(* commented out): headers arrive in any order, any number of times, or    *)
(* not at all.  A time stamp is an age in seconds.                         *)
(*                                                                         *)
(* The set of subchains is cleared and filled again while the builder      *)
(* reads it; the model has every content of the set from the clear on.     *)
(* What add does before that is one step: the builder does not see a set   *)
(* to which build has added and which is not yet cleared.  What else a     *)
(* torn read of the set, or of a manager that the builder has replaced,    *)
(* may do to the process is not modelled.                                  *)
(***************************************************************************)
EXTENDS Naturals, Sequences, SequencesExt, FiniteSets

CONSTANTS
  Headers,                  \* the headers that exist
  NoHeader,                 \* a null header or stop hash
  Absent,                   \* hashes of blocks that no one has
  Prev,                     \* prevBlockHash
  Stored,                   \* the blocks in the local storage at first
  Tip,                      \* the fork point at first
  Objectives,               \* the headers that backward may be asked for
  Lifetime,                 \* SUBCHAIN_LIFETIME
  Timeout,                  \* HEADER_REQUEST_TIMEOUT_SECOND, BLOCK_REQUEST_TIMEOUT_SECOND
  Decrements,               \* ALLOWED_FORKPOINT_DECREMENTS
  Retransmissions,          \* ALLOWED_RETRANSMISSION_COUNT
  MaxVector                 \* bound on the headers in one message

ASSUME HeadersAssumption ==
  /\ IsFiniteSet(Headers) /\ NoHeader \notin Headers
  /\ Absent \cap Headers = {} /\ Prev \in [Headers -> Headers \cup Absent]
  /\ Stored \subseteq Headers /\ Tip \in Stored /\ Objectives \subseteq Headers
\* A header contains the hash of the one before it, so no header comes before itself.
ASSUME AcyclicAssumption ==
  \E r \in [Headers -> 0 .. Cardinality(Headers) - 1] :
    \A h \in Headers : Prev[h] \in Headers => r[Prev[h]] < r[h]
ASSUME LimitsAssumption ==
  /\ Lifetime \in Nat \ {0} /\ Timeout \in Nat \ {0}
  /\ Decrements \in Nat \ {0} /\ Retransmissions \in Nat \ {0} /\ MaxVector \in Nat \ {0}

VARIABLES
  mode,       \* "none", "forward" or "backward"
  pc,         \* the builder: "idle", "header", "left", "block", "done", "crashed"
  status,     \* _status of the ChainSyncManager
  forkPoint,  \* _forkPoint
  count,      \* forkPointDecrimentsCount
  slept,      \* how long the builder has slept
  hm,         \* the header sync manager
  adding,     \* the thread that brings headers, inside hm's add
  wanted,     \* the chain of the block sync manager, latest block first
  arrived,    \* the blocks of its window whose body is there
  tries,      \* retransmissionCount
  local       \* the blocks in the local storage
(* hm.start, stop   _startBlockHeader, _stopHash
   hm.pool          how often a header is in the pool: 0, 1 or 2 (two or more)
   hm.chains        _headerSubchainSet
   hm.finished      _status is FINISHED
   adding.busy      it is inside extend, after the set was cleared
   adding.todo      extendedVector, what of it is not in the set again
   adding.flag      chainStopFlag
   A subchain has its latest header, its stop hash, the age of its last update,
   and stopped (_isStoped).                                                 *)
builder == <<mode, pc, status, forkPoint, count, slept, wanted, tries, local>>
vars == <<builder, hm, adding, arrived>>

Number(S) == Cardinality(S)
NotAdding == [busy |-> FALSE, todo |-> {}, flag |-> FALSE]

-----------------------------------------------------------------------------
(* Subchains                                                               *)

SubChain(start, stop) == [latest |-> start, stop |-> stop, age |-> 0, stopped |-> FALSE]

IsActive(c) == c.age < Lifetime

\* findByPrevBlockHash: the entries of the pool that refer to h.
Children(pool, h) == {d \in Headers : Prev[d] = h /\ pool[d] > 0}
Single(pool, h)   == LET C == Children(pool, h) IN Number(C) = 1 /\ \A d \in C : pool[d] = 1

\* Mutant of Follow: with several headers to go on with, any is taken.
FollowAny(pool, stop, h) ==
  IF h # stop /\ Children(pool, h) # {} THEN CHOOSE d \in Children(pool, h) : TRUE ELSE h

\* One round of extend: the header after h, or h when h is the stop, nothing refers to
\* it or several entries do.
Follow(pool, stop, h) ==
  IF h # stop /\ Single(pool, h) THEN CHOOSE d \in Children(pool, h) : TRUE ELSE h

\* Mutant of Furthest: one header for each call.
FurthestOne(pool, stop, h) == Follow(pool, stop, h)

\* The header after so many rounds.
Rounds(pool, stop, h) ==
  LET F[n \in 0 .. Number(Headers)] == IF n = 0 THEN h ELSE Follow(pool, stop, F[n - 1])
  IN F

\* extend calls itself until it can go no further.
Furthest(pool, stop, h) == Rounds(pool, stop, h)[Number(Headers)]

\* Mutant of Extended: the time is taken although nothing was added.
ExtendedTouch(pool, c) ==
  IF ~IsActive(c) THEN c
  ELSE LET l == Furthest(pool, c.stop, c.latest)
       IN [c EXCEPT !.latest = l, !.age = 0, !.stopped = @ \/ l = c.stop]

Extended(pool, c) ==
  IF ~IsActive(c) THEN c
  ELSE LET l == Furthest(pool, c.stop, c.latest)
       IN [c EXCEPT !.latest = l,
                    !.age = IF l = c.latest THEN @ ELSE 0,
                    !.stopped = @ \/ l = c.stop]

\* extend returns true.
Stops(pool, c) == IsActive(c) /\ Furthest(pool, c.stop, c.latest) = c.stop

\* The headers from h back to the first whose predecessor no one has.
Back[h \in Headers] == IF Prev[h] \in Headers THEN <<h>> \o Back[Prev[h]] ELSE <<h>>

\* exportChainVector: back from the latest header as long as the pool has the one before.
Export(pool, h) ==
  LET Here(n) == n <= Len(Back[h]) /\ \A i \in 2 .. n : pool[Back[h][i]] > 0
  IN SubSeq(Back[h], 1, CHOOSE n \in 1 .. Len(Back[h]) : Here(n) /\ ~Here(n + 1))

\* Mutant of Insert: subchains with the same latest header are not taken for equal.
InsertAlways(chains, new) == chains \cup new

\* Subchains of one manager are equal when their latest headers are: what equals one in
\* the set is dropped.
Insert(chains, new) == chains \cup {c \in new : \A d \in chains : d.latest # c.latest}

-----------------------------------------------------------------------------
(* Headers arrive                                                          *)

\* The filter lets a header pass unless its block is known: the first fork point is.
Filter(h) == h # Tip

Passed(hs)   == {i \in DOMAIN hs : Filter(hs[i])}
Times(hs, h) == {i \in Passed(hs) : hs[i] = h}
Capped(n)    == IF n > 2 THEN 2 ELSE n

\* push, for all that passed: a header is in the pool as often as it came.
Push(pool, hs) == [h \in Headers |-> Capped(pool[h] + Number(Times(hs, h)))]

\* The headers that refer to the same one as an entry of the pool or as a header before
\* them in the message.
Duplicates(pool, hs) ==
  {hs[i] : i \in {i \in Passed(hs) :
                    \/ Children(pool, Prev[hs[i]]) # {}
                    \/ \E j \in Passed(hs) : j < i /\ Prev[hs[j]] = Prev[hs[i]]}}

\* Mutant of Build: the new subchain has the manager's stop hash.
BuildManagerStop(m, h) == Extended(m.pool, [SubChain(m.start, m.stop) EXCEPT !.latest = h])

\* build: a new subchain that ends at h, and whose stop hash is h's.
Build(m, h) == Extended(m.pool, [SubChain(m.start, h) EXCEPT !.latest = h])

\* What one message does to the pool and the set: all of it is pushed before the first
\* subchain is built.  No two of those end at the same header.
Received(m, hs) ==
  LET p == [m EXCEPT !.pool = Push(m.pool, hs)]
  IN [p EXCEPT !.chains = Insert(m.chains, {Build(p, h) : h \in Duplicates(m.pool, hs)})]

Messages == UNION {[1 .. n -> Headers] : n \in 1 .. MaxVector}

\* add( headers ), only while headers are synchronised, as far as the point in extend
\* where every subchain is copied and extended and the set is cleared, as one step.
AddHeaders(hs) ==
  /\ status = "HEADER_WORKING" /\ ~adding.busy /\ pc # "crashed"
  /\ LET m == Received(hm, hs) IN
       /\ hm' = [m EXCEPT !.chains = {}]
       /\ adding' = [busy |-> TRUE,
                     todo |-> {Extended(m.pool, c) : c \in m.chains},
                     flag |-> \E c \in m.chains : Stops(m.pool, c)]
  /\ UNCHANGED <<builder, arrived>>

\* The subchains go back into the set one by one.
ReInsert ==
  /\ adding.busy /\ pc # "crashed"
  /\ \E c \in adding.todo :
       /\ hm' = [hm EXCEPT !.chains = Insert(@, {c})]
       /\ adding' = [adding EXCEPT !.todo = @ \ {c}]
  /\ UNCHANGED <<builder, arrived>>

\* extend and add return.
ExtendEnds ==
  /\ adding.busy /\ adding.todo = {} /\ pc # "crashed"
  /\ hm' = [hm EXCEPT !.finished = @ \/ adding.flag]
  /\ adding' = NotAdding
  /\ UNCHANGED <<builder, arrived>>

\* add( block ): no one sets the status it asks for.
AddBlock(b) ==
  /\ pc # "crashed"
  /\ arrived' = IF status = "BLOCK_WORKING" /\ b \in ToSet(wanted) THEN arrived \cup {b}
                ELSE arrived
  /\ UNCHANGED <<builder, hm, adding>>

-----------------------------------------------------------------------------
(* The builder thread                                                      *)

Manager(start, stop) ==
  [start |-> start, stop |-> stop, pool |-> [h \in Headers |-> 0],
   chains |-> {SubChain(start, stop)}, finished |-> FALSE]

\* A new header sync manager, whose start() looks at its subchains at once.  An add in
\* the old one is lost with it.
NewManager(start, stop) ==
  /\ hm' = Manager(start, stop)
  /\ adding' = NotAdding
  /\ status' = "HEADER_WORKING"
  /\ pc' = "header"
  /\ slept' = Timeout
  /\ UNCHANGED <<wanted, arrived, tries>>

\* forward and backward begin.  isHead compares the hash that the iterator got when it
\* was made with 0, which no block has.
Forward ==
  /\ mode = "none"
  /\ mode' = "forward"
  /\ NewManager(forkPoint, NoHeader)
  /\ UNCHANGED <<forkPoint, count, local>>

\* The thread reads the objective through a reference to a parameter of backward, which
\* may have returned: it gets one header or another.
Backward ==
  /\ mode = "none"
  /\ mode' = "backward"
  /\ \E o \in Objectives : NewManager(forkPoint, o)
  /\ UNCHANGED <<forkPoint, count, local>>

\* The loop of VirtualHeaderSyncManager::start.
Working == (\E c \in hm.chains : IsActive(c)) \/ hm.finished

Wait ==
  /\ pc = "header" /\ slept = Timeout
  /\ Working
  /\ slept' = 0
  /\ UNCHANGED <<mode, pc, status, forkPoint, count, wanted, tries, local, hm, adding, arrived>>

Leave ==
  /\ pc = "header" /\ slept = Timeout
  /\ ~Working
  /\ pc' = "left"
  /\ UNCHANGED <<mode, status, forkPoint, count, slept, wanted, tries, local, hm, adding, arrived>>

\* operator--: the block before, if it is in the local storage.
Lowered(h) == IF Prev[h] \in local THEN Prev[h] ELSE h

\* The block sync manager gets the chain and looks for its blocks in the local storage.
HandOver(chain) ==
  /\ status' = "HEADER_DONE"
  /\ pc' = "block"
  /\ wanted' = chain
  /\ arrived' = ToSet(chain) \cap local
  /\ tries' = 0
  /\ slept' = Timeout
  /\ UNCHANGED <<hm, adding>>

Exports == {Export(hm.pool, c.latest) : c \in hm.chains}

\* forward takes the longest chain of two headers or more.
Choose ==
  /\ pc = "left" /\ mode = "forward"
  /\ \E e \in Exports :
       /\ Len(e) > 1 /\ \A f \in Exports : Len(f) <= Len(e)
       /\ HandOver(e)
  /\ UNCHANGED <<mode, forkPoint, count, local>>

\* Without one it begins again one block further back; after the last time it goes on
\* with an empty chain.
TryFurtherBack ==
  /\ pc = "left" /\ mode = "forward"
  /\ \A e \in Exports : Len(e) <= 1
  /\ forkPoint' = Lowered(forkPoint)
  /\ count' = count + 1
  /\ IF count' < Decrements THEN NewManager(forkPoint', NoHeader) ELSE HandOver(<< >>)
  /\ UNCHANGED <<mode, local>>

\* backward goes on only with the flag set and not before the last time; it does not
\* look whether there is a stopped subchain.
Judge ==
  /\ pc = "left" /\ mode = "backward"
  /\ forkPoint' = Lowered(forkPoint)
  /\ count' = IF count < Decrements THEN count + 1 ELSE count
  /\ IF ~hm.finished \/ count' < Decrements THEN NewManager(forkPoint', hm.stop)
     ELSE \/ \E c \in hm.chains : c.stopped /\ HandOver(Export(hm.pool, c.latest))
          \/ /\ \A c \in hm.chains : ~c.stopped
             /\ pc' = "crashed"
             /\ UNCHANGED <<status, slept, hm, adding, wanted, arrived, tries>>
  /\ UNCHANGED <<mode, local>>

Complete == ToSet(wanted) \subseteq arrived

\* downloadWindow: once more a command and a wait.
Download ==
  /\ pc = "block" /\ slept = Timeout
  /\ ~Complete /\ tries < Retransmissions
  /\ tries' = tries + 1
  /\ slept' = 0
  /\ UNCHANGED <<mode, pc, status, forkPoint, count, wanted, local, hm, adding, arrived>>

\* A complete window is written; whether it is or not, start() returns true.
BlockEnd ==
  /\ pc = "block" /\ slept = Timeout
  /\ Complete \/ tries = Retransmissions
  /\ local' = IF Complete THEN local \cup ToSet(wanted) ELSE local
  /\ status' = "BLOCK_DONE"
  /\ pc' = "done"
  /\ UNCHANGED <<mode, forkPoint, count, slept, wanted, tries, hm, adding, arrived>>

-----------------------------------------------------------------------------
Aged(chains) == {[c EXCEPT !.age = IF @ < Lifetime THEN @ + 1 ELSE @] : c \in chains}

\* A second passes.
Tick ==
  /\ pc \in {"header", "left", "block"}
  /\ hm' = [hm EXCEPT !.chains = Aged(@)]
  /\ adding' = [adding EXCEPT !.todo = Aged(@)]
  /\ slept' = IF slept < Timeout THEN slept + 1 ELSE slept
  /\ UNCHANGED <<mode, pc, status, forkPoint, count, wanted, tries, local, arrived>>

\* Nothing reads hm before forward or backward has made a manager.
Init ==
  /\ mode = "none" /\ pc = "idle" /\ status = "PENDING"
  /\ forkPoint = Tip /\ count = 0 /\ slept = 0
  /\ hm = Manager(Tip, NoHeader) /\ adding = NotAdding
  /\ wanted = << >> /\ arrived = {} /\ tries = 0
  /\ local = Stored

Builder == Wait \/ Leave \/ Choose \/ TryFurtherBack \/ Judge \/ Download \/ BlockEnd

Next ==
  \/ Forward \/ Backward \/ Builder \/ Tick
  \/ (\E hs \in Messages : AddHeaders(hs)) \/ ReInsert \/ ExtendEnds
  \/ \E b \in Headers : AddBlock(b)

Spec == Init /\ [][Next]_vars

\* Time passes and the builder's thread is scheduled; nothing is asked of other nodes or
\* of the thread that brings their headers.
FairSpec == Spec /\ WF_vars(Tick) /\ WF_vars(Builder)

-----------------------------------------------------------------------------
(* Properties                                                              *)

SubChains == [latest : Headers, stop : Headers \cup {NoHeader}, age : 0 .. Lifetime,
              stopped : BOOLEAN]

Managers  == [start : Headers, stop : Headers \cup {NoHeader}, pool : [Headers -> 0 .. 2],
              chains : SUBSET SubChains, finished : BOOLEAN]
Additions == [busy : BOOLEAN, todo : SUBSET SubChains, flag : BOOLEAN]

\* Counters stay at their limits, and the fork point is a block of the local storage.
BuilderType ==
  /\ mode \in {"none", "forward", "backward"}
  /\ pc \in {"idle", "header", "left", "block", "done", "crashed"}
  /\ status \in {"PENDING", "HEADER_WORKING", "HEADER_DONE", "BLOCK_DONE"}
  /\ forkPoint \in local /\ local \subseteq Headers
  /\ count \in 0 .. Decrements /\ tries \in 0 .. Retransmissions /\ slept \in 0 .. Timeout
  /\ wanted \in Seq(Headers) /\ arrived \subseteq ToSet(wanted)

\* No two subchains in the set of a manager have the same latest header.
ManagerType(m, a) ==
  /\ m \in Managers /\ a \in Additions
  /\ \A c, d \in m.chains : c.latest = d.latest => c = d

\* No two subchains in the set have the same latest header, counters stay at their
\* limits, and the fork point is always a block of the local storage.
TypeOK == BuilderType /\ ManagerType(hm, adding)

Under == hm.chains \cup adding.todo

\* A subchain that has not stopped is connected: what it exports leads back to the fork
\* point its manager began at, in whatever order and however often the headers arrived.
\* Nothing is said of a stopped one, such as backward exports: it may end at a duplicate
\* that is connected to nothing.
Connected ==
  \A c \in Under : ~c.stopped =>
    LET e == Export(hm.pool, c.latest)
    IN hm.start \in ToSet(e) \/ Prev[Last(e)] = hm.start

\* Between two messages no live subchain has a single header in the pool to go on with:
\* headers that came before the one they refer to are taken up when that one comes.
Maximal ==
  ~adding.busy =>
    \A c \in hm.chains : IsActive(c) /\ ~c.stopped => ~Single(hm.pool, c.latest)

\* When the manager says FINISHED there is a stopped subchain, in the set or on its way
\* back into it: the one that backward asks for without looking whether it got one.
FinishedHasStopped == hm.finished => \E c \in Under : c.stopped

\* Nothing that other nodes send, again and again, keeps forward from coming to its end,
\* except a header that makes the manager FINISHED.
ForwardEnds == mode = "forward" ~> pc = "done" \/ hm.finished

-----------------------------------------------------------------------------
(* The inductive invariant                                                 *)

\* More than one entry of the pool refers to h.
Several(pool, h) ==
  \E d, e \in Children(pool, h) : d # e \/ pool[d] = 2

\* Going back from h along the pool one meets start.
Linked(pool, start, h) ==
  \E n \in 1 .. Len(Back[h]) :
    Back[h][n] = start /\ \A i \in 1 .. n - 1 : pool[Back[h][i]] > 0

\* The kinds of subchain of a manager m: the one it began with, which goes as far as it
\* can, and those built for a duplicate, which stop where they begin.
Shape(m, c) ==
  /\ c.stopped => c.latest = c.stop
  /\ c.stop # m.stop => c.stopped /\ Several(m.pool, Prev[c.latest])
  /\ ~c.stopped => Linked(m.pool, m.start, c.latest)
  /\ IsActive(c) /\ ~c.stopped => ~Single(m.pool, c.latest)

\* Two subchains: only one has not stopped, and it does not hide a stopped one.
Pair(c, d) ==
  /\ ~c.stopped /\ ~d.stopped => c = d
  /\ c.latest = d.latest /\ c.stopped => d.stopped

\* A manager m and the thread a inside its add.
ManagerInv(m, a) ==
  /\ ~a.busy => a.todo = {}
  /\ \A c \in m.chains \cup a.todo : Shape(m, c)
  /\ \A c, d \in m.chains \cup a.todo : Pair(c, d)
  /\ m.finished \/ a.flag => \E c \in m.chains \cup a.todo : c.stopped

\* The builder does not start twice, and forward has tries left while it looks at headers.
BuilderInv ==
  /\ mode = "none" => count = 0 /\ pc = "idle"
  /\ mode = "forward" /\ pc \in {"header", "left"} => count < Decrements

\* What Init and every step keep.
IInv == TypeOK /\ BuilderInv /\ ManagerInv(hm, adding)

=============================================================================
