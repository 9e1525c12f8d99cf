# A TLA+ model of miya_core

miya_core is a blockchain node written in C++. This directory holds TLA+ modules
for the parts of it that carry its own logic, TLC configurations that check them
on small instances, and TLAPS proofs of the most important properties for every
value of the constants. `PROJECT.json` lists the components, the runs, the
source lines behind every definition, the hazards of the code and the theorems.

Source paths below are relative to `src/`. `MMyISAM/` stands for
`miya_db/strage_manager/MMyISAM/`.

## 1. Inventory

### What is built and what is not

The node links `chain/`, `miya_db/`, `node_gateway/`, `core/`, `mining_manager/`,
`control_interface/` and `share/`. Its peer-to-peer layer is the submodule
`ss_p2p`, whose directory is empty here. `ekp2p/`, the earlier peer-to-peer layer,
`chain/daemon/`, `chain/chain_sync_manager/` and the provisional UTXO cache are in
the tree but not part of the build. `share/json.hpp` is third-party code,
`release/` and `test/` hold driver programs.

### Components

| Component | State it keeps | Operations | What makes it correct |
|---|---|---|---|
| Overlay memory allocator (`MMyISAM/components/page_table/overlay_memory_allocator.cpp`, `meta_block.cpp`, `control_block.cpp`) | the control file: three linked lists of control blocks (free, allocated, unused) and their heads | allocate, clear, init (deallocate and merge exist, nothing calls them) | regions in use are disjoint; a search ends |
| Page cache (`cache_manager/`) | which frame each slot maps, reference bits, the clock hand | convert, with page fault and eviction | the address returned lies in the frame asked for; the victim scan ends; a page just returned is not evicted |
| B-tree index (`components/index_manager/`) | nodes in the index file | add, remove, find | it behaves as a map |
| Safe mode (`safe_mode_manager/`) | per session: a copy-on-write tree, a conversion table, a value file | open, add, remove, get, commit, abort | isolation until commit, exact commit, no stale session, one tree of copies and originals |
| Storage engine (`MMyISAM.cpp`) | one normal database, up to five sessions | dispatch by registry index | as above, and the database survives a restart |
| Database thread (`miya_db/miya_db/database_manager.cpp`) | the query in hand | pop, parse, execute, push | each query is executed once and answered |
| Stream buffers and client (`share/stream_buffer/`, `share/miya_db_client/`) | two bounded queues shared by all threads | enqueue, dequeue, call, put back | no response lost or misdelivered, nobody waits for ever on everybody |
| UTXO set (`chain/utxo_set/utxo_set.cpp`) | none of its own | get, add, remove, toVirtual, virtualCommit, virtualAbort | virtual mode leaves the real set alone |
| Block storage (`chain/miya_coin/`) | blk and rev files, `_lastIndex`, the two open files, the index database | writeBlock, readBlock, readUndo, releaseBlock, restart | an index entry stands for complete data; a start always succeeds; reads give back what was written |
| Transaction pool (`chain/transaction_pool/`) | a tree of tables with linked buckets | add, remove, find, of transactions and blocks | lists close, searches end in the right bucket, nothing else is lost |
| Mempool (`chain/transaction_pool/mempool.cpp`) | entries and totals | add_entry, remove_entry | the totals match the entries |
| Chain synchronisation (`chain/chain_sync_manager/`) | the fork point, the pool of headers, the set of subchains, the block window | forward, backward, add of headers and blocks, timeouts, retransmission | a subchain leads back to the fork point and is as long as the headers allow; the builder thread ends |
| Transactions, scripts, blocks (`chain/transaction/`, `chain/block/`) | none | encoding, hashing, verification, merkle root | the computations |
| Core, gateway, control interface, mining | wiring | message dispatch | - |
| ekp2p | routing table, swap queue, sockets | the Kademlia protocol | bucket bounds, no duplicate node |

### How they interact

A thread of the chain calls the database through a client object. The client puts
a query in one stream buffer and pops from the other until it sees the response
with its own query ID; foreign responses go back to the tail. One database thread
per instance pops queries, runs them on the storage engine and pushes the answers.
The engine has a normal mode and sessions, chosen by the registry index of the
query. All its files are allocated by the overlay allocator and read through the
page cache. The UTXO set and the block index are two such databases; block storage
keeps the blocks themselves in plain files. The synchronisation of the chain runs
in a builder thread of its own; another thread brings it the headers and blocks
that other nodes send, and both use the same objects without a lock.

### What is hard here

Threads sharing one response buffer; bounded queues that callers also fill by
putting responses back; sessions that overlap each other and the normal mode;
long-lived linked structures inside files that survive `clear()` half reset;
a scan for a page to evict that has to end; files, undo data and index
written one after the other by a process that may be killed; links rewritten
while they are walked; nodes that exist twice, in two files, under two addresses;
headers that come late, twice or never while their lifetimes run out. `PROJECT.json` lists each with its line.

## 2. Modules

| Module | Models | Notes |
|---|---|---|
| `RegionAllocator` | abstract: a bump allocator that can be cleared | implemented by the next module |
| `OverlayMemoryAllocator` | the control file and every setter that rewrites it | one operator per setter, applied in the code's order; re-reads after writes are re-reads in the model |
| `CacheTable` | convert, page fault, the clock | a frame number that does not fit `short` is a member of `HighFrames` |
| `RemoteCall` | abstract: a call is executed once, then returns | implemented by the next module |
| `DBChannel` | stream buffers, callers, the database thread | a wait on a condition variable is the guard of its action |
| `MMyISAM`, `MCMMyISAM` | normal mode, sessions, merge on commit, restart | indexes are maps, values have one size |
| `KeyMap` | abstract: a map from keys to data pointers | implemented by the next module |
| `OBtree`, `MCOBtree` | the nodes of the index file: search, split, borrow, merge | recursive functions, no recursive operator |
| `SafeMap` | abstract: a map and a working copy of it that a commit installs | implemented by the next module |
| `SafeOBtree`, `MCSafeOBtree` | a session's tree on copies of nodes, and the merge of a commit | extends `OBtree`: the session runs the same algorithms on its own nodes; a recursive operator of its own for the merge, so TLC only |
| `ChainSyncManager`, `MCChainSyncManager` | builder thread, header manager, subchains, pool, block window | recursive functions, no recursive operator; liveness under fairness |
| `TransactionPool`, `MCTransactionPool` | tables, buckets, scaling | an addition and its splits are a list of blocks still to be added and a recursive function; no recursive operator |
| `BlockLocalStrage`, `MCBlockLocalStrage` | block and undo files, rotation, index, restart | every write is a step of its own |
| `*Proofs` | the theorems of the module they extend | |

`MC` modules only give values to constants (and a symmetry set for `MMyISAM`).
A definition marked "mutant of X" states a plausible mistake in the code X models;
no specification uses it. With X's body replaced by it, the property listed beside
it in `PROJECT.json` fails.

### How state and actions correspond to the code

* **Allocator.** `ctl` is the control file: `head[l]` are the three heads of
  `MetaBlock`, `prev`, `next`, `mapping`, `end` the fields of the control blocks,
  `tail` where the next block goes. `SetHead` is the setter of a head, which also
  links. `Allocate` is `allocate()` whole: find, reserve, split, and the return of
  the old free block to the unused list; `Clear` is `clear()`, which formats the file again but keeps the
  allocated head and every stale link. `live` is a history of what callers hold.
  These are the two calls the database makes; nothing calls `deallocate()`.
* **Cache.** `cacheing`, `mapping`, `bit` and `ref` are `_cacheingList`,
  `_mappingList`, `_invalidCacheList` and `_referencePtr`. `Convert` is one call;
  `TargetOutPage` gives the slot at which the code's scan stops, for the states in
  which it stops (`LeftIsClear`).
* **Channel.** `pc[c]` is where caller `c` is: sending, waiting for a response,
  putting a foreign one back. `DbPop` covers the work of a query: the engine's
  effect happens between pop and push, and nobody else runs it.
* **Sessions.** A session is an index with a location for each record
  (`_dataOptrLocation`) and a value file. `Commit` is `safeCommitExit` with
  `mergeDataOptr` and `mergeSafeBtree`; the order in which the records are placed
  is the order of an `unordered_map`, so any injection. Each change of the normal
  database, and each commit and abort, closes all sessions (`clearSafeMode`).
  `SessionGetMissing` is the null dereference of a session's get: the thread ends,
  `Restart` begins anew. `formatted` says whether the head of the index file holds
  `FORMAT_CODE`, which is all a start looks at.
* **B-tree.** A node is its item set in the file: the parent and three arrays (keys,
  data pointers, children), each with a count that is kept on its own, the old
  elements in the slots behind it, and one slot for the memory behind the array. An
  operator stands for a function of `ONode` and gives the whole tree after it; those
  of `remove` also give the node that is returned as the new root. `Crashed` is the
  dereference of a null pointer. `meta` is the root's address in the head of the
  file, which `Restart` begins from. The data pointer added with key `k` is written
  `k`, and `found` is a history of what `find` answers. `Spec` has the removals
  that stay local (in a leaf, with a key from a brother, or under a root with one
  key), `RemoveSpec` has all of them.
* **Safe-mode tree.** `session` has the nodes a session sees: an original that was
  never written, or its copy. The conversion table leads both addresses of a node to
  one item set, so a node has one number. That needs the keys of the table, bare
  addresses of two files, never to meet: a node takes 103 bytes (`btree.h:56`) and
  lies at 100 + 103 i in the normal file and, as that file is formatted again
  (`MMyISAM.cpp:187`), at 103 j in the session's; 103 does not divide 100. `zero` is
  the node at address 0, `copied` the nodes that have a copy, `byCopy` those of them
  that are referred to by the address of the copy, which a commit therefore gives a new
  place. The record of key `k` is number `k` in the normal value file and `k + 1` in the
  session's, and a data pointer is that number, negative while its flag says "session's
  value file"; so a pointer and its flag can disagree, as they do in the code.
  `SessionRemove` is the whole of `SafeOBtree::remove`: removals in a leaf and in an
  inner node, keys from a brother, merges and `recursiveMerge`. `SafeRemoveSpec` has all
  of them, `SafeSpec` the plain ones (`StaysPlain`): in a leaf, with a key from a
  brother, with a left brother under a root with one key, or of the first key of an
  inner node while address 0 is taken, and in each case only where no pointer moves to
  a slot with another flag. Outside of these the code goes wrong (see 5). `Commit` is
  `mergeDataOptr` and `mergeSafeBtree` as one step; `seen` is a history of what the
  session's find answers. `MMyISAM` has several sessions at once, on maps; this module has one, on
  nodes.
* **Chain synchronisation.** The builder is `pc`; `Wait` and `Leave` are the loop of
  `VirtualHeaderSyncManager::start`, `Choose` and `TryFurtherBack` what `forward` does
  after it, `Judge` what `backward` does, `Download` and `BlockEnd` the block manager.
  `AddHeaders` is one message up to the point in `extend` where the set of subchains
  is cleared, as one step; `ReInsert` puts them back one by one, so the builder meets
  every content from the clear on, but not a set that `build` has added to and that is
  not yet cleared. `NewManager` replaces the header manager, and with it an `add` that is
  under way. `Tick` is a second. The pool counts an entry up to 2, as only "one" and
  "several" make a difference.
* **Pool.** A bucket or table is named by the half bytes that lead to it, a control
  block by its transaction ID. `Ring` is the walk along the links until it comes
  back to the head. `Move` is one call of
  `TxCBBucket::add` on the blocks that are still to be added, in the order of the
  recursion: a bucket that is scaled puts its blocks before the rest. `Added` is the
  whole of `TxCBTable::add`.
* **Block storage.** A file is the end of its data (`actualDataSize`) and the
  containers written to it. `pc` follows `writeBlock`; `Restart` may happen at any
  `pc`. `home` is a history of the files a block really went to, which the index
  entry, always naming file 0, does not record.

### Abstractions

* One session is open at a time in `SafeOBtree`, and a session in which a null pointer
  was dereferenced or an array overrun does nothing more. Keys are even numbers, and an odd one is a key
  whose bytes 14 to 18 were overwritten; it keeps its place in the order, as keys are
  hashes that differ before those bytes.
* One builder thread runs for each `ChainSyncManager`. What a torn read of the set or
  of a manager that was replaced under a running `add` does to the process is not
  modelled. Headers are well-formed, and no one verifies them in this code.
* Addresses are numbers; the five-byte arithmetic of overlay pointers, which is
  wrong from 2^24 on, is not modelled.
* `mmap`, `open`, `ftruncate` and `msync` succeed. Opening a block file is one
  step. What was written through a shared mapping survives the process.
* Query IDs are distinct. Queries carry no bytes, and JSON is not modelled.
* One thread uses a `BlockLocalStrage` object and a `TransactionPool`; neither has
  locks, and no caller shares one between threads.
* Values of the database are all of one size, so a record is its number. Copies of
  nodes that a later session finds in a reused conversion table are not modelled.
* In the B-tree only keys that are absent are added: the comparator of the sorts,
  `<=`, leaves the result open when a key is there twice. One call is one step, and a
  process killed in the middle of a split is not modelled.
* `MMyISAM` takes an index to be a map, which is what `MapSpec` says of the B-tree for
  additions and the local removals. It is not true of every removal (`index_remove`).
* The index database behind block storage is external: it keeps what it is given.

## 3. Runs

Each run has a configuration of its own name.

| Run | Bounds | Shows |
|---|---|---|
| `alloc_database` | 7 control blocks, sizes 1 and 2 | disjoint regions, free head behind all of them, and `RegionSpec` |
| `cache_table` | 3 slots, 4 frames and one that does not fit `short` | the scan ends, one mapping per frame, the right frame, the last page spared |
| `channel` | 4 callers, buffers of 2 | nothing lost or copied, never all asleep, `RemoteSpec`; every query is executed once no more than 2 callers are under way |
| `sessions` | 2 keys, 2 values, 2 sessions, 2 records a file | fresh sessions, exact commits, isolation |
| `transaction_pool` | 4 IDs of three half bytes, three of them equal in two, scale size 3, 4 counted additions a bucket | closed lists, right buckets, small buckets, additions keep everything, a removal takes one transaction or, for a head, its bucket |
| `index` | nodes of 2 keys, 7 keys, 7 nodes, 2 removals | the nodes form a search tree, the index is a map (`MapSpec`), also for a process that starts from the root in the file's head |
| `safe_tree` | nodes of 2 keys, 7 keys, 8 nodes, 1 session, 1 plain removal of one of 3 keys | with additions and plain removals the session's tree and the normal one stay search trees through splits and commits, and a session is a map (`SafeMapSpec`). It says nothing of the other removals |
| `chain_sync` | 5 headers (2 stored, a fork of 2, one header behind it), one in a message, lifetime 2 s, waits of 1 s, 2 fork points, 1 retransmission | subchains lead back to the fork point and are as long as the pool allows; FINISHED has a stopped subchain; `forward` ends unless FINISHED |
| `block_storage` | 2 blocks, files of 5 bytes with a meta block of 1, 2 files | a start succeeds after a kill at any point; entries stand for complete data |

These runs disagree with what the repository says of the code:

| Run | Disagreement |
|---|---|
| `sessions_restart` | after a commit the next start takes the index file for a new one (`MMyISAM.cpp:237`) |
| `index_remove` | the second key of the root is replaced by a key from the wrong subtree (`o_node.cpp:794`); nodes of 3 keys, as in the code |
| `session_flags` | with all removals, a removal in a session leaves data pointers with the flags of others (`safe_o_node.cpp:587`); nodes of 3 keys |

### Why the bounds are enough for the interesting cases

* Allocator: each allocation splits the free region and recycles a block through
  the unused list; seven blocks allow several rounds after a `clear()`, so stale
  links of two generations meet. Full control files are in the run: there only
  `clear()` is possible, as the bound ends allocation.
* Cache: three slots are the least for which the scan can pass the last page;
  more frames than slots force evictions in every state.
* Channel: four callers on two segments make both buffers full while responses
  are put back; with fewer callers than segments nobody ever waits for space.
* Sessions: two sessions and normal mode give every pair of actors; two records a
  file let a merge place records in two orders behind none or one.
* Pool: `ScaleSize` 3 lets a split move blocks to one bucket, which splits again.
* Index: with two keys a node, seven keys in any order split leaves and an inner node
  and make trees of three levels; a split of an inner node is the only one that
  rewrites parents. Two removals empty a leaf and then use what the first left behind
  the counts, and additions follow them.
* Safe tree: seven keys in any order, split between normal additions and a session,
  make sessions that write one leaf, split a leaf, split the root, and add a level on
  originals and copies; the normal tree is used on after the commit. The keys that are
  removed (`Removable`) are a low, a middle and the last one, so that removals from each
  side of a brother and from the root of a tree with two levels occur.
* Chain synchronisation: a fork, a header behind one side of it, and headers the node
  already has; a message holds one header, and as messages come at any point between
  two steps, longer ones only skip the points in between. A lifetime of two and a wait
  of one second let a subchain die, or be extended, on each side of the builder's look.
* Storage: one block fills its blk file first, the other its rev file, so each file
  is the reason of a rotation.

### Fairness

`channel` assumes weak fairness of every thread's own steps, which the
operating system's scheduler gives a thread that stays runnable; the mutex is held
only inside one step. Under it every query is executed if from some point on no more
callers are under way than a buffer has segments (`EveryCallExecuted`; the code's
buffers have 20). Until then the four callers fill both buffers. While there are more
it fails: callers that put back each other's responses can keep the response buffer
full whenever the database thread looks.
That a call *returns* is not claimed either: two callers may take each other's
response for ever, and no fairness of the scheduler excludes it.

`chain_sync` assumes weak fairness of the clock and of the builder thread, and none of
the thread that brings headers. `ForwardEnds` then says that `forward` comes to its end
or its manager is FINISHED: no stream of messages keeps subchains alive for ever, since
only a new latest header renews the lifetime.
The run has no deadlock check, since the system stops when the builder is done.

## 4. Proofs

TLAPS checks the following for all constants that satisfy the modules' named
assumptions. Each proof module shows `Init => IInv`, `IInv /\ [Next]_vars => IInv'`
with one lemma per action, and derives the rest.

* **`OverlayMemoryAllocatorProofs`** (at least 3 control blocks, positive sizes).
  `LiveDisjoint` alone is not inductive: `IInv` adds that links are closed over the
  blocks before the tail (`Closed`), that a head that is set is linked
  (`HeadsLinked`), where the heads lie (`HeadsPlaced`), and that the free head is
  the unbounded region behind every region in use (`FreeBehindLive`). It gives
  `TypeOK`, `LiveDisjoint`, `FreeBehindLive` and the refinement `RegionSpec`, with
  the start of the free head's region as the break.
* **`CacheTableProofs`** (at least 3 slots). `IInv` is `TypeOK`, `LeftIsClear` (the
  slot behind the hand has a clear bit, so the scan ends), `OneMapping`, and
  `ReturnedSafe`, which says where the last slot returned lies relative to the hand
  and is needed for `LastPageKept`.
* **`DBChannelProofs`** (finitely many callers, any capacity). `OneInFlight` counts,
  for every caller, its segment in the two buffers, in the database thread's hands
  and in the hands of callers that put it back; with `TypeOK` it is inductive.
  `NeverAllAsleep` follows from it by counting: if nobody could move, the segments
  in flight would be more than their owners. `RemoteSpec` is the refinement.
* **`MMyISAMProofs`** (finitely many keys). `IInv` is `TypeOK` (data pointers lead
  to allocated records), `SessionsFresh` (a session's inherited part is the
  database's) and `Inherited` (an entry a session holds at "normal" is the normal
  index's own entry). From it `CommitInstalls` and `SessionsIsolated`, for every
  order in which a merge may place the records.

* **`BlockLocalStrageProofs`** (positive container sizes, a meta block smaller than
  a file, any container fits a new file). `IndexedIsWritten` is not inductive: an
  offset only determines a container if no two begin at the same place (`Apart`),
  and an entry made at the end of `writeBlock` is right only if each `pc` has
  written what it should have by then (`Progress`), a killed write leaving at most
  a container beyond the end of its file, which the next write there replaces.
  `IInv` has these with `TypeOK`, `StartsAgain` and `IndexedIsComplete`. It gives
  `IndexedIsWritten`, `StartsAgain`, and with it that the assertion of the
  constructor holds at every start.

* **`ChainSyncManagerProofs`** (finitely many headers, no header before itself:
  `AcyclicAssumption` asks for heights that grow along `Prev`, which hashes of headers
  that contain hashes give). `extend` and the export of a chain are recursive functions.
  The first part shows that both are well defined, that `extend` ends because every
  round goes to a greater height and there are only so many (`FurthestEnds`), and what
  it comes to (`FurthestFacts`, `ExportFacts`). None of `Connected`, `Maximal` and
  `FinishedHasStopped` is inductive. `Connected` needs that the pool has all headers
  between the subchain and its start (`Linked`). `FinishedHasStopped` needs that
  re-inserting a subchain cannot drop a stopped one for one that has not stopped
  (`Pair`); that holds because a subchain is built, and stopped, only where several
  entries of the pool refer to one header (`Several`), and there `extend` does not go
  on. `IInv` says so of the subchains in the set and of those on their way back into
  it. It gives the four invariants, and that the null dereference in `backward` only
  happens while the other thread is refilling the set (`CrashOnlyWhileAdding`).

* **`TransactionPoolProofs`** (IDs of any length, finitely many transactions, a scale
  size from 2 on). `IInv` (`Sound` and `Bounded`) says of the state what the code
  never writes down: in every bucket the links run along one list and back, its blocks
  are those a search looks for there, and the list is shorter than the scale size and
  than `_txCount`. The last two are needed together: a bucket is scaled by its count,
  so a count that fell behind the list would let the list grow. The proof names the
  lists (`Rep`) and shows what each operation does to them: `Link` appends (`LinkRep`),
  `Split` empties (`SplitRep`), a removal takes one block or all (`RemovedRep`). A bucket
  on the last layer is never split, since its only possible block is its own ID.
  An addition may split buckets on several layers. It ends because every move uses up
  one of the pairs of a block and a layer in `Left`: a block still to be added may move
  once on its layer and on each below it, a listed one on those below, and a split
  sends its blocks at least one layer down (`MoveAdvances`, `MovesSuffice`). So the
  bound `Moves` in the model cuts nothing off, and nothing is lost on the way
  (`AddedSound`). It gives the four invariants and both action properties.

* **`OBtreeProofs`** (nodes of at least 2 keys, keys whose order agrees with that of
  their first five bytes, any number of nodes and removals). None of `SearchTree`,
  `RestartFinds` and `MapSpec` is inductive: a split climbs by the parent links of
  nodes it is rewriting, and a removal leaves nodes, counts and old elements behind in
  the file. `IInv` says that the file follows a forest of labels (`Represents`): a set
  of live nodes and, for each, its keys and children as arrays without end, its height,
  its parent, and the range of first five bytes that belongs below it. In a forest
  (`Forest`) the keys of a node ascend within its range, the range of a child is the gap
  between two of them, and the child is one lower and has one parent. From the root in
  the head of the file, `meta`, a chain of nodes without keys leads down to the `top`,
  whose range is everything (`Chain`); such nodes are what merges at the root leave, and
  the root in memory is one of them or the top. The first part shows which changes keep
  a forest a forest
  (`InsertInLeaf`, `SplitOK`, `GrowOK`, `BorrowLeftOK`, `MergeTopOK`) and what they do to
  its content. The second shows what the operations on arrays write, those of a split
  through the view of K + 1 keys among them. Then `recursiveAdd` is followed call by
  call: between two calls the tree follows the forest except for one key and child
  still to be put in (`Pending`), and the calls end because each goes one level up. `find`
  and the walks of add and remove end at the one node whose range has the key, because
  each goes one level down. It gives `TypeOK`, `SearchTree` and `RestartFinds`, and
  `MapSpec` for keys that differ in their first five bytes (`KeysDiffer`), which `find` compares and without
  which it answers with another key's data. As in `Spec`, removals are the local ones.

Induction is by a minimal counterexample (`Least`, from the library's `WFMin`), with
the claim given as the set of numbers or headers it holds for.

The eight `IInv` are proved and no longer checked by runs of their own; their named
parts are (for the B-tree, whose `IInv` speaks of labels, what follows from it).

Only model-checked: liveness (`EveryCallExecuted`, `ForwardEnds`), which is out of the
prover's reach; the tree of a session (`SafeTypeOK`, `SearchTrees`,
`SafeMapSpec`), whose merge is a recursive operator and whose data pointers, unlike those
of `OBtree`, are not the keys themselves; and the disagreements above.

## 5. Observations without a run of their own

* `MMyISAM::get` in a session reads the session's value file also for a record that
  lies in the normal one (`MMyISAM.cpp:111`).
* `SafeIndexManager::find` dereferences a null pointer for a key the session does
  not have (`safe_index_manager.cpp:89`); the model has this step.
* `safeAbortExit` closes all sessions, not only its own (`MMyISAM.cpp:263`).
* With `deallocate`, which nothing calls, unlinking the head of a list can drop a block
  that is still allocated (`overlay_memory_allocator.cpp:481`), and a control block
  taken off the unused list is linked in again (`meta_block.cpp:210`).
* `add` and `remove` of the UTXO set send no registry index, so in virtual mode they
  change the real set and close the session (`utxo_set.cpp:249`), although
  `utxo_set.h:51` says the mode does not affect it.
* A session's file is formatted a second time (`MMyISAM.cpp:187`), so its first node is
  at address 0. A commit copies that node over the head of the normal index file
  (`sessions_restart`); a new root's address is written into bytes 14 to 18 of that
  node's first key (`safe_o_node.cpp:487`), after which add and remove no longer find
  the key, though find, which compares five bytes, does. The reservation that was to
  keep the addresses of the two files apart (`safe_index_manager.cpp:40`) is lost as
  well; the sizes keep them apart.
* The removal of a key in a session moves the data pointers behind it and leaves their
  flags (`session_flags`). A commit then leaves the record in the session's file, or
  takes one from there that is not the key's.
* Address 0 is also what `SafeONode` compares a parent with to find out whether a node
  is the root (`safe_o_node.cpp:477`, `585`, `721`). Additions write a leaf first, which
  has no children. A removal of a key of an inner node writes that node first
  (`safe_o_node.cpp:566`), and so does a merge under several keys (`680`, `695`): it
  gets address 0 and its children are taken for the root. A leaf may then be left
  without keys, and a split of one of them makes a new root, from which the rest of the
  tree is not reached. `SafeRemoveSpec` has this behaviour, with nodes of 2 keys: normal
  additions of 2, 4 and 6, then in a session the removal of 4 and the additions of 4
  and 8, after which the session no longer finds 2.
* A merge with the right brother in a session is given the parent's item set
  (`safe_o_node.cpp:701`, `736`, `867`), so it overwrites the brother's data pointers
  with the parent's, and the array's end if the parent is full; under several keys the
  new pointer is not counted (`702`). In `SafeRemoveSpec` it violates `SearchTrees` and
  `SafeTypeOK`.
* A root that was split in a session is committed to a new address, and its old node
  is never used again.
* `VirtualHeaderSyncManager::start` loops while its status is FINISHED
  (`virtual_header_sync_manager.cpp:172`), although line 102 says the flag is set to
  end it. Once a subchain has stopped, `start` never returns: a fork, or a header that
  comes twice, hangs `forward`, and `backward` succeeds only if the set happens to be
  cleared and the flag not yet set when the builder looks.
* A subchain built for a duplicate has its own last header as stop hash and is stopped
  at once; it may not be connected to the fork point (`Connected` excludes it).
* `isHead` compares the hash cached when the iterator was made, which `--` does not
  change (`block_chain_iterator.cpp:115`), so it is never true.
* `forward` sets FAILED without returning and goes on with an empty chain to
  BLOCK_SYNC_MANAGER_DONE (`chain_sync_manager.cpp:67`); `backward` loops until it has
  succeeded *and* lowered the fork point often enough (line 118).
* BLOCK_SYNC_MANAGER_WORKING is never set, so every block that arrives is dropped
  (`chain_sync_manager.cpp:173`); `VirtualBlockSyncManager::start` returns true also
  after a failed download (`virtual_block_sync_manager.cpp:254`).
* One downloaded header is not enough for `forward`, whose comment counts the start
  header, which is never in the exported chain (`chain_sync_manager.cpp:59`).
* Removing the head of a bucket of the transaction pool empties the bucket
  (`txcb_bucket.cpp:114`); `RemoveIsLocal` says so and that nothing else goes.
* `writeBlock` names file 0 in every index entry (`local_strage_manager.cpp:125`), so
  after a rotation a block is read from the wrong file; `IndexedIsWritten` claims that
  a read gives the block back when the entry's file is the one it is in.
* A merge of leaves under a node with several keys leaves the data pointer of the key
  that moves down in the parent, and does not count it in a right brother
  (`o_node.cpp:949`, `o_node.cpp:968`): later keys get the data of others.
* `recursiveMerge` dereferences a null pointer when it takes a key from the left
  (`o_node.cpp:1090`), and in its last case sets the parent of the wrong child
  (`o_node.cpp:1167`).
* `OBtree::remove` does not write a new root to the head of the file
  (`btree.cpp:155`). The old root has then no keys and one child, and a search from
  it gives the same answers (`RestartFinds`).
* `find` compares five bytes of a key, `add` and `remove` twenty (`o_node.cpp:1238`).
* `migrateToSafeMode` has no return statement on its way out.
* `freeBlockSize` and the arithmetic of `optr` are wrong for addresses from 2^24 on.

## 6. Not modelled

* The encoding of transactions, blocks, messages and queries; ciphers and hashes;
  overlay pointers as bytes: conversions without state of their own.
* `deallocate` of the allocator and the timed variants of the stream buffer, which
  nothing calls; the mempool, likewise.
* The commit of a session as separate writes: the files are written through mappings
  that have no order between them.
* The peer-to-peer layers. In `ekp2p`, which is not built, `KBucket::autoAdd` locks a
  mutex it already holds (`k_bucket.cpp:74`), so no node ever enters the table.
* The daemons; `chain_manager.cpp`, `IBD.cpp`, core, mining manager and control
  interface, whose bodies are empty or print; the third-party JSON library.

Each is a component of `PROJECT.json`, or part of one, with its reason.

## 7. Plan

1. Overlay pointer arithmetic and free block sizes against plain addition.
2. `SafeOBtree` with a recursive function for the merge of a commit, and its invariants
   proved with the forests of `OBtreeProofs`: one for the normal tree, one for the
   session's, with the copies among the live nodes.
