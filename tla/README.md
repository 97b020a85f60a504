# VeriBetrKV: a TLA+ model of the store

VeriBetrKV is a key-value store written in Dafny (`src/veribetrkv-linear`): a B-epsilon tree of
buffered messages kept in copy-on-write blocks, and a journal that makes recent insertions
durable without writing the tree. Its promise (`MapSpec/ThreeStateVersioned.s.dfy`): after a
crash the map is some version no older than the last successful sync. This directory models the
three parts of the program that keep that promise (the journal, the block cache and the tree),
checks them with TLC on small instances and proves with TLAPS, for every size, their safety, their
refinement of the abstract versions, the durability of syncs, and that the abstract versions together
are a crash-safe map. Dafny proves refinement of hand-written transition systems
by two-state invariants; what is added here is a model translated from the *implementation*'s
methods, properties over whole behaviours (atomicity of commits, stability of committed blocks,
durability of syncs in terms of insertions), what the implementation promises beyond its abstract
machine (no read is answered in vain, no block leaks, the flush policy never chooses what cannot be
done), and liveness, which Dafny does not state at all.

Paths below are relative to `src/veribetrkv-linear`. (`src/veribetrkv-dynamic-frames` is the
older baseline of the same system, and `clean-files`, `error-files`, `formalization` and `scripts`
belong to the paper's experiments; none of them is modelled.)

## 1. Inventory

| Component | State it keeps | Operations | Hard parts |
|---|---|---|---|
| **Committer** `Impl/CommitterImpl` (model `BlockCacheSystem/JournalCache`) | status, two superblock reads, current superblock and slot, frozen location/flag/position, commit being written, journal writes in flight, sync requests | load superblocks, load journal, replay, append, freeze, write journal, write superblock (log or location), acknowledgements, push/pop sync | crash at any moment, commits racing freezes and new syncs, ring wrap-around, counter wrap-around |
| **Journalist** `Impl/JournalistImpl` | circular array of entries (frozen, then in-memory), their weights, written length, the two halves read | canAppend, append, freeze, package, parse, replay | room in the ring counted three ways; the array doubles while it wraps |
| **Journal encoding** `Impl/JournalistMarshalling*`, `JournalistParsing*`, `BlockCacheSystem/JournalRange` | none | chunk of entries to blocks and back | entries straddle blocks; a chunk is readable only as a whole |
| **Layout, intervals, superblock** `DiskLayout`, `JournalInterval`, `SectorType` | none | cyclic intervals, splice, split at the end of the region | off-by-one at the end of the region |
| **Journal disk** `BlockCacheSystem/JournalDisk`, `ByteBlockCacheSystem/AsyncDiskModel` | sectors, ring, requests in flight | read, write, acknowledge, process, crash | torn journal writes, failed reads, superblock write that takes effect unheard |
| **Journal system and JournalView** `BlockCacheSystem/JournalSystem*`, `Versions/JournalView` | abstraction of the above: j1, j2, j3, gamma, delta | the three versions of the journal | the mapping changes between a commit's effect and its acknowledgement |
| **Coordination** `Impl/CoordinationImpl`, `MainHandlers`, `Handle*ResponseImpl` | none of its own | initialization, doSync, insert, query, succ, push/popSync, responses | which call is made in which state; calls into committer *and* block cache in one handler |
| **Run loop** `framework/Framework.cpp` | queues of disk tasks | retry loops around the handlers, `waitForOne` | waiting with nothing to wait for; giving up after 500000 rounds |
| **Mkfs** `Impl/Mkfs` | — | initial disk | two equal superblocks |
| **Block cache** `BlockCacheSystem/BlockCache,BlockDisk,BlockSystem`; `Impl/SyncImpl,IOImpl,DeallocImpl,EvictImpl,BookkeepingImpl` | ephemeral/frozen/persistent indirection tables, cache, reads and writes in flight | page in, dirty, alloc, dealloc, evict, write back, freeze, write back table, clean up | blocks and cached nodes shared by three versions, writes in flight across freeze and commit, reads racing changes |
| **Indirection table, allocator** `Impl/IndirectionTable`, `BlockAllocatorImpl` | ref -> location, successors, predecessor count; garbage queue, search iterator; five bitmaps | add and remove locations and references, find garbage, find a node to write, clone, load; alloc, free, freeze, commit | a block free in one bitmap and used in another; a count or an iterator out of step |
| **Composition** `Versions/CompositeView`, `BetreeJournalSystem` | StatesView and JournalView together | the map the client sees | replay over the right version |
| **B-epsilon tree** `Betree`, `PivotBetree`, `Impl/{Flush,Grow,Split,Leaf,Insert,Query,Succ,FlushPolicy}Impl` | nodes with buffers and pivots | insert, flush, grow, split, repivot, query, succ, flush policy | messages never overtake each other; the policy chooses what a check of bounds then refuses |
| **Buckets, containers, marshalling, checksums, base** `lib/*` | sequential data | — | pure data |

What makes each part correct:

* *Committer and its disk*: the committed journal can always be read; no write in flight touches
  it; a commit is atomic; a sync that returns is durable; a location commit drops exactly the
  journal its table contains; every wait ends; recovery ends.
* *Journalist*: the ring never holds more than it has; the two queues are FIFO through wrap-around
  and doubling.
* *Block cache, allocator*: no block of any version is overwritten, none is leaked; a version is
  whole on disk before its location is reported, and is the version that was frozen; a node is on
  disk or in the cache; a read that succeeds is taken; a crash at any moment leaves a whole tree.
* *Indirection table*: counts, garbage queue and search iterator agree with the tree at all times.
* *Composition*: the three versions of the map agree with table plus journal.
* *Tree*: an insert writes the map and no other operation changes it; range queries answer for the
  whole range they claim; making room for an insertion always makes progress.

How they interact: a client call (`Framework.cpp`) first handles every disk response there is,
then calls a handler of `CoordinationImpl`, which calls the committer, the block cache, or both,
and makes at most one disk request (two for a journal write that wraps). The committer tells the
block cache the location of the table (`SendPersistentLoc`), the block cache tells the committer
when it froze its table (`freeze`), where it stored it (`receiveFrozenLoc`) and hears of the
commit (`cleanUp`); inserts and replays advance both in one step.

## 2. Plan

1. **Journal core** (done): `JournalBlocks`, `JournalDisk`, `Committer`,
   `JournalSystem`, checked and proved; `JournalView` and the refinement; durability; liveness.
2. **Journalist** (done): `JournalQueues`, and the circular array of entries as a module
   `Journalist` that refines them; proof of its indices, its bound and the refinement for every
   capacity.
3. **Block cache** (done): `BlockAllocator`, `IndirectionTable`, `BlockDisk`, `BlockCache`,
   `BlockSystem`, and that they implement `StatesView`: checked and proved.
4. **B-epsilon tree** (done): `BetreeNode`, `Betree` with the indirection table's counts in
   `RefCountTable`, implementing `MapSpec`: checked and proved.
5. **Composition** (done): `CompositeView` of `JournalView` and `StatesView`, implementing
   `ThreeStateVersioned`: checked and proved.
6. **Contents of the journal** (done): the fold that reads a run of blocks and the fold that weighs
   a queue reasoned about by induction (`JournalBlocksProofs`); with them `PersistentJournalReadable`,
   `JournalFits` and the whole refinement of `JournalView`, and with that the
   durability of syncs (`JournalSystemProofs`).
7. **Data of the tree** (done): recursive functions and folds reasoned about by induction
   (`IterationProofs`); the counts of the indirection table for every number of references
   (`BetreeProofs`); the tree as a map, the progress of its policy and its range
   queries for every tree (`BetreeMapProofs`).
8. **Still worth doing**: the system of committer and block cache in one module
   (`BetreeJournalSystem`), where each would take the other's place as environment.

## 3. Modules

| Module | Models | Correspondence |
|---|---|---|
| `Maps` | Dafny's map update and removal | written so that the provers can expand them |
| `SyncStatus` | `SyncReqStatus`, loops `SyncReqs2to1`, `SyncReqs3to2` | functions on the map id -> status |
| `JournalBlocks` | `JournalInterval`, `JournalRange`, encoding | block = (entries of its chunk, index, length of chunk); `Parses` = whole chunks in sequence; `None` = bad checksum |
| `JournalDisk` | `JournalDisk` | as in the source: a journal write takes effect at once and can be torn by a crash until acknowledged; a superblock write takes effect at a moment of its own |
| `JournalQueues` | `JournalInfo` and the postconditions of `JournalistImpl` | the abstract specification of the journalist: two queues, and what was marshalled last |
| `Journalist` | `JournalistImpl` | the circular array, `start`, `len1`, `len2`, the three counters; one action per method that changes them; `packaged` is the entries `MarshallJournalEntries` is given |
| `Committer` | `CommitterImpl` with sizes and queues of `JournalistImpl` | one action per method, guard = conditions of the method and of the callers in `CoordinationImpl` |
| `JournalSystem` | `JournalSystem` | Next, crash, safety and action properties |
| `JournalSystemInvariant` | — | the inductive invariants: `IInv` of counters, requests and superblocks, `ContentsInv` of entries and chunks |
| `JournalView` | `Versions/JournalView` | the abstract specification |
| `JournalSystemRefinesJournalView` | `JournalSystem_Refines_JournalView` | the refinement mapping |
| `JournalDurability` | — | history variables that count insertions, and their inductive invariant |
| `JournalLiveness` | loops of `Framework.cpp` | fairness and liveness |
| `BlockAllocator` | `BlockAllocatorImpl`, `BitmapImpl` | a bitmap is the set of its 1 bits; one operator per method |
| `IndirectionTable` | `Impl/IndirectionTable`, as the block cache uses it | locations and successors; garbage and nodes without location by definition instead of by queue and iterator |
| `BlockDisk` | `BlockCacheSystem/BlockDisk` | as in the source: a write takes effect when requested, a crash may spoil it until it is acknowledged |
| `BlockCache` | `StateBCImpl`, `SyncImpl`, `IOImpl`, `DeallocImpl`, `EvictImpl`, `BookkeepingImpl`, and what the operations of the tree do to it | the fields of `Variables`, one action per handler; an *edit* is the part of the state that bookkeeping rewrites, passed through the calls an operation makes |
| `BlockSystem` | `BlockSystem`, calls of `CoordinationImpl`, `Handle*ResponseImpl` | Next, crash, safety and action properties; of the committer only the commit of a frozen table |
| `BlockSystemInvariant` | — | the inductive invariant |
| `StatesView` | `Versions/StatesView` | the abstract specification of the block cache |
| `BlockSystemRefinesStatesView` | `BlockSystem`'s and `BlockSystem_Refines_StatesView`'s mapping | the refinement mapping: a version is its graph of nodes |
| `RefCountTable` | `Impl/IndirectionTable`, `LinearUSeq` | entries with predecessor counts, garbage queue, search iterator; `PredInc`, `PredDec` edge by edge |
| `BetreeNode` | `NodeImpl`, `PivotBetreeSpec`, `lib/Buckets` | pivots and buckets; 0 is the empty key, `NumKeys` the `Max_Element` |
| `Betree` | `InsertImpl`, `GrowImpl`, `FlushImpl`, `SplitImpl`, `LeafImpl`, `DeallocImpl`, `FlushPolicyImpl`, `QueryImpl`, `SuccImpl` | one action per operation, the policy as a function of the tree, queries as functions of the state |
| `MapSpec` | `MapSpec/MapSpec` | the abstract specification of the tree |
| `CompositeView` | `Versions/CompositeView`, `Versions/VOp`, and the mappings of `CompositeView_Refines_TSJMap` and `TSJMap_Refines_ThreeStateVersionedMap` | `StatesView` and `JournalView` side by side, one action per label of `VOp` (two for `AdvanceOp`: an insertion, a replay); a journal is applied to a map by `ApplySeq` |
| `ThreeStateVersioned` | `MapSpec/ThreeStateVersioned` | the abstract specification of the store: a map in three versions |
| `IterationProofs` | — | induction over naturals and over finite sets; recursive functions and the folds of the community modules |
| `JournalBlocksProofs` | — | lemmas about the operators of `JournalBlocks`: chunks, weights, intervals |
| `JournalSystemProofs`, `JournalistProofs`, `BlockSystemProofs`, `BetreeProofs`, `BetreeMapProofs`, `CompositeViewProofs` | — | lemmas and theorems |
| `MC*` | — | instances for TLC |

Abstractions in `Committer` and `JournalDisk`, each of which keeps the control:

* Fields that `Committer.I()` ignores in a status (e.g. `superblock1` once loading is over) have
  their initial value while it lasts; the code leaves stale values there that nothing reads.
* A request of a superblock has no id: each slot has one outstanding request at most and the
  response's location tells the slot. Ids of journal requests come from `ReqId` and may be given
  again after their acknowledgement, except one whose lost answer is still recorded in
  `journalRead`; real ids are never used twice.
* `JournalistImpl`'s array is two sequences here (`Journalist` has the array); its limit on the *number* of entries is left out, its
  limit on their *bytes* (with the 8-byte header of a chunk as `HeaderWeight`) is exact. Bytes are
  scaled: a block has `BlockCapacity`, an entry `EntryWeight[e]`.
* A crash leaves each block of an unacknowledged journal write intact or unreadable. The source
  allows arbitrary contents; contents that pass the checksum yet were never written are excluded,
  as they are by the assumption on checksums in `AsyncDiskModel`.
* A read of a superblock or the journal may fail its checksum (`ReadFaults`): the code treats the
  superblock as corrupt for good and drops the journal's answer.
* The block cache may freeze whenever `doSync` would call it with `graphSync`, may report any
  location other than the committed one, and never refuses an append or replay for good.
* Superblock counters are modulo `CounterModulus` (2^64 in the code), positions in a ring of
  `NumJournalBlocks` (65536).

In `Journalist`, the replay journal and the parts of the journal read at a start are left to
`Committer`: they are not in the array. Its actions are enabled whenever the preconditions of the
methods hold, which is more than the committer does (it never freezes twice before it has written
the frozen entries out); the properties hold all the same. `append` doubles the array without a check of
its own, as in the code.

The block cache and the tree are two models of the same operations, because the product is too large
to check: `BlockCache` knows which nodes are in memory, where the others are and what is in flight,
and abstracts what is in a node; `Betree` knows what is in a node and abstracts where it is. In
`BlockCache`:

* A node is its children and a value. Rewriting a node gives it another value, so two versions of a
  reference can be told apart; a copy has the value of what it copies.
* The operations are those of the source with the guards that concern the cache (`RoomFor`,
  `CanDirty`, free references) and the structure (`Overflows`: a leaf, or a node with
  `MaxNumChildren` children, is what the policy splits). Which slot the policy goes down is open.
* Any cached node may be the next to be evicted: the order of the LRU list is left out. Which of
  several nodes is written or deallocated first is open too.
* An indirection table is at one of two locations, a node in one block; the journal's superblock is
  `superblockLocs`, the locations a recovery may find, two of them while a superblock is in flight.
* A crash leaves a location that is being written with its new contents or none that can be read;
  as in the journal, wrong contents with a right checksum are excluded. A read may fail (`ReadFaults`).
* Left out: the limit on the size of an indirection table, at which an insertion is refused
  (`InsertImpl.i.dfy:96`).

In `Betree`: all messages define a value (as all that `insert` makes do), a message weighs 1, so the
capacity of a node is `MaxTotalBucketWeight` messages, and a flush moves any non-empty prefix of the
slot that fits, which covers what weights of the code decide. The 40 levels that the policy and
the queries go down (`FlushPolicyImpl.i.dfy`, `QueryImpl.i.dfy`, `SuccImpl.i.dfy`) are `MaxLevels`.
`Freeze`, `WriteFrozenNode`,
`WriteFrozenTable` and `Recover` are there for the three copies of the indirection table; what they
do to blocks is in `BlockCache`. A hash map is iterated in the order of the references.

Definitions commented "A mistake" are not part of any specification: each is a plausible wrong
version of the definition that follows it, kept to show that a property notices it.

## 4. Runs

| Run | Checks | Instance and why it is enough |
|---|---|---|
| `journal_safety` | type invariant, inductive invariant, eight safety invariants (`JournalFits` among them), two action properties | 3 blocks, so that an interval can wrap with a free block left and a write can be split; blocks of 2 with a header and entries of 1, so that chunks fill a block or leave half of one empty; 3 requests: a wrapped write and another one; counter modulo 3, the least that is correct, so it wraps at once; failed reads |
| `journalist` | `JournalistInv`, `CapacityBounded`, `RefinesJournalQueues` | the array starts with one position and doubles up to three times, with light and heavy entries, 2 blocks of 3 bytes; every offset of both queues and every wrap-around occurs |
| `refinement` | `RefinesJournalView` | two distinct entries, 2 blocks: order, loss and duplication are visible |
| `durability` | the inductive invariant `DurabilityInv`; `SyncDurable`, `RecoversOnlyInserted`, `CommittedNeverLost` | up to 3 insertions counted (`MaxInserts`), 2 syncs at once, so that one is pushed before and one after a freeze |
| `liveness_graph_sync` | `SyncCompletes`, `RecoveryCompletes`, `JournalRoomReturns` | clients pass graphSync; no symmetry or view, which liveness does not allow |
| `liveness_any_sync` | `WrittenSyncCompletes` | clients pass either |
| `log_sync_never_completes` | violation of `SyncCompletes` | clients pass graphSync = FALSE only |
| `block_cache` | `TypeOK`, `AllocatorExact`, `RecoverableIntact`, `NothingLost`, `AnswersAccepted`, `RequestsMatch`, `LiveBlocksStable`, `ImplementsStatesView` | three node blocks and four references: a root and two or three other nodes, so a node can be shared by versions, replaced and deallocated; two requests at once, so a write races a read, another write or the table; up to three children, so every operation of the tree happens; failed reads; two values |
| `indirection_table` | `CountsExact`, `QueueExact`, `SearchSkipsNone` | seven references and nodes of two children: inner nodes are split and die while their children are shared, and versions are frozen, half written, given up by a crash and recovered |
| `betree` | `TypeOK`, `PolicyMakesProgress`, `QueriesAnswered`, `ImplementsMap` | three keys, two values, nodes of two messages and three children; queries and the policy go down three levels and the tree can be deeper; splits of leaves and of inner nodes, flushes that move a part |
| `composite` | `CrashSafe` | one key with three values, so that an insertion that is lost, repeated or overtaken shows; two locations, one of a version that is committed unheard; up to three entries not in the persistent map (`MaxJournal`), so that each of the five journals holds some while another does; one sync |
| `failed_read` | violation of `OutstandingReadsAnswered` | two references, failed reads |

The state space of every run is finite without a constraint: the ring bounds the entries, `ReqId`
the requests, `MaxSyncId`/`MaxSyncReqs` the sync requests; only `MaxInserts` and `MaxJournal` are
bounds the code does not have (the ring bounds the journal, but not in these numbers). Deadlock is checked everywhere but in `betree`. Request ids and table locations are interchangeable
(SYMMETRY) in the safety runs. The VIEW of those of the journal drops what the ring holds outside the committed and the
written journal: no action reads it before overwriting it (`ReadsInsidePersistent`, itself proved
for the full state), so states that differ only there have the same future. In `block_cache` the VIEW
drops the contents of blocks and tables no version holds and no request is writing: that nothing reads them is what
`AnswersAccepted` and `RecoverableIntact` say, which are proved for the full state. The references
are not symmetric (free ones are given out in order). References run out there after the tree has grown
a few times, and after a crash they start again from what the table on disk holds. In `betree` the VIEW is the
tree without the names of its nodes and without nodes waiting to be deallocated, with the number of
references used: no operation chosen by the policy depends on the rest. There alone the system may
stop, when references run out (2^64 in the code), so deadlock is not checked in that run. `indirection_table`
has no VIEW. `Flush` needs a node with fewer than `MaxNumChildren` children below the root and so
happens only in `betree` and `block_cache`.

**What the violation runs show.** *log_sync_never_completes:* `Application::Sync(false)` with nothing in memory: the request
starts in State3, `tryAdvanceLog` finds nothing to write and writes a superblock at once, and only
the writing of in-memory entries or a freeze moves State3 to State2. The request never completes,
one superblock is written per round, and `Sync` ends in `fail("Sync operation didn't finish")`.
`ThreeStateVersioned.s.dfy:15` says State3 means some data the request covers is still ephemeral;
here none is. With `graphSync` (what most callers pass) or with an entry in memory it completes,
which is what the two liveness runs show.

*failed_read:* `PageInNodeResp` removes a request from `outstandingBlockReads` only when it takes the
node. After a read that failed, `PageInNodeReq` refuses to read the node again ("already an
outstanding read for this ref") and the entry takes a place in the cache until a restart; a failed
read of the indirection table does the same to `indirectionTableRead`, and loading never ends. The
comment at `IOImpl.i.dfy:441` knows of it. `AnswersAccepted` shows the damage has a limit: such a
reference is never one that has to be deallocated.

## 5. Fairness

`Framework.cpp` runs a single thread. Every call loops over "handle all responses, call the handler
again" until it succeeds, so: loading goes on while a client wants anything (weak fairness of
`Initialization`); `doSync` is called while some sync request is outstanding or an insertion finds
no room (weak fairness of `Commit /\ ClientCallsDoSync`: the disjuncts of `Commit` exclude each
other by their guards except that clients may differ in `graphSync`); a request in State1 is popped
by its caller; every disk request completes and its response is handled. Of the block cache it is
assumed that a frozen table is eventually stored. No fairness of crashes, appends or new requests is
assumed; `RecoveryCompletes` is conditional on crashes stopping. Liveness is stated without failed
reads, because the code never asks again for what it failed to read (a hazard recorded in
`PROJECT.json`). No liveness is stated of the block cache: by the same omission, and because a full
device or a root evicted from a full cache makes an operation give up with nothing that makes room
for it, none holds without assumptions on the disk and the cache that the code does not enforce.
What is checked instead is that each step that might be retried for ever can be done
(`PolicyMakesProgress`), a safety property.

## 6. Proofs

`JournalSystemProofs` proves, for every ring size, capacity, entry set and weights, number of
requests and syncs, and every counter modulus of at least 3:

* `Invariance`: `Spec => []IInv`, and from it `TypeCorrect`, `InFlightSafe`, `ReadsSafe`,
  `SuperblockSpared`, `CommitterKnows`, `WaitingIsForSomething`, `CommitsMatchFreeze`;
* `CommitsAreAtomic` and `CommittedStable`: the two action properties, also from `IInv`.

Assumptions: those named in `JournalBlocks`, `JournalDisk` and `Committer`. An entry with its
header fits a block (true of 4064-byte blocks and keys and values of at most 1024 bytes), `None` and
`Corruption` are distinct from values, and the counter has at least three values: with two, each
superblock would be newer than the other. The proofs about the contents of the journal use the same
assumptions; the counting of insertions adds that `MaxInserts` is a natural number.

`JournalistProofs` proves, for every capacity, region and weights: `JournalistInvariance`
(`Spec => []JournalistInv`), `IndicesInRange`, `CapacityStaysBounded` and `ArrayImplementsQueues`
(`Spec => RefinesJournalQueues`: the whole refinement, step by step). It assumes that
`MaxPossibleEntries` entries of the least weight fill the region (`EntriesAssumption`: 65536 blocks of
4064 bytes are less than 32 * 2^20 entries of 8 bytes). `CapacityBounded` is not inductive: the array doubles
with no check, and only `JournalistInv` (entries weigh at least `MinEntryWeight`, and the frozen ones no
more than the blocks reserved for them) shows that a full array is less than `MaxPossibleEntries` long.
The refinement rests on two lemmas about slices of the array: slices that follow each other
concatenate (`SliceConcat`, for a freeze), and an append, whether it doubles the array or not, leaves
every entry at its distance from `start` (`AppendEntryAt`).

Why the invariant of the journal system needs its parts. `InFlightOutsidePersistent` is not inductive: what recovery would
choose can change at every superblock write's effect. `CommitInv` pins what such a write contains and
that no journal write is in flight with it; `IdleInv` and `SuperblockReadInv` tie the committer's
superblock to the disk when there is none; `SizeInv` says the committed journal is a prefix of the
written one and what is still to be written fits behind it without reaching round to its start,
which is what makes a new write miss it (`AppendedOutside`, `WriteOutJournalSparesPersistent`);
`LoadingInv` covers the time before that and crashes; `JournalReadInv` keeps reads inside.
`SizeInv` has the rounding lemma `BlocksForFits` under it: bytes that fit the region also fit it
when rounded up to blocks. Each action has a lemma of its own, with one step per conjunct it can
disturb; lemmas about blocks are in `JournalBlocksProofs`.

`IterationProofs` holds what the proofs about data rest on. What a fold or a recursive function
computes has to be shown by induction. The induction theorems of the library take an operator as a
parameter, which the provers cannot instantiate; `Induction` is stated over *sets* instead (a set of
naturals that has 0, and n + 1 with n, has every natural up to a bound), and follows from `LeastNumber`, which is
proved from the library's theorem that the order of the naturals is well founded. A recursive
function, and so each fold of the community modules, is a `CHOOSE`: `IterationExists` and
`IterationUnique` say that a function with the recursive equation exists and that only one does, and so the
`CHOOSE` has the equation.

Like the facts about chunks, weights and journals below, these are lemmas about operators alone, true
whatever the system does. They serve the theorems about the specifications; of facts about operators `PROJECT.json` lists only
`SelectNewer`, which is about the code's own choice between two superblocks.

`JournalBlocksProofs` holds what the other proofs of the journal need of its data: the entries a run
of blocks holds (`ParsedEntries`, with `FlattenSeq`) and what a queue weighs
(`WeightJournalEntries`, with `FoldLeft`). `FlattenConcat` (the chunks of two runs, one after the other,
flatten to their concatenation), `ParsesConcat` (two runs of whole chunks are a run of whole chunks),
`ParsedConcat` (and hold the entries of one, then of the other), `WeightConcat` (two queues joined take no
more bytes than the two by themselves, which is the half the counters need), and `RangeConcat`, `RangeOfSplice` and `RangeUnchanged` (what is read
back from the ring after a write that may wrap, inside it, outside it, and across both).

`JournalSystemProofs` goes on with `ContentsInvariance` (`Spec => []ContentsInv`) and from it, for every size
and all weights, `JournalAlwaysReadable` (`PersistentJournalReadable`), `JournalAlwaysFits` (`JournalFits`) and
`JournalSystemImplementsView` (`Spec => RefinesJournalView`: the whole refinement). That the committed
journal is readable is not inductive: a location commit drops a part of the front, a log commit adds a part at the
back, and either may cut a chunk in two. `ContentsInv` says where it may be cut: what is committed,
what a freeze makes obsolete and what has been written since are each whole chunks (`ChunksInv`);
entries that are frozen but not written are the next to be written, and no superblock is sent before
they are (`EntriesInv`), so that the frozen position never lies inside a chunk; what has been read is
what is on disk, each half in its place (`LoadedInv`). A journal write extends the runs it follows by
one whole chunk and leaves what it does not follow (`WriteOutJournalExtends`,
`WriteOutJournalKeepsRanges`); a crash tears only blocks outside the persistent
journal, which is where `InFlightOutsidePersistent` comes back in.

The refinement has one lemma per action, named for it (`...Refines`, or `...Stutters`). The mapping
looks at the disk: what is persistent is what recovery would choose, whether the committer has heard of it or not.
A superblock taking effect is therefore the abstract commit (`DiskInternal`), and its acknowledgement
is at most the abstract `CleanUp` of the frozen table, although it changes most variables of the
committer: what the mapping must then show is the same three journals, cut at different places, which is `ReadableConcat` and `IntervalsConcat`. Writing the
journal moves entries from memory to disk, from the delta to the gamma journal or within gamma.
`ReadyShows` and `LoadingShows` give the mapping in the two halves of the life of a committer.

Its last part proves `SyncsAreDurable`, `NothingInvented` and `NothingCommittedLost` of
`HSpec`, the system with the insertions counted. The inductive invariant is `DurabilityInv`: `IInv`,
`ContentsInv`, and `HistoryInv`, which says that table and journals together count each insertion
once, that the frozen table and what has been inserted since do as well, and that each request is in the state that says
where what it covers is (`CoveredInv`). The proof works on the journals the refinement shows, not on the variables of the committer: the
lemmas of the refinement say how each action changes them, and what is left is arithmetic of
lengths (`HistoryCounts`).

`BlockSystemProofs` proves, for every number of blocks, references, requests, values and children and
every size of the cache: `BlockSystemInvariance` (`Spec => []SInv`), and from it `TypeCorrect`,
`AllocatorIsExact`, `RequestsAgree`, `RecoverableAlwaysIntact`, `NothingIsLost` and, as an action
property, `LiveBlocksKept`. None of these is inductive alone; the argument goes in a circle that
`SInv` closes:

* a block is handed out only if `full` lacks it, which is safe only if the bitmaps are exact;
* they are exact only if locations are never shared or lost: each operation frees the old block of
  what it rewrites (`TablesInv`: every table is well formed and intact on disk);
* a location is not shared only if new references are new: `CacheInv` has every reference below
  `refUpperBound`;
* a version on disk is whole only if the one copy of a node in the cache is still that version's:
  `FrozenInv`, which `CanDirty` keeps;
* a write in flight is that of one cached node, or of none any more (`WriteInv`), so its
  acknowledgement frees nothing that is in use and no read overtakes it (`ReadInv`);
* the frozen table is written when its nodes are, and the committer is where the table is (`SaveInv`,
  `RequestsMatch`), so that what a crash leaves is whole (`LoadInv` starts again from that).

The operations of the tree are sequences of bookkeeping steps, between which `SInv` does not hold (a
new node has no predecessor yet, a table may point to what is not there). `EditOK` is the invariant
of an edit: `WriteNode`, `RewriteNode` and `RemoveNode` keep it (`WriteNodeOK`, `RewriteNodeOK`,
`RemoveNodeOK`), the tree as it is has it (`TreeOK`), and committing an edit that has it keeps `SInv`
(`CommitKeepsSInv`); each operation is then a few lines. Every other handler has a lemma with one
step per conjunct it can disturb.

Its second part proves `AnswersAreAccepted`. That a read which succeeds is taken follows from
`ReadInv`; that its node never becomes garbage does not, because a flush or a split takes a node out
of the tree whose children stay. `ReachInv` says that what is being read is reachable from the root,
and `GraftKeepsReachable` that replacing a child by copies that together have its children keeps
everything else reachable; reachability is by closed sets, not by paths, so that no induction over
data is needed. The nodes that leave the tree are cached ones, the nodes being read are not.

Its third part proves `CacheImplementsStatesView`, the whole refinement step by step. The
mapping looks a node up where the code would find it, at its location or in the cache. `SInv` says
that the two agree wherever both exist, so writing a node back, evicting it, reading it or freezing
the table changes no version (`FrozenGraphKept`, `EphemeralGraphKept`, `QuietStep`). An operation of
the tree changes one: the bookkeeping steps it consists of put a node into the graph or take one out (`WriteNodePuts`,
`RewriteNodePuts`, `RemoveNodeTakesOut`), and what remains of them at the end is a `TreeStep`. A step
of the disk may change versions nobody knows of but spares the persistent and the frozen one
(`SparingStep`, `KnownWhole`); a crash leaves the persistent one. `UnreadyInv` is what has to be added
to `SInv`: after a crash no location is known before the journal has told it.

Assumptions: `LayoutAssumption`, `MaxRefAssumption`, `CacheAssumption`, that `None` and `Garbage`
are different from what they stand in for, and `NoneIsNoGraph`, the same for the refinement. Not
assumed: that the sets of requests or values are finite or not empty.

The first part of `BetreeProofs` says of each operator of the indirection table what it keeps. A table is `Exact`
when its counts are those of its graph and its queue is the references without predecessors, each
once; it is `Searched` when everything before its iterator has a location. `PredInc` and `PredDec` go over the old and
new children one edge at a time, so between two edges the counts are those of neither graph:
the lemmas say of each partial sum how far it is, by induction over the number of edges, with
multiplicity, because a node may have the same child twice. That a queue
holds nothing twice and that its length stays bounded by the references come with it.

`BetreeProofs` then proves, for every number of references and keys, every value set, every number of
children, every capacity and every number of levels: `Invariance` (`Spec => []IInv`), and from it
`TypeCorrect`, `CountsCorrect`, `QueueCorrect` and `SearchCorrect`. `IInv` says
that each of the three versions is a tree of well formed nodes whose table has its graph, that the
ephemeral table is `Exact` and the frozen one `Searched`. The
second part of the module is about nodes: `WFNode` survives inserting, cutting at two bounds,
splitting in two, merging what is flushed, and repivoting, whatever the pivots and buckets; the
third is about the graph, where each operation is one of few changes (`Put` of a new node whose children are in the
tree, `Put` of other children over old ones, `Without` something nothing refers to).

`BetreeMapProofs` proves that this tree is a map. What a search finds is defined for any version (`ValueOn`): the value of the
recursive query with one step more than there are references, which `Acyclic` (a rank that
decreases from a node to its children, so that no way down is longer) makes independent of the number
of steps (`ValueStep`). `MapInv` adds to `IInv` that every version is `Good`: acyclic and `Searchable`,
which is that every child `Fits` its slot, so that no search is refused on its way. A child need not have the bounds of its slot: a leaf that was
repivoted takes the whole range of keys, whichever slot points to it, and is cut back only when it is split. `Fits` says what is left then: the new
pivot lies within the slot. The step from one tree
to the next is one lemma about *one changed node* (`ValueOfChanged`): if nothing below
has changed for a key and the node looks the same for it, nothing changes anywhere above. Each operation is then only what it does to one node
and to those it adds below it: `InsertGood` changes one key, `GrowGood`,
`FlushGood` (messages moved to the child still go before what was there), `SplitGood`, `RepivotGood` and `DeallocGood` none. From it:

* `SearchesEnd`: `Spec => []MapInv`;
* `TreeIsMap`: `Spec => ImplementsMap`, the refinement of `MapSpec`;
* `ProgressPossible`: `Spec => []PolicyMakesProgress`. A flush is never refused for its bounds and has
  something to move because the biggest slot of a full node is not empty; a split of a node with two
  slots or more keeps a pivot strictly inside (`SplitPossible`); a leaf to repivot has one bucket heavy enough for
  a pivot in its middle (`RepivotPossible`): it is heavy because the policy came
  past its parent, which needs `FlushTriggerWeight < MaxTotalBucketWeight`;
* `AnswersCorrect`: `Spec => []QueriesAnswered`. A query that ends has found the value of the map
  (`QueryFinds`), and what a path collects up to its bound is exactly what the map has there
  (`PathsFaithful`), although the bounds on the way down overlap; so a range query gives the first keys of the
  map after its start, and claims to have looked no further than it has (`RangeAnswered`).

Assumptions: `RefAssumption`, `KeyAssumption` and `TreeAssumption`: at least two children and two
levels of capacity, and a flush trigger of less than a full node (`MaxTotalBucketWeight / 8` in
`Bounds.i.dfy:61`). The tree may share nodes and may be of any depth.

`CompositeViewProofs` proves, for every set of keys, values and locations and journals of any length:
`HalvesAgree` (`Spec => []Inv`) and `StoreIsCrashSafe` (`Spec => CrashSafe`, the refinement of
`ThreeStateVersioned`). The refinement maps each version to what a journal makes of a map, so every step needs to
know what the other half has at that moment. `PathsMeet` says it: gamma leads from the persistent map
to where j2 leads from the frozen one, and j2 and delta lead from there to where j3, what is left to
replay, leads from the ephemeral one. Dafny states this with paths of states (`TSJ.Inv`); here
it is an equation between maps, because only insertions change a map. `LocationsAgree` says how far the two halves may be
apart: the committer's persistent location is the block cache's or, between a commit and its
`cleanUp`, the frozen one. Without it a freeze, a commit and a crash could each be of another
version than the other half's; and without the guard of `JournalView`'s `Move2to3` (not while the frozen
location is the persistent one) a
second freeze could come between a commit and the clean-up, which is what the run's mutant shows. That journals
can be cut and joined is `ApplySeqAdditive`, by induction over the entries (`ApplySeqIs`: only one
function has the recursive equation of `ApplySeq`). `Inv` was checked with TLC on the instance
of the run `composite` before it was proved.

The assumption is `CompositeAssumption`: the empty value is a value, and `None` is neither a location
nor a map.
`MaxJournal` bounds insertions in a guard and no proof uses it, so the theorems hold for every value of it, that is for journals of every length.

Together: `JournalSystemImplementsView`, `CacheImplementsStatesView`, `TreeIsMap` and
`StoreIsCrashSafe` are the steps of the way from the handlers to the promise of the store. What joins them
is not itself a theorem: section 7 says where each half takes the other as its environment.

Only model-checked: all liveness, which is beyond these provers, and with it the two runs that expect a
violation. Every safety, action and refinement property that a run checks is also proved.

## 7. Not modelled

* **The two detailed systems in one module.** `CompositeView` composes the two *views*. The journal with
  the block cache as environment (`JournalSystem`) and the block cache with the journal as environment
  (`BlockSystem`) each implement their view, and meet in four
  calls: `receiveLoc`, `freeze`, `receiveFrozenLoc`, `cleanUp`. Each side leaves to the other what the
  other does: `BlockSystem`'s committer takes the states Idle, Frozen, Located and Writing in the order
  `CommitMatchesFreeze` and `CommitterKnowsCommit` establish of the real one, and `JournalSystem`'s
  environment stores a table away from the committed location, which `RecoverableIntact` establishes of
  the real one. The product of the two state spaces is beyond TLC.
* **Queries that wait for a node.** `QueryImpl` and `SuccImpl` are modelled on a tree that is in memory;
  with a node missing they read it and are started again, which changes nothing they have computed.
  Which nodes they ask for is in `BlockCache` (`Wanted`).
* **Containers**: hash map, LRU list and B-tree are used as maps and sets; they are sequential.
* **Marshalling and checksums**: represented by what they promise, a block that is read is what was written
  or is known to be bad. **Base libraries**: no protocol.
* **Benchmarks and tools**: the drivers in C++ are outside the store. All the Python of the repository
  (`tools`, `scripts`, `bench`) builds the program, runs the paper's experiments on clusters and
  plots them; it shares no state with the store, so no line of it is modelled, and all
  of the modelled code is Dafny and C++.
* **`src/veribetrkv-dynamic-frames`**: the same system without linear types; its protocol is the one
  modelled here.
