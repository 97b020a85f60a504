---------------------------- MODULE BlockSystem ----------------------------
(***************************************************************************)
(* The block cache on its disk (BlockCacheSystem/BlockSystem), with what   *)
(* the handlers and the committer do to it (Impl/CoordinationImpl,         *)
(* Impl/HandleReadResponseImpl, Impl/HandleWriteResponseImpl).  Of the     *)
(* committer only the commit of a frozen table is kept: Committer and      *)
(* JournalSystem model it in full.                                         *)
(***************************************************************************)
EXTENDS BlockCache

VARIABLES
  committer,       \* how far the commit of the frozen table is
  superblockLocs   \* the table locations a recovery may read: two while a
                   \* superblock with the new one is being written

systemVars == <<committer, superblockLocs>>
vars == <<blockDiskVars, blockCacheVars, systemVars>>

TypeOK ==
  /\ BlockDiskTypeOK /\ BlockCacheTypeOK
  /\ committer \in {"Idle", "Frozen", "Located", "Writing"}
  /\ superblockLocs \in SUBSET TableLoc /\ superblockLocs # {}

Init ==
  /\ \E loc \in TableLoc : BlockDiskInit(loc) /\ superblockLocs = {loc}
  /\ BlockCacheInit /\ committer = "Idle"

-----------------------------------------------------------------------------
\* Steps of the block cache by itself, and its answers from the disk

Load ==
  /\ \/ \E loc \in superblockLocs : receiveLoc(loc) /\ UNCHANGED blockDiskVars
     \/ \E id \in FreshReqId : PageInIndirectionTableReq(id)
     \/ \E id \in DOMAIN reqReadIndirectionTables :
        \E table \in ReadResults(indirectionTables[reqReadIndirectionTables[id]]) :
          PageInIndirectionTableResp(id, table)
  /\ UNCHANGED systemVars

EditTree ==
  /\ InsertKeyValue \/ Grow \/ RunFlushPolicy
  /\ UNCHANGED <<blockDiskVars, systemVars>>

Read ==
  /\ \/ /\ mode = "Ready"
        /\ \E ref \in Wanted : \E id \in FreshReqId : PageInNodeReq(id, ref)
     \/ \E id \in DOMAIN reqReadNodes :
        \E node \in ReadResults(nodes[reqReadNodes[id]]) : PageInNodeResp(id, node)
  /\ UNCHANGED systemVars

MakeRoom == EvictOrDealloc /\ UNCHANGED systemVars

NodeWritten ==
  /\ \E id \in DOMAIN reqWriteNodes : writeNodeResponse(id)
  /\ UNCHANGED systemVars

-----------------------------------------------------------------------------
\* CoordinationImpl.doSync: without a frozen version, sync may freeze one ...
SyncUnfrozen ==
  /\ committer = "Idle"
  /\ \/ Freeze /\ committer' = "Frozen"
     \/ DeallocBeforeFreeze /\ UNCHANGED committer
  /\ UNCHANGED <<blockDiskVars, superblockLocs>>

\* ... with one, it writes a node of it, or its table.
SyncFrozen ==
  /\ committer = "Frozen"
  /\ \E id \in FreshReqId :
       \/ \E ref \in RefsWithNoLoc(frozenIndirectionTable) : WriteFrozenNode(id, ref)
       \/ WriteFrozenTable(id)
  /\ UNCHANGED systemVars

\* receiveFrozenLoc
FrozenTableWritten ==
  /\ \E id \in DOMAIN reqWriteIndirectionTables : writeIndirectionTableResponse(id)
  /\ committer' = "Located" /\ UNCHANGED superblockLocs

\* tryAdvanceLocation: the superblock is on its way to the disk.
WriteSuperblock ==
  /\ committer = "Located" /\ committer' = "Writing"
  /\ superblockLocs' = superblockLocs \cup {frozenIndirectionTableLoc}
  /\ UNCHANGED <<blockDiskVars, blockCacheVars>>

\* The acknowledgement of the superblock.
SuperblockWritten ==
  /\ committer = "Writing" /\ committer' = "Idle"
  /\ superblockLocs' = {frozenIndirectionTableLoc}
  /\ cleanUp /\ UNCHANGED blockDiskVars

\* The restarted system reads the superblocks: one of the two is taken.
Crash ==
  /\ BlockDiskCrash /\ BlockCacheCrash /\ committer' = "Idle"
  /\ \E loc \in superblockLocs : superblockLocs' = {loc}

Next ==
  \/ Load \/ EditTree \/ Read \/ MakeRoom \/ NodeWritten
  \/ SyncUnfrozen \/ SyncFrozen \/ FrozenTableWritten
  \/ WriteSuperblock \/ SuperblockWritten
  \/ Crash

Spec == Init /\ [][Next]_vars

-----------------------------------------------------------------------------
\* The blocks of the frozen version, those being written, and all in use.
Frozen == IF HasFrozen THEN Blocks(frozenIndirectionTable) ELSE {}

WrittenBlocks == {outstandingBlockWrites[id].loc : id \in DOMAIN outstandingBlockWrites}

UsedBlocks ==
  UNION {Blocks(ephemeralIndirectionTable), Frozen,
         Blocks(persistentIndirectionTable), WrittenBlocks}

(***************************************************************************)
(* Each bitmap of the allocator holds exactly the blocks of its table, or  *)
(* of the writes in flight, and full is their union: no block is leaked    *)
(* and none is handed out twice (BlockAllocatorImpl, SyncImpl, DeallocImpl *)
(* and BookkeepingImpl keep the six structures in step).                   *)
(***************************************************************************)
AllocatorExact ==
  mode = "Ready" =>
    /\ blockAllocator.ephemeral = Reserved \cup Blocks(ephemeralIndirectionTable)
    /\ blockAllocator.frozen = IF HasFrozen THEN Reserved \cup Frozen ELSE {}
    /\ blockAllocator.persistent = Reserved \cup Blocks(persistentIndirectionTable)
    /\ blockAllocator.outstanding = WrittenBlocks
    /\ blockAllocator.full = Reserved \cup UsedBlocks

\* A table on disk describes a whole tree: every node is where the table says,
\* has the successors the table says, and points only to nodes of the table.
CompleteTable(table) ==
  /\ table # Garbage
  /\ Root \in DOMAIN table.graph /\ DOMAIN table.locs = DOMAIN table.graph
  /\ InitLocBitmapSucceeds(table)
  /\ \A ref \in DOMAIN table.graph :
       /\ Range(table.graph[ref]) \subseteq DOMAIN table.graph
       /\ nodes[table.locs[ref]] # Garbage
       /\ nodes[table.locs[ref]].children = table.graph[ref]

(***************************************************************************)
(* Whatever table a recovery may read is complete, and neither it nor one  *)
(* of its nodes is being written: a crash at any moment leaves it whole.   *)
(***************************************************************************)
RecoverableIntact ==
  \A loc \in superblockLocs :
    /\ loc \notin Range(reqWriteIndirectionTables)
    /\ CompleteTable(indirectionTables[loc])
    /\ Blocks(indirectionTables[loc]) \cap Range(reqWriteNodes) = {}

(***************************************************************************)
(* No version loses a node: one without a location is in the cache, and a  *)
(* cached node with a location is what the disk holds there.  A node the   *)
(* frozen version has not written is the ephemeral version of it as well,  *)
(* without a location there, so that the one copy in the cache serves both *)
(* and syncFoundInFrozen never has a reason to give up.                    *)
(***************************************************************************)
NothingLost ==
  mode = "Ready" =>
    /\ \A ref \in DOMAIN ephemeralIndirectionTable.graph :
         IF ref \in DOMAIN ephemeralIndirectionTable.locs
         THEN ref \in DOMAIN cache => cache[ref] = nodes[ephemeralIndirectionTable.locs[ref]]
         ELSE ref \in DOMAIN cache
    /\ \A ref \in DOMAIN cache : cache[ref].children = ephemeralIndirectionTable.graph[ref]
    /\ HasFrozen => RefsWithNoLoc(frozenIndirectionTable)
                      \subseteq RefsWithNoLoc(ephemeralIndirectionTable)

(***************************************************************************)
(* A read that succeeds is taken: while it is in flight its node is not    *)
(* dirtied, moved, deallocated, cached in another way or overwritten on    *)
(* disk, so the cases PageInNodeResp gives up in are those of a read that  *)
(* failed.  Nor does a node that is being read, or whose read failed, lose *)
(* its last predecessor: Dealloc never gives up for that reason.           *)
(***************************************************************************)
AnswersAccepted ==
  /\ \A id \in DOMAIN reqReadNodes :
       /\ Accepts(id, nodes[reqReadNodes[id]])
       /\ ephemeralIndirectionTable.locs[outstandingBlockReads[id]] = reqReadNodes[id]
       /\ reqReadNodes[id] \notin Range(reqWriteNodes)
  /\ Deallocable(ephemeralIndirectionTable) \cap Range(outstandingBlockReads) = {}

(***************************************************************************)
(* Requests and what the cache remembers of them agree: a write response   *)
(* always finds its entry, two writes never race for one block, and the    *)
(* committer is where the frozen table is.                                 *)
(***************************************************************************)
RequestsMatch ==
  /\ reqWriteNodes = [id \in DOMAIN outstandingBlockWrites |-> outstandingBlockWrites[id].loc]
  /\ \A i, j \in DOMAIN reqWriteNodes : reqWriteNodes[i] = reqWriteNodes[j] => i = j
  /\ DOMAIN reqWriteIndirectionTables = {outstandingIndirectionTableWrite} \ {None}
  /\ DOMAIN reqReadNodes \subseteq DOMAIN outstandingBlockReads
  /\ committer = "Idle" <=> ~HasFrozen
  /\ committer \in {"Located", "Writing"} <=>
       frozenIndirectionTableLoc # None /\ outstandingIndirectionTableWrite = None

(***************************************************************************)
(* A block that some version holds, or that is being written, keeps its    *)
(* contents until the system crashes.                                      *)
(***************************************************************************)
LiveBlocksStable ==
  [][mode = "Ready" /\ mode' = "Ready" =>
       \A i \in UsedBlocks : nodes'[i] = nodes[i]]_vars

\* Said of the program: a read that is outstanding will be answered.
OutstandingReadsAnswered ==
  DOMAIN outstandingBlockReads \subseteq DOMAIN reqReadNodes
=============================================================================
