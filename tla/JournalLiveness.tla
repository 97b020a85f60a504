-------------------------- MODULE JournalLiveness --------------------------
(***************************************************************************)
(* The fairness the store's scheduling gives JournalSystem, and what must  *)
(* then happen eventually.                                                 *)
(*                                                                         *)
(* Framework.cpp runs one thread: a call (Sync, Insert, Query, ...) loops  *)
(* over "handle every response there is, then call the handler again"      *)
(* until it succeeds.  So a client keeps calling while the store is not    *)
(* initialized, while its sync request is not popped, and while its        *)
(* insertion finds no room; every answer of the disk is handled; and the   *)
(* disk completes every request.  Of the block cache it is assumed that it *)
(* freezes and stores its table when it is asked to again and again.       *)
(***************************************************************************)
EXTENDS JournalSystem

\* Some client is in a loop that calls doSync.
ClientCallsDoSync == DOMAIN syncReqs # {} \/ \E e \in Entry : ~CanAppend(e)

Fairness ==
  /\ WF_vars(Initialization)
  /\ WF_vars(Commit /\ ClientCallsDoSync)
  /\ \A id \in SyncId : WF_vars(PopSync(id))
  /\ \A which \in Slot : WF_vars(ReadSuperblockResp(which))
  /\ \A id \in ReqId : WF_vars(PageInJournalResp(id)) /\ WF_vars(WriteBackJournalResp(id))
  /\ WF_vars(WriteBackSuperblockResp)
  /\ WF_vars(\E loc \in Loc : ReceiveFrozenLoc(loc))
  /\ WF_vars(DiskInternal)

LiveSpec == Spec /\ Fairness

\* Every sync request leaves the map: its client gets an answer from popSync
\* or a crash drops it (Sync of Framework.cpp fails when that takes too long).
SyncCompletes ==
  \A id \in SyncId : id \in DOMAIN syncReqs ~> id \notin DOMAIN syncReqs

\* Once what a request covers is frozen or written, it completes, whatever
\* graphSync the clients pass: appends in between cannot put the commit off
\* for ever, because the journal fills up.
WrittenSyncCompletes ==
  \A id \in SyncId :
    (id \in DOMAIN syncReqs /\ syncReqs[id] = "State2") ~> id \notin DOMAIN syncReqs

\* A store that stops crashing finishes loading and replaying (initialization
\* of CoordinationImpl), whatever state the crashes left the disk in.
RecoveryCompletes == <>[][~Crash]_vars => <>[]IsInitialized

\* An insertion that finds the journal full finds room later, or the store
\* restarts: insert calls doSync(graphSync) until blocks are handed back.
JournalRoomReturns ==
  \A e \in Entry :
    (IsInitialized /\ ~CanAppend(e)) ~> (CanAppend(e) \/ ~IsInitialized)
=============================================================================
