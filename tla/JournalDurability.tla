------------------------- MODULE JournalDurability -------------------------
(***************************************************************************)
(* JournalSystem with history variables that count the insertions, to say  *)
(* what a client relies on: which of them a crash may lose.  An insertion  *)
(* is known by its number in the order of the appends that survive.        *)
(*                                                                         *)
(* The table the block cache freezes contains every insertion of that      *)
(* moment, replayed ones included (SyncImpl.maybeFreeze clones the         *)
(* ephemeral table).                                                       *)
(***************************************************************************)
EXTENDS JournalSystemRefinesJournalView, JournalSystemInvariant

CONSTANT MaxInserts   \* bound: the insertions counted at any moment

ASSUME MaxInsertsAssumption == MaxInserts \in Nat

VARIABLES
  inserted,           \* insertions made, less the ones crashes have lost
  frozenAt,           \* of these, how many the frozen table contains
  tableAt,            \* [Loc -> how many the table stored there contains]
  coveredBy           \* [sync id -> how many there were when it was pushed]

historyVars == <<inserted, frozenAt, tableAt, coveredBy>>

\* What is left if the machine crashes now.
Recoverable ==
  tableAt[PersistentSuperblock.indirectionTableLoc] + Len(PersistentJournal)

HInit ==
  /\ Init
  /\ inserted = 0 /\ frozenAt = 0
  /\ tableAt = [loc \in Loc |-> 0]
  /\ coveredBy = <<>>

HAppend ==
  /\ inserted < MaxInserts
  /\ \E e \in Entry : JournalAppend(e)
  /\ inserted' = inserted + 1
  /\ UNCHANGED <<frozenAt, tableAt, coveredBy>>

HFreeze ==
  /\ Freeze
  /\ frozenAt' = inserted
  /\ UNCHANGED <<inserted, tableAt, coveredBy>>

HStoreTable ==
  /\ \E loc \in Loc :
       /\ ReceiveFrozenLoc(loc)
       /\ tableAt' = [tableAt EXCEPT ![loc] = frozenAt]
  /\ UNCHANGED <<inserted, frozenAt, coveredBy>>

HPushSync ==
  /\ PushSync
  /\ coveredBy' = [id \in DOMAIN syncReqs' |->
                     IF id \in DOMAIN syncReqs THEN coveredBy[id] ELSE inserted]
  /\ UNCHANGED <<inserted, frozenAt, tableAt>>

HPopSync ==
  /\ \E id \in SyncId : PopSync(id)
  /\ coveredBy' = Restrict(coveredBy, DOMAIN syncReqs')
  /\ UNCHANGED <<inserted, frozenAt, tableAt>>

HCrash ==
  /\ Crash
  /\ inserted' = Recoverable
  /\ coveredBy' = <<>>
  /\ UNCHANGED <<frozenAt, tableAt>>

HOther ==
  /\ \/ Initialization
     \/ WriteOutJournal
     \/ WriteOutSuperblockAdvanceLog
     \/ WriteOutSuperblockAdvanceLocation
     \/ \E which \in Slot : ReadSuperblockResp(which)
     \/ \E id \in ReqId : PageInJournalResp(id) \/ WriteBackJournalResp(id)
     \/ WriteBackSuperblockResp
     \/ DiskInternal
  /\ UNCHANGED historyVars

HNext == HAppend \/ HFreeze \/ HStoreTable \/ HPushSync \/ HPopSync \/ HCrash \/ HOther

HSpec == HInit /\ [][HNext]_<<vars, historyVars>>

\* A sync that may return covers nothing a crash could lose: when popSync
\* (CommitterImpl) finds State1, every insertion made before the matching
\* pushSync is in the committed table or in the committed journal.
SyncDurable ==
  \A id \in DOMAIN syncReqs :
    syncReqs[id] = "State1" => coveredBy[id] <= Recoverable

\* No insertion is recovered twice or out of nowhere: the committed table and
\* the committed journal never overlap and never exceed what was inserted, as
\* they would if a location commit kept blocks its table already contains.
RecoversOnlyInserted == Recoverable <= inserted

\* What is committed is never lost: no step, not even a crash, makes fewer
\* insertions recoverable.
CommittedNeverLost == [][Recoverable' >= Recoverable]_<<vars, historyVars>>

-----------------------------------------------------------------------------
(***************************************************************************)
(* The inductive invariant of the history, on top of IInv and ContentsInv. *)
(***************************************************************************)

HistoryTypeOK ==
  /\ inserted \in Nat /\ frozenAt \in Nat
  /\ tableAt \in [Loc -> Nat]
  /\ coveredBy \in [DOMAIN syncReqs -> Nat]

\* What the next commit would make recoverable.
Coverable == tableAt[PersistentSuperblock.indirectionTableLoc] + Len(GammaJournal)

\* The table recovery would load and the journals after it count each
\* insertion once.
InsertedInv == inserted = Coverable + Len(DeltaJournal)

\* So do the frozen table and what has been inserted since.
FrozenInv ==
  /\ Ready /\ isFrozen => inserted = frozenAt + Len(FrozenJournal) + Len(DeltaJournal)
  /\ Ready /\ frozenLoc # None => tableAt[frozenLoc] = frozenAt

\* What a request in each state covers is in memory, or frozen or written, or
\* committed.
CoveredInv ==
  \A id \in DOMAIN syncReqs :
    /\ coveredBy[id] <= inserted
    /\ SyncReqs[id] = "State2" => coveredBy[id] <= Coverable
    /\ SyncReqs[id] = "State1" => coveredBy[id] <= Recoverable

HistoryInv == HistoryTypeOK /\ InsertedInv /\ FrozenInv /\ CoveredInv

\* The inductive invariant of HSpec: where every insertion is, in a table, on
\* disk or in memory, and which of them each sync request waits for.
DurabilityInv == IInv /\ ContentsInv /\ HistoryInv
=============================================================================
