------------------ MODULE JournalSystemRefinesJournalView ------------------
(***************************************************************************)
(* The refinement mapping of BlockCacheSystem/JournalSystem and            *)
(* JournalSystem_Refines_JournalView: the five journals of JournalView     *)
(* read off the superblock recovery would choose, the disk and the queues  *)
(* of the committer.                                                       *)
(***************************************************************************)
EXTENDS JournalSystem

Ready == status = "Ready"

DiskJournalEntries(start, len) ==
  ParsedEntries(JournalRangeAt(diskJournal, [start |-> start, len |-> len]))

PersistentJournal ==
  DiskJournalEntries(PersistentSuperblock.journalStart, PersistentSuperblock.journalLen)

\* What of the written journal the frozen table does not contain.
FrozenJournal ==
  IF ~Ready THEN PersistentJournal
  ELSE IF isFrozen
    THEN DiskJournalEntries(JournalPosAdd(superblock.journalStart, frozenJournalPosition),
                            writtenJournalBlocks - frozenJournalPosition)
    ELSE DiskJournalEntries(superblock.journalStart, writtenJournalBlocks)

EphemeralJournal == IF Ready THEN replayJournal ELSE PersistentJournal

\* Everything written or frozen, after the table recovery would load: once a
\* location commit has taken effect, the blocks it makes obsolete are gone.
GammaJournal ==
  IF ~Ready THEN PersistentJournal
  ELSE LET obsolete == IF HasUpdateOccurredUnacked
                            /\ commitStatus = "CommitAdvanceLocation"
                         THEN frozenJournalPosition ELSE 0
       IN  DiskJournalEntries(PersistentSuperblock.journalStart,
                              writtenJournalBlocks - obsolete)
           \o inMemoryJournalFrozen

DeltaJournal == IF Ready THEN inMemoryJournal ELSE <<>>

FrozenLoc == IF Ready THEN frozenLoc ELSE None

\* A commit counts from the moment it takes effect on disk.
SyncReqs == IF HasUpdateOccurredUnacked THEN SyncReqs2to1(syncReqs) ELSE syncReqs

JV == INSTANCE JournalView WITH
        j1 <- PersistentJournal, j2 <- FrozenJournal, j3 <- EphemeralJournal,
        gamma <- GammaJournal, delta <- DeltaJournal,
        persistentLoc <- PersistentSuperblock.indirectionTableLoc,
        frozenLoc <- FrozenLoc, syncReqs <- SyncReqs

\* The journal subsystem, through crashes, recovery and every interleaving of
\* commits with appends, implements JournalView: each step is one of its steps
\* or leaves what it shows unchanged.
RefinesJournalView == JV!Spec
=============================================================================
