--------------------------- MODULE JournalQueues ---------------------------
(***************************************************************************)
(* What the journalist promises the committer about the entries it holds   *)
(* (the JournalInfo that JournalistImpl.I() abstracts to): two queues, and *)
(* each of them handed over whole and in order when it is written out.     *)
(***************************************************************************)
EXTENDS Sequences

CONSTANT Entry      \* journal entries

VARIABLES
  inMemoryJournalFrozen,   \* entries the frozen table contains
  inMemoryJournal,         \* entries appended since
  packaged                 \* the entries handed over last

vars == <<inMemoryJournalFrozen, inMemoryJournal, packaged>>

Init == inMemoryJournalFrozen = <<>> /\ inMemoryJournal = <<>> /\ packaged = <<>>

AppendEntry(e) ==
  /\ inMemoryJournal' = Append(inMemoryJournal, e)
  /\ UNCHANGED <<inMemoryJournalFrozen, packaged>>

Freeze ==
  /\ inMemoryJournalFrozen' = inMemoryJournalFrozen \o inMemoryJournal
  /\ inMemoryJournal' = <<>>
  /\ UNCHANGED packaged

PackageFrozenJournal ==
  /\ inMemoryJournalFrozen # <<>>
  /\ packaged' = inMemoryJournalFrozen
  /\ inMemoryJournalFrozen' = <<>>
  /\ UNCHANGED inMemoryJournal

PackageInMemoryJournal ==
  /\ inMemoryJournalFrozen = <<>> /\ inMemoryJournal # <<>>
  /\ packaged' = inMemoryJournal
  /\ inMemoryJournal' = <<>>
  /\ UNCHANGED inMemoryJournalFrozen

Next ==
  \/ \E e \in Entry : AppendEntry(e)
  \/ Freeze
  \/ PackageFrozenJournal
  \/ PackageInMemoryJournal

Spec == Init /\ [][Next]_vars
=============================================================================
