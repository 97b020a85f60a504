----------------------------- MODULE MCLiveness -----------------------------
EXTENDS JournalLiveness, MCJournalSystem
=============================================================================
