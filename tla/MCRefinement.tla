---------------------------- MODULE MCRefinement ----------------------------
EXTENDS JournalSystemRefinesJournalView, MCJournalSystem
=============================================================================
