---------------------------- MODULE MCDurability ----------------------------
EXTENDS JournalDurability, MCJournalSystem

HistoryView == <<View, historyVars>>
=============================================================================
