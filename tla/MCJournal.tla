---------------------------- MODULE MCJournal ----------------------------
(* Journal entries with an empty and an 8-byte payload (spec scenario 4),  *)
(* sinks 3 and "no id", two records of up to five entries.               *)
EXTENDS Journal

MCRecordTypes == {"JournalEntry"}
MCBlobLengths == {0, 8}
MCSinkIds == {-1, 3}
=============================================================================
