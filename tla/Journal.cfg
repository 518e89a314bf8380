CONSTANTS
  RecordTypes <- MCRecordTypes
  BlobLengths <- MCBlobLengths
  SinkIds <- MCSinkIds
  MaxRecords = 2
  MaxEntries = 5
SPECIFICATION Spec
INVARIANT TypeOK
INVARIANT ReadBackCommitted
INVARIANT ReaderReadsCommittedPrefix
PROPERTY JournalRefinesAtomicLog
CHECK_DEADLOCK FALSE
