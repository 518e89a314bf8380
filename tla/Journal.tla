------------------------------ MODULE Journal ------------------------------
(***************************************************************************)
(* The journal record (src/multio/JournalRecord.cc) written to a data     *)
(* handle, and the reader of spec 4.5 (JournalReader is not in src/).     *)
(*                                                                         *)
(* A record is built by addWriteEntry (addData, then addJournalEntry) and *)
(* addJournalEntry(End), then writeRecord issues one handle.write per      *)
(* header, entry header, entry payload and termination marker.  Each       *)
(* handle.write is a step of its own, so a crash of the writing process   *)
(* can fall between any two of them.  The file is the sequence of the     *)
(* pieces written; a piece stands for its bytes, and a zero-length write   *)
(* writes nothing.                                                         *)
(***************************************************************************)
EXTENDS Integers, Sequences, SequencesExt

CONSTANTS
  RecordTypes,   \* record tags used: a subset of {"JournalEntry", "Configuration"}
  BlobLengths,   \* payload lengths of the journaled messages
  SinkIds,       \* sinkId arguments of addWriteEntry (-1: no id)
  MaxRecords,    \* bound on the records built
  MaxEntries     \* bound on the entries of one record

ASSUME MaxEntries < 65536   \* numEntries_ is a uint16_t and cannot wrap

NoBlob == [rec |-> 0, len |-> 0]

(* What a JournalEntry holds: its head_ and the data blob, if any.        *)
Entry(tag, len, id, blob) == [tag |-> tag, len |-> len, id |-> id, blob |-> blob]

NoEntry == Entry("none", 0, 0, NoBlob)

(* The pieces of the file: the record header (tag, numEntries), an entry  *)
(* header (tag, payload_length, id), the payload bytes of a blob, and the *)
(* marker "END!".                                                          *)
Piece(kind, type, n, e, blob) ==
  [kind |-> kind, type |-> type, n |-> n, entry |-> e, blob |-> blob]
HeaderPiece(type, n) == Piece("header", type, n, NoEntry, NoBlob)
EntryPiece(e) == Piece("entry", "none", 0, [e EXCEPT !.blob = NoBlob], NoBlob)
PayloadPiece(e) == Piece("payload", "none", 0, NoEntry, e.blob)
MarkerPiece == Piece("marker", "none", 0, NoEntry, NoBlob)

(* addJournalEntry: entry.head_.id_ = unsigned(sinkId) unless sinkId is   *)
(* -1, in which case the zeroed id stays 0.  The sink ids of the model are *)
(* -1 and naturals, for which unsigned() is the identity.                  *)
ASSUME SinkIds \subseteq Nat \cup {-1}

IdOf(sinkId) == IF sinkId = -1 THEN 0 ELSE sinkId

-----------------------------------------------------------------------------
(* Mutation: the data entry is pushed even when one is there already.     *)
AddDataAlways(r, blob) ==
  [r EXCEPT !.entries = Append(@, Entry("Data", blob.len, 0, blob)),
            !.utilised = TRUE, !.n = @ + 1]

(* JournalRecord::addData: the data entry is pushed only as the first     *)
(* entry; a further call (another DataSink) is a no-op.                    *)
AddData(r, blob) ==
  IF r.entries = << >>
  THEN [r EXCEPT !.entries = Append(@, Entry("Data", blob.len, 0, blob)),
                 !.utilised = TRUE, !.n = @ + 1]
  ELSE r

(* Mutation: numEntries_ is not incremented.                                *)
AddJournalEntryNoCount(r, type, sinkId) ==
  [r EXCEPT !.entries = Append(@, Entry(type, 0, IdOf(sinkId), NoBlob))]

(* JournalRecord::addJournalEntry: an entry without payload.               *)
AddJournalEntry(r, type, sinkId) ==
  [r EXCEPT !.entries = Append(@, Entry(type, 0, IdOf(sinkId), NoBlob)),
            !.n = @ + 1]

(* Mutation: the payload below a data entry's header is not written.      *)
EntryPiecesNoPayload(e) == <<EntryPiece(e)>>

(* The writes of one entry in writeRecord: its header, then its payload   *)
(* if it has data (a write of zero bytes writes nothing).                  *)
EntryPieces(e) ==
  IF e.blob # NoBlob /\ e.len > 0 THEN <<EntryPiece(e), PayloadPiece(e)>>
  ELSE <<EntryPiece(e)>>

(* JournalRecord::writeRecord: header, entries, termination marker.        *)
WritePieces(r) ==
  <<HeaderPiece(r.type, r.n)>>
    \o FlattenSeq([i \in DOMAIN r.entries |-> EntryPieces(r.entries[i])])
    \o <<MarkerPiece>>

-----------------------------------------------------------------------------
(* JournalReader::readRecord, from spec 4.5: the header, numEntries        *)
(* entries (each followed by its payload_length bytes), the marker.  The  *)
(* result is the records read before the first record that does not      *)
(* parse, and whether the whole file parsed.                               *)
RECURSIVE ReadEntries(_, _, _)
ReadEntries(f, pos, k) ==
  IF k = 0 THEN [ok |-> TRUE, pos |-> pos, entries |-> << >>]
  ELSE IF pos > Len(f) \/ f[pos].kind # "entry" THEN [ok |-> FALSE, pos |-> pos, entries |-> << >>]
  ELSE LET e   == f[pos].entry
           hasPayload == e.len > 0
           nxt == IF hasPayload THEN pos + 2 ELSE pos + 1
           okP == ~hasPayload \/ (pos + 1 <= Len(f) /\ f[pos + 1].kind = "payload"
                                   /\ f[pos + 1].blob.len = e.len)
           blob == IF hasPayload THEN f[pos + 1].blob ELSE NoBlob
           rest == ReadEntries(f, nxt, k - 1)
       IN IF ~okP THEN [ok |-> FALSE, pos |-> pos, entries |-> << >>]
          ELSE [ok |-> rest.ok, pos |-> rest.pos,
                entries |-> <<[e EXCEPT !.blob = blob]>> \o rest.entries]

(* JournalReader::readRecord at position pos: one whole record, or a     *)
(* failure (CorruptJournal) when the header, an entry or the marker is     *)
(* missing, including at the end of the file.                               *)
ReadRecordAt(f, pos) ==
  IF pos > Len(f) \/ f[pos].kind # "header" THEN [ok |-> FALSE]
  ELSE LET es == ReadEntries(f, pos + 1, f[pos].n)
       IN IF ~es.ok \/ es.pos > Len(f) \/ f[es.pos].kind # "marker"
          THEN [ok |-> FALSE]
          ELSE [ok |-> TRUE, next |-> es.pos + 1,
                record |-> [type |-> f[pos].type, entries |-> es.entries]]

RECURSIVE ReadFrom(_, _)
ReadFrom(f, pos) ==
  IF pos > Len(f) THEN [ok |-> TRUE, records |-> << >>]
  ELSE LET r == ReadRecordAt(f, pos)
       IN IF ~r.ok THEN [ok |-> FALSE, records |-> << >>]
          ELSE LET rest == ReadFrom(f, r.next)
               IN [ok |-> rest.ok, records |-> <<r.record>> \o rest.records]

ReadJournal(f) == ReadFrom(f, 1)

-----------------------------------------------------------------------------
VARIABLES
  rec,        \* the JournalRecord being built or written
  phase,      \* "idle", "building", "writing" or "crashed"
  pieces,     \* the writes writeRecord still has to issue
  file,       \* the content of the data handle
  committed,  \* history: the records whose termination marker was written
  built,      \* number of records built so far
  view,       \* auxiliary: what the reader gets from file, ReadJournal(file)
  rdPos,      \* readjournal: the position of the JournalReader in file
  rdRecords,  \* readjournal: the records readRecord has returned
  rdState     \* readjournal: "reading", or "stopped" by an exception

wvars == <<rec, phase, pieces, file, committed, built, view>>
rdVars == <<rdPos, rdRecords, rdState>>
vars == <<wvars, rdVars>>

FreshRecord(type, blob) ==
  [type |-> type, n |-> 0, entries |-> << >>, utilised |-> FALSE, blob |-> blob]

Init ==
  /\ rec = FreshRecord("Uninitialised", NoBlob)
  /\ phase = "idle"
  /\ pieces = << >>
  /\ file = << >>
  /\ committed = << >>
  /\ built = 0
  /\ view = ReadJournal(<< >>)
  /\ rdPos = 1 /\ rdRecords = << >> /\ rdState = "reading"

(* JournalRecord(journal, type) with type != Uninitialised: a fresh        *)
(* record, initialised, for one written message of some payload length.   *)
(* The bytes of a payload are told apart by the record that wrote them;   *)
(* an empty payload has no bytes and equals every other empty payload.     *)
NewRecord ==
  /\ phase = "idle"
  /\ built < MaxRecords
  /\ \E type \in RecordTypes, len \in BlobLengths :
       rec' = FreshRecord(type, [rec |-> IF len = 0 THEN 0 ELSE built + 1, len |-> len])
  /\ phase' = "building"
  /\ built' = built + 1
  /\ UNCHANGED <<pieces, file, committed, view, rdVars>>

(* JournalRecord::addWriteEntry(blob, sinkId), called by each DataSink    *)
(* that wrote the message.                                                 *)
AddWriteEntry ==
  /\ phase = "building"
  /\ \E sinkId \in SinkIds :
       LET r == AddJournalEntry(AddData(rec, rec.blob), "Write", sinkId)
       IN /\ Len(r.entries) <= MaxEntries
          /\ rec' = r
  /\ UNCHANGED <<phase, pieces, file, committed, built, view, rdVars>>

(* addJournalEntry(End, -1): its ASSERT(utilised_) requires the data.     *)
AddEndEntry ==
  /\ phase = "building"
  /\ rec.utilised
  /\ Len(rec.entries) + 1 <= MaxEntries
  /\ rec' = AddJournalEntry(rec, "End", -1)
  /\ UNCHANGED <<phase, pieces, file, committed, built, view, rdVars>>

(* writeRecord is called on a record that holds data.                      *)
BeginWrite ==
  /\ phase = "building"
  /\ rec.utilised
  /\ phase' = "writing"
  /\ pieces' = WritePieces(rec)
  /\ UNCHANGED <<rec, file, committed, built, view, rdVars>>

(* One handle.write of writeRecord.  The last one, the marker, completes  *)
(* the record.                                                              *)
HandleWrite ==
  /\ phase = "writing"
  /\ LET f == Append(file, Head(pieces))
     IN file' = f /\ view' = ReadJournal(f)
  /\ pieces' = Tail(pieces)
  /\ IF Tail(pieces) = << >>
     THEN /\ phase' = "idle"
          /\ committed' = Append(committed, [type |-> rec.type, entries |-> rec.entries])
     ELSE UNCHANGED <<phase, committed>>
  /\ UNCHANGED <<rec, built, rdVars>>

(* The writing process dies; the handle keeps what was written.            *)
Crash ==
  /\ phase # "crashed"
  /\ phase' = "crashed"
  /\ UNCHANGED <<rec, pieces, file, committed, built, view, rdVars>>

(* Mutation: the reader's position is not advanced past a record read.   *)
ReadRecordNoAdvance ==
  /\ rdState = "reading"
  /\ LET r == ReadRecordAt(file, rdPos)
     IN IF r.ok
        THEN /\ rdRecords' = Append(rdRecords, r.record)
             /\ UNCHANGED <<rdPos, rdState>>
        ELSE /\ rdState' = "stopped"
             /\ UNCHANGED <<rdPos, rdRecords>>
  /\ UNCHANGED wvars

(* One iteration of readjournal's while (true) loop, run on the journal   *)
(* file at any time, also while the writer appends to it: a fresh         *)
(* (Uninitialised) JournalRecord is filled by journal.readRecord.  The     *)
(* CorruptJournal it throws at the end of the file, or at a torn record,  *)
(* is the only way out of the loop: Tool::start reports it and the tool   *)
(* exits.  The reader shares nothing with the writer but the file.        *)
ReadRecord ==
  /\ rdState = "reading"
  /\ LET r == ReadRecordAt(file, rdPos)
     IN IF r.ok
        THEN /\ rdRecords' = Append(rdRecords, r.record)
             /\ rdPos' = r.next
             /\ UNCHANGED rdState
        ELSE /\ rdState' = "stopped"
             /\ UNCHANGED <<rdPos, rdRecords>>
  /\ UNCHANGED wvars

Next ==
  \/ NewRecord \/ AddWriteEntry \/ AddEndEntry \/ BeginWrite \/ HandleWrite
  \/ Crash
  \/ ReadRecord

(* The tool's single thread always runs its next loop iteration.           *)
Spec == Init /\ [][Next]_vars

-----------------------------------------------------------------------------
TypeOK ==
  /\ phase \in {"idle", "building", "writing", "crashed"}
  /\ rec.n = Len(rec.entries)
  /\ built \in 0 .. MaxRecords
  /\ Len(committed) <= built

(* Torn: the file ends inside a record, between its first and its last     *)
(* handle.write, because the writer is still writing or crashed there.     *)
Torn == pieces # << >> /\ Len(pieces) < Len(WritePieces(rec))

(* Spec section 8, journal round trip, and spec 4.5: the reader returns    *)
(* exactly the records whose termination marker reached the handle, in    *)
(* order and entry for entry, and reports the file corrupt exactly when it *)
(* ends inside a record (a crash, or a read during writeRecord).           *)
ReadBackCommitted ==
  /\ view = ReadJournal(file)
  /\ view.records = committed
  /\ view.ok = ~Torn

(* The reader's view of the file (spec 4.5), taken as the abstract log:  *)
(* the records it returns, whether the file ends inside a record, and     *)
(* whether the writer is gone.                                             *)
AJ == INSTANCE AbstractJournal
        WITH log <- view.records,
             torn <- ~view.ok,
             down <- phase = "crashed"

(* writeRecord, one handle.write at a time and with a crash between any   *)
(* two, implements an atomic append: a reader sees the records grow by    *)
(* one whole record whose only data entry is the first (addData), never   *)
(* loses one, and meets a torn tail only between the first and the last  *)
(* write of a record.                                                      *)
JournalRefinesAtomicLog == AJ!Spec

(* readjournal, interleaved with writeRecord and a crash of the writer,  *)
(* returns records whose termination marker reached the file, in the      *)
(* order they were committed, and never one twice or a torn one: what it  *)
(* has read is a prefix of the committed records, and the file up to the  *)
(* reader's position reads back as exactly those records.                 *)
ReaderReadsCommittedPrefix ==
  /\ IsPrefix(rdRecords, committed)
  /\ ReadJournal(SubSeq(file, 1, rdPos - 1)) = [ok |-> TRUE, records |-> rdRecords]

=============================================================================
