--------------------------- MODULE AbstractJournal ---------------------------
(***************************************************************************)
(* What the journal promises its reader (spec 3 and 4.5): the journal is  *)
(* a sequence of whole records, each a data entry followed by entries      *)
(* without data, and a record is appended in one step.  While a record is *)
(* being written the tail of the file is torn; a crash of the writer can   *)
(* leave it torn forever, but never takes away a record already there.    *)
(***************************************************************************)
EXTENDS Naturals, Sequences

VARIABLES
  log,    \* the records a reader gets back, in order
  torn,   \* the file ends inside a record
  down    \* the writing process has died

vars == <<log, torn, down>>

(* A record as the reader returns it: the Data entry first, and no other *)
(* entry carrying data.                                                     *)
WellFormed(r) ==
  /\ r.entries # << >>
  /\ r.entries[1].tag = "Data"
  /\ \A i \in DOMAIN r.entries : i > 1 => r.entries[i].tag # "Data"

Init == log = << >> /\ ~torn /\ ~down

(* The writer starts a record: the reader now meets a partial record.     *)
Begin == ~down /\ ~torn /\ torn' /\ UNCHANGED <<log, down>>

(* The record becomes complete: exactly one well-formed record is added   *)
(* at the end and the earlier ones are untouched.                          *)
Commit ==
  /\ ~down /\ torn /\ ~torn'
  /\ Len(log') = Len(log) + 1
  /\ SubSeq(log', 1, Len(log)) = log
  /\ WellFormed(log'[Len(log')])
  /\ UNCHANGED down

Crash == ~down /\ down' /\ UNCHANGED <<log, torn>>

Next == Begin \/ Commit \/ Crash

Spec == Init /\ [][Next]_vars

=============================================================================
