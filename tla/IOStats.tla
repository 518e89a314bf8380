------------------------------ MODULE IOStats ------------------------------
(***************************************************************************)
(* The I/O statistics of multio (src/multio/IOStats.cc): running counters *)
(* of reads, writes and the legacy fdb calls, and report, which derives    *)
(* averages and standard deviations from them.                             *)
(*                                                                         *)
(* The callers serialise logging and reporting (the sink layer locks), so *)
(* each call is one atomic step.  Sizes and elapsed times are small        *)
(* naturals; a mean is kept as the pair report divides, never as a       *)
(* rounded double.  The standard deviations are left out: with exact sums *)
(* their radicand is never negative, and its rounding in doubles           *)
(* (IOStats.cc:137) is beyond a model without floating point.             *)
(***************************************************************************)
EXTENDS Integers

CONSTANTS
  Sizes,      \* byte lengths logged by logRead / logWrite
  Times,      \* elapsed times of the timers
  MaxLogs     \* bound on the number of log calls

(* The counter groups: reads and writes, and the six legacy fdb calls.     *)
IoKinds == {"read", "write"}
FdbKinds == {"iinitfdb", "iopenfdb", "iclosefdb", "iflushfdb", "iwritefdb", "ireadfdb"}
Kinds == IoKinds \cup FdbKinds

(* A counter group: the count, the sums of bytes and of their squares,     *)
(* the accumulated Timing and the sum of the squared elapsed times.         *)
Zero == [num |-> 0, bytes |-> 0, bytes2 |-> 0, time |-> 0, time2 |-> 0]

-----------------------------------------------------------------------------
(* average(sum, count): 0 when count is 0, else sum / count, kept as the  *)
(* pair it is computed from.                                                *)
Average(sum, count) == IF count = 0 THEN <<0, 1>> ELSE <<sum, count>>

(* Mutation: the count is not incremented.                                  *)
LogIoNoCount(c, size, t) ==
  [c EXCEPT !.bytes = @ + size, !.bytes2 = @ + size * size,
            !.time = @ + t, !.time2 = @ + t * t]

(* logRead / logWrite.                                                      *)
LogIo(c, size, t) ==
  [c EXCEPT !.num = @ + 1, !.bytes = @ + size, !.bytes2 = @ + size * size,
            !.time = @ + t, !.time2 = @ + t * t]

(* logiinitfdb_ ... logireadfdb_: a count and a timing.                    *)
LogFdb(c, t) == [c EXCEPT !.num = @ + 1, !.time = @ + t, !.time2 = @ + t * t]

-----------------------------------------------------------------------------
VARIABLES
  stats,      \* stats[k]: the counters of group k
  logs,       \* number of log calls so far
  reports     \* what report computed, one record per call

vars == <<stats, logs, reports>>

Init ==
  /\ stats = [k \in Kinds |-> Zero]
  /\ logs = 0
  /\ reports = {}

LogRead ==
  /\ logs < MaxLogs
  /\ \E size \in Sizes, t \in Times : stats' = [stats EXCEPT !["read"] = LogIo(@, size, t)]
  /\ logs' = logs + 1
  /\ UNCHANGED reports

LogWrite ==
  /\ logs < MaxLogs
  /\ \E size \in Sizes, t \in Times : stats' = [stats EXCEPT !["write"] = LogIo(@, size, t)]
  /\ logs' = logs + 1
  /\ UNCHANGED reports

LogFdbCall ==
  /\ logs < MaxLogs
  /\ \E k \in FdbKinds, t \in Times : stats' = [stats EXCEPT ![k] = LogFdb(@, t)]
  /\ logs' = logs + 1
  /\ UNCHANGED reports

(* IOStats::report: for every group the averages of sizes and times,      *)
(* guarded by the count.  (The "average read time" line *)
(* after them divides the read Timing by numReads_ without that guard.)   *)
Report ==
  /\ reports' = reports \cup
       {[avg      |-> [k \in Kinds |-> Average(stats[k].time, stats[k].num)],
         avgBytes |-> [k \in IoKinds |-> Average(stats[k].bytes, stats[k].num)]]}
  /\ UNCHANGED <<stats, logs>>

Next == LogRead \/ LogWrite \/ LogFdbCall \/ Report

Spec == Init /\ [][Next]_vars

-----------------------------------------------------------------------------
TypeOK ==
  /\ stats \in [Kinds -> [num: Nat, bytes: Nat, bytes2: Nat, time: Nat, time2: Nat]]
  /\ logs \in 0 .. MaxLogs
  /\ \A k \in Kinds : stats[k].num = 0 => stats[k] = Zero

=============================================================================
