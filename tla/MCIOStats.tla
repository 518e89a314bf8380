----------------------------- MODULE MCIOStats -----------------------------
(* Sizes and times of 1 and 3 units, up to four log calls.                 *)
EXTENDS IOStats

MCSizes == {1, 3}
MCTimes == {1, 3}
=============================================================================
