---------------------------- MODULE MCHammer ----------------------------
(* The hammer in thread mode with --nbclients=2 --nbservers=2 and three   *)
(* fields, two of them routed to the first server; a field of three       *)
(* points, so that the first client's map holds two and the second one.   *)
EXTENDS Hammer

CONSTANTS c1, c2, s1, s2

MCClients == {c1, c2}
MCServerOrder == <<s1, s2>>
MCFieldOrder == <<"f1", "f2", "f3">>
MCRoute == [f \in {"f1", "f2", "f3"} |-> IF f = "f2" THEN s2 ELSE s1]
MCClientId == [c \in MCClients |-> IF c = c1 THEN 0 ELSE 1]
=============================================================================
