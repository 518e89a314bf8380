---------------------------- MODULE MCIndexMap ----------------------------
(* Field sizes up to 13 and the two sizes the tools use (23, the default  *)
(* of field_size(), and 29, set by execute), for one to five clients.      *)
EXTENDS IndexMap

MCFieldSizes == (0 .. 13) \cup {23, 29}
MCClientCounts == 1 .. 5
=============================================================================
