---------------------------- MODULE MCPipeline ----------------------------
(* add-const with param-is 165 and map-to-param 131, before windspeed with *)
(* its default u = 131, v = 132, w = 10: the converted param becomes the  *)
(* u of the wind speed; 130 is passed through by both.  The payloads are  *)
(* those of MCAddConst: both precisions, a bitmap with a missing element   *)
(* single precision does or does not represent, lengths that are not a    *)
(* whole number of elements, and an empty payload.  One step and one      *)
(* level: a producer writes each param once.                               *)
EXTENDS Pipeline

MCParamIs == "165"
MCUParam == "131"
MCVParam == "132"
MCWParam == "10"
MCOtherParams == {"130"}
MCPayloads ==
  { [prec |-> "single", bytes |-> 12, bitmap |-> FALSE, miss |-> FALSE, exact |-> TRUE],
    [prec |-> "single", bytes |-> 12, bitmap |-> TRUE,  miss |-> TRUE,  exact |-> TRUE],
    [prec |-> "single", bytes |-> 12, bitmap |-> TRUE,  miss |-> TRUE,  exact |-> FALSE],
    [prec |-> "double", bytes |-> 16, bitmap |-> TRUE,  miss |-> TRUE,  exact |-> FALSE],
    [prec |-> "single", bytes |-> 6,  bitmap |-> FALSE, miss |-> FALSE, exact |-> TRUE],
    [prec |-> "double", bytes |-> 4,  bitmap |-> FALSE, miss |-> FALSE, exact |-> TRUE],
    [prec |-> "double", bytes |-> 0,  bitmap |-> FALSE, miss |-> FALSE, exact |-> TRUE] }
=============================================================================
