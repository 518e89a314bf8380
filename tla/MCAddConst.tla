----------------------------- MODULE MCAddConst -----------------------------
(* The add-const of spec scenarios 1 and 2: param-is 167, map-to-param   *)
(* 168, another param 130.  Payloads in both precisions, with a bitmap    *)
(* and a missing element whose value single precision does or does not    *)
(* represent (9999.0 and 9999.9), and payloads whose length is not a       *)
(* whole number of elements (a data buffer sized by the host) or that    *)
(* is empty.                                                               *)
EXTENDS AddConst

MCParamIs == "167"
MCMapToParam == "168"
MCOtherParams == {"130"}
MCPayloads ==
  { [prec |-> "single", bytes |-> 12, bitmap |-> FALSE, miss |-> FALSE, exact |-> TRUE],
    [prec |-> "single", bytes |-> 12, bitmap |-> TRUE,  miss |-> TRUE,  exact |-> TRUE],
    [prec |-> "single", bytes |-> 12, bitmap |-> TRUE,  miss |-> TRUE,  exact |-> FALSE],
    [prec |-> "double", bytes |-> 16, bitmap |-> TRUE,  miss |-> TRUE,  exact |-> FALSE],
    [prec |-> "single", bytes |-> 6,  bitmap |-> FALSE, miss |-> FALSE, exact |-> TRUE],
    [prec |-> "double", bytes |-> 4,  bitmap |-> FALSE, miss |-> FALSE, exact |-> TRUE],
    [prec |-> "double", bytes |-> 0,  bitmap |-> FALSE, miss |-> FALSE, exact |-> TRUE] }
=============================================================================
