---------------------------- MODULE MCWindspeed ----------------------------
(* Model-checking instance of Windspeed: the default paramIds of the      *)
(* action's configuration (u = 131, v = 132, w = 10) and one other param. *)
EXTENDS Windspeed

MCUParam == "131"
MCVParam == "132"
MCWParam == "10"
MCOtherParams == {"167"}
(* Double and single precision, with and without a bitmap, and an empty  *)
(* payload: enough for every check of applyCalc and for the masking.      *)
MCPayloads ==
  { [prec |-> "double", bytes |-> 8, bitmap |-> FALSE, miss |-> FALSE, exact |-> TRUE],
    [prec |-> "double", bytes |-> 8, bitmap |-> TRUE,  miss |-> TRUE,  exact |-> TRUE],
    [prec |-> "single", bytes |-> 4, bitmap |-> FALSE, miss |-> FALSE, exact |-> TRUE],
    [prec |-> "double", bytes |-> 0, bitmap |-> FALSE, miss |-> FALSE, exact |-> TRUE] }
(* One level: every field of a step is its own FieldIdentity.             *)
MCLevelsOne == {1}
(* Two levels of the same step, as written by a model with pressure       *)
(* levels (the hammer sends nblevels levels per step).                     *)
MCLevelsTwo == {1, 2}
MCSteps == {1, 2}
=============================================================================
