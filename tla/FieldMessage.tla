---------------------------- MODULE FieldMessage ----------------------------
(***************************************************************************)
(* What the pipeline stages read of a Field payload                        *)
(* (src/multio/action/add-const/AddConst.cc, windspeed/Windspeed.cc).      *)
(*                                                                         *)
(* A payload is its byte length, its precision, and one element that      *)
(* stands for the elements the metadata marks missing: miss says that     *)
(* the element holds the missing value, rounded to the payload's           *)
(* precision, and exact says that the missing value (a double in the       *)
(* metadata) is representable in that precision.                           *)
(***************************************************************************)
EXTENDS Integers

(* sizeof(Precision) of the precision dispatch.                            *)
Width(prec) == IF prec = "single" THEN 4 ELSE 8

(* Mutation: one element too few is counted.                              *)
ElementsOffByOne(m) == (m.bytes - 1) \div Width(m.prec)

(* msg.payload().size() / sizeof(Precision): the number of elements.       *)
Elements(m) == m.bytes \div Width(m.prec)

(* The test "m == value" of a stage, a double missing value against a     *)
(* Precision element: with a bitmap, an element that holds the missing   *)
(* value compares equal only if the rounding to single precision did not *)
(* change it.                                                              *)
MissingCompares(m) == m.bitmap /\ m.miss /\ (m.prec = "double" \/ m.exact)

(* The shapes of payload the producer can write.                           *)
IsPayloadShape(p) ==
  /\ p.prec \in {"single", "double"} /\ p.bytes \in Nat
  /\ p.bitmap \in BOOLEAN /\ p.miss \in BOOLEAN /\ p.exact \in BOOLEAN
  /\ (p.miss => p.bitmap)
=============================================================================
