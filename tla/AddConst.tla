------------------------------ MODULE AddConst ------------------------------
(***************************************************************************)
(* The AddConst action of the multio pipeline                              *)
(* (src/multio/action/add-const/AddConst.cc): a Field with paramId        *)
(* param-is gets the constant added to every element that does not hold   *)
(* the missing value, and is re-labelled map-to-param; every other        *)
(* message is forwarded unchanged.  The stage has no state, so it is a    *)
(* pure operator AcExecute(msg) that a pipeline chains with other stages; *)
(* the constant is not 0 (273.15 by default), so an element it is added   *)
(* to no longer holds the missing value.                                   *)
(***************************************************************************)
EXTENDS Naturals, Sequences, FieldMessage

CONSTANTS
  ParamIs,      \* the configured "param-is"
  MapToParam,   \* the configured "map-to-param"
  OtherParams,  \* paramIds the stage forwards
  Payloads,     \* payload shapes a producer writes (FieldMessage)
  MaxArrivals   \* bound on the number of messages fed in

ASSUME ParamIs \notin OtherParams /\ \A p \in Payloads : IsPayloadShape(p)

(* The result of one executeImpl: what executeNext received, and whether *)
(* the call threw (the message is then lost to the rest of the pipeline). *)
AcOutcome(out, failed) == [out |-> out, failed |-> failed]

(* AddConst::applyAddConst: size elements of the payload's precision are  *)
(* transformed; an element keeps the missing value exactly when the       *)
(* bitmap is present and it compares equal to missingValue.  The new     *)
(* message has the new paramId and a buffer of size * sizeof(Precision)  *)
(* bytes; the precision and the missing value are kept.                    *)
ApplyAddConst(m) ==
  [m EXCEPT !.param = MapToParam, !.bytes = Elements(m) * Width(m.prec),
            !.miss = MissingCompares(m), !.exact = m.exact]

(* Mutation: the paramId early return does not call executeNext.         *)
AcExecuteSwallowOther(m) ==
  CASE m.tag # "Field"       -> AcOutcome(<<m>>, FALSE)
    [] m.param # ParamIs     -> AcOutcome(<< >>, FALSE)
    [] Elements(m) = 0       -> AcOutcome(<< >>, TRUE)
    [] OTHER                 -> AcOutcome(<<ApplyAddConst(m)>>, FALSE)

(* AddConst::executeImpl: the two early returns, then applyAddConst,      *)
(* which throws on an empty payload (fewer bytes than one element).       *)
AcExecute(m) ==
  CASE m.tag # "Field"       -> AcOutcome(<<m>>, FALSE)
    [] m.param # ParamIs     -> AcOutcome(<<m>>, FALSE)
    [] Elements(m) = 0       -> AcOutcome(<< >>, TRUE)
    [] OTHER                 -> AcOutcome(<<ApplyAddConst(m)>>, FALSE)

-----------------------------------------------------------------------------
(* The stage fed by a producer; received and the ids in src are history. *)
VARIABLES received, out, failed

vars == <<received, out, failed>>

Msg == [tag: {"Field", "Flush", "Notification"},
        param: {ParamIs, MapToParam, "none"} \cup OtherParams,
        prec: {"single", "double"}, bytes: Nat, bitmap: BOOLEAN, miss: BOOLEAN,
        exact: BOOLEAN, src: SUBSET Nat]

MkMsg(t, p, pl) ==
  [tag |-> t, param |-> p, prec |-> pl.prec, bytes |-> pl.bytes,
   bitmap |-> pl.bitmap, miss |-> pl.miss, exact |-> pl.exact, src |-> {}]

Inputs ==
  {MkMsg("Field", p, pl) : p \in {ParamIs} \cup OtherParams, pl \in Payloads}
  \cup {MkMsg(t, "none", CHOOSE pl \in Payloads : TRUE) : t \in {"Flush", "Notification"}}

Init ==
  /\ received = << >>
  /\ out = << >>
  /\ failed = {}

(* One message reaches the stage and executeImpl runs to completion.       *)
Execute ==
  /\ Len(received) < MaxArrivals
  /\ \E m0 \in Inputs :
       LET m == [m0 EXCEPT !.src = {Len(received) + 1}]
           r == AcExecute(m)
       IN /\ received' = Append(received, m)
          /\ out' = out \o r.out
          /\ failed' = IF r.failed THEN failed \cup m.src ELSE failed

Next == Execute

Spec == Init /\ [][Next]_vars

-----------------------------------------------------------------------------
TypeOK ==
  /\ received \in Seq(Msg)
  /\ out \in Seq(Msg)
  /\ failed \subseteq DOMAIN received

(* The output message made from input i, if any.                            *)
MadeFrom(i) == {j \in DOMAIN out : out[j].src = {i}}

(* Spec 8, pipeline passthrough: every message leaves the stage exactly   *)
(* once -- unchanged when it is not a Field of param-is, re-labelled       *)
(* map-to-param otherwise -- unless applyAddConst threw on it, which only *)
(* a payload with less than one element makes it do.                      *)
EveryMessageForwarded ==
  \A i \in DOMAIN received :
    LET m == received[i] IN
    IF i \in failed
    THEN MadeFrom(i) = {} /\ m.tag = "Field" /\ m.param = ParamIs /\ Elements(m) = 0
    ELSE \E j \in MadeFrom(i) :
           /\ MadeFrom(i) = {j}
           /\ IF m.tag = "Field" /\ m.param = ParamIs
              THEN out[j].param = MapToParam
              ELSE out[j] = m

(* Spec 8, missing-value masking: if bitmapPresent and input[i] ==        *)
(* missingValue then output[i] == missingValue.                             *)
MissingMasked ==
  \A i \in DOMAIN received, j \in DOMAIN out :
    out[j].src = {i} /\ received[i].bitmap /\ received[i].miss => out[j].miss

=============================================================================
