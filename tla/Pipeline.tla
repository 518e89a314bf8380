------------------------------ MODULE Pipeline ------------------------------
(***************************************************************************)
(* A pipeline of two chained actions, AddConst then Windspeed (spec 4.4): *)
(* each message a producer writes runs through AddConst::executeImpl, and  *)
(* what it passes to executeNext runs through Windspeed::executeImpl, in   *)
(* one dispatch (the pipeline is not re-entrant, spec 5).  An exception of *)
(* either stage loses the message to the rest of the pipeline.            *)
(*                                                                         *)
(* The stages are the operators of modules AddConst and Windspeed; the    *)
(* composition keeps the history of each stage so that the properties of  *)
(* a stage can be checked inside the pipeline.  AddConst may map its      *)
(* param to the u of Windspeed (a component converted before the wind     *)
(* speed is computed), so a u can reach Windspeed from either path.        *)
(***************************************************************************)
EXTENDS Naturals, Sequences, FiniteSets, Functions, FieldMessage

CONSTANTS
  ParamIs, MapToParam,      \* the add-const configuration
  UParam, VParam, WParam,   \* the windspeed configuration
  OtherParams,              \* params neither stage transforms
  Steps, Levels, Payloads, MaxArrivals

VARIABLES
  received,  \* the messages the producer wrote, message i has id i
  acOut,     \* what AddConst passed to executeNext
  acFailed,  \* ids lost to an exception of AddConst
  cache,     \* Windspeed's messageCache_
  out,       \* what Windspeed passed to executeNext: the pipeline's output
  cleared,   \* ids dropped from the cache by a Flush
  wsFailed   \* ids lost to an exception of applyCalc

vars == <<received, acOut, acFailed, cache, out, cleared, wsFailed>>

AC == INSTANCE AddConst WITH out <- acOut, failed <- acFailed,
        OtherParams <- OtherParams \cup {UParam, VParam}
(* The param a field carries after AddConst: its param-is is relabelled. *)
Relabelled(p) == IF p = ParamIs THEN MapToParam ELSE p

(* The inputs as Windspeed sees them.                                     *)
WsView == [i \in DOMAIN received |->
             [received[i] EXCEPT !.param = Relabelled(@)]]

WS == INSTANCE Windspeed WITH failed <- wsFailed, received <- WsView,
        OtherParams <- OtherParams \cup {ParamIs}

(* Fields of the transformed params in every payload shape; the other    *)
(* params in one; Flush and Notification.                                   *)
Inputs ==
  {WS!MkMsg("Field", p, s, l, pl) : p \in {ParamIs, UParam, VParam},
                                    s \in Steps, l \in Levels, pl \in Payloads}
  \cup {WS!MkMsg("Field", p, s, l, WS!AnyPayload) : p \in OtherParams,
                                                   s \in Steps, l \in Levels}
  \cup WS!ControlInputs

(* Each field reaches Windspeed once: a producer writes each field once, *)
(* and not both the param-is and the map-to-param of one step and level  *)
(* (otherwise std::map::insert drops one of the two u's, as the run    *)
(* windspeed_cross_level shows for two levels).                        *)
Fresh(m) ==
  m.tag = "Field" =>
    \A i \in DOMAIN received :
      received[i].tag = "Field" =>
        <<Relabelled(received[i].param), received[i].level, received[i].step>>
          # <<Relabelled(m.param), m.level, m.step>>

Init ==
  /\ received = << >> /\ acOut = << >> /\ acFailed = {}
  /\ cache = << >> /\ out = << >> /\ cleared = {} /\ wsFailed = {}

(* One message is dispatched into the pipeline: AddConst runs, and the    *)
(* message it forwards, if any, runs through Windspeed.                    *)
Execute ==
  /\ Len(received) < MaxArrivals
  /\ \E m0 \in Inputs :
       /\ Fresh(m0)
       /\ LET m == [m0 EXCEPT !.src = {Len(received) + 1}]
              a == AC!AcExecute(m)
              w == IF a.out = << >> THEN WS!Outcome(cache, << >>, {}, {})
                   ELSE WS!WsExecute(cache, a.out[1])
          IN /\ received' = Append(received, m)
             /\ acOut' = acOut \o a.out
             /\ acFailed' = IF a.failed THEN acFailed \cup m.src ELSE acFailed
             /\ cache' = w.cache
             /\ out' = out \o w.out
             /\ cleared' = cleared \cup w.cleared
             /\ wsFailed' = wsFailed \cup w.failed

Next == Execute

Spec == Init /\ [][Next]_vars

-----------------------------------------------------------------------------
TypeOK ==
  /\ received \in Seq(WS!Msg) /\ acOut \in Seq(WS!Msg) /\ out \in Seq(WS!Msg)
  /\ \A k \in DOMAIN cache : k \in ({UParam, VParam} \X Steps) /\ cache[k] \in WS!Msg
  /\ (acFailed \cup cleared \cup wsFailed) \subseteq DOMAIN received

(* The AddConst stage inside the pipeline: every message leaves it once,  *)
(* unchanged or re-labelled, unless applyAddConst threw (module AddConst). *)
EveryMessageForwarded == AC!EveryMessageForwarded

(* Every message written into the pipeline is accounted for exactly once  *)
(* at its end, across both stages: part of one output message (forwarded  *)
(* or combined into one wind speed), waiting in Windspeed's cache,        *)
(* dropped by a Flush, or lost to an exception of AddConst or of          *)
(* Windspeed; a u that AddConst made counts like one the producer wrote.  *)
Fates(i) ==
  { f \in {"out", "cached", "cleared", "failed"} :
      \/ f = "out"     /\ \E j \in DOMAIN out : i \in out[j].src
      \/ f = "cached"  /\ \E k \in DOMAIN cache : i \in cache[k].src
      \/ f = "cleared" /\ i \in cleared
      \/ f = "failed"  /\ i \in acFailed \cup wsFailed }

PipelineAccountsForEveryInput ==
  \A i \in DOMAIN received :
    /\ Cardinality(Fates(i)) = 1
    /\ Cardinality({j \in DOMAIN out : i \in out[j].src}) <= 1

(* The Windspeed stage inside the pipeline (module Windspeed): a wind     *)
(* speed joins one u and one v of its step, whether the u was written as  *)
(* such or made by AddConst, and never a half from before a Flush with    *)
(* one from after it.                                                      *)
CombinesUAndVOfSameStep == WS!CombinesUAndVOfSameStep
NoCombinationAcrossFlush == WS!NoCombinationAcrossFlush

=============================================================================
