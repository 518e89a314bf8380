------------------------------ MODULE Windspeed ------------------------------
(***************************************************************************)
(* The Windspeed action of the multio pipeline                             *)
(* (src/multio/action/windspeed/Windspeed.cc).                             *)
(*                                                                         *)
(* The stage keeps a cache of u or v wind fields that wait for their       *)
(* partner.  The cache key is genIdent(paramId, step): the param and the   *)
(* step only.  When the partner arrives the cached message is popped and   *)
(* one field hypot(u, v) is emitted; a Flush clears the cache.  Every     *)
(* other message is forwarded unchanged.                                   *)
(*                                                                         *)
(* The stage is written as a pure operator WsExecute(cache, msg) that     *)
(* returns the new cache and what executeNext received, so that a          *)
(* pipeline module can chain it with the other stages inside one atomic    *)
(* dispatch step (the pipeline is not re-entrant, spec section 5).        *)
(*                                                                         *)
(* Data abstraction: a payload is as in FieldMessage (byte length,        *)
(* precision, one element that may hold the missing value).  hypot       *)
(* itself is not modelled.                                                 *)
(***************************************************************************)
EXTENDS Naturals, Sequences, FiniteSets, Functions, TLC, FieldMessage

CONSTANTS
  UParam, VParam, WParam, \* the configured "u", "v" and "w" paramIds
  OtherParams,            \* paramIds the stage does not combine
  Steps,                  \* values of the "step" metadata key
  Levels,                 \* values of the "level" metadata key
  Payloads,               \* payload shapes a producer writes, records
                          \* [prec, bytes, bitmap, miss, exact]
  MaxArrivals             \* bound on the number of messages fed in

ASSUME UParam # VParam /\ {UParam, VParam} \cap OtherParams = {}
ASSUME \A p \in Payloads : IsPayloadShape(p)
ASSUME MaxArrivals \in Nat

Params == {UParam, VParam, WParam} \cup OtherParams
NoParam == "none"

(* A message: header tag, the metadata keys the stage reads or writes,    *)
(* and src, the ids of the input messages it was made from.               *)
Msg == [tag: {"Field", "Flush", "Notification"},
        param: Params \cup {NoParam}, step: Steps, level: Levels,
        prec: {"single", "double"}, bytes: Nat, bitmap: BOOLEAN,
        miss: BOOLEAN, exact: BOOLEAN, src: SUBSET Nat]

(* The early returns of executeImpl let through every message that is not *)
(* a Field with the u or the v paramId.                                    *)
IsUV(m) == m.tag = "Field" /\ m.param \in {UParam, VParam}

-----------------------------------------------------------------------------
(* Mutation: the step is left out of the cache key.                        *)
KeyNoStep(p, s) == <<p, CHOOSE x \in Steps : TRUE>>

(* Windspeed::genIdent: the cache key is the paramId and the step.        *)
Key(p, s) == <<p, s>>

(* Windspeed::genOtherIdent: the key of the partner component.            *)
OtherKey(p, s) == Key(IF p = UParam THEN VParam ELSE UParam, s)

(* The checks of applyCalc that throw eckit::SeriousBug: different         *)
(* precisions, an empty payload, or payloads of different sizes.          *)
CalcFails(u, v) ==
  u.prec # v.prec \/ Elements(u) = 0 \/ Elements(u) # Elements(v)

(* Windspeed::applyCalc(uMsg, vMsg) when it does not throw.  The result   *)
(* keeps uMsg's header and metadata (level, bitmapPresent, precision),    *)
(* sets paramId to w, and an element becomes the new missing value        *)
(* exactly when it compares equal to the missing value of an input that  *)
(* announced a bitmap; the metadata missingValue is then set to the new   *)
(* value.  The payload is uSize elements of uMsg's precision.             *)
ApplyCalc(u, v) ==
  [u EXCEPT !.param = WParam,
            !.bytes = Elements(u) * Width(u.prec),
            !.miss  = MissingCompares(u) \/ MissingCompares(v),
            !.exact = TRUE,
            !.src   = u.src \cup v.src]

(* The outcome of one call of executeImpl: the new cache, the messages     *)
(* passed to executeNext, the input ids dropped by a Flush, and the ids   *)
(* lost because applyCalc threw.                                           *)
Outcome(c, out, cleared, failed) ==
  [cache |-> c, out |-> out, cleared |-> cleared, failed |-> failed]

(* std::map::insert: a no-op when the key is already present.            *)
CacheInsert(c, k, m) == c @@ (k :> m)

(* Mutation: the partner is read from the cache but not erased.           *)
CacheEraseNoop(c, k) == c

(* messageCache_.erase(otherMsgSearch): the pop of the partner.            *)
CacheErase(c, k) == Restrict(c, DOMAIN c \ {k})

(* Mutation: a Flush is forwarded but the cache is not cleared.            *)
WsExecuteFlushKeepsCache(c, m) ==
  LET k     == Key(m.param, m.step)
      other == OtherKey(m.param, m.step)
      rest  == CacheErase(c, other)
  IN CASE m.tag = "Flush" ->
            Outcome(c, <<m>>, {}, {})
       [] ~IsUV(m) ->
            Outcome(c, <<m>>, {}, {})
       [] other \notin DOMAIN c ->
            Outcome(CacheInsert(c, k, m), << >>, {}, {})
       [] CalcFails(m, c[other]) ->
            Outcome(rest, << >>, {}, m.src \cup c[other].src)
       [] OTHER ->
            Outcome(rest, <<ApplyCalc(m, c[other])>>, {}, {})

(* Windspeed::executeImpl.                                                  *)
WsExecute(c, m) ==
  LET k     == Key(m.param, m.step)
      other == OtherKey(m.param, m.step)
      rest  == CacheErase(c, other)
  IN CASE m.tag = "Flush" ->
            Outcome(<< >>, <<m>>, UNION {x.src : x \in Range(c)}, {})
       [] ~IsUV(m) ->
            Outcome(c, <<m>>, {}, {})
       [] other \notin DOMAIN c ->
            Outcome(CacheInsert(c, k, m), << >>, {}, {})
       [] CalcFails(m, c[other]) ->
            Outcome(rest, << >>, {}, m.src \cup c[other].src)
       [] OTHER ->
            Outcome(rest, <<ApplyCalc(m, c[other])>>, {}, {})

-----------------------------------------------------------------------------
(* The stage fed by a producer.  received is a history variable: the      *)
(* input messages in arrival order, message i has id i.                   *)
VARIABLES cache, out, received, cleared, failed

vars == <<cache, out, received, cleared, failed>>

MkMsg(t, p, s, l, pl) ==
  [tag |-> t, param |-> p, step |-> s, level |-> l, prec |-> pl.prec,
   bytes |-> pl.bytes, bitmap |-> pl.bitmap, miss |-> pl.miss, exact |-> pl.exact,
   src |-> {}]

AnyPayload == CHOOSE pl \in Payloads : TRUE

(* u and v fields of every payload shape; the other params pass through  *)
(* the stage whatever their payload, so one shape is enough for them.     *)
FieldInputs ==
  {MkMsg("Field", p, s, l, pl) : p \in {UParam, VParam}, s \in Steps,
                                 l \in Levels, pl \in Payloads}
  \cup {MkMsg("Field", p, s, l, AnyPayload) : p \in OtherParams, s \in Steps,
                                              l \in Levels}

ControlInputs ==
  {MkMsg(t, NoParam, CHOOSE s \in Steps : TRUE, CHOOSE l \in Levels : TRUE,
         AnyPayload) : t \in {"Flush", "Notification"}}

(* A producer writes each field (param, level, step) once.                 *)
Fresh(m) ==
  m.tag = "Field" =>
    \A i \in DOMAIN received :
      received[i].tag = "Field" =>
        <<received[i].param, received[i].level, received[i].step>>
          # <<m.param, m.level, m.step>>

Init ==
  /\ cache = << >>
  /\ out = << >>
  /\ received = << >>
  /\ cleared = {}
  /\ failed = {}

(* One message reaches the stage and executeImpl runs to completion.       *)
Execute ==
  /\ Len(received) < MaxArrivals
  /\ \E m0 \in FieldInputs \cup ControlInputs :
       /\ Fresh(m0)
       /\ LET m == [m0 EXCEPT !.src = {Len(received) + 1}]
              r == WsExecute(cache, m)
          IN /\ cache' = r.cache
             /\ out' = out \o r.out
             /\ received' = Append(received, m)
             /\ cleared' = cleared \cup r.cleared
             /\ failed' = failed \cup r.failed

Next == Execute

Spec == Init /\ [][Next]_vars

-----------------------------------------------------------------------------
TypeOK ==
  /\ \A k \in DOMAIN cache : k \in ({UParam, VParam} \X Steps) /\ cache[k] \in Msg
  /\ out \in Seq(Msg)
  /\ received \in Seq(Msg)
  /\ cleared \subseteq DOMAIN received
  /\ failed \subseteq DOMAIN received

Combined == {out[i] : i \in {j \in DOMAIN out : out[j].param = WParam}}

(* Every field Windspeed emits was computed from exactly one u field and  *)
(* one v field of the same step, and carries that step: the pairing of   *)
(* genIdent/genOtherIdent over the cache never joins two u's, two v's or   *)
(* two steps, whatever the arrival order and the Flushes in between.       *)
CombinesUAndVOfSameStep ==
  \A w \in Combined :
    \E a, b \in w.src :
      /\ w.src = {a, b}
      /\ received[a].param = UParam /\ received[b].param = VParam
      /\ received[a].step = w.step /\ received[b].step = w.step

(* The spec (section 3) makes the FieldIdentity (param, level, step,       *)
(* ensemble) the correlation key of u and v: a windspeed field is          *)
(* computed from a u and a v of the same level and step.                   *)
CombinesSameFieldIdentity ==
  \A w \in Combined :
    \A a \in w.src :
      received[a].level = w.level /\ received[a].step = w.step

(* A Flush evicts the waiting halves (spec 9): no emitted windspeed field  *)
(* combines a component that arrived before a Flush with one that arrived *)
(* after it, whatever the interleaving of u, v, steps and Flushes.         *)
FlushIds == {i \in DOMAIN received : received[i].tag = "Flush"}

NoCombinationAcrossFlush ==
  \A w \in Combined : \A a, b \in w.src, f \in FlushIds : ~(a < f /\ f < b)

(* Spec 8, missing-value masking and windspeed commutativity: a field    *)
(* the stage passes on that holds the missing value announces it with     *)
(* bitmapPresent, so that a later consumer masks it, whichever of u and v *)
(* arrived first.  applyCalc writes missingValue_ where either input had  *)
(* a missing element but keeps the metadata of the message that arrived  *)
(* second (executeImpl passes msg as uMsg).                               *)
MissingValuesAnnounced == \A j \in DOMAIN out : out[j].miss => out[j].bitmap

=============================================================================
