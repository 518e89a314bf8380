------------------------------- MODULE CApi -------------------------------
(***************************************************************************)
(* The C API boundary of multio (src/multio/api/c/multio_capi.cc): the     *)
(* objects a host program creates (a configuration, a client handle, a    *)
(* metadata object and a data buffer), the failure contexts they own, and *)
(* wrapApiFunction, which turns an exception thrown by a call into an      *)
(* error code, stores its text in the global g_failure_info, and calls    *)
(* the failure handler of the object the call was made on.                *)
(*                                                                         *)
(* Host threads make calls; a call runs to completion in one step, and a  *)
(* thread whose call failed reads multio_error_string in a later step.    *)
(* Text is abstracted to the call that produced it; an exception to the   *)
(* chain of its nested causes, outermost first.                            *)
(***************************************************************************)
EXTENDS Naturals, Sequences, SequencesExt

CONSTANTS
  Threads,      \* host threads calling the API
  Handlers,     \* failure handler functions the host registers
  Exceptions,   \* exception chains a call may throw, outermost first
  ByteSizes,    \* new_size arguments of multio_data_resize
  ChunkArgs,    \* <<pos, size>> arguments of multio_data_set_*_chunk
  MaxCalls      \* bound on the number of API calls

NoCtx == "noctx"      \* a null failureContext
Null == "null"        \* a null multio_handle_t* stored in metadata or data
NoCall == <<>>

ExceptionKinds == {"FailureAware", "eckit", "std", "unknown"}

(* Exceptions are nested only by FailureAwareException (multio's         *)
(* failure handling rethrows with std::throw_with_nested).                  *)
ASSUME \A ch \in Exceptions :
         /\ ch \in Seq(ExceptionKinds) /\ ch # << >>
         /\ \A i \in 1 .. Len(ch) - 1 : ch[i] = "FailureAware"

-----------------------------------------------------------------------------
(* errorValue overloads: the code of one exception by its static type.    *)
ErrorValue(k) ==
  CASE k \in {"FailureAware", "eckit"} -> "ECKIT_EXCEPTION"
    [] k = "std"                       -> "GENERAL_EXCEPTION"
    [] OTHER                           -> "UNKNOWN_EXCEPTION"

(* Mutation: the nested exception is not rethrown, the outer type decides. *)
GetNestedErrorValueShallow(ch) == ErrorValue(ch[1])

(* getNestedErrorValue: rethrow_if_nested and recurse on the cause; a     *)
(* cause of no known type is caught by catch (...).                        *)
RECURSIVE GetNestedErrorValue(_)
GetNestedErrorValue(ch) ==
  IF Len(ch) = 1 THEN ErrorValue(ch[1])
  ELSE IF ch[2] \in {"FailureAware", "eckit", "std"}
       THEN GetNestedErrorValue(Tail(ch))
       ELSE "UNKNOWN_EXCEPTION"

(* The catch clauses of wrapApiFunction: only a FailureAwareException is   *)
(* searched for its nested cause.                                          *)
WrapError(ch) ==
  CASE ch[1] = "FailureAware" -> GetNestedErrorValue(ch)
    [] ch[1] = "eckit"        -> "ECKIT_EXCEPTION"
    [] ch[1] = "std"          -> "GENERAL_EXCEPTION"
    [] OTHER                  -> "UNKNOWN_EXCEPTION"

(* The reference: the code of the innermost cause.                          *)
InnermostError(ch) == ErrorValue(Last(ch))

VARIABLES
  cfg,         \* the configuration: "absent", "live" or "moved" (moved into a handle or server)
  cfgCtx,      \* cc->failureContext: NoCtx or the handler it holds
  mio,         \* the client handle: "absent" or "live"
  mioCtx,      \* mio->failureContext
  md,          \* the metadata object: "absent" or "live"
  mdMio,       \* md->mio
  d,           \* the data buffer: "absent" or "live"
  dMio,        \* d->mio
  dBytes,      \* d->size() in bytes
  initialised, \* the static flag of multio_initialise
  lastError,   \* g_failure_info.lastErrorString: the call that wrote it
  pending,     \* pending[t]: the failed call whose text thread t is to read
  calls,       \* number of API calls made
  \* history variables
  regCfg,      \* the handler the host registered on the configuration
  regMio,      \* the handler the host registered for the handle
  failures,    \* the failed calls: [call, obj, exc, err, expected]
  handled,     \* the handler invocations: [h, call, err]
  readBack,    \* multio_error_string results: [call, got]
  overrun      \* a set_chunk wrote past the end of the buffer

vars == <<cfg, cfgCtx, mio, mioCtx, md, mdMio, d, dMio, dBytes, initialised,
          lastError, pending, calls, regCfg, regMio, failures, handled,
          readBack, overrun>>
objVars == <<cfg, cfgCtx, mio, mioCtx, md, mdMio, d, dMio, dBytes, initialised>>
histVars == <<regCfg, regMio>>

(* Mutation: the data and metadata wrappers pass their mio member itself *)
(* where its failure context is meant.                                      *)
CtxMember(obj) ==
  CASE obj = "cc"  -> cfgCtx
    [] obj = "mio" -> mioCtx
    [] obj = "md"  -> mdMio
    [] obj = "d"   -> dMio
    [] OTHER       -> NoCtx

(* The failure context wrapApiFunction is given for a call on obj.         *)
Ctx(obj) ==
  CASE obj = "cc"  -> cfgCtx
    [] obj = "mio" -> mioCtx
    [] obj = "md"  -> IF mdMio = "mio" THEN mioCtx ELSE NoCtx
    [] obj = "d"   -> IF dMio = "mio" THEN mioCtx ELSE NoCtx
    [] OTHER       -> NoCtx

(* The handler the host expects to hear of a failure on the configuration *)
(* or the handle: the one it registered on that object.                    *)
Expected(obj) ==
  CASE obj = "cc"  -> regCfg
    [] obj = "mio" -> regMio
    [] OTHER       -> NoCtx

Init ==
  /\ cfg = "absent" /\ cfgCtx = NoCtx
  /\ mio = "absent" /\ mioCtx = NoCtx
  /\ md = "absent"  /\ mdMio = Null
  /\ d = "absent"   /\ dMio = Null /\ dBytes = 0
  /\ initialised = FALSE
  /\ lastError = NoCall
  /\ pending = [t \in Threads |-> NoCall]
  /\ calls = 0
  /\ regCfg = NoCtx /\ regMio = NoCtx
  /\ failures = << >> /\ handled = << >> /\ readBack = << >>
  /\ overrun = FALSE

(* A thread makes a call: it has read the text of its last failure.        *)
Calling(t) ==
  /\ pending[t] = NoCall
  /\ calls < MaxCalls
  /\ calls' = calls + 1

(* The catch path of wrapApiFunction for call id on obj throwing ch:      *)
(* g_failure_info.lastErrorString is written, and the handler of the     *)
(* context, if there is one, is called with the code that is returned.    *)
Failure(t, obj, ch) ==
  LET id  == <<t, calls'>>
      err == WrapError(ch)
      ctx == Ctx(obj)
  IN /\ lastError' = id
     /\ handled' = IF ctx # NoCtx
                   THEN Append(handled, [h |-> ctx, call |-> id, err |-> err])
                   ELSE handled
     /\ failures' = Append(failures, [call |-> id, obj |-> obj, exc |-> ch,
                                      err |-> err, expected |-> Expected(obj)])
     /\ pending' = [pending EXCEPT ![t] = id]

NoFailure == UNCHANGED <<lastError, handled, failures, pending>>

(* A call that succeeds and changes nothing the model tracks.              *)
Succeeds == NoFailure /\ UNCHANGED <<objVars, histVars, readBack, overrun>>

(* A call on obj that throws ch from inside its lambda (a failed ASSERT,  *)
(* an exception of MultioClient, of the metadata or of the buffer).       *)
FailingCall(t) ==
  /\ Calling(t)
  /\ \E obj \in {"cc", "mio", "md", "d"}, ch \in Exceptions :
       /\ CASE obj = "cc"  -> cfg = "live"
            [] obj = "mio" -> mio = "live"
            [] obj = "md"  -> md = "live"
            [] obj = "d"   -> d = "live"
       /\ Failure(t, obj, ch)
  /\ UNCHANGED <<objVars, histVars, readBack, overrun>>

(* multio_initialise: eckit::Main::initialise runs when the static flag   *)
(* is not yet set; a second call only warns.                                *)
Initialise(t) ==
  /\ Calling(t)
  /\ initialised' = TRUE
  /\ NoFailure
  /\ UNCHANGED <<cfg, cfgCtx, mio, mioCtx, md, mdMio, d, dMio, dBytes, histVars,
                 readBack, overrun>>

(* multio_new_configuration: a configuration without failure context.     *)
NewConfiguration(t) ==
  /\ Calling(t)
  /\ cfg = "absent"
  /\ cfg' = "live" /\ cfgCtx' = NoCtx /\ regCfg' = NoCtx
  /\ NoFailure
  /\ UNCHANGED <<mio, mioCtx, md, mdMio, d, dMio, dBytes, initialised, regMio,
                 readBack, overrun>>

(* multio_config_set_path and the multio_mpi_* setters: ASSERT(cc), then   *)
(* a change of the configuration's data, wrapped with cc's context.        *)
ConfigCall(t) ==
  /\ Calling(t)
  /\ cfg = "live"
  /\ Succeeds

(* multio_delete_configuration: wrapped without a failure context; valid  *)
(* on a configuration moved into a handle.                                  *)
DeleteConfiguration(t) ==
  /\ Calling(t)
  /\ cfg \in {"live", "moved"}
  /\ cfg' = "absent" /\ cfgCtx' = NoCtx
  /\ NoFailure
  /\ UNCHANGED <<mio, mioCtx, md, mdMio, d, dMio, dBytes, initialised, histVars,
                 readBack, overrun>>

(* multio_config_set_failure_handler: the context is created if needed    *)
(* and its handler set.                                                     *)
ConfigSetFailureHandler(t) ==
  /\ Calling(t)
  /\ cfg = "live"
  /\ \E h \in Handlers : cfgCtx' = h /\ regCfg' = h
  /\ NoFailure
  /\ UNCHANGED <<cfg, mio, mioCtx, md, mdMio, d, dMio, dBytes, initialised, regMio,
                 readBack, overrun>>

(* Mutation: the failure context is left behind in the configuration.     *)
NewHandleKeepContext(t) ==
  /\ Calling(t)
  /\ cfg = "live" /\ mio = "absent"
  /\ mio' = "live" /\ mioCtx' = NoCtx
  /\ cfg' = "moved" /\ cfgCtx' = cfgCtx
  /\ regMio' = regCfg
  /\ NoFailure
  /\ UNCHANGED <<md, mdMio, d, dMio, dBytes, initialised, regCfg, readBack, overrun>>

(* multio_new_handle: the configuration is moved into a new handle, then  *)
(* its failure context is moved into the handle.                           *)
NewHandle(t) ==
  /\ Calling(t)
  /\ cfg = "live" /\ mio = "absent"
  /\ mio' = "live" /\ mioCtx' = cfgCtx
  /\ cfg' = "moved" /\ cfgCtx' = NoCtx
  /\ regMio' = regCfg
  /\ NoFailure
  /\ UNCHANGED <<md, mdMio, d, dMio, dBytes, initialised, regCfg, readBack, overrun>>

(* multio_new_handle_default: a handle without failure context.            *)
NewHandleDefault(t) ==
  /\ Calling(t)
  /\ mio = "absent"
  /\ mio' = "live" /\ mioCtx' = NoCtx /\ regMio' = NoCtx
  /\ NoFailure
  /\ UNCHANGED <<cfg, cfgCtx, md, mdMio, d, dMio, dBytes, initialised, regCfg,
                 readBack, overrun>>

(* multio_delete_handle: wrapped without a failure context.                 *)
DeleteHandle(t) ==
  /\ Calling(t)
  /\ mio = "live"
  /\ mio' = "absent" /\ mioCtx' = NoCtx
  /\ NoFailure
  /\ UNCHANGED <<cfg, cfgCtx, md, mdMio, d, dMio, dBytes, initialised, histVars,
                 readBack, overrun>>

(* multio_start_server: a MultioServer is built from the moved             *)
(* configuration and runs to its end inside the call; the configuration   *)
(* stays behind moved-from, and no later call but its delete reads it.    *)
StartServer(t) ==
  /\ Calling(t)
  /\ cfg = "live"
  /\ cfg' = "moved"
  /\ NoFailure
  /\ UNCHANGED <<cfgCtx, mio, mioCtx, md, mdMio, d, dMio, dBytes, initialised,
                 histVars, readBack, overrun>>

(* multio_handle_set_failure_handler.                                       *)
HandleSetFailureHandler(t) ==
  /\ Calling(t)
  /\ mio = "live"
  /\ \E h \in Handlers : mioCtx' = h /\ regMio' = h
  /\ NoFailure
  /\ UNCHANGED <<cfg, cfgCtx, mio, md, mdMio, d, dMio, dBytes, initialised, regCfg,
                 readBack, overrun>>

(* open_connections, close_connections, flush, notify, write_domain,      *)
(* write_mask_*, write_field_float / double, write_grib_encoded and      *)
(* field_accepted: ASSERT(mio) (and md), the precision key set on md, then *)
(* one MultioClient call, all wrapped with mio's context.  Payloads and   *)
(* metadata values are abstracted; a throw is a FailingCall on mio.       *)
HandleOps == {"open", "close", "grib", "flush", "notify", "domain", "mask",
              "float", "double", "accepted"}

(* The calls that also ASSERT(md).                                          *)
NeedsMetadata(op) == op \notin {"open", "close", "grib"}

HandleCall(t) ==
  /\ Calling(t)
  /\ mio = "live"
  /\ \E op \in HandleOps : NeedsMetadata(op) => md = "live"
  /\ Succeeds

(* multio_new_metadata(md, mio): the new object's mio member is left as   *)
(* value-initialised, a null pointer; mio only routes a failure of the    *)
(* creation itself.                                                         *)
NewMetadata(t) ==
  /\ Calling(t)
  /\ md = "absent"
  /\ md' = "live" /\ mdMio' = Null
  /\ NoFailure
  /\ UNCHANGED <<cfg, cfgCtx, mio, mioCtx, d, dMio, dBytes, initialised, histVars,
                 readBack, overrun>>

(* multio_copy_metadata: the copy carries mdFrom's null mio, so it routes *)
(* failures as md does; it is not tracked as an object of its own.        *)
CopyMetadata(t) ==
  /\ Calling(t)
  /\ md = "live"
  /\ Succeeds

(* multio_metadata_set_int .. set_double_array: ASSERT(md) and the key    *)
(* (and value), then md->set, wrapped with md's context; values are      *)
(* abstracted.                                                              *)
MetadataSet(t) ==
  /\ Calling(t)
  /\ md = "live"
  /\ Succeeds

(* multio_delete_metadata.                                                  *)
DeleteMetadata(t) ==
  /\ Calling(t)
  /\ md = "live"
  /\ md' = "absent" /\ mdMio' = Null
  /\ NoFailure
  /\ UNCHANGED <<cfg, cfgCtx, mio, mioCtx, d, dMio, dBytes, initialised, histVars,
                 readBack, overrun>>

(* multio_data_new(d, mio): likewise, d->mio stays null.                    *)
DataNew(t) ==
  /\ Calling(t)
  /\ d = "absent"
  /\ d' = "live" /\ dMio' = Null /\ dBytes' = 0
  /\ NoFailure
  /\ UNCHANGED <<cfg, cfgCtx, mio, mioCtx, md, mdMio, initialised, histVars,
                 readBack, overrun>>

(* multio_data_delete.                                                      *)
DataDelete(t) ==
  /\ Calling(t)
  /\ d = "live"
  /\ d' = "absent" /\ dBytes' = 0
  /\ NoFailure
  /\ UNCHANGED <<cfg, cfgCtx, mio, mioCtx, md, mdMio, dMio, initialised, histVars,
                 readBack, overrun>>

(* multio_data_zero and multio_data_size: the bytes are zeroed or read;   *)
(* the size stays.                                                          *)
DataZeroOrSize(t) ==
  /\ Calling(t)
  /\ d = "live"
  /\ Succeeds

(* multio_data_resize(d, new_size).                                         *)
DataResize(t) ==
  /\ Calling(t)
  /\ d = "live"
  /\ \E n \in ByteSizes : dBytes' = n
  /\ NoFailure
  /\ UNCHANGED <<cfg, cfgCtx, mio, mioCtx, md, mdMio, d, dMio, initialised, histVars,
                 readBack, overrun>>

(* multio_data_set_float_chunk / set_double_chunk (and the _scalar calls, *)
(* size 1): ASSERT(pos >= 0) and ASSERT(pos * sizeof(T) < d->size()),      *)
(* then elements pos .. pos + size - 1 are written.                         *)
ChunkCheck(pos, size, w) == pos >= 0 /\ pos * w < dBytes

SetChunk(t) ==
  /\ Calling(t)
  /\ d = "live"
  /\ \E ps \in ChunkArgs, w \in {4, 8} :
       IF ChunkCheck(ps[1], ps[2], w)
       THEN /\ overrun' = (overrun \/ (ps[1] + ps[2]) * w > dBytes)
            /\ NoFailure
       ELSE /\ Failure(t, "d", <<"eckit">>)
            /\ UNCHANGED overrun
  /\ UNCHANGED <<objVars, histVars, readBack>>

(* multio_write_field_buffer(mio, md, d, byte_size): the buffer is moved  *)
(* out of d into the dispatched message, leaving d empty.  A byte_size    *)
(* other than 4 or 8 fails the ASSERT before anything is moved.           *)
WriteFieldBuffer(t) ==
  /\ Calling(t)
  /\ mio = "live" /\ md = "live" /\ d = "live"
  /\ \E bs \in {4, 8, 2} :
       IF bs \in {4, 8}
       THEN /\ dBytes' = 0 /\ NoFailure
       ELSE /\ Failure(t, "mio", <<"eckit">>) /\ UNCHANGED dBytes
  /\ UNCHANGED <<cfg, cfgCtx, mio, mioCtx, md, mdMio, d, dMio, initialised, histVars,
                 readBack, overrun>>

(* multio_error_string(err): the text of g_failure_info, read by the       *)
(* thread whose call failed.                                                *)
ReadErrorString(t) ==
  /\ pending[t] # NoCall
  /\ readBack' = Append(readBack, [call |-> pending[t], got |-> lastError])
  /\ pending' = [pending EXCEPT ![t] = NoCall]
  /\ UNCHANGED <<objVars, lastError, calls, histVars, failures, handled, overrun>>

(* Every thread has made its calls and read its errors.                     *)
Idle ==
  /\ calls = MaxCalls
  /\ \A t \in Threads : pending[t] = NoCall
  /\ UNCHANGED vars

Next ==
  \/ \E t \in Threads :
       \/ FailingCall(t) \/ Initialise(t)
       \/ NewConfiguration(t) \/ ConfigCall(t) \/ DeleteConfiguration(t)
       \/ ConfigSetFailureHandler(t) \/ StartServer(t)
       \/ NewHandle(t) \/ NewHandleDefault(t) \/ DeleteHandle(t)
       \/ HandleSetFailureHandler(t) \/ HandleCall(t)
       \/ NewMetadata(t) \/ MetadataSet(t) \/ CopyMetadata(t) \/ DeleteMetadata(t)
       \/ DataNew(t) \/ DataDelete(t) \/ DataZeroOrSize(t) \/ DataResize(t)
       \/ SetChunk(t) \/ WriteFieldBuffer(t) \/ ReadErrorString(t)
  \/ Idle

Spec == Init /\ [][Next]_vars

-----------------------------------------------------------------------------
TypeOK ==
  /\ cfg \in {"absent", "live", "moved"} /\ mio \in {"absent", "live"}
  /\ md \in {"absent", "live"} /\ d \in {"absent", "live"}
  /\ {cfgCtx, mioCtx, regCfg, regMio} \subseteq Handlers \cup {NoCtx}
  /\ {mdMio, dMio} \subseteq {Null, "mio"}
  /\ initialised \in BOOLEAN
  /\ dBytes \in ByteSizes \cup {0}
  /\ calls \in 0 .. MaxCalls
  /\ pending \in [Threads -> {NoCall} \cup (Threads \X (1 .. MaxCalls))]
  /\ \A i \in DOMAIN handled : handled[i].h \in Handlers

(* The call a failure record or handler invocation belongs to.              *)
HandlerCallsOf(id) == {i \in DOMAIN handled : handled[i].call = id}

(* A failed call on the configuration or on the handle calls, exactly     *)
(* once, the handler the host registered for it, and none when it         *)
(* registered none: the failure context follows the configuration into    *)
(* the handle made from it (multio_new_handle) and is replaced by         *)
(* multio_handle_set_failure_handler, whatever the order of the calls of  *)
(* the host's threads.                                                     *)
HandlerOfOwnObject ==
  \A i \in DOMAIN failures :
    failures[i].obj \in {"cc", "mio"} =>
      IF failures[i].expected = NoCtx
      THEN HandlerCallsOf(failures[i].call) = {}
      ELSE \E j \in HandlerCallsOf(failures[i].call) :
             /\ HandlerCallsOf(failures[i].call) = {j}
             /\ handled[j].h = failures[i].expected

(* The code a failed call returns, and that its handler receives, is the  *)
(* code of the innermost nested cause (spec 6: "the failure handler        *)
(* receives the innermost nested error"), as computed by                   *)
(* getNestedErrorValue through the chain of FailureAwareExceptions.        *)
HandlerGetsInnermostError ==
  /\ \A i \in DOMAIN failures : failures[i].err = InnermostError(failures[i].exc)
  /\ \A i \in DOMAIN handled :
       \E k \in DOMAIN failures :
         failures[k].call = handled[i].call /\ failures[k].err = handled[i].err

(* Spec 9: the error information of the C ABI is thread-local, so the text *)
(* multio_error_string gives a thread is that of the thread's own failed   *)
(* call.                                                                   *)
OwnErrorString ==
  \A i \in DOMAIN readBack : readBack[i].got = readBack[i].call

(* Spec 9 (open questions): set_chunk must only write inside the buffer,  *)
(* (pos + size) * sizeof(T) <= buffer_size for every call that succeeds.  *)
ChunkWithinBuffer == ~overrun

=============================================================================
