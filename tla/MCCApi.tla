------------------------------- MODULE MCCApi -------------------------------
(* Two host threads, two handler functions, a buffer of 0, 8 or 12 bytes   *)
(* and chunks that start inside it and may run past its end.               *)
EXTENDS CApi, TLC

CONSTANTS t1, t2, hA, hB

MCThreads == {t1, t2}
MCHandlers == {hA, hB}
MCExceptions == {<<"eckit">>, <<"std">>, <<"unknown">>, <<"FailureAware", "std">>,
                 <<"FailureAware", "FailureAware", "unknown">>}
MCByteSizes == {8, 12}
MCChunkArgs == {<<0, 2>>, <<1, 2>>}

(* Threads are interchangeable, and so are handlers: every property names *)
(* a thread or handler only to compare it with another.                    *)
Symm == Permutations(MCThreads) \cup Permutations(MCHandlers)
=============================================================================
