------------------------------- MODULE Hammer -------------------------------
(***************************************************************************)
(* The whole thread-mode run of the hammer                                  *)
(* (src/multio/server/tools/multio-hammer.cc, MultioHammer::execute): the *)
(* clients and listeners of module Listener, the aggregation each server  *)
(* runs on the fields it dispatches, and the check the hammer makes after *)
(* joining every thread: each field file must hold the global test field. *)
(*                                                                         *)
(* A client's partial field holds the global values at the positions of   *)
(* its index map (index_map.to_local); its Mapping message carries the    *)
(* same map.  The aggregation (spec 3, DomainMap; 4.4, Aggregate; not in  *)
(* src/) places the partial field of each client through the Mapping the  *)
(* server stored for it, and once the header's clientCount_ contributions *)
(* are there, the sink writes the field's file.  A value is abstracted to *)
(* the global position it was taken from, so the file holds the global    *)
(* field exactly when it pairs every position 0 .. field_size - 1 with     *)
(* itself and nothing else.                                                 *)
(***************************************************************************)
EXTENDS Naturals, Sequences, FiniteSets, Functions

CONSTANTS
  Clients, ServerOrder, FieldOrder, Route,   \* as in Listener
  ClientId,    \* the client_list_id of each client thread: 0 .. nbclients - 1
  FieldSize    \* field_size(), which execute sets before spawning threads

VARIABLES
  pc, chan, running, openClients, everOpened, heard, mapped, dispatched,
  maps,     \* maps[s][c]: the partial index map of client c stored at server s
  contrib,  \* contrib[s][f]: the clients whose part of field f s holds
  files,    \* files[f]: the file written for field f, position -> value
  verdict   \* the hammer's final check: "running", "pass" or "fail"

L == INSTANCE Listener

lvars == <<pc, chan, running, openClients, everOpened, heard, mapped, dispatched>>
vars == <<lvars, maps, contrib, files, verdict>>

NbClients == Cardinality(Clients)

ASSUME ClientId \in [Clients -> 0 .. NbClients - 1]
       /\ \A c, d \in Clients : ClientId[c] = ClientId[d] => c = d

IM == INSTANCE IndexMap WITH FieldSizes <- {FieldSize},
        ClientCounts <- {NbClients}, fieldSize <- FieldSize,
        nbClients <- NbClients, placed <- {}, writers <- << >>

NoFile == {}

ASSUME FieldSize \in Nat \ {0}

(* sendData: generate_index_map(client_list_id, clientCount_), the map     *)
(* both the Mapping buffer and to_local are made from.                      *)
IndexMapOf(c) == IM!GenerateIndexMap(ClientId[c], NbClients, FieldSize)

(* index_map.to_local(global_field, field): the local field holds, at     *)
(* local position jj, the global value of position maps[jj].               *)
ToLocal(c) == IndexMapOf(c)

(* Aggregate: the global field rebuilt from the parts of the clients in   *)
(* cs, as <<position, value>> pairs: local value jj of client c goes to    *)
(* position maps[jj] of the Mapping s stored for c.                         *)
Reconstruct(s, cs) ==
  UNION {{<<maps[s][c][jj], ToLocal(c)[jj]>> : jj \in DOMAIN maps[s][c]} : c \in cs}

(* The expected content of a field file: global_test_field(field_id).      *)
GlobalField == {<<i, i>> : i \in 0 .. FieldSize - 1}

Init ==
  /\ L!Init
  /\ maps = [s \in L!Servers |-> [c \in Clients |-> << >>]]
  /\ contrib = [s \in L!Servers |-> [f \in L!FieldIds |-> {}]]
  /\ files = [f \in L!FieldIds |-> NoFile]
  /\ verdict = "running"

(* The pipeline behind the listener of s on message m of client c: the   *)
(* Mapping is stored; a Field joins its aggregation, which is emitted to  *)
(* the sink, and evicted, when clientCount_ parts are present.             *)
Pipeline(s, c, m) ==
  CASE m.tag = "Mapping" ->
         /\ maps' = [maps EXCEPT ![s][c] = IndexMapOf(c)]
         /\ UNCHANGED <<contrib, files>>
    [] m.tag = "Field" ->
         LET cs == contrib[s][m.field] \cup {c}
         IN IF Cardinality(cs) = NbClients
            THEN /\ files' = [files EXCEPT ![m.field] = Reconstruct(s, cs)]
                 /\ contrib' = [contrib EXCEPT ![s][m.field] = {}]
                 /\ UNCHANGED maps
            ELSE /\ contrib' = [contrib EXCEPT ![s][m.field] = cs]
                 /\ UNCHANGED <<maps, files>>
    [] OTHER -> UNCHANGED <<maps, contrib, files>>

(* Listener::listen on server s handles the oldest message from c and     *)
(* dispatches it into its pipeline.                                         *)
Receive(s, c) ==
  /\ L!Receive(s, c)
  /\ Pipeline(s, c, Head(chan[c][s]))
  /\ UNCHANGED verdict

Send(c) == L!Send(c) /\ UNCHANGED <<maps, contrib, files, verdict>>

(* execute, after joining the client threads and then the server threads: *)
(* for every step, level and param, ASSERT(expect == actual) on the file. *)
ExpectEqualsActual(f) == files[f] = GlobalField

Check ==
  /\ verdict = "running"
  /\ \A c \in Clients : pc[c] = Len(L!Program)
  /\ \A s \in L!Servers : ~running[s]
  /\ verdict' = IF \A f \in L!FieldIds : ExpectEqualsActual(f) THEN "pass" ELSE "fail"
  /\ UNCHANGED <<lvars, maps, contrib, files>>

(* The hammer has returned.                                                 *)
Done == verdict # "running" /\ UNCHANGED vars

Next ==
  \/ \E c \in Clients : Send(c)
  \/ \E s \in L!Servers, c \in Clients : Receive(s, c)
  \/ Check
  \/ Done

(* As in Listener; the main thread runs the check once the joins return. *)
Fairness ==
  /\ \A c \in Clients : WF_vars(Send(c))
  /\ \A s \in L!Servers, c \in Clients : WF_vars(Receive(s, c))
  /\ WF_vars(Check)

Spec == Init /\ [][Next]_vars /\ Fairness

-----------------------------------------------------------------------------
TypeOK ==
  /\ L!TypeOK
  /\ maps \in [L!Servers -> [Clients -> Seq(0 .. FieldSize - 1)]]
  /\ contrib \in [L!Servers -> [L!FieldIds -> SUBSET Clients]]
  /\ files \in [L!FieldIds -> SUBSET ((0 .. FieldSize - 1) \X Nat)]
  /\ verdict \in {"running", "pass", "fail"}

FieldAfterMapping == L!FieldAfterMapping
StopLeavesNoConnectedClientBehind == L!StopLeavesNoConnectedClientBehind
FileIsGlobalField ==
  \A f \in L!FieldIds : files[f] # NoFile => files[f] = GlobalField

(* The hammer's own test (execute, ASSERT(expect == actual)): when it     *)
(* checks the files after joining every thread, each holds the global     *)
(* test field.                                                              *)
HammerCheckPasses == verdict # "fail"

=============================================================================
