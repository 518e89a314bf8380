------------------------------ MODULE Listener ------------------------------
(***************************************************************************)
(* The client/server plane: clients that run the hammer's sendData         *)
(* (src/multio/server/tools/multio-hammer.cc), a transport that delivers  *)
(* in order per (source, destination) pair and in any order across         *)
(* sources (spec 4.2, 5), and one Listener per server (spec 4.3).          *)
(*                                                                         *)
(* The Listener class is not part of src/: its receive loop and its        *)
(* termination protocol are modelled from spec section 4.3.  A client     *)
(* opens every server, sends its partial Mapping to every server, sends    *)
(* each field to the server chosen by hash(field_id) mod nbServers, and    *)
(* closes every server.                                                    *)
(***************************************************************************)
EXTENDS Naturals, Sequences, FiniteSets

CONSTANTS
  Clients,      \* client peers
  ServerOrder,  \* the server peers, in the order of the serverPeers vector
  FieldOrder,   \* the field ids in the order of the step/level/param loops
  Route         \* field id -> server: serverPeers[hash(field_id) % nbServers]

Servers == {ServerOrder[i] : i \in DOMAIN ServerOrder}
FieldIds == {FieldOrder[i] : i \in DOMAIN FieldOrder}

ASSUME Route \in [FieldIds -> Servers]

NoField == "none"

Message == [tag: {"Open", "Mapping", "Field", "Close"}, dest: Servers,
            field: FieldIds \cup {NoField}]

-----------------------------------------------------------------------------
(* One message per server of serverPeers, in that order.                   *)
ToEachServer(tag) ==
  [i \in DOMAIN ServerOrder |-> [tag |-> tag, dest |-> ServerOrder[i],
                                 field |-> NoField]]

(* The field loop of sendData: each field to the server of its hash.       *)
FieldMessages ==
  [i \in DOMAIN FieldOrder |-> [tag |-> "Field", dest |-> Route[FieldOrder[i]],
                                field |-> FieldOrder[i]]]

(* Mutation: the partial mappings are sent after the fields.               *)
ProgramLateMapping ==
  ToEachServer("Open") \o FieldMessages \o ToEachServer("Mapping")
    \o ToEachServer("Close")

(* Mutation: the servers are closed before the fields are sent.            *)
ProgramEarlyClose ==
  ToEachServer("Open") \o ToEachServer("Mapping") \o ToEachServer("Close")
    \o FieldMessages

(* MultioHammer::sendData: the sequence of sends of one client.            *)
Program ==
  ToEachServer("Open") \o ToEachServer("Mapping") \o FieldMessages
    \o ToEachServer("Close")

-----------------------------------------------------------------------------
VARIABLES
  pc,          \* pc[c]: number of messages client c has sent
  chan,        \* chan[c][s]: messages from c to s not yet received
  running,     \* running[s]: the receive loop of server s has not returned
  openClients, \* openClients[s]: the Listener's set of open clients
  everOpened,  \* everOpened[s]: at least one Open was seen
  heard,       \* heard[s]: the clients s has received an Open from
  mapped,      \* mapped[s]: the clients whose Mapping s has received
  dispatched   \* dispatched[s]: the <<client, field>> s has dispatched

vars == <<pc, chan, running, openClients, everOpened, heard, mapped, dispatched>>

Init ==
  /\ pc = [c \in Clients |-> 0]
  /\ chan = [c \in Clients |-> [s \in Servers |-> << >>]]
  /\ running = [s \in Servers |-> TRUE]
  /\ openClients = [s \in Servers |-> {}]
  /\ everOpened = [s \in Servers |-> FALSE]
  /\ heard = [s \in Servers |-> {}]
  /\ mapped = [s \in Servers |-> {}]
  /\ dispatched = [s \in Servers |-> {}]

(* Transport::send of the next message of client c's program.  The         *)
(* transport buffers it locally; the send does not wait for the server.   *)
Send(c) ==
  /\ pc[c] < Len(Program)
  /\ LET m == Program[pc[c] + 1]
     IN chan' = [chan EXCEPT ![c][m.dest] = Append(@, m)]
  /\ pc' = [pc EXCEPT ![c] = @ + 1]
  /\ UNCHANGED <<running, openClients, everOpened, heard, mapped, dispatched>>

(* Listener: Open inserts the client into openClients.                     *)
OnOpen(s, c) ==
  /\ openClients' = [openClients EXCEPT ![s] = @ \cup {c}]
  /\ everOpened' = [everOpened EXCEPT ![s] = TRUE]
  /\ heard' = [heard EXCEPT ![s] = @ \cup {c}]
  /\ UNCHANGED <<running, mapped, dispatched>>

OnClose(s, c) ==
  /\ openClients' = [openClients EXCEPT ![s] = @ \ {c}]
  /\ running' = [running EXCEPT ![s] = ~(openClients'[s] = {} /\ everOpened[s])]
  /\ UNCHANGED <<everOpened, heard, mapped, dispatched>>

(* Listener: the Mapping is stored for the domain.                          *)
OnMapping(s, c) ==
  /\ mapped' = [mapped EXCEPT ![s] = @ \cup {c}]
  /\ UNCHANGED <<running, openClients, everOpened, heard, dispatched>>

(* Listener: a Field is dispatched into the pipeline.                       *)
OnField(s, c, f) ==
  /\ dispatched' = [dispatched EXCEPT ![s] = @ \cup {<<c, f>>}]
  /\ UNCHANGED <<running, openClients, everOpened, heard, mapped>>

(* Transport::receive on server s returns the oldest message of some      *)
(* client; the Listener handles it by its tag.                             *)
Receive(s, c) ==
  /\ running[s]
  /\ chan[c][s] # << >>
  /\ chan' = [chan EXCEPT ![c][s] = Tail(@)]
  /\ LET m == Head(chan[c][s])
     IN CASE m.tag = "Open"    -> OnOpen(s, c)
          [] m.tag = "Close"   -> OnClose(s, c)
          [] m.tag = "Mapping" -> OnMapping(s, c)
          [] m.tag = "Field"   -> OnField(s, c, m.field)
  /\ UNCHANGED pc

(* Every client has sent its whole program and every server has returned *)
(* from listen(): the run is over.                                         *)
Finished ==
  /\ \A c \in Clients : pc[c] = Len(Program)
  /\ \A s \in Servers : ~running[s]
  /\ UNCHANGED vars

Next ==
  \/ \E c \in Clients : Send(c)
  \/ \E s \in Servers, c \in Clients : Receive(s, c)
  \/ Finished

(* Each client thread and each server thread is scheduled by the OS; the  *)
(* transport delivers what was sent.  Weak fairness of each is what the   *)
(* threads and the transport guarantee.                                    *)
Fairness ==
  /\ \A c \in Clients : WF_vars(Send(c))
  /\ \A s \in Servers, c \in Clients : WF_vars(Receive(s, c))

Spec == Init /\ [][Next]_vars /\ Fairness

-----------------------------------------------------------------------------
TypeOK ==
  /\ pc \in [Clients -> 0 .. Len(Program)]
  /\ chan \in [Clients -> [Servers -> Seq(Message)]]
  /\ running \in [Servers -> BOOLEAN]
  /\ openClients \in [Servers -> SUBSET Clients]
  /\ everOpened \in [Servers -> BOOLEAN]
  /\ heard \in [Servers -> SUBSET Clients]
  /\ mapped \in [Servers -> SUBSET Clients]
  /\ dispatched \in [Servers -> SUBSET (Clients \X FieldIds)]

(* A field of client c is dispatched only after the server holds c's      *)
(* partial Mapping, which the aggregation needs to place it: the order of *)
(* sendData and the per-pair order of the transport guarantee it, whatever *)
(* the interleaving of clients and servers.                                *)
FieldAfterMapping ==
  \A s \in Servers : \A cf \in dispatched[s] : cf[1] \in mapped[s]

(* When a server's receive loop returns, nothing is left in flight to it  *)
(* from any client it has heard from: every such client closed it as its  *)
(* last message to it, so no field of a connected client is abandoned.    *)
SentAllTo(c, s) ==
  \A i \in DOMAIN Program : Program[i].dest = s => i <= pc[c]

StopLeavesNoConnectedClientBehind ==
  \A s \in Servers :
    ~running[s] => \A c \in heard[s] : chan[c][s] = << >> /\ SentAllTo(c, s)

=============================================================================
