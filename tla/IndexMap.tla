------------------------------ MODULE IndexMap ------------------------------
(***************************************************************************)
(* The partial index maps of the hammer's clients                          *)
(* (generate_index_map in src/multio/server/tools/multio-hammer.cc) and   *)
(* their use by the server's aggregation, which places every client's     *)
(* partial field into the global field (spec 3, DomainMap, and 4.4,       *)
(* Aggregate; the aggregation code is not part of src/).                   *)
(*                                                                         *)
(* Client id of nbclients gets the global positions id, id + nbclients,   *)
(* id + 2 * nbclients, ...: chunk_size of them.  Integer division and     *)
(* remainder are those of size_t, which agree with \div and % on the      *)
(* naturals.                                                               *)
(***************************************************************************)
EXTENDS Naturals, Sequences, FiniteSets, Functions

CONSTANTS
  FieldSizes,   \* values of field_size()
  ClientCounts  \* values of nbclients

ASSUME FieldSizes \subseteq Nat /\ ClientCounts \subseteq Nat \ {0}

(* Mutation: the remainder test is off by one (<= instead of <).           *)
ChunkSizeOffByOne(id, n, fs) == fs \div n + (IF id <= fs % n THEN 1 ELSE 0)

(* Mutation: the remainder positions are not handed out.                   *)
ChunkSizeNoRemainder(id, n, fs) == fs \div n

(* generate_index_map: chunk_size.                                          *)
ChunkSize(id, n, fs) == fs \div n + (IF id < fs % n THEN 1 ELSE 0)

(* Mutation: the client id is left out of the position.                   *)
GenerateIndexMapNoOffset(id, n, fs) ==
  [jj \in 1 .. ChunkSize(id, n, fs) |-> (jj - 1) * n]

(* generate_index_map: maps[jj] = id + jj * nbclients.                      *)
GenerateIndexMap(id, n, fs) ==
  [jj \in 1 .. ChunkSize(id, n, fs) |-> id + (jj - 1) * n]

(* The reference: the positions of the field that are id modulo n.         *)
Positions(id, n, fs) == {i \in 0 .. fs - 1 : i % n = id}

-----------------------------------------------------------------------------
VARIABLES
  fieldSize,  \* field_size() of this run
  nbClients,  \* number of clients of this run
  placed,     \* clients whose partial field the server has placed
  writers     \* writers[i]: the clients that wrote global position i

vars == <<fieldSize, nbClients, placed, writers>>

ClientIds == 0 .. nbClients - 1

Init ==
  /\ fieldSize \in FieldSizes
  /\ nbClients \in ClientCounts
  /\ placed = {}
  /\ writers = [i \in 0 .. fieldSize - 1 |-> {}]

(* The server places client c's partial field: local value jj goes to      *)
(* global position maps[jj]; a position outside the field is recorded     *)
(* under the position itself so that the properties can see it.           *)
Place(c) ==
  /\ c \notin placed
  /\ LET idx == Range(GenerateIndexMap(c, nbClients, fieldSize))
     IN writers' = [i \in DOMAIN writers \cup idx |->
                      (IF i \in DOMAIN writers THEN writers[i] ELSE {})
                        \cup (IF i \in idx THEN {c} ELSE {})]
  /\ placed' = placed \cup {c}
  /\ UNCHANGED <<fieldSize, nbClients>>

(* Every client has been placed; the aggregated field is complete.         *)
Done ==
  /\ placed = ClientIds
  /\ UNCHANGED vars

Next == (\E c \in ClientIds : Place(c)) \/ Done

Spec == Init /\ [][Next]_vars

-----------------------------------------------------------------------------
TypeOK ==
  /\ fieldSize \in FieldSizes
  /\ nbClients \in ClientCounts
  /\ placed \subseteq ClientIds
  /\ writers \in [0 .. fieldSize - 1 -> SUBSET ClientIds]

(* Each client's map holds exactly the positions of the field that are    *)
(* congruent to its id, without repetition, for every field size and      *)
(* client count (also more clients than positions).                       *)
MapIsResidueClass ==
  \A c \in ClientIds :
    /\ Range(GenerateIndexMap(c, nbClients, fieldSize)) = Positions(c, nbClients, fieldSize)
    /\ Len(GenerateIndexMap(c, nbClients, fieldSize))
         = Cardinality(Positions(c, nbClients, fieldSize))

(* The partial fields never collide, and once every client is placed     *)
(* each global position is written by exactly one client: the maps        *)
(* partition the field.                                                    *)
PartitionOfField ==
  /\ \A i \in DOMAIN writers : Cardinality(writers[i]) <= 1
  /\ placed = ClientIds => \A i \in DOMAIN writers : writers[i] # {}

=============================================================================
