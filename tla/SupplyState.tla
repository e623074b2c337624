----------------------------- MODULE SupplyState -----------------------------
(***************************************************************************)
(* Global state of the Simple Supply transaction family.                   *)
(*                                                                         *)
(* Models processor/simple_supply_tp/state.py over the Sawtooth global     *)
(* state, with the addressing scheme of simple_supply_addressing and the   *)
(* messages of protos/agent.proto and protos/record.proto.                 *)
(*                                                                         *)
(* The global state maps an address to a container, a sequence of entries. *)
(* An address nobody has written holds the empty container: the code tells *)
(* an absent entry from a stored one only by whether it finds the entry it *)
(* looks for.  An address is a truncated hash, so two identifiers may      *)
(* share one; which do is a parameter.                                     *)
(***************************************************************************)
EXTENDS Integers, Sequences

CONSTANTS
    Keys,                \* public keys
    RecordIds,           \* record identifiers, the empty one included
    EmptyId,             \* the record identifier ''
    AgentAddresses,      \* addresses below NAMESPACE + AGENT_PREFIX
    RecordAddresses,     \* addresses below NAMESPACE + RECORD_PREFIX
    get_agent_address,   \* public key |-> address
    get_record_address   \* record identifier |-> address

ASSUME AddressingAssumption ==
    /\ EmptyId \in RecordIds
    /\ get_agent_address \in [Keys -> AgentAddresses]
    /\ get_record_address \in [RecordIds -> RecordAddresses]
    /\ AgentAddresses \cap RecordAddresses = {}

Addresses == AgentAddresses \cup RecordAddresses

Agent    == [public_key : Keys, timestamp : Nat]
Owner    == [agent_id : Keys, timestamp : Nat]
Location == [latitude : Int, longitude : Int, timestamp : Nat]
Record   == [record_id : RecordIds, owners : Seq(Owner), locations : Seq(Location)]

(***************************************************************************)
(* The states in which every address holds a container of its own kind.    *)
(***************************************************************************)
GlobalStates ==
    {s \in [Addresses -> Seq(Agent) \cup Seq(Record)] :
        /\ \A a \in AgentAddresses : s[a] \in Seq(Agent)
        /\ \A a \in RecordAddresses : s[a] \in Seq(Record)}

GenesisState == [a \in Addresses |-> << >>]

-----------------------------------------------------------------------------

(* get_agent(k) is not None *)
AgentExists(s, k) ==
    LET entries == s[get_agent_address[k]]
    IN  \E i \in DOMAIN entries : entries[i].public_key = k

set_agent(s, k, ts) ==
    [s EXCEPT ![get_agent_address[k]] =
        Append(@, [public_key |-> k, timestamp |-> ts])]

(* Positions, in the container at its address, of the entries named id. *)
RecordPositions(s, id) ==
    LET entries == s[get_record_address[id]]
    IN  {i \in DOMAIN entries : entries[i].record_id = id}

(* get_record(id) is not None *)
RecordExists(s, id) == RecordPositions(s, id) # {}

(* The entry the loop of get_record meets first. *)
get_record(s, id) ==
    LET first == CHOOSE i \in RecordPositions(s, id) :
                    \A j \in RecordPositions(s, id) : i <= j
    IN  s[get_record_address[id]][first]

set_record(s, k, lat, lng, id, ts) ==
    [s EXCEPT ![get_record_address[id]] =
        Append(@, [record_id |-> id,
                   owners    |-> <<[agent_id |-> k, timestamp |-> ts]>>,
                   locations |-> <<[latitude |-> lat, longitude |-> lng,
                                    timestamp |-> ts]>>])]

(* Faulty variant: extends every record of the container. *)
AddOwner_AnyEntry(entries, id, owner) ==
    [i \in DOMAIN entries |-> [entries[i] EXCEPT !.owners = Append(@, owner)]]

AddOwner(entries, id, owner) ==
    [i \in DOMAIN entries |->
        IF entries[i].record_id = id
        THEN [entries[i] EXCEPT !.owners = Append(@, owner)]
        ELSE entries[i]]

AddLocation(entries, id, location) ==
    [i \in DOMAIN entries |->
        IF entries[i].record_id = id
        THEN [entries[i] EXCEPT !.locations = Append(@, location)]
        ELSE entries[i]]

(* Faulty variant: the arguments of the new owner swapped. *)
transfer_record_Swapped(s, k, id, ts) ==
    [s EXCEPT ![get_record_address[id]] =
        AddOwner(@, id, [agent_id |-> id, timestamp |-> ts])]

transfer_record(s, k, id, ts) ==
    [s EXCEPT ![get_record_address[id]] =
        AddOwner(@, id, [agent_id |-> k, timestamp |-> ts])]

update_record(s, lat, lng, id, ts) ==
    [s EXCEPT ![get_record_address[id]] =
        AddLocation(@, id, [latitude |-> lat, longitude |-> lng, timestamp |-> ts])]
=============================================================================
