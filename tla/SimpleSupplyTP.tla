--------------------------- MODULE SimpleSupplyTP ---------------------------
(***************************************************************************)
(* The Simple Supply transaction processor serving its validator.          *)
(*                                                                         *)
(* The validator hands the processor one transaction after another, in any *)
(* order clients may have sent them; SimpleSupplyHandler.apply validates   *)
(* it against the state and the clock of the machine it runs on, and       *)
(* either writes the state (the validator commits the transaction) or      *)
(* raises InvalidTransaction (the validator drops it).                     *)
(*                                                                         *)
(* Each action is one whole call of apply.  The client chooses every field *)
(* of the transaction, its timestamp included: a timestamp is the clock of *)
(* the machine that built the transaction, and transactions arrive late    *)
(* and out of order, so it is any value of Timestamps.                     *)
(***************************************************************************)
EXTENDS SupplyHandler

CONSTANTS
    Latitudes, Longitudes,   \* coordinates clients send, in millionths of a degree
    NoOne,                   \* not a public key
    MaxClock,                \* bound: the clock stops here
    MaxOwners,               \* bound: owners in the history of each record
    MaxLocations             \* bound: locations in the history of each record

ASSUME ClientAssumption ==
    /\ Latitudes \subseteq Int
    /\ Longitudes \subseteq Int
    /\ NoOne \notin Keys
    /\ MaxClock \in Nat

ASSUME BoundsAssumption ==
    /\ MaxOwners \in [RecordIds -> Nat]
    /\ MaxLocations \in [RecordIds -> Nat]

VARIABLES
    state,       \* the global state the validator keeps
    clock,       \* utcnow() where the processor runs
    response,    \* what the processor answered last
    committed    \* history: the transaction the validator committed last

vars == <<state, clock, response, committed>>

(* From long past to just beyond what the processor will ever tolerate. *)
Timestamps == 0 .. MaxClock + SYNC_TOLERANCE + 1

Transactions ==
         {make_create_agent(k, ts) : k \in Keys, ts \in Timestamps}
    \cup {make_create_record(k, lat, lng, id, ts) :
            k \in Keys, lat \in Latitudes, lng \in Longitudes,
            id \in RecordIds, ts \in Timestamps}
    \cup {make_transfer_record(k, receiver, id, ts) :
            k \in Keys, receiver \in Keys, id \in RecordIds, ts \in Timestamps}
    \cup {make_update_record(k, lat, lng, id, ts) :
            k \in Keys, lat \in Latitudes, lng \in Longitudes,
            id \in RecordIds, ts \in Timestamps}

NoTransaction == [action |-> "NONE", signer |-> NoOne]

Responses == {"NONE", "OK", "INVALID_TRANSACTION"}

-----------------------------------------------------------------------------

Init ==
    /\ state = GenesisState
    /\ clock = 0
    /\ response = "NONE"
    /\ committed = NoTransaction

Commit(t) ==
    /\ ValidTimestamp(t.timestamp, clock)
    /\ response' = "OK"
    /\ committed' = t
    /\ UNCHANGED clock

CreateAgent(k, ts) ==
    LET t == make_create_agent(k, ts) IN
    /\ Commit(t)
    /\ MayCreateAgent(state, t)
    /\ state' = set_agent(state, k, ts)

CreateRecord(k, lat, lng, id, ts) ==
    LET t == make_create_record(k, lat, lng, id, ts) IN
    /\ Commit(t)
    /\ MayCreateRecord(state, t)
    /\ state' = set_record(state, k, lat, lng, id, ts)

TransferRecord(k, receiver, id, ts) ==
    LET t == make_transfer_record(k, receiver, id, ts) IN
    /\ Commit(t)
    /\ MayTransferRecord(state, t)
    /\ Len(get_record(state, id).owners) < MaxOwners[id]
    /\ state' = transfer_record(state, receiver, id, ts)

UpdateRecord(k, lat, lng, id, ts) ==
    LET t == make_update_record(k, lat, lng, id, ts) IN
    /\ Commit(t)
    /\ MayUpdateRecord(state, t)
    /\ Len(get_record(state, id).locations) < MaxLocations[id]
    /\ state' = update_record(state, lat, lng, id, ts)

(* InvalidTransaction, raised before the handler has written anything,     *)
(* whatever the transaction was.                                           *)
Reject ==
    /\ ~\A t \in Transactions : Accepts(state, t, clock)
    /\ response' = "INVALID_TRANSACTION"
    /\ UNCHANGED <<state, clock, committed>>

Tick ==
    /\ clock < MaxClock
    /\ clock' = clock + 1
    /\ UNCHANGED <<state, response, committed>>

Next ==
    \/ \E k \in Keys, ts \in Timestamps : CreateAgent(k, ts)
    \/ \E k \in Keys, lat \in Latitudes, lng \in Longitudes,
          id \in RecordIds, ts \in Timestamps : CreateRecord(k, lat, lng, id, ts)
    \/ \E k \in Keys, receiver \in Keys, id \in RecordIds, ts \in Timestamps :
          TransferRecord(k, receiver, id, ts)
    \/ \E k \in Keys, lat \in Latitudes, lng \in Longitudes,
          id \in RecordIds, ts \in Timestamps : UpdateRecord(k, lat, lng, id, ts)
    \/ Reject
    \/ Tick

Spec == Init /\ [][Next]_vars

-----------------------------------------------------------------------------
(* Properties *)

(* Type invariant. *)
TypeOK ==
    /\ state \in GlobalStates
    /\ clock \in 0 .. MaxClock
    /\ response \in Responses
    /\ committed \in Transactions \cup {NoTransaction}

(* The owner the handler's check on transfers and updates goes by. *)
OwnerIn(s, id) ==
    IF RecordExists(s, id) THEN LatestOwner(get_record(s, id)) ELSE NoOne

CurrentOwner(id) == OwnerIn(state, id)

(***************************************************************************)
(* Identifiers that hash to the same address share a container, yet every  *)
(* entry is found where its identifier says and no identifier is stored    *)
(* twice, so get_agent and get_record never meet a wrong or a second entry *)
(* (state.py:42-44, 87-89, and the loops of transfer_record and            *)
(* update_record that extend every entry that matches).                    *)
(***************************************************************************)
AgentsUniqueAndPlaced ==
    \A a \in AgentAddresses : \A i, j \in DOMAIN state[a] :
        /\ get_agent_address[state[a][i].public_key] = a
        /\ state[a][i].public_key = state[a][j].public_key => i = j

RecordsUniqueAndPlaced ==
    \A a \in RecordAddresses : \A i, j \in DOMAIN state[a] :
        /\ get_record_address[state[a][i].record_id] = a
        /\ state[a][i].record_id = state[a][j].record_id => i = j

EntriesUniqueAndPlaced == AgentsUniqueAndPlaced /\ RecordsUniqueAndPlaced

(***************************************************************************)
(* Every owner in the history of every record is an agent in state: the    *)
(* check of _create_record on the signer and of _transfer_record on the    *)
(* receiver (handler.py:93-95, 115-118) hold for as long as the record.    *)
(***************************************************************************)
OwnersRegistered ==
    \A a \in RecordAddresses : \A i \in DOMAIN state[a] :
        \A j \in DOMAIN state[a][i].owners :
            AgentExists(state, state[a][i].owners[j].agent_id)

(***************************************************************************)
(* However far ahead a client's clock runs, no stored owner or location is *)
(* dated later than the tolerance allows, so within SYNC_TOLERANCE seconds *)
(* the owner of a record can date a transfer after all of its history      *)
(* (_validate_timestamp, handler.py:173-186).                              *)
(***************************************************************************)
HistoryNeverAheadOfTolerance ==
    \A id \in RecordIds : RecordExists(state, id) =>
        LET r == get_record(state, id) IN
        /\ \A j \in DOMAIN r.owners : r.owners[j].timestamp <= clock + SYNC_TOLERANCE
        /\ \A j \in DOMAIN r.locations : r.locations[j].timestamp <= clock + SYNC_TOLERANCE

(***************************************************************************)
(* A record that has an owner changes owner only when that owner signed a  *)
(* transfer of this very record, and then only to the receiver it names,   *)
(* even when the record shares its container with others                   *)
(* (_transfer_record, handler.py:114-133).                                 *)
(***************************************************************************)
ChangeOfOwnerIsSigned(id) ==
    CurrentOwner(id) # NoOne /\ CurrentOwner(id)' # CurrentOwner(id) =>
        /\ committed'.action = "TRANSFER_RECORD"
        /\ committed'.record_id = id
        /\ committed'.signer = CurrentOwner(id)
        /\ committed'.receiving_agent = CurrentOwner(id)'

OwnerConsents == [][\A id \in RecordIds : ChangeOfOwnerIsSigned(id)]_vars

(***************************************************************************)
(* A step never rewrites, reorders or drops the history of a record; it    *)
(* adds at most to the record its transaction names, never to a record     *)
(* that merely shares the container (state.py:133-168).                    *)
(***************************************************************************)
IsExtension(h, g) ==
    /\ Len(h) <= Len(g)
    /\ \A i \in DOMAIN h : g[i] = h[i]

HistoryGrows(id) ==
    LET before == get_record(state, id)
        after  == get_record(state', id)
    IN  /\ RecordExists(state', id)
        /\ IsExtension(before.owners, after.owners)
        /\ IsExtension(before.locations, after.locations)
        /\ after # before => /\ committed'.action \in {"TRANSFER_RECORD", "UPDATE_RECORD"}
                             /\ committed'.record_id = id

HistoriesOnlyGrow ==
    [][\A id \in RecordIds : RecordExists(state, id) => HistoryGrows(id)]_vars

(***************************************************************************)
(* Whether a committed transfer takes effect is decided by its timestamp   *)
(* alone: the receiver becomes the owner when it is later than every       *)
(* timestamp in the history, and otherwise, a tie included, the record     *)
(* stays with its owner (max() in _validate_record_owner, handler.py:160). *)
(***************************************************************************)
LaterThanHistory(id, ts) ==
    LET owners == get_record(state, id).owners
    IN  \A j \in DOMAIN owners : owners[j].timestamp < ts

TransferCommitted(id) ==
    /\ state' # state
    /\ committed'.action = "TRANSFER_RECORD"
    /\ committed'.record_id = id

TimestampDecides(id) ==
    CurrentOwner(id)' = IF LaterThanHistory(id, committed'.timestamp)
                        THEN committed'.receiving_agent
                        ELSE CurrentOwner(id)

NewestTimestampDecides ==
    [][\A id \in RecordIds : TransferCommitted(id) => TimestampDecides(id)]_vars

(***************************************************************************)
(* The validator schedules two transactions in parallel when neither       *)
(* writes what the other one declares.  The addresses clients declare      *)
(* (transaction_creation.py) are enough for that to be sound: executed in  *)
(* either order, the two end in the same state, and each is accepted or    *)
(* rejected alike (apply, handler.py:51-79).                               *)
(***************************************************************************)
MayRunInParallel(t, u) ==
    /\ t.outputs \cap (u.inputs \cup u.outputs) = {}
    /\ u.outputs \cap (t.inputs \cup t.outputs) = {}

ParallelTransactionsCommute ==
    \A t, u \in Transactions : MayRunInParallel(t, u) =>
        /\ apply(apply(state, t, clock), u, clock)
              = apply(apply(state, u, clock), t, clock)
        /\ Accepts(apply(state, t, clock), u, clock) <=> Accepts(state, u, clock)

(***************************************************************************)
(* The processor implements the ownership ledger of RecordOwnership: its   *)
(* containers, histories and timestamps amount to registered agents, one   *)
(* owner per record, and nothing done to a record without its owner.       *)
(***************************************************************************)
Ownership == INSTANCE RecordOwnership WITH
    registered <- {k \in Keys : AgentExists(state, k)},
    owner      <- [id \in RecordIds |-> CurrentOwner(id)],
    signer     <- committed.signer

ImplementsRecordOwnership == Ownership!Spec

(***************************************************************************)
(* What the interface definitions say, and the handler does not do.        *)
(***************************************************************************)

(* protos/record.proto:41 "Ordered oldest to newest by timestamp".         *)
HistoriesOrderedByTimestamp ==
    \A id \in RecordIds : RecordExists(state, id) =>
        LET owners == get_record(state, id).owners
        IN  \A i, j \in DOMAIN owners :
                i < j => owners[i].timestamp <= owners[j].timestamp
=============================================================================
