---------------------------- MODULE SupplyHandler ----------------------------
(***************************************************************************)
(* What one Simple Supply transaction does to the global state.            *)
(*                                                                         *)
(* The guards and effects of processor/simple_supply_tp/handler.py, and    *)
(* the transactions clients build with                                     *)
(* rest_api/simple_supply_rest_api/transaction_creation.py.  Everything    *)
(* here is a pure operator; SimpleSupplyTP turns it into a state machine.  *)
(*                                                                         *)
(* Agent names are left out: the handler stores and never reads them.      *)
(***************************************************************************)
EXTENDS SupplyState

CONSTANT SYNC_TOLERANCE     \* seconds a timestamp may lie ahead of the clock

ASSUME ToleranceAssumption == SYNC_TOLERANCE \in Nat

MAX_LAT == 90 * 1000000
MIN_LAT == -90 * 1000000
MAX_LNG == 180 * 1000000
MIN_LNG == -180 * 1000000

-----------------------------------------------------------------------------
(* Transactions, with the addresses the client declares for each. *)

make_create_agent(k, ts) ==
    [action    |-> "CREATE_AGENT",
     signer    |-> k,
     timestamp |-> ts,
     inputs    |-> {get_agent_address[k]},
     outputs   |-> {get_agent_address[k]}]

make_create_record(k, lat, lng, id, ts) ==
    [action    |-> "CREATE_RECORD",
     signer    |-> k,
     latitude  |-> lat,
     longitude |-> lng,
     record_id |-> id,
     timestamp |-> ts,
     inputs    |-> {get_agent_address[k], get_record_address[id]},
     outputs   |-> {get_record_address[id]}]

(* Faulty variant: the address of the receiving agent is not declared. *)
make_transfer_record_FewInputs(k, receiver, id, ts) ==
    [action          |-> "TRANSFER_RECORD",
     signer          |-> k,
     receiving_agent |-> receiver,
     record_id       |-> id,
     timestamp       |-> ts,
     inputs          |-> {get_agent_address[k], get_record_address[id]},
     outputs         |-> {get_record_address[id]}]

make_transfer_record(k, receiver, id, ts) ==
    [action          |-> "TRANSFER_RECORD",
     signer          |-> k,
     receiving_agent |-> receiver,
     record_id       |-> id,
     timestamp       |-> ts,
     inputs          |-> {get_agent_address[k], get_agent_address[receiver],
                          get_record_address[id]},
     outputs         |-> {get_record_address[id]}]

make_update_record(k, lat, lng, id, ts) ==
    [action    |-> "UPDATE_RECORD",
     signer    |-> k,
     latitude  |-> lat,
     longitude |-> lng,
     record_id |-> id,
     timestamp |-> ts,
     inputs    |-> {get_agent_address[k], get_record_address[id]},
     outputs   |-> {get_record_address[id]}]

-----------------------------------------------------------------------------
(* Validation *)

(* Faulty variant: of several owners with the largest timestamp, the last. *)
LatestPosition_LastOfTies(owners) ==
    CHOOSE i \in DOMAIN owners :
        \A j \in DOMAIN owners :
            \/ owners[j].timestamp < owners[i].timestamp
            \/ owners[j].timestamp = owners[i].timestamp /\ j <= i

(* Faulty variant: the owner added last, whatever the timestamps say. *)
LatestPosition_AddedLast(owners) == Len(owners)

(* Position of the owner max() returns: the first with the largest timestamp. *)
LatestPosition(owners) ==
    CHOOSE i \in DOMAIN owners :
        \A j \in DOMAIN owners :
            \/ owners[j].timestamp < owners[i].timestamp
            \/ owners[j].timestamp = owners[i].timestamp /\ i <= j

LatestOwner(record) == record.owners[LatestPosition(record.owners)].agent_id

ValidRecordOwner(s, k, id) == LatestOwner(get_record(s, id)) = k

ValidLatLng(lat, lng) ==
    /\ MIN_LAT <= lat /\ lat <= MAX_LAT
    /\ MIN_LNG <= lng /\ lng <= MAX_LNG

(* Faulty variant: the subtraction the wrong way round. *)
ValidTimestamp_Reversed(ts, now) == now - ts <= SYNC_TOLERANCE

(* Faulty variant: a timestamp long past is refused as well. *)
ValidTimestamp_Recent(ts, now) ==
    ts - now <= SYNC_TOLERANCE /\ now - ts <= SYNC_TOLERANCE

ValidTimestamp(ts, now) == ts - now <= SYNC_TOLERANCE

-----------------------------------------------------------------------------
(* For each action, when the handler accepts the transaction t.  Whatever  *)
(* it does not accept raises InvalidTransaction before any set_state.      *)

MayCreateAgent(s, t) == ~AgentExists(s, t.signer)

(* Faulty variant: an existing record is not noticed. *)
MayCreateRecord_Again(s, t) ==
    /\ AgentExists(s, t.signer)
    /\ t.record_id # EmptyId
    /\ ValidLatLng(t.latitude, t.longitude)

MayCreateRecord(s, t) ==
    /\ AgentExists(s, t.signer)
    /\ t.record_id # EmptyId
    /\ ~RecordExists(s, t.record_id)
    /\ ValidLatLng(t.latitude, t.longitude)

(* Faulty variants: the receiver, or the signer, is not checked. *)
MayTransferRecord_ToAnyone(s, t) ==
    /\ RecordExists(s, t.record_id)
    /\ ValidRecordOwner(s, t.signer, t.record_id)

MayTransferRecord_ByAnyone(s, t) ==
    /\ AgentExists(s, t.receiving_agent)
    /\ RecordExists(s, t.record_id)

MayTransferRecord(s, t) ==
    /\ AgentExists(s, t.receiving_agent)
    /\ RecordExists(s, t.record_id)
    /\ ValidRecordOwner(s, t.signer, t.record_id)

(* Faulty variant: the signer is not checked. *)
MayUpdateRecord_ByAnyone(s, t) ==
    /\ RecordExists(s, t.record_id)
    /\ ValidLatLng(t.latitude, t.longitude)

MayUpdateRecord(s, t) ==
    /\ RecordExists(s, t.record_id)
    /\ ValidRecordOwner(s, t.signer, t.record_id)
    /\ ValidLatLng(t.latitude, t.longitude)

Accepts(s, t, now) ==
    /\ ValidTimestamp(t.timestamp, now)
    /\ \/ t.action = "CREATE_AGENT"    /\ MayCreateAgent(s, t)
       \/ t.action = "CREATE_RECORD"   /\ MayCreateRecord(s, t)
       \/ t.action = "TRANSFER_RECORD" /\ MayTransferRecord(s, t)
       \/ t.action = "UPDATE_RECORD"   /\ MayUpdateRecord(s, t)

(* The state after an accepted transaction. *)
Effect(s, t) ==
    CASE t.action = "CREATE_AGENT" ->
            set_agent(s, t.signer, t.timestamp)
      [] t.action = "CREATE_RECORD" ->
            set_record(s, t.signer, t.latitude, t.longitude, t.record_id, t.timestamp)
      [] t.action = "TRANSFER_RECORD" ->
            transfer_record(s, t.receiving_agent, t.record_id, t.timestamp)
      [] t.action = "UPDATE_RECORD" ->
            update_record(s, t.latitude, t.longitude, t.record_id, t.timestamp)

(* SimpleSupplyHandler.apply: an invalid transaction leaves the state alone. *)
apply(s, t, now) == IF Accepts(s, t, now) THEN Effect(s, t) ELSE s
=============================================================================
