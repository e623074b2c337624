-------------------------- MODULE MC_SupplyReplicas --------------------------
(***************************************************************************)
(* Small instances of SupplyReplicas.                                      *)
(***************************************************************************)
EXTENDS SupplyReplicas

CONSTANTS alice, bob, r1, blank, v1, v2

MC_Keys == {alice, bob}
MC_RecordIds == {r1, blank}
MC_AgentAddresses == {"agents"}
MC_RecordAddresses == {"records"}
MC_get_agent_address == [k \in MC_Keys |-> "agents"]
MC_get_record_address == [id \in MC_RecordIds |-> "records"]
=============================================================================
