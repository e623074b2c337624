------------------------------ MODULE MC_RestApi ------------------------------
(***************************************************************************)
(* Small instances of RestApi.                                             *)
(***************************************************************************)
EXTENDS RestApi, TLC

CONSTANTS alice, bob, r1, blank

MC_Keys == {alice, bob}
MC_RecordIds == {r1, blank}
MC_AgentAddresses == {"alice", "bob"}
MC_RecordAddresses == {"r1", "blank"}
MC_get_agent_address == (alice :> "alice") @@ (bob :> "bob")
MC_get_record_address == (r1 :> "r1") @@ (blank :> "blank")

(* Nothing yet, or a record of alice's, and bob cut off before he had an account. *)
MC_Agents == set_agent(set_agent(GenesisState, alice, 0), bob, 0)
MC_Earlier ==
    {[ledger |-> GenesisState, auth |-> {}, clock |-> 0],
     [ledger |-> set_record(MC_Agents, alice, 0, 0, r1, 0), auth |-> {alice}, clock |-> 0]}
=============================================================================
