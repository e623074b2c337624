-------------------------- MODULE MC_SimpleSupplyTP --------------------------
(***************************************************************************)
(* Small instances of SimpleSupplyTP.                                      *)
(***************************************************************************)
EXTENDS SimpleSupplyTP, FiniteSets, TLC

CONSTANTS alice, bob, r1, r2, blank

MC_Keys == {alice, bob}
MC_RecordIds == {r1, r2, blank}
MC_OneRecord == {r1, blank}

(* Records share one address; agents do, or are apart. *)
MC_AgentAddresses == {"agents"}
MC_RecordAddresses == {"records"}
MC_CollidingAgents == [k \in MC_Keys |-> "agents"]
MC_CollidingRecords == [id \in MC_RecordIds |-> "records"]
MC_OneRecordAddress == [id \in MC_OneRecord |-> "records"]

(* Agents apart, in a way that keeps them interchangeable. *)
MC_AgentsApart == [k \in MC_Keys |-> k]

(* The edge of each coordinate, and one past that of the latitude. *)
MC_Latitudes == {MAX_LAT, MAX_LAT + 1}
MC_OneLatitude == {MAX_LAT}
MC_OneLongitude == {MIN_LNG}

(* One record has the longer histories, and others beside it. *)
MC_MaxOwners == [id \in RecordIds |-> IF id = r1 THEN 3 ELSE 1]
MC_MaxLocations == [id \in RecordIds |-> IF id = r1 THEN 2 ELSE 1]
MC_TwoOwners == [id \in RecordIds |-> 2]
MC_OneLocation == [id \in RecordIds |-> 1]

MC_Symmetry == Permutations(MC_Keys)
=============================================================================
