------------------------ MODULE SimpleSupplyTP_proofs ------------------------
(***************************************************************************)
(* Proofs about SimpleSupplyTP, for every number of agents and records,    *)
(* every way their identifiers collide, every tolerance and every bound.   *)
(***************************************************************************)
EXTENDS SimpleSupplyTP, SupplyHandler_proofs

USE AddressingAssumption, ToleranceAssumption, ClientAssumption

-----------------------------------------------------------------------------
(* Type correctness of the processor. *)

LEMMA TimestampsAreNat == Timestamps \subseteq Nat
BY DEF Timestamps

(* Every reachable state is typed: whatever transactions arrive, every     *)
(* address keeps a container of its own kind.                              *)
THEOREM TypeCorrect == Spec => []TypeOK
<1>1. Init => TypeOK
  <2>1. GenesisState \in GlobalStates
    BY GenesisType
  <2> QED BY <2>1 DEF Init, TypeOK, Responses
<1>2. TypeOK /\ [Next]_vars => TypeOK'
  <2> SUFFICES ASSUME TypeOK, [Next]_vars PROVE TypeOK'
    OBVIOUS
  <2> USE DEF TypeOK
  <2>1. ASSUME NEW k \in Keys, NEW ts \in Timestamps, CreateAgent(k, ts)
        PROVE  TypeOK'
    <3>1. state' \in GlobalStates
      BY <2>1, SetAgentType, TimestampsAreNat DEF CreateAgent
    <3>2. committed' \in Transactions
      BY <2>1 DEF CreateAgent, Commit, Transactions
    <3> QED BY <2>1, <3>1, <3>2 DEF CreateAgent, Commit, Responses
  <2>2. ASSUME NEW k \in Keys, NEW lat \in Latitudes, NEW lng \in Longitudes,
               NEW id \in RecordIds, NEW ts \in Timestamps,
               CreateRecord(k, lat, lng, id, ts)
        PROVE  TypeOK'
    <3>1. state' \in GlobalStates
      BY <2>2, SetRecordType, TimestampsAreNat DEF CreateRecord
    <3>2. committed' \in Transactions
      BY <2>2 DEF CreateRecord, Commit, Transactions
    <3> QED BY <2>2, <3>1, <3>2 DEF CreateRecord, Commit, Responses
  <2>3. ASSUME NEW k \in Keys, NEW receiver \in Keys, NEW id \in RecordIds,
               NEW ts \in Timestamps, TransferRecord(k, receiver, id, ts)
        PROVE  TypeOK'
    <3>1. state' \in GlobalStates
      BY <2>3, TransferRecordType, TimestampsAreNat DEF TransferRecord
    <3>2. committed' \in Transactions
      BY <2>3 DEF TransferRecord, Commit, Transactions
    <3> QED BY <2>3, <3>1, <3>2 DEF TransferRecord, Commit, Responses
  <2>4. ASSUME NEW k \in Keys, NEW lat \in Latitudes, NEW lng \in Longitudes,
               NEW id \in RecordIds, NEW ts \in Timestamps,
               UpdateRecord(k, lat, lng, id, ts)
        PROVE  TypeOK'
    <3>1. state' \in GlobalStates
      BY <2>4, UpdateRecordType, TimestampsAreNat DEF UpdateRecord
    <3>2. committed' \in Transactions
      BY <2>4 DEF UpdateRecord, Commit, Transactions
    <3> QED BY <2>4, <3>1, <3>2 DEF UpdateRecord, Commit, Responses
  <2>5. ASSUME Reject PROVE TypeOK'
    BY <2>5 DEF Reject, Responses
  <2>6. CASE Tick
    BY <2>6 DEF Tick
  <2>7. CASE UNCHANGED vars
    BY <2>7 DEF vars
  <2> QED BY <2>1, <2>2, <2>3, <2>4, <2>5, <2>6, <2>7 DEF Next
<1> QED BY <1>1, <1>2, PTL DEF Spec

-----------------------------------------------------------------------------
(* Safety. *)

(* A step is one of the four committed operations or leaves the state alone. *)
LEMMA StepCases ==
    ASSUME [Next]_vars
    PROVE  \/ \E k \in Keys, ts \in Timestamps : CreateAgent(k, ts)
           \/ \E k \in Keys, lat \in Latitudes, lng \in Longitudes,
                 id \in RecordIds, ts \in Timestamps : CreateRecord(k, lat, lng, id, ts)
           \/ \E k \in Keys, receiver \in Keys, id \in RecordIds, ts \in Timestamps :
                 TransferRecord(k, receiver, id, ts)
           \/ \E k \in Keys, lat \in Latitudes, lng \in Longitudes,
                 id \in RecordIds, ts \in Timestamps : UpdateRecord(k, lat, lng, id, ts)
           \/ state' = state /\ committed' = committed
BY DEF Next, vars, Reject, Tick

(* A step that adds to the histories of record id, at address b, and to     *)
(* nothing else: an owner, or a location.                                   *)
OwnerAdded(b, id, o) ==
    /\ DOMAIN state'[b] = DOMAIN state[b]
    /\ \A i \in DOMAIN state[b] :
         /\ state'[b][i].record_id = state[b][i].record_id
         /\ state'[b][i].locations = state[b][i].locations
         /\ state'[b][i].owners = IF state[b][i].record_id = id
                                  THEN Append(state[b][i].owners, o)
                                  ELSE state[b][i].owners
    /\ \A a \in RecordAddresses \ {b} : state'[a] = state[a]
    /\ \A a \in AgentAddresses : state'[a] = state[a]

LocationAdded(b, id, l) ==
    /\ DOMAIN state'[b] = DOMAIN state[b]
    /\ \A i \in DOMAIN state[b] :
         /\ state'[b][i].record_id = state[b][i].record_id
         /\ state'[b][i].owners = state[b][i].owners
         /\ state'[b][i].locations = IF state[b][i].record_id = id
                                     THEN Append(state[b][i].locations, l)
                                     ELSE state[b][i].locations
    /\ \A a \in RecordAddresses \ {b} : state'[a] = state[a]
    /\ \A a \in AgentAddresses : state'[a] = state[a]

(* What each operation does to the state, container by container. *)
LEMMA CreateAgentStep ==
    ASSUME TypeOK, NEW k \in Keys, NEW ts \in Timestamps, CreateAgent(k, ts)
    PROVE  LET b == get_agent_address[k] IN
           /\ state'[b] = Append(state[b], [public_key |-> k, timestamp |-> ts])
           /\ \A a \in AgentAddresses \ {b} : state'[a] = state[a]
           /\ \A a \in RecordAddresses : state'[a] = state[a]
           /\ \A i \in DOMAIN state[b] : state[b][i].public_key # k
<1>1. state \in GlobalStates /\ ts \in Nat
  BY TimestampsAreNat DEF TypeOK
<1>2. state' = set_agent(state, k, ts)
  BY DEF CreateAgent
<1>3. \A i \in DOMAIN state[get_agent_address[k]] :
        state[get_agent_address[k]][i].public_key # k
  BY DEF CreateAgent, MayCreateAgent, AgentExists, make_create_agent
<1> QED BY <1>1, <1>2, <1>3, SetAgentFrame

LEMMA CreateRecordStep ==
    ASSUME TypeOK, NEW k \in Keys, NEW lat \in Latitudes, NEW lng \in Longitudes,
           NEW id \in RecordIds, NEW ts \in Timestamps,
           CreateRecord(k, lat, lng, id, ts)
    PROVE  LET b == get_record_address[id] IN
           /\ state'[b] = Append(state[b],
                [record_id |-> id,
                 owners    |-> <<[agent_id |-> k, timestamp |-> ts]>>,
                 locations |-> <<[latitude |-> lat, longitude |-> lng,
                                  timestamp |-> ts]>>])
           /\ \A a \in RecordAddresses \ {b} : state'[a] = state[a]
           /\ \A a \in AgentAddresses : state'[a] = state[a]
           /\ \A i \in DOMAIN state[b] : state[b][i].record_id # id
           /\ AgentExists(state, k)
           /\ ValidTimestamp(ts, clock)
<1>1. state \in GlobalStates /\ ts \in Nat /\ lat \in Int /\ lng \in Int
  BY TimestampsAreNat DEF TypeOK
<1>2. state' = set_record(state, k, lat, lng, id, ts)
  BY DEF CreateRecord
<1>3. \A i \in DOMAIN state[get_record_address[id]] :
        state[get_record_address[id]][i].record_id # id
  BY DEF CreateRecord, MayCreateRecord, RecordExists, RecordPositions,
         make_create_record
<1>4. AgentExists(state, k) /\ ValidTimestamp(ts, clock)
  BY DEF CreateRecord, MayCreateRecord, Commit, make_create_record
<1> QED BY <1>1, <1>2, <1>3, <1>4, SetRecordFrame

LEMMA TransferRecordGuard ==
    ASSUME NEW k \in Keys, NEW receiver \in Keys, NEW id \in RecordIds,
           NEW ts \in Timestamps, TransferRecord(k, receiver, id, ts)
    PROVE  /\ AgentExists(state, receiver)
           /\ RecordExists(state, id)
           /\ LatestOwner(get_record(state, id)) = k
           /\ ValidTimestamp(ts, clock)
BY DEF TransferRecord, MayTransferRecord, ValidRecordOwner, Commit,
       make_transfer_record

LEMMA TransferRecordStep ==
    ASSUME TypeOK, NEW k \in Keys, NEW receiver \in Keys, NEW id \in RecordIds,
           NEW ts \in Timestamps, TransferRecord(k, receiver, id, ts)
    PROVE  OwnerAdded(get_record_address[id], id,
                      [agent_id |-> receiver, timestamp |-> ts])
<1> DEFINE b == get_record_address[id]
           o == [agent_id |-> receiver, timestamp |-> ts]
<1>1. state \in GlobalStates /\ ts \in Nat
  BY TimestampsAreNat DEF TypeOK
<1>2. state[b] \in Seq(Record) /\ o \in Owner
  BY <1>1, ContainerType DEF Owner
<1>3. state' = transfer_record(state, receiver, id, ts)
  BY DEF TransferRecord
<1>4. /\ state'[b] = AddOwner(state[b], id, o)
      /\ \A a \in RecordAddresses \ {b} : state'[a] = state[a]
      /\ \A a \in AgentAddresses : state'[a] = state[a]
  BY <1>1, <1>3, TransferRecordFrame
<1> HIDE DEF o
<1>5. OwnerAdded(b, id, o)
  BY <1>2, <1>4, AddOwnerEntries DEF OwnerAdded
<1> QED BY <1>5 DEF o

LEMMA UpdateRecordGuard ==
    ASSUME NEW k \in Keys, NEW lat \in Latitudes, NEW lng \in Longitudes,
           NEW id \in RecordIds, NEW ts \in Timestamps,
           UpdateRecord(k, lat, lng, id, ts)
    PROVE  /\ RecordExists(state, id)
           /\ LatestOwner(get_record(state, id)) = k
           /\ ValidTimestamp(ts, clock)
BY DEF UpdateRecord, MayUpdateRecord, ValidRecordOwner, Commit,
       make_update_record

LEMMA UpdateRecordStep ==
    ASSUME TypeOK, NEW k \in Keys, NEW lat \in Latitudes, NEW lng \in Longitudes,
           NEW id \in RecordIds, NEW ts \in Timestamps,
           UpdateRecord(k, lat, lng, id, ts)
    PROVE  LocationAdded(get_record_address[id], id,
                         [latitude |-> lat, longitude |-> lng, timestamp |-> ts])
<1> DEFINE b == get_record_address[id]
           l == [latitude |-> lat, longitude |-> lng, timestamp |-> ts]
<1>1. state \in GlobalStates /\ ts \in Nat /\ lat \in Int /\ lng \in Int
  BY TimestampsAreNat DEF TypeOK
<1>2. state[b] \in Seq(Record) /\ l \in Location
  BY <1>1, ContainerType DEF Location
<1>3. state' = update_record(state, lat, lng, id, ts)
  BY DEF UpdateRecord
<1>4. /\ state'[b] = AddLocation(state[b], id, l)
      /\ \A a \in RecordAddresses \ {b} : state'[a] = state[a]
      /\ \A a \in AgentAddresses : state'[a] = state[a]
  BY <1>1, <1>3, UpdateRecordFrame
<1> HIDE DEF l
<1>5. LocationAdded(b, id, l)
  BY <1>2, <1>4, AddLocationEntries DEF LocationAdded
<1> QED BY <1>5 DEF l

(* Agents that share an address neither hide nor replace one another. *)
LEMMA AgentsUniqueAndPlacedStep ==
    ASSUME TypeOK, AgentsUniqueAndPlaced, [Next]_vars
    PROVE  AgentsUniqueAndPlaced'
<1>1. ASSUME \A a \in AgentAddresses : state'[a] = state[a]
      PROVE  AgentsUniqueAndPlaced'
  BY <1>1 DEF AgentsUniqueAndPlaced
<1>2. ASSUME NEW k \in Keys, NEW ts \in Timestamps, CreateAgent(k, ts)
      PROVE  AgentsUniqueAndPlaced'
  <2> DEFINE b == get_agent_address[k]
             e == [public_key |-> k, timestamp |-> ts]
  <2>1. /\ state'[b] = Append(state[b], e)
        /\ \A a \in AgentAddresses \ {b} : state'[a] = state[a]
    BY <1>2, CreateAgentStep
  <2>2. \A i \in DOMAIN state[b] : state[b][i].public_key # k
    BY <1>2, CreateAgentStep
  <2>3. state[b] \in Seq(Agent)
    BY DEF TypeOK, GlobalStates
  <2>4. b \in AgentAddresses /\ e.public_key = k
    OBVIOUS
  <2> HIDE DEF e
  <2>5. \A i \in DOMAIN state'[b] :
          \/ i \in DOMAIN state[b] /\ state'[b][i] = state[b][i]
          \/ i = Len(state[b]) + 1 /\ state'[b][i] = e
    BY <2>1, <2>3
  <2>6. \A i, j \in DOMAIN state'[b] :
          /\ get_agent_address[state'[b][i].public_key] = b
          /\ state'[b][i].public_key = state'[b][j].public_key => i = j
    BY <2>2, <2>4, <2>5 DEF AgentsUniqueAndPlaced
  <2>7. \A a \in AgentAddresses \ {b} : \A i, j \in DOMAIN state'[a] :
          /\ get_agent_address[state'[a][i].public_key] = a
          /\ state'[a][i].public_key = state'[a][j].public_key => i = j
    BY <2>1 DEF AgentsUniqueAndPlaced
  <2> HIDE DEF b
  <2> QED BY <2>6, <2>7 DEF AgentsUniqueAndPlaced
<1>3. ASSUME NEW k \in Keys, NEW lat \in Latitudes, NEW lng \in Longitudes,
             NEW id \in RecordIds, NEW ts \in Timestamps,
             CreateRecord(k, lat, lng, id, ts)
      PROVE  AgentsUniqueAndPlaced'
  BY <1>1, <1>3, CreateRecordStep
<1>4. ASSUME NEW k \in Keys, NEW receiver \in Keys, NEW id \in RecordIds,
             NEW ts \in Timestamps, TransferRecord(k, receiver, id, ts)
      PROVE  AgentsUniqueAndPlaced'
  BY <1>1, <1>4, TransferRecordStep DEF OwnerAdded
<1>5. ASSUME NEW k \in Keys, NEW lat \in Latitudes, NEW lng \in Longitudes,
             NEW id \in RecordIds, NEW ts \in Timestamps,
             UpdateRecord(k, lat, lng, id, ts)
      PROVE  AgentsUniqueAndPlaced'
  BY <1>1, <1>5, UpdateRecordStep DEF LocationAdded
<1> QED BY <1>1, <1>2, <1>3, <1>4, <1>5, StepCases

(* Nor do records. *)
LEMMA RecordsUniqueAndPlacedStep ==
    ASSUME TypeOK, RecordsUniqueAndPlaced, [Next]_vars
    PROVE  RecordsUniqueAndPlaced'
<1>1. ASSUME \A a \in RecordAddresses :
               /\ DOMAIN state'[a] = DOMAIN state[a]
               /\ \A i \in DOMAIN state[a] : state'[a][i].record_id = state[a][i].record_id
      PROVE  RecordsUniqueAndPlaced'
  BY <1>1 DEF RecordsUniqueAndPlaced
<1>2. ASSUME NEW k \in Keys, NEW ts \in Timestamps, CreateAgent(k, ts)
      PROVE  RecordsUniqueAndPlaced'
  BY <1>1, <1>2, CreateAgentStep
<1>3. ASSUME NEW k \in Keys, NEW lat \in Latitudes, NEW lng \in Longitudes,
             NEW id \in RecordIds, NEW ts \in Timestamps,
             CreateRecord(k, lat, lng, id, ts)
      PROVE  RecordsUniqueAndPlaced'
  <2> DEFINE b == get_record_address[id]
             e == [record_id |-> id,
                   owners    |-> <<[agent_id |-> k, timestamp |-> ts]>>,
                   locations |-> <<[latitude |-> lat, longitude |-> lng,
                                    timestamp |-> ts]>>]
  <2>1. /\ state'[b] = Append(state[b], e)
        /\ \A a \in RecordAddresses \ {b} : state'[a] = state[a]
        /\ \A i \in DOMAIN state[b] : state[b][i].record_id # id
    BY <1>3, CreateRecordStep
  <2>2. state[b] \in Seq(Record) /\ b \in RecordAddresses
    BY DEF TypeOK, GlobalStates
  <2>3. e.record_id = id
    OBVIOUS
  <2> HIDE DEF e
  <2>4. \A i \in DOMAIN state'[b] :
          \/ i \in DOMAIN state[b] /\ state'[b][i] = state[b][i]
          \/ i = Len(state[b]) + 1 /\ state'[b][i] = e
    BY <2>1, <2>2
  <2>5. \A i, j \in DOMAIN state'[b] :
          /\ get_record_address[state'[b][i].record_id] = b
          /\ state'[b][i].record_id = state'[b][j].record_id => i = j
    BY <2>1, <2>2, <2>3, <2>4 DEF RecordsUniqueAndPlaced
  <2>6. \A a \in RecordAddresses \ {b} : \A i, j \in DOMAIN state'[a] :
          /\ get_record_address[state'[a][i].record_id] = a
          /\ state'[a][i].record_id = state'[a][j].record_id => i = j
    BY <2>1 DEF RecordsUniqueAndPlaced
  <2> HIDE DEF b
  <2> QED BY <2>5, <2>6 DEF RecordsUniqueAndPlaced
<1>4. ASSUME NEW k \in Keys, NEW receiver \in Keys, NEW id \in RecordIds,
             NEW ts \in Timestamps, TransferRecord(k, receiver, id, ts)
      PROVE  RecordsUniqueAndPlaced'
  BY <1>1, <1>4, TransferRecordStep DEF OwnerAdded
<1>5. ASSUME NEW k \in Keys, NEW lat \in Latitudes, NEW lng \in Longitudes,
             NEW id \in RecordIds, NEW ts \in Timestamps,
             UpdateRecord(k, lat, lng, id, ts)
      PROVE  RecordsUniqueAndPlaced'
  BY <1>1, <1>5, UpdateRecordStep DEF LocationAdded
<1> QED BY <1>1, <1>2, <1>3, <1>4, <1>5, StepCases

(* Every entry is stored where its identifier hashes to, and only once,    *)
(* whichever identifiers collide.                                          *)
THEOREM EntriesStayUniqueAndPlaced == Spec => []EntriesUniqueAndPlaced
<1>1. Init => EntriesUniqueAndPlaced
  BY DEF Init, GenesisState, Addresses, EntriesUniqueAndPlaced,
         AgentsUniqueAndPlaced, RecordsUniqueAndPlaced
<1>2. TypeOK /\ EntriesUniqueAndPlaced /\ [Next]_vars => EntriesUniqueAndPlaced'
  BY AgentsUniqueAndPlacedStep, RecordsUniqueAndPlacedStep DEF EntriesUniqueAndPlaced
<1> QED BY <1>1, <1>2, TypeCorrect, PTL DEF Spec

(* No operation forgets an agent. *)
LEMMA AgentsPersist ==
    ASSUME TypeOK, [Next]_vars, NEW q \in Keys, AgentExists(state, q)
    PROVE  AgentExists(state', q)
<1>1. ASSUME \A a \in AgentAddresses : state'[a] = state[a]
      PROVE  AgentExists(state', q)
  BY <1>1 DEF AgentExists
<1>2. ASSUME NEW k \in Keys, NEW ts \in Timestamps, CreateAgent(k, ts)
      PROVE  AgentExists(state', q)
  <2> DEFINE b == get_agent_address[k]
             e == [public_key |-> k, timestamp |-> ts]
  <2>1. /\ state'[b] = Append(state[b], e)
        /\ \A a \in AgentAddresses \ {b} : state'[a] = state[a]
    BY <1>2, CreateAgentStep
  <2>2. state[b] \in Seq(Agent)
    BY DEF TypeOK, GlobalStates
  <2> HIDE DEF e
  <2>3. \A i \in DOMAIN state[b] : i \in DOMAIN state'[b] /\ state'[b][i] = state[b][i]
    BY <2>1, <2>2
  <2> QED BY <2>1, <2>3 DEF AgentExists
<1>3. ASSUME NEW k \in Keys, NEW lat \in Latitudes, NEW lng \in Longitudes,
             NEW id \in RecordIds, NEW ts \in Timestamps,
             CreateRecord(k, lat, lng, id, ts)
      PROVE  AgentExists(state', q)
  BY <1>1, <1>3, CreateRecordStep
<1>4. ASSUME NEW k \in Keys, NEW receiver \in Keys, NEW id \in RecordIds,
             NEW ts \in Timestamps, TransferRecord(k, receiver, id, ts)
      PROVE  AgentExists(state', q)
  BY <1>1, <1>4, TransferRecordStep DEF OwnerAdded
<1>5. ASSUME NEW k \in Keys, NEW lat \in Latitudes, NEW lng \in Longitudes,
             NEW id \in RecordIds, NEW ts \in Timestamps,
             UpdateRecord(k, lat, lng, id, ts)
      PROVE  AgentExists(state', q)
  BY <1>1, <1>5, UpdateRecordStep DEF LocationAdded
<1> QED BY <1>1, <1>2, <1>3, <1>4, <1>5, StepCases

(***************************************************************************)
(* Where the entries of the owner histories of a state come from: a step   *)
(* keeps them, and adds one that is dated within the tolerance and names   *)
(* an agent.                                                               *)
(***************************************************************************)
OldOrNewOwner(a, i, j) ==
    \/ /\ i \in DOMAIN state[a]
       /\ j \in DOMAIN state[a][i].owners
       /\ state'[a][i].owners[j] = state[a][i].owners[j]
    \/ /\ AgentExists(state, state'[a][i].owners[j].agent_id)
       /\ ValidTimestamp(state'[a][i].owners[j].timestamp, clock)

LEMMA OwnersGrowByAgents ==
    ASSUME TypeOK, [Next]_vars, NEW a \in RecordAddresses,
           NEW i \in DOMAIN state'[a], NEW j \in DOMAIN state'[a][i].owners
    PROVE  OldOrNewOwner(a, i, j)
<1>1. ASSUME state'[a] = state[a] PROVE OldOrNewOwner(a, i, j)
  BY <1>1 DEF OldOrNewOwner
<1>2. ASSUME NEW k \in Keys, NEW ts \in Timestamps, CreateAgent(k, ts)
      PROVE  OldOrNewOwner(a, i, j)
  BY <1>1, <1>2, CreateAgentStep
<1>3. ASSUME NEW k \in Keys, NEW lat \in Latitudes, NEW lng \in Longitudes,
             NEW id \in RecordIds, NEW ts \in Timestamps,
             CreateRecord(k, lat, lng, id, ts)
      PROVE  OldOrNewOwner(a, i, j)
  <2> DEFINE b == get_record_address[id]
             o == [agent_id |-> k, timestamp |-> ts]
             e == [record_id |-> id,
                   owners    |-> <<o>>,
                   locations |-> <<[latitude |-> lat, longitude |-> lng,
                                    timestamp |-> ts]>>]
  <2>1. /\ state'[b] = Append(state[b], e)
        /\ a # b => state'[a] = state[a]
        /\ AgentExists(state, k)
        /\ ValidTimestamp(ts, clock)
    BY <1>3, CreateRecordStep
  <2>2. state[b] \in Seq(Record)
    BY DEF TypeOK, GlobalStates
  <2>3. e.owners = <<o>>
    OBVIOUS
  <2>4. o.agent_id = k /\ o.timestamp = ts
    OBVIOUS
  <2> HIDE DEF e, o
  <2>5. CASE a = b
    <3>1. \/ i \in DOMAIN state[a] /\ state'[a][i] = state[a][i]
          \/ state'[a][i] = e
      BY <2>1, <2>2, <2>5
    <3>2. CASE i \in DOMAIN state[a] /\ state'[a][i] = state[a][i]
      BY <3>2 DEF OldOrNewOwner
    <3>3. CASE state'[a][i] = e
      <4>1. state'[a][i].owners[j] = o
        BY <2>3, <3>3
      <4> QED BY <2>1, <2>4, <4>1 DEF OldOrNewOwner
    <3> QED BY <3>1, <3>2, <3>3
  <2> QED BY <1>1, <2>1, <2>5
<1>4. ASSUME NEW k \in Keys, NEW receiver \in Keys, NEW id \in RecordIds,
             NEW ts \in Timestamps, TransferRecord(k, receiver, id, ts)
      PROVE  OldOrNewOwner(a, i, j)
  <2> DEFINE b == get_record_address[id]
             o == [agent_id |-> receiver, timestamp |-> ts]
  <2>1. /\ DOMAIN state'[b] = DOMAIN state[b]
        /\ \A m \in DOMAIN state[b] :
             \/ state'[b][m].owners = Append(state[b][m].owners, o)
             \/ state'[b][m].owners = state[b][m].owners
        /\ \A c \in RecordAddresses \ {b} : state'[c] = state[c]
    <3>1. OwnerAdded(b, id, o)
      BY <1>4, TransferRecordStep
    <3> QED BY <3>1 DEF OwnerAdded
  <2>2. AgentExists(state, receiver) /\ ValidTimestamp(ts, clock)
    BY <1>4, TransferRecordGuard
  <2>3. o.agent_id = receiver /\ o.timestamp = ts
    OBVIOUS
  <2> HIDE DEF o, b
  <2>4. CASE a = b
    <3>1. i \in DOMAIN state[a]
      BY <2>1, <2>4
    <3>2. state[a][i].owners \in Seq(Owner)
      BY <3>1, EntryType DEF TypeOK
    <3>3. CASE state'[a][i].owners = state[a][i].owners
      BY <3>1, <3>3 DEF OldOrNewOwner
    <3>4. CASE state'[a][i].owners = Append(state[a][i].owners, o)
      <4>1. \/ j \in DOMAIN state[a][i].owners
                /\ state'[a][i].owners[j] = state[a][i].owners[j]
            \/ state'[a][i].owners[j] = o
        BY <3>2, <3>4
      <4> QED BY <2>2, <2>3, <3>1, <4>1 DEF OldOrNewOwner
    <3> QED BY <2>1, <2>4, <3>1, <3>3, <3>4
  <2> QED BY <1>1, <2>1, <2>4
<1>5. ASSUME NEW k \in Keys, NEW lat \in Latitudes, NEW lng \in Longitudes,
             NEW id \in RecordIds, NEW ts \in Timestamps,
             UpdateRecord(k, lat, lng, id, ts)
      PROVE  OldOrNewOwner(a, i, j)
  <2> DEFINE b == get_record_address[id]
             l == [latitude |-> lat, longitude |-> lng, timestamp |-> ts]
  <2>1. /\ DOMAIN state'[b] = DOMAIN state[b]
        /\ \A m \in DOMAIN state[b] : state'[b][m].owners = state[b][m].owners
        /\ \A c \in RecordAddresses \ {b} : state'[c] = state[c]
    <3>1. LocationAdded(b, id, l)
      BY <1>5, UpdateRecordStep
    <3> QED BY <3>1 DEF LocationAdded
  <2> HIDE DEF b, l
  <2>2. CASE a = b
    BY <2>1, <2>2 DEF OldOrNewOwner
  <2> QED BY <1>1, <2>1, <2>2
<1> QED BY <1>1, <1>2, <1>3, <1>4, <1>5, StepCases

(* Whoever appears in the history of a record is an agent. *)
THEOREM OwnersStayRegistered == Spec => []OwnersRegistered
<1>1. Init => OwnersRegistered
  BY DEF Init, GenesisState, Addresses, OwnersRegistered
<1>2. TypeOK /\ TypeOK' /\ OwnersRegistered /\ [Next]_vars => OwnersRegistered'
  <2> SUFFICES ASSUME TypeOK, TypeOK', OwnersRegistered, [Next]_vars,
                      NEW a \in RecordAddresses, NEW i \in DOMAIN state'[a],
                      NEW j \in DOMAIN state'[a][i].owners
               PROVE  AgentExists(state', state'[a][i].owners[j].agent_id)
    BY DEF OwnersRegistered
  <2>1. AgentExists(state, state'[a][i].owners[j].agent_id)
    BY OwnersGrowByAgents DEF OldOrNewOwner, OwnersRegistered
  <2>2. state'[a][i].owners[j].agent_id \in Keys
    BY EntryType DEF TypeOK
  <2> QED BY <2>1, <2>2, AgentsPersist
<1> QED BY <1>1, <1>2, TypeCorrect, PTL DEF Spec

-----------------------------------------------------------------------------
(* Who owns a record. *)

(* i is the position max() finds in the history h. *)
IsLatest(h, i) ==
    /\ i \in DOMAIN h
    /\ \A j \in DOMAIN h :
         \/ h[j].timestamp < h[i].timestamp
         \/ h[j].timestamp = h[i].timestamp /\ i <= j

(* There is only one such position, and LatestPosition is it. *)
LEMMA LatestPositionIs ==
    ASSUME NEW h \in Seq(Owner), NEW i, IsLatest(h, i)
    PROVE  LatestPosition(h) = i
<1>1. \A j \in DOMAIN h : j \in Nat /\ h[j].timestamp \in Nat
  <2>1. \A j \in DOMAIN h : j \in Nat /\ h[j] \in Owner
    OBVIOUS
  <2> QED BY <2>1 DEF Owner
<1>2. \A j : IsLatest(h, j) => j = i
  BY <1>1 DEF IsLatest
<1>3. IsLatest(h, LatestPosition(h))
  BY DEF IsLatest, LatestPosition
<1> QED BY <1>2, <1>3

(* Appending to a history moves it to the new owner or leaves it in place. *)
LEMMA LatestAfterAppend ==
    ASSUME NEW h \in Seq(Owner), NEW o \in Owner, NEW i, IsLatest(h, i)
    PROVE  IF \A j \in DOMAIN h : h[j].timestamp < o.timestamp
           THEN IsLatest(Append(h, o), Len(h) + 1)
           ELSE IsLatest(Append(h, o), i)
<1> DEFINE g == Append(h, o)
<1>1. \A j \in DOMAIN h : j \in Nat /\ h[j].timestamp \in Nat
  <2>1. \A j \in DOMAIN h : j \in Nat /\ h[j] \in Owner
    OBVIOUS
  <2> QED BY <2>1 DEF Owner
<1>2. /\ DOMAIN g = DOMAIN h \cup {Len(h) + 1}
      /\ \A j \in DOMAIN h : g[j] = h[j] /\ j < Len(h) + 1
      /\ g[Len(h) + 1] = o
      /\ Len(h) \in Nat
  OBVIOUS
<1>3. o.timestamp \in Nat
  BY DEF Owner
<1> HIDE DEF g
<1>4. CASE \A j \in DOMAIN h : h[j].timestamp < o.timestamp
  <2>1. IsLatest(g, Len(h) + 1)
    BY <1>1, <1>2, <1>3, <1>4 DEF IsLatest
  <2> QED BY <1>4, <2>1 DEF g
<1>5. CASE ~ \A j \in DOMAIN h : h[j].timestamp < o.timestamp
  <2>1. i \in DOMAIN h /\ o.timestamp <= h[i].timestamp
    BY <1>1, <1>3, <1>5 DEF IsLatest
  <2>2. IsLatest(g, i)
    BY <1>1, <1>2, <1>3, <2>1 DEF IsLatest
  <2> QED BY <1>5, <2>2 DEF g
<1> QED BY <1>4, <1>5

(* get_record finds the only entry with the identifier. *)
LEMMA GetRecordIs ==
    ASSUME NEW s, NEW id \in RecordIds,
           NEW i \in DOMAIN s[get_record_address[id]],
           s[get_record_address[id]][i].record_id = id,
           \A j \in DOMAIN s[get_record_address[id]] :
             s[get_record_address[id]][j].record_id = id => j = i,
           i \in Nat
    PROVE  RecordExists(s, id) /\ get_record(s, id) = s[get_record_address[id]][i]
<1>1. RecordPositions(s, id) = {i}
  BY DEF RecordPositions
<1>2. (CHOOSE m \in RecordPositions(s, id) : \A j \in RecordPositions(s, id) : m <= j) = i
  BY <1>1
<1> QED BY <1>1, <1>2 DEF RecordExists, get_record

(* The place of a record among those that share its address. *)
LEMMA RecordPlace ==
    ASSUME TypeOK, RecordsUniqueAndPlaced,
           NEW id \in RecordIds, NEW i \in DOMAIN state[get_record_address[id]],
           state[get_record_address[id]][i].record_id = id
    PROVE  RecordExists(state, id) /\ get_record(state, id) = state[get_record_address[id]][i]
<1> DEFINE b == get_record_address[id]
<1>1. state[b] \in Seq(Record) /\ b \in RecordAddresses
  BY ContainerType DEF TypeOK
<1>2. i \in Nat
  BY <1>1
<1>3. \A j \in DOMAIN state[b] : state[b][j].record_id = id => j = i
  BY <1>1 DEF RecordsUniqueAndPlaced
<1> QED BY <1>2, <1>3, GetRecordIs

(***************************************************************************)
(* What a step does to an existing record: nothing, or one more owner by a *)
(* transfer of this very record, or one more location by an update of it.  *)
(***************************************************************************)
Transferred(id) ==
    \E k \in Keys, receiver \in Keys, ts \in Timestamps :
        /\ TransferRecord(k, receiver, id, ts)
        /\ get_record(state', id).owners =
              Append(get_record(state, id).owners,
                     [agent_id |-> receiver, timestamp |-> ts])
        /\ get_record(state', id).locations = get_record(state, id).locations

Updated(id) ==
    \E k \in Keys, lat \in Latitudes, lng \in Longitudes, ts \in Timestamps :
        /\ UpdateRecord(k, lat, lng, id, ts)
        /\ get_record(state', id).owners = get_record(state, id).owners
        /\ get_record(state', id).locations =
              Append(get_record(state, id).locations,
                     [latitude |-> lat, longitude |-> lng, timestamp |-> ts])

LEMMA RecordStep ==
    ASSUME TypeOK, TypeOK', RecordsUniqueAndPlaced, RecordsUniqueAndPlaced',
           [Next]_vars, NEW id \in RecordIds, RecordExists(state, id)
    PROVE  /\ RecordExists(state', id)
           /\ \/ get_record(state', id) = get_record(state, id)
              \/ Transferred(id)
              \/ Updated(id)
<1> DEFINE b == get_record_address[id]
           Goal == /\ RecordExists(state', id)
                   /\ \/ get_record(state', id) = get_record(state, id)
                      \/ Transferred(id)
                      \/ Updated(id)
<1>1. PICK i \in DOMAIN state[b] : state[b][i].record_id = id
  BY DEF RecordExists, RecordPositions
<1>2. state[b] \in Seq(Record) /\ state'[b] \in Seq(Record) /\ b \in RecordAddresses
  BY ContainerType DEF TypeOK
<1>3. get_record(state, id) = state[b][i]
  BY <1>1, RecordPlace
<1>4. ASSUME i \in DOMAIN state'[b], state'[b][i].record_id = id
      PROVE  RecordExists(state', id) /\ get_record(state', id) = state'[b][i]
  <2>1. i \in Nat
    BY <1>2
  <2>2. \A j \in DOMAIN state'[b] : state'[b][j].record_id = id => j = i
    BY <1>2, <1>4 DEF RecordsUniqueAndPlaced
  <2> QED BY <1>4, <2>1, <2>2, GetRecordIs
<1>5. ASSUME i \in DOMAIN state'[b], state'[b][i] = state[b][i] PROVE Goal
  BY <1>1, <1>3, <1>4, <1>5
<1>6. ASSUME NEW k \in Keys, NEW ts \in Timestamps, CreateAgent(k, ts) PROVE Goal
  BY <1>1, <1>2, <1>5, <1>6, CreateAgentStep
<1>7. ASSUME NEW k \in Keys, NEW lat \in Latitudes, NEW lng \in Longitudes,
             NEW other \in RecordIds, NEW ts \in Timestamps,
             CreateRecord(k, lat, lng, other, ts)
      PROVE  Goal
  <2> DEFINE c == get_record_address[other]
             e == [record_id |-> other,
                   owners    |-> <<[agent_id |-> k, timestamp |-> ts]>>,
                   locations |-> <<[latitude |-> lat, longitude |-> lng,
                                    timestamp |-> ts]>>]
  <2>1. /\ state'[c] = Append(state[c], e)
        /\ \A a \in RecordAddresses \ {c} : state'[a] = state[a]
    BY <1>7, CreateRecordStep
  <2> HIDE DEF e, c
  <2>2. CASE b # c
    <3>1. state'[b] = state[b]
      BY <1>2, <2>1, <2>2
    <3> QED BY <1>5, <3>1
  <2>3. CASE b = c
    <3>1. state'[b] = Append(state[b], e)
      BY <2>1, <2>3
    <3>2. i \in DOMAIN state'[b] /\ state'[b][i] = state[b][i]
      BY <1>2, <3>1
    <3> QED BY <1>5, <3>2
  <2> QED BY <2>2, <2>3
<1>8. ASSUME NEW k \in Keys, NEW receiver \in Keys, NEW other \in RecordIds,
             NEW ts \in Timestamps, TransferRecord(k, receiver, other, ts)
      PROVE  Goal
  <2> DEFINE c == get_record_address[other]
             o == [agent_id |-> receiver, timestamp |-> ts]
  <2>1. OwnerAdded(c, other, o)
    BY <1>8, TransferRecordStep
  <2>2. CASE b # c
    BY <1>1, <1>2, <1>5, <2>1, <2>2 DEF OwnerAdded
  <2>3. CASE b = c
    <3>1. /\ i \in DOMAIN state'[b]
          /\ state'[b][i].record_id = id
          /\ state'[b][i].locations = state[b][i].locations
          /\ state'[b][i].owners = IF id = other THEN Append(state[b][i].owners, o)
                                                 ELSE state[b][i].owners
      BY <1>1, <2>1, <2>3 DEF OwnerAdded
    <3>2. CASE id = other
      BY <1>3, <1>4, <1>8, <3>1, <3>2 DEF Transferred
    <3>3. CASE id # other
      <4>1. state'[b][i] \in Record /\ state[b][i] \in Record
        BY <1>1, <1>2, <3>1
      <4>2. state'[b][i] = state[b][i]
        BY <1>1, <3>1, <3>3, <4>1 DEF Record
      <4> QED BY <1>5, <3>1, <4>2
    <3> QED BY <3>2, <3>3
  <2> QED BY <2>2, <2>3
<1>9. ASSUME NEW k \in Keys, NEW lat \in Latitudes, NEW lng \in Longitudes,
             NEW other \in RecordIds, NEW ts \in Timestamps,
             UpdateRecord(k, lat, lng, other, ts)
      PROVE  Goal
  <2> DEFINE c == get_record_address[other]
             l == [latitude |-> lat, longitude |-> lng, timestamp |-> ts]
  <2>1. LocationAdded(c, other, l)
    BY <1>9, UpdateRecordStep
  <2>2. CASE b # c
    BY <1>1, <1>2, <1>5, <2>1, <2>2 DEF LocationAdded
  <2>3. CASE b = c
    <3>1. /\ i \in DOMAIN state'[b]
          /\ state'[b][i].record_id = id
          /\ state'[b][i].owners = state[b][i].owners
          /\ state'[b][i].locations = IF id = other THEN Append(state[b][i].locations, l)
                                                    ELSE state[b][i].locations
      BY <1>1, <2>1, <2>3 DEF LocationAdded
    <3>2. CASE id = other
      BY <1>3, <1>4, <1>9, <3>1, <3>2 DEF Updated
    <3>3. CASE id # other
      <4>1. state'[b][i] \in Record /\ state[b][i] \in Record
        BY <1>1, <1>2, <3>1
      <4>2. state'[b][i] = state[b][i]
        BY <1>1, <3>1, <3>3, <4>1 DEF Record
      <4> QED BY <1>5, <3>1, <4>2
    <3> QED BY <3>2, <3>3
  <2> QED BY <2>2, <2>3
<1>10. ASSUME state' = state PROVE Goal
  BY <1>1, <1>5, <1>10
<1> HIDE DEF Goal
<1>11. Goal
  BY <1>6, <1>7, <1>8, <1>9, <1>10, StepCases
<1> QED BY <1>11 DEF Goal

(* A record comes into being by a create_record that names it, with its    *)
(* signer as only owner.                                                   *)
Created(id) ==
    \E k \in Keys, lat \in Latitudes, lng \in Longitudes, ts \in Timestamps :
        /\ CreateRecord(k, lat, lng, id, ts)
        /\ get_record(state', id).owners = <<[agent_id |-> k, timestamp |-> ts]>>
        /\ get_record(state', id).locations =
              <<[latitude |-> lat, longitude |-> lng, timestamp |-> ts]>>

LEMMA NewRecord ==
    ASSUME TypeOK, TypeOK', RecordsUniqueAndPlaced',
           [Next]_vars, NEW id \in RecordIds, ~RecordExists(state, id),
           RecordExists(state', id)
    PROVE  Created(id)
<1> DEFINE b == get_record_address[id]
<1>1. PICK i \in DOMAIN state'[b] : state'[b][i].record_id = id
  BY DEF RecordExists, RecordPositions
<1>2. \A j \in DOMAIN state[b] : state[b][j].record_id # id
  BY DEF RecordExists, RecordPositions
<1>3. state[b] \in Seq(Record) /\ state'[b] \in Seq(Record) /\ b \in RecordAddresses
  BY ContainerType DEF TypeOK
<1>4. ASSUME \A j \in DOMAIN state'[b] :
                j \in DOMAIN state[b] /\ state'[b][j].record_id = state[b][j].record_id
      PROVE  FALSE
  BY <1>1, <1>2, <1>4
<1>5. ASSUME NEW k \in Keys, NEW ts \in Timestamps, CreateAgent(k, ts) PROVE FALSE
  BY <1>3, <1>4, <1>5, CreateAgentStep
<1>6. ASSUME NEW k \in Keys, NEW lat \in Latitudes, NEW lng \in Longitudes,
             NEW other \in RecordIds, NEW ts \in Timestamps,
             CreateRecord(k, lat, lng, other, ts)
      PROVE  Created(id)
  <2> DEFINE c == get_record_address[other]
             e == [record_id |-> other,
                   owners    |-> <<[agent_id |-> k, timestamp |-> ts]>>,
                   locations |-> <<[latitude |-> lat, longitude |-> lng,
                                    timestamp |-> ts]>>]
  <2>1. /\ state'[c] = Append(state[c], e)
        /\ \A a \in RecordAddresses \ {c} : state'[a] = state[a]
    BY <1>6, CreateRecordStep
  <2>2. /\ e.record_id = other
        /\ e.owners = <<[agent_id |-> k, timestamp |-> ts]>>
        /\ e.locations = <<[latitude |-> lat, longitude |-> lng, timestamp |-> ts]>>
    OBVIOUS
  <2> HIDE DEF e, c
  <2>3. b = c
    BY <1>3, <1>4, <2>1
  <2>4. state'[b][i] = e
    <3>1. \/ i \in DOMAIN state[b] /\ state'[b][i] = state[b][i]
          \/ state'[b][i] = e
      BY <1>3, <2>1, <2>3
    <3> QED BY <1>1, <1>2, <3>1
  <2>5. other = id
    BY <1>1, <2>2, <2>4
  <2>6. \A j \in DOMAIN state'[b] : state'[b][j].record_id = id => j = i
    BY <1>1, <1>3 DEF RecordsUniqueAndPlaced
  <2>7. i \in Nat
    BY <1>1, <1>3
  <2>8. get_record(state', id) = e
    BY <1>1, <2>4, <2>6, <2>7, GetRecordIs
  <2> QED BY <1>6, <2>2, <2>5, <2>8 DEF Created
<1>7. ASSUME NEW k \in Keys, NEW receiver \in Keys, NEW other \in RecordIds,
             NEW ts \in Timestamps, TransferRecord(k, receiver, other, ts)
      PROVE  FALSE
  <2> DEFINE c == get_record_address[other]
             o == [agent_id |-> receiver, timestamp |-> ts]
  <2>1. OwnerAdded(c, other, o)
    BY <1>7, TransferRecordStep
  <2> QED BY <1>3, <1>4, <2>1 DEF OwnerAdded
<1>8. ASSUME NEW k \in Keys, NEW lat \in Latitudes, NEW lng \in Longitudes,
             NEW other \in RecordIds, NEW ts \in Timestamps,
             UpdateRecord(k, lat, lng, other, ts)
      PROVE  FALSE
  <2> DEFINE c == get_record_address[other]
             l == [latitude |-> lat, longitude |-> lng, timestamp |-> ts]
  <2>1. LocationAdded(c, other, l)
    BY <1>8, UpdateRecordStep
  <2> QED BY <1>3, <1>4, <2>1 DEF LocationAdded
<1>9. ASSUME state' = state PROVE FALSE
  BY <1>4, <1>9
<1> QED BY <1>5, <1>6, <1>7, <1>8, <1>9, StepCases

(* get_record of an existing record returns a typed record. *)
LEMMA GetRecordType ==
    ASSUME NEW s \in GlobalStates, NEW id \in RecordIds, RecordExists(s, id),
           \A i, j \in DOMAIN s[get_record_address[id]] :
             s[get_record_address[id]][i].record_id = s[get_record_address[id]][j].record_id
                => i = j
    PROVE  /\ get_record(s, id).owners \in Seq(Owner)
           /\ get_record(s, id).locations \in Seq(Location)
<1> DEFINE b == get_record_address[id]
<1>1. PICK i \in DOMAIN s[b] : s[b][i].record_id = id
  BY DEF RecordExists, RecordPositions
<1>2. s[b] \in Seq(Record) /\ b \in RecordAddresses
  BY ContainerType
<1>3. i \in Nat
  BY <1>1, <1>2
<1>4. get_record(s, id) = s[b][i]
  BY <1>1, <1>3, GetRecordIs
<1> QED BY <1>1, <1>2, <1>4, EntryType

(* The strengthening under which CurrentOwner is well defined.             *)
HistoriesHaveLatest ==
    \A id \in RecordIds : RecordExists(state, id) =>
        \E m : IsLatest(get_record(state, id).owners, m)

IInv == TypeOK /\ EntriesUniqueAndPlaced /\ HistoriesHaveLatest

LEMMA RecordTyped ==
    ASSUME IInv, NEW id \in RecordIds, RecordExists(state, id)
    PROVE  /\ get_record(state, id).owners \in Seq(Owner)
           /\ get_record(state, id).locations \in Seq(Location)
<1>1. get_record_address[id] \in RecordAddresses
  OBVIOUS
<1> QED BY <1>1, GetRecordType
        DEF IInv, TypeOK, EntriesUniqueAndPlaced, RecordsUniqueAndPlaced

LEMMA RecordTypedNext ==
    ASSUME TypeOK', EntriesUniqueAndPlaced', NEW id \in RecordIds, RecordExists(state', id)
    PROVE  /\ get_record(state', id).owners \in Seq(Owner)
           /\ get_record(state', id).locations \in Seq(Location)
<1>1. get_record_address[id] \in RecordAddresses
  OBVIOUS
<1> QED BY <1>1, GetRecordType
        DEF TypeOK, EntriesUniqueAndPlaced, RecordsUniqueAndPlaced

(* The owner of an existing record is the one at the latest position. *)
LEMMA OwnerInIs ==
    ASSUME NEW s, NEW id, RecordExists(s, id),
           get_record(s, id).owners \in Seq(Owner),
           NEW m, IsLatest(get_record(s, id).owners, m)
    PROVE  /\ OwnerIn(s, id) = get_record(s, id).owners[m].agent_id
           /\ OwnerIn(s, id) \in Keys
<1> DEFINE h == get_record(s, id).owners
<1>1. LatestPosition(h) = m
  BY LatestPositionIs
<1>2. h[m] \in Owner
  BY DEF IsLatest
<1> QED BY <1>1, <1>2 DEF OwnerIn, LatestOwner, Owner

(* A committed transfer extends the owners of the record it names. *)
LEMMA TransferRecordOwners ==
    ASSUME TypeOK, TypeOK', RecordsUniqueAndPlaced, RecordsUniqueAndPlaced',
           NEW k \in Keys, NEW receiver \in Keys, NEW id \in RecordIds,
           NEW ts \in Timestamps, TransferRecord(k, receiver, id, ts)
    PROVE  /\ RecordExists(state', id)
           /\ get_record(state', id).owners =
                Append(get_record(state, id).owners,
                       [agent_id |-> receiver, timestamp |-> ts])
<1> DEFINE b == get_record_address[id]
           o == [agent_id |-> receiver, timestamp |-> ts]
<1>1. PICK i \in DOMAIN state[b] : state[b][i].record_id = id
  BY TransferRecordGuard DEF RecordExists, RecordPositions
<1>2. OwnerAdded(b, id, o)
  BY TransferRecordStep
<1>3. /\ i \in DOMAIN state'[b]
      /\ state'[b][i].record_id = id
      /\ state'[b][i].owners = Append(state[b][i].owners, o)
  BY <1>1, <1>2 DEF OwnerAdded
<1>4. get_record(state, id) = state[b][i]
  BY <1>1, RecordPlace
<1>5. state'[b] \in Seq(Record) /\ b \in RecordAddresses
  BY ContainerType DEF TypeOK
<1>6. i \in Nat /\ \A j \in DOMAIN state'[b] : state'[b][j].record_id = id => j = i
  BY <1>3, <1>5 DEF RecordsUniqueAndPlaced
<1>7. RecordExists(state', id) /\ get_record(state', id) = state'[b][i]
  BY <1>3, <1>6, GetRecordIs
<1> QED BY <1>3, <1>4, <1>7

(***************************************************************************)
(* After a transfer the history still has one latest position: the new     *)
(* owner's if it is dated after all others, else the one it had.           *)
(***************************************************************************)
LEMMA TransferEffect ==
    ASSUME IInv, TypeOK', EntriesUniqueAndPlaced',
           NEW k \in Keys, NEW receiver \in Keys, NEW id \in RecordIds,
           NEW ts \in Timestamps, TransferRecord(k, receiver, id, ts)
    PROVE  /\ \E m : IsLatest(get_record(state', id).owners, m)
           /\ OwnerIn(state, id) = k
           /\ OwnerIn(state', id) = IF LaterThanHistory(id, ts) THEN receiver ELSE k
<1> DEFINE h == get_record(state, id).owners
           g == get_record(state', id).owners
           o == [agent_id |-> receiver, timestamp |-> ts]
<1>1. RecordExists(state, id) /\ OwnerIn(state, id) = k
  BY TransferRecordGuard DEF OwnerIn
<1>2. RecordExists(state', id) /\ g = Append(h, o)
  BY TransferRecordOwners DEF IInv, EntriesUniqueAndPlaced
<1>3. h \in Seq(Owner) /\ o \in Owner
  BY <1>1, RecordTyped, TimestampsAreNat DEF Owner
<1>4. PICK m : IsLatest(h, m)
  BY <1>1 DEF IInv, HistoriesHaveLatest
<1>5. h[m].agent_id = k
  BY <1>1, <1>3, <1>4, OwnerInIs
<1>6. o.agent_id = receiver /\ o.timestamp = ts
  OBVIOUS
<1>7. g \in Seq(Owner)
  BY <1>2, RecordTypedNext
<1> HIDE DEF o
<1>8. LaterThanHistory(id, ts) <=> \A j \in DOMAIN h : h[j].timestamp < o.timestamp
  BY <1>6 DEF LaterThanHistory
<1>9. CASE LaterThanHistory(id, ts)
  <2>1. IsLatest(g, Len(h) + 1)
    BY <1>2, <1>3, <1>4, <1>8, <1>9, LatestAfterAppend
  <2>2. g[Len(h) + 1] = o
    BY <1>2, <1>3
  <2>3. OwnerIn(state', id) = receiver
    BY <1>2, <1>6, <1>7, <2>1, <2>2, OwnerInIs
  <2> QED BY <1>1, <1>9, <2>1, <2>3
<1>10. CASE ~LaterThanHistory(id, ts)
  <2>1. IsLatest(g, m)
    BY <1>2, <1>3, <1>4, <1>8, <1>10, LatestAfterAppend
  <2>2. g[m] = h[m]
    BY <1>2, <1>3, <1>4 DEF IsLatest
  <2>3. OwnerIn(state', id) = g[m].agent_id
    BY <1>2, <1>7, <2>1, OwnerInIs
  <2> QED BY <1>1, <1>5, <1>10, <2>1, <2>2, <2>3
<1> QED BY <1>9, <1>10

LEMMA LatestStep ==
    ASSUME IInv, TypeOK', EntriesUniqueAndPlaced', [Next]_vars
    PROVE  HistoriesHaveLatest'
<1> SUFFICES ASSUME NEW id \in RecordIds, RecordExists(state', id)
             PROVE  \E m : IsLatest(get_record(state', id).owners, m)
  BY DEF HistoriesHaveLatest
<1>1. CASE ~RecordExists(state, id)
  <2>1. Created(id)
    BY <1>1, NewRecord DEF IInv, EntriesUniqueAndPlaced
  <2>2. PICK k \in Keys, ts \in Timestamps :
          get_record(state', id).owners = <<[agent_id |-> k, timestamp |-> ts]>>
    BY <2>1 DEF Created
  <2>3. IsLatest(get_record(state', id).owners, 1)
    BY <2>2, TimestampsAreNat DEF IsLatest
  <2> QED BY <2>3
<1>2. CASE RecordExists(state, id)
  <2>1. \/ get_record(state', id) = get_record(state, id)
        \/ Transferred(id)
        \/ Updated(id)
    BY <1>2, RecordStep DEF IInv, EntriesUniqueAndPlaced
  <2>2. CASE get_record(state', id).owners = get_record(state, id).owners
    BY <1>2, <2>2 DEF IInv, HistoriesHaveLatest
  <2>3. CASE Transferred(id)
    BY <2>3, TransferEffect DEF Transferred
  <2> QED BY <2>1, <2>2, <2>3 DEF Updated
<1> QED BY <1>1, <1>2

(* The inductive invariant the ownership theorems rest on. *)
THEOREM OwnershipInvariant == Spec => []IInv
<1>1. Init => HistoriesHaveLatest
  BY DEF Init, GenesisState, Addresses, HistoriesHaveLatest, RecordExists, RecordPositions
<1>2. /\ TypeOK /\ TypeOK'
      /\ EntriesUniqueAndPlaced /\ EntriesUniqueAndPlaced'
      /\ HistoriesHaveLatest /\ [Next]_vars
      => HistoriesHaveLatest'
  BY LatestStep DEF IInv
<1>3. TypeOK /\ EntriesUniqueAndPlaced /\ HistoriesHaveLatest => IInv
  BY DEF IInv
<1> QED BY <1>1, <1>2, <1>3, TypeCorrect, EntriesStayUniqueAndPlaced, PTL DEF Spec

(* What any step does to the owner of an existing record. *)
LEMMA OwnerStep ==
    ASSUME IInv, IInv', [Next]_vars, NEW id \in RecordIds, RecordExists(state, id)
    PROVE  /\ RecordExists(state', id)
           /\ \/ OwnerIn(state', id) = OwnerIn(state, id)
              \/ \E receiver \in Keys, ts \in Timestamps :
                    /\ TransferRecord(OwnerIn(state, id), receiver, id, ts)
                    /\ OwnerIn(state', id) = receiver
<1>1. /\ RecordExists(state', id)
      /\ \/ get_record(state', id) = get_record(state, id)
         \/ Transferred(id)
         \/ Updated(id)
  BY RecordStep DEF IInv, EntriesUniqueAndPlaced
<1>2. CASE get_record(state', id).owners = get_record(state, id).owners
  BY <1>1, <1>2 DEF OwnerIn, LatestOwner
<1>3. CASE Transferred(id)
  <2>1. PICK k \in Keys, receiver \in Keys, ts \in Timestamps :
          TransferRecord(k, receiver, id, ts)
    BY <1>3 DEF Transferred
  <2>2. /\ OwnerIn(state, id) = k
        /\ OwnerIn(state', id) = receiver \/ OwnerIn(state', id) = k
    BY <2>1, TransferEffect DEF IInv
  <2> QED BY <1>1, <2>1, <2>2
<1> QED BY <1>1, <1>2, <1>3 DEF Updated

(* The owner of a record changes only by a transfer the owner has signed. *)
THEOREM OwnersConsent == Spec => OwnerConsents
<1>1. IInv /\ IInv' /\ [Next]_vars => \A id \in RecordIds : ChangeOfOwnerIsSigned(id)
  <2> SUFFICES ASSUME IInv, IInv', [Next]_vars, NEW id \in RecordIds,
                      OwnerIn(state, id) # NoOne,
                      OwnerIn(state', id) # OwnerIn(state, id)
               PROVE  /\ committed'.action = "TRANSFER_RECORD"
                      /\ committed'.record_id = id
                      /\ committed'.signer = OwnerIn(state, id)
                      /\ committed'.receiving_agent = OwnerIn(state', id)
    BY DEF ChangeOfOwnerIsSigned, CurrentOwner
  <2>1. RecordExists(state, id)
    BY DEF OwnerIn
  <2>2. PICK receiver \in Keys, ts \in Timestamps :
          /\ TransferRecord(OwnerIn(state, id), receiver, id, ts)
          /\ OwnerIn(state', id) = receiver
    BY <2>1, OwnerStep
  <2>3. committed' = make_transfer_record(OwnerIn(state, id), receiver, id, ts)
    BY <2>2 DEF TransferRecord, Commit
  <2> QED BY <2>2, <2>3 DEF make_transfer_record
<1> QED BY <1>1, OwnershipInvariant, PTL DEF Spec, OwnerConsents

(* A committed transfer takes effect exactly when its timestamp is later   *)
(* than every other one in the history of the record.                      *)
THEOREM TimestampsDecide == Spec => NewestTimestampDecides
<1>1. IInv /\ IInv' /\ [Next]_vars
        => \A id \in RecordIds : TransferCommitted(id) => TimestampDecides(id)
  <2> SUFFICES ASSUME IInv, IInv', [Next]_vars, NEW id \in RecordIds,
                      TransferCommitted(id)
               PROVE  OwnerIn(state', id) = IF LaterThanHistory(id, committed'.timestamp)
                                            THEN committed'.receiving_agent
                                            ELSE OwnerIn(state, id)
    BY DEF TimestampDecides, CurrentOwner
  <2>1. PICK k \in Keys, receiver \in Keys, ts \in Timestamps :
          TransferRecord(k, receiver, id, ts)
    <3>1. state' # state /\ committed'.action = "TRANSFER_RECORD" /\ committed'.record_id = id
      BY DEF TransferCommitted
    <3>2. PICK k \in Keys, receiver \in Keys, other \in RecordIds, ts \in Timestamps :
            TransferRecord(k, receiver, other, ts)
      <4>1. ASSUME NEW k \in Keys, NEW ts \in Timestamps, CreateAgent(k, ts)
            PROVE  committed'.action = "CREATE_AGENT"
        BY <4>1 DEF CreateAgent, Commit, make_create_agent
      <4>2. ASSUME NEW k \in Keys, NEW lat \in Latitudes, NEW lng \in Longitudes,
                   NEW other \in RecordIds, NEW ts \in Timestamps,
                   CreateRecord(k, lat, lng, other, ts)
            PROVE  committed'.action = "CREATE_RECORD"
        BY <4>2 DEF CreateRecord, Commit, make_create_record
      <4>3. ASSUME NEW k \in Keys, NEW lat \in Latitudes, NEW lng \in Longitudes,
                   NEW other \in RecordIds, NEW ts \in Timestamps,
                   UpdateRecord(k, lat, lng, other, ts)
            PROVE  committed'.action = "UPDATE_RECORD"
        BY <4>3 DEF UpdateRecord, Commit, make_update_record
      <4> QED BY <3>1, <4>1, <4>2, <4>3, StepCases
    <3>3. other = id
      BY <3>1, <3>2 DEF TransferRecord, Commit, make_transfer_record
    <3> QED BY <3>2, <3>3
  <2>2. committed'.timestamp = ts /\ committed'.receiving_agent = receiver
    BY <2>1 DEF TransferRecord, Commit, make_transfer_record
  <2> QED BY <2>1, <2>2, TransferEffect DEF IInv
<1> QED BY <1>1, OwnershipInvariant, PTL DEF Spec, NewestTimestampDecides

(* A history that another one extends by at most one entry.                *)
LEMMA AppendExtends ==
    ASSUME NEW S, NEW h \in Seq(S), NEW e \in S, NEW g, g = h \/ g = Append(h, e)
    PROVE  IsExtension(h, g)
BY DEF IsExtension

(* No step rewrites or drops an entry of a history, or adds to any record  *)
(* but the one its transaction names.                                      *)
THEOREM HistoriesAreKept == Spec => HistoriesOnlyGrow
<1>1. IInv /\ IInv' /\ [Next]_vars
        => \A id \in RecordIds : RecordExists(state, id) => HistoryGrows(id)
  <2> SUFFICES ASSUME IInv, IInv', [Next]_vars, NEW id \in RecordIds,
                      RecordExists(state, id)
               PROVE  HistoryGrows(id)
    OBVIOUS
  <2>1. /\ RecordExists(state', id)
        /\ \/ get_record(state', id) = get_record(state, id)
           \/ Transferred(id)
           \/ Updated(id)
    BY RecordStep DEF IInv, EntriesUniqueAndPlaced
  <2>2. /\ get_record(state, id).owners \in Seq(Owner)
        /\ get_record(state, id).locations \in Seq(Location)
    BY RecordTyped
  <2>3. CASE get_record(state', id) = get_record(state, id)
    BY <2>1, <2>2, <2>3 DEF HistoryGrows, IsExtension
  <2>4. CASE Transferred(id)
    <3>1. PICK k \in Keys, receiver \in Keys, ts \in Timestamps :
            /\ TransferRecord(k, receiver, id, ts)
            /\ get_record(state', id).owners =
                  Append(get_record(state, id).owners,
                         [agent_id |-> receiver, timestamp |-> ts])
            /\ get_record(state', id).locations = get_record(state, id).locations
      BY <2>4 DEF Transferred
    <3>2. [agent_id |-> receiver, timestamp |-> ts] \in Owner
      BY TimestampsAreNat DEF Owner
    <3>3. IsExtension(get_record(state, id).owners, get_record(state', id).owners)
      BY <2>2, <3>1, <3>2, AppendExtends
    <3>4. IsExtension(get_record(state, id).locations, get_record(state', id).locations)
      BY <2>2, <3>1 DEF IsExtension
    <3>5. committed'.action = "TRANSFER_RECORD" /\ committed'.record_id = id
      BY <3>1 DEF TransferRecord, Commit, make_transfer_record
    <3> QED BY <2>1, <3>3, <3>4, <3>5 DEF HistoryGrows
  <2>5. CASE Updated(id)
    <3>1. PICK k \in Keys, lat \in Latitudes, lng \in Longitudes, ts \in Timestamps :
            /\ UpdateRecord(k, lat, lng, id, ts)
            /\ get_record(state', id).owners = get_record(state, id).owners
            /\ get_record(state', id).locations =
                  Append(get_record(state, id).locations,
                         [latitude |-> lat, longitude |-> lng, timestamp |-> ts])
      BY <2>5 DEF Updated
    <3>2. [latitude |-> lat, longitude |-> lng, timestamp |-> ts] \in Location
      BY TimestampsAreNat DEF Location
    <3>3. IsExtension(get_record(state, id).locations, get_record(state', id).locations)
      BY <2>2, <3>1, <3>2, AppendExtends
    <3>4. IsExtension(get_record(state, id).owners, get_record(state', id).owners)
      BY <2>2, <3>1 DEF IsExtension
    <3>5. committed'.action = "UPDATE_RECORD" /\ committed'.record_id = id
      BY <3>1 DEF UpdateRecord, Commit, make_update_record
    <3> QED BY <2>1, <3>3, <3>4, <3>5 DEF HistoryGrows
  <2> QED BY <2>1, <2>3, <2>4, <2>5
<1> QED BY <1>1, OwnershipInvariant, PTL DEF Spec, HistoriesOnlyGrow

(***************************************************************************)
(* No history holds a timestamp further ahead of the clock than the        *)
(* tolerance: the handler checks each one when it stores it, and the clock *)
(* only moves forward.                                                     *)
(***************************************************************************)
NotAheadOf(history, now) ==
    \A j \in DOMAIN history : history[j].timestamp <= now + SYNC_TOLERANCE

LEMMA ClockStep ==
    ASSUME TypeOK, [Next]_vars
    PROVE  clock \in Nat /\ clock' \in Nat /\ clock <= clock'
<1>1. clock \in Nat
  BY DEF TypeOK
<1>2. CASE Tick
  BY <1>1, <1>2 DEF Tick
<1>3. CASE clock' = clock
  BY <1>1, <1>3
<1>4. ASSUME NEW t, Commit(t) PROVE clock' = clock
  BY <1>4 DEF Commit
<1>5. ASSUME Reject PROVE clock' = clock
  BY <1>5 DEF Reject
<1>6. CASE UNCHANGED vars
  BY <1>3, <1>6 DEF vars
<1>7. CASE Next
  <2>1. Tick \/ Reject \/ (\E t : Commit(t))
    BY <1>7, Zenon DEF Next, CreateAgent, CreateRecord, TransferRecord, UpdateRecord
  <2> QED BY <1>2, <1>3, <1>4, <1>5, <2>1
<1> QED BY <1>6, <1>7

(* A timestamp the handler accepts is within the tolerance after the step. *)
LEMMA AcceptedTimestamp ==
    ASSUME TypeOK, NEW t, t.timestamp \in Timestamps, Commit(t)
    PROVE  t.timestamp <= clock' + SYNC_TOLERANCE
<1>1. clock \in Nat
  BY DEF TypeOK
<1>2. t.timestamp \in Nat
  BY TimestampsAreNat
<1>3. t.timestamp - clock <= SYNC_TOLERANCE /\ clock' = clock
  BY DEF Commit, ValidTimestamp
<1> QED BY <1>1, <1>2, <1>3

(* What is not ahead of the clock never gets ahead of it. *)
LEMMA LaterIsNotAhead ==
    ASSUME TypeOK, [Next]_vars, NEW h, NotAheadOf(h, clock),
           \A i \in DOMAIN h : h[i].timestamp \in Nat
    PROVE  NotAheadOf(h, clock')
<1>1. clock \in Nat /\ clock' \in Nat /\ clock <= clock'
  BY ClockStep
<1> QED BY <1>1 DEF NotAheadOf

LEMMA AppendNotAhead ==
    ASSUME NEW S, NEW h \in Seq(S), NEW e \in S, NEW now,
           NotAheadOf(h, now), e.timestamp <= now + SYNC_TOLERANCE
    PROVE  NotAheadOf(Append(h, e), now)
BY DEF NotAheadOf

LEMMA NeverAheadStep ==
    ASSUME IInv, IInv', [Next]_vars, HistoryNeverAheadOfTolerance
    PROVE  HistoryNeverAheadOfTolerance'
<1> SUFFICES ASSUME NEW id \in RecordIds, RecordExists(state', id)
             PROVE  /\ NotAheadOf(get_record(state', id).owners, clock')
                    /\ NotAheadOf(get_record(state', id).locations, clock')
  BY DEF HistoryNeverAheadOfTolerance, NotAheadOf
<1> DEFINE r == get_record(state, id)
           q == get_record(state', id)
<1>1. CASE ~RecordExists(state, id)
  <2>1. PICK k \in Keys, lat \in Latitudes, lng \in Longitudes, ts \in Timestamps :
          /\ CreateRecord(k, lat, lng, id, ts)
          /\ q.owners = <<[agent_id |-> k, timestamp |-> ts]>>
          /\ q.locations = <<[latitude |-> lat, longitude |-> lng, timestamp |-> ts]>>
    BY <1>1, NewRecord DEF Created, IInv, EntriesUniqueAndPlaced
  <2>2. ts <= clock' + SYNC_TOLERANCE
    BY <2>1, AcceptedTimestamp DEF CreateRecord, make_create_record, IInv
  <2> QED BY <2>1, <2>2 DEF NotAheadOf
<1>2. CASE RecordExists(state, id)
  <2>1. \/ q = r
        \/ Transferred(id)
        \/ Updated(id)
    BY <1>2, RecordStep DEF IInv, EntriesUniqueAndPlaced
  <2>2. r.owners \in Seq(Owner) /\ r.locations \in Seq(Location)
    BY <1>2, RecordTyped
  <2>3. /\ \A j \in DOMAIN r.owners : r.owners[j].timestamp \in Nat
        /\ \A j \in DOMAIN r.locations : r.locations[j].timestamp \in Nat
    <3>1. /\ \A j \in DOMAIN r.owners : r.owners[j] \in Owner
          /\ \A j \in DOMAIN r.locations : r.locations[j] \in Location
      BY <2>2
    <3> QED BY <3>1 DEF Owner, Location
  <2>4. NotAheadOf(r.owners, clock) /\ NotAheadOf(r.locations, clock)
    BY <1>2 DEF HistoryNeverAheadOfTolerance, NotAheadOf
  <2>5. NotAheadOf(r.owners, clock') /\ NotAheadOf(r.locations, clock')
    BY <2>3, <2>4, LaterIsNotAhead DEF IInv
  <2>6. CASE q = r
    BY <2>5, <2>6
  <2>7. CASE Transferred(id)
    <3>1. PICK k \in Keys, receiver \in Keys, ts \in Timestamps :
            /\ TransferRecord(k, receiver, id, ts)
            /\ q.owners = Append(r.owners, [agent_id |-> receiver, timestamp |-> ts])
            /\ q.locations = r.locations
      BY <2>7 DEF Transferred
    <3>2. ts <= clock' + SYNC_TOLERANCE
      BY <3>1, AcceptedTimestamp DEF TransferRecord, make_transfer_record, IInv
    <3>3. [agent_id |-> receiver, timestamp |-> ts] \in Owner
      BY TimestampsAreNat DEF Owner
    <3> QED BY <2>2, <2>5, <3>1, <3>2, <3>3, AppendNotAhead
  <2>8. CASE Updated(id)
    <3>1. PICK k \in Keys, lat \in Latitudes, lng \in Longitudes, ts \in Timestamps :
            /\ UpdateRecord(k, lat, lng, id, ts)
            /\ q.owners = r.owners
            /\ q.locations =
                  Append(r.locations, [latitude |-> lat, longitude |-> lng, timestamp |-> ts])
      BY <2>8 DEF Updated
    <3>2. ts <= clock' + SYNC_TOLERANCE
      BY <3>1, AcceptedTimestamp DEF UpdateRecord, make_update_record, IInv
    <3>3. [latitude |-> lat, longitude |-> lng, timestamp |-> ts] \in Location
      BY TimestampsAreNat DEF Location
    <3> QED BY <2>2, <2>5, <3>1, <3>2, <3>3, AppendNotAhead
  <2> QED BY <2>1, <2>6, <2>7, <2>8
<1> QED BY <1>1, <1>2

(* No stored timestamp is beyond the tolerance.                            *)
THEOREM HistoriesNeverAhead == Spec => []HistoryNeverAheadOfTolerance
<1>1. Init => HistoryNeverAheadOfTolerance
  BY DEF Init, GenesisState, Addresses, HistoryNeverAheadOfTolerance,
         RecordExists, RecordPositions
<1>2. IInv /\ IInv' /\ [Next]_vars /\ HistoryNeverAheadOfTolerance
        => HistoryNeverAheadOfTolerance'
  BY NeverAheadStep
<1> QED BY <1>1, <1>2, OwnershipInvariant, PTL DEF Spec

-----------------------------------------------------------------------------
(* The processor implements the ownership ledger. *)

Registered(s) == {k \in Keys : AgentExists(s, k)}

LEMMA RegisteredFrame ==
    ASSUME \A a \in AgentAddresses : state'[a] = state[a]
    PROVE  Registered(state') = Registered(state)
BY DEF Registered, AgentExists

LEMMA RegisteredStep ==
    ASSUME TypeOK, [Next]_vars, NEW k \in Keys, NEW ts \in Timestamps, CreateAgent(k, ts)
    PROVE  /\ k \notin Registered(state)
           /\ Registered(state') = Registered(state) \cup {k}
<1> DEFINE b == get_agent_address[k]
           e == [public_key |-> k, timestamp |-> ts]
<1>1. /\ state'[b] = Append(state[b], e)
      /\ \A a \in AgentAddresses \ {b} : state'[a] = state[a]
      /\ \A i \in DOMAIN state[b] : state[b][i].public_key # k
  BY CreateAgentStep
<1>2. state[b] \in Seq(Agent) /\ e.public_key = k
  BY DEF TypeOK, GlobalStates
<1> HIDE DEF e
<1>3. DOMAIN state'[b] = DOMAIN state[b] \cup {Len(state[b]) + 1}
  BY <1>1, <1>2
<1>4. state'[b][Len(state[b]) + 1] = e
  BY <1>1, <1>2
<1>5. \A i \in DOMAIN state[b] : state'[b][i] = state[b][i]
  BY <1>1, <1>2
<1>6. \A q \in Keys : AgentExists(state', q) => AgentExists(state, q) \/ q = k
  BY <1>1, <1>2, <1>3, <1>4, <1>5 DEF AgentExists
<1>7. AgentExists(state', k)
  BY <1>2, <1>3, <1>4 DEF AgentExists
<1>8. ~AgentExists(state, k)
  BY <1>1 DEF AgentExists
<1> QED BY <1>6, <1>7, <1>8, AgentsPersist DEF Registered

(* The owner of a record changes by a transaction that names the record.   *)
LEMMA OwnerFrame ==
    ASSUME IInv, IInv', [Next]_vars, NEW id \in RecordIds,
           ~ /\ committed'.action \in {"CREATE_RECORD", "TRANSFER_RECORD"}
             /\ committed'.record_id = id
    PROVE  OwnerIn(state', id) = OwnerIn(state, id)
<1>1. CASE RecordExists(state, id)
  <2>1. ASSUME NEW receiver \in Keys, NEW ts \in Timestamps,
               TransferRecord(OwnerIn(state, id), receiver, id, ts)
        PROVE  FALSE
    BY <2>1 DEF TransferRecord, Commit, make_transfer_record
  <2> QED BY <1>1, <2>1, OwnerStep
<1>2. CASE ~RecordExists(state, id) /\ RecordExists(state', id)
  <2>1. Created(id)
    BY <1>2, NewRecord DEF IInv, EntriesUniqueAndPlaced
  <2> QED BY <2>1 DEF Created, CreateRecord, Commit, make_create_record
<1>3. CASE ~RecordExists(state, id) /\ ~RecordExists(state', id)
  BY <1>3 DEF OwnerIn
<1> QED BY <1>1, <1>2, <1>3

(* A new record belongs to the signer of its create_record.                *)
LEMMA CreateRecordEffect ==
    ASSUME IInv, IInv', [Next]_vars,
           NEW k \in Keys, NEW lat \in Latitudes, NEW lng \in Longitudes,
           NEW id \in RecordIds, NEW ts \in Timestamps,
           CreateRecord(k, lat, lng, id, ts)
    PROVE  OwnerIn(state, id) = NoOne /\ OwnerIn(state', id) = k
<1> DEFINE b == get_record_address[id]
           e == [record_id |-> id,
                 owners    |-> <<[agent_id |-> k, timestamp |-> ts]>>,
                 locations |-> <<[latitude |-> lat, longitude |-> lng,
                                  timestamp |-> ts]>>]
<1>1. /\ state'[b] = Append(state[b], e)
      /\ \A i \in DOMAIN state[b] : state[b][i].record_id # id
  BY CreateRecordStep DEF IInv
<1>2. ~RecordExists(state, id)
  BY <1>1 DEF RecordExists, RecordPositions
<1>3. RecordExists(state', id)
  <2>1. state[b] \in Seq(Record) /\ e.record_id = id
    BY ContainerType DEF IInv, TypeOK
  <2> HIDE DEF e
  <2>2. Len(state[b]) + 1 \in DOMAIN state'[b] /\ state'[b][Len(state[b]) + 1] = e
    BY <1>1, <2>1
  <2> QED BY <2>1, <2>2 DEF RecordExists, RecordPositions
<1>4. PICK q \in Keys, lat2 \in Latitudes, lng2 \in Longitudes, ts2 \in Timestamps :
        /\ CreateRecord(q, lat2, lng2, id, ts2)
        /\ get_record(state', id).owners = <<[agent_id |-> q, timestamp |-> ts2]>>
  BY <1>2, <1>3, NewRecord DEF Created, IInv, EntriesUniqueAndPlaced
<1>5. q = k
  <2>1. committed'.signer = k
    BY DEF CreateRecord, Commit, make_create_record
  <2>2. committed'.signer = q
    BY <1>4 DEF CreateRecord, Commit, make_create_record
  <2> QED BY <2>1, <2>2
<1>6. IsLatest(get_record(state', id).owners, 1)
  BY <1>4, TimestampsAreNat DEF IsLatest
<1>7. get_record(state', id).owners \in Seq(Owner)
  BY <1>3, RecordTypedNext DEF IInv
<1>8. OwnerIn(state', id) = get_record(state', id).owners[1].agent_id
  BY <1>3, <1>6, <1>7, OwnerInIs
<1> QED BY <1>2, <1>4, <1>5, <1>8 DEF OwnerIn

(* Every step of the processor is a step of the ledger, or no step of it.  *)
LEMMA OwnershipStep ==
    ASSUME IInv, IInv', [Next]_vars
    PROVE  [Ownership!Next]_(Ownership!vars)
<1> DEFINE own == [id \in RecordIds |-> OwnerIn(state, id)]
<1>1. ASSUME NEW k \in Keys, NEW ts \in Timestamps, CreateAgent(k, ts)
      PROVE  Ownership!Register(k)
  <2>1. committed'.action = "CREATE_AGENT" /\ committed'.signer = k
    BY <1>1 DEF CreateAgent, Commit, make_create_agent
  <2>2. \A id \in RecordIds : OwnerIn(state', id) = OwnerIn(state, id)
    BY <2>1, OwnerFrame
  <2> QED BY <1>1, <2>1, <2>2, RegisteredStep
          DEF Ownership!Register, Registered, CurrentOwner, IInv
<1>2. ASSUME NEW k \in Keys, NEW lat \in Latitudes, NEW lng \in Longitudes,
             NEW id \in RecordIds, NEW ts \in Timestamps,
             CreateRecord(k, lat, lng, id, ts)
      PROVE  Ownership!Create(k, id)
  <2>1. /\ committed'.action = "CREATE_RECORD"
        /\ committed'.signer = k
        /\ committed'.record_id = id
    BY <1>2 DEF CreateRecord, Commit, make_create_record
  <2>2. \A other \in RecordIds \ {id} : OwnerIn(state', other) = OwnerIn(state, other)
    BY <2>1, OwnerFrame
  <2>3. OwnerIn(state, id) = NoOne /\ OwnerIn(state', id) = k
    BY <1>2, CreateRecordEffect
  <2>4. AgentExists(state, k) /\ Registered(state') = Registered(state)
    BY <1>2, CreateRecordStep, RegisteredFrame DEF IInv
  <2> QED BY <2>1, <2>2, <2>3, <2>4 DEF Ownership!Create, Registered, CurrentOwner
<1>3. ASSUME NEW k \in Keys, NEW receiver \in Keys, NEW id \in RecordIds,
             NEW ts \in Timestamps, TransferRecord(k, receiver, id, ts)
      PROVE  Ownership!HandOver(id, receiver) \/ Ownership!Amend(id)
  <2>1. /\ committed'.action = "TRANSFER_RECORD"
        /\ committed'.signer = k
        /\ committed'.record_id = id
    BY <1>3 DEF TransferRecord, Commit, make_transfer_record
  <2>2. \A other \in RecordIds \ {id} : OwnerIn(state', other) = OwnerIn(state, other)
    BY <2>1, OwnerFrame
  <2>3. OwnerIn(state, id) = k /\ OwnerIn(state', id) \in {receiver, k}
    BY <1>3, TransferEffect DEF IInv
  <2>4. OwnerAdded(get_record_address[id], id, [agent_id |-> receiver, timestamp |-> ts])
    BY <1>3, TransferRecordStep DEF IInv
  <2>5. AgentExists(state, receiver) /\ Registered(state') = Registered(state)
    BY <1>3, <2>4, TransferRecordGuard, RegisteredFrame DEF OwnerAdded
  <2>6. CASE OwnerIn(state', id) = receiver
    BY <2>1, <2>2, <2>3, <2>5, <2>6 DEF Ownership!HandOver, Registered, CurrentOwner
  <2>7. CASE OwnerIn(state', id) = k
    BY <2>1, <2>2, <2>3, <2>5, <2>7 DEF Ownership!Amend, Registered, CurrentOwner
  <2> QED BY <2>3, <2>6, <2>7
<1>4. ASSUME NEW k \in Keys, NEW lat \in Latitudes, NEW lng \in Longitudes,
             NEW id \in RecordIds, NEW ts \in Timestamps,
             UpdateRecord(k, lat, lng, id, ts)
      PROVE  Ownership!Amend(id)
  <2>1. committed'.action = "UPDATE_RECORD" /\ committed'.signer = k
    BY <1>4 DEF UpdateRecord, Commit, make_update_record
  <2>2. \A other \in RecordIds : OwnerIn(state', other) = OwnerIn(state, other)
    BY <2>1, OwnerFrame
  <2>3. OwnerIn(state, id) = k
    BY <1>4, UpdateRecordGuard DEF OwnerIn
  <2>4. LocationAdded(get_record_address[id], id,
                      [latitude |-> lat, longitude |-> lng, timestamp |-> ts])
    BY <1>4, UpdateRecordStep DEF IInv
  <2>5. Registered(state') = Registered(state)
    BY <2>4, RegisteredFrame DEF LocationAdded
  <2> QED BY <2>1, <2>2, <2>3, <2>5 DEF Ownership!Amend, Registered, CurrentOwner
<1>5. ASSUME state' = state, committed' = committed
      PROVE  UNCHANGED Ownership!vars
  BY <1>5 DEF Ownership!vars, CurrentOwner
<1> QED BY <1>1, <1>2, <1>3, <1>4, <1>5, StepCases DEF Ownership!Next

(* The containers, histories and timestamps of the processor amount to the *)
(* ownership ledger of RecordOwnership.                                    *)
THEOREM ImplementsOwnership == Spec => ImplementsRecordOwnership
<1>1. Init => Ownership!Init
  BY DEF Init, GenesisState, Addresses, NoTransaction, Ownership!Init, CurrentOwner,
         OwnerIn, RecordExists, RecordPositions, AgentExists
<1>2. IInv /\ IInv' /\ [Next]_vars => [Ownership!Next]_(Ownership!vars)
  BY OwnershipStep
<1> QED BY <1>1, <1>2, OwnershipInvariant, PTL
        DEF Spec, ImplementsRecordOwnership, Ownership!Spec

-----------------------------------------------------------------------------
(* Transactions the validator runs in parallel. *)

LEMMA TransactionsDeclare ==
    ASSUME NEW t \in Transactions
    PROVE  WellFormed(t) /\ Declares(t)
<1>1. \A lat \in Latitudes, lng \in Longitudes : lat \in Int /\ lng \in Int
  OBVIOUS
<1>2. \A ts \in Timestamps : ts \in Nat
  BY TimestampsAreNat
<1> QED BY <1>1, <1>2, BuiltWellFormed, BuiltDeclares DEF Transactions

(* What one transaction does is the same after another one that may run in *)
(* parallel with it: it is judged alike and writes the same.               *)
LEMMA SameAfterOther ==
    ASSUME NEW t \in Transactions, NEW u \in Transactions, MayRunInParallel(t, u),
           NEW s \in GlobalStates, NEW now
    PROVE  LET other == apply(s, t, now) IN
           /\ other \in GlobalStates
           /\ Accepts(other, u, now) <=> Accepts(s, u, now)
           /\ \A a \in Addresses \ u.outputs : apply(other, u, now)[a] = other[a]
           /\ \A a \in u.outputs : apply(other, u, now)[a] = apply(s, u, now)[a]
<1> DEFINE other == apply(s, t, now)
<1>1. WellFormed(t) /\ Declares(t) /\ WellFormed(u) /\ Declares(u)
  BY TransactionsDeclare
<1>2. other \in GlobalStates
  BY <1>1, EffectType DEF apply
<1>3. \A a \in Addresses \ t.outputs : other[a] = s[a]
  BY <1>1, WritesOutputs DEF apply
<1>4. t.outputs \cap (u.inputs \cup u.outputs) = {}
  BY DEF MayRunInParallel
<1>5. u.inputs \subseteq Addresses /\ u.outputs \subseteq Addresses
  BY <1>1 DEF Declares, WellFormed, Addresses
<1> HIDE DEF other
<1>6. Agree(other, s, u.inputs) /\ Agree(other, s, u.outputs)
  BY <1>3, <1>4, <1>5 DEF Agree
<1>7. Accepts(other, u, now) <=> Accepts(s, u, now)
  BY <1>1, <1>6, JudgedByInputs
<1>8. /\ \A a \in Addresses \ u.outputs : Effect(other, u)[a] = other[a]
      /\ Agree(Effect(other, u), Effect(s, u), u.outputs)
  BY <1>1, <1>2, <1>6, WritesOutputs
<1>9. \A a \in Addresses \ u.outputs : apply(other, u, now)[a] = other[a]
  BY <1>8 DEF apply
<1>10. \A a \in u.outputs : apply(other, u, now)[a] = apply(s, u, now)[a]
  BY <1>6, <1>7, <1>8 DEF apply, Agree
<1> QED BY <1>2, <1>7, <1>9, <1>10 DEF other

LEMMA ParallelCommute ==
    ASSUME NEW t \in Transactions, NEW u \in Transactions, MayRunInParallel(t, u),
           NEW s \in GlobalStates, NEW now
    PROVE  apply(apply(s, t, now), u, now) = apply(apply(s, u, now), t, now)
<1>1. PICK st : st = apply(s, t, now)
  OBVIOUS
<1>2. PICK su : su = apply(s, u, now)
  OBVIOUS
<1>3. PICK stu : stu = apply(st, u, now)
  OBVIOUS
<1>4. PICK sut : sut = apply(su, t, now)
  OBVIOUS
<1>5. MayRunInParallel(u, t)
  BY DEF MayRunInParallel
<1>6. /\ st \in GlobalStates
      /\ \A a \in Addresses \ u.outputs : stu[a] = st[a]
      /\ \A a \in u.outputs : stu[a] = su[a]
  BY <1>1, <1>2, <1>3, SameAfterOther
<1>7. /\ su \in GlobalStates
      /\ \A a \in Addresses \ t.outputs : sut[a] = su[a]
      /\ \A a \in t.outputs : sut[a] = st[a]
  BY <1>1, <1>2, <1>4, <1>5, SameAfterOther
<1>8. WellFormed(t) /\ Declares(t) /\ WellFormed(u) /\ Declares(u)
  BY TransactionsDeclare
<1>9. \A a \in Addresses \ t.outputs : st[a] = s[a]
  BY <1>1, <1>8, WritesOutputs DEF apply
<1>10. \A a \in Addresses \ u.outputs : su[a] = s[a]
  BY <1>2, <1>8, WritesOutputs DEF apply
<1>11. stu \in GlobalStates /\ sut \in GlobalStates
  BY <1>3, <1>4, <1>6, <1>7, <1>8, EffectType DEF apply
<1>12. t.outputs \cap u.outputs = {}
  BY DEF MayRunInParallel
<1>13. ASSUME NEW a \in Addresses PROVE stu[a] = sut[a]
  <2>1. CASE a \in u.outputs
    BY <1>6, <1>7, <1>12, <2>1
  <2>2. CASE a \in t.outputs
    BY <1>6, <1>7, <1>12, <2>2
  <2>3. CASE a \notin t.outputs \cup u.outputs
    BY <1>6, <1>7, <1>9, <1>10, <2>3
  <2> QED BY <2>1, <2>2, <2>3
<1>14. stu = sut
  BY <1>11, <1>13 DEF GlobalStates
<1> QED BY <1>1, <1>2, <1>3, <1>4, <1>14

(* Two transactions neither of which writes what the other declares end in *)
(* the same state in either order, and each is judged alike: the addresses *)
(* clients declare are enough for the validator to run them in parallel.   *)
THEOREM ParallelIsSound == Spec => []ParallelTransactionsCommute
<1>1. TypeOK => ParallelTransactionsCommute
  BY ParallelCommute, SameAfterOther DEF TypeOK, ParallelTransactionsCommute
<1> QED BY <1>1, TypeCorrect, PTL
=============================================================================
