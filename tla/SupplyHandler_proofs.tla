------------------------ MODULE SupplyHandler_proofs ------------------------
(***************************************************************************)
(* Lemmas about the operations on the global state, for every set of       *)
(* agents and records and every way their identifiers collide.             *)
(***************************************************************************)
EXTENDS SupplyHandler, WellFoundedInduction, TLAPS

USE AddressingAssumption, ToleranceAssumption

-----------------------------------------------------------------------------
(* Type correctness of the operations on the global state. *)

(* Replacing a container by another one of its kind keeps the state typed. *)
LEMMA AgentUpdateType ==
    ASSUME NEW s \in GlobalStates, NEW a \in AgentAddresses, NEW c \in Seq(Agent)
    PROVE  [s EXCEPT ![a] = c] \in GlobalStates
<1> DEFINE t == [s EXCEPT ![a] = c]
<1>1. t \in [Addresses -> Seq(Agent) \cup Seq(Record)]
  BY DEF GlobalStates, Addresses
<1>2. \A b \in AgentAddresses : t[b] \in Seq(Agent)
  BY DEF GlobalStates, Addresses
<1>3. \A b \in RecordAddresses : t[b] \in Seq(Record)
  BY DEF GlobalStates, Addresses
<1> QED BY <1>1, <1>2, <1>3 DEF GlobalStates

LEMMA RecordUpdateType ==
    ASSUME NEW s \in GlobalStates, NEW a \in RecordAddresses, NEW c \in Seq(Record)
    PROVE  [s EXCEPT ![a] = c] \in GlobalStates
<1> DEFINE t == [s EXCEPT ![a] = c]
<1>1. t \in [Addresses -> Seq(Agent) \cup Seq(Record)]
  BY DEF GlobalStates, Addresses
<1>2. \A b \in AgentAddresses : t[b] \in Seq(Agent)
  BY DEF GlobalStates, Addresses
<1>3. \A b \in RecordAddresses : t[b] \in Seq(Record)
  BY DEF GlobalStates, Addresses
<1> QED BY <1>1, <1>2, <1>3 DEF GlobalStates

LEMMA SetAgentType ==
    ASSUME NEW s \in GlobalStates, NEW k \in Keys, NEW ts \in Nat
    PROVE  set_agent(s, k, ts) \in GlobalStates
<1>1. [public_key |-> k, timestamp |-> ts] \in Agent
  BY DEF Agent
<1>2. Append(s[get_agent_address[k]], [public_key |-> k, timestamp |-> ts]) \in Seq(Agent)
  BY <1>1 DEF GlobalStates
<1>3. get_agent_address[k] \in AgentAddresses
  OBVIOUS
<1> QED BY <1>2, <1>3, AgentUpdateType DEF set_agent

LEMMA ContainerType ==
    ASSUME NEW s \in GlobalStates, NEW id \in RecordIds
    PROVE  s[get_record_address[id]] \in Seq(Record)
BY DEF GlobalStates

(* The entries of a record container, and of their histories, are typed. *)
LEMMA EntryType ==
    ASSUME NEW s \in GlobalStates, NEW a \in RecordAddresses, NEW i \in DOMAIN s[a]
    PROVE  /\ s[a][i] \in Record
           /\ s[a][i].owners \in Seq(Owner)
           /\ s[a][i].locations \in Seq(Location)
           /\ \A j \in DOMAIN s[a][i].owners :
                /\ s[a][i].owners[j].agent_id \in Keys
                /\ s[a][i].owners[j].timestamp \in Nat
           /\ \A j \in DOMAIN s[a][i].locations :
                s[a][i].locations[j].timestamp \in Nat
<1>1. s[a] \in Seq(Record)
  BY DEF GlobalStates
<1>2. s[a][i] \in Record
  BY <1>1
<1>3. s[a][i].owners \in Seq(Owner) /\ s[a][i].locations \in Seq(Location)
  BY <1>2 DEF Record
<1>4. \A j \in DOMAIN s[a][i].owners : s[a][i].owners[j] \in Owner
  BY <1>3
<1>5. \A j \in DOMAIN s[a][i].locations : s[a][i].locations[j] \in Location
  BY <1>3
<1> QED BY <1>2, <1>3, <1>4, <1>5 DEF Owner, Location

(* set_record, transfer_record and update_record keep it too. *)
LEMMA SetRecordType ==
    ASSUME NEW s \in GlobalStates, NEW k \in Keys, NEW lat \in Int, NEW lng \in Int,
           NEW id \in RecordIds, NEW ts \in Nat
    PROVE  set_record(s, k, lat, lng, id, ts) \in GlobalStates
<1> DEFINE r == [record_id |-> id,
                 owners    |-> <<[agent_id |-> k, timestamp |-> ts]>>,
                 locations |-> <<[latitude |-> lat, longitude |-> lng,
                                  timestamp |-> ts]>>]
<1>1. r \in Record
  BY DEF Record, Owner, Location
<1>2. Append(s[get_record_address[id]], r) \in Seq(Record)
  BY <1>1, ContainerType
<1> QED BY <1>2, RecordUpdateType DEF set_record

LEMMA AddOwnerType ==
    ASSUME NEW c \in Seq(Record), NEW id \in RecordIds, NEW o \in Owner
    PROVE  AddOwner(c, id, o) \in Seq(Record)
<1>1. ASSUME NEW r \in Record PROVE [r EXCEPT !.owners = Append(@, o)] \in Record
  <2>1. Append(r.owners, o) \in Seq(Owner)
    BY DEF Record
  <2> QED BY <2>1 DEF Record
<1> QED BY <1>1 DEF AddOwner

LEMMA AddLocationType ==
    ASSUME NEW c \in Seq(Record), NEW id \in RecordIds, NEW l \in Location
    PROVE  AddLocation(c, id, l) \in Seq(Record)
<1>1. ASSUME NEW r \in Record PROVE [r EXCEPT !.locations = Append(@, l)] \in Record
  <2>1. Append(r.locations, l) \in Seq(Location)
    BY DEF Record
  <2> QED BY <2>1 DEF Record
<1> QED BY <1>1 DEF AddLocation

LEMMA TransferRecordType ==
    ASSUME NEW s \in GlobalStates, NEW k \in Keys, NEW id \in RecordIds, NEW ts \in Nat
    PROVE  transfer_record(s, k, id, ts) \in GlobalStates
<1>1. [agent_id |-> k, timestamp |-> ts] \in Owner
  BY DEF Owner
<1>2. AddOwner(s[get_record_address[id]], id, [agent_id |-> k, timestamp |-> ts])
        \in Seq(Record)
  BY <1>1, ContainerType, AddOwnerType
<1> QED BY <1>2, RecordUpdateType DEF transfer_record

LEMMA UpdateRecordType ==
    ASSUME NEW s \in GlobalStates, NEW lat \in Int, NEW lng \in Int,
           NEW id \in RecordIds, NEW ts \in Nat
    PROVE  update_record(s, lat, lng, id, ts) \in GlobalStates
<1> DEFINE l == [latitude |-> lat, longitude |-> lng, timestamp |-> ts]
<1>1. l \in Location
  BY DEF Location
<1>2. AddLocation(s[get_record_address[id]], id, l) \in Seq(Record)
  BY <1>1, ContainerType, AddLocationType
<1> QED BY <1>2, RecordUpdateType DEF update_record

-----------------------------------------------------------------------------
(* What one operation changes in the global state, and what it leaves. *)

LEMMA SetAgentFrame ==
    ASSUME NEW s \in GlobalStates, NEW k \in Keys, NEW ts \in Nat
    PROVE  LET t == set_agent(s, k, ts)
               a == get_agent_address[k]
           IN  /\ t[a] = Append(s[a], [public_key |-> k, timestamp |-> ts])
               /\ \A b \in AgentAddresses \ {a} : t[b] = s[b]
               /\ \A b \in RecordAddresses : t[b] = s[b]
BY DEF set_agent, GlobalStates, Addresses

LEMMA SetRecordFrame ==
    ASSUME NEW s \in GlobalStates, NEW k \in Keys, NEW lat \in Int, NEW lng \in Int,
           NEW id \in RecordIds, NEW ts \in Nat
    PROVE  LET t == set_record(s, k, lat, lng, id, ts)
               a == get_record_address[id]
           IN  /\ t[a] = Append(s[a],
                    [record_id |-> id,
                     owners    |-> <<[agent_id |-> k, timestamp |-> ts]>>,
                     locations |-> <<[latitude |-> lat, longitude |-> lng,
                                      timestamp |-> ts]>>])
               /\ \A b \in RecordAddresses \ {a} : t[b] = s[b]
               /\ \A b \in AgentAddresses : t[b] = s[b]
BY DEF set_record, GlobalStates, Addresses

LEMMA TransferRecordFrame ==
    ASSUME NEW s \in GlobalStates, NEW k \in Keys, NEW id \in RecordIds, NEW ts \in Nat
    PROVE  LET t == transfer_record(s, k, id, ts)
               a == get_record_address[id]
           IN  /\ t[a] = AddOwner(s[a], id, [agent_id |-> k, timestamp |-> ts])
               /\ \A b \in RecordAddresses \ {a} : t[b] = s[b]
               /\ \A b \in AgentAddresses : t[b] = s[b]
BY DEF transfer_record, GlobalStates, Addresses

LEMMA UpdateRecordFrame ==
    ASSUME NEW s \in GlobalStates, NEW lat \in Int, NEW lng \in Int,
           NEW id \in RecordIds, NEW ts \in Nat
    PROVE  LET t == update_record(s, lat, lng, id, ts)
               a == get_record_address[id]
           IN  /\ t[a] = AddLocation(s[a], id,
                    [latitude |-> lat, longitude |-> lng, timestamp |-> ts])
               /\ \A b \in RecordAddresses \ {a} : t[b] = s[b]
               /\ \A b \in AgentAddresses : t[b] = s[b]
BY DEF update_record, GlobalStates, Addresses

(* Extending histories keeps the entries of a container, in their places. *)
LEMMA AddOwnerEntries ==
    ASSUME NEW c \in Seq(Record), NEW id \in RecordIds, NEW o \in Owner
    PROVE  /\ DOMAIN AddOwner(c, id, o) = DOMAIN c
           /\ \A i \in DOMAIN c :
                 /\ AddOwner(c, id, o)[i].record_id = c[i].record_id
                 /\ AddOwner(c, id, o)[i].locations = c[i].locations
                 /\ AddOwner(c, id, o)[i].owners =
                        IF c[i].record_id = id THEN Append(c[i].owners, o)
                                               ELSE c[i].owners
<1>1. \A i \in DOMAIN c : c[i] \in Record
  OBVIOUS
<1> QED BY <1>1 DEF AddOwner, Record

LEMMA AddLocationEntries ==
    ASSUME NEW c \in Seq(Record), NEW id \in RecordIds, NEW l \in Location
    PROVE  /\ DOMAIN AddLocation(c, id, l) = DOMAIN c
           /\ \A i \in DOMAIN c :
                 /\ AddLocation(c, id, l)[i].record_id = c[i].record_id
                 /\ AddLocation(c, id, l)[i].owners = c[i].owners
                 /\ AddLocation(c, id, l)[i].locations =
                        IF c[i].record_id = id THEN Append(c[i].locations, l)
                                               ELSE c[i].locations
<1>1. \A i \in DOMAIN c : c[i] \in Record
  OBVIOUS
<1> QED BY <1>1 DEF AddLocation, Record

-----------------------------------------------------------------------------
(* Whole transactions. *)

(* What clients fill in. *)
WellFormed(t) ==
    /\ t.timestamp \in Nat
    /\ \/ t.action = "CREATE_AGENT" /\ t.signer \in Keys
       \/ /\ t.action = "CREATE_RECORD"
          /\ t.signer \in Keys /\ t.record_id \in RecordIds
          /\ t.latitude \in Int /\ t.longitude \in Int
       \/ /\ t.action = "TRANSFER_RECORD"
          /\ t.receiving_agent \in Keys /\ t.record_id \in RecordIds
       \/ /\ t.action = "UPDATE_RECORD"
          /\ t.record_id \in RecordIds
          /\ t.latitude \in Int /\ t.longitude \in Int

LEMMA BuiltWellFormed ==
    ASSUME NEW k \in Keys, NEW ts \in Nat, NEW id \in RecordIds, NEW receiver \in Keys,
           NEW lat \in Int, NEW lng \in Int
    PROVE  /\ WellFormed(make_create_agent(k, ts))
           /\ WellFormed(make_create_record(k, lat, lng, id, ts))
           /\ WellFormed(make_transfer_record(k, receiver, id, ts))
           /\ WellFormed(make_update_record(k, lat, lng, id, ts))
BY DEF WellFormed, make_create_agent, make_create_record, make_transfer_record,
       make_update_record

LEMMA GenesisType == GenesisState \in GlobalStates
<1>1. GenesisState \in [Addresses -> Seq(Agent) \cup Seq(Record)]
  BY DEF GenesisState
<1>2. \A a \in AgentAddresses : GenesisState[a] \in Seq(Agent)
  BY DEF GenesisState, Addresses
<1>3. \A a \in RecordAddresses : GenesisState[a] \in Seq(Record)
  BY DEF GenesisState, Addresses
<1> QED BY <1>1, <1>2, <1>3 DEF GlobalStates

LEMMA EffectType ==
    ASSUME NEW s \in GlobalStates, NEW t, WellFormed(t)
    PROVE  Effect(s, t) \in GlobalStates
<1>1. CASE t.action = "CREATE_AGENT"
  BY <1>1, SetAgentType DEF WellFormed, Effect
<1>2. CASE t.action = "CREATE_RECORD"
  BY <1>2, SetRecordType DEF WellFormed, Effect
<1>3. CASE t.action = "TRANSFER_RECORD"
  BY <1>3, TransferRecordType DEF WellFormed, Effect
<1>4. CASE t.action = "UPDATE_RECORD"
  BY <1>4, UpdateRecordType DEF WellFormed, Effect
<1> QED BY <1>1, <1>2, <1>3, <1>4 DEF WellFormed

(* set_agent stores the new agent and keeps the others. *)
LEMMA SetAgentAgents ==
    ASSUME NEW s \in GlobalStates, NEW k \in Keys, NEW ts \in Nat
    PROVE  /\ AgentExists(set_agent(s, k, ts), k)
           /\ \A q \in Keys : AgentExists(s, q) => AgentExists(set_agent(s, k, ts), q)
<1> DEFINE u == set_agent(s, k, ts)
           b == get_agent_address[k]
           e == [public_key |-> k, timestamp |-> ts]
<1>1. /\ u[b] = Append(s[b], e)
      /\ \A a \in AgentAddresses \ {b} : u[a] = s[a]
  BY SetAgentFrame
<1>2. s[b] \in Seq(Agent)
  BY DEF GlobalStates
<1>3. e.public_key = k
  OBVIOUS
<1> HIDE DEF u, e
<1>4. \A i \in DOMAIN s[b] : i \in DOMAIN u[b] /\ u[b][i] = s[b][i]
  BY <1>1, <1>2
<1>5. Len(s[b]) + 1 \in DOMAIN u[b] /\ u[b][Len(s[b]) + 1] = e
  BY <1>1, <1>2
<1>6. AgentExists(u, k)
  BY <1>3, <1>5 DEF AgentExists
<1>7. \A q \in Keys : AgentExists(s, q) => AgentExists(u, q)
  BY <1>1, <1>4 DEF AgentExists
<1> QED BY <1>6, <1>7 DEF u

(* No transaction forgets an agent. *)
LEMMA EffectKeepsAgents ==
    ASSUME NEW s \in GlobalStates, NEW t, WellFormed(t), NEW q \in Keys, AgentExists(s, q)
    PROVE  AgentExists(Effect(s, t), q)
<1>1. ASSUME NEW u, \A a \in AgentAddresses : u[a] = s[a]
      PROVE  AgentExists(u, q)
  BY <1>1 DEF AgentExists
<1>2. CASE t.action = "CREATE_AGENT"
  BY <1>2, SetAgentAgents DEF WellFormed, Effect
<1>3. CASE t.action = "CREATE_RECORD"
  <2>1. Effect(s, t) = set_record(s, t.signer, t.latitude, t.longitude, t.record_id,
                                  t.timestamp)
    BY <1>3 DEF Effect
  <2>2. /\ t.signer \in Keys /\ t.latitude \in Int /\ t.longitude \in Int
        /\ t.record_id \in RecordIds /\ t.timestamp \in Nat
    BY <1>3 DEF WellFormed
  <2>3. \A a \in AgentAddresses : set_record(s, t.signer, t.latitude, t.longitude, t.record_id, t.timestamp)[a] = s[a]
    BY <2>2 DEF set_record, GlobalStates, Addresses
  <2> QED BY <1>1, <2>1, <2>3
<1>4. CASE t.action = "TRANSFER_RECORD"
  <2>1. Effect(s, t) = transfer_record(s, t.receiving_agent, t.record_id, t.timestamp)
    BY <1>4 DEF Effect
  <2>2. t.receiving_agent \in Keys /\ t.record_id \in RecordIds /\ t.timestamp \in Nat
    BY <1>4 DEF WellFormed
  <2>3. \A a \in AgentAddresses : transfer_record(s, t.receiving_agent, t.record_id, t.timestamp)[a] = s[a]
    BY <2>2 DEF transfer_record, GlobalStates, Addresses
  <2> QED BY <1>1, <2>1, <2>3
<1>5. CASE t.action = "UPDATE_RECORD"
  <2>1. Effect(s, t) = update_record(s, t.latitude, t.longitude, t.record_id, t.timestamp)
    BY <1>5 DEF Effect
  <2>2. /\ t.latitude \in Int /\ t.longitude \in Int
        /\ t.record_id \in RecordIds /\ t.timestamp \in Nat
    BY <1>5 DEF WellFormed
  <2>3. \A a \in AgentAddresses : update_record(s, t.latitude, t.longitude, t.record_id, t.timestamp)[a] = s[a]
    BY <2>2 DEF update_record, GlobalStates, Addresses
  <2> QED BY <1>1, <2>1, <2>3
<1> QED BY <1>2, <1>3, <1>4, <1>5 DEF WellFormed

LEMMA EffectCreatesAgent ==
    ASSUME NEW s \in GlobalStates, NEW t, WellFormed(t), t.action = "CREATE_AGENT"
    PROVE  AgentExists(Effect(s, t), t.signer)
BY SetAgentAgents DEF WellFormed, Effect

-----------------------------------------------------------------------------
(* What a transaction does to the record get_record returns. *)

(* A set of naturals has a least element. *)
LEMMA HasLeast ==
    ASSUME NEW S, S \subseteq Nat, S # {}
    PROVE  \E x \in S : \A y \in S : x <= y
<1> DEFINE R == OpToRel(<, Nat)
<1>1. IsWellFoundedOn(R, Nat)
  BY NatLessThanWellFounded
<1>2. \A x, y \in Nat : x < y => <<x, y>> \in R
  BY DEF OpToRel
<1> HIDE DEF R
<1>3. PICK x \in S : \A y \in S : ~(<<y, x>> \in R)
  BY <1>1, WFMin
<1>4. ASSUME NEW y \in S PROVE x <= y
  <2>1. x \in Nat /\ y \in Nat
    OBVIOUS
  <2>2. y < x => <<y, x>> \in R
    BY <1>2, <2>1
  <2>3. <<y, x>> \notin R
    BY <1>3
  <2> QED BY <2>1, <2>2, <2>3
<1> QED BY <1>3, <1>4
(* get_record returns one of the entries of its name. *)
LEMMA FirstRecord ==
    ASSUME NEW s \in GlobalStates, NEW id \in RecordIds, RecordExists(s, id)
    PROVE  \E i \in RecordPositions(s, id) :
              /\ \A j \in RecordPositions(s, id) : i <= j
              /\ get_record(s, id) = s[get_record_address[id]][i]
<1>1. RecordPositions(s, id) \subseteq Nat /\ RecordPositions(s, id) # {}
  BY ContainerType DEF RecordPositions, RecordExists
<1>2. \E i \in RecordPositions(s, id) : \A j \in RecordPositions(s, id) : i <= j
  BY <1>1, HasLeast
<1> DEFINE first == CHOOSE i \in RecordPositions(s, id) : \A j \in RecordPositions(s, id) : i <= j
<1>3. first \in RecordPositions(s, id) /\ \A j \in RecordPositions(s, id) : first <= j
  BY <1>2
<1>4. get_record(s, id) = s[get_record_address[id]][first]
  BY DEF get_record
<1> QED BY <1>3, <1>4

(* When a container keeps its first entries, with their names, and an      *)
(* entry of another name may come after, get_record returns the same one.  *)
LEMMA SameRecordFirst ==
    ASSUME NEW s \in GlobalStates, NEW u \in GlobalStates, NEW id \in RecordIds,
           RecordExists(s, id), RecordPositions(u, id) = RecordPositions(s, id)
    PROVE  /\ RecordExists(u, id)
           /\ \E i \in RecordPositions(s, id) :
                 /\ get_record(s, id) = s[get_record_address[id]][i]
                 /\ get_record(u, id) = u[get_record_address[id]][i]
<1>1. RecordExists(u, id)
  BY DEF RecordExists
<1>2. PICK i \in RecordPositions(s, id) :
        /\ \A j \in RecordPositions(s, id) : i <= j
        /\ get_record(s, id) = s[get_record_address[id]][i]
  BY FirstRecord
<1>3. PICK m \in RecordPositions(u, id) :
        /\ \A j \in RecordPositions(u, id) : m <= j
        /\ get_record(u, id) = u[get_record_address[id]][m]
  BY <1>1, FirstRecord
<1>4. i = m
  <2>1. i \in Nat /\ m \in Nat
    BY <1>2, <1>3, ContainerType DEF RecordPositions
  <2> QED BY <1>2, <1>3, <2>1
<1> QED BY <1>1, <1>2, <1>3, <1>4

(* An accepted transaction keeps every record; its owners change only by   *)
(* an accepted transfer of it, which appends the receiver.                 *)
LEMMA EffectOnRecord ==
    ASSUME NEW s \in GlobalStates, NEW t, WellFormed(t), NEW now, Accepts(s, t, now),
           NEW id \in RecordIds, RecordExists(s, id)
    PROVE  /\ RecordExists(Effect(s, t), id)
           /\ get_record(Effect(s, t), id).owners =
                 IF t.action = "TRANSFER_RECORD" /\ t.record_id = id
                 THEN Append(get_record(s, id).owners,
                             [agent_id |-> t.receiving_agent, timestamp |-> t.timestamp])
                 ELSE get_record(s, id).owners
<1> DEFINE u == Effect(s, t)
           b == get_record_address[id]
           o == [agent_id |-> t.receiving_agent, timestamp |-> t.timestamp]
           moved == t.action = "TRANSFER_RECORD" /\ t.record_id = id
<1>1. u \in GlobalStates /\ s[b] \in Seq(Record)
  BY EffectType, ContainerType
<1>2. SUFFICES
        /\ RecordPositions(u, id) = RecordPositions(s, id)
        /\ \A i \in RecordPositions(s, id) :
              u[b][i].owners = IF moved THEN Append(s[b][i].owners, o) ELSE s[b][i].owners
  <2> HIDE DEF u, o, moved
  <2>1. /\ RecordExists(u, id)
        /\ \E i \in RecordPositions(s, id) :
              get_record(s, id) = s[b][i] /\ get_record(u, id) = u[b][i]
    BY <1>1, <1>2, SameRecordFirst
  <2>2. /\ RecordExists(u, id)
        /\ get_record(u, id).owners = IF moved THEN Append(get_record(s, id).owners, o)
                                               ELSE get_record(s, id).owners
    BY <1>2, <2>1
  <2> QED BY <2>2 DEF u, o, moved
<1>0. b \in RecordAddresses
  OBVIOUS
<1> HIDE DEF u
<1>3. ASSUME u[b] = s[b], ~moved
      PROVE  /\ RecordPositions(u, id) = RecordPositions(s, id)
             /\ \A i \in RecordPositions(s, id) :
                   u[b][i].owners = IF moved THEN Append(s[b][i].owners, o) ELSE s[b][i].owners
  BY <1>3 DEF RecordPositions
<1>4. CASE t.action = "CREATE_AGENT"
  <2>1. u = set_agent(s, t.signer, t.timestamp)
    BY <1>4 DEF Effect, u
  <2>2. t.signer \in Keys /\ t.timestamp \in Nat
    BY <1>4 DEF WellFormed
  <2>3. u[b] = s[b]
    BY <1>0, <2>1, <2>2 DEF set_agent, GlobalStates, Addresses
  <2> QED BY <1>3, <1>4, <2>3
<1>5. CASE t.action = "CREATE_RECORD"
  <2> DEFINE e == [record_id |-> t.record_id,
                   owners    |-> <<[agent_id |-> t.signer, timestamp |-> t.timestamp]>>,
                   locations |-> <<[latitude |-> t.latitude, longitude |-> t.longitude,
                                    timestamp |-> t.timestamp]>>]
             a == get_record_address[t.record_id]
  <2>1. u = set_record(s, t.signer, t.latitude, t.longitude, t.record_id, t.timestamp)
    BY <1>5 DEF Effect, u
  <2>2. /\ t.signer \in Keys /\ t.latitude \in Int /\ t.longitude \in Int
        /\ t.record_id \in RecordIds /\ t.timestamp \in Nat
    BY <1>5 DEF WellFormed
  <2>3. u[a] = Append(s[a], e) /\ \A c \in RecordAddresses \ {a} : u[c] = s[c]
    BY <2>1, <2>2 DEF set_record, GlobalStates, Addresses
  <2>4. t.record_id # id
    BY <1>5 DEF Accepts, MayCreateRecord
  <2>5. CASE a # b
    <3>1. u[b] = s[b]
      BY <1>0, <2>3, <2>5
    <3> QED BY <1>3, <1>5, <3>1
  <2>6. CASE a = b
    <3>1. e.record_id # id
      BY <2>4
    <3>2. u[b] = Append(s[b], e)
      BY <2>3, <2>6
    <3> HIDE DEF e, a, b, moved
    <3>3. /\ DOMAIN u[b] = DOMAIN s[b] \cup {Len(s[b]) + 1}
          /\ \A i \in DOMAIN s[b] : u[b][i] = s[b][i]
          /\ u[b][Len(s[b]) + 1] = e
      BY <1>1, <3>2
    <3>4. RecordPositions(u, id) = RecordPositions(s, id)
      BY <3>1, <3>3 DEF RecordPositions, b
    <3>5. \A i \in RecordPositions(s, id) : u[b][i] = s[b][i]
      BY <3>3 DEF RecordPositions, b
    <3> QED BY <1>5, <3>4, <3>5 DEF moved
  <2> QED BY <2>5, <2>6
<1>6. CASE t.action = "TRANSFER_RECORD"
  <2> DEFINE a == get_record_address[t.record_id]
  <2>1. u = transfer_record(s, t.receiving_agent, t.record_id, t.timestamp)
    BY <1>6 DEF Effect, u
  <2>2. t.receiving_agent \in Keys /\ t.record_id \in RecordIds /\ t.timestamp \in Nat
    BY <1>6 DEF WellFormed
  <2>3. u[a] = AddOwner(s[a], t.record_id, o) /\ \A c \in RecordAddresses \ {a} : u[c] = s[c]
    BY <2>1, <2>2, TransferRecordFrame
  <2>4. CASE a # b
    <3>1. u[b] = s[b]
      BY <1>0, <2>3, <2>4
    <3>2. t.record_id # id
      BY <2>4
    <3> QED BY <1>3, <3>1, <3>2
  <2>5. CASE a = b
    <3>1. o \in Owner
      BY <2>2 DEF Owner
    <3> HIDE DEF o, a
    <3>2. /\ DOMAIN u[b] = DOMAIN s[b]
          /\ \A i \in DOMAIN s[b] :
                /\ u[b][i].record_id = s[b][i].record_id
                /\ u[b][i].owners = IF s[b][i].record_id = t.record_id
                                    THEN Append(s[b][i].owners, o) ELSE s[b][i].owners
      BY <1>1, <2>2, <2>3, <2>5, <3>1, AddOwnerEntries
    <3>3. RecordPositions(u, id) = RecordPositions(s, id)
      BY <3>2 DEF RecordPositions
    <3>4. \A i \in RecordPositions(s, id) : i \in DOMAIN s[b] /\ s[b][i].record_id = id
      BY DEF RecordPositions
    <3> QED BY <1>6, <3>2, <3>3, <3>4
  <2> QED BY <2>4, <2>5
<1>7. CASE t.action = "UPDATE_RECORD"
  <2> DEFINE a == get_record_address[t.record_id]
             l == [latitude |-> t.latitude, longitude |-> t.longitude,
                   timestamp |-> t.timestamp]
  <2>1. u = update_record(s, t.latitude, t.longitude, t.record_id, t.timestamp)
    BY <1>7 DEF Effect, u
  <2>2. /\ t.latitude \in Int /\ t.longitude \in Int
        /\ t.record_id \in RecordIds /\ t.timestamp \in Nat
    BY <1>7 DEF WellFormed
  <2>3. u[a] = AddLocation(s[a], t.record_id, l) /\ \A c \in RecordAddresses \ {a} : u[c] = s[c]
    BY <2>1, <2>2, UpdateRecordFrame
  <2>4. CASE a # b
    <3>1. u[b] = s[b]
      BY <1>0, <2>3, <2>4
    <3> QED BY <1>3, <1>7, <3>1
  <2>5. CASE a = b
    <3>1. l \in Location
      BY <2>2 DEF Location
    <3> HIDE DEF l, a
    <3>2. /\ DOMAIN u[b] = DOMAIN s[b]
          /\ \A i \in DOMAIN s[b] :
                /\ u[b][i].record_id = s[b][i].record_id
                /\ u[b][i].owners = s[b][i].owners
      BY <1>1, <2>2, <2>3, <2>5, <3>1, AddLocationEntries
    <3>3. RecordPositions(u, id) = RecordPositions(s, id)
      BY <3>2 DEF RecordPositions
    <3>4. \A i \in RecordPositions(s, id) : i \in DOMAIN s[b]
      BY DEF RecordPositions
    <3> QED BY <1>7, <3>2, <3>3, <3>4
  <2> QED BY <2>4, <2>5
<1> QED BY <1>4, <1>5, <1>6, <1>7 DEF WellFormed

(* Where an entry of an owner history comes from: it was there, or the     *)
(* transaction creates or transfers the record and dates it.               *)
WasThere(s, u, a, i, j) ==
    /\ i \in DOMAIN s[a] /\ s[a][i].record_id = u[a][i].record_id
    /\ j \in DOMAIN s[a][i].owners /\ s[a][i].owners[j] = u[a][i].owners[j]

AddedBy(t, r, j) ==
    /\ t.action \in {"CREATE_RECORD", "TRANSFER_RECORD"} /\ t.record_id = r.record_id
    /\ r.owners[j].timestamp = t.timestamp

LEMMA EffectOwners ==
    ASSUME NEW s \in GlobalStates, NEW t, WellFormed(t), NEW u, u = Effect(s, t),
           NEW a \in RecordAddresses, NEW i \in DOMAIN u[a], NEW j \in DOMAIN u[a][i].owners
    PROVE  WasThere(s, u, a, i, j) \/ AddedBy(t, u[a][i], j)
<1> DEFINE b == get_record_address[t.record_id]
<1>1. s[a] \in Seq(Record)
  BY DEF GlobalStates
<1>2. ASSUME u[a] = s[a] PROVE WasThere(s, u, a, i, j)
  BY <1>2 DEF WasThere
<1>3. CASE t.action = "CREATE_AGENT"
  <2>1. u = set_agent(s, t.signer, t.timestamp)
    BY <1>3 DEF Effect
  <2>2. t.signer \in Keys /\ t.timestamp \in Nat
    BY <1>3 DEF WellFormed
  <2>3. u[a] = s[a]
    BY <2>1, <2>2 DEF set_agent, GlobalStates, Addresses
  <2> QED BY <1>2, <2>3
<1>4. CASE t.action = "CREATE_RECORD"
  <2> DEFINE o == [agent_id |-> t.signer, timestamp |-> t.timestamp]
             e == [record_id |-> t.record_id,
                   owners    |-> <<o>>,
                   locations |-> <<[latitude |-> t.latitude, longitude |-> t.longitude,
                                    timestamp |-> t.timestamp]>>]
  <2>1. u = set_record(s, t.signer, t.latitude, t.longitude, t.record_id, t.timestamp)
    BY <1>4 DEF Effect
  <2>2. /\ t.signer \in Keys /\ t.latitude \in Int /\ t.longitude \in Int
        /\ t.record_id \in RecordIds /\ t.timestamp \in Nat
    BY <1>4 DEF WellFormed
  <2>3. u[b] = Append(s[b], e) /\ \A c \in RecordAddresses \ {b} : u[c] = s[c]
    BY <2>1, <2>2 DEF set_record, GlobalStates, Addresses
  <2>4. CASE a = b
    <3>1. e.owners = <<o>> /\ e.record_id = t.record_id /\ o.timestamp = t.timestamp
      OBVIOUS
    <3> HIDE DEF e, o, b
    <3>2. u[a] = Append(s[a], e)
      BY <2>3, <2>4
    <3>3. CASE i \in DOMAIN s[a]
      <4>1. u[a][i] = s[a][i]
        BY <1>1, <3>2, <3>3
      <4> QED BY <3>3, <4>1 DEF WasThere
    <3>4. CASE i \notin DOMAIN s[a]
      <4>1. u[a][i] = e
        BY <1>1, <3>2, <3>4
      <4>2. j = 1 /\ u[a][i].owners[j] = o
        BY <3>1, <4>1
      <4> QED BY <1>4, <3>1, <4>1, <4>2 DEF AddedBy
    <3> QED BY <3>3, <3>4
  <2> QED BY <1>2, <2>3, <2>4
<1>5. CASE t.action = "TRANSFER_RECORD"
  <2> DEFINE o == [agent_id |-> t.receiving_agent, timestamp |-> t.timestamp]
  <2>1. u = transfer_record(s, t.receiving_agent, t.record_id, t.timestamp)
    BY <1>5 DEF Effect
  <2>2. t.receiving_agent \in Keys /\ t.record_id \in RecordIds /\ t.timestamp \in Nat
    BY <1>5 DEF WellFormed
  <2>3. u[b] = AddOwner(s[b], t.record_id, o) /\ \A c \in RecordAddresses \ {b} : u[c] = s[c]
    BY <2>1, <2>2, TransferRecordFrame
  <2>4. CASE a = b
    <3>1. o \in Owner /\ o.timestamp = t.timestamp
      BY <2>2 DEF Owner
    <3> HIDE DEF o, b
    <3>2. /\ DOMAIN u[a] = DOMAIN s[a]
          /\ u[a][i].record_id = s[a][i].record_id
          /\ u[a][i].owners = IF s[a][i].record_id = t.record_id
                              THEN Append(s[a][i].owners, o) ELSE s[a][i].owners
      BY <1>1, <2>2, <2>3, <2>4, <3>1, AddOwnerEntries
    <3>3. s[a][i].owners \in Seq(Owner)
      BY <3>2, EntryType
    <3>4. CASE j \in DOMAIN s[a][i].owners
      <4>1. u[a][i].owners[j] = s[a][i].owners[j]
        BY <3>2, <3>3, <3>4
      <4> QED BY <3>2, <3>4, <4>1 DEF WasThere
    <3>5. CASE j \notin DOMAIN s[a][i].owners
      <4>1. s[a][i].record_id = t.record_id /\ u[a][i].owners[j] = o
        BY <3>2, <3>3, <3>5
      <4> QED BY <1>5, <3>1, <3>2, <4>1 DEF AddedBy
    <3> QED BY <3>4, <3>5
  <2> QED BY <1>2, <2>3, <2>4
<1>6. CASE t.action = "UPDATE_RECORD"
  <2> DEFINE l == [latitude |-> t.latitude, longitude |-> t.longitude,
                   timestamp |-> t.timestamp]
  <2>1. u = update_record(s, t.latitude, t.longitude, t.record_id, t.timestamp)
    BY <1>6 DEF Effect
  <2>2. /\ t.latitude \in Int /\ t.longitude \in Int
        /\ t.record_id \in RecordIds /\ t.timestamp \in Nat
    BY <1>6 DEF WellFormed
  <2>3. u[b] = AddLocation(s[b], t.record_id, l) /\ \A c \in RecordAddresses \ {b} : u[c] = s[c]
    BY <2>1, <2>2, UpdateRecordFrame
  <2>4. CASE a = b
    <3>1. l \in Location
      BY <2>2 DEF Location
    <3> HIDE DEF l, b
    <3>2. /\ DOMAIN u[a] = DOMAIN s[a]
          /\ u[a][i].record_id = s[a][i].record_id
          /\ u[a][i].owners = s[a][i].owners
      BY <1>1, <2>2, <2>3, <2>4, <3>1, AddLocationEntries
    <3> QED BY <3>2 DEF WasThere
  <2> QED BY <1>2, <2>3, <2>4
<1> QED BY <1>3, <1>4, <1>5, <1>6 DEF WellFormed

-----------------------------------------------------------------------------
(* What a transaction reads and what it writes. *)

(* The addresses a transaction declares, by what it is. *)
Declares(t) ==
    LET record == get_record_address[t.record_id] IN
    \/ /\ t.action = "CREATE_AGENT" /\ t.signer \in Keys
       /\ t.inputs = {get_agent_address[t.signer]}
       /\ t.outputs = {get_agent_address[t.signer]}
    \/ /\ t.action \in {"CREATE_RECORD", "UPDATE_RECORD"} /\ t.signer \in Keys
       /\ t.inputs = {get_agent_address[t.signer], record}
       /\ t.outputs = {record}
    \/ /\ t.action = "TRANSFER_RECORD" /\ t.signer \in Keys
       /\ t.inputs = {get_agent_address[t.signer], get_agent_address[t.receiving_agent], record}
       /\ t.outputs = {record}

LEMMA BuiltDeclares ==
    ASSUME NEW k \in Keys, NEW ts \in Nat, NEW id \in RecordIds, NEW receiver \in Keys,
           NEW lat \in Int, NEW lng \in Int
    PROVE  /\ Declares(make_create_agent(k, ts))
           /\ Declares(make_create_record(k, lat, lng, id, ts))
           /\ Declares(make_transfer_record(k, receiver, id, ts))
           /\ Declares(make_update_record(k, lat, lng, id, ts))
BY DEF Declares, make_create_agent, make_create_record, make_transfer_record,
       make_update_record

(* Lookups see nothing but the container at the address.                   *)
LEMMA LookupsAreLocal ==
    ASSUME NEW s, NEW v
    PROVE  /\ \A k \in Keys : s[get_agent_address[k]] = v[get_agent_address[k]] =>
                 (AgentExists(s, k) <=> AgentExists(v, k))
           /\ \A id \in RecordIds : s[get_record_address[id]] = v[get_record_address[id]] =>
                 /\ RecordExists(s, id) <=> RecordExists(v, id)
                 /\ get_record(s, id) = get_record(v, id)
<1>1. ASSUME NEW k \in Keys, s[get_agent_address[k]] = v[get_agent_address[k]]
      PROVE  AgentExists(s, k) <=> AgentExists(v, k)
  BY <1>1 DEF AgentExists
<1>2. ASSUME NEW id \in RecordIds, s[get_record_address[id]] = v[get_record_address[id]]
      PROVE  /\ RecordExists(s, id) <=> RecordExists(v, id)
             /\ get_record(s, id) = get_record(v, id)
  <2>1. RecordPositions(s, id) = RecordPositions(v, id)
    BY <1>2 DEF RecordPositions
  <2> QED BY <1>2, <2>1 DEF RecordExists, get_record
<1> QED BY <1>1, <1>2

(* A transaction is judged by the addresses it declares as inputs.         *)
Agree(s, v, addresses) == \A a \in addresses : s[a] = v[a]

LEMMA JudgedByInputs ==
    ASSUME NEW t, WellFormed(t), Declares(t), NEW s, NEW v, Agree(s, v, t.inputs), NEW now
    PROVE  Accepts(s, t, now) <=> Accepts(v, t, now)
<1> DEFINE record == get_record_address[t.record_id]
<1>1. CASE t.action = "CREATE_AGENT"
  <2>1. t.signer \in Keys /\ s[get_agent_address[t.signer]] = v[get_agent_address[t.signer]]
    BY <1>1 DEF Declares, Agree
  <2>2. AgentExists(s, t.signer) <=> AgentExists(v, t.signer)
    BY <2>1, LookupsAreLocal
  <2> QED BY <1>1, <2>2 DEF Accepts, MayCreateAgent
<1>2. CASE t.action = "CREATE_RECORD"
  <2>1. /\ t.signer \in Keys /\ s[get_agent_address[t.signer]] = v[get_agent_address[t.signer]]
        /\ t.record_id \in RecordIds /\ s[record] = v[record]
    BY <1>2 DEF Declares, Agree, WellFormed
  <2>2. /\ AgentExists(s, t.signer) <=> AgentExists(v, t.signer)
        /\ RecordExists(s, t.record_id) <=> RecordExists(v, t.record_id)
    BY <2>1, LookupsAreLocal
  <2> QED BY <1>2, <2>2 DEF Accepts, MayCreateRecord
<1>3. CASE t.action = "TRANSFER_RECORD"
  <2>1. /\ t.receiving_agent \in Keys
        /\ s[get_agent_address[t.receiving_agent]] = v[get_agent_address[t.receiving_agent]]
        /\ t.record_id \in RecordIds /\ s[record] = v[record]
    BY <1>3 DEF Declares, Agree, WellFormed
  <2>2. /\ AgentExists(s, t.receiving_agent) <=> AgentExists(v, t.receiving_agent)
        /\ RecordExists(s, t.record_id) <=> RecordExists(v, t.record_id)
        /\ get_record(s, t.record_id) = get_record(v, t.record_id)
    BY <2>1, LookupsAreLocal
  <2> QED BY <1>3, <2>2 DEF Accepts, MayTransferRecord, ValidRecordOwner
<1>4. CASE t.action = "UPDATE_RECORD"
  <2>1. t.record_id \in RecordIds /\ s[record] = v[record]
    BY <1>4 DEF Declares, Agree, WellFormed
  <2>2. /\ RecordExists(s, t.record_id) <=> RecordExists(v, t.record_id)
        /\ get_record(s, t.record_id) = get_record(v, t.record_id)
    BY <2>1, LookupsAreLocal
  <2> QED BY <1>4, <2>2 DEF Accepts, MayUpdateRecord, ValidRecordOwner
<1> QED BY <1>1, <1>2, <1>3, <1>4 DEF WellFormed

(* It writes only the addresses it declares as outputs, and what it writes *)
(* there depends on nothing else.                                          *)
LEMMA WritesOutputs ==
    ASSUME NEW t, WellFormed(t), Declares(t), NEW s \in GlobalStates, NEW v \in GlobalStates
    PROVE  /\ \A a \in Addresses \ t.outputs : Effect(s, t)[a] = s[a]
           /\ Agree(s, v, t.outputs) => Agree(Effect(s, t), Effect(v, t), t.outputs)
           /\ t.outputs \subseteq Addresses
<1> DEFINE record == get_record_address[t.record_id]
<1>1. CASE t.action = "CREATE_AGENT"
  <2>1. t.signer \in Keys /\ t.outputs = {get_agent_address[t.signer]}
    BY <1>1 DEF Declares
  <2> QED BY <1>1, <2>1 DEF Effect, set_agent, Agree, GlobalStates, Addresses
<1>2. CASE t.action = "CREATE_RECORD"
  <2>1. t.record_id \in RecordIds /\ t.outputs = {record}
    BY <1>2 DEF Declares, WellFormed
  <2> QED BY <1>2, <2>1 DEF Effect, set_record, Agree, GlobalStates, Addresses
<1>3. CASE t.action = "TRANSFER_RECORD"
  <2>1. t.record_id \in RecordIds /\ t.outputs = {record}
    BY <1>3 DEF Declares, WellFormed
  <2> QED BY <1>3, <2>1 DEF Effect, transfer_record, Agree, GlobalStates, Addresses
<1>4. CASE t.action = "UPDATE_RECORD"
  <2>1. t.record_id \in RecordIds /\ t.outputs = {record}
    BY <1>4 DEF Declares, WellFormed
  <2> QED BY <1>4, <2>1 DEF Effect, update_record, Agree, GlobalStates, Addresses
<1> QED BY <1>1, <1>2, <1>3, <1>4 DEF WellFormed
=============================================================================
