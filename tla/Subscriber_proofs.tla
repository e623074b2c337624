-------------------------- MODULE Subscriber_proofs --------------------------
(***************************************************************************)
(* Proofs about Subscriber and RecordQueries: for any number of keys,      *)
(* records, blocks, forks, crashes and repeated events.                    *)
(***************************************************************************)
EXTENDS RecordQueries, FiniteSetTheorems, WellFoundedInduction, TLAPS

USE DatabaseAssumption, SubscriberAssumption

AgentRows    == [agent : Agents, start : BlockNums, end : Ends]
RecordRows   == [record_id : RecordIds, start : BlockNums, end : Ends]
OwnerRows    == [record_id : RecordIds, owner : BlockIds, start : BlockNums, end : Ends]
LocationRows == [record_id : RecordIds, location : BlockIds, start : BlockNums, end : Ends]

-----------------------------------------------------------------------------
(* Types of the tables *)

(* The assumptions on the constants, one by one.                           *)
LEMMA DatabaseParts ==
    ASSUME NEW d
    PROVE  d \in Databases <=>
             /\ d = [blocks |-> d.blocks, agents |-> d.agents, records |-> d.records,
                     owners |-> d.owners, locations |-> d.locations]
             /\ d.blocks \subseteq [num : BlockNums, id : BlockIds]
             /\ d.agents \subseteq AgentRows
             /\ d.records \subseteq RecordRows
             /\ d.owners \subseteq OwnerRows
             /\ d.locations \subseteq LocationRows
BY DEF Databases, AgentRows, RecordRows, OwnerRows, LocationRows

(* Only the end of a row changes when it is closed, or when a fork drops   *)
(* the block that closed it.                                               *)
LEMMA EndedRows ==
    ASSUME NEW end \in Ends
    PROVE  /\ \A row \in AgentRows : [row EXCEPT !.end = end] \in AgentRows
           /\ \A row \in RecordRows : [row EXCEPT !.end = end] \in RecordRows
           /\ \A row \in OwnerRows : [row EXCEPT !.end = end] \in OwnerRows
           /\ \A row \in LocationRows : [row EXCEPT !.end = end] \in LocationRows
BY DEF AgentRows, RecordRows, OwnerRows, LocationRows

(* What the two columns of a row range over.                               *)
LEMMA BlockNumsAreEnds ==
    /\ BlockNums \subseteq Ends /\ NULL \in Ends /\ MAX_BLOCK_NUMBER \in Ends
    /\ MAX_BLOCK_NUMBER \notin BlockNums /\ NULL \notin BlockNums
    /\ NULL # MAX_BLOCK_NUMBER
BY DEF BlockNums, Ends

LEMMA BeforeType ==
    ASSUME NEW num
    PROVE  /\ \A rows \in SUBSET AgentRows : Before(rows, num) \subseteq AgentRows
           /\ \A rows \in SUBSET RecordRows : Before(rows, num) \subseteq RecordRows
BY EndedRows, BlockNumsAreEnds DEF Before

LEMMA CloseType ==
    ASSUME NEW num \in BlockNums
    PROVE  /\ \A rows \in SUBSET AgentRows, some \in SUBSET AgentRows :
                 Close(rows, some, num) \subseteq AgentRows
           /\ \A rows \in SUBSET RecordRows, some \in SUBSET RecordRows :
                 Close(rows, some, num) \subseteq RecordRows
           /\ \A rows \in SUBSET OwnerRows, some \in SUBSET OwnerRows :
                 Close(rows, some, num) \subseteq OwnerRows
           /\ \A rows \in SUBSET LocationRows, some \in SUBSET LocationRows :
                 Close(rows, some, num) \subseteq LocationRows
BY EndedRows, BlockNumsAreEnds DEF Close

(* drop_fork, table by table.                                              *)
LEMMA DropParts ==
    ASSUME NEW d \in Databases, NEW num
    PROVE  drop_fork(d, num) =
             [blocks    |-> {row \in d.blocks : row.num < num},
              agents    |-> Before(d.agents, num),
              records   |-> Before(d.records, num),
              owners    |-> {o \in d.owners :
                               \A row \in d.records :
                                   row.start >= num => row.record_id # o.record_id},
              locations |-> d.locations]
<1> DEFINE dropped == {row.record_id : row \in From(d.records, num)}
           kept(o) == \A row \in d.records : row.start >= num => row.record_id # o.record_id
<1>1. d = [blocks |-> d.blocks, agents |-> d.agents, records |-> d.records,
           owners |-> d.owners, locations |-> d.locations]
  BY DatabaseParts
<1>2. \A o : o.record_id \notin dropped <=> kept(o)
  BY DEF From
<1>3. {o \in d.owners : o.record_id \notin dropped} = {o \in d.owners : kept(o)}
  BY <1>2
<1> HIDE DEF kept
<1>4. drop_fork(d, num) =
        [d EXCEPT !.agents  = Before(@, num),
                  !.owners  = {o \in @ : o.record_id \notin dropped},
                  !.records = Before(@, num),
                  !.blocks  = {row \in @ : row.num < num}]
  BY DEF drop_fork
<1> HIDE DEF dropped
<1> QED BY <1>1, <1>3, <1>4 DEF kept

(* A fork dropped leaves tables.                                           *)
LEMMA DropType ==
    ASSUME NEW d \in Databases, NEW num
    PROVE  drop_fork(d, num) \in Databases
<1>1. /\ Before(d.agents, num) \subseteq AgentRows
      /\ Before(d.records, num) \subseteq RecordRows
  BY DatabaseParts, BeforeType
<1> QED BY <1>1, DropParts, DatabaseParts

-----------------------------------------------------------------------------
(* What the events of a block add to the tables *)

KeysOf(agents) == {a.public_key : a \in agents}
IdsOf(records) == {r.record_id : r \in records}

OfKeys(rows, agents) == {row \in rows : row.agent.public_key \in KeysOf(agents)}

NewAgents(agents, num) ==
    {[agent |-> a, start |-> num, end |-> MAX_BLOCK_NUMBER] : a \in agents}

NewRecords(records, num) ==
    {[record_id |-> r.record_id, start |-> num, end |-> MAX_BLOCK_NUMBER] : r \in records}

NewOwners(records, num) ==
    UNION {{[record_id |-> r.record_id, owner |-> o,
             start |-> num, end |-> MAX_BLOCK_NUMBER] : o \in r.owners} : r \in records}

NewLocations(records, num) ==
    UNION {{[record_id |-> r.record_id, location |-> l,
             start |-> num, end |-> MAX_BLOCK_NUMBER] : l \in r.locations} : r \in records}

(* What a block inserts is rows of the tables.                             *)
LEMMA NewRowsType ==
    ASSUME NEW num \in BlockNums
    PROVE  /\ \A agents \in SUBSET Agents : NewAgents(agents, num) \subseteq AgentRows
           /\ \A records \in SUBSET Records :
                 /\ NewRecords(records, num) \subseteq RecordRows
                 /\ NewOwners(records, num) \subseteq OwnerRows
                 /\ NewLocations(records, num) \subseteq LocationRows
<1> USE BlockNumsAreEnds
<1>1. \A agents \in SUBSET Agents : NewAgents(agents, num) \subseteq AgentRows
  BY DEF NewAgents, AgentRows
<1>2. \A records \in SUBSET Records : NewRecords(records, num) \subseteq RecordRows
  BY DEF NewRecords, RecordRows, Records
<1>3. \A records \in SUBSET Records : NewOwners(records, num) \subseteq OwnerRows
  BY DEF NewOwners, OwnerRows, Records
<1>4. \A records \in SUBSET Records : NewLocations(records, num) \subseteq LocationRows
  BY DEF NewLocations, LocationRows, Records
<1> QED BY <1>1, <1>2, <1>3, <1>4

(* The tables after the events of a block with changes. *)
LEMMA ApplyParts ==
    ASSUME NEW d \in Databases, NEW num, NEW id, ChangeCount(made[id]) # 0,
           NEW agents, NEW records,
           agents = made[id].changes.agents, records = made[id].changes.records
    PROVE  apply_state_changes(d, num, id) =
             [blocks    |-> d.blocks \cup {[num |-> num, id |-> id]},
              agents    |-> Close(d.agents, OfKeys(d.agents, agents), num)
                              \cup NewAgents(agents, num),
              records   |-> Close(d.records, OfRecords(d.records, IdsOf(records)), num)
                              \cup NewRecords(records, num),
              owners    |-> Close(d.owners, OfRecords(d.owners, IdsOf(records)), num)
                              \cup NewOwners(records, num),
              locations |-> Close(d.locations, OfRecords(d.locations, IdsOf(records)), num)
                              \cup NewLocations(records, num)]
<1>1. d = [blocks |-> d.blocks, agents |-> d.agents, records |-> d.records,
           owners |-> d.owners, locations |-> d.locations]
  BY DatabaseParts
<1> DEFINE d1 == insert_block(d, num, id)
           d2 == insert_agents(d1, agents, num)
<1>2. d1 = [blocks |-> d.blocks \cup {[num |-> num, id |-> id]}, agents |-> d.agents,
            records |-> d.records, owners |-> d.owners, locations |-> d.locations]
  <2>1. d1 = [d EXCEPT !.blocks = @ \cup {[num |-> num, id |-> id]}]
    BY DEF insert_block
  <2> HIDE DEF d1
  <2> QED BY <1>1, <2>1
<1>3. d2 = [d1 EXCEPT !.agents = Close(@, OfKeys(@, agents), num) \cup NewAgents(agents, num)]
  BY DEF insert_agents, OfKeys, KeysOf, NewAgents
<1>4. insert_records(d2, records, num) =
        [d2 EXCEPT
           !.records   = Close(@, OfRecords(@, IdsOf(records)), num)
                           \cup NewRecords(records, num),
           !.owners    = Close(@, OfRecords(@, IdsOf(records)), num)
                           \cup NewOwners(records, num),
           !.locations = Close(@, OfRecords(@, IdsOf(records)), num)
                           \cup NewLocations(records, num)]
  BY DEF insert_records, IdsOf, NewRecords, NewOwners, NewLocations
<1>5. apply_state_changes(d, num, id) = insert_records(d2, records, num)
  BY DEF apply_state_changes
<1> HIDE DEF d1, d2
<1> QED BY <1>2, <1>3, <1>4, <1>5

(* A block applied leaves tables.                                          *)
LEMMA ApplyType ==
    ASSUME NEW d \in Databases, NEW num \in BlockNums, NEW id \in BlockIds,
           made[id].changes \in Reports
    PROVE  apply_state_changes(d, num, id) \in Databases
<1>1. CASE ChangeCount(made[id]) = 0
  BY <1>1 DEF apply_state_changes
<1>2. CASE ChangeCount(made[id]) # 0
  <2> DEFINE agents == made[id].changes.agents
             records == made[id].changes.records
  <2>1. agents \in SUBSET Agents /\ records \in SUBSET Records
    BY DEF Reports
  <2>2. /\ d.blocks \subseteq [num : BlockNums, id : BlockIds]
        /\ d.agents \in SUBSET AgentRows
        /\ d.records \in SUBSET RecordRows
        /\ d.owners \in SUBSET OwnerRows
        /\ d.locations \in SUBSET LocationRows
    BY DatabaseParts
  <2> HIDE DEF agents, records
  <2>3. /\ Close(d.agents, OfKeys(d.agents, agents), num) \subseteq AgentRows
        /\ Close(d.records, OfRecords(d.records, IdsOf(records)), num) \subseteq RecordRows
        /\ Close(d.owners, OfRecords(d.owners, IdsOf(records)), num) \subseteq OwnerRows
        /\ Close(d.locations, OfRecords(d.locations, IdsOf(records)), num)
             \subseteq LocationRows
    BY <2>2, CloseType DEF OfKeys, OfRecords
  <2>4. /\ NewAgents(agents, num) \subseteq AgentRows
        /\ NewRecords(records, num) \subseteq RecordRows
        /\ NewOwners(records, num) \subseteq OwnerRows
        /\ NewLocations(records, num) \subseteq LocationRows
    BY <2>1, NewRowsType
  <2> DEFINE e == apply_state_changes(d, num, id)
  <2>5. e = [blocks    |-> d.blocks \cup {[num |-> num, id |-> id]},
             agents    |-> Close(d.agents, OfKeys(d.agents, agents), num)
                             \cup NewAgents(agents, num),
             records   |-> Close(d.records, OfRecords(d.records, IdsOf(records)), num)
                             \cup NewRecords(records, num),
             owners    |-> Close(d.owners, OfRecords(d.owners, IdsOf(records)), num)
                             \cup NewOwners(records, num),
             locations |-> Close(d.locations, OfRecords(d.locations, IdsOf(records)), num)
                             \cup NewLocations(records, num)]
    BY <1>2, ApplyParts DEF agents, records
  <2> HIDE DEF e
  <2>6. e \in Databases
    BY <2>2, <2>3, <2>4, <2>5, DatabaseParts
  <2> QED BY <2>6 DEF e
<1> QED BY <1>1, <1>2

-----------------------------------------------------------------------------
(***************************************************************************)
(* What holds of the tables between two transactions, whatever forks,      *)
(* errors and restarts came before.                                        *)
(***************************************************************************)
Numbers(d) == {b.num : b \in d.blocks}

(* A row of one of the tables is that of a recorded block. *)
AgentsTraced(d) ==
    \A row \in d.agents : [num |-> row.start, id |-> row.agent.registered] \in d.blocks

RecordsTraced(d) == \A row \in d.records : row.start \in Numbers(d)

(* drop_fork finds the owners of a block by the records of that block. *)
OwnersTraced(d) ==
    \A o \in d.owners : \E row \in d.records :
        row.record_id = o.record_id /\ row.start = o.start

(* What ended a row is recorded too. *)
EndsTraced(d) ==
    /\ \A row \in d.agents \cup d.records :
          row.end \in Numbers(d) \cup {MAX_BLOCK_NUMBER, NULL}
    /\ \A o \in d.owners : o.end \in BlockNums =>
          \E row \in d.records : row.record_id = o.record_id /\ row.start = o.end

LiveOnce(d) ==
    /\ \A x, y \in d.agents :
          Live(x) /\ Live(y) /\ x.agent.public_key = y.agent.public_key => x = y
    /\ \A x, y \in d.records :
          Live(x) /\ Live(y) /\ x.record_id = y.record_id => x = y
    /\ \A x, y \in d.owners :
          Live(x) /\ Live(y) /\ x.record_id = y.record_id /\ x.owner = y.owner => x = y

(* What is shown, as the live rows have it. *)
LiveAgents(d) == {row.agent : row \in {x \in d.agents : Live(x)}}

LiveRecords(d) == {row.record_id : row \in {x \in d.records : Live(x)}}

LiveOwners(d, record_id) ==
    {o.owner : o \in {x \in d.owners : Live(x) /\ x.record_id = record_id}}

LiveLocations(d, record_id) ==
    {l.location : l \in {x \in d.locations : Live(x) /\ x.record_id = record_id}}

LiveOwnersAreOneVersion(d) ==
    \A row \in d.records : Live(row) =>
        \E v \in Versions(row.record_id) : v.owners = LiveOwners(d, row.record_id)

Tables(d) ==
    /\ d \in Databases
    /\ AgentsTraced(d) /\ RecordsTraced(d) /\ OwnersTraced(d)
    /\ EndsTraced(d)
    /\ LiveOnce(d)
    /\ LiveOwnersAreOneVersion(d)

(* The last conjunct is what a block owes to the transaction processor. *)
OneEach(report) ==
    /\ \A x, y \in report.agents : x.public_key = y.public_key => x = y
    /\ \A x, y \in report.records : x.record_id = y.record_id => x = y

BlocksMade ==
    /\ Len(chain) <= Len(made)
    /\ \A id \in DOMAIN made :
          /\ made[id].num <= MaxBlocks
          /\ \A a \in made[id].changes.agents : a.registered = id
          /\ OneEach(made[id].changes)
          /\ OneEach(made[id].after)

IInv ==
    /\ TypeOK
    /\ BlocksMade
    /\ Tables(db)

-----------------------------------------------------------------------------
(* A fork's rows are dropped *)

(* Where a row of a table cut off at num comes from.                       *)
LEMMA InBefore ==
    ASSUME NEW rows, NEW num, NEW row \in Before(rows, num)
    PROVE  \E old \in rows :
             /\ ~(old.start >= num)
             /\ row = IF EndsFrom(old, num) THEN [old EXCEPT !.end = NULL] ELSE old
BY DEF Before, From

(* In a table that is cut off at num no row is live any more. *)
LEMMA BeforeRows ==
    ASSUME NEW num \in BlockNums
    PROVE  /\ \A rows \in SUBSET AgentRows : \A row \in Before(rows, num) :
                 \E old \in rows :
                    /\ row.start = old.start /\ row.agent = old.agent /\ row.start < num
                    /\ row.end = NULL \/ (row.end = old.end /\ old.end < num)
           /\ \A rows \in SUBSET RecordRows : \A row \in Before(rows, num) :
                 \E old \in rows :
                    /\ row.start = old.start /\ row.record_id = old.record_id
                    /\ row.start < num
                    /\ row.end = NULL \/ (row.end = old.end /\ old.end < num)
<1>1. ASSUME NEW rows \in SUBSET AgentRows, NEW row \in Before(rows, num)
      PROVE  \E old \in rows :
                /\ row.start = old.start /\ row.agent = old.agent /\ row.start < num
                /\ row.end = NULL \/ (row.end = old.end /\ old.end < num)
  <2>1. PICK old \in rows :
             /\ ~(old.start >= num)
             /\ row = IF EndsFrom(old, num) THEN [old EXCEPT !.end = NULL] ELSE old
    BY <1>1, InBefore
  <2>2. old = [agent |-> old.agent, start |-> old.start, end |-> old.end]
        /\ old.start \in Nat /\ (old.end \in Nat \/ old.end = NULL) /\ num \in Nat
    BY DEF AgentRows, BlockNums, Ends
  <2> QED BY <2>1, <2>2 DEF EndsFrom
<1>2. ASSUME NEW rows \in SUBSET RecordRows, NEW row \in Before(rows, num)
      PROVE  \E old \in rows :
                /\ row.start = old.start /\ row.record_id = old.record_id
                /\ row.start < num
                /\ row.end = NULL \/ (row.end = old.end /\ old.end < num)
  <2>1. PICK old \in rows :
             /\ ~(old.start >= num)
             /\ row = IF EndsFrom(old, num) THEN [old EXCEPT !.end = NULL] ELSE old
    BY <1>2, InBefore
  <2>2. old = [record_id |-> old.record_id, start |-> old.start, end |-> old.end]
        /\ old.start \in Nat /\ (old.end \in Nat \/ old.end = NULL) /\ num \in Nat
    BY DEF RecordRows, BlockNums, Ends
  <2> QED BY <2>1, <2>2 DEF EndsFrom
<1> QED BY <1>1, <1>2

(* A record that starts before num keeps its place. *)
LEMMA RecordsKept ==
    ASSUME NEW num \in BlockNums, NEW rows \in SUBSET RecordRows,
           NEW old \in rows, old.start < num
    PROVE  \E row \in Before(rows, num) :
              row.record_id = old.record_id /\ row.start = old.start
<1>1. old = [record_id |-> old.record_id, start |-> old.start, end |-> old.end]
      /\ old.start \in Nat /\ num \in Nat
  BY DEF RecordRows, BlockNums
<1>2. old \in rows \ From(rows, num)
  BY <1>1 DEF From
<1> DEFINE row == IF EndsFrom(old, num) THEN [old EXCEPT !.end = NULL] ELSE old
<1>3. row \in Before(rows, num)
  BY <1>2 DEF Before
<1>4. row.record_id = old.record_id /\ row.start = old.start
  BY <1>1
<1> QED BY <1>3, <1>4

LEMMA NumbersType ==
    ASSUME NEW d \in Databases
    PROVE  Numbers(d) \subseteq BlockNums
BY DatabaseParts DEF Numbers

(* Dropping a fork keeps what the tables promise.                          *)
LEMMA DropTables ==
    ASSUME NEW d, Tables(d), NEW num \in BlockNums
    PROVE  Tables(drop_fork(d, num))
<1> DEFINE e == drop_fork(d, num)
<1> USE BlockNumsAreEnds
<1>0. d \in Databases
  BY DEF Tables
<1>1. /\ d.blocks \subseteq [num : BlockNums, id : BlockIds]
      /\ d.agents \in SUBSET AgentRows
      /\ d.records \in SUBSET RecordRows
      /\ d.owners \in SUBSET OwnerRows
  BY <1>0, DatabaseParts
<1>2. /\ e \in Databases
      /\ e.blocks = {row \in d.blocks : row.num < num}
      /\ e.agents = Before(d.agents, num)
      /\ e.records = Before(d.records, num)
      /\ e.owners = {o \in d.owners :
                       \A row \in d.records : row.start >= num => row.record_id # o.record_id}
  BY <1>0, DropType, DropParts
<1> HIDE DEF e
<1>3. \A n \in BlockNums : n \in Numbers(e) <=> n \in Numbers(d) /\ n < num
  BY <1>1, <1>2 DEF Numbers
<1>4. AgentsTraced(e)
  <2> SUFFICES ASSUME NEW row \in e.agents
               PROVE  [num |-> row.start, id |-> row.agent.registered] \in e.blocks
    BY DEF AgentsTraced
  <2>1. PICK old \in d.agents :
           row.start = old.start /\ row.agent = old.agent /\ row.start < num
    BY <1>1, <1>2, BeforeRows
  <2>2. [num |-> old.start, id |-> old.agent.registered] \in d.blocks
    BY DEF Tables, AgentsTraced
  <2> QED BY <2>1, <2>2, <1>2
<1>5. RecordsTraced(e)
  <2> SUFFICES ASSUME NEW row \in e.records PROVE row.start \in Numbers(e)
    BY DEF RecordsTraced
  <2>1. PICK old \in d.records : row.start = old.start /\ row.start < num
    BY <1>1, <1>2, BeforeRows
  <2>2. old.start \in Numbers(d) /\ old.start \in BlockNums
    BY <1>1 DEF Tables, RecordsTraced, RecordRows
  <2> QED BY <2>1, <2>2, <1>3
<1>6. OwnersTraced(e)
  <2> SUFFICES ASSUME NEW o \in e.owners
               PROVE  \E row \in e.records : row.record_id = o.record_id /\ row.start = o.start
    BY DEF OwnersTraced
  <2>1. PICK old \in d.records : old.record_id = o.record_id /\ old.start = o.start
    BY <1>2 DEF Tables, OwnersTraced
  <2>2. old.start < num
    BY <1>1, <1>2, <2>1 DEF RecordRows, BlockNums
  <2> QED BY <1>1, <1>2, <2>1, <2>2, RecordsKept
<1>7. EndsTraced(e)
  <2>1. ASSUME NEW row \in e.agents \cup e.records
        PROVE  row.end \in Numbers(e) \cup {MAX_BLOCK_NUMBER, NULL}
    <3>1. PICK old \in d.agents \cup d.records :
             row.end = NULL \/ (row.end = old.end /\ old.end < num)
      BY <1>1, <1>2, BeforeRows
    <3>2. old.end \in Numbers(d) \cup {MAX_BLOCK_NUMBER, NULL}
      BY DEF Tables, EndsTraced
    <3> QED BY <1>0, <1>3, <3>1, <3>2, NumbersType
  <2>2. ASSUME NEW o \in e.owners, o.end \in BlockNums
        PROVE  \E row \in e.records : row.record_id = o.record_id /\ row.start = o.end
    <3>1. PICK old \in d.records : old.record_id = o.record_id /\ old.start = o.end
      BY <1>2, <2>2 DEF Tables, EndsTraced
    <3>2. old.start < num
      BY <1>1, <1>2, <3>1 DEF RecordRows, BlockNums
    <3> QED BY <1>1, <1>2, <3>1, <3>2, RecordsKept
  <2> QED BY <2>1, <2>2 DEF EndsTraced
<1>8. \A row \in e.agents \cup e.records : ~Live(row)
  <2> SUFFICES ASSUME NEW row \in e.agents \cup e.records PROVE ~Live(row)
    OBVIOUS
  <2>1. row.end = NULL \/ row.end < num
    BY <1>1, <1>2, BeforeRows
  <2> QED BY <2>1 DEF Live, BlockNums
<1>9. LiveOnce(e)
  BY <1>2, <1>8 DEF LiveOnce, Tables
<1>10. LiveOwnersAreOneVersion(e)
  BY <1>8 DEF LiveOwnersAreOneVersion
<1> QED BY <1>2, <1>4, <1>5, <1>6, <1>7, <1>9, <1>10 DEF Tables, e

-----------------------------------------------------------------------------
(* A block's rows are added *)

(* Which rows a table has after some of its live rows are closed.          *)
LEMMA InClose ==
    ASSUME NEW rows, NEW some, NEW num, NEW row
    PROVE  row \in Close(rows, some, num) <=>
             \/ row \in rows /\ ~(row \in some /\ Live(row))
             \/ \E old \in some : Live(old) /\ row = [old EXCEPT !.end = num]
BY DEF Close, Live

(* Where the rows of a closed table come from. *)
LEMMA CloseRows ==
    ASSUME NEW num \in BlockNums
    PROVE  /\ \A rows \in SUBSET AgentRows, some \in SUBSET AgentRows :
                 some \subseteq rows => \A row \in Close(rows, some, num) :
                    \E old \in rows :
                       /\ row.agent = old.agent /\ row.start = old.start
                       /\ \/ row = old /\ ~(old \in some /\ Live(old))
                          \/ row.end = num
           /\ \A rows \in SUBSET RecordRows, some \in SUBSET RecordRows :
                 some \subseteq rows => \A row \in Close(rows, some, num) :
                    \E old \in rows :
                       /\ row.record_id = old.record_id /\ row.start = old.start
                       /\ \/ row = old /\ ~(old \in some /\ Live(old))
                          \/ row.end = num
           /\ \A rows \in SUBSET OwnerRows, some \in SUBSET OwnerRows :
                 some \subseteq rows => \A row \in Close(rows, some, num) :
                    \E old \in rows :
                       /\ row.record_id = old.record_id /\ row.start = old.start
                       /\ row.owner = old.owner
                       /\ \/ row = old /\ ~(old \in some /\ Live(old))
                          \/ row.end = num /\ old \in some
<1>1. ASSUME NEW rows \in SUBSET AgentRows, NEW some \in SUBSET AgentRows, some \subseteq rows,
             NEW row \in Close(rows, some, num)
      PROVE  \E old \in rows :
                /\ row.agent = old.agent /\ row.start = old.start
                /\ \/ row = old /\ ~(old \in some /\ Live(old))
                   \/ row.end = num
  <2>1. CASE row \in rows /\ ~(row \in some /\ Live(row))
    BY <2>1
  <2>2. CASE \E old \in some : Live(old) /\ row = [old EXCEPT !.end = num]
    BY <1>1, <2>2 DEF AgentRows
  <2> QED BY <2>1, <2>2, InClose
<1>2. ASSUME NEW rows \in SUBSET RecordRows, NEW some \in SUBSET RecordRows, some \subseteq rows,
             NEW row \in Close(rows, some, num)
      PROVE  \E old \in rows :
                /\ row.record_id = old.record_id /\ row.start = old.start
                /\ \/ row = old /\ ~(old \in some /\ Live(old))
                   \/ row.end = num
  <2>1. CASE row \in rows /\ ~(row \in some /\ Live(row))
    BY <2>1
  <2>2. CASE \E old \in some : Live(old) /\ row = [old EXCEPT !.end = num]
    BY <1>2, <2>2 DEF RecordRows
  <2> QED BY <2>1, <2>2, InClose
<1>3. ASSUME NEW rows \in SUBSET OwnerRows, NEW some \in SUBSET OwnerRows, some \subseteq rows,
             NEW row \in Close(rows, some, num)
      PROVE  \E old \in rows :
                /\ row.record_id = old.record_id /\ row.start = old.start
                /\ row.owner = old.owner
                /\ \/ row = old /\ ~(old \in some /\ Live(old))
                   \/ row.end = num /\ old \in some
  <2>1. CASE row \in rows /\ ~(row \in some /\ Live(row))
    BY <2>1
  <2>2. CASE \E old \in some : Live(old) /\ row = [old EXCEPT !.end = num]
    BY <1>3, <2>2 DEF OwnerRows
  <2> QED BY <2>1, <2>2, InClose
<1> QED BY <1>1, <1>2, <1>3

(* No row goes: it may only have ended. *)
LEMMA RecordsStay ==
    ASSUME NEW num \in BlockNums, NEW rows \in SUBSET RecordRows, NEW some \in SUBSET rows,
           NEW old \in rows
    PROVE  \E row \in Close(rows, some, num) :
              row.record_id = old.record_id /\ row.start = old.start
<1>1. CASE old \in some /\ Live(old)
  <2>1. [old EXCEPT !.end = num] \in Close(rows, some, num)
    BY <1>1, InClose
  <2> QED BY <2>1 DEF RecordRows
<1>2. CASE ~(old \in some /\ Live(old))
  BY <1>2, InClose
<1> QED BY <1>1, <1>2

(* The live rows of a closed table are those that were not superseded. *)
LEMMA LiveInClose ==
    ASSUME NEW num \in BlockNums, NEW row, Live(row)
    PROVE  /\ \A rows \in SUBSET AgentRows : \A some \in SUBSET rows :
                 row \in Close(rows, some, num) <=> row \in rows \ some
           /\ \A rows \in SUBSET RecordRows : \A some \in SUBSET rows :
                 row \in Close(rows, some, num) <=> row \in rows \ some
           /\ \A rows \in SUBSET OwnerRows : \A some \in SUBSET rows :
                 row \in Close(rows, some, num) <=> row \in rows \ some
           /\ \A rows \in SUBSET LocationRows : \A some \in SUBSET rows :
                 row \in Close(rows, some, num) <=> row \in rows \ some
<1>1. ASSUME NEW old,
             old \in AgentRows \cup RecordRows \cup OwnerRows \cup LocationRows,
             row = [old EXCEPT !.end = num]
      PROVE  FALSE
  <2>1. row.end = num
    BY <1>1 DEF AgentRows, RecordRows, OwnerRows, LocationRows
  <2> QED BY <2>1, BlockNumsAreEnds DEF Live
<1> QED BY <1>1, InClose

(* The new rows are live, and name what the block names. *)
LEMMA NewAgentsAreLive ==
    ASSUME NEW num, NEW agents
    PROVE  /\ \A row \in NewAgents(agents, num) : Live(row) /\ row.agent \in agents
           /\ \A a \in agents : \E row \in NewAgents(agents, num) : row.agent = a
<1>1. \A row \in NewAgents(agents, num) : Live(row) /\ row.agent \in agents
  BY DEF NewAgents, Live
<1>2. ASSUME NEW a \in agents
      PROVE  \E row \in NewAgents(agents, num) : row.agent = a
  <2> DEFINE row == [agent |-> a, start |-> num, end |-> MAX_BLOCK_NUMBER]
  <2>1. row \in NewAgents(agents, num) /\ row.agent = a
    BY DEF NewAgents
  <2> QED BY <2>1
<1> QED BY <1>1, <1>2

(* What a block inserts is live, and is what the block names.              *)
LEMMA NewRowsAreLive ==
    ASSUME NEW num, NEW records
    PROVE  /\ \A row \in NewRecords(records, num) : Live(row) /\ row.record_id \in IdsOf(records)
           /\ \A x \in IdsOf(records) : \E row \in NewRecords(records, num) : row.record_id = x
           /\ \A row \in NewOwners(records, num) :
                 Live(row) /\ \E r \in records :
                                 r.record_id = row.record_id /\ row.owner \in r.owners
           /\ \A r \in records : \A o \in r.owners : \E row \in NewOwners(records, num) :
                 row.record_id = r.record_id /\ row.owner = o
           /\ \A row \in NewLocations(records, num) :
                 Live(row) /\ \E r \in records :
                                 r.record_id = row.record_id /\ row.location \in r.locations
           /\ \A r \in records : \A l \in r.locations : \E row \in NewLocations(records, num) :
                 row.record_id = r.record_id /\ row.location = l
<1>1. \A row \in NewRecords(records, num) : Live(row) /\ row.record_id \in IdsOf(records)
  BY DEF NewRecords, IdsOf, Live
<1>2. \A row \in NewOwners(records, num) :
         Live(row) /\ \E r \in records : r.record_id = row.record_id /\ row.owner \in r.owners
  BY DEF NewOwners, Live
<1>3. \A row \in NewLocations(records, num) :
         Live(row) /\ \E r \in records :
                         r.record_id = row.record_id /\ row.location \in r.locations
  BY DEF NewLocations, Live
<1>4. ASSUME NEW x \in IdsOf(records)
      PROVE  \E row \in NewRecords(records, num) : row.record_id = x
  <2>1. PICK r \in records : r.record_id = x
    BY DEF IdsOf
  <2> DEFINE row == [record_id |-> r.record_id, start |-> num, end |-> MAX_BLOCK_NUMBER]
  <2>2. row \in NewRecords(records, num) /\ row.record_id = x
    BY <2>1 DEF NewRecords
  <2> QED BY <2>2
<1>5. ASSUME NEW r \in records, NEW o \in r.owners
      PROVE  \E row \in NewOwners(records, num) : row.record_id = r.record_id /\ row.owner = o
  <2> DEFINE row == [record_id |-> r.record_id, owner |-> o, start |-> num,
                     end |-> MAX_BLOCK_NUMBER]
  <2>1. row \in NewOwners(records, num)
    BY DEF NewOwners
  <2> QED BY <2>1
<1>6. ASSUME NEW r \in records, NEW l \in r.locations
      PROVE  \E row \in NewLocations(records, num) :
                row.record_id = r.record_id /\ row.location = l
  <2> DEFINE row == [record_id |-> r.record_id, location |-> l, start |-> num,
                     end |-> MAX_BLOCK_NUMBER]
  <2>1. row \in NewLocations(records, num)
    BY DEF NewLocations
  <2> QED BY <2>1
<1> QED BY <1>1, <1>2, <1>3, <1>4, <1>5, <1>6

(* What the tables show after the events of a block with changes. *)
LEMMA LiveAfter ==
    ASSUME NEW d \in Databases, NEW num \in BlockNums, NEW id \in BlockIds,
           ChangeCount(made[id]) # 0, made[id].changes \in Reports, OneEach(made[id].changes),
           NEW agents, agents = made[id].changes.agents,
           NEW records, records = made[id].changes.records,
           NEW e, e = apply_state_changes(d, num, id)
    PROVE  /\ LiveAgents(e) =
                agents \cup {a \in LiveAgents(d) : a.public_key \notin KeysOf(agents)}
           /\ LiveRecords(e) = LiveRecords(d) \cup IdsOf(records)
           /\ \A r \in records : /\ LiveOwners(e, r.record_id) = r.owners
                                 /\ LiveLocations(e, r.record_id) = r.locations
           /\ \A x : x \notin IdsOf(records) =>
                 /\ LiveOwners(e, x) = LiveOwners(d, x)
                 /\ LiveLocations(e, x) = LiveLocations(d, x)
<1> DEFINE ids == IdsOf(records)
<1>1. /\ d.agents \in SUBSET AgentRows
      /\ d.records \in SUBSET RecordRows
      /\ d.owners \in SUBSET OwnerRows
      /\ d.locations \in SUBSET LocationRows
  BY DatabaseParts
<1>2. /\ OfKeys(d.agents, agents) \in SUBSET d.agents
      /\ OfRecords(d.records, ids) \in SUBSET d.records
      /\ OfRecords(d.owners, ids) \in SUBSET d.owners
      /\ OfRecords(d.locations, ids) \in SUBSET d.locations
  BY DEF OfKeys, OfRecords
<1>3. /\ agents \in SUBSET Agents /\ records \in SUBSET Records
      /\ \A x, y \in records : x.record_id = y.record_id => x = y
  BY DEF Reports, OneEach
<1>4. /\ e.agents = Close(d.agents, OfKeys(d.agents, agents), num) \cup NewAgents(agents, num)
      /\ e.records = Close(d.records, OfRecords(d.records, ids), num)
                       \cup NewRecords(records, num)
      /\ e.owners = Close(d.owners, OfRecords(d.owners, ids), num)
                      \cup NewOwners(records, num)
      /\ e.locations = Close(d.locations, OfRecords(d.locations, ids), num)
                         \cup NewLocations(records, num)
  BY ApplyParts
<1> HIDE DEF ids
(* The live rows of each table. *)
<1>5. ASSUME NEW row, Live(row)
      PROVE  /\ row \in e.agents <=>
                  \/ row \in d.agents /\ row.agent.public_key \notin KeysOf(agents)
                  \/ row \in NewAgents(agents, num)
             /\ row \in e.records <=>
                  \/ row \in d.records /\ row.record_id \notin ids
                  \/ row \in NewRecords(records, num)
             /\ row \in e.owners <=>
                  \/ row \in d.owners /\ row.record_id \notin ids
                  \/ row \in NewOwners(records, num)
             /\ row \in e.locations <=>
                  \/ row \in d.locations /\ row.record_id \notin ids
                  \/ row \in NewLocations(records, num)
  <2>1. row \in e.agents <=>
          \/ row \in d.agents \ OfKeys(d.agents, agents)
          \/ row \in NewAgents(agents, num)
    BY <1>1, <1>2, <1>4, <1>5, LiveInClose
  <2>2. row \in e.records <=>
          \/ row \in d.records \ OfRecords(d.records, ids)
          \/ row \in NewRecords(records, num)
    BY <1>1, <1>2, <1>4, <1>5, LiveInClose
  <2>3. row \in e.owners <=>
          \/ row \in d.owners \ OfRecords(d.owners, ids)
          \/ row \in NewOwners(records, num)
    BY <1>1, <1>2, <1>4, <1>5, LiveInClose
  <2>4. row \in e.locations <=>
          \/ row \in d.locations \ OfRecords(d.locations, ids)
          \/ row \in NewLocations(records, num)
    BY <1>1, <1>2, <1>4, <1>5, LiveInClose
  <2> QED BY <2>1, <2>2, <2>3, <2>4 DEF OfKeys, OfRecords
(* What is shown. *)
<1>6. LiveAgents(e) = agents \cup {a \in LiveAgents(d) : a.public_key \notin KeysOf(agents)}
  BY <1>5, NewAgentsAreLive DEF LiveAgents
<1>7. LiveRecords(e) = LiveRecords(d) \cup ids
  BY <1>5, NewRowsAreLive DEF ids, LiveRecords
<1>8. ASSUME NEW r \in records
       PROVE  /\ LiveOwners(e, r.record_id) = r.owners
              /\ LiveLocations(e, r.record_id) = r.locations
  <2>1. r.record_id \in ids
    BY DEF ids, IdsOf
  <2>2. LiveOwners(e, r.record_id) = r.owners
    <3>1. ASSUME NEW o \in LiveOwners(e, r.record_id) PROVE o \in r.owners
      <4>1. PICK row \in e.owners : Live(row) /\ row.record_id = r.record_id /\ row.owner = o
        BY DEF LiveOwners
      <4>2. row \in NewOwners(records, num)
        BY <1>5, <2>1, <4>1
      <4>3. PICK s \in records : s.record_id = row.record_id /\ row.owner \in s.owners
        BY <4>2, NewRowsAreLive
      <4> QED BY <1>3, <4>1, <4>3
    <3>2. ASSUME NEW o \in r.owners PROVE o \in LiveOwners(e, r.record_id)
      <4>1. PICK row \in NewOwners(records, num) :
               Live(row) /\ row.record_id = r.record_id /\ row.owner = o
        BY NewRowsAreLive
      <4>2. row \in e.owners
        BY <1>5, <4>1
      <4> QED BY <4>1, <4>2 DEF LiveOwners
    <3> QED BY <3>1, <3>2
  <2>3. LiveLocations(e, r.record_id) = r.locations
    <3>1. ASSUME NEW l \in LiveLocations(e, r.record_id) PROVE l \in r.locations
      <4>1. PICK row \in e.locations : Live(row) /\ row.record_id = r.record_id /\ row.location = l
        BY DEF LiveLocations
      <4>2. row \in NewLocations(records, num)
        BY <1>5, <2>1, <4>1
      <4>3. PICK s \in records : s.record_id = row.record_id /\ row.location \in s.locations
        BY <4>2, NewRowsAreLive
      <4> QED BY <1>3, <4>1, <4>3
    <3>2. ASSUME NEW l \in r.locations PROVE l \in LiveLocations(e, r.record_id)
      <4>1. PICK row \in NewLocations(records, num) :
               Live(row) /\ row.record_id = r.record_id /\ row.location = l
        BY NewRowsAreLive
      <4>2. row \in e.locations
        BY <1>5, <4>1
      <4> QED BY <4>1, <4>2 DEF LiveLocations
    <3> QED BY <3>1, <3>2
  <2> QED BY <2>2, <2>3
<1>9. ASSUME NEW x, x \notin ids
       PROVE  /\ LiveOwners(e, x) = LiveOwners(d, x)
              /\ LiveLocations(e, x) = LiveLocations(d, x)
  <2>1. \A r \in records : r.record_id # x
    BY <1>9 DEF ids, IdsOf
  <2>2. LiveOwners(e, x) = LiveOwners(d, x)
    BY <1>5, NewRowsAreLive, <1>9, <2>1 DEF LiveOwners
  <2>3. LiveLocations(e, x) = LiveLocations(d, x)
    BY <1>5, NewRowsAreLive, <1>9, <2>1 DEF LiveLocations
  <2> QED BY <2>2, <2>3
<1> QED BY <1>6, <1>7, <1>8, <1>9 DEF ids

(* Applying the next block keeps what the tables promise.                  *)
LEMMA ApplyTables ==
    ASSUME NEW d, Tables(d), NEW num \in BlockNums,
           NEW id \in DOMAIN made, id \in BlockIds,
           made[id].changes \in Reports, OneEach(made[id].changes),
           \A a \in made[id].changes.agents : a.registered = id
    PROVE  Tables(apply_state_changes(d, num, id))
<1>1. CASE ChangeCount(made[id]) = 0
  BY <1>1 DEF apply_state_changes
<1>2. CASE ChangeCount(made[id]) # 0
  <2> DEFINE e == apply_state_changes(d, num, id)
             agents == made[id].changes.agents
             records == made[id].changes.records
             ids == IdsOf(records)
  <2> USE BlockNumsAreEnds
  <2>0. d \in Databases
    BY DEF Tables
  <2>1. /\ d.blocks \subseteq [num : BlockNums, id : BlockIds]
        /\ d.agents \in SUBSET AgentRows
        /\ d.records \in SUBSET RecordRows
        /\ d.owners \in SUBSET OwnerRows
    BY <2>0, DatabaseParts
  <2>2. agents \in SUBSET Agents /\ records \in SUBSET Records
    BY DEF Reports
  <2>3. \A a \in agents : a.registered = id
    OBVIOUS
  <2>4. /\ \A x, y \in agents : x.public_key = y.public_key => x = y
        /\ \A x, y \in records : x.record_id = y.record_id => x = y
    BY DEF OneEach
  <2>5. \A r \in records : r \in Versions(r.record_id)
    BY DEF Versions
  <2>6. /\ e \in Databases
        /\ e.blocks = d.blocks \cup {[num |-> num, id |-> id]}
        /\ e.agents = Close(d.agents, OfKeys(d.agents, agents), num) \cup NewAgents(agents, num)
        /\ e.records = Close(d.records, OfRecords(d.records, ids), num)
                         \cup NewRecords(records, num)
        /\ e.owners = Close(d.owners, OfRecords(d.owners, ids), num)
                        \cup NewOwners(records, num)
    BY <1>2, <2>0, ApplyType, ApplyParts
  <2> HIDE DEF e, agents, records
  <2>7. Numbers(e) = Numbers(d) \cup {num}
    BY <2>6 DEF Numbers
  <2>8. /\ OfKeys(d.agents, agents) \in SUBSET AgentRows
        /\ OfRecords(d.records, ids) \in SUBSET RecordRows
        /\ OfRecords(d.owners, ids) \in SUBSET OwnerRows
        /\ OfKeys(d.agents, agents) \subseteq d.agents
        /\ OfRecords(d.records, ids) \subseteq d.records
        /\ OfRecords(d.owners, ids) \subseteq d.owners
    BY <2>1 DEF OfKeys, OfRecords
  (* Where the rows come from. *)
  <2>9. ASSUME NEW row \in e.agents
        PROVE  \/ /\ row.agent \in agents /\ row.start = num
                  /\ row.end = MAX_BLOCK_NUMBER
                  /\ row = [agent |-> row.agent, start |-> num, end |-> MAX_BLOCK_NUMBER]
               \/ \E old \in d.agents :
                     /\ row.agent = old.agent /\ row.start = old.start
                     /\ \/ /\ row = old
                           /\ ~(old.agent.public_key \in KeysOf(agents) /\ Live(old))
                        \/ row.end = num
    <3>1. CASE row \in NewAgents(agents, num)
      BY <3>1 DEF NewAgents
    <3>2. CASE row \in Close(d.agents, OfKeys(d.agents, agents), num)
      BY <2>1, <2>8, <3>2, CloseRows DEF OfKeys
    <3> QED BY <2>6, <3>1, <3>2
  <2>10. ASSUME NEW row \in e.records
         PROVE  \/ /\ row.record_id \in ids /\ row.start = num
                   /\ row.end = MAX_BLOCK_NUMBER
                   /\ row = [record_id |-> row.record_id, start |-> num,
                             end |-> MAX_BLOCK_NUMBER]
                \/ \E old \in d.records :
                      /\ row.record_id = old.record_id /\ row.start = old.start
                      /\ \/ row = old /\ ~(old.record_id \in ids /\ Live(old))
                         \/ row.end = num
    <3>1. CASE row \in NewRecords(records, num)
      BY <3>1 DEF NewRecords, IdsOf
    <3>2. CASE row \in Close(d.records, OfRecords(d.records, ids), num)
      BY <2>1, <2>8, <3>2, CloseRows DEF OfRecords
    <3> QED BY <2>6, <3>1, <3>2
  <2>11. ASSUME NEW o \in e.owners
         PROVE  \/ /\ o.start = num /\ o.end = MAX_BLOCK_NUMBER
                   /\ o = [record_id |-> o.record_id, owner |-> o.owner, start |-> num,
                           end |-> MAX_BLOCK_NUMBER]
                   /\ \E r \in records : r.record_id = o.record_id /\ o.owner \in r.owners
                \/ \E old \in d.owners :
                      /\ o.record_id = old.record_id /\ o.start = old.start
                      /\ o.owner = old.owner
                      /\ \/ o = old /\ ~(old.record_id \in ids /\ Live(old))
                         \/ o.end = num /\ old.record_id \in ids
    <3>1. CASE o \in NewOwners(records, num)
      BY <3>1 DEF NewOwners
    <3>2. CASE o \in Close(d.owners, OfRecords(d.owners, ids), num)
      BY <2>1, <2>8, <3>2, CloseRows DEF OfRecords
    <3> QED BY <2>6, <3>1, <3>2
  <2>12. ASSUME NEW old \in d.records
         PROVE  \E row \in e.records : row.record_id = old.record_id /\ row.start = old.start
    BY <2>1, <2>6, <2>8, RecordsStay
  <2>13. \A record_id \in ids :
            \E row \in e.records : row.record_id = record_id /\ row.start = num
    BY <2>6 DEF NewRecords, IdsOf
  (* The parts of the invariant. *)
  <2>14. AgentsTraced(e)
    BY <2>3, <2>6, <2>9 DEF AgentsTraced, Tables
  <2>15. RecordsTraced(e)
    BY <2>7, <2>10 DEF RecordsTraced, Tables
  <2>16. OwnersTraced(e)
    BY <2>11, <2>12, <2>13 DEF OwnersTraced, Tables, IdsOf
  <2>17. EndsTraced(e)
    <3>1. ASSUME NEW row \in e.agents \cup e.records
          PROVE  row.end \in Numbers(e) \cup {MAX_BLOCK_NUMBER, NULL}
      BY <2>7, <2>9, <2>10 DEF EndsTraced, Tables
    <3>2. ASSUME NEW o \in e.owners, o.end \in BlockNums
          PROVE  \E row \in e.records : row.record_id = o.record_id /\ row.start = o.end
      BY <2>11, <2>12, <2>13, <3>2 DEF EndsTraced, Tables
    <3> QED BY <3>1, <3>2 DEF EndsTraced
  <2>18. LiveOnce(e)
    <3> USE DEF Live
    <3>1. ASSUME NEW x \in e.agents, NEW y \in e.agents, Live(x), Live(y),
                 x.agent.public_key = y.agent.public_key
          PROVE  x = y
      BY <2>4, <2>9, <3>1 DEF LiveOnce, Tables, KeysOf
    <3>2. ASSUME NEW x \in e.records, NEW y \in e.records, Live(x), Live(y),
                 x.record_id = y.record_id
          PROVE  x = y
      BY <2>10, <3>2 DEF LiveOnce, Tables
    <3>3. ASSUME NEW x \in e.owners, NEW y \in e.owners, Live(x), Live(y),
                 x.record_id = y.record_id, x.owner = y.owner
          PROVE  x = y
      BY <2>11, <3>3 DEF LiveOnce, Tables, IdsOf
    <3> QED BY <3>1, <3>2, <3>3 DEF LiveOnce
  <2>19. LiveOwnersAreOneVersion(e)
    <3> SUFFICES ASSUME NEW row \in e.records, Live(row)
                 PROVE  \E v \in Versions(row.record_id) :
                           v.owners = LiveOwners(e, row.record_id)
      BY DEF LiveOwnersAreOneVersion
    <3>1. CASE row.record_id \in ids
      <4>1. PICK r \in records : r.record_id = row.record_id
        BY <3>1 DEF IdsOf
      <4>2. LiveOwners(e, row.record_id) = r.owners
        BY <1>2, <2>0, <4>1, LiveAfter DEF e, records
      <4> QED BY <2>5, <4>1, <4>2
    <3>2. CASE row.record_id \notin ids
      <4>1. row \in d.records
        BY <2>10, <3>2 DEF Live
      <4>2. PICK v \in Versions(row.record_id) : v.owners = LiveOwners(d, row.record_id)
        BY <4>1 DEF Tables, LiveOwnersAreOneVersion
      <4>3. LiveOwners(e, row.record_id) = LiveOwners(d, row.record_id)
        BY <1>2, <2>0, <3>2, LiveAfter DEF e, records
      <4> QED BY <4>2, <4>3
    <3> QED BY <3>1, <3>2
  <2> QED BY <2>6, <2>14, <2>15, <2>16, <2>17, <2>18, <2>19 DEF Tables, e
<1> QED BY <1>1, <1>2

-----------------------------------------------------------------------------
(* The blocks of the validator *)

(* A chain is a list of blocks, no longer than there are blocks. *)
IsChain(base) == base \in Seq(DOMAIN made) /\ Len(base) <= Len(made)

(* Block ids are what the map of blocks is defined on.                     *)
LEMMA BlockIdsType == BlockIds \subseteq Nat /\ BlockIds = 1 .. MaxBlocks /\ MaxBlocks \in Nat
OBVIOUS

LEMMA StateAfterType ==
    ASSUME TypeOK, BlocksMade, NEW base, IsChain(base)
    PROVE  StateAfter(base) \in Reports /\ OneEach(StateAfter(base))
<1>1. CASE base = << >>
  BY <1>1 DEF StateAfter, EmptyReport, Reports, OneEach
<1>2. CASE base # << >>
  <2>1. base[Len(base)] \in DOMAIN made
    BY <1>2 DEF IsChain
  <2>2. made[base[Len(base)]] \in Blocks
    BY <2>1 DEF TypeOK
  <2> QED BY <1>2, <2>1, <2>2 DEF StateAfter, Blocks, BlocksMade
<1> QED BY <1>1, <1>2

(* What a block does to the ledger. *)
Follows(before, block) ==
    /\ block.changes = EmptyReport => block.after = before
    /\ \A a \in before.agents : a.public_key \notin KeysOf(block.changes.agents)
    /\ block.after.agents = before.agents \cup block.changes.agents
    /\ block.after.records =
          {r \in before.records : r.record_id \notin IdsOf(block.changes.records)}
            \cup block.changes.records
    /\ IdsOf(before.records) \subseteq IdsOf(block.after.records)

(* What a new block writes is new, or extends what is there. *)
LEMMA SuccessorsOK ==
    ASSUME TypeOK, BlocksMade, NEW base, IsChain(base), Len(made) < MaxBlocks,
           NEW block \in Successors(base)
    PROVE  /\ block \in Blocks
           /\ block.num = Len(base) + 1
           /\ \A a \in block.changes.agents : a.registered = Len(made) + 1
           /\ OneEach(block.changes)
           /\ OneEach(block.after)
           /\ Follows(StateAfter(base), block)
           /\ ChangeCount(block) <= MaxChanges
<1> DEFINE before == StateAfter(base)
           id == Len(made) + 1
           registered == {a.public_key : a \in before.agents}
           existing   == {r.record_id : r \in before.records}
<1>1. PICK keys \in SUBSET (Keys \ registered),
           create \in SUBSET (RecordIds \ existing),
           transfer \in SUBSET existing,
           update \in SUBSET existing :
        /\ block = NewBlock(base, keys, create, transfer, update)
        /\ ChangeCount(block) <= MaxChanges
  BY DEF Successors
<1> DEFINE touched == {r \in before.records : r.record_id \in transfer \cup update}
           agents  == {[public_key |-> k, registered |-> id] : k \in keys}
           created == {[record_id |-> x, owners |-> {id}, locations |-> {id}] : x \in create}
           changed(r) ==
               [r EXCEPT !.owners    = IF r.record_id \in transfer THEN @ \cup {id} ELSE @,
                         !.locations = IF r.record_id \in update THEN @ \cup {id} ELSE @]
           records == created \cup {changed(r) : r \in touched}
<1>2. block = [num     |-> Len(base) + 1,
               changes |-> [agents |-> agents, records |-> records],
               after   |-> [agents  |-> before.agents \cup agents,
                            records |-> (before.records \ touched) \cup records]]
  BY <1>1 DEF NewBlock
<1>3. before \in Reports /\ OneEach(before)
  BY StateAfterType
<1>4. id \in BlockIds /\ Len(base) + 1 \in BlockNums /\ Len(made) \in Nat /\ Len(base) \in Nat
  <2>1. Len(made) \in Nat /\ Len(base) \in Nat /\ Len(base) <= Len(made)
    BY DEF TypeOK, IsChain
  <2> QED BY <2>1, BlockIdsType DEF BlockNums
<1> HIDE DEF before, id
<1>5. agents \in SUBSET Agents /\ (\A a \in agents : a.registered = id /\ a.public_key \in keys)
  BY <1>4 DEF Agents
<1>6. \A r \in before.records :
         /\ changed(r) \in Records
         /\ changed(r).record_id = r.record_id
  BY <1>3, <1>4 DEF Reports, Records
<1>7. /\ created \in SUBSET Records
      /\ \A r \in created :
            /\ r.record_id \in create
            /\ r = [record_id |-> r.record_id, owners |-> {id}, locations |-> {id}]
  BY <1>4 DEF Records
<1> HIDE DEF changed
<1>8. records \in SUBSET Records
  BY <1>6, <1>7
<1>9. \A x, y \in agents : x.public_key = y.public_key => x = y
  OBVIOUS
<1>10. \A x, y \in before.agents \cup agents : x.public_key = y.public_key => x = y
  BY <1>3, <1>5, <1>9 DEF OneEach
<1> HIDE DEF agents, created
<1>11. \A x, y \in created : x.record_id = y.record_id => x = y
  BY <1>7
<1>12. \A x, y \in records : x.record_id = y.record_id => x = y
  BY <1>3, <1>6, <1>7, <1>11 DEF OneEach
<1>13. \A x, y \in (before.records \ touched) \cup records : x.record_id = y.record_id => x = y
  <2> SUFFICES ASSUME NEW x \in before.records \ touched, NEW y \in records
               PROVE  x.record_id # y.record_id
    BY <1>3, <1>12 DEF OneEach
  <2>1. CASE y \in created
    BY <2>1, <1>7
  <2>2. CASE y \notin created
    <3>1. PICK r \in touched : y = changed(r)
      BY <2>2
    <3> QED BY <3>1, <1>3, <1>6 DEF OneEach
  <2> QED BY <2>1, <2>2
<1>14. /\ before.agents \cup agents \in SUBSET Agents
       /\ (before.records \ touched) \cup records \in SUBSET Records
  BY <1>3, <1>5, <1>8 DEF Reports
<1>15. IdsOf(records) = create \cup IdsOf(touched) /\ IdsOf(touched) \cap create = {}
  <2>1. \A r \in created : r.record_id \in create
    BY <1>7
  <2>2. ASSUME NEW x \in create PROVE \E r \in created : r.record_id = x
    <3> DEFINE new == [record_id |-> x, owners |-> {id}, locations |-> {id}]
    <3>1. new \in created /\ new.record_id = x
      BY DEF created
    <3> QED BY <3>1
  <2>3. IdsOf(touched) \cap create = {}
    BY DEF IdsOf
  <2> QED BY <1>6, <2>1, <2>2, <2>3 DEF IdsOf
<1>16. before.records \ touched = {r \in before.records : r.record_id \notin IdsOf(records)}
  <2> SUFFICES ASSUME NEW r \in before.records
               PROVE  r \in touched <=> r.record_id \in IdsOf(records)
    OBVIOUS
  <2>1. r.record_id \in existing
    OBVIOUS
  <2>2. r.record_id \in IdsOf(touched) <=> r \in touched
    BY DEF IdsOf
  <2> QED BY <1>15, <2>1, <2>2
<1>17. IdsOf(before.records) \subseteq IdsOf((before.records \ touched) \cup records)
  <2> SUFFICES ASSUME NEW r \in before.records
               PROVE  \E x \in (before.records \ touched) \cup records :
                         x.record_id = r.record_id
    BY DEF IdsOf
  <2>1. CASE r \in touched
    BY <2>1, <1>6
  <2>2. CASE r \notin touched
    BY <2>2
  <2> QED BY <2>1, <2>2
<1>18. \A a \in before.agents : a.public_key \notin KeysOf(agents)
  BY <1>5 DEF KeysOf
<1>19. records = {} => touched = {}
  <2>1. \A r \in touched : changed(r) \in records
    OBVIOUS
  <2> HIDE DEF records
  <2> QED BY <2>1
<1>20. Follows(before, block)
  <2>1. ASSUME block.changes = EmptyReport PROVE block.after = before
    <3>1. agents = {} /\ records = {} /\ touched = {}
      BY <1>2, <1>19, <2>1 DEF EmptyReport
    <3>2. before = [agents |-> before.agents, records |-> before.records]
      BY <1>3 DEF Reports
    <3> HIDE DEF records, touched
    <3> QED BY <1>2, <3>1, <3>2
  <2> HIDE DEF records, touched
  <2> QED BY <1>2, <1>16, <1>17, <1>18, <2>1 DEF Follows
<1> HIDE DEF records, touched
<1>21. block \in Blocks
  BY <1>2, <1>4, <1>5, <1>8, <1>14 DEF Blocks, Reports
<1> QED BY <1>1, <1>2, <1>5, <1>9, <1>10, <1>12, <1>13, <1>21, <1>20 DEF OneEach, id, before

(* Nothing that was made goes. *)
LEMMA MadeGrows ==
    ASSUME TypeOK, NEW block \in Blocks, made' = Append(made, block), Len(made) < MaxBlocks
    PROVE  /\ made' \in Seq(Blocks) /\ Len(made') = Len(made) + 1 /\ Len(made) \in Nat
           /\ DOMAIN made' = DOMAIN made \cup {Len(made) + 1}
           /\ made'[Len(made) + 1] = block
           /\ \A id \in DOMAIN made : made'[id] = made[id]
           /\ \A q \in Seq(DOMAIN made) : q \in Seq(DOMAIN made')
           /\ \A record_id : Versions(record_id) \subseteq Versions(record_id)'
<1>1. made \in Seq(Blocks)
  BY DEF TypeOK
<1>2. /\ made' \in Seq(Blocks) /\ Len(made') = Len(made) + 1 /\ Len(made) \in Nat
      /\ DOMAIN made' = DOMAIN made \cup {Len(made) + 1}
      /\ made'[Len(made) + 1] = block
      /\ \A id \in DOMAIN made : made'[id] = made[id]
  BY <1>1
<1>3. \A q \in Seq(DOMAIN made) : q \in Seq(DOMAIN made')
  <2> SUFFICES ASSUME NEW q \in Seq(DOMAIN made) PROVE q \in Seq(DOMAIN made')
    OBVIOUS
  <2>1. q \in [1 .. Len(q) -> DOMAIN made'] /\ Len(q) \in Nat
    BY <1>2
  <2> QED BY <2>1
<1>4. ASSUME NEW record_id PROVE Versions(record_id) \subseteq Versions(record_id)'
  <2> SUFFICES ASSUME NEW v \in Versions(record_id) PROVE v \in Versions(record_id)'
    OBVIOUS
  <2>1. PICK id \in DOMAIN made : v \in made[id].changes.records
    BY DEF Versions
  <2>2. id \in DOMAIN made' /\ v \in made'[id].changes.records
    BY <1>2, <2>1
  <2> QED BY <2>2 DEF Versions
<1> QED BY <1>2, <1>3, <1>4

(* Blocks made later take nothing back of what a table promises.           *)
LEMMA TablesAsMadeGrows ==
    ASSUME \A record_id : Versions(record_id) \subseteq Versions(record_id)',
           Tables(db), db' = db
    PROVE  Tables(db)'
<1>1. LiveOwnersAreOneVersion(db)'
  BY DEF Tables, LiveOwnersAreOneVersion, LiveOwners
<1>2. /\ (db \in Databases)'
      /\ AgentsTraced(db)' /\ RecordsTraced(db)' /\ OwnersTraced(db)'
      /\ EndsTraced(db)' /\ LiveOnce(db)'
  BY DEF Tables, AgentsTraced, RecordsTraced, OwnersTraced, EndsTraced, LiveOnce, Numbers
<1> QED BY <1>1, <1>2 DEF Tables

(* A new block keeps the invariant.                                        *)
LEMMA ExtendKeeps ==
    ASSUME IInv, NEW base, IsChain(base), NEW block \in Successors(base),
           Extend(base, block), forks' \in 0 .. MaxForks
    PROVE  IInv'
<1> DEFINE id == Len(made) + 1
<1>1. /\ Len(made) < MaxBlocks
      /\ made' = Append(made, block)
      /\ chain' = Append(base, id)
      /\ pending' = IF mode = "subscribed" THEN Append(pending, id) ELSE pending
      /\ mode' = mode /\ db' = db /\ faults' = faults
  BY DEF Extend
<1>2. /\ block \in Blocks
      /\ block.num = Len(base) + 1
      /\ \A a \in block.changes.agents : a.registered = id
      /\ OneEach(block.changes)
      /\ OneEach(block.after)
  BY <1>1, SuccessorsOK DEF IInv
<1>3. /\ made' \in Seq(Blocks) /\ Len(made') = id /\ Len(made) \in Nat
      /\ DOMAIN made' = DOMAIN made \cup {id}
      /\ made'[id] = block
      /\ \A i \in DOMAIN made : made'[i] = made[i]
      /\ \A q \in Seq(DOMAIN made) : q \in Seq(DOMAIN made')
      /\ \A record_id : Versions(record_id) \subseteq Versions(record_id)'
  BY <1>1, <1>2, MadeGrows DEF IInv
<1>4. Len(base) \in Nat /\ Len(base) <= Len(made) /\ base \in Seq(DOMAIN made')
  BY <1>3 DEF IsChain
<1>5. pending \in Seq(DOMAIN made')
  BY <1>3 DEF IInv, TypeOK
<1>6. TypeOK'
  <2>1. chain' \in Seq(DOMAIN made')
    BY <1>1, <1>3, <1>4
  <2>2. pending' \in Seq(DOMAIN made')
    BY <1>1, <1>3, <1>5
  <2> QED BY <1>1, <1>3, <2>1, <2>2 DEF TypeOK, IInv
<1>7. BlocksMade'
  <2>1. Len(chain') <= Len(made')
    BY <1>1, <1>3, <1>4
  <2>2. block.num <= MaxBlocks
    BY <1>1, <1>2, <1>3, <1>4
  <2>3. ASSUME NEW i \in DOMAIN made'
        PROVE  /\ made'[i].num <= MaxBlocks
               /\ \A a \in made'[i].changes.agents : a.registered = i
               /\ OneEach(made'[i].changes)
               /\ OneEach(made'[i].after)
    BY <1>2, <1>3, <2>2 DEF IInv, BlocksMade
  <2> QED BY <2>1, <2>3 DEF BlocksMade, OneEach
<1>8. Tables(db)'
  BY <1>1, <1>3, TablesAsMadeGrows DEF IInv
<1> QED BY <1>6, <1>7, <1>8 DEF IInv

(* The type of the blocks, as the steps of the subscriber need it. *)
LEMMA BlockParts ==
    ASSUME TypeOK, BlocksMade, NEW id \in DOMAIN made
    PROVE  /\ made[id].num \in BlockNums
           /\ id \in BlockIds
           /\ made[id].changes \in Reports /\ made[id].after \in Reports
           /\ OneEach(made[id].changes)
           /\ \A a \in made[id].changes.agents : a.registered = id
<1>1. made[id] \in Blocks /\ Len(made) \in Nat /\ Len(made) <= MaxBlocks /\ id \in 1 .. Len(made)
  BY DEF TypeOK
<1>2. id \in BlockIds
  BY <1>1, BlockIdsType
<1> QED BY <1>1, <1>2 DEF BlocksMade, Blocks

(* Handling a block keeps what the tables promise: a block of an earlier   *)
(* number drops the fork before it is applied, one of the next number      *)
(* follows.                                                                *)
LEMMA HandleKeepsTables ==
    ASSUME IInv, NEW id \in DOMAIN made, NEW num, num = made[id].num
    PROVE  Tables(apply_state_changes(Resolved(num, id), num, id))
<1>1. num \in BlockNums
  BY BlockParts DEF IInv
<1>2. Tables(Resolved(num, id))
  BY <1>1, DropTables DEF IInv, Resolved
<1> QED BY <1>1, <1>2, BlockParts, ApplyTables DEF IInv

(* The blocks of a chain beyond a height are blocks.                       *)
LEMMA SubSeqChain ==
    ASSUME NEW q, IsChain(q), NEW m, NEW n, m \in Nat \ {0}, n \in Nat, n <= Len(q)
    PROVE  SubSeq(q, m, n) \in Seq(DOMAIN made)
           /\ (m = 1 => IsChain(SubSeq(q, m, n)) /\ Len(SubSeq(q, m, n)) = n)
BY DEF IsChain

-----------------------------------------------------------------------------
(* The invariant *)

(* The invariant holds at the start.                                       *)
LEMMA IInvInit == Init => IInv
<1> SUFFICES ASSUME Init PROVE IInv
  OBVIOUS
<1>1. /\ made = << >> /\ chain = << >> /\ forks = 0 /\ mode = "down"
      /\ pending = << >> /\ faults = 0
      /\ db = EmptyDatabase
  BY DEF Init
<1>2. EmptyDatabase \in Databases
  BY DEF EmptyDatabase, Databases
<1>3. TypeOK
  BY <1>1, <1>2 DEF TypeOK
<1>4. BlocksMade
  BY <1>1 DEF BlocksMade
<1>5. Tables(db)
  BY <1>1, <1>2 DEF Tables, EmptyDatabase, AgentsTraced, RecordsTraced, OwnersTraced,
     EndsTraced, LiveOnce, LiveOwnersAreOneVersion
<1> QED BY <1>3, <1>4, <1>5 DEF IInv

(* A step that makes no block, and leaves the tables in order. *)
LEMMA MadeStays ==
    ASSUME IInv, UNCHANGED <<made, chain, forks>>,
           mode' \in {"down", "subscribed"}, pending' \in Seq(DOMAIN made),
           faults' \in 0 .. MaxFaults, Tables(db')
    PROVE  IInv'
<1>1. TypeOK'
  BY DEF IInv, TypeOK, Tables
<1>2. BlocksMade'
  BY DEF IInv, BlocksMade
<1>3. Tables(db)'
  <2>1. LiveOwnersAreOneVersion(db)'
    BY DEF Tables, LiveOwnersAreOneVersion, LiveOwners, Versions
  <2>2. /\ (db \in Databases)'
        /\ AgentsTraced(db)' /\ RecordsTraced(db)' /\ OwnersTraced(db)'
        /\ EndsTraced(db)' /\ LiveOnce(db)'
    BY DEF Tables, AgentsTraced, RecordsTraced, OwnersTraced, EndsTraced, LiveOnce, Numbers
  <2> QED BY <2>1, <2>2 DEF Tables
<1> QED BY <1>1, <1>2, <1>3 DEF IInv

(* Every step keeps it.                                                    *)
LEMMA IInvNext == IInv /\ [Next]_vars => IInv'
<1> SUFFICES ASSUME IInv, [Next]_vars PROVE IInv'
  OBVIOUS
<1>0. /\ made \in Seq(Blocks) /\ chain \in Seq(DOMAIN made) /\ pending \in Seq(DOMAIN made)
      /\ mode \in {"down", "subscribed"} /\ faults \in 0 .. MaxFaults
      /\ forks \in 0 .. MaxForks
      /\ IsChain(chain) /\ Tables(db) /\ MaxFaults \in Nat /\ MaxForks \in Nat
  BY DEF IInv, TypeOK, BlocksMade, IsChain
<1>1. CASE CommitBlock
  <2>1. PICK block \in Successors(chain) : Extend(chain, block)
    BY <1>1 DEF CommitBlock
  <2> QED BY <1>0, <1>1, <2>1, ExtendKeeps DEF CommitBlock
<1>2. ASSUME NEW n \in 0 .. Len(chain) - 1, SwitchFork(n)
      PROVE  IInv'
  <2>0. n \in Nat /\ n <= Len(chain) /\ 1 \in Nat \ {0}
    BY <1>0
  <2>1. IsChain(SubSeq(chain, 1, n))
    BY <1>0, <2>0, SubSeqChain
  <2>2. PICK block \in Successors(SubSeq(chain, 1, n)) : Extend(SubSeq(chain, 1, n), block)
    BY <1>2 DEF SwitchFork
  <2>3. forks' \in 0 .. MaxForks
    BY <1>0, <1>2 DEF SwitchFork
  <2> QED BY <2>1, <2>2, <2>3, ExtendKeeps
<1>3. CASE SubscribeFromKnown
  <2>1. PICK n \in KnownOnChain : pending' = Sent(n)
    BY <1>3 DEF SubscribeFromKnown
  <2>2. n \in Nat
    <3>1. PICK row \in db.blocks : n = row.num
      BY DEF KnownOnChain, fetch_last_known_blocks
    <3>2. db.blocks \subseteq [num : BlockNums, id : BlockIds]
      BY <1>0, DatabaseParts DEF Tables
    <3> QED BY <3>1, <3>2 DEF BlockNums
  <2>3. pending' \in Seq(DOMAIN made)
    BY <1>0, <2>1, <2>2, SubSeqChain DEF Sent, IsChain
  <2> QED BY <1>0, <1>3, <2>3, MadeStays DEF SubscribeFromKnown
<1>4. CASE SubscribeFromGenesis
  <2>1. pending' \in Seq(DOMAIN made)
    BY <1>0, <1>4, SubSeqChain DEF SubscribeFromGenesis, Sent, IsChain
  <2> QED BY <1>0, <1>4, <2>1, MadeStays DEF SubscribeFromGenesis
<1>5. ASSUME NEW id \in DOMAIN made, Handle(made[id].num, id)
      PROVE  IInv'
  <2> DEFINE num == made[id].num
  <2>1. UNCHANGED <<made, chain, forks, mode>> /\ pending' = Tail(pending) /\ pending # << >>
    BY <1>5 DEF Handle, SkipDuplicate, HandleBlock, RollBack, Receive
  <2>2. pending' \in Seq(DOMAIN made)
    BY <1>0, <2>1
  <2>3. faults' \in 0 .. MaxFaults
    BY <1>0, <1>5 DEF Handle, SkipDuplicate, HandleBlock, RollBack, Fault
  <2>4. Tables(db')
    <3>1. CASE db' = db
      BY <1>0, <3>1
    <3>2. CASE db' = apply_state_changes(Resolved(num, id), num, id)
      BY <3>2, HandleKeepsTables
    <3> QED BY <1>5, <3>1, <3>2 DEF Handle, SkipDuplicate, HandleBlock, RollBack
  <2> QED BY <1>0, <2>1, <2>2, <2>3, <2>4, MadeStays
<1>6. CASE Crash
  BY <1>0, <1>6, MadeStays DEF Crash, Fault
<1>7. CASE Repeat
  <2>1. pending' \in Seq(DOMAIN made)
    <3>1. Head(pending) \in DOMAIN made
      BY <1>0, <1>7 DEF Repeat
    <3> QED BY <1>0, <1>7, <3>1 DEF Repeat
  <2> QED BY <1>0, <1>7, <2>1, MadeStays DEF Repeat, Fault
<1>8. CASE UNCHANGED vars
  BY <1>0, <1>8, MadeStays DEF vars
<1> QED
  BY <1>1, <1>2, <1>3, <1>4, <1>5, <1>6, <1>7, <1>8 DEF Next, Subscribe, HandleEvents

(* Blocks are made one after another, and the tables hold rows of blocks   *)
(* that were made, each agent and record once at a time, whatever is       *)
(* dropped, repeated or cut off.                                           *)
THEOREM Invariant == Spec => []IInv
<1>1. Init => IInv
  BY IInvInit
<1>2. IInv /\ [Next]_vars => IInv'
  BY IInvNext
<1> QED BY <1>1, <1>2, PTL DEF Spec

(***************************************************************************)
(* Every statement of the subscriber leaves rows of the tables' types,     *)
(* however the chain forks: blocks, tables, chain and event lists keep     *)
(* their types.                                                            *)
(***************************************************************************)
THEOREM TypeCorrect == Spec => []TypeOK
<1>1. IInv => TypeOK
  BY DEF IInv
<1> QED BY <1>1, Invariant, PTL

-----------------------------------------------------------------------------
(* What the invariant means for the reports *)

(* Numbers below a bound that are not none have a greatest one. *)
LEMMA Greatest ==
    ASSUME NEW T, T # {}, NEW bound \in Nat, T \subseteq 0 .. bound
    PROVE  \E n \in T : \A m \in T : m <= n
<1> DEFINE U == {n \in Nat : \A m \in T : m <= n}
           R == OpToRel(<, Nat)
<1>1. U \subseteq Nat /\ bound \in U
  OBVIOUS
<1>2. IsWellFoundedOn(R, Nat)
  BY NatLessThanWellFounded
<1>3. \A x, y \in Nat : x < y => <<x, y>> \in R
  BY DEF OpToRel
<1>4. PICK u \in U : \A v \in U : ~(<<v, u>> \in R)
  <2> HIDE DEF U, R
  <2>1. U # {}
    BY <1>1
  <2> QED BY <1>1, <1>2, <2>1, WFMin
<1> HIDE DEF R
<1>5. \A v \in U : ~(v < u)
  BY <1>1, <1>3, <1>4
<1>6. u \in T
  <2> SUFFICES ASSUME u \notin T PROVE FALSE
    OBVIOUS
  <2>1. \A m \in T : m \in Nat /\ m < u
    OBVIOUS
  <2>2. u - 1 \in U
    <3>1. PICK m \in T : TRUE
      OBVIOUS
    <3>2. u \in Nat /\ u - 1 \in Nat
      BY <2>1, <3>1
    <3>3. \A k \in T : k <= u - 1
      BY <2>1, <3>2
    <3> QED BY <3>2, <3>3
  <2> QED BY <1>5, <2>2
<1> QED BY <1>6

(* The greatest block number, once there is a block.                       *)
LEMMA Latest ==
    ASSUME NEW d \in Databases, d.blocks # {}
    PROVE  /\ LatestBlock(d) \in d.blocks
           /\ \A b \in d.blocks : b.num <= LatestBlock(d).num
           /\ LatestBlock(d).num \in BlockNums
<1>1. d.blocks \subseteq [num : BlockNums, id : BlockIds]
  BY DatabaseParts
<1>2. Numbers(d) \subseteq 0 .. MAX_BLOCK_NUMBER /\ Numbers(d) # {}
  BY <1>1 DEF Numbers, BlockNums
<1>3. PICK n \in Numbers(d) : \A m \in Numbers(d) : m <= n
  BY <1>2, Greatest
<1>4. \E row \in d.blocks : \A other \in d.blocks : other.num <= row.num
  BY <1>3 DEF Numbers
<1>5. /\ LatestBlock(d) \in d.blocks
      /\ \A b \in d.blocks : b.num <= LatestBlock(d).num
  BY <1>4 DEF LatestBlock
<1> QED BY <1>1, <1>5

(* A record with its histories, as the REST API puts it together. *)
Shown(d, n, record_id) ==
    [record_id |-> record_id,
     owners    |-> {o.owner : o \in OfRecords(At(d.owners, n), {record_id})},
     locations |-> {l.location : l \in OfRecords(At(d.locations, n), {record_id})}]

(* Records reported are the records with a live row.                       *)
LEMMA RecordsShown ==
    ASSUME NEW d, NEW n
    PROVE  ReportAt(d, n).records = {Shown(d, n, row.record_id) : row \in At(d.records, n)}
BY DEF ReportAt, Shown

(* The rows that are valid at the latest block are the live ones. *)
LEMMA AtLatest ==
    ASSUME NEW d, Tables(d), d.blocks # {}, NEW n, n = LatestBlock(d).num
    PROVE  /\ \A row \in d.agents \cup d.records \cup d.owners :
                 row \in At(d.agents \cup d.records \cup d.owners, n) <=> Live(row)
           /\ At(d.agents, n) = {row \in d.agents : Live(row)}
           /\ At(d.records, n) = {row \in d.records : Live(row)}
           /\ At(d.owners, n) = {row \in d.owners : Live(row)}
<1>1. /\ d.agents \subseteq AgentRows /\ d.records \subseteq RecordRows
      /\ d.owners \subseteq OwnerRows
      /\ n \in BlockNums /\ \A m \in Numbers(d) : m <= n
  BY DatabaseParts, Latest DEF Tables, Numbers
<1>2. ASSUME NEW row \in d.agents \cup d.records \cup d.owners
      PROVE  row.start <= n /\ (row.end # NULL /\ n < row.end <=> Live(row))
  <2>1. row.start \in Numbers(d)
    <3>1. CASE row \in d.agents
      <4> DEFINE b == [num |-> row.start, id |-> row.agent.registered]
      <4>1. b \in d.blocks /\ b.num = row.start
        BY <3>1 DEF Tables, AgentsTraced
      <4> HIDE DEF b
      <4> QED BY <4>1 DEF Numbers
    <3>2. CASE row \in d.records \cup d.owners
      BY <3>2 DEF Tables, RecordsTraced, OwnersTraced
    <3> QED BY <3>1, <3>2
  <2>2. row.end \in Ends
    BY <1>1 DEF AgentRows, RecordRows, OwnerRows
  <2>3. row.end \in BlockNums => row.end \in Numbers(d)
    BY BlockNumsAreEnds DEF Tables, EndsTraced, RecordsTraced
  <2> QED BY <1>1, <2>1, <2>2, <2>3 DEF Live, Ends, BlockNums
<1> QED BY <1>2 DEF At

(***************************************************************************)
(* Whatever forks and restarts there have been, an agent, record or owner  *)
(* row is one of a block that is recorded: drop_fork leaves nothing of the *)
(* blocks it drops, although it finds owners by their records only.        *)
(***************************************************************************)
THEOREM NothingOutlivesItsBlock == Spec => []NothingOfDroppedBlocks
<1>1. IInv => NothingOfDroppedBlocks
  BY DEF IInv, Tables, NothingOfDroppedBlocks, AgentsTraced, RecordsTraced, OwnersTraced,
     Recorded, Numbers
<1> QED BY <1>1, Invariant, PTL

(* Empty tables report nothing.                                            *)
LEMMA NoBlocksNoRows ==
    ASSUME Tables(db), db.blocks = {}
    PROVE  db.agents = {} /\ db.records = {} /\ db.owners = {}
BY DEF Tables, AgentsTraced, RecordsTraced, OwnersTraced, Numbers

(***************************************************************************)
(* No report names an agent or a record twice, nor an owner twice in the   *)
(* history of a record: of each at most one row is live.                   *)
(***************************************************************************)
THEOREM EachReportedOnce == Spec => []OneRowReported
<1>1. IInv => OneRowReported
  <2> SUFFICES ASSUME IInv PROVE OneRowReported
    OBVIOUS
  <2>1. CASE db.blocks = {}
    BY <2>1, NoBlocksNoRows DEF IInv, OneRowReported, OneRowPer, At
  <2>2. CASE db.blocks # {}
    <3>1. /\ At(db.agents, LatestNum) = {row \in db.agents : Live(row)}
          /\ At(db.records, LatestNum) = {row \in db.records : Live(row)}
          /\ At(db.owners, LatestNum) = {row \in db.owners : Live(row)}
      BY <2>2, AtLatest DEF IInv, LatestNum
    <3> QED BY <3>1 DEF IInv, Tables, LiveOnce, OneRowReported, OneRowPer
  <2> QED BY <2>1, <2>2
<1> QED BY <1>1, Invariant, PTL

(***************************************************************************)
(* The owners of a reported record are those some one block gave it, on    *)
(* every path through forks, dropped rows and catching up.                 *)
(***************************************************************************)
THEOREM OwnersReportedTogether == Spec => []ReportedOwnersAreOneVersion
<1>1. IInv => ReportedOwnersAreOneVersion
  <2> SUFFICES ASSUME IInv, NEW r \in Report(db).records
               PROVE  \E v \in Versions(r.record_id) : v.owners = r.owners
    BY DEF ReportedOwnersAreOneVersion
  <2>1. db.blocks # {}
    BY DEF Report, EmptyReport
  <2> DEFINE n == LatestBlock(db).num
  <2>2. PICK row \in At(db.records, n) :
           /\ r.record_id = row.record_id
           /\ r.owners = {o.owner : o \in OfRecords(At(db.owners, n), {row.record_id})}
    <3>1. r \in ReportAt(db, n).records
      BY <2>1 DEF Report
    <3> HIDE DEF n
    <3>2. PICK row \in At(db.records, n) : r = Shown(db, n, row.record_id)
      BY <3>1, RecordsShown
    <3> QED BY <3>2 DEF Shown
  <2>3. /\ At(db.records, n) = {x \in db.records : Live(x)}
        /\ At(db.owners, n) = {x \in db.owners : Live(x)}
    BY <2>1, AtLatest DEF IInv
  <2> HIDE DEF n
  <2>4. r.owners = LiveOwners(db, row.record_id)
    BY <2>2, <2>3 DEF OfRecords, LiveOwners
  <2> QED BY <2>2, <2>3, <2>4 DEF IInv, Tables, LiveOwnersAreOneVersion
<1> QED BY <1>1, Invariant, PTL

-----------------------------------------------------------------------------
(***************************************************************************)
(* Chains that never fork, with blocks of one change, and a database that  *)
(* does not fail: what the subscriber is written for.  How often it dies   *)
(* and events are repeated is left open.                                   *)
(***************************************************************************)
Linear == MaxForks = 0 /\ MaxChanges <= 1 /\ DatabaseMayFail = FALSE

(* The ledger after its first n blocks. *)
StateUpTo(n) == IF n = 0 THEN EmptyReport ELSE made[n].after

LinearChain ==
    /\ Len(chain) = Len(made)
    /\ \A n \in DOMAIN made :
          /\ chain[n] = n /\ made[n].num = n
          /\ Follows(StateUpTo(n - 1), made[n])
          /\ ChangeCount(made[n]) <= 1
    /\ \A n, m \in DOMAIN made :
          n <= m => IdsOf(made[n].after.records) \subseteq IdsOf(made[m].after.records)

(* The live rows show the report, and nothing else. *)
Mirrors(d, report) ==
    /\ LiveAgents(d) = report.agents
    /\ LiveRecords(d) = IdsOf(report.records)
    /\ \A r \in report.records :
          /\ LiveOwners(d, r.record_id) = r.owners
          /\ LiveLocations(d, r.record_id) = r.locations

(* No block is dropped, so the rows of locations are in order as well. *)
LocationsTraced(d) ==
    \A l \in d.locations : l.start \in Numbers(d) /\ l.end \in Numbers(d) \cup {MAX_BLOCK_NUMBER}

(* No block with changes was passed over. *)
RecordedUpToLatest ==
    /\ \A b \in db.blocks : b.id = b.num /\ b.num \in DOMAIN made
    /\ \A n \in DOMAIN made :
          n <= LatestNum /\ ChangeCount(made[n]) > 0 => n \in Numbers(db)

(* The next block to come, and that the rest of the chain follows it. *)
NextBlock == IF pending = << >> THEN Len(chain) + 1 ELSE Head(pending)

NothingMissing ==
    mode = "subscribed" =>
        /\ pending # << >> => pending[Len(pending)] = Len(chain)
        /\ \A i \in 1 .. Len(pending) - 1 : pending[i + 1] <= pending[i] + 1
        /\ \A n \in DOMAIN made : LatestNum <= n /\ n < NextBlock =>
              /\ StateUpTo(n) = StateUpTo(LatestNum)
              /\ n # LatestNum => ChangeCount(made[n]) = 0

LInv ==
    /\ LinearChain
    /\ LocationsTraced(db)
    /\ Mirrors(db, StateUpTo(LatestNum))
    /\ RecordedUpToLatest
    /\ NothingMissing

(* There are finitely many entries to write. *)
LEMMA ReportsFinite ==
    ASSUME NEW r \in Reports
    PROVE  IsFiniteSet(r.agents) /\ IsFiniteSet(r.records)
<1>1. IsFiniteSet(BlockIds)
  BY BlockIdsType, FS_Interval
<1>2. IsFiniteSet(Agents)
  <2> DEFINE S == Keys \X BlockIds
             f == [p \in S |-> [public_key |-> p[1], registered |-> p[2]]]
  <2>1. IsFiniteSet(S)
    BY <1>1, FS_Product
  <2>2. f \in [S -> Agents]
    BY DEF Agents
  <2>3. ASSUME NEW a \in Agents PROVE \E p \in S : f[p] = a
    <3>1. /\ <<a.public_key, a.registered>> \in S
          /\ f[<<a.public_key, a.registered>>] = a
      BY DEF Agents
    <3> QED BY <3>1
  <2> HIDE DEF S, f
  <2>4. f \in Surjection(S, Agents)
    BY <2>2, <2>3 DEF Surjection
  <2> QED BY <2>1, <2>4, FS_Surjection
<1>3. IsFiniteSet(Records)
  <2> DEFINE B == SUBSET BlockIds
             H == B \X B
             S == RecordIds \X H
             f == [p \in S |->
                     [record_id |-> p[1], owners |-> p[2][1], locations |-> p[2][2]]]
  <2>0. Records = [record_id : RecordIds, owners : B, locations : B] /\ IsFiniteSet(B)
    BY <1>1, FS_SUBSET DEF Records
  <2> HIDE DEF B
  <2>1. IsFiniteSet(S)
    BY <2>0, FS_Product
  <2>2. f \in [S -> Records]
    <3> SUFFICES ASSUME NEW p \in S
                 PROVE  [record_id |-> p[1], owners |-> p[2][1], locations |-> p[2][2]] \in Records
      OBVIOUS
    <3>1. p[1] \in RecordIds /\ p[2] \in H
      <4> HIDE DEF H
      <4> QED OBVIOUS
    <3>2. p[2][1] \in B /\ p[2][2] \in B
      BY <3>1
    <3> QED BY <2>0, <3>1, <3>2
  <2>3. ASSUME NEW x \in Records PROVE \E p \in S : f[p] = x
    <3> DEFINE h == <<x.owners, x.locations>>
               p == <<x.record_id, h>>
    <3>1. h \in H /\ h[1] = x.owners /\ h[2] = x.locations /\ x.record_id \in RecordIds
      BY <2>0
    <3> HIDE DEF h, H
    <3>2. p \in S /\ p[1] = x.record_id /\ p[2] = h
      BY <3>1
    <3> HIDE DEF p, S
    <3>3. f[p] = x
      BY <2>0, <3>1, <3>2
    <3> QED BY <3>2, <3>3
  <2> HIDE DEF S, f
  <2>4. f \in Surjection(S, Records)
    BY <2>2, <2>3 DEF Surjection
  <2> QED BY <2>1, <2>4, FS_Surjection
<1> QED BY <1>2, <1>3, FS_Subset DEF Reports

(* A block that changes nothing changes no report.                         *)
LEMMA NoChanges ==
    ASSUME NEW block \in Blocks
    PROVE  /\ ChangeCount(block) \in Nat
           /\ ChangeCount(block) = 0 <=> block.changes = EmptyReport
<1> DEFINE c == block.changes
<1>1. c \in Reports /\ c = [agents |-> c.agents, records |-> c.records]
  BY DEF Blocks, Reports
<1> HIDE DEF c
<1>2. IsFiniteSet(c.agents) /\ IsFiniteSet(c.records)
  BY <1>1, ReportsFinite
<1>3. /\ Cardinality(c.agents) \in Nat /\ (Cardinality(c.agents) = 0 <=> c.agents = {})
      /\ Cardinality(c.records) \in Nat /\ (Cardinality(c.records) = 0 <=> c.records = {})
  BY <1>2, FS_CardinalityType, FS_EmptySet
<1>4. ChangeCount(block) = Cardinality(c.agents) + Cardinality(c.records)
  BY DEF ChangeCount, c
<1>5. ChangeCount(block) = 0 <=> c.agents = {} /\ c.records = {}
  BY <1>3, <1>4
<1>6. c = EmptyReport <=> c.agents = {} /\ c.records = {}
  BY <1>1 DEF EmptyReport
<1> QED BY <1>3, <1>4, <1>5, <1>6 DEF c

(* The latest recorded block is one of the chain, or there is none. *)
LEMMA LatestOnChain ==
    ASSUME IInv, RecordedUpToLatest
    PROVE  /\ Len(made) \in Nat /\ DOMAIN made = 1 .. Len(made)
           /\ LatestNum \in 0 .. Len(made)
           /\ LatestNum = 0 <=> db.blocks = {}
           /\ \A n \in Numbers(db) : n <= LatestNum
           /\ \A b \in db.blocks : b.num \in DOMAIN made /\ b.id = b.num
           /\ db.blocks # {} => LatestNum = LatestBlock(db).num /\ LatestBlock(db) \in db.blocks
<1>1. Len(made) \in Nat /\ DOMAIN made = 1 .. Len(made)
  BY DEF IInv, TypeOK
<1>2. CASE db.blocks = {}
  BY <1>1, <1>2 DEF LatestNum, Numbers
<1>3. CASE db.blocks # {}
  <2>1. /\ LatestBlock(db) \in db.blocks
        /\ \A b \in db.blocks : b.num <= LatestBlock(db).num
        /\ LatestNum = LatestBlock(db).num
    BY <1>3, Latest DEF IInv, Tables, LatestNum
  <2> QED BY <1>1, <1>3, <2>1 DEF RecordedUpToLatest, Numbers
<1> QED BY <1>2, <1>3

(* What a chain of blocks adds up to is a report.                          *)
LEMMA StateUpToType ==
    ASSUME IInv, NEW n \in 0 .. Len(made)
    PROVE  StateUpTo(n) \in Reports
<1>1. made \in Seq(Blocks)
  BY DEF IInv, TypeOK
<1>2. CASE n = 0
  BY <1>2 DEF StateUpTo, EmptyReport, Reports
<1>3. CASE n # 0
  <2>1. made[n] \in Blocks
    BY <1>1, <1>3
  <2> QED BY <1>3, <2>1 DEF StateUpTo, Blocks
<1> QED BY <1>2, <1>3

(* So are the rows of locations, when no block is ever dropped. *)
LEMMA LocationsAtLatest ==
    ASSUME NEW d, Tables(d), LocationsTraced(d), d.blocks # {},
           NEW n, n = LatestBlock(d).num
    PROVE  At(d.locations, n) = {row \in d.locations : Live(row)}
<1>1. n \in BlockNums /\ \A m \in Numbers(d) : m <= n
  BY Latest DEF Tables, Numbers
<1>2. \A row \in d.locations :
         row.start <= n /\ (row.end # NULL /\ n < row.end <=> Live(row))
  BY <1>1, BlockNumsAreEnds, NumbersType DEF LocationsTraced, Live, BlockNums, Tables
<1> QED BY <1>2 DEF At

(* Tables that mirror a report show it. *)
LEMMA MirrorsReport ==
    ASSUME NEW d, Tables(d), LocationsTraced(d), d.blocks # {},
           NEW report \in Reports, Mirrors(d, report)
    PROVE  Report(d) = report
<1> DEFINE n == LatestBlock(d).num
<1>1. /\ At(d.agents, n) = {row \in d.agents : Live(row)}
      /\ At(d.records, n) = {row \in d.records : Live(row)}
      /\ At(d.owners, n) = {row \in d.owners : Live(row)}
  BY AtLatest
<1>2. n \in BlockNums /\ \A m \in Numbers(d) : m <= n
  BY Latest DEF Tables, Numbers
<1>3. Report(d) = ReportAt(d, n)
  BY DEF Report
<1>4. At(d.locations, n) = {row \in d.locations : Live(row)}
  BY LocationsAtLatest
<1> HIDE DEF n
<1>5. {row.agent : row \in At(d.agents, n)} = report.agents
  BY <1>1 DEF Mirrors, LiveAgents
<1>6. \A x : Shown(d, n, x) =
                [record_id |-> x, owners |-> LiveOwners(d, x), locations |-> LiveLocations(d, x)]
  <2> SUFFICES ASSUME NEW x
               PROVE  Shown(d, n, x) =
                        [record_id |-> x, owners |-> LiveOwners(d, x),
                         locations |-> LiveLocations(d, x)]
    OBVIOUS
  <2>1. {o.owner : o \in OfRecords(At(d.owners, n), {x})} = LiveOwners(d, x)
    BY <1>1 DEF OfRecords, LiveOwners
  <2>2. {l.location : l \in OfRecords(At(d.locations, n), {x})} = LiveLocations(d, x)
    BY <1>4 DEF OfRecords, LiveLocations
  <2> QED BY <2>1, <2>2 DEF Shown
<1>7. \A r \in report.records : Shown(d, n, r.record_id) = r
  BY <1>6 DEF Mirrors, Reports, Records
<1>8. \A row \in At(d.records, n) : \E r \in report.records : r.record_id = row.record_id
  BY <1>1 DEF Mirrors, LiveRecords, IdsOf
<1>9. \A r \in report.records : \E row \in At(d.records, n) : row.record_id = r.record_id
  <2> SUFFICES ASSUME NEW r \in report.records
               PROVE  \E row \in At(d.records, n) : row.record_id = r.record_id
    OBVIOUS
  <2>1. r.record_id \in LiveRecords(d)
    BY DEF Mirrors, IdsOf
  <2> QED BY <1>1, <2>1 DEF LiveRecords
<1>10. ReportAt(d, n).records = report.records
  <2> DEFINE rows == At(d.records, n)
             all == {Shown(d, n, row.record_id) : row \in rows}
  <2>1. ASSUME NEW x \in all PROVE x \in report.records
    BY <1>7, <1>8
  <2>2. ASSUME NEW r \in report.records PROVE r \in all
    <3>1. PICK row \in rows : row.record_id = r.record_id
      BY <1>9
    <3>2. Shown(d, n, row.record_id) = r
      BY <1>7, <3>1
    <3> QED BY <3>2
  <2>3. ReportAt(d, n).records = all
    BY RecordsShown
  <2> HIDE DEF all
  <2> QED BY <2>1, <2>2, <2>3
<1>11. /\ ReportAt(d, n) = [agents  |-> {row.agent : row \in At(d.agents, n)},
                            records |-> ReportAt(d, n).records]
       /\ report = [agents |-> report.agents, records |-> report.records]
  BY DEF ReportAt, Reports
<1> QED BY <1>3, <1>5, <1>10, <1>11

(* With the tables of an unforked chain, the report is the ledger's state  *)
(* at the block reached.                                                   *)
LEMMA ReportIsState ==
    ASSUME IInv, LInv
    PROVE  Report(db) = StateUpTo(LatestNum)
<1>1. CASE db.blocks = {}
  BY <1>1 DEF Report, LatestNum, StateUpTo
<1>2. CASE db.blocks # {}
  BY <1>2, LatestOnChain, StateUpToType, MirrorsReport DEF IInv, LInv
<1> QED BY <1>1, <1>2

(* Handling a block takes the tables from the ledger before it to that after. *)
LEMMA ApplyMirrors ==
    ASSUME NEW d, Tables(d), LocationsTraced(d), NEW num \in BlockNums,
           NEW id \in BlockIds, made[id].changes \in Reports, OneEach(made[id].changes),
           ChangeCount(made[id]) # 0,
           NEW before \in Reports, Mirrors(d, before), Follows(before, made[id])
    PROVE  /\ Mirrors(apply_state_changes(d, num, id), made[id].after)
           /\ LocationsTraced(apply_state_changes(d, num, id))
           /\ apply_state_changes(d, num, id).blocks = d.blocks \cup {[num |-> num, id |-> id]}
<1> DEFINE e == apply_state_changes(d, num, id)
           agents == made[id].changes.agents
           records == made[id].changes.records
           after == made[id].after
<1>1. /\ LiveAgents(e) = agents \cup {a \in LiveAgents(d) : a.public_key \notin KeysOf(agents)}
      /\ LiveRecords(e) = LiveRecords(d) \cup IdsOf(records)
      /\ \A r \in records : /\ LiveOwners(e, r.record_id) = r.owners
                            /\ LiveLocations(e, r.record_id) = r.locations
      /\ \A x : x \notin IdsOf(records) =>
            /\ LiveOwners(e, x) = LiveOwners(d, x)
            /\ LiveLocations(e, x) = LiveLocations(d, x)
  BY LiveAfter DEF Tables
<1>2. /\ \A a \in before.agents : a.public_key \notin KeysOf(agents)
      /\ after.agents = before.agents \cup agents
      /\ after.records =
            {r \in before.records : r.record_id \notin IdsOf(records)} \cup records
      /\ IdsOf(before.records) \subseteq IdsOf(after.records)
  BY DEF Follows
<1>3. /\ e.blocks = d.blocks \cup {[num |-> num, id |-> id]}
      /\ e.locations = Close(d.locations, OfRecords(d.locations, IdsOf(records)), num)
                         \cup NewLocations(records, num)
  BY ApplyParts DEF Tables
<1> HIDE DEF e, agents, records, after
<1>4. LiveAgents(e) = after.agents
  BY <1>1, <1>2 DEF Mirrors
<1>5. LiveRecords(e) = IdsOf(after.records)
  <2>1. IdsOf(after.records) = IdsOf(before.records) \cup IdsOf(records)
    <3>1. IdsOf(records) \subseteq IdsOf(after.records)
      BY <1>2 DEF IdsOf
    <3>2. IdsOf(after.records) \subseteq IdsOf(before.records) \cup IdsOf(records)
      BY <1>2 DEF IdsOf
    <3> QED BY <1>2, <3>1, <3>2
  <2> QED BY <1>1, <2>1 DEF Mirrors
<1>6. ASSUME NEW r \in after.records
      PROVE  /\ LiveOwners(e, r.record_id) = r.owners
             /\ LiveLocations(e, r.record_id) = r.locations
  <2>1. CASE r \in records
    BY <1>1, <2>1
  <2>2. CASE r \in before.records /\ r.record_id \notin IdsOf(records)
    BY <1>1, <2>2 DEF Mirrors
  <2> QED BY <1>2, <2>1, <2>2
<1>7. LocationsTraced(e)
  <2>1. Numbers(e) = Numbers(d) \cup {num}
    <3> DEFINE b == [num |-> num, id |-> id]
    <3>1. /\ b \in e.blocks /\ b.num = num
          /\ d.blocks \subseteq e.blocks
          /\ \A x \in e.blocks : x \in d.blocks \/ x = b
      BY <1>3
    <3> HIDE DEF b
    <3> QED BY <3>1 DEF Numbers
  <2> SUFFICES ASSUME NEW l \in e.locations
               PROVE  /\ l.start \in Numbers(e)
                      /\ l.end \in Numbers(e) \cup {MAX_BLOCK_NUMBER}
    BY DEF LocationsTraced
  <2>2. CASE l \in NewLocations(records, num)
    BY <2>1, <2>2 DEF NewLocations
  <2>3. CASE l \in d.locations
    BY <2>1, <2>3 DEF LocationsTraced
  <2>4. CASE \E old \in OfRecords(d.locations, IdsOf(records)) : l = [old EXCEPT !.end = num]
    <3>1. PICK old \in d.locations : l = [old EXCEPT !.end = num]
      BY <2>4 DEF OfRecords
    <3>2. old \in LocationRows
      BY DatabaseParts DEF Tables
    <3>3. l.start = old.start /\ l.end = num
      BY <3>1, <3>2 DEF LocationRows
    <3> QED BY <2>1, <3>3 DEF LocationsTraced
  <2> QED BY <1>3, <2>2, <2>3, <2>4, InClose
<1> QED BY <1>3, <1>4, <1>5, <1>6, <1>7 DEF Mirrors, e, after

-----------------------------------------------------------------------------
(* The chain grows, the subscriber starts, dies and hears a block again *)

(* The invariant of unforked chains holds at the start.                    *)
LEMMA LInvInit == Init => LInv
<1> SUFFICES ASSUME Init PROVE LInv
  OBVIOUS
<1>1. /\ made = << >> /\ chain = << >> /\ mode = "down"
      /\ db = [blocks |-> {}, agents |-> {}, records |-> {}, owners |-> {}, locations |-> {}]
  BY DEF Init, EmptyDatabase
<1>2. LatestNum = 0 /\ StateUpTo(0) = EmptyReport
  BY <1>1 DEF LatestNum, StateUpTo
<1>3. LinearChain
  BY <1>1 DEF LinearChain
<1>4. LocationsTraced(db) /\ RecordedUpToLatest
  BY <1>1 DEF LocationsTraced, RecordedUpToLatest
<1>5. Mirrors(db, EmptyReport)
  BY <1>1 DEF Mirrors, EmptyReport, LiveAgents, LiveRecords, IdsOf
<1>6. NothingMissing
  BY <1>1 DEF NothingMissing
<1> QED BY <1>2, <1>3, <1>4, <1>5, <1>6 DEF LInv

(* Without forks the chain holds every block made.                         *)
LEMMA ChainIsAll ==
    ASSUME IInv, LinearChain
    PROVE  /\ IsChain(chain)
           /\ StateAfter(chain) = StateUpTo(Len(made))
           /\ Len(made) \in Nat /\ Len(chain) = Len(made)
           /\ DOMAIN made = 1 .. Len(made) /\ DOMAIN chain = DOMAIN made
           /\ \A n \in 0 .. Len(made) :
                 IdsOf(StateUpTo(n).records) \subseteq IdsOf(StateUpTo(Len(made)).records)
<1>1. /\ Len(made) \in Nat /\ Len(chain) = Len(made) /\ IsChain(chain)
      /\ DOMAIN made = 1 .. Len(made) /\ DOMAIN chain = DOMAIN made
      /\ chain \in Seq(DOMAIN made)
  BY DEF IInv, TypeOK, BlocksMade, LinearChain, IsChain
<1>2. StateAfter(chain) = StateUpTo(Len(made))
  <2>1. CASE Len(made) = 0
    BY <1>1, <2>1 DEF StateAfter, StateUpTo
  <2>2. CASE Len(made) # 0
    BY <1>1, <2>2 DEF StateAfter, StateUpTo, LinearChain
  <2> QED BY <2>1, <2>2
<1>3. ASSUME NEW n \in 0 .. Len(made)
      PROVE  IdsOf(StateUpTo(n).records) \subseteq IdsOf(StateUpTo(Len(made)).records)
  <2>1. CASE n = 0
    BY <2>1 DEF StateUpTo, EmptyReport, IdsOf
  <2>2. CASE n # 0
    <3> DEFINE m == Len(made)
    <3>1. n \in DOMAIN made /\ m \in DOMAIN made /\ n <= m
      BY <1>1, <2>2
    <3>2. IdsOf(made[n].after.records) \subseteq IdsOf(made[m].after.records)
      BY <3>1 DEF LinearChain
    <3>3. m # 0
      BY <1>1, <2>2
    <3> QED BY <2>2, <3>2, <3>3 DEF StateUpTo
  <2> QED BY <2>1, <2>2
<1> QED BY <1>1, <1>2, <1>3

(* The next block of an unforked chain.                                    *)
LEMMA NextBlockType ==
    ASSUME IInv, LinearChain
    PROVE  NextBlock \in 1 .. Len(made) + 1
<1>1. CASE pending = << >>
  BY <1>1, ChainIsAll DEF NextBlock
<1>2. CASE pending # << >>
  <2>1. Head(pending) \in DOMAIN made
    BY <1>2 DEF IInv, TypeOK
  <2> QED BY <1>2, <2>1, ChainIsAll DEF NextBlock
<1> QED BY <1>1, <1>2

(* A block that follows keeps the invariant of unforked chains.            *)
LEMMA GrowKeeps ==
    ASSUME Linear, IInv, LInv, NEW block \in Successors(chain), Extend(chain, block)
    PROVE  LInv'
<1> DEFINE top == Len(made)
           id == top + 1
<1>1. /\ made' = Append(made, block)
      /\ chain' = Append(chain, id)
      /\ pending' = IF mode = "subscribed" THEN Append(pending, id) ELSE pending
      /\ mode' = mode /\ db' = db /\ top < MaxBlocks
  BY DEF Extend
<1>2. /\ top \in Nat /\ Len(chain) = top /\ IsChain(chain) /\ DOMAIN made = 1 .. top
      /\ StateAfter(chain) = StateUpTo(top)
      /\ \A n \in 0 .. top : IdsOf(StateUpTo(n).records) \subseteq IdsOf(StateUpTo(top).records)
      /\ chain \in Seq(Nat)
  <2>1. chain \in Seq(Nat)
    BY ChainIsAll DEF IsChain, LInv
  <2> QED BY <2>1, ChainIsAll DEF LInv
<1>3. /\ block \in Blocks
      /\ block.num = id
      /\ Follows(StateUpTo(top), block)
      /\ ChangeCount(block) <= 1
  <2>1. /\ block \in Blocks
        /\ block.num = id
        /\ Follows(StateUpTo(top), block)
        /\ ChangeCount(block) <= MaxChanges
    BY <1>1, <1>2, SuccessorsOK DEF IInv
  <2>2. ChangeCount(block) \in Nat /\ MaxChanges \in Nat /\ MaxChanges <= 1
    BY <2>1, NoChanges DEF Linear
  <2> QED BY <2>1, <2>2
<1>4. /\ Len(made') = id
      /\ DOMAIN made' = DOMAIN made \cup {id}
      /\ made'[id] = block
      /\ \A n \in DOMAIN made : made'[n] = made[n]
  BY <1>1, <1>3, MadeGrows DEF IInv
<1>5. /\ LatestNum \in 0 .. top
      /\ \A b \in db.blocks : b.id = b.num /\ b.num \in DOMAIN made
  BY LatestOnChain DEF LInv
<1>6. LatestNum' = LatestNum
  BY <1>1 DEF LatestNum, LatestBlock
<1>7. \A n \in 0 .. top : StateUpTo(n)' = StateUpTo(n)
  BY <1>2, <1>4 DEF StateUpTo
<1> HIDE DEF top, id
<1>8. LinearChain'
  <2>1. Len(chain') = Len(made')
    BY <1>1, <1>2, <1>4 DEF id
  <2>2. ASSUME NEW n \in DOMAIN made'
        PROVE  /\ chain'[n] = n /\ made'[n].num = n
               /\ Follows(StateUpTo(n - 1)', made'[n])
               /\ ChangeCount(made'[n]) <= 1
    <3>1. CASE n \in DOMAIN made
      <4>1. StateUpTo(n - 1)' = StateUpTo(n - 1)
        BY <1>2, <1>7, <3>1
      <4>2. made'[n] = made[n] /\ chain'[n] = chain[n]
        BY <1>1, <1>2, <1>4, <3>1
      <4> QED BY <3>1, <4>1, <4>2 DEF LInv, LinearChain
    <3>2. CASE n = id
      <4>1. n - 1 = top /\ chain'[n] = id
        BY <1>1, <1>2, <3>2 DEF id
      <4>2. StateUpTo(n - 1)' = StateUpTo(top)
        BY <1>2, <1>7, <4>1
      <4> QED BY <1>3, <1>4, <3>2, <4>1, <4>2
    <3> QED BY <1>4, <3>1, <3>2
  <2>3. ASSUME NEW n \in DOMAIN made', NEW m \in DOMAIN made', n <= m
        PROVE  IdsOf(made'[n].after.records) \subseteq IdsOf(made'[m].after.records)
    <3>1. CASE n \in DOMAIN made /\ m \in DOMAIN made
      BY <1>4, <2>3, <3>1 DEF LInv, LinearChain
    <3>2. CASE n \in DOMAIN made /\ m = id
      <4>1. IdsOf(StateUpTo(n).records) \subseteq IdsOf(StateUpTo(top).records)
        BY <1>2, <3>2
      <4>2. IdsOf(StateUpTo(top).records) \subseteq IdsOf(block.after.records)
        BY <1>3 DEF Follows
      <4>3. StateUpTo(n) = made[n].after
        BY <1>2, <3>2 DEF StateUpTo
      <4> QED BY <1>4, <3>2, <4>1, <4>2, <4>3
    <3>3. CASE n = id /\ m = id
      BY <3>3
    <3>4. CASE n = id /\ m \in DOMAIN made
      BY <1>2, <2>3, <3>4 DEF id
    <3> QED BY <1>4, <3>1, <3>2, <3>3, <3>4
  <2> QED BY <2>1, <2>2, <2>3 DEF LinearChain, Follows, IdsOf, KeysOf, ChangeCount, EmptyReport
<1>9. LocationsTraced(db)'
  BY <1>1 DEF LInv, LocationsTraced, Numbers
<1>10. Mirrors(db, StateUpTo(LatestNum))'
  <2>1. StateUpTo(LatestNum)' = StateUpTo(LatestNum)
    BY <1>5, <1>6, <1>7 DEF StateUpTo
  <2> QED BY <1>1, <2>1
          DEF LInv, Mirrors, LiveAgents, LiveRecords, LiveOwners, LiveLocations, IdsOf
<1>11. RecordedUpToLatest'
  <2>1. \A b \in db'.blocks : b.id = b.num /\ b.num \in DOMAIN made'
    BY <1>1, <1>4, <1>5
  <2>2. ASSUME NEW n \in DOMAIN made', n <= LatestNum', ChangeCount(made'[n]) > 0
        PROVE  n \in Numbers(db)'
    <3>1. n \in DOMAIN made
      BY <1>2, <1>4, <1>5, <1>6, <2>2 DEF id
    <3> QED BY <1>1, <1>4, <1>6, <2>2, <3>1 DEF LInv, RecordedUpToLatest, Numbers
  <2> QED BY <2>1, <2>2 DEF RecordedUpToLatest, ChangeCount
<1>12. NothingMissing'
  <2> SUFFICES ASSUME mode = "subscribed"
               PROVE  /\ pending' # << >> => pending'[Len(pending')] = Len(chain')
                      /\ \A i \in 1 .. Len(pending') - 1 : pending'[i + 1] <= pending'[i] + 1
                      /\ \A n \in DOMAIN made' : LatestNum' <= n /\ n < NextBlock' =>
                            /\ StateUpTo(n)' = StateUpTo(LatestNum)'
                            /\ n # LatestNum' => ChangeCount(made[n])' = 0
    BY <1>1 DEF NothingMissing
  <2>0. pending \in Seq(Nat) /\ NextBlock \in 1 .. top + 1
    <3>1. pending \in Seq(DOMAIN made)
      BY DEF IInv, TypeOK
    <3> QED BY <1>2, <3>1, NextBlockType DEF LInv, top
  <2>1. /\ pending # << >> => pending[Len(pending)] = top
        /\ \A i \in 1 .. Len(pending) - 1 : pending[i + 1] <= pending[i] + 1
        /\ \A n \in DOMAIN made : LatestNum <= n /\ n < NextBlock =>
              /\ StateUpTo(n) = StateUpTo(LatestNum)
              /\ n # LatestNum => ChangeCount(made[n]) = 0
    BY <1>2 DEF LInv, NothingMissing
  <2>2. pending' = Append(pending, id)
    BY <1>1
  <2>3. pending'[Len(pending')] = Len(chain')
    BY <1>1, <1>2, <2>0, <2>2 DEF id
  <2>4. ASSUME NEW i \in 1 .. Len(pending') - 1
        PROVE  pending'[i + 1] <= pending'[i] + 1
    <3>1. CASE i < Len(pending)
      <4>1. i \in 1 .. Len(pending) - 1
        BY <2>0, <2>2, <3>1
      <4>2. pending'[i] = pending[i] /\ pending'[i + 1] = pending[i + 1]
        BY <2>0, <2>2, <4>1
      <4> QED BY <2>1, <4>1, <4>2
    <3>2. CASE i = Len(pending)
      BY <1>2, <2>0, <2>1, <2>2, <3>2 DEF id
    <3> QED BY <2>0, <2>2, <3>1, <3>2
  <2>5. NextBlock' = NextBlock
    BY <1>1, <1>2, <2>0, <2>2 DEF NextBlock, id
  <2>6. ASSUME NEW n \in DOMAIN made', LatestNum' <= n, n < NextBlock'
        PROVE  /\ StateUpTo(n)' = StateUpTo(LatestNum)'
               /\ n # LatestNum' => ChangeCount(made[n])' = 0
    <3>1. n \in DOMAIN made
      BY <1>2, <1>4, <2>0, <2>5, <2>6 DEF id
    <3>2. StateUpTo(n)' = StateUpTo(n) /\ StateUpTo(LatestNum)' = StateUpTo(LatestNum)
      BY <1>2, <1>5, <1>6, <1>7, <3>1 DEF StateUpTo
    <3>3. ChangeCount(made[n])' = ChangeCount(made[n])
      BY <1>4, <3>1 DEF ChangeCount
    <3> QED BY <1>6, <2>1, <2>5, <2>6, <3>1, <3>2, <3>3
  <2> QED BY <2>3, <2>4, <2>6
<1> QED BY <1>8, <1>9, <1>10, <1>11, <1>12 DEF LInv

(* Steps that neither make a block nor write a table. *)
LEMMA TablesStay ==
    ASSUME LInv, UNCHANGED <<made, chain, db>>
    PROVE  /\ LatestNum' = LatestNum
           /\ \A n : StateUpTo(n)' = StateUpTo(n)
           /\ NothingMissing' => LInv'
<1>1. LatestNum' = LatestNum
  BY DEF LatestNum, LatestBlock
<1>2. \A n : StateUpTo(n)' = StateUpTo(n)
  BY DEF StateUpTo
<1>3. LinearChain'
  BY DEF LInv, LinearChain, Follows, IdsOf, KeysOf, ChangeCount, StateUpTo
<1>4. LocationsTraced(db)'
  BY DEF LInv, LocationsTraced, Numbers
<1>5. Mirrors(db, StateUpTo(LatestNum))'
  <2>1. StateUpTo(LatestNum)' = StateUpTo(LatestNum)
    BY <1>1 DEF StateUpTo
  <2> QED BY <2>1 DEF LInv, Mirrors, LiveAgents, LiveRecords, LiveOwners, LiveLocations, IdsOf
<1>6. RecordedUpToLatest'
  BY <1>1 DEF LInv, RecordedUpToLatest, Numbers, ChangeCount
<1> QED BY <1>1, <1>2, <1>3, <1>4, <1>5, <1>6 DEF LInv

(* The events after the latest recorded block are all that is missing. *)
LEMMA SentFromLatest ==
    ASSUME IInv, LInv, UNCHANGED <<made, chain, db>>, pending' = Sent(LatestNum)
    PROVE  LInv'
<1> DEFINE top == Len(made)
           L == LatestNum
<1>1. /\ top \in Nat /\ Len(chain) = top /\ chain \in Seq(Nat) /\ \A n \in 1 .. top : chain[n] = n
      /\ L \in 0 .. top
  <2>1. top \in Nat /\ Len(chain) = top /\ chain \in Seq(DOMAIN made) /\ DOMAIN made = 1 .. top
    BY ChainIsAll DEF LInv, IsChain
  <2>2. L \in 0 .. top
    BY LatestOnChain DEF LInv
  <2> QED BY <2>1, <2>2 DEF LInv, LinearChain
<1>2. pending' = SubSeq(chain, L + 1, top)
  BY <1>1 DEF Sent
<1>3. LatestNum' = L /\ \A n : StateUpTo(n)' = StateUpTo(n)
  BY TablesStay
<1> HIDE DEF top, L
<1>4. /\ Len(pending') = top - L
      /\ \A i \in 1 .. top - L : pending'[i] = L + i
  BY <1>1, <1>2
<1>5. NextBlock' = L + 1
  <2>1. CASE L = top
    <3>1. pending' = << >>
      BY <1>1, <1>2, <2>1
    <3> QED BY <1>1, <2>1, <3>1 DEF NextBlock
  <2>2. CASE L # top
    <3>1. 1 \in 1 .. top - L
      BY <1>1, <2>2
    <3>2. pending' # << >> /\ pending'[1] = L + 1
      BY <1>1, <1>4, <3>1
    <3>3. Head(pending') = pending'[1]
      <4>1. pending' \in Seq(Nat)
        BY <1>1, <1>2
      <4> QED BY <3>2, <4>1
    <3> QED BY <3>2, <3>3 DEF NextBlock
  <2> QED BY <2>1, <2>2
<1>6. NothingMissing'
  <2>1. pending' # << >> => pending'[Len(pending')] = Len(chain')
    <3> SUFFICES ASSUME L # top PROVE pending'[Len(pending')] = Len(chain')
      BY <1>1, <1>2
    <3> QED BY <1>1, <1>4
  <2>2. \A i \in 1 .. Len(pending') - 1 : pending'[i + 1] <= pending'[i] + 1
    BY <1>1, <1>4
  <2>3. ASSUME NEW n \in DOMAIN made', LatestNum' <= n, n < NextBlock'
        PROVE  StateUpTo(n)' = StateUpTo(LatestNum)' /\ n = LatestNum'
    <3>0. n \in DOMAIN made /\ L <= n /\ n < L + 1
      BY <1>3, <1>5, <2>3
    <3>1. n = L
      <4>1. n \in Nat
        BY <3>0, ChainIsAll DEF LInv
      <4> QED BY <1>1, <3>0, <4>1
    <3> QED BY <1>3, <3>1 DEF StateUpTo
  <2> QED BY <2>1, <2>2, <2>3 DEF NothingMissing
<1> QED BY <1>6, TablesStay

(* The latest recorded block is among those the subscriber names. *)
LEMMA KnownIsLatest ==
    ASSUME IInv, LInv
    PROVE  /\ \A n \in KnownOnChain : n <= LatestNum
           /\ KnownOnChain = {} => LatestNum = 0
           /\ \A n \in KnownOnChain : LatestNum \in KnownOnChain
<1> DEFINE row == LatestBlock(db)
<1>1. \A n \in KnownOnChain : n \in Numbers(db)
  BY DEF KnownOnChain, fetch_last_known_blocks, Numbers
<1>2. ASSUME db.blocks # {}
      PROVE  LatestNum \in KnownOnChain
  <2>1. row \in db.blocks /\ LatestNum = row.num /\ row.num \in DOMAIN made /\ row.id = row.num
    BY <1>2, LatestOnChain DEF LInv
  <2> HIDE DEF row
  <2>2. {other \in db.blocks : other.num > row.num} = {}
    <3>1. \A other \in db.blocks : other.num \in Nat /\ other.num <= row.num
      BY <2>1, LatestOnChain DEF LInv, Numbers
    <3>2. row.num \in Nat
      BY <2>1, <3>1
    <3> QED BY <3>1, <3>2
  <2>3. Cardinality({other \in db.blocks : other.num > row.num}) < KNOWN_COUNT
    BY <2>2, FS_EmptySet
  <2>4. row \in fetch_last_known_blocks(db, KNOWN_COUNT)
    BY <2>1, <2>3 DEF fetch_last_known_blocks
  <2>5. row.num <= Len(chain) /\ chain[row.num] = row.id
    BY <2>1, ChainIsAll DEF LInv, LinearChain
  <2> QED BY <2>1, <2>4, <2>5 DEF KnownOnChain
<1>3. db.blocks = {} => LatestNum = 0 /\ KnownOnChain = {}
  BY <1>1, LatestOnChain DEF LInv, Numbers
<1> QED BY <1>1, <1>2, <1>3, LatestOnChain DEF LInv

(* A list of blocks whose numbers do not leap, and its rest. *)
LEMMA RestOfList ==
    ASSUME NEW q \in Seq(Nat), q # << >>,
           \A i \in 1 .. Len(q) - 1 : q[i + 1] <= q[i] + 1
    PROVE  /\ Tail(q) \in Seq(Nat)
           /\ Head(q) = q[1] /\ Head(q) \in Nat
           /\ Tail(q) # << >> => /\ Tail(q)[Len(Tail(q))] = q[Len(q)]
                                 /\ Head(Tail(q)) <= Head(q) + 1
           /\ Tail(q) = << >> => Head(q) = q[Len(q)]
           /\ \A i \in 1 .. Len(Tail(q)) - 1 : Tail(q)[i + 1] <= Tail(q)[i] + 1
<1> DEFINE r == Tail(q)
           n == Len(q)
<1>1. /\ n \in Nat /\ n >= 1 /\ r \in Seq(Nat) /\ Len(r) = n - 1
      /\ Head(q) = q[1] /\ q[1] \in Nat
  OBVIOUS
<1>2. \A i \in Nat : i >= 1 /\ i <= n - 1 => r[i] = q[i + 1]
  OBVIOUS
<1> HIDE DEF r, n
<1>3. r # << >> => n - 1 >= 1
  BY <1>1
<1>4. r = << >> => n = 1
  BY <1>1
<1>5. r # << >> => r[n - 1] = q[n]
  <2>1. (n - 1) + 1 = n /\ n - 1 \in Int
    BY <1>1
  <2> QED BY <1>1, <1>2, <1>3, <2>1
<1>6. r # << >> => Head(r) <= Head(q) + 1
  <2> SUFFICES ASSUME r # << >> PROVE Head(r) <= Head(q) + 1
    OBVIOUS
  <2>1. Head(r) = r[1]
    BY <1>1
  <2>2. r[1] = q[2]
    BY <1>1, <1>2, <1>3
  <2>3. q[2] <= q[1] + 1
    <3>1. 1 \in 1 .. n - 1 /\ 1 + 1 = 2
      BY <1>1, <1>3
    <3> QED BY <3>1 DEF n
  <2> QED BY <1>1, <2>1, <2>2, <2>3
<1>7. ASSUME NEW i \in 1 .. Len(r) - 1
      PROVE  r[i + 1] <= r[i] + 1
  <2>1. /\ i \in Nat /\ i >= 1 /\ i <= n - 1 /\ i + 1 \in Nat /\ i + 1 >= 1 /\ i + 1 <= n - 1
        /\ i + 1 \in 1 .. n - 1
    BY <1>1
  <2>2. r[i] = q[i + 1] /\ r[i + 1] = q[(i + 1) + 1]
    BY <1>2, <2>1
  <2> QED BY <2>1, <2>2 DEF n
<1> QED BY <1>1, <1>4, <1>5, <1>6, <1>7 DEF r, n

(* The events that come are those of the next block. *)
LEMMA Received ==
    ASSUME IInv, LInv, NEW id \in DOMAIN made, NEW num, num = made[id].num, Receive(num, id)
    PROVE  /\ num = id /\ num = NextBlock /\ num \in Nat /\ num # 0 /\ num <= Len(made)
           /\ UNCHANGED <<made, chain, forks, mode>> /\ mode = "subscribed"
           /\ NextBlock' \in Nat /\ NextBlock' <= num + 1
           /\ pending' # << >> => pending'[Len(pending')] = Len(chain)
           /\ \A i \in 1 .. Len(pending') - 1 : pending'[i + 1] <= pending'[i] + 1
<1>1. /\ pending # << >> /\ id = Head(pending) /\ pending' = Tail(pending)
      /\ mode = "subscribed" /\ UNCHANGED <<made, chain, forks, mode>>
  BY DEF Receive
<1>2. num = id /\ num \in Nat /\ num # 0 /\ num <= Len(made) /\ Len(made) \in Nat
      /\ Len(chain) = Len(made)
  BY ChainIsAll DEF LInv, LinearChain
<1>3. pending \in Seq(Nat)
  <2>1. pending \in Seq(DOMAIN made) /\ DOMAIN made = 1 .. Len(made)
    BY ChainIsAll DEF IInv, TypeOK, LInv
  <2> QED BY <2>1
<1>4. /\ pending[Len(pending)] = Len(chain)
      /\ \A i \in 1 .. Len(pending) - 1 : pending[i + 1] <= pending[i] + 1
  BY <1>1 DEF LInv, NothingMissing
<1>5. /\ pending' \in Seq(Nat)
      /\ pending' # << >> => /\ pending'[Len(pending')] = Len(chain)
                             /\ Head(pending') <= num + 1
      /\ pending' = << >> => num = Len(chain)
      /\ \A i \in 1 .. Len(pending') - 1 : pending'[i + 1] <= pending'[i] + 1
  BY <1>1, <1>2, <1>3, <1>4, RestOfList
<1>6. NextBlock' \in Nat /\ NextBlock' <= num + 1
  <2>1. CASE pending' = << >>
    BY <1>1, <1>2, <1>5, <2>1 DEF NextBlock
  <2>2. CASE pending' # << >>
    BY <1>5, <2>2 DEF NextBlock
  <2> QED BY <2>1, <2>2
<1> QED BY <1>1, <1>2, <1>5, <1>6 DEF NextBlock

(* A block heard before, or one that changes nothing. *)
LEMMA PassOver ==
    ASSUME IInv, LInv, NEW id \in DOMAIN made, NEW num, num = made[id].num, Receive(num, id),
           db' = db,
           num \in Numbers(db) \/ ChangeCount(made[id]) = 0
    PROVE  LInv'
<1> DEFINE L == LatestNum
<1>1. /\ num = id /\ num = NextBlock /\ num \in Nat /\ num # 0 /\ num <= Len(made)
      /\ UNCHANGED <<made, chain, forks, mode>> /\ mode = "subscribed"
      /\ NextBlock' \in Nat /\ NextBlock' <= num + 1
      /\ pending' # << >> => pending'[Len(pending')] = Len(chain)
      /\ \A i \in 1 .. Len(pending') - 1 : pending'[i + 1] <= pending'[i] + 1
  BY Received
<1>2. /\ L \in 0 .. Len(made) /\ Len(made) \in Nat /\ DOMAIN made = 1 .. Len(made)
      /\ num \in Numbers(db) => num <= L
  BY LatestOnChain DEF LInv
<1>3. LatestNum' = L /\ (\A n : StateUpTo(n)' = StateUpTo(n)) /\ (NothingMissing' => LInv')
  BY <1>1, TablesStay
<1>4. \A n \in DOMAIN made : L <= n /\ n < num =>
         StateUpTo(n) = StateUpTo(L) /\ (n # L => ChangeCount(made[n]) = 0)
  BY <1>1 DEF LInv, NothingMissing
<1>5. ASSUME NEW n \in DOMAIN made, L <= n, n < NextBlock'
      PROVE  StateUpTo(n) = StateUpTo(L) /\ (n # L => ChangeCount(made[n]) = 0)
  <2>1. CASE n < num
    BY <1>4, <1>5, <2>1
  <2>2. CASE n = L
    BY <2>2
  <2>3. CASE n = num /\ n # L
    <3>1. num \notin Numbers(db)
      BY <1>2, <1>5, <2>3
    <3>2. ChangeCount(made[num]) = 0 /\ made[num] \in Blocks
      BY <1>1, <3>1 DEF IInv, TypeOK
    <3>3. Follows(StateUpTo(num - 1), made[num])
      BY <1>1, <1>2 DEF LInv, LinearChain
    <3>4. StateUpTo(num) = StateUpTo(num - 1)
      BY <1>1, <3>2, <3>3, NoChanges DEF Follows, StateUpTo
    <3>5. StateUpTo(num - 1) = StateUpTo(L)
      <4>1. CASE num - 1 = L
        BY <4>1
      <4>2. CASE num - 1 # L
        <5>1. num - 1 \in DOMAIN made /\ L <= num - 1 /\ num - 1 < num
          BY <1>1, <1>2, <1>5, <2>3, <4>2
        <5> QED BY <1>4, <5>1
      <4> QED BY <4>1, <4>2
    <3> QED BY <2>3, <3>2, <3>4, <3>5
  <2> QED BY <1>1, <1>2, <1>5, <2>1, <2>2, <2>3
<1> HIDE DEF L
<1>6. NothingMissing'
  <2>1. \A n \in DOMAIN made' : LatestNum' <= n /\ n < NextBlock' =>
           /\ StateUpTo(n)' = StateUpTo(LatestNum)'
           /\ n # LatestNum' => ChangeCount(made[n])' = 0
    BY <1>1, <1>3, <1>5 DEF ChangeCount, StateUpTo
  <2> QED BY <1>1, <2>1 DEF NothingMissing
<1> QED BY <1>3, <1>6

(* A block with changes that is new is the next one to record. *)
LEMMA NextToRecord ==
    ASSUME IInv, LInv, NEW id \in DOMAIN made, NEW num, num = made[id].num, Receive(num, id),
           ~IsDuplicate(num, id), ChangeCount(made[id]) # 0
    PROVE  /\ LatestNum < num
           /\ num \notin Numbers(db)
           /\ ~IsFork(num, id)
           /\ StateUpTo(num - 1) = StateUpTo(LatestNum)
           /\ \A n \in DOMAIN made : LatestNum < n /\ n < num =>
                 ChangeCount(made[n]) = 0 /\ StateUpTo(n) = StateUpTo(LatestNum)
<1> DEFINE L == LatestNum
<1>1. num = id /\ num = NextBlock /\ num \in Nat /\ num # 0 /\ num <= Len(made)
      /\ mode = "subscribed"
  BY Received
<1>2. /\ L \in 0 .. Len(made) /\ Len(made) \in Nat /\ DOMAIN made = 1 .. Len(made)
      /\ \A b \in db.blocks : b.id = b.num
  BY LatestOnChain DEF LInv
<1>3. \A b \in db.blocks : b.num # num
  BY <1>1, <1>2 DEF IsDuplicate, fetch_block
<1>4. num \notin Numbers(db) /\ ~IsFork(num, id)
  BY <1>3 DEF Numbers, IsFork, fetch_block
<1>5. L < num
  <2>1. ChangeCount(made[num]) \in Nat
    <3>1. made[num] \in Blocks
      BY <1>1 DEF IInv, TypeOK
    <3> QED BY <3>1, NoChanges
  <2>2. ~(num <= L)
    BY <1>1, <1>4, <2>1 DEF LInv, RecordedUpToLatest
  <2> QED BY <1>1, <1>2, <2>2
<1>6. \A n \in DOMAIN made : L <= n /\ n < num =>
         StateUpTo(n) = StateUpTo(L) /\ (n # L => ChangeCount(made[n]) = 0)
  BY <1>1 DEF LInv, NothingMissing
<1> HIDE DEF L
<1>7. StateUpTo(num - 1) = StateUpTo(L)
  <2>1. CASE num - 1 = L
    BY <2>1
  <2>2. CASE num - 1 # L
    <3>1. num - 1 \in DOMAIN made /\ L <= num - 1 /\ num - 1 < num
      BY <1>1, <1>2, <1>5, <2>2
    <3> QED BY <1>6, <3>1
  <2> QED BY <2>1, <2>2
<1>8. \A n \in DOMAIN made : L < n /\ n < num =>
         ChangeCount(made[n]) = 0 /\ StateUpTo(n) = StateUpTo(L)
  BY <1>2, <1>6
<1> QED BY <1>4, <1>5, <1>7, <1>8 DEF L

(* Recording it makes it the latest block, and shows the ledger after it. *)
LEMMA RecordBlock ==
    ASSUME Linear, IInv, IInv', LInv, NEW id \in DOMAIN made, NEW num, num = made[id].num,
           HandleBlock(num, id), ChangeCount(made[id]) # 0
    PROVE  LInv' /\ LatestNum' = num /\ Report(db') = made[id].after
<1> DEFINE L == LatestNum
<1>0. Receive(num, id) /\ ~IsDuplicate(num, id)
  BY DEF HandleBlock
<1>1. /\ num = id /\ num = NextBlock /\ num \in Nat /\ num # 0 /\ num <= Len(made)
      /\ UNCHANGED <<made, chain, forks, mode>> /\ mode = "subscribed"
      /\ NextBlock' \in Nat /\ NextBlock' <= num + 1
      /\ pending' # << >> => pending'[Len(pending')] = Len(chain)
      /\ \A i \in 1 .. Len(pending') - 1 : pending'[i + 1] <= pending'[i] + 1
  BY <1>0, Received
<1>2. /\ L \in 0 .. Len(made) /\ Len(made) \in Nat /\ DOMAIN made = 1 .. Len(made)
      /\ \A n \in Numbers(db) : n <= L
      /\ \A b \in db.blocks : b.num \in DOMAIN made /\ b.id = b.num
  BY LatestOnChain DEF LInv
<1>3. /\ L < num /\ ~IsFork(num, id) /\ StateUpTo(num - 1) = StateUpTo(L)
      /\ \A n \in DOMAIN made : L < n /\ n < num => ChangeCount(made[n]) = 0
  BY <1>0, NextToRecord
<1>4. db' = apply_state_changes(db, num, id)
  BY <1>3 DEF HandleBlock, Resolved
<1>5. /\ num \in BlockNums /\ id \in BlockIds
      /\ made[id].changes \in Reports /\ OneEach(made[id].changes)
  BY BlockParts DEF IInv
<1>6. StateUpTo(L) \in Reports /\ Mirrors(db, StateUpTo(L)) /\ LocationsTraced(db) /\ Tables(db)
  BY <1>2, StateUpToType DEF LInv, IInv
<1>7. Follows(StateUpTo(L), made[id])
  BY <1>1, <1>3 DEF LInv, LinearChain
<1>8. /\ Mirrors(db', made[id].after)
      /\ LocationsTraced(db')
      /\ db'.blocks = db.blocks \cup {[num |-> num, id |-> id]}
  BY <1>4, <1>5, <1>6, <1>7, ApplyMirrors
<1> HIDE DEF L
<1>9. Numbers(db') = Numbers(db) \cup {num}
  <2> DEFINE b == [num |-> num, id |-> id]
  <2>1. /\ b \in db'.blocks /\ b.num = num /\ db.blocks \subseteq db'.blocks
        /\ \A x \in db'.blocks : x \in db.blocks \/ x = b
    BY <1>8
  <2> HIDE DEF b
  <2> QED BY <2>1 DEF Numbers
<1>10. LatestNum' = num
  <2>1. db' \in Databases /\ db'.blocks # {}
    BY <1>8 DEF IInv, Tables
  <2>2. /\ LatestBlock(db') \in db'.blocks
        /\ \A b \in db'.blocks : b.num <= LatestBlock(db').num
    BY <2>1, Latest
  <2>3. /\ LatestBlock(db').num \in Numbers(db')
        /\ \A n \in Numbers(db') : n <= LatestBlock(db').num
    BY <2>2 DEF Numbers
  <2>4. LatestBlock(db').num = num
    <3> DEFINE top == LatestBlock(db').num
    <3>1. \A n \in Numbers(db) : n < num
      <4>1. Numbers(db) \subseteq Nat
        BY <1>2 DEF Numbers
      <4> QED BY <1>1, <1>2, <1>3, <4>1
    <3>2. num <= top
      BY <1>9, <2>3
    <3>3. top \in Numbers(db) => top < num /\ top \in Nat
      BY <1>2, <3>1 DEF Numbers
    <3>4. top \in Numbers(db) \/ top = num
      BY <1>9, <2>3
    <3> HIDE DEF top
    <3>5. top = num
      BY <1>1, <3>2, <3>3, <3>4
    <3> QED BY <3>5 DEF top
  <2> QED BY <2>1, <2>4 DEF LatestNum, LatestBlock
<1>11. \A n : StateUpTo(n)' = StateUpTo(n)
  BY <1>1 DEF StateUpTo
<1>12. LinearChain'
  BY <1>1 DEF LInv, LinearChain, Follows, IdsOf, KeysOf, ChangeCount, StateUpTo
<1>13. LocationsTraced(db)'
  BY <1>8 DEF LocationsTraced, Numbers
<1>14. Mirrors(db, StateUpTo(LatestNum))'
  <2>1. StateUpTo(LatestNum)' = made[id].after
    BY <1>1, <1>10 DEF StateUpTo
  <2> QED BY <1>8, <2>1
          DEF Mirrors, LiveAgents, LiveRecords, LiveOwners, LiveLocations, IdsOf
<1>15. RecordedUpToLatest'
  <2>1. \A b \in db'.blocks : b.id = b.num /\ b.num \in DOMAIN made'
    <3> DEFINE c == [num |-> num, id |-> id]
    <3>1. c.num = num /\ c.id = id /\ \A b \in db'.blocks : b \in db.blocks \/ b = c
      BY <1>8
    <3> HIDE DEF c
    <3> QED BY <1>1, <1>2, <3>1
  <2>2. ASSUME NEW n \in DOMAIN made', n <= LatestNum', ChangeCount(made'[n]) > 0
        PROVE  n \in Numbers(db')
    <3>1. CASE n <= L
      BY <1>1, <1>9, <2>2, <3>1 DEF LInv, RecordedUpToLatest, L
    <3>2. CASE L < n /\ n < num
      BY <1>1, <1>3, <2>2, <3>2
    <3>3. CASE n = num
      BY <1>9, <3>3
    <3> QED BY <1>1, <1>2, <1>10, <2>2, <3>1, <3>2, <3>3
  <2> QED BY <2>1, <2>2 DEF RecordedUpToLatest, Numbers, ChangeCount
<1>16. NothingMissing'
  <2>1. ASSUME NEW n \in DOMAIN made', LatestNum' <= n, n < NextBlock'
        PROVE  n = LatestNum'
    BY <1>1, <1>2, <1>10, <2>1
  <2>2. \A n \in DOMAIN made' : LatestNum' <= n /\ n < NextBlock' =>
           /\ StateUpTo(n)' = StateUpTo(LatestNum)'
           /\ n # LatestNum' => ChangeCount(made[n])' = 0
    BY <2>1 DEF StateUpTo
  <2> QED BY <1>1, <2>2 DEF NothingMissing
<1>17. Report(db') = made[id].after
  <2>1. Tables(db')
    BY <1>4, <1>3, HandleKeepsTables DEF Resolved
  <2>2. made[id].after \in Reports /\ db'.blocks # {}
    BY <1>8, BlockParts DEF IInv
  <2> QED BY <1>8, <2>1, <2>2, MirrorsReport
<1> QED BY <1>10, <1>12, <1>13, <1>14, <1>15, <1>16, <1>17 DEF LInv

(* What handling an event list does to the tables. *)
LEMMA HandleCases ==
    ASSUME Linear, IInv, LInv, NEW id \in DOMAIN made, NEW num, num = made[id].num,
           Handle(num, id)
    PROVE  /\ Receive(num, id)
           /\ \/ db' = db /\ (num \in Numbers(db) \/ ChangeCount(made[id]) = 0)
              \/ HandleBlock(num, id) /\ ChangeCount(made[id]) # 0
<1>1. Receive(num, id)
  BY DEF Handle, SkipDuplicate, HandleBlock, RollBack
<1>2. CASE SkipDuplicate(num, id)
  <2>1. num \in Numbers(db)
    BY <1>2 DEF SkipDuplicate, IsDuplicate, fetch_block, Numbers
  <2> QED BY <1>1, <1>2, <2>1 DEF SkipDuplicate
<1>3. CASE HandleBlock(num, id)
  <2>1. CASE ChangeCount(made[id]) # 0
    BY <1>1, <1>3, <2>1
  <2>2. CASE ChangeCount(made[id]) = 0
    <3>1. ~IsFork(num, id)
      <4>1. num = id
        BY <1>1, Received
      <4>2. \A b \in db.blocks : b.id = b.num
        BY LatestOnChain DEF LInv
      <4> QED BY <4>1, <4>2 DEF IsFork, fetch_block
    <3> QED BY <1>1, <1>3, <2>2, <3>1 DEF HandleBlock, Resolved, apply_state_changes
  <2> QED BY <2>1, <2>2
<1>4. CASE RollBack(num, id)
  <2>1. Raises(num, id)
    BY <1>4 DEF RollBack, Linear
  <2>2. ~IsFork(num, id)
    <3>1. num = id
      BY <1>1, Received
    <3>2. \A b \in db.blocks : b.id = b.num
      BY LatestOnChain DEF LInv
    <3> QED BY <3>1, <3>2 DEF IsFork, fetch_block
  <2>3. ~(ChangeCount(made[id]) > 1)
    <3>1. ChangeCount(made[id]) <= 1 /\ made[id] \in Blocks
      BY DEF LInv, LinearChain, IInv, TypeOK
    <3>2. ChangeCount(made[id]) \in Nat
      BY <3>1, NoChanges
    <3> QED BY <3>1, <3>2
  <2> QED BY <2>1, <2>2, <2>3 DEF Raises
<1> QED BY <1>2, <1>3, <1>4 DEF Handle

(* The blocks a subscription brings are those after the latest recorded. *)
LEMMA SubscribeSends ==
    ASSUME IInv, LInv, Subscribe
    PROVE  pending' = Sent(LatestNum) /\ UNCHANGED <<made, chain, db>>
<1>1. CASE SubscribeFromKnown
  <2>1. PICK n \in KnownOnChain : (\A m \in KnownOnChain : m <= n) /\ pending' = Sent(n)
    BY <1>1 DEF SubscribeFromKnown
  <2>2. LatestNum <= n /\ n <= LatestNum
    BY <2>1, KnownIsLatest
  <2>3. n \in Nat /\ LatestNum \in Nat
    <3>1. LatestNum \in Nat /\ Numbers(db) \subseteq Nat
      BY LatestOnChain DEF LInv, Numbers
    <3> QED BY <3>1 DEF KnownOnChain, fetch_last_known_blocks, Numbers
  <2>4. n = LatestNum
    BY <2>2, <2>3
  <2> QED BY <1>1, <2>1, <2>4 DEF SubscribeFromKnown
<1>2. CASE SubscribeFromGenesis
  BY <1>2, KnownIsLatest DEF SubscribeFromGenesis
<1> QED BY <1>1, <1>2 DEF Subscribe

(* An event repeated comes before the same one, and so before its rest. *)
LEMMA RepeatKeeps ==
    ASSUME IInv, LInv, Repeat
    PROVE  LInv'
<1>1. /\ pending # << >> /\ pending' = <<Head(pending)>> \o pending
      /\ UNCHANGED <<made, chain, forks, mode, db>>
  BY DEF Repeat
<1>2. pending \in Seq(Nat)
  <2>1. pending \in Seq(DOMAIN made) /\ DOMAIN made = 1 .. Len(made)
    BY ChainIsAll DEF IInv, TypeOK, LInv
  <2> QED BY <2>1
<1>3. /\ Head(pending) \in Nat /\ Head(pending) = pending[1]
      /\ pending' \in Seq(Nat) /\ Len(pending') = Len(pending) + 1 /\ pending' # << >>
      /\ Head(pending') = Head(pending) /\ pending'[1] = Head(pending)
      /\ Len(pending) \in Nat /\ Len(pending) >= 1
  BY <1>1, <1>2
<1>4. \A i \in 1 .. Len(pending) : pending'[i + 1] = pending[i]
  BY <1>1, <1>2, <1>3
<1>5. NextBlock' = NextBlock
  BY <1>1, <1>3 DEF NextBlock
<1>6. LatestNum' = LatestNum /\ (\A n : StateUpTo(n)' = StateUpTo(n))
      /\ (NothingMissing' => LInv')
  BY <1>1, TablesStay
<1>7. ASSUME mode = "subscribed"
      PROVE  /\ pending'[Len(pending')] = Len(chain)
             /\ \A i \in 1 .. Len(pending') - 1 : pending'[i + 1] <= pending'[i] + 1
  <2>1. /\ pending[Len(pending)] = Len(chain)
        /\ \A i \in 1 .. Len(pending) - 1 : pending[i + 1] <= pending[i] + 1
    BY <1>1, <1>7 DEF LInv, NothingMissing
  <2>2. pending'[Len(pending')] = Len(chain)
    <3>1. Len(pending) \in 1 .. Len(pending)
      BY <1>3
    <3> QED BY <1>3, <1>4, <2>1, <3>1
  <2>3. ASSUME NEW i \in 1 .. Len(pending') - 1
        PROVE  pending'[i + 1] <= pending'[i] + 1
    <3>1. CASE i = 1
      <4>1. pending'[1 + 1] = pending[1] /\ pending'[1] = pending[1]
        BY <1>3, <1>4
      <4> QED BY <1>3, <3>1, <4>1
    <3>2. CASE i # 1
      <4> DEFINE j == i - 1
      <4>1. j \in 1 .. Len(pending) - 1 /\ i \in 1 .. Len(pending) /\ j \in 1 .. Len(pending)
            /\ i = j + 1
        BY <1>3, <2>3, <3>2
      <4>2. pending'[i + 1] = pending[i] /\ pending'[j + 1] = pending[j]
        BY <1>4, <4>1
      <4>3. pending[j + 1] <= pending[j] + 1
        BY <2>1, <4>1
      <4> QED BY <4>1, <4>2, <4>3
    <3> QED BY <3>1, <3>2
  <2> QED BY <2>2, <2>3
<1>8. NothingMissing'
  <2>1. \A n \in DOMAIN made' : LatestNum' <= n /\ n < NextBlock' /\ mode = "subscribed" =>
           /\ StateUpTo(n)' = StateUpTo(LatestNum)'
           /\ n # LatestNum' => ChangeCount(made[n])' = 0
    BY <1>1, <1>5, <1>6 DEF LInv, NothingMissing, ChangeCount, StateUpTo
  <2> QED BY <1>1, <1>7, <2>1 DEF NothingMissing
<1> QED BY <1>6, <1>8

(* Every step keeps it.                                                    *)
LEMMA LInvNext == Linear /\ IInv /\ LInv /\ [Next]_vars => LInv'
<1> SUFFICES ASSUME Linear, IInv, LInv, [Next]_vars PROVE LInv'
  OBVIOUS
<1>0. IInv'
  BY IInvNext
<1>1. CASE CommitBlock
  BY <1>1, GrowKeeps DEF CommitBlock
<1>2. ASSUME NEW n \in 0 .. Len(chain) - 1, SwitchFork(n)
      PROVE  LInv'
  BY <1>2 DEF SwitchFork, Linear, IInv, TypeOK
<1>3. CASE Subscribe
  BY <1>3, SubscribeSends, SentFromLatest
<1>4. ASSUME NEW id \in DOMAIN made, Handle(made[id].num, id)
      PROVE  LInv'
  BY <1>0, <1>4, HandleCases, PassOver, RecordBlock
<1>5. CASE Crash
  BY <1>5, TablesStay DEF Crash, NothingMissing
<1>6. CASE Repeat
  BY <1>6, RepeatKeeps
<1>7. CASE UNCHANGED vars
  <2>1. UNCHANGED <<made, chain, db>>
    BY <1>7 DEF vars
  <2>2. NothingMissing'
    BY <1>7 DEF vars, LInv, NothingMissing, NextBlock, StateUpTo, LatestNum, LatestBlock,
       ChangeCount
  <2> QED BY <2>1, <2>2, TablesStay
<1> QED BY <1>1, <1>2, <1>3, <1>4, <1>5, <1>6, <1>7 DEF Next, HandleEvents

-----------------------------------------------------------------------------
(* The reports follow the ledger *)

(* The state of the ledger after each block of the chain. *)
Ledger == [n \in DOMAIN chain |-> made[chain[n]].after]

(* The states a reader may be shown are those of the chain.                *)
LEMMA LedgerStates ==
    ASSUME IInv, LinearChain
    PROVE  /\ Ledger \in Seq(Reports) /\ Len(Ledger) = Len(made)
           /\ \A n \in DOMAIN made : Ledger[n] = StateUpTo(n)
<1>1. /\ Len(made) \in Nat /\ DOMAIN chain = 1 .. Len(made) /\ DOMAIN made = 1 .. Len(made)
      /\ \A n \in DOMAIN made : chain[n] = n
  BY ChainIsAll DEF LinearChain
<1>2. \A n \in 1 .. Len(made) : Ledger[n] = made[n].after /\ made[n].after \in Reports
  <2>1. \A n \in 1 .. Len(made) : made[n].after \in Reports
    BY <1>1, BlockParts DEF IInv
  <2> QED BY <1>1, <2>1 DEF Ledger
<1>3. DOMAIN Ledger = 1 .. Len(made) /\ Ledger = [n \in 1 .. Len(made) |-> Ledger[n]]
  BY <1>1 DEF Ledger
<1>4. Ledger \in [1 .. Len(made) -> Reports]
  BY <1>2, <1>3
<1>5. Ledger \in Seq(Reports) /\ Len(Ledger) = Len(made)
  BY <1>1, <1>4
<1> QED BY <1>1, <1>2, <1>5 DEF StateUpTo

(* A new block adds its state at the end of them.                          *)
LEMMA LedgerGrows ==
    ASSUME IInv, LinearChain, NEW block, Extend(chain, block), Len(Ledger) = Len(made)
    PROVE  /\ Ledger' = Append(Ledger, block.after)
<1>1. /\ Len(made) \in Nat /\ Len(chain) = Len(made) /\ DOMAIN chain = 1 .. Len(made)
      /\ chain \in Seq(DOMAIN made) /\ \A n \in 1 .. Len(made) : chain[n] = n
      /\ DOMAIN made = 1 .. Len(made) /\ made \in Seq(Blocks)
  BY ChainIsAll DEF LinearChain, IInv, TypeOK
<1> DEFINE top == Len(made)
<1>2. made' = Append(made, block) /\ chain' = Append(chain, top + 1)
  BY DEF Extend
<1>3. DOMAIN chain' = 1 .. top + 1
  BY <1>1, <1>2
<1>4. \A n \in 1 .. top : chain'[n] = n /\ made'[n] = made[n]
  BY <1>1, <1>2
<1>5. chain'[top + 1] = top + 1 /\ made'[top + 1] = block
  BY <1>1, <1>2
<1>6. Ledger' = [n \in 1 .. top + 1 |-> made'[chain'[n]].after]
  BY <1>3 DEF Ledger
<1>7. /\ DOMAIN Ledger = 1 .. top /\ \A n \in 1 .. top : Ledger[n] = made[n].after
  BY <1>1 DEF Ledger
<1>8. Append(Ledger, block.after) =
        [n \in 1 .. top + 1 |-> IF n = top + 1 THEN block.after ELSE Ledger[n]]
  BY <1>1
<1>9. \A n \in 1 .. top + 1 :
         made'[chain'[n]].after = IF n = top + 1 THEN block.after ELSE Ledger[n]
  <2> SUFFICES ASSUME NEW n \in 1 .. top + 1
               PROVE  made'[chain'[n]].after = IF n = top + 1 THEN block.after ELSE Ledger[n]
    OBVIOUS
  <2>1. CASE n = top + 1
    BY <1>5, <2>1
  <2>2. CASE n # top + 1
    <3>1. n \in 1 .. top
      BY <1>1, <2>2
    <3> QED BY <1>4, <1>7, <2>2, <3>1
  <2> QED BY <2>1, <2>2
<1> QED BY <1>6, <1>8, <1>9

(* The refinement: initial states,                                         *)
LEMMA FollowInit == Init => Follower!Init
<1> SUFFICES ASSUME Init PROVE Follower!Init
  OBVIOUS
<1>1. chain = << >> /\ db.blocks = {}
  BY DEF Init, EmptyDatabase
<1> QED BY <1>1 DEF Follower!Init, Report, LatestNum

(* and steps, of which each shows a later state of the ledger, makes one,  *)
(* or shows nothing new.                                                   *)
LEMMA FollowNext == Linear /\ IInv /\ LInv /\ [Next]_vars => [Follower!Next]_(Follower!vars)
<1> SUFFICES ASSUME Linear, IInv, LInv, [Next]_vars
             PROVE  [Follower!Next]_(Follower!vars)
  OBVIOUS
<1>0. /\ Ledger \in Seq(Reports) /\ Len(Ledger) = Len(made) /\ Len(made) \in Nat
      /\ DOMAIN made = 1 .. Len(made)
      /\ \A n \in DOMAIN made : Ledger[n] = StateUpTo(n)
      /\ Report(db) = StateUpTo(LatestNum)
      /\ LatestNum \in 0 .. Len(made)
  BY LedgerStates, ReportIsState, LatestOnChain DEF LInv
<1>1. CASE UNCHANGED <<made, chain, db>>
  BY <1>1 DEF Follower!vars, LatestNum
<1>2. CASE CommitBlock
  <2>1. PICK block \in Successors(chain) : Extend(chain, block)
    BY <1>2 DEF CommitBlock
  <2>2. Ledger' = Append(Ledger, block.after)
    BY <1>0, <2>1, LedgerGrows DEF LInv
  <2>3. Len(Ledger') = Len(Ledger) + 1 /\ SubSeq(Ledger', 1, Len(Ledger)) = Ledger
    BY <1>0, <2>2
  <2>4. Report(db') = Report(db) /\ LatestNum' = LatestNum
    BY <2>1 DEF Extend, LatestNum
  <2>5. Follower!Grow
    BY <2>3, <2>4 DEF Follower!Grow, Ledger
  <2> QED BY <2>5 DEF Follower!Next
<1>3. ASSUME NEW id \in DOMAIN made, Handle(made[id].num, id)
      PROVE  [Follower!Next]_(Follower!vars)
  <2> DEFINE num == made[id].num
  <2>1. Receive(num, id) /\ UNCHANGED <<made, chain>>
    BY <1>3, HandleCases DEF Receive
  <2>2. CASE db' = db
    BY <1>1, <2>1, <2>2
  <2>3. CASE HandleBlock(num, id) /\ ChangeCount(made[id]) # 0
    <3>1. IInv' /\ LatestNum' = num /\ Report(db') = made[id].after
      BY <2>3, IInvNext, RecordBlock
    <3>2. /\ num = id /\ num \in Nat /\ num # 0 /\ num <= Len(made)
      BY <2>1, Received
    <3>3. LatestNum < num /\ \A n \in DOMAIN made : LatestNum < n /\ n < num =>
             StateUpTo(n) = StateUpTo(LatestNum)
      BY <2>1, <2>3, NextToRecord DEF HandleBlock
    <3> HIDE DEF num
    <3>4. \A m \in LatestNum + 1 .. num - 1 : Ledger[m] = Report(db)
      BY <1>0, <3>2, <3>3
    <3>5. Report(db') = Ledger[num] /\ Ledger' = Ledger
      BY <1>0, <2>1, <3>1, <3>2 DEF StateUpTo, Ledger
    <3>6. num \in LatestNum + 1 .. Len(Ledger)
      BY <1>0, <3>2, <3>3
    <3>7. Follower!Follow(num)
      BY <3>1, <3>4, <3>5 DEF Follower!Follow, Ledger
    <3> QED BY <3>6, <3>7 DEF Follower!Next, Ledger
  <2> QED BY <1>3, <2>2, <2>3, HandleCases
<1>4. ASSUME NEW n \in 0 .. Len(chain) - 1, SwitchFork(n)
      PROVE  FALSE
  BY <1>4 DEF SwitchFork, Linear, IInv, TypeOK
<1>5. CASE Subscribe \/ Crash \/ Repeat \/ UNCHANGED vars
  BY <1>1, <1>5 DEF Subscribe, SubscribeFromKnown, SubscribeFromGenesis, Crash, Repeat, vars
<1> QED BY <1>2, <1>3, <1>4, <1>5 DEF Next, HandleEvents

(***************************************************************************)
(* On a chain that never forks, of blocks with one change, whatever        *)
(* crashes and repeated events there are, the reports pass through the     *)
(* states of the ledger in order and miss none: the tables implement       *)
(* LedgerFollower.                                                         *)
(***************************************************************************)
THEOREM ReportsFollowLedger == ASSUME Linear PROVE Spec => FollowsLedger
<1>1. Init => IInv /\ LInv /\ Follower!Init
  BY IInvInit, LInvInit, FollowInit
<1>2. IInv /\ LInv /\ [Next]_vars => IInv' /\ LInv' /\ [Follower!Next]_(Follower!vars)
  BY IInvNext, LInvNext, FollowNext
<1> QED BY <1>1, <1>2, PTL DEF Spec, FollowsLedger, Follower!Spec

-----------------------------------------------------------------------------
(* Queries, answered while the subscriber works *)

(* A query changes nothing the subscriber does. *)
LEMMA QueriesAreSpec == QueriesSpec => Spec
<1>1. QueriesInit => Init
  BY DEF QueriesInit
<1>2. [QueriesNext]_allVars => [Next]_vars
  <2>1. Query => UNCHANGED vars
    BY DEF Query, fetch_record_resource, fetch_all_record_resources, Fetch,
       ReadLocations, ReadOwners
  <2>2. UNCHANGED allVars => UNCHANGED vars
    BY DEF allVars, vars
  <2> QED BY <2>1, <2>2 DEF QueriesNext
<1> QED BY <1>1, <1>2, PTL DEF QueriesSpec, Spec

(***************************************************************************)
(* What a query that is under way has read, and has yet to read, is of the *)
(* block it began at or of a later one.                                    *)
(***************************************************************************)
Existed(record_id) == record_id \in IdsOf(StateUpTo(asked).records)

QInv ==
    /\ asked \in 0 .. LatestNum
    /\ \A record_id \in todo : Existed(record_id)
    /\ part # Nothing =>
          /\ Existed(part.record_id)
          /\ \E i \in asked .. LatestNum :
                part.locations = Version(part.record_id, i).locations
    /\ answer # Nothing => asked > 0
    /\ AnswersAreFresh

(* Once there is a record, it stays. *)
LEMMA StillThere ==
    ASSUME IInv, LInv, asked \in 0 .. LatestNum, NEW record_id, Existed(record_id)
    PROVE  asked > 0 /\ record_id \in IdsOf(StateUpTo(LatestNum).records)
<1>1. LatestNum \in 0 .. Len(made) /\ Len(made) \in Nat /\ DOMAIN made = 1 .. Len(made)
  BY LatestOnChain DEF LInv
<1>2. asked # 0
  BY DEF Existed, StateUpTo, EmptyReport, IdsOf
<1>3. asked \in DOMAIN made /\ LatestNum \in DOMAIN made /\ asked <= LatestNum
  BY <1>1, <1>2
<1>4. IdsOf(made[asked].after.records) \subseteq IdsOf(made[LatestNum].after.records)
  BY <1>3 DEF LInv, LinearChain
<1> QED BY <1>1, <1>2, <1>3, <1>4 DEF Existed, StateUpTo

(* What the SELECTs return is the latest version of a record. *)
LEMMA Selected ==
    ASSUME IInv, LInv, NEW id \in IdsOf(StateUpTo(LatestNum).records)
    PROVE  /\ SELECT_locations(id) = Version(id, LatestNum).locations
           /\ SELECT_owners(id) = Version(id, LatestNum).owners
<1> DEFINE L == LatestNum
           v == Version(id, L)
<1>1. L \in 0 .. Len(made) /\ Len(made) \in Nat /\ DOMAIN made = 1 .. Len(made)
      /\ (db.blocks # {} => L = LatestBlock(db).num) /\ (L = 0 <=> db.blocks = {})
  BY LatestOnChain DEF LInv
<1>2. L # 0
  BY DEF StateUpTo, EmptyReport, IdsOf
<1>3. L \in DOMAIN made /\ db.blocks # {} /\ L = LatestBlock(db).num
  BY <1>1, <1>2
<1>4. StateUpTo(L) = made[L].after /\ chain[L] = L
  BY <1>2, <1>3 DEF StateUpTo, LInv, LinearChain
<1>5. v \in StateUpTo(L).records /\ v.record_id = id
  BY <1>4 DEF Version, IdsOf
<1>6. LiveOwners(db, id) = v.owners /\ LiveLocations(db, id) = v.locations
  <2> HIDE DEF v
  <2> QED BY <1>5 DEF LInv, Mirrors
<1>7. /\ At(db.owners, L) = {row \in db.owners : Live(row)}
      /\ At(db.locations, L) = {row \in db.locations : Live(row)}
  BY <1>3, AtLatest, LocationsAtLatest DEF IInv, LInv
<1> HIDE DEF L, v
<1>8. SELECT_locations(id) = LiveLocations(db, id) /\ SELECT_owners(id) = LiveOwners(db, id)
  BY <1>7 DEF SELECT_locations, SELECT_owners, OfRecords, LiveLocations, LiveOwners, L
<1> QED BY <1>6, <1>8 DEF v, L

(* A record that is found is in the latest state of the ledger. *)
LEMMA Found ==
    ASSUME IInv, LInv, NEW ids, NEW id \in SELECT_records(ids)
    PROVE  id \in IdsOf(StateUpTo(LatestNum).records)
<1>1. db.blocks # {}
  BY NoBlocksNoRows DEF IInv, SELECT_records, OfRecords, At
<1>2. At(db.records, LatestNum) = {row \in db.records : Live(row)}
  BY <1>1, AtLatest, LatestOnChain DEF IInv, LInv
<1>3. id \in LiveRecords(db)
  BY <1>2 DEF SELECT_records, OfRecords, LiveRecords
<1> QED BY <1>3 DEF LInv, Mirrors

(* The states of the ledger do not change, and the reports do not go back. *)
LEMMA NothingGoesBack ==
    ASSUME Linear, IInv, LInv, [Next]_vars
    PROVE  /\ LatestNum' \in Nat /\ LatestNum <= LatestNum'
           /\ \A n \in 0 .. LatestNum : StateUpTo(n)' = StateUpTo(n)
           /\ \A id, n : n \in 1 .. LatestNum => Version(id, n)' = Version(id, n)
<1> DEFINE L == LatestNum
<1>1. L \in 0 .. Len(made) /\ Len(made) \in Nat /\ DOMAIN made = 1 .. Len(made)
      /\ chain \in Seq(Nat) /\ Len(chain) = Len(made)
  <2>1. chain \in Seq(DOMAIN made)
    BY DEF IInv, TypeOK
  <2> QED BY <2>1, LatestOnChain, ChainIsAll DEF LInv
<1>2. CASE UNCHANGED <<made, chain>>
  <2>1. \A n : StateUpTo(n)' = StateUpTo(n)
    BY <1>2 DEF StateUpTo
  <2>2. \A id, n : Version(id, n)' = Version(id, n)
    BY <1>2 DEF Version
  <2>3. LatestNum' \in Nat /\ L <= LatestNum'
    <3>1. CASE db' = db
      BY <1>1, <3>1 DEF LatestNum
    <3>2. ASSUME NEW id \in DOMAIN made, Handle(made[id].num, id), db' # db
          PROVE  LatestNum' \in Nat /\ L <= LatestNum'
      <4>1. HandleBlock(made[id].num, id) /\ ChangeCount(made[id]) # 0
        BY <3>2, HandleCases
      <4>2. LatestNum' = made[id].num
        BY <4>1, IInvNext, RecordBlock
      <4>3. LatestNum < made[id].num /\ made[id].num \in Nat
        BY <4>1, NextToRecord, Received DEF HandleBlock
      <4> QED BY <1>1, <4>2, <4>3
    <3>3. db' # db => HandleEvents
      BY <1>1, <1>2 DEF Next, CommitBlock, SwitchFork, Extend, Subscribe, SubscribeFromKnown,
         SubscribeFromGenesis, Crash, Repeat, vars
    <3> QED BY <3>1, <3>2, <3>3 DEF HandleEvents
  <2> QED BY <2>1, <2>2, <2>3
<1>3. CASE CommitBlock
  <2>1. PICK block : Extend(chain, block)
    BY <1>3 DEF CommitBlock
  <2>2. \A n \in 1 .. L : made'[n] = made[n] /\ chain'[n] = chain[n] /\ chain[n] = n
    <3>1. \A n \in 1 .. L : n \in 1 .. Len(made)
      BY <1>1
    <3>2. made \in Seq(Blocks)
      BY DEF IInv, TypeOK
    <3>3. \A n \in 1 .. Len(made) : made'[n] = made[n] /\ chain'[n] = chain[n]
      BY <1>1, <2>1, <3>2 DEF Extend
    <3> QED BY <1>1, <3>1, <3>3 DEF LInv, LinearChain
  <2>3. LatestNum' = L
    BY <2>1 DEF Extend, LatestNum
  <2> HIDE DEF L
  <2>4. \A n \in 0 .. L : StateUpTo(n)' = StateUpTo(n)
    BY <1>1, <2>2 DEF StateUpTo
  <2>5. \A id, n : n \in 1 .. L => Version(id, n)' = Version(id, n)
    BY <2>2 DEF Version
  <2> QED BY <1>1, <2>3, <2>4, <2>5 DEF L
<1>4. ASSUME NEW n \in 0 .. Len(chain) - 1, SwitchFork(n)
      PROVE  FALSE
  BY <1>4 DEF SwitchFork, Linear, IInv, TypeOK
<1>5. ASSUME NEW id \in DOMAIN made, Handle(made[id].num, id)
      PROVE  UNCHANGED <<made, chain>>
  BY <1>5 DEF Handle, SkipDuplicate, HandleBlock, RollBack, Receive
<1> QED
  BY <1>2, <1>3, <1>4, <1>5 DEF Next, HandleEvents, Subscribe, SubscribeFromKnown,
     SubscribeFromGenesis, Crash, Repeat, vars

(* The invariant of queries holds at the start.                            *)
LEMMA QInvInit == QueriesInit => QInv
<1> SUFFICES ASSUME QueriesInit PROVE QInv
  OBVIOUS
<1>1. asked = 0 /\ todo = {} /\ part = Nothing /\ answer = Nothing /\ db.blocks = {}
  BY DEF QueriesInit, Init, EmptyDatabase
<1> QED BY <1>1 DEF QInv, LatestNum, AnswersAreFresh

(* A step of the subscriber while a query is under way. *)
LEMMA QueryKeeps ==
    ASSUME Linear, IInv, LInv, QInv, [Next]_vars, UNCHANGED queryVars
    PROVE  QInv'
<1> DEFINE L == LatestNum
           M == LatestNum'
<1>1. /\ L \in Nat /\ M \in Nat /\ L <= M
      /\ \A n \in 0 .. L : StateUpTo(n)' = StateUpTo(n)
      /\ \A id, n : n \in 1 .. L => Version(id, n)' = Version(id, n)
  BY NothingGoesBack, LatestOnChain DEF LInv
<1>2. asked' = asked /\ todo' = todo /\ part' = part /\ answer' = answer
  BY DEF queryVars
<1>3. asked \in 0 .. L /\ L \in 0 .. M
  BY <1>1 DEF QInv
<1> HIDE DEF L, M
<1>4. \A id : Existed(id) => Existed(id)'
  <2>1. StateUpTo(asked)' = StateUpTo(asked)
    BY <1>1, <1>2, <1>3 DEF StateUpTo
  <2> QED BY <2>1 DEF Existed, IdsOf
<1>5. ASSUME asked > 0, NEW id, NEW i \in asked .. L
      PROVE  i \in asked .. M /\ Version(id, i)' = Version(id, i)
  <2>1. i \in asked .. M /\ i \in 1 .. L
    BY <1>1, <1>3, <1>5
  <2> QED BY <1>1, <2>1
<1>6. part' # Nothing =>
         /\ Existed(part.record_id)'
         /\ \E i \in asked' .. M : part'.locations = Version(part.record_id, i)'.locations
  <2> SUFFICES ASSUME part # Nothing
               PROVE  /\ Existed(part.record_id)'
                      /\ \E i \in asked .. M :
                            part.locations = Version(part.record_id, i)'.locations
    BY <1>2
  <2>1. PICK i \in asked .. L : part.locations = Version(part.record_id, i).locations
    BY DEF QInv, L
  <2>2. Existed(part.record_id) /\ asked > 0
    BY <1>3, StillThere DEF QInv, L
  <2>3. Existed(part.record_id)'
    BY <1>2, <1>4, <2>2 DEF Existed
  <2>4. i \in asked .. M /\ Version(part.record_id, i)' = Version(part.record_id, i)
    <3>1. PICK id : id = part.record_id /\ id = part'.record_id
      BY <1>2
    <3>2. i \in asked .. M /\ Version(id, i)' = Version(id, i)
      BY <1>5, <2>2
    <3> QED BY <3>1, <3>2
  <2> QED BY <2>1, <2>3, <2>4
<1>7. AnswersAreFresh'
  <2> SUFFICES ASSUME answer # Nothing
               PROVE  \E i, j \in asked .. M :
                         /\ i <= j
                         /\ answer.locations = Version(answer.record_id, i)'.locations
                         /\ answer.owners = Version(answer.record_id, j)'.owners
    BY <1>2 DEF AnswersAreFresh, M, Version
  <2>1. PICK i, j \in asked .. L :
           /\ i <= j
           /\ answer.locations = Version(answer.record_id, i).locations
           /\ answer.owners = Version(answer.record_id, j).owners
    BY DEF QInv, AnswersAreFresh, L
  <2>2. asked > 0
    BY DEF QInv
  <2>3. /\ i \in asked .. M /\ j \in asked .. M
        /\ Version(answer.record_id, i)' = Version(answer.record_id, i)
        /\ Version(answer.record_id, j)' = Version(answer.record_id, j)
    <3>1. PICK id : id = answer.record_id /\ id = answer'.record_id
      BY <1>2
    <3>2. i \in asked .. M /\ Version(id, i)' = Version(id, i)
      BY <1>5, <2>2
    <3>3. j \in asked .. M /\ Version(id, j)' = Version(id, j)
      BY <1>5, <2>2
    <3> QED BY <3>1, <3>2, <3>3
  <2> QED BY <2>1, <2>3
<1>8. /\ asked' \in 0 .. M
      /\ \A record_id \in todo' : Existed(record_id)'
      /\ answer' # Nothing => asked' > 0
  <2>1. \A record_id \in todo : Existed(record_id)
    BY DEF QInv
  <2>2. \A record_id \in todo' : Existed(record_id)'
    BY <1>2, <1>4, <2>1
  <2> QED BY <1>1, <1>2, <1>3, <2>2 DEF QInv
<1> QED BY <1>2, <1>6, <1>7, <1>8 DEF QInv, M, Existed, Version

(* The SELECTs of a query. *)
LEMMA QueryReads ==
    ASSUME IInv, LInv, QInv, Query
    PROVE  QInv'
<1> DEFINE L == LatestNum
<1>0. L \in Nat
  BY LatestOnChain DEF LInv
<1>1. UNCHANGED vars
  BY DEF Query, fetch_record_resource, fetch_all_record_resources, Fetch, ReadLocations,
     ReadOwners
<1>2. LatestNum' = L /\ (\A n : StateUpTo(n)' = StateUpTo(n))
      /\ (\A id, n : Version(id, n)' = Version(id, n))
  BY <1>1 DEF vars, LatestNum, LatestBlock, StateUpTo, Version
<1>3. ASSUME NEW ids, Fetch(ids)
      PROVE  QInv'
  <2>1. /\ asked' = L /\ todo' = SELECT_records(ids)
        /\ part' = Nothing /\ answer' = Nothing
    BY <1>3 DEF Fetch, Idle
  <2>2. \A id \in todo' : id \in IdsOf(StateUpTo(L).records)
    BY <2>1, Found
  <2>3. StateUpTo(asked)' = StateUpTo(L)
    BY <1>1, <2>1 DEF vars, StateUpTo
  <2> HIDE DEF L
  <2>4. \A id \in todo' : Existed(id)'
    BY <2>2, <2>3 DEF Existed, IdsOf
  <2> QED BY <1>0, <1>2, <2>1, <2>4 DEF QInv, Existed, AnswersAreFresh, Nothing
<1>4. ASSUME NEW id, ReadLocations(id)
      PROVE  QInv'
  <2>1. /\ id \in todo /\ todo' = todo \ {id} /\ answer' = Nothing /\ asked' = asked
        /\ part' = [record_id |-> id, locations |-> SELECT_locations(id)]
    BY <1>4 DEF ReadLocations
  <2>2. Existed(id) /\ asked \in 0 .. L
    BY <2>1 DEF QInv
  <2>3. SELECT_locations(id) = Version(id, L).locations
    BY <2>2, StillThere, Selected
  <2>4. StateUpTo(asked)' = StateUpTo(asked)
    BY <1>2, <2>1 DEF StateUpTo, vars
  <2>5. \A x : Existed(x) => Existed(x)'
    BY <2>4 DEF Existed, IdsOf
  <2> HIDE DEF L
  <2>6. PICK j : j = L
    OBVIOUS
  <2>7. /\ part'.record_id = id
        /\ part'.locations = Version(part.record_id, j)'.locations
    <3>1. Version(id, j)' = Version(id, j)
      BY <1>2
    <3> QED BY <2>1, <2>3, <2>6, <3>1
  <2>8. \A x \in todo' : Existed(x)'
    BY <2>1, <2>5 DEF QInv
  <2>9. \E i \in asked' .. LatestNum' :
           part'.locations = Version(part.record_id, i)'.locations
    <3>1. j \in asked' .. LatestNum'
      BY <1>0, <1>2, <2>1, <2>2, <2>6
    <3> QED BY <2>7, <3>1
  <2>10. Existed(part.record_id)'
    BY <2>2, <2>5, <2>7 DEF Existed
  <2> QED BY <1>2, <2>1, <2>2, <2>8, <2>9, <2>10 DEF QInv, AnswersAreFresh, Existed, Version
<1>5. CASE ReadOwners
  <2> DEFINE id == part.record_id
  <2>1. /\ part # Nothing /\ part' = Nothing /\ asked' = asked /\ todo' = todo
        /\ answer' = [record_id |-> id, locations |-> part.locations,
                      owners |-> SELECT_owners(id)]
    BY <1>5 DEF ReadOwners
  <2>2. PICK i \in asked .. L : part.locations = Version(id, i).locations
    BY <2>1 DEF QInv
  <2>3. Existed(id) /\ asked \in 0 .. L
    BY <2>1 DEF QInv
  <2>4. asked > 0 /\ SELECT_owners(id) = Version(id, L).owners
    BY <2>3, StillThere, Selected
  <2> HIDE DEF L
  <2>5. i <= L /\ L \in asked .. L
    BY <1>0, <2>2, <2>3
  <2>6. PICK x, j : x = id /\ j = L
    OBVIOUS
  <2>7. /\ answer'.record_id = x
        /\ answer'.locations = Version(x, i)'.locations
        /\ answer'.owners = Version(x, j)'.owners
    <3>1. Version(x, i)' = Version(x, i) /\ Version(x, j)' = Version(x, j)
      BY <1>2
    <3>2. Version(x, i).locations = part.locations /\ Version(x, j).owners = SELECT_owners(id)
      BY <2>2, <2>4, <2>6
    <3>3. /\ answer'.record_id = id /\ answer'.locations = part.locations
          /\ answer'.owners = SELECT_owners(id)
      BY <2>1
    <3> QED BY <2>6, <3>1, <3>2, <3>3
  <2>8. AnswersAreFresh'
    <3>1. i \in asked' .. LatestNum' /\ j \in asked' .. LatestNum' /\ i <= j
      BY <1>2, <2>1, <2>2, <2>5, <2>6
    <3>2. /\ answer'.locations = Version(answer.record_id, i)'.locations
          /\ answer'.owners = Version(answer.record_id, j)'.owners
      BY <2>7
    <3> QED BY <3>1, <3>2 DEF AnswersAreFresh
  <2>9. \A y \in todo' : Existed(y)'
    <3>1. StateUpTo(asked)' = StateUpTo(asked)
      BY <1>2, <2>1 DEF StateUpTo, vars
    <3> QED BY <2>1, <3>1 DEF QInv, Existed, IdsOf
  <2> QED BY <1>2, <2>1, <2>3, <2>4, <2>8, <2>9 DEF QInv
<1> QED BY <1>3, <1>4, <1>5 DEF Query, fetch_record_resource, fetch_all_record_resources

(* Every step of a query or of the subscriber keeps it.                    *)
LEMMA QInvNext == Linear /\ IInv /\ LInv /\ QInv /\ [QueriesNext]_allVars => QInv'
<1> SUFFICES ASSUME Linear, IInv, LInv, QInv, [QueriesNext]_allVars PROVE QInv'
  OBVIOUS
<1>1. CASE Next /\ UNCHANGED queryVars
  BY <1>1, QueryKeeps
<1>2. CASE Query
  BY <1>2, QueryReads
<1>3. CASE UNCHANGED allVars
  <2>1. UNCHANGED vars /\ UNCHANGED queryVars
    BY <1>3 DEF allVars, vars, queryVars
  <2> QED BY <2>1, QueryKeeps
<1> QED BY <1>1, <1>2, <1>3 DEF QueriesNext

(***************************************************************************)
(* Between the SELECTs of a query the subscriber may commit blocks: while  *)
(* the chain does not fork, the parts of an answer are nonetheless those   *)
(* of versions the record has had since the query began, the owners not    *)
(* older than the locations.                                               *)
(***************************************************************************)
THEOREM QueriesAnswerFresh == ASSUME Linear PROVE QueriesSpec => []AnswersAreFresh
<1>1. QueriesInit => IInv /\ LInv /\ QInv
  BY IInvInit, LInvInit, QInvInit DEF QueriesInit
<1>2. IInv /\ LInv /\ QInv /\ [QueriesNext]_allVars => IInv' /\ LInv' /\ QInv'
  <2>1. [QueriesNext]_allVars => [Next]_vars
    <3>1. Query => UNCHANGED vars
      BY DEF Query, fetch_record_resource, fetch_all_record_resources, Fetch,
         ReadLocations, ReadOwners
    <3>2. UNCHANGED allVars => UNCHANGED vars
      BY DEF allVars, vars
    <3> QED BY <3>1, <3>2 DEF QueriesNext
  <2> QED BY <2>1, IInvNext, LInvNext, QInvNext
<1>3. QInv => AnswersAreFresh
  BY DEF QInv
<1> QED BY <1>1, <1>2, <1>3, PTL DEF QueriesSpec

(* With queries in between, the reports follow the ledger as before. *)
COROLLARY QueriesFollowLedger == ASSUME Linear PROVE QueriesSpec => FollowsLedger
BY QueriesAreSpec, ReportsFollowLedger
=============================================================================
