----------------------------- MODULE ReportingDB -----------------------------
(***************************************************************************)
(* The reporting database: the tables the subscriber writes                *)
(* (subscriber/simple_supply_subscriber/database.py) and the queries the   *)
(* REST API answers from (rest_api/simple_supply_rest_api/database.py).    *)
(*                                                                         *)
(* A table is a set of rows: no query reads the serial ids.  Every row but *)
(* a block's is valid from start until just before end; a row whose end is *)
(* MAX_BLOCK_NUMBER is live, and a comparison with NULL is never true.     *)
(*                                                                         *)
(* An agent, an owner and a location are told apart by the block that      *)
(* brought them, which stands for their names, keys, coordinates and       *)
(* timestamps.                                                             *)
(***************************************************************************)
EXTENDS Integers, FiniteSets

CONSTANTS
    Keys,                \* public keys
    RecordIds,           \* record identifiers
    BlockIds,            \* identifiers of blocks
    MAX_BLOCK_NUMBER,    \* end of a live row, beyond every block number
    NULL                 \* not a number

ASSUME DatabaseAssumption ==
    /\ MAX_BLOCK_NUMBER \in Nat
    /\ NULL \notin Int
    /\ IsFiniteSet(Keys) /\ IsFiniteSet(RecordIds)

BlockNums == 1 .. MAX_BLOCK_NUMBER - 1
Ends == BlockNums \cup {MAX_BLOCK_NUMBER, NULL}

(* What the REST API shows: agents, and records with their histories. *)
Agents  == [public_key : Keys, registered : BlockIds]
Records == [record_id : RecordIds, owners : SUBSET BlockIds, locations : SUBSET BlockIds]
Reports == [agents : SUBSET Agents, records : SUBSET Records]

EmptyReport == [agents |-> {}, records |-> {}]

Databases ==
    [blocks    : SUBSET [num : BlockNums, id : BlockIds],
     agents    : SUBSET [agent : Agents, start : BlockNums, end : Ends],
     records   : SUBSET [record_id : RecordIds, start : BlockNums, end : Ends],
     owners    : SUBSET [record_id : RecordIds, owner : BlockIds,
                         start : BlockNums, end : Ends],
     locations : SUBSET [record_id : RecordIds, location : BlockIds,
                         start : BlockNums, end : Ends]]

EmptyDatabase ==
    [blocks |-> {}, agents |-> {}, records |-> {}, owners |-> {}, locations |-> {}]

-----------------------------------------------------------------------------
(* What the subscriber does, inside one database transaction. *)

fetch_block(db, num) == {row \in db.blocks : row.num = num}

(* The count recorded blocks with the highest numbers. *)
fetch_last_known_blocks(db, count) ==
    {row \in db.blocks :
        Cardinality({other \in db.blocks : other.num > row.num}) < count}

(* Faulty variant: the rows of block num itself are kept. *)
From_Next(rows, num) == {row \in rows : row.start > num}

(* The rows with start >= num, and what becomes of the others. *)
From(rows, num) == {row \in rows : row.start >= num}

EndsFrom(row, num) == row.end # NULL /\ row.end >= num

Before(rows, num) ==
    {IF EndsFrom(row, num) THEN [row EXCEPT !.end = NULL] ELSE row :
        row \in rows \ From(rows, num)}

(* Two rows in the scalar subquery of the DELETEs are an error in Postgres. *)
drop_fork_raises(db, num) == Cardinality(From(db.records, num)) > 1

(* Faulty variant: record_owners is never named. *)
drop_fork_KeepOwners(db, num) ==
    [db EXCEPT
        !.agents  = Before(@, num),
        !.records = Before(@, num),
        !.blocks  = {row \in @ : row.num < num}]

(* Both DELETEs meant for owners and locations name record_owners. *)
drop_fork(db, num) ==
    LET dropped == {row.record_id : row \in From(db.records, num)}
    IN  [db EXCEPT
            !.agents  = Before(@, num),
            !.owners  = {row \in @ : row.record_id \notin dropped},
            !.records = Before(@, num),
            !.blocks  = {row \in @ : row.num < num}]

Live(row) == row.end = MAX_BLOCK_NUMBER

(* Faulty variant: the rows stay live. *)
Close_Nothing(rows, superseded, num) == rows

(* The live rows among the superseded ones end where block num starts. *)
Close(rows, superseded, num) ==
    LET closed == {row \in superseded : row.end = MAX_BLOCK_NUMBER}
    IN  (rows \ closed) \cup {[row EXCEPT !.end = num] : row \in closed}

(* Faulty variant: start and end swapped. *)
insert_agents_Swapped(db, agents, num) ==
    LET keys == {a.public_key : a \in agents}
    IN  [db EXCEPT !.agents =
            Close(@, {row \in @ : row.agent.public_key \in keys}, num)
              \cup {[agent |-> a, start |-> MAX_BLOCK_NUMBER, end |-> num] : a \in agents}]

insert_agents(db, agents, num) ==
    LET keys == {a.public_key : a \in agents}
    IN  [db EXCEPT !.agents =
            Close(@, {row \in @ : row.agent.public_key \in keys}, num)
              \cup {[agent |-> a, start |-> num, end |-> MAX_BLOCK_NUMBER] : a \in agents}]

OfRecords(rows, ids) == {row \in rows : row.record_id \in ids}

insert_records(db, records, num) ==
    LET ids == {r.record_id : r \in records}
    IN  [db EXCEPT
            !.records = Close(@, OfRecords(@, ids), num)
              \cup {[record_id |-> r.record_id, start |-> num, end |-> MAX_BLOCK_NUMBER] :
                       r \in records},
            !.owners = Close(@, OfRecords(@, ids), num)
              \cup UNION {{[record_id |-> r.record_id, owner |-> o,
                            start |-> num, end |-> MAX_BLOCK_NUMBER] : o \in r.owners} :
                             r \in records},
            !.locations = Close(@, OfRecords(@, ids), num)
              \cup UNION {{[record_id |-> r.record_id, location |-> l,
                            start |-> num, end |-> MAX_BLOCK_NUMBER] : l \in r.locations} :
                             r \in records}]

insert_block(db, num, id) ==
    [db EXCEPT !.blocks = @ \cup {[num |-> num, id |-> id]}]

-----------------------------------------------------------------------------
(* What the REST API reads. *)

(* Faulty variant: a row is not yet valid in its own block. *)
At_Exclusive(rows, num) ==
    {row \in rows : row.start < num /\ row.end # NULL /\ num < row.end}

(* The rows valid at block num. *)
At(rows, num) ==
    {row \in rows : row.start <= num /\ row.end # NULL /\ num < row.end}

(* All agents and all records, each in its own query, at block num. *)
ReportAt(db, num) ==
    [agents  |-> {row.agent : row \in At(db.agents, num)},
     records |-> {[record_id |-> row.record_id,
                   owners    |-> {o.owner :
                                    o \in OfRecords(At(db.owners, num), {row.record_id})},
                   locations |-> {l.location :
                                    l \in OfRecords(At(db.locations, num), {row.record_id})}] :
                     row \in At(db.records, num)}]

(* The block with the highest number; only if one is recorded. *)
LatestBlock(db) ==
    CHOOSE row \in db.blocks : \A other \in db.blocks : other.num <= row.num

(* max(block_num) of an empty table is NULL, so no row is valid then. *)
Report(db) ==
    IF db.blocks = {} THEN EmptyReport ELSE ReportAt(db, LatestBlock(db).num)
=============================================================================
