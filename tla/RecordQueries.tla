---------------------------- MODULE RecordQueries ----------------------------
(***************************************************************************)
(* A query for records, answered while the subscriber works                *)
(* (fetch_record_resource and fetch_all_record_resources of                *)
(* rest_api/simple_supply_rest_api/database.py).                           *)
(*                                                                         *)
(* The REST API reads outside of transactions: one SELECT for the records, *)
(* then one for the locations and one for the owners of each, and each     *)
(* sees the tables as they are when it runs, at the block that is then the *)
(* latest.  Between two of them the subscriber may commit blocks.  A query *)
(* writes nothing, so one at a time shows all there is to see; the queries *)
(* for agents are a single SELECT, which Report has already.               *)
(***************************************************************************)
EXTENDS Subscriber

VARIABLES
    asked,     \* history: the latest block when the query began
    todo,      \* records found, whose histories have not been read
    part,      \* the record whose locations have been read, and these
    answer     \* the record whose parts have been put together last

queryVars == <<asked, todo, part, answer>>
allVars == <<made, chain, forks, mode, pending, db, faults, asked, todo, part, answer>>

Nothing == [record_id |-> NULL]

QueriesInit ==
    /\ Init
    /\ asked = 0
    /\ todo = {}
    /\ part = Nothing
    /\ answer = Nothing

-----------------------------------------------------------------------------

SELECT_records(ids) == {row.record_id : row \in OfRecords(At(db.records, LatestNum), ids)}

SELECT_locations(id) ==
    {row.location : row \in OfRecords(At(db.locations, LatestNum), {id})}

SELECT_owners(id) ==
    {row.owner : row \in OfRecords(At(db.owners, LatestNum), {id})}

Idle == todo = {} /\ part = Nothing

(* One record or all of them; nothing found is answered at once. *)
Fetch(ids) ==
    /\ Idle
    /\ SELECT_records(ids) # {}
    /\ todo' = SELECT_records(ids)
    /\ asked' = LatestNum
    /\ answer' = Nothing
    /\ UNCHANGED <<vars, part>>

fetch_record_resource(record_id) == Fetch({record_id})

fetch_all_record_resources == Fetch(RecordIds)

ReadLocations(id) ==
    /\ part = Nothing
    /\ id \in todo
    /\ todo' = todo \ {id}
    /\ part' = [record_id |-> id, locations |-> SELECT_locations(id)]
    /\ answer' = Nothing
    /\ UNCHANGED <<vars, asked>>

ReadOwners ==
    /\ part # Nothing
    /\ answer' = [record_id |-> part.record_id,
                  locations |-> part.locations,
                  owners    |-> SELECT_owners(part.record_id)]
    /\ part' = Nothing
    /\ UNCHANGED <<vars, asked, todo>>

Query ==
    \/ \E id \in RecordIds : fetch_record_resource(id) \/ ReadLocations(id)
    \/ fetch_all_record_resources
    \/ ReadOwners

QueriesNext ==
    \/ Next /\ UNCHANGED queryVars
    \/ Query

QueriesSpec == QueriesInit /\ [][QueriesNext]_allVars /\ Fairness

-----------------------------------------------------------------------------
(* Properties *)

(***************************************************************************)
(* The parts of an answer may be of two blocks, but while the chain does   *)
(* not fork neither is older than the block the query began at, and the    *)
(* owners are not older than the locations: a record is never shown with   *)
(* histories it has not had, without any, or as it was before the query    *)
(* (database.py:151-158, 173-197).                                         *)
(***************************************************************************)
Version(id, n) == CHOOSE r \in made[chain[n]].after.records : r.record_id = id

AnswersAreFresh ==
    answer # Nothing =>
        \E i, j \in asked .. LatestNum :
            /\ i <= j
            /\ answer.locations = Version(answer.record_id, i).locations
            /\ answer.owners = Version(answer.record_id, j).owners
=============================================================================
