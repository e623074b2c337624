------------------------------ MODULE Subscriber ------------------------------
(***************************************************************************)
(* The Simple Supply subscriber: a process that turns the validator's      *)
(* event stream into the reporting database                                *)
(* (subscriber/simple_supply_subscriber/main.py, subscriber.py and         *)
(* event_handling.py).                                                     *)
(*                                                                         *)
(* The validator is external.  Its chain grows block by block and may      *)
(* switch to a fork; a subscribed client is sent one event list per block  *)
(* of the new chain, in order, and one that subscribes is first sent the   *)
(* blocks of the chain after the last one it says it knows.  What a block  *)
(* writes is what the transaction processor can write: an agent registers  *)
(* once, a record is created once and then transferred and updated.        *)
(*                                                                         *)
(* One action handles one event list in one database transaction.  The     *)
(* process may die at any moment, also in the middle of a transaction:     *)
(* Postgres then forgets the transaction.                                  *)
(***************************************************************************)
EXTENDS ReportingDB, Sequences

CONSTANTS
    KNOWN_COUNT,        \* recorded blocks named when subscribing (15 in main.py)
    MaxBlocks,          \* bound: blocks ever made, on all forks
    MaxChanges,         \* bound: addresses one block writes
    MaxForks,           \* bound: times the chain switches to a fork
    MaxFaults,          \* bound: crashes, repeated events and database errors
    DatabaseMayFail     \* whether Postgres may answer with an error of its own

ASSUME SubscriberAssumption ==
    /\ {KNOWN_COUNT, MaxBlocks, MaxChanges, MaxForks, MaxFaults} \subseteq Nat
    /\ KNOWN_COUNT > 0
    /\ BlockIds = 1 .. MaxBlocks
    /\ MaxBlocks < MAX_BLOCK_NUMBER
    /\ DatabaseMayFail \in BOOLEAN

VARIABLES
    made,       \* every block ever made, on whatever fork, by identifier
    chain,      \* the validator's chain: identifiers, by block number
    forks,      \* how often the chain has switched
    mode,       \* whether the subscriber process runs: "down" or "subscribed"
    pending,    \* identifiers of the blocks whose events are on their way
    db,         \* the reporting database, as committed
    faults      \* what has gone wrong so far

vars == <<made, chain, forks, mode, pending, db, faults>>

(***************************************************************************)
(* A block: the entries its state delta carries, each the whole entry as   *)
(* it stands after the block, and the state of the ledger after it.        *)
(***************************************************************************)
Blocks == [num : BlockNums, changes : Reports, after : Reports]

StateAfter(blocks) ==
    IF blocks = << >> THEN EmptyReport ELSE made[blocks[Len(blocks)]].after

ChangeCount(block) ==
    Cardinality(block.changes.agents) + Cardinality(block.changes.records)

Init ==
    /\ made = << >>
    /\ chain = << >>
    /\ forks = 0
    /\ mode = "down"
    /\ pending = << >>
    /\ db = EmptyDatabase
    /\ faults = 0

-----------------------------------------------------------------------------
(* The validator *)

(* The block that registers keys, creates, transfers and updates records. *)
NewBlock(base, keys, create, transfer, update) ==
    LET id      == Len(made) + 1
        before  == StateAfter(base)
        touched == {r \in before.records : r.record_id \in transfer \cup update}
        agents  == {[public_key |-> k, registered |-> id] : k \in keys}
        records ==
            {[record_id |-> x, owners |-> {id}, locations |-> {id}] : x \in create}
              \cup
            {[r EXCEPT !.owners    = IF r.record_id \in transfer THEN @ \cup {id} ELSE @,
                       !.locations = IF r.record_id \in update THEN @ \cup {id} ELSE @] :
                r \in touched}
    IN  [num     |-> Len(base) + 1,
         changes |-> [agents |-> agents, records |-> records],
         after   |-> [agents  |-> before.agents \cup agents,
                      records |-> (before.records \ touched) \cup records]]

(* The blocks that may follow base. *)
Successors(base) ==
    LET before     == StateAfter(base)
        registered == {a.public_key : a \in before.agents}
        existing   == {r.record_id : r \in before.records}
    IN  {b \in {NewBlock(base, keys, create, transfer, update) :
                    keys \in SUBSET (Keys \ registered),
                    create \in SUBSET (RecordIds \ existing),
                    transfer \in SUBSET existing,
                    update \in SUBSET existing} :
            /\ ChangeCount(b) <= MaxChanges
            /\ b.changes.records # {} => b.after.agents # {}}

(* The validator makes block on top of base its chain head. *)
Extend(base, block) ==
    /\ Len(made) < MaxBlocks
    /\ made' = Append(made, block)
    /\ chain' = Append(base, Len(made) + 1)
    /\ pending' = IF mode = "subscribed" THEN Append(pending, Len(made) + 1) ELSE pending
    /\ UNCHANGED <<mode, db, faults>>

CommitBlock ==
    /\ \E block \in Successors(chain) : Extend(chain, block)
    /\ UNCHANGED forks

(* A longer fork is a switch to its first block, followed by the others. *)
SwitchFork(n) ==
    /\ forks < MaxForks
    /\ forks' = forks + 1
    /\ \E block \in Successors(SubSeq(chain, 1, n)) : Extend(SubSeq(chain, 1, n), block)

-----------------------------------------------------------------------------
(* Starting, and dying *)

Sent(n) == SubSeq(chain, n + 1, Len(chain))

(* The block numbers of the chain the subscriber says it knows. *)
KnownOnChain ==
    {row.num : row \in {x \in fetch_last_known_blocks(db, KNOWN_COUNT) :
                            x.num <= Len(chain) /\ chain[x.num] = x.id}}

SubscribeFromKnown ==
    /\ mode = "down"
    /\ \E n \in KnownOnChain :
        /\ \A m \in KnownOnChain : m <= n
        /\ pending' = Sent(n)
    /\ mode' = "subscribed"
    /\ UNCHANGED <<made, chain, forks, db, faults>>

(***************************************************************************)
(* Nothing is recorded yet, or the validator answers UNKNOWN_BLOCK and     *)
(* start is called again without known ids.                                *)
(***************************************************************************)
SubscribeFromGenesis ==
    /\ mode = "down"
    /\ KnownOnChain = {}
    /\ mode' = "subscribed"
    /\ pending' = Sent(0)
    /\ UNCHANGED <<made, chain, forks, db, faults>>

Fault ==
    /\ faults < MaxFaults
    /\ faults' = faults + 1

(* The process ends, whatever it was doing; so does its connection. *)
Crash ==
    /\ Fault
    /\ mode = "subscribed"
    /\ mode' = "down"
    /\ pending' = << >>
    /\ UNCHANGED <<made, chain, forks, db>>

(* The validator sends the events of the next block a second time. *)
Repeat ==
    /\ Fault
    /\ pending # << >>
    /\ pending' = <<Head(pending)>> \o pending
    /\ UNCHANGED <<made, chain, forks, mode, db>>

-----------------------------------------------------------------------------
(* Handling the events of one block *)

IsDuplicate(num, id) == \E row \in fetch_block(db, num) : row.id = id

IsFork(num, id) == \E row \in fetch_block(db, num) : row.id # id

Resolved(num, id) == IF IsFork(num, id) THEN drop_fork(db, num) ELSE db

(***************************************************************************)
(* The statements that fail: a DELETE of drop_fork, and the second         *)
(* insert_block of a block with several changes, which repeats its key.    *)
(***************************************************************************)
Raises(num, id) ==
    \/ IsFork(num, id) /\ drop_fork_raises(db, num)
    \/ ChangeCount(made[id]) > 1

(* Faulty variant: the block is not recorded. *)
apply_state_changes_Unrecorded(database, num, id) ==
    LET changes == made[id].changes
    IN  insert_records(insert_agents(database, changes.agents, num), changes.records, num)

(* A block without changes is not recorded: insert_block is in the loop. *)
apply_state_changes(database, num, id) ==
    LET changes == made[id].changes
    IN  IF ChangeCount(made[id]) = 0
        THEN database
        ELSE insert_records(
                insert_agents(insert_block(database, num, id), changes.agents, num),
                changes.records, num)

Receive(num, id) ==
    /\ mode = "subscribed"
    /\ pending # << >>
    /\ id = Head(pending)
    /\ num = made[id].num
    /\ pending' = Tail(pending)
    /\ UNCHANGED <<made, chain, forks, mode>>

SkipDuplicate(num, id) ==
    /\ Receive(num, id)
    /\ IsDuplicate(num, id)
    /\ UNCHANGED <<db, faults>>

HandleBlock(num, id) ==
    /\ Receive(num, id)
    /\ ~IsDuplicate(num, id)
    /\ ~Raises(num, id)
    /\ db' = apply_state_changes(Resolved(num, id), num, id)
    /\ UNCHANGED faults

(* DatabaseError: rollback, and on to the next block. *)
RollBack(num, id) ==
    /\ Receive(num, id)
    /\ ~IsDuplicate(num, id)
    /\ \/ Raises(num, id) /\ UNCHANGED faults
       \/ DatabaseMayFail /\ ~Raises(num, id) /\ Fault
    /\ UNCHANGED db

Handle(num, id) == SkipDuplicate(num, id) \/ HandleBlock(num, id) \/ RollBack(num, id)

-----------------------------------------------------------------------------

Subscribe == SubscribeFromKnown \/ SubscribeFromGenesis

HandleEvents == \E id \in DOMAIN made : Handle(made[id].num, id)

Next ==
    \/ CommitBlock
    \/ \E n \in 0 .. Len(chain) - 1 : SwitchFork(n)
    \/ Subscribe
    \/ HandleEvents
    \/ Crash
    \/ Repeat

(***************************************************************************)
(* The subscriber is started again whenever it is down, and handles what   *)
(* it is sent.  Nothing makes the chain grow.                              *)
(***************************************************************************)
Fairness == WF_vars(Subscribe) /\ WF_vars(HandleEvents)

Spec == Init /\ [][Next]_vars /\ Fairness

-----------------------------------------------------------------------------
(* Properties *)

(* Type invariant. *)
TypeOK ==
    /\ made \in Seq(Blocks) /\ Len(made) <= MaxBlocks
    /\ chain \in Seq(DOMAIN made)
    /\ forks \in 0 .. MaxForks
    /\ mode \in {"down", "subscribed"}
    /\ pending \in Seq(DOMAIN made)
    /\ db \in Databases
    /\ faults \in 0 .. MaxFaults

(***************************************************************************)
(* While the chain never forks and a block writes at most one address, the *)
(* reports pass through the states of the ledger in order, and miss none,  *)
(* whatever crashes, restarts and repeated events happen on the way.       *)
(***************************************************************************)
LatestNum == IF db.blocks = {} THEN 0 ELSE LatestBlock(db).num

Follower == INSTANCE LedgerFollower WITH
    EmptyState <- EmptyReport,
    ledger     <- [n \in DOMAIN chain |-> made[chain[n]].after],
    shown      <- Report(db),
    seen       <- LatestNum

FollowsLedger == Follower!Spec

(***************************************************************************)
(* On the same chains, a subscriber that is restarted when it has died     *)
(* ends up showing the state of the chain: no crash, repeated event or     *)
(* choice of known blocks loses a block for good (main.py:99-102).         *)
(***************************************************************************)
EventuallyCurrent == <>[](Report(db) = StateAfter(chain))

(***************************************************************************)
(* Whatever forks, skipped blocks, catch-ups and errors have done to the   *)
(* tables, no query of the REST API returns an agent, a record, or an      *)
(* owner in the history of a record twice (database.py:240-293, 328-357).  *)
(***************************************************************************)
OneRowPer(rows, SameEntry(_, _)) ==
    \A x, y \in At(rows, LatestNum) : SameEntry(x, y) => x = y

OneRowReported ==
    /\ OneRowPer(db.agents, LAMBDA x, y : x.agent.public_key = y.agent.public_key)
    /\ OneRowPer(db.records, LAMBDA x, y : x.record_id = y.record_id)
    /\ OneRowPer(db.owners, LAMBDA x, y : x.record_id = y.record_id /\ x.owner = y.owner)

(***************************************************************************)
(* No agent, record or owner outlives the block that wrote it: once a fork *)
(* has replaced a block, its rows are gone (drop_fork, database.py:162).   *)
(***************************************************************************)
Recorded(rows) == \A row \in rows : \E b \in db.blocks : b.num = row.start

NothingOfDroppedBlocks ==
    /\ \A row \in db.agents :
          [num |-> row.start, id |-> row.agent.registered] \in db.blocks
    /\ Recorded(db.records)
    /\ Recorded(db.owners)

(***************************************************************************)
(* A reported record comes with the owners it had after some one block,    *)
(* never with none and never with a mixture of two forks' owners: the      *)
(* records and record_owners tables change together.                       *)
(***************************************************************************)
Versions(record_id) ==
    {r \in UNION {made[id].changes.records : id \in DOMAIN made} : r.record_id = record_id}

ReportedOwnersAreOneVersion ==
    \A r \in Report(db).records : \E v \in Versions(r.record_id) : v.owners = r.owners

(***************************************************************************)
(* What docs and comments say, and the code does not do.                   *)
(***************************************************************************)

(* database.py:163 "Deletes all resources from a particular block_num".    *)
NoLocationOutlivesItsBlock == Recorded(db.locations)

CaughtUp == mode = "subscribed" /\ pending = << >> /\ faults = 0

(* openapi.yaml:60 "Fetches the complete details of all agents": once      *)
(* caught up, without any fault, every agent of the chain is reported.     *)
AllAgentsReported == CaughtUp => StateAfter(chain).agents \subseteq Report(db).agents

(* event_handling.py:34-35 "updates the Database appropriately": once      *)
(* caught up, without any fault, every block with changes is recorded.     *)
HandledBlocksRecorded ==
    CaughtUp => \A n \in DOMAIN chain :
        ChangeCount(made[chain[n]]) > 0 => [num |-> n, id |-> chain[n]] \in db.blocks
=============================================================================
