# A TLA+ model of Sawtooth Simple Supply

This directory is a formal model of the programs in this repository: TLA+ modules translated
from the source, TLC configurations that model-check them on small instances, and proofs of
the most important properties for every instance, checked by the TLA+ proof system.

The repository holds two systems over one Hyperledger Sawtooth validator:

* **Simple Supply**: agents register, create records of goods, transfer them and report their
  location. A transaction processor validates transactions against the ledger, a subscriber
  copies the ledger into Postgres, a REST API submits transactions and answers queries from
  Postgres, and a web application sits on top.
* **stw** ("da"): a token system with a manager, an issuer, accounts, tokens, balances and a
  scheduled payment, again with a transaction processor, a REST API and clients.

## Inventory

### Simple Supply

| Part | State | Operations | What is hard about it | What makes it correct |
|---|---|---|---|---|
| Transaction processor (`processor/`) | containers of agents and records in the validator's global state | create agent, create record, transfer, update, refuse | transactions arrive in any order, dated by clocks that differ; identifiers may share an address; the validator runs transactions in parallel | entries unique and found; histories only grow; owners are agents; no change of owner without the owner's signature; the timestamp decides; declared addresses are enough; validators with different clocks agree |
| Client transactions (`rest_api/.../transaction_creation.py`) | none | build a batch with its declared addresses | declared too few, the schedule changes the result | transactions that may run in parallel commute |
| Subscriber (`subscriber/`) | Postgres tables, block by block; its subscription | subscribe from known blocks or from genesis, handle a block, skip a duplicate, resolve a fork, roll back | forks, crashes at any point, repeated events, database errors, blocks without or with several changes | reports follow the ledger, in order, and none is lost; nothing outlives a dropped block; nothing shows twice |
| REST API (`rest_api/`) | `auth` table; requests in flight | authenticate, create agent, create and transfer and update records, queries | an account is created in two systems in turn; commit timeouts; several SELECTs per answer while the subscriber writes | an answer is true, also later; a login is an agent; a record is never shown older than when the query began; every request ends |
| Web application (`curator_app/`) | session token | calls the REST API | nothing of its own | (presentation) |

They interact as follows. A client asks the REST API, which signs a transaction and submits it
to the validator. The validator hands it to the processor and, if it is accepted, puts it into a
block. When the block becomes part of the chain the validator sends the subscriber one event
list with the state changes of the block. The subscriber updates Postgres in one transaction per
event list, and the REST API answers queries from there. The chain may switch to a fork, and
each of the processes may stop and start on its own.

### stw

| Part | State | Operations | What is hard about it | What makes it correct |
|---|---|---|---|---|
| Token processor (`stw/token_processor`) | manager, issuer, accounts, tokens, balances (each at two addresses), transfer events | set manager, issuer, account; issue; transfer; status; immutables; endorsement; balance attributes; heartbeat | balances computed before either is written, copies at two addresses, one heartbeat of many payments | the supply of a token is conserved; both copies agree; an inactive token does not move |
| Token transactions, addresses, restriction check (`stw/common`) | none | build transactions, compute addresses, `detectTransferRestriction` | addresses named twice, by the client and by the handler; a decision over nested conditions | a handler writes only what the client declared; immutables narrow who may receive |
| Token REST API and CLI | none between calls | submit, poll a status with retries, act on a role and on lists read earlier | stale reads, retries | what was read is still good when the transaction is executed; answers are true; calls end |
| Explorer (`stw/explorer`) | none | browses the validator | nothing of its own | (presentation) |

`PROJECT.json` lists the components with their status and, under `hazards`, the places in the
code where these difficulties bite, each with the properties that cover it.

## Modules

| Module | Models | Built on |
|---|---|---|
| `SupplyState` | `state.py`, the addressing scheme, the containers of `agent.proto` and `record.proto` | |
| `SupplyHandler` | guards and effects of `handler.py`, transactions of `transaction_creation.py`, as pure operators | `SupplyState` |
| `SimpleSupplyTP` | the processor as a state machine, and its properties | `SupplyHandler` |
| `RecordOwnership` | abstract: who owns what, and who signed | |
| `SupplyHandler_proofs` | lemmas about the operators of `SupplyHandler` | `SupplyHandler` |
| `SimpleSupplyTP_proofs` | theorems about `SimpleSupplyTP` | `SimpleSupplyTP`, `SupplyHandler_proofs` |
| `SupplyReplicas` | several validators with a processor each, executing one chain by different clocks | `SupplyHandler` |
| `SupplyReplicas_proofs` | theorems about `SupplyReplicas` | `SupplyReplicas`, `SupplyHandler_proofs` |
| `ReportingDB` | the Postgres tables, the subscriber's statements and the REST API's queries, as pure operators | |
| `Subscriber` | the subscriber process against an external validator, and its properties | `ReportingDB` |
| `LedgerFollower` | abstract: a reader is shown the ledger's states in order | |
| `RecordQueries` | a query for records, its SELECTs interleaved with the subscriber | `Subscriber` |
| `Subscriber_proofs` | theorems about `Subscriber` and `RecordQueries` | `RecordQueries` |
| `ValidatorBatches` | external: what becomes of a submitted batch, and its status | |
| `RestApi` | requests of the REST API that change something, with the `auth` table, the validator and the processor behind it | `SupplyHandler`, `ValidatorBatches` |
| `RestApi_proofs` | theorems about `RestApi` | `RestApi`, `SupplyHandler_proofs` |
| `TokenState` | `state.py` of the token processor, its addresses and messages, and `detectTransferRestriction`, as pure operators | |
| `TokenTP` | the token processor as a state machine, and its properties | `TokenState` |
| `FiniteSums` | lemmas about sums over finite sets | |
| `TokenTP_proofs` | theorems about `TokenTP` | `TokenTP`, `FiniteSums` |
| `TokenApi` | calls of the token REST API and the command line client, with the validator and the processor behind them | `TokenTP`, `ValidatorBatches` |
| `TokenApi_proofs` | theorems about `TokenApi` | `TokenApi`, `TokenTP_proofs` |
| `MC_SimpleSupplyTP`, `MC_SupplyReplicas`, `MC_Subscriber`, `MC_RecordQueries`, `MC_RestApi`, `MC_TokenTP`, `MC_TokenApi` | values for the constants of small instances | |

Operators with a suffix such as `_Swapped`, marked "Faulty variant", are not part of the model.
Each is a plausible mistake in the definition that follows it, and shows that a property would
notice it.

### The transaction processor

`state` maps an address to a container, a sequence of entries, as the global state does. The
address functions are constants, arbitrary maps from keys and identifiers to addresses, so that
every pattern of hash collisions is an instance. `CreateAgent`, `CreateRecord`,
`TransferRecord` and `UpdateRecord` are whole calls of `SimpleSupplyHandler.apply` that
succeed; their guards are the checks of `handler.py` in the operators `MayCreateAgent`,
`ValidTimestamp` and so on. `Reject` is a call that raises `InvalidTransaction`; all checks come
before the only `set_state` of each action, so it changes nothing. `Tick` moves the clock the
processor reads. `committed`, the last transaction committed, is a history variable for the
properties. `max()` over the owners returns the first largest one, as `LatestPosition` does.

Left out: names of agents (stored and never read), the encoding of payloads and containers,
`InternalError` after a failing `set_state` (the validator then retries the transaction on an
unchanged state), and a payload whose action is none of the four, which `apply` refuses.

### Several validators

`SupplyReplicas` puts the handler on several validators. Whoever has the head of the chain
publishes a block with one transaction its own processor accepts (`Publish`); every other one
executes it when it gets to it, perhaps much later (`Validate`), and refuses it and all that
follows if its own processor raises `InvalidTransaction` or comes to another state. Each
execution reads a clock of its own: any value within `ClockError` of the time. Client
timestamps lie at most `ClientError` ahead. `ClocksAssumption` says that the two errors
together are within `SYNC_TOLERANCE`; it is what the comment at `handler.py:177` is about, and
the time zone that `mktime` adds to `utcnow` counts as an error of the clock. Blocks, their
publishing and their validation are external; which of two competing blocks wins is left to the
consensus and not modelled.

### The subscriber

`made` holds every block ever made with its state delta and the ledger after it, `chain` the
validator's current chain, `pending` the event lists under way, `db` the committed tables. Block
numbers start at 1; the genesis block carries no supply changes and touches no table.
`HandleBlock`, `SkipDuplicate` and `RollBack` are the three outcomes of `_handle_events`, each
one database transaction. `SubscribeFromKnown` and `SubscribeFromGenesis` are `do_subscribe`
with the two ways `Subscriber.start` can go, the call of itself without known ids included.
`Crash` stands for every way the process ends: signals, exceptions (`sys.exit(1)`), a lost
connection. A transaction under way is then forgotten by Postgres, so it needs no state of its
own.

The validator is external: `CommitBlock`, `SwitchFork`, `Sent` and `Repeat` model how the
subscriber uses it. It sends one event list per block of the new chain, in order; it answers
UNKNOWN_BLOCK when none of the known ids is on its chain; otherwise it catches up from the
latest that is. A switch to a fork puts one new block on an earlier one, and a longer fork is
that followed by `CommitBlock`; the model therefore also has chains that get shorter for a
while, more behaviours than fork resolution allows. A chain does not return to an abandoned
fork.

What a block writes is reduced to what the tables tell apart. Every agent, owner and location is
named by the block that brought it. Addresses do not collide here, so a changed address is one
agent or one record. Tables are sets of rows, as no query reads the serial ids.

### Queries for records

`RecordQueries` adds one query at a time to `Subscriber`: `fetch_record_resource` and
`fetch_all_record_resources` read the records, then `ReadLocations` and `ReadOwners` read the
histories of each, and between any two of these the subscriber may commit. The connection is
an asynchronous one (aiopg), on which every statement is a transaction of its own, and each
statement computes `max(block_num)` for itself. One query at a time shows all there is to see,
as queries write nothing. The query for agents is one SELECT and is `Report` in `ReportingDB`.

### The Simple Supply REST API

A request of `RestApi` is a transaction with the place of its batch and the point its handler
has reached. `CreateAgent`, `CreateRecord`, `TransferRecord` and `UpdateRecord` are the
handlers up to the first await of the validator; `StatusAnswered` is the answer to the status
request, with `StageAfter` for what `_send_and_wait_for_commit` makes of it, and
`create_auth_entry` the insert that follows for a new agent. In between, other requests arrive,
the validator executes batches in any order, the connection to the validator or to Postgres
fails (`ConnectionFails`), and the server dies with everything in flight (`Crash`). The ledger
and the `auth` table survive it. A key is new for each agent, as `get_new_key_pair` makes it; a
token or a password stands for its key.

`Earlier` holds what the server may start on: a ledger, an `auth` table and the time.
`MayStartOn` says what is assumed of them: they were made through this server, whose logins are
agents and whose clock dated every owner. The theorem `RestartsAllowed` says that the server
leaves nothing else.

The life of a batch is in `ValidatorBatches`, external and shared with the token clients:
refused by a full queue, executed, lost by this validator while another one still has it, lost
by all, or no longer remembered as invalid. The reply to the submission is looked at by no
REST API, so a refused batch is met again as UNKNOWN. "Answered" means that the handler has
returned; whether the answer reaches the client is not in the model.

Two of these places are taken as final, which is an assumption about the validator and not
about this code: a batch that one validator has found invalid is not in the queue of another
one, where a different state might accept it, and a block that was committed is not undone by a
fork. `BadRequestMeansNever`, `OkMeansDone`, `AnsweredTransferStands` and `AnswersAreTrue` rest
on it, in the runs and in the proofs. It holds of a network of one validator, as
`docker-compose.yaml` sets it up; in a larger one an answer of 200 or 400 says what one
validator has seen so far.

### The token processor

`state` holds one part per kind of address: accounts, the manager's and the issuer's entry, the
tokens, every balance at its two addresses, and the transfer events. Hashes of different
identifiers are taken to differ; what does share an address is modelled: events of one token,
sender, receiver and second. Each branch of `TokenTransactionHandler.apply` is an action, with
its checks as guard and everything it writes as effect, for transactions as `transaction.py`
builds them. Every exception becomes `InvalidTransaction` and the validator discards what the
call wrote, so a refused call is a stutter; so is a heartbeat with no payment due.

A transfer reads both balances before it writes either. Between two accounts that moves the
amount; from an account to itself it adds it. `inflated` is a history variable that names the
tokens this happened to, and the Cash Token if `set_issuer` has issued it over one the manager
had issued; `SupplyIsHeld` is stated of the others. The code does not say whether such a transfer
is meant to be refused.

Clients may ask for any supply and any amount (`Supplies`, `Amounts` are sets of integers), and
the handler refuses those that are not positive. Of the amounts of `payments` nobody asks
anything, so `Payment` has any integer. A heartbeat of a negative one passes the check of the
issuer's balance and takes the shares from the holders. `NothingOwed`, that nobody has less than
nothing, is therefore false (`token_negative_payments`). What does hold is `NoDebt`. It speaks
of every token, those in `inflated` included, and of cash as long as each token with payments is
`Covered`: it promises no negative amount, and its balances add up to its supply, so that the
shares of a payment are no more than the payment.

A heartbeat pays, for each payment due, each receiver its share, with a transfer in turn.
`DoHeartbeat` writes what these transfers amount to: `Income` of a receiver, `Outlay` of the
issuer. The issuer's balance is checked once per payment, against the whole payment, as the
payments before have left it.

The heartbeat's check of the holders asks, by the comment at `handler.py:249`, for a positive
balance; the code asks for an existing one, so a holder of nothing is paid nothing, with a
transfer event.

Left out: amounts are whole units instead of doubles, and payments are multiples of the supply,
so that shares are whole; names of accounts; attributes of tokens other than the payments and
the transfer endorsement. The entries at the manager's and issuer's address are read for their
key alone and stand for it.

### The token clients

`TokenApi` puts the clients of `stw` around `TokenTP`. `order` gives each call its client (the
REST API or a command), its signer and what it asks for. A call may first ask who is manager
(`CheckManager`), then list balances (`ListBalances`), then submit a transaction built from the
list (`Submit`), then wait: the REST API by asking for the status up to `retry_num` times while
the batch is UNKNOWN (`CheckBatchStatus`), a command until its wait is over or the batch is no
longer PENDING (`Return`). A command given `--wait` without a value waits `sys.maxsize` seconds
(`cli.py:149`); `wait` in its order stands for that, and `AwaitsBatch` for the loop of
`client.py:223-230` it is then in. `Execute` hands the batch to the processor, whose handlers are
the actions of `TokenTP` with the arguments of the call, and `Refuse` is the case in which none
of them is possible. Reads fail in the two ways they can: a reply without entries counts as an
empty one, and a lost connection ends the call. `Declared` gives the addresses `transaction.py`
declares for each transaction, a heartbeat's for the holders and the issuer its client names.

`set_manager`, `set_issuer` and `set_account` of the command line client call the functions of
`transaction.py` without `endorsement`, which has no default: they end in a TypeError before
anything is sent, so `CliOrders` has no such calls.

`annotated`, the attributes last set on each balance, or found on it at the start, is a history
variable; a new issuer's balance of the Cash Token, which `issue_token` writes anew, has none.
The clients may start on any state in `Earlier` of which `InOrder` holds: what belongs
to an account belongs to a registered one, only issued tokens are held, and the two copies of a
balance agree. The theorem `StatesAreInOrder` says that every reachable state is such a state.

## Runs

All runs take well under five minutes. Bounds are constants of the modules, named in their
guards.

| Run | Bounds | What it shows |
|---|---|---|
| `tp_transactions` | 2 agents at two addresses, 2 records and the empty identifier at one; a latitude at the edge and one beyond; tolerance 0, clock 0 to 1, timestamps 0 to 2; one record with histories of 3 owners and 2 locations, the others of 1; every pair of transactions in every state | `TypeOK`, `EntriesUniqueAndPlaced`, `OwnersRegistered`, `HistoriesOnlyGrow`, `HistoryNeverAheadOfTolerance`, `NewestTimestampDecides`, `OwnerConsents`, `ImplementsRecordOwnership`, `ParallelTransactionsCommute` |
| `supply_replicas` | 2 validators, 2 agents, 1 record and the empty identifier, everything colliding; tolerance 2, both errors 1, time 0 to 2, chains of 4 blocks | `TypeOK`, `NoBlockRefused`, `EveryoneCatchesUp` |
| `sub_linear_queries` | 5 blocks of at most one change, 1 agent, 2 records, 1 known id, 2 crashes or repeats, no forks; one query at a time | `FollowsLedger`, `EventuallyCurrent`, `AnswersAreFresh` |
| `sub_forks` | 5 blocks of up to two changes, 1 agent, 1 record, 2 forks of any depth, 1 crash, repeat or database error | `TypeOK`, `OneRowReported`, `NothingOfDroppedBlocks`, `ReportedOwnersAreOneVersion` |
| `api_accounts` | 3 requests, 2 keys, 1 record and the empty identifier, clock 0 to 1, 1 fault; on an empty ledger, and on one with a record and an agent without a login | `TypeOK`, `AccountsAreAgents`, `OkMeansDone`, `BadRequestMeansNever`, `AnsweredTransferStands`, `EveryRequestEnds` |
| `token_payments` | 3 accounts, the Cash Token (supply 4) and a bond (supply 2) that pays 2 twice on one day, or 2 on another day and -2 on this one; supplies of 0 and amounts of -1 are asked for, too; balances and debts up to 4, 3 events on record | `TypeOK`, `HoldersRegistered`, `SupplyIsHeld`, `NoDebt`, `BalanceCopiesAgree`, `FrozenWhileInactive` |
| `token_clients` | any 3 of 13 calls, each at most once, 2 accounts, the Cash Token and a bond, 2 status requests instead of 6, 1 fault, one command that waits without limit; on an empty state, and on one whose issuer of payments holds none of the manager's bond | `ApiTypeOK`, `OnlyManagersAnnotate`, `AttributesStay`, `ListsStayValid`, `AnswersAreTrue`, `EveryCallEnds`, `ReactivationDoesNothingElse`, `ReceiversNarrow`, `WritesAreDeclared` |

The other runs each end in a violation and are described below.

What the properties of the clients say. `AnsweredTransferStands`: the new owner of a transfer
answered 200 keeps the record until a request made later is committed, though an earlier one that
was given up as timed out may be committed late; this rests on the history being decided by
timestamps and not by the order of arrival. Its exception is two entries of one second, where
`max()` takes the first. `BadRequestMeansNever`: after a 400 nothing happens any more, after a
500 it may. `ListsStayValid`: the balances a client listed are there when its transaction is
executed, however late, since no operation removes a balance or an account.
`OnlyManagersAnnotate`: the processor does not ask who signed new balance attributes; that the
REST API asked earlier is enough only because a manager is never replaced. `AttributesStay`: a
transfer or a payment writes balances whole, at two addresses, and what was set on them must be
in what is written; in the second state to start on, a heartbeat pays an account whose cash
carries attributes, and the issuer that pays is not among the holders until a transfer makes it
one. `ReactivationDoesNothingElse`: a bond is set INACTIVE, then ACTIVE again, or is asked to
take immutables in between, which would have made it ACTIVE on the side. `EveryCallEnds`: a call
is answered or returns, but for a command that waits without limit, which lasts as long as its
batch is PENDING.

Why the bounds are enough. Three owners of a record make a tie, a late transfer and a transfer
after a late one; two records in one container make a neighbour that must be left alone; two
agents are a signer and somebody else. The tolerance shifts the clock: with 0 in the passing runs
timestamps lie below, at and above the limit, and it is 1 in `tp_history_order`. Three holders of
a token are the issuer of payments and two that are paid; two payments on one day make the second
check of the issuer's balance matter. Three events on record are one transfer of the bond and a
heartbeat to two receivers: to both holders of it when the issuer of cash is one of them or
neither. What moves no balance is kept small in this run: one list of immutables for the bond, no
token that everyone may receive (`TransferEndorsements`), and no status ISSUED to ask for, which
the handler treats as it does ACTIVE. `token_clients` has the lists of immutables; for the others
see the theorems. Agents lie at two addresses in `tp_transactions` and at one in
`supply_replicas` and `tp_history_order`; what is proved makes no difference. In the runs without
liveness agents are interchangeable, and they use symmetry where the constants allow it. Three
requests, or three calls, are one that is given up, one that comes between and one that is tried
again; one fault at a time is what the handlers are written for. With 2 status requests a batch
may be unknown at first and at the last; 6 adds no other case. In `supply_replicas` the clocks of
two validators and a client lie as far apart as `ClocksAssumption` allows, and four blocks hold a
registration of each agent, a record and a transfer. For the subscriber, five blocks with two
forks give a fork within a fork, a fork deeper than the known ids (`KNOWN_COUNT` is 1 instead of
15, which makes the restart from genesis happen), and blocks before, between and after that write
nothing. The runs allow a terminating state: a chain that has reached its bound grows no more and
the subscriber waits.

Fairness. `SimpleSupplyTP` and `TokenTP` have none: they promise nothing about when transactions
come. `Subscriber!Fairness` is weak fairness of `HandleEvents`, the loop of `Subscriber.start`,
and of `Subscribe`: somebody starts the subscriber again after it has ended. Nothing in the code
does (`docker-compose.yaml` has no restart policy), so the second is an assumption about
operation. Faults are finitely many by `MaxFaults`; nothing is assumed to make the chain grow.
`RecordQueries` has the same fairness and none of queries. `RestApi!Fairness` is weak fairness of
each request's next step: the event loop runs what it can and the validator answers a request for
a status at the latest when its wait is over, which the `wait=True` of `messaging.py` leaves to
its default. Whether a batch is ever executed is left open, so `EveryRequestEnds` covers those
that never are. `TokenApi!Fairness` is the same of some call at a time, which is enough as there
are finitely many. `Return` is not enabled for a command that waits without limit while its batch
is PENDING, so nothing is assumed to end that wait. `SupplyReplicas!Fairness` is weak fairness of
each validator's execution of the chain.

### Where the code and its documentation disagree

Five runs end in a violation that is a real behaviour of the code.

| Run | What happens |
|---|---|
| `tp_history_order` | A transfer dated earlier is appended later; `record.proto` calls the history ordered by timestamp. |
| `sub_fork_locations` | `drop_fork` deletes from `record_owners` twice and never from `record_locations`. With two forks in turn a reported record then carries locations of both, or one location twice. |
| `sub_fork_agents` | `drop_fork` sets the end of live rows to null; what was there before the fork is not reported any more. |
| `sub_two_changes` | A block that changes two addresses inserts its number twice, is rolled back and lost. |
| `token_negative_payments` | A token promises a payment of a negative amount, which nobody refuses; a heartbeat takes it from a holder that has no cash. A transfer that does either is refused as "negative or zero value" or "Not enough balance". |

The runs of the subscriber delimit `sub_linear_queries`: without forks and with one change per
block the subscriber does what `LedgerFollower` says. `sub_forks` checks what is left of that
with forks and larger blocks. Two more limits are in the model and have no run: a transfer dated
no later than the history is committed without effect, and `drop_fork` fails, leaving the old
block, when the fork drops two rows of `records`.

## Proofs

TLAPS proves the theorems below for every set of keys, identifiers, addresses and tokens and for
all bounds. Each states a property a run checks, but for `RestartsAllowed` and
`StatesAreInOrder`, which justify an assumption. The assumptions are those the modules name.

| Module | Theorems | Assumptions |
|---|---|---|
| `SimpleSupplyTP_proofs` | `TypeCorrect`, `EntriesStayUniqueAndPlaced`, `OwnersStayRegistered`, `HistoriesAreKept`, `OwnersConsent`, `TimestampsDecide`, `HistoriesNeverAhead`, `ImplementsOwnership`, `ParallelIsSound` | `AddressingAssumption` (each kind of identifier has an address of its kind), `ToleranceAssumption`, `ClientAssumption` (coordinates are integers, the clock is bounded by a natural, `NoOne` is no key) |
| `SupplyReplicas_proofs` | `ReplicasTyped`, `NetworkNeverSplits` | `AddressingAssumption`, `ToleranceAssumption`, `ReplicasAssumption` (values of the constants), `ClocksAssumption` (clocks differ by no more than the tolerance) |
| `Subscriber_proofs` | `TypeCorrect`, `EachReportedOnce`, `OwnersReportedTogether`, `NothingOutlivesItsBlock`; `ReportsFollowLedger`, `QueriesFollowLedger`, `QueriesAnswerFresh` | `DatabaseAssumption` (null is no number; keys and record ids are finitely many), `SubscriberAssumption` (values of the constants; block numbers stay below `MAX_BLOCK_NUMBER`); the last three also `Linear` (no forks, at most one change per block, no database error) |
| `RestApi_proofs` | `RequestsTyped`, `LoginsAreAgents`, `OkIsKept`, `BadRequestIsFinal`, `TransfersHold`, `RestartsAllowed` | `AddressingAssumption`, `ToleranceAssumption`, `RestApiAssumption` (values of the constants, `MayStartOn` of what was there before) |
| `TokenTP_proofs` | `TypeCorrect`, `CopiesAgree`, `SuppliesHeld`, `NobodyInDebt`, `Registration`, `Freezing`, `Reactivation`, `Narrowing` | `TokenAssumption`, `NoneAssumption`, `PaymentAssumption` (values of the constants, a value that is no key, finitely many keys, the supply of the Cash Token positive, payments multiples of the supply; supplies and amounts clients ask for, and amounts of payments, are any integers) |
| `TokenApi_proofs` | `ApiTypeCorrect`, `OnlyManagersAsk`, `AttributesLast`, `ListsLast`, `TrueAnswers`, `ApiReactivation`, `ApiNarrowing`, `DeclaredWrites`, `StatesAreInOrder` | those of `TokenTP` and `ApiAssumption` (values of the constants, `InOrder` of what was there before) |

`Linear` is an assumption of three theorems only, and it is what `sub_linear_queries` takes for
granted too: with forks or with larger blocks, `sub_fork_agents`, `sub_fork_locations` and
`sub_two_changes` show that reports do not follow the ledger. The other four theorems about the
subscriber hold with forks, larger blocks and database errors.

**The processor.** `EntriesUniqueAndPlaced` is what makes collisions harmless: only with it does
`get_record` return the one entry `transfer_record` extends. It is inductive together with the
types. To speak of the owner of a record one more conjunct is needed, `HistoriesHaveLatest`: the
history of every record has a first largest timestamp, so `LatestPosition` is defined. A new
record has one entry, and an entry appended to a history becomes the latest or leaves the one
there was, which is also what decides whether a transfer takes effect (`LatestAfterAppend`,
`TransferEffect`). `IInv` joins the three. Each action is then described by one lemma in terms
of what it does to the record it names and to every other one, and the action properties and the
refinement follow from these lemmas without opening containers again. What holds of the
handler's operators alone is in `SupplyHandler_proofs` and serves three of the proof modules.

**Transactions in parallel.** Whether a transaction is accepted depends only on the addresses it
declares as inputs (`JudgedByInputs`); it writes only those it declares as outputs, and what it
writes there depends on nothing else (`WritesOutputs`). `Declares` says which addresses the
client names. Of two transactions that do not write what the other declares,
each then meets the same containers before and after the other, and the two states agree
address by address. Nothing is assumed of the map from identifiers to addresses, so this
includes every pattern of collisions.

**Several validators.** That no block is refused says nothing about the blocks still to be
executed, so it is not inductive. Two conjuncts are added. `ChainFollows`: every block was
accepted by its publisher on the ledger of the block before it, and carries the ledger that
results. `OnTheChain`: each validator's ledger is the one of the chain at its height. Then the
next block meets the ledger it was made for, all guards but the clock's come out the same, and
every reading of a clock accepts a timestamp that is at most `ClientError` ahead of the time,
now and later.

**The subscriber, with forks.** `IInv` says what the tables promise whatever chain they were
filled from. `BlocksMade`: a block names an agent or a record once, and an agent by the block
itself. `Tables`: every row starts with a block that is recorded, and ends with one or with none,
or is live; an agent, a record, and an owner of a record are live at most once; the live owners
of a record are those some one block gave it. That the rows of a dropped block are gone rests on
a detail of `drop_fork`: it finds the owners it deletes by the records it deletes, so the
invariant has to say that each row of an owner has a row of its record with the same start
(`OwnersTraced`). Rows whose end is set to null are never live again, which keeps "at most once"
and is what `sub_fork_agents` complains of. Locations are left out of the promise, as `drop_fork`
leaves them in the table.

**The subscriber, without forks.** `LInv` adds that the chain holds every block made
(`LinearChain`), that the live rows are the ledger's state at the last block recorded, locations
included (`Mirrors`), that every block with changes up to there was recorded
(`RecordedUpToLatest`), and that between there and the next event nothing changes
(`NothingMissing`). A step of `HandleBlock` then moves the report to the state of the next block,
a skipped or repeated one leaves it, and a new block adds a state at the end of the ledger
(`LedgerStates`, `LedgerGrows`): every step is one of `LedgerFollower` or a stutter. `QInv` says
of a query under way that its parts are those of versions between the block that was the latest
when it began and the latest now; statements read in order keep the parts in order.

**The REST API.** `AllSound` says of each request what the point it has reached promises: of its
batch, of the ledger and of the `auth` table. A request waiting to store a login has its agent
on the ledger, one that was answered 200 has its batch executed, one that was answered 400 has a
batch that never will be. The promises outlive the steps of other requests because an agent
never leaves the ledger (`EffectKeepsAgents`) and a batch once executed or refused stays so.

**Answered transfers.** That the new owner keeps the record is not inductive, since a late
execution might add a newer owner from nowhere. `HInv` adds where owners come from. Requests
are dated in the order they are made (`InTimeOrder`). Every owner in a history is older than all
requests or was put there by a committed one with its timestamp (`AllTraced`). And a transfer
stands from the moment its batch is executed, whether it has been answered or not
(`TransfersStand`): it leads the history, or a later request was committed, or somebody shares
its second. An entry appended by an earlier request is no newer and cannot lead.

**Tokens.** `CopiesAgree` has `Paired` as inductive form, which adds the parts of the state and
the domains of the two functions; one lemma per operation of `TokenState` shows that the
operation keeps it. The other theorems rest on `Shaped`, the shape of the state without bounds
on amounts, and on a disjunction, `StepKinds`, that classes the steps: accounts change, a token is
issued, immutables are added, a status is set, something is transferred or paid, attributes are
set, or nothing happens. Every step of `Next` keeps `Shaped` and is one of these. Each theorem is
then a question about these kinds. Payments are the one kind with a loop behind it. Its effect is
taken as the model states it, receiver by receiver.

**Supplies.** `SupplyInv` joins the types, the totals (`TotalsAreSupplies`), that only issued
tokens are held and the issuer of payments holds cash (`HoldingsAreIssued`), that a payment is a
whole amount for each unit (`PaymentsDivide`), that the Cash Token itself promises nothing once
there is an issuer (`CashPaysNothing`), and that no balance is negative, of cash while all other
tokens with payments are covered (`NobodyOwes`, `CashIsCovered`). The conjuncts need each other:
a heartbeat checks the issuer's balance against the payment as a whole, and the shares it then
pays come to no more than that only because the holders, none of them below zero, together hold
no more than the supply. Coverage is only ever lost (`CoverLasts`), so what is covered after a
step was covered before it. The proof takes the payments one by one and, in each, splits the
total into the issuer's part and the receivers'. Its facts about sums are those of `FiniteSums`.
A sum is a recursive function on the subsets of a set; that it exists is shown by looking at a
smallest subset for which it would not, so no induction theorem that takes an operator is used.

**Token clients.** A call that reaches the processor takes one of the same kinds of step, so what
`TokenTP` promises of single steps it promises here too (`ApiReactivation`, `ApiNarrowing`). For
the rest, `AllSound` says of each call what holds since it asked: a call past `CheckManager`
belongs to the manager there is, and no kind of step replaces a manager (`ManagerStays`).
`ApiInv` adds that balances once held stay (`HoldersStay`), which keeps lists valid, and that the
attributes on a balance are those noted of it, money moved or not, to oneself or to others
(`NotesKept`); that they are the same at both addresses is `Paired`, which the processor keeps
whoever calls it (`ApiPairs`). `DeclaredWrites` goes through the kinds of call: each operation
writes within a set of addresses, and the client names that set before it knows the state the
transaction will meet.

Only model-checked: `EventuallyCurrent`, `EveryoneCatchesUp`, `EveryRequestEnds` and
`EveryCallEnds`. They are liveness under fairness, which is out of the reach of the prover. The
properties of the five runs that end in a violation are false and have no proof.

## Not modelled

* The web application and the explorer: presentation without state of its own.
* Deployment and build scripts, generated protobuf code, logging, argument parsing and key
  files.
* Cryptography: keys, signatures, hashes and the encryption of stored keys. Wire encodings.
* The validator, Postgres and the Sawtooth SDK are external and appear only as the code uses
  them; in particular consensus is not modelled, nor which of two competing blocks wins.
* `authenticate` and the requests that only read, apart from the queries for records. Queries
  are interleaved with a chain without forks only: with forks the tables themselves fall short
  (`sub_fork_locations`, `sub_fork_agents`), and an answer is no better than they are.
* Time zones as such: the day of a timestamp is one map, `DateOf`, for all validators of the
  token system.
* Pages of state lists: a client of the token system reads one page, and here the lists fit.
* `set_manager`, `set_issuer` and `set_account` of the command line client, which end in a
  TypeError before anything is sent.
