------------------------------- MODULE RestApi -------------------------------
(***************************************************************************)
(* The requests of the Simple Supply REST API that change something        *)
(* (rest_api/simple_supply_rest_api/route_handler.py, messaging.py and the *)
(* auth table of database.py), with the validator and the transaction      *)
(* processor behind it.                                                    *)
(*                                                                         *)
(* Each request is a coroutine: between two awaits other requests run, the *)
(* validator executes batches in any order, and the server may die.  What  *)
(* survives the server is the ledger and the auth table.  A client that is *)
(* told to try again makes a new request, with a new transaction.          *)
(*                                                                         *)
(* The keys of an agent are made by the server and kept in the auth table; *)
(* passwords, tokens and encryption only tie a client to a key, and stand  *)
(* for it here.                                                            *)
(***************************************************************************)
EXTENDS SupplyHandler, ValidatorBatches

CONSTANTS
    Earlier,                 \* ledgers, with auth and the time, the server may start on
    Latitudes, Longitudes,   \* coordinates clients send
    MaxRequests,             \* bound: requests ever made
    MaxClock,                \* bound: the clock stops here
    MaxFaults                \* bound: crashes, lost batches, database errors

(* No owner in the histories of ledger l is dated after now. *)
OwnersDatedBy(l, now) ==
    \A a \in RecordAddresses : \A i \in DOMAIN l[a] :
        \A j \in DOMAIN l[a][i].owners : l[a][i].owners[j].timestamp <= now

(* What is there when the server starts was made through it, and dated by  *)
(* its clock.                                                              *)
MayStartOn(e) ==
    /\ e \in [ledger : GlobalStates, auth : SUBSET Keys, clock : 0 .. MaxClock]
    /\ \A k \in e.auth : AgentExists(e.ledger, k)
    /\ OwnersDatedBy(e.ledger, e.clock)

ASSUME RestApiAssumption ==
    /\ \A e \in Earlier : MayStartOn(e)
    /\ Latitudes \cup Longitudes \subseteq Int
    /\ {MaxRequests, MaxClock, MaxFaults} \subseteq Nat

VARIABLES
    ledger,     \* the global state the validator keeps
    auth,       \* public keys with a row in the auth table
    requests,   \* every request made, in the order of get_time
    clock,      \* utcnow() of the server, and of the processor
    faults      \* what has gone wrong so far

vars == <<ledger, auth, requests, clock, faults>>

-----------------------------------------------------------------------------

(***************************************************************************)
(* What a request waits for, or how it ended: "waiting" for the status of  *)
(* its batch, "storing" the keys of a new agent, answered 200 ("ok"), 400  *)
(* ("bad_request") or 500 ("server_error"), or "cut_off" by a crash.       *)
(***************************************************************************)
InFlight == {"waiting", "storing"}
Ended == {"ok", "bad_request", "server_error", "cut_off"}

Init ==
    /\ \E e \in Earlier : ledger = e.ledger /\ auth = e.auth /\ clock = e.clock
    /\ requests = << >>
    /\ faults = 0

Fault ==
    /\ faults < MaxFaults
    /\ faults' = faults + 1

(* Submit the batch of transaction t; the reply is not looked at. *)
Submit(t) ==
    /\ Len(requests) < MaxRequests
    /\ \E place \in AfterSubmission :
        /\ requests' = Append(requests, [txn |-> t, batch |-> place, stage |-> "waiting"])
        /\ IF place = "pending" THEN UNCHANGED faults ELSE Fault
    /\ UNCHANGED <<ledger, auth, clock>>

(* A key of get_new_key_pair has never been used. *)
CreateAgent(k) ==
    /\ ~AgentExists(ledger, k)
    /\ \A n \in DOMAIN requests :
          requests[n].txn.action = "CREATE_AGENT" => requests[n].txn.signer # k
    /\ Submit(make_create_agent(k, clock))

(* The auth table is asked for the key the token names, else 401. *)
_authorize(k) == k \in auth

CreateRecord(k, lat, lng, id) ==
    /\ _authorize(k)
    /\ Submit(make_create_record(k, lat, lng, id, clock))

TransferRecord(k, receiver, id) ==
    /\ _authorize(k)
    /\ Submit(make_transfer_record(k, receiver, id, clock))

UpdateRecord(k, lat, lng, id) ==
    /\ _authorize(k)
    /\ Submit(make_update_record(k, lat, lng, id, clock))

-----------------------------------------------------------------------------
(* The answer to the status request, by the status of the batch. *)

(* Faulty variant: a batch the validator does not know is taken for done. *)
StageAfter_IgnoreUnknown(t, status) ==
    CASE status = "INVALID" -> "bad_request"
      [] status = "PENDING" -> "server_error"
      [] OTHER -> IF t.action = "CREATE_AGENT" THEN "storing" ELSE "ok"

(* Faulty variant: a batch that has not been committed in time is refused. *)
StageAfter_RefuseLate(t, status) ==
    CASE status \in {"INVALID", "PENDING"} -> "bad_request"
      [] status = "UNKNOWN" -> "server_error"
      [] OTHER -> IF t.action = "CREATE_AGENT" THEN "storing" ELSE "ok"

(* Faulty variant: the new agent's keys are not stored. *)
StageAfter_NoAuth(t, status) ==
    CASE status = "INVALID" -> "bad_request"
      [] status \in {"PENDING", "UNKNOWN"} -> "server_error"
      [] OTHER -> "ok"

StageAfter(t, status) ==
    CASE status = "INVALID" -> "bad_request"
      [] status \in {"PENDING", "UNKNOWN"} -> "server_error"
      [] status = "COMMITTED" ->
            IF t.action = "CREATE_AGENT" THEN "storing" ELSE "ok"

(* Faulty variant: asked again for as long as the batch is pending. *)
StatusAnswered_NoTimeout(n) ==
    /\ requests[n].stage = "waiting"
    /\ Status(requests[n].batch) # "PENDING"
    /\ requests' = [requests EXCEPT ![n].stage =
                        StageAfter(requests[n].txn, Status(requests[n].batch))]
    /\ UNCHANGED <<ledger, auth, clock, faults>>

(* At once, or when the validator's wait is over. *)
StatusAnswered(n) ==
    /\ requests[n].stage = "waiting"
    /\ requests' = [requests EXCEPT ![n].stage =
                        StageAfter(requests[n].txn, Status(requests[n].batch))]
    /\ UNCHANGED <<ledger, auth, clock, faults>>

create_auth_entry(n) ==
    /\ requests[n].stage = "storing"
    /\ auth' = auth \cup {requests[n].txn.signer}
    /\ requests' = [requests EXCEPT ![n].stage = "ok"]
    /\ UNCHANGED <<ledger, clock, faults>>

(* The connection to the validator, or the one to Postgres, raises an error. *)
ConnectionFails(n) ==
    /\ Fault
    /\ requests[n].stage \in InFlight
    /\ requests' = [requests EXCEPT ![n].stage = "server_error"]
    /\ UNCHANGED <<ledger, auth, clock>>

(* The server dies with every request in flight, and is started again. *)
Crash ==
    /\ Fault
    /\ \E n \in DOMAIN requests : requests[n].stage \in InFlight
    /\ requests' = [n \in DOMAIN requests |->
                        IF requests[n].stage \in InFlight
                        THEN [requests[n] EXCEPT !.stage = "cut_off"]
                        ELSE requests[n]]
    /\ UNCHANGED <<ledger, auth, clock>>

-----------------------------------------------------------------------------
(* The validator and the transaction processor *)

Execute(n) ==
    LET t == requests[n].txn IN
    /\ Queued(requests[n].batch)
    /\ requests' = [requests EXCEPT ![n].batch =
                        IF Accepts(ledger, t, clock) THEN "committed" ELSE "invalid"]
    /\ ledger' = apply(ledger, t, clock)
    /\ UNCHANGED <<auth, clock, faults>>

Forget(n) ==
    /\ Fault
    /\ \E place \in BatchPlaces :
        /\ Forgets(requests[n].batch, place)
        /\ requests' = [requests EXCEPT ![n].batch = place]
    /\ UNCHANGED <<ledger, auth, clock>>

Tick ==
    /\ clock < MaxClock
    /\ clock' = clock + 1
    /\ UNCHANGED <<ledger, auth, requests, faults>>

-----------------------------------------------------------------------------

Arrive ==
    \E k \in Keys :
        \/ CreateAgent(k)
        \/ \E lat \in Latitudes, lng \in Longitudes :
            \/ \E id \in RecordIds : CreateRecord(k, lat, lng, id)
            \/ \E id \in RecordIds \ {EmptyId} : UpdateRecord(k, lat, lng, id)
        \/ \E receiver \in Keys, id \in RecordIds \ {EmptyId} :
              TransferRecord(k, receiver, id)

Serve(n) == n \in DOMAIN requests /\ (StatusAnswered(n) \/ create_auth_entry(n))

Next ==
    \/ Arrive
    \/ \E n \in DOMAIN requests :
        \/ Serve(n)
        \/ ConnectionFails(n)
        \/ Execute(n)
        \/ Forget(n)
    \/ Crash
    \/ Tick

(***************************************************************************)
(* The event loop runs what it can, and the validator answers a request    *)
(* for a status, at the latest when its wait is over.  Nothing is assumed  *)
(* of when, or whether, a batch is executed.                               *)
(***************************************************************************)
Fairness == \A n \in 1 .. MaxRequests : WF_vars(Serve(n))

Spec == Init /\ [][Next]_vars /\ Fairness

-----------------------------------------------------------------------------
(* Properties *)

Transactions ==
    LET Times == 0 .. MaxClock IN
         {make_create_agent(k, ts) : k \in Keys, ts \in Times}
    \cup {make_create_record(k, lat, lng, id, ts) :
            k \in Keys, lat \in Latitudes, lng \in Longitudes, id \in RecordIds, ts \in Times}
    \cup {make_transfer_record(k, receiver, id, ts) :
            k \in Keys, receiver \in Keys, id \in RecordIds, ts \in Times}
    \cup {make_update_record(k, lat, lng, id, ts) :
            k \in Keys, lat \in Latitudes, lng \in Longitudes, id \in RecordIds, ts \in Times}

(* Type invariant. *)
TypeOK ==
    /\ ledger \in GlobalStates
    /\ auth \in SUBSET Keys
    /\ requests \in Seq([txn : Transactions, batch : BatchPlaces, stage : InFlight \cup Ended])
    /\ clock \in 0 .. MaxClock
    /\ faults \in 0 .. MaxFaults

(***************************************************************************)
(* Whoever can log in is an agent of the ledger: the row in auth is only   *)
(* written for a registration that is committed, whatever was refused,     *)
(* forgotten, late or cut off on the way (route_handler.py:68-78).         *)
(***************************************************************************)
AccountsAreAgents == \A k \in auth : AgentExists(ledger, k)

(***************************************************************************)
(* A request answered 200 has been done: its transaction is on the ledger  *)
(* and a new agent can log in (messaging.py:136-146).                      *)
(***************************************************************************)
OkMeansDone ==
    \A n \in DOMAIN requests : requests[n].stage = "ok" =>
        /\ requests[n].batch = "committed"
        /\ requests[n].txn.action = "CREATE_AGENT" => requests[n].txn.signer \in auth

(***************************************************************************)
(* A request answered 400 has no effect, not even later: a client told so  *)
(* need not fear that it happens after all, as it must after a 500.        *)
(***************************************************************************)
BadRequestMeansNever ==
    \A n \in DOMAIN requests : requests[n].stage = "bad_request" =>
        requests[n].batch \in {"invalid", "gone"}

(***************************************************************************)
(* The new owner of a transfer answered 200 keeps the record until a       *)
(* request made later is committed: no earlier transfer that was given up  *)
(* as timed out and is committed late takes it away.  Unless the history   *)
(* has another entry of the same second, which decides then (handler.py    *)
(* :160, max() returns the first).                                         *)
(***************************************************************************)
Names(t, id) == t.action \in {"CREATE_RECORD", "TRANSFER_RECORD"} /\ t.record_id = id

Superseded(n) ==
    \E m \in DOMAIN requests :
        /\ n < m
        /\ Names(requests[m].txn, requests[n].txn.record_id)
        /\ requests[m].batch = "committed"

SharesItsSecond(owners, ts) ==
    \E i, j \in DOMAIN owners : i # j /\ owners[i].timestamp = ts /\ owners[j].timestamp = ts

AnsweredTransferStands ==
    \A n \in DOMAIN requests :
        LET t == requests[n].txn IN
        t.action = "TRANSFER_RECORD" /\ requests[n].stage = "ok" =>
            \/ LatestOwner(get_record(ledger, t.record_id)) = t.receiving_agent
            \/ Superseded(n)
            \/ SharesItsSecond(get_record(ledger, t.record_id).owners, t.timestamp)

(***************************************************************************)
(* Every request ends, though its batch may stay pending for ever: nobody  *)
(* waits for a commit that does not come (wait=True has a limit).          *)
(***************************************************************************)
Has(n, stages) == n \in DOMAIN requests /\ requests[n].stage \in stages

EveryRequestEnds ==
    \A n \in 1 .. MaxRequests : Has(n, InFlight) ~> Has(n, Ended)
=============================================================================
