---------------------------- MODULE RestApi_proofs ----------------------------
(***************************************************************************)
(* Proofs about RestApi, for any number of agents, records and requests,   *)
(* and any number of crashes, lost batches and database errors.            *)
(***************************************************************************)
EXTENDS RestApi, SupplyHandler_proofs

USE AddressingAssumption, ToleranceAssumption

(* What clients send, and the bounds.                                      *)
LEMMA ConstantsType ==
    /\ \A x \in Latitudes \cup Longitudes : x \in Int
    /\ MaxRequests \in Nat /\ MaxClock \in Nat /\ MaxFaults \in Nat
BY RestApiAssumption

USE ConstantsType

Stages == InFlight \cup Ended
Requests == [txn : Transactions, batch : BatchPlaces, stage : Stages]

(* What a request and its batch promise, given the ledger l and the rows   *)
(* of the auth table a.                                                    *)
Sound(r, l, a) ==
    LET creates == r.txn.action = "CREATE_AGENT" IN
    /\ r.stage = "storing" => creates /\ r.batch = "committed"
    /\ r.batch = "committed" /\ creates => AgentExists(l, r.txn.signer)
    /\ r.stage = "ok" => r.batch = "committed" /\ (creates => r.txn.signer \in a)
    /\ r.stage = "bad_request" => r.batch \in {"invalid", "gone"}

AllSound == \A n \in DOMAIN requests : Sound(requests[n], ledger, auth)

-----------------------------------------------------------------------------
(* Types *)

LEMMA SubmittedTransactions ==
    ASSUME clock \in 0 .. MaxClock, NEW k \in Keys
    PROVE  /\ make_create_agent(k, clock) \in Transactions
           /\ \A lat \in Latitudes, lng \in Longitudes, id \in RecordIds :
                 /\ make_create_record(k, lat, lng, id, clock) \in Transactions
                 /\ make_update_record(k, lat, lng, id, clock) \in Transactions
           /\ \A receiver \in Keys, id \in RecordIds :
                 make_transfer_record(k, receiver, id, clock) \in Transactions
BY DEF Transactions

LEMMA TransactionsWellFormed ==
    ASSUME NEW t \in Transactions
    PROVE  WellFormed(t)
<1>1. 0 .. MaxClock \subseteq Nat
  OBVIOUS
<1> QED BY <1>1, BuiltWellFormed DEF Transactions

(* An element of the list of requests.                                     *)
LEMMA RequestType ==
    ASSUME requests \in Seq(Requests), NEW n \in DOMAIN requests
    PROVE  /\ requests[n] \in Requests
           /\ requests[n].txn \in Transactions
           /\ requests[n].batch \in BatchPlaces
           /\ requests[n].stage \in Stages
<1>1. requests[n] \in Requests
  OBVIOUS
<1> QED BY <1>1 DEF Requests

(* Changing the stage or the batch of one request changes nothing else.    *)
WithStage(n, stage) == [requests EXCEPT ![n].stage = stage]

LEMMA StageSet ==
    ASSUME requests \in Seq(Requests), NEW n \in DOMAIN requests, NEW stage \in Stages
    PROVE  LET u == WithStage(n, stage) IN
           /\ u \in Seq(Requests)
           /\ DOMAIN u = DOMAIN requests
           /\ u[n].txn = requests[n].txn
           /\ u[n].batch = requests[n].batch
           /\ u[n].stage = stage
           /\ \A m \in DOMAIN requests : m # n => u[m] = requests[m]
<1> DEFINE u == WithStage(n, stage)
<1>1. requests[n] \in Requests
  OBVIOUS
<1>2. [requests[n] EXCEPT !.stage = stage] \in Requests
  BY <1>1 DEF Requests
<1>3. u = [requests EXCEPT ![n] = [requests[n] EXCEPT !.stage = stage]]
  BY DEF WithStage
<1> DEFINE r == [requests[n] EXCEPT !.stage = stage]
<1>4. r.txn = requests[n].txn /\ r.batch = requests[n].batch /\ r.stage = stage
  BY <1>1 DEF Requests
<1> HIDE DEF r, u
<1>5. u = [requests EXCEPT ![n] = r] /\ r \in Requests
  BY <1>2, <1>3 DEF r
<1>6. /\ u \in Seq(Requests)
      /\ DOMAIN u = DOMAIN requests
      /\ u[n] = r
      /\ \A m \in DOMAIN requests : m # n => u[m] = requests[m]
  BY <1>5
<1> QED BY <1>4, <1>6 DEF u

WithBatch(n, batch) == [requests EXCEPT ![n].batch = batch]

LEMMA BatchSet ==
    ASSUME requests \in Seq(Requests), NEW n \in DOMAIN requests, NEW batch \in BatchPlaces
    PROVE  LET u == WithBatch(n, batch) IN
           /\ u \in Seq(Requests)
           /\ DOMAIN u = DOMAIN requests
           /\ u[n].txn = requests[n].txn
           /\ u[n].batch = batch
           /\ u[n].stage = requests[n].stage
           /\ \A m \in DOMAIN requests : m # n => u[m] = requests[m]
<1> DEFINE u == WithBatch(n, batch)
<1>1. requests[n] \in Requests
  OBVIOUS
<1>2. [requests[n] EXCEPT !.batch = batch] \in Requests
  BY <1>1 DEF Requests
<1>3. u = [requests EXCEPT ![n] = [requests[n] EXCEPT !.batch = batch]]
  BY DEF WithBatch
<1> DEFINE r == [requests[n] EXCEPT !.batch = batch]
<1>4. r.txn = requests[n].txn /\ r.stage = requests[n].stage /\ r.batch = batch
  BY <1>1 DEF Requests
<1> HIDE DEF r, u
<1>5. u = [requests EXCEPT ![n] = r] /\ r \in Requests
  BY <1>2, <1>3 DEF r
<1>6. /\ u \in Seq(Requests)
      /\ DOMAIN u = DOMAIN requests
      /\ u[n] = r
      /\ \A m \in DOMAIN requests : m # n => u[m] = requests[m]
  BY <1>5
<1> QED BY <1>4, <1>6 DEF u

LEMMA StageAfterType ==
    ASSUME NEW t, NEW place \in BatchPlaces
    PROVE  StageAfter(t, Status(place)) \in Stages
BY DEF BatchPlaces, StageAfter, Status, Stages, InFlight, Ended

-----------------------------------------------------------------------------
(* What each action does to the list of requests, the ledger and auth.     *)

Typed ==
    /\ ledger \in GlobalStates
    /\ auth \in SUBSET Keys
    /\ requests \in Seq(Requests)
    /\ clock \in 0 .. MaxClock
    /\ faults \in 0 .. MaxFaults

LEMMA TypedIsTypeOK == Typed <=> TypeOK
BY DEF Typed, TypeOK, Requests, Stages

LEMMA FaultType ==
    ASSUME faults \in 0 .. MaxFaults, Fault
    PROVE  faults' \in 0 .. MaxFaults
BY DEF Fault

(* The agents a ledger has stay in what comes after it.                    *)
Outlives(l) == \A k \in Keys : AgentExists(ledger, k) => AgentExists(l, k)

Kept == Typed' /\ AllSound' /\ AccountsAreAgents'

(* A request is sound after a step that neither changes it nor takes away  *)
(* an agent or a row of auth.                                              *)
LEMMA StaysSound ==
    ASSUME NEW r \in Requests, NEW l, Outlives(l), NEW a, auth \subseteq a,
           Sound(r, ledger, auth)
    PROVE  Sound(r, l, a)
<1>1. r.txn.action = "CREATE_AGENT" => r.txn.signer \in Keys
  <2>1. WellFormed(r.txn)
    BY TransactionsWellFormed DEF Requests
  <2> QED BY <2>1 DEF WellFormed
<1> QED BY <1>1 DEF Sound, Outlives

LEMMA ArriveKeeps ==
    ASSUME Typed, AllSound, AccountsAreAgents, NEW t \in Transactions, Submit(t)
    PROVE  Kept
<1> PICK place \in AfterSubmission :
        /\ requests' = Append(requests, [txn |-> t, batch |-> place, stage |-> "waiting"])
        /\ IF place = "pending" THEN UNCHANGED faults ELSE Fault
  BY DEF Submit
<1> DEFINE r == [txn |-> t, batch |-> place, stage |-> "waiting"]
<1>1. r \in Requests
  BY DEF Requests, AfterSubmission, BatchPlaces, Stages, InFlight
<1>2. Sound(r, ledger, auth)
  BY DEF Sound, AfterSubmission
<1>3. requests' = Append(requests, r) /\ UNCHANGED <<ledger, auth, clock>>
  BY DEF Submit
<1> HIDE DEF r
<1>4. faults' \in 0 .. MaxFaults
  BY FaultType DEF Typed
<1>5. Typed'
  BY <1>1, <1>3, <1>4 DEF Typed
<1>6. ASSUME NEW n \in DOMAIN requests' PROVE Sound(requests'[n], ledger, auth)
  <2>1. CASE n \in DOMAIN requests
    BY <1>3, <2>1 DEF Typed, AllSound
  <2>2. CASE n \notin DOMAIN requests
    BY <1>1, <1>2, <1>3, <2>2 DEF Typed
  <2> QED BY <2>1, <2>2
<1> QED BY <1>3, <1>5, <1>6 DEF Kept, AllSound, AccountsAreAgents

(* One request changes, and what it promises then is kept.                 *)
LEMMA OneChanges ==
    ASSUME Typed, AllSound, AccountsAreAgents, NEW n \in DOMAIN requests,
           ledger' \in GlobalStates, Outlives(ledger'),
           auth' \in SUBSET Keys, auth \subseteq auth',
           \A k \in auth' \ auth : AgentExists(ledger', k),
           requests' \in Seq(Requests), DOMAIN requests' = DOMAIN requests,
           \A m \in DOMAIN requests : m # n => requests'[m] = requests[m],
           Sound(requests'[n], ledger', auth'),
           clock' = clock, faults' \in 0 .. MaxFaults
    PROVE  Kept
<1>1. Typed'
  BY DEF Typed
<1>2. AccountsAreAgents'
  BY DEF AccountsAreAgents, Outlives, Typed
<1>3. ASSUME NEW m \in DOMAIN requests' PROVE Sound(requests'[m], ledger', auth')
  <2>1. CASE m = n
    BY <2>1
  <2>2. CASE m # n
    <3>1. Sound(requests[m], ledger, auth) /\ requests[m] \in Requests
      BY RequestType DEF AllSound, Typed
    <3> QED BY <2>2, <3>1, StaysSound
  <2> QED BY <2>1, <2>2
<1> QED BY <1>1, <1>2, <1>3 DEF Kept, AllSound

LEMMA StatusAnsweredKeeps ==
    ASSUME Typed, AllSound, AccountsAreAgents, NEW n \in DOMAIN requests, StatusAnswered(n)
    PROVE  Kept
<1> DEFINE stage == StageAfter(requests[n].txn, Status(requests[n].batch))
<1>1. /\ requests' = WithStage(n, stage)
      /\ UNCHANGED <<ledger, auth, clock, faults>>
  BY DEF StatusAnswered, WithStage
<1>2. requests[n].batch \in BatchPlaces /\ stage \in Stages
  BY RequestType, StageAfterType DEF Typed
<1>3. /\ stage = "storing" =>
            requests[n].batch = "committed" /\ requests[n].txn.action = "CREATE_AGENT"
      /\ stage = "ok" =>
            requests[n].batch = "committed" /\ requests[n].txn.action # "CREATE_AGENT"
      /\ stage = "bad_request" => requests[n].batch \in {"invalid", "gone"}
  BY <1>2 DEF StageAfter, Status, BatchPlaces
<1> HIDE DEF stage
<1>4. /\ requests' \in Seq(Requests)
      /\ DOMAIN requests' = DOMAIN requests
      /\ requests'[n].txn = requests[n].txn
      /\ requests'[n].batch = requests[n].batch
      /\ requests'[n].stage = stage
      /\ \A m \in DOMAIN requests : m # n => requests'[m] = requests[m]
  <2>0. requests \in Seq(Requests)
    BY DEF Typed
  <2> QED BY <1>1, <1>2, <2>0, StageSet
<1>5. Sound(requests[n], ledger, auth)
  BY DEF AllSound
<1>6. Sound(requests'[n], ledger', auth')
  BY <1>1, <1>3, <1>4, <1>5 DEF Sound
<1> QED BY <1>1, <1>4, <1>6, OneChanges DEF Typed, Outlives

LEMMA AuthEntryKeeps ==
    ASSUME Typed, AllSound, AccountsAreAgents, NEW n \in DOMAIN requests, create_auth_entry(n)
    PROVE  Kept
<1> DEFINE k == requests[n].txn.signer
<1>1. /\ requests[n].stage = "storing"
      /\ auth' = auth \cup {k}
      /\ requests' = WithStage(n, "ok")
      /\ UNCHANGED <<ledger, clock, faults>>
  BY DEF create_auth_entry, WithStage
<1>2. Sound(requests[n], ledger, auth)
  BY DEF AllSound
<1>3. /\ requests[n].txn.action = "CREATE_AGENT"
      /\ requests[n].batch = "committed"
      /\ AgentExists(ledger, k)
  BY <1>1, <1>2 DEF Sound
<1>4. k \in Keys
  <2>1. WellFormed(requests[n].txn)
    BY RequestType, TransactionsWellFormed DEF Typed
  <2> QED BY <1>3, <2>1 DEF WellFormed
<1>5. "ok" \in Stages
  BY DEF Stages, Ended
<1>6. /\ requests' \in Seq(Requests)
      /\ DOMAIN requests' = DOMAIN requests
      /\ requests'[n].txn = requests[n].txn
      /\ requests'[n].batch = requests[n].batch
      /\ requests'[n].stage = "ok"
      /\ \A m \in DOMAIN requests : m # n => requests'[m] = requests[m]
  <2>0. requests \in Seq(Requests)
    BY DEF Typed
  <2> QED BY <1>1, <1>5, <2>0, StageSet
<1>7. Sound(requests'[n], ledger', auth')
  BY <1>1, <1>3, <1>6 DEF Sound
<1> QED BY <1>1, <1>3, <1>4, <1>6, <1>7, OneChanges DEF Typed, Outlives

LEMMA ConnectionFailsKeeps ==
    ASSUME Typed, AllSound, AccountsAreAgents, NEW n \in DOMAIN requests, ConnectionFails(n)
    PROVE  Kept
<1>1. /\ requests' = WithStage(n, "server_error")
      /\ UNCHANGED <<ledger, auth, clock>>
      /\ faults' \in 0 .. MaxFaults
  BY FaultType DEF ConnectionFails, Typed, WithStage
<1>2. "server_error" \in Stages
  BY DEF Stages, Ended
<1>3. /\ requests' \in Seq(Requests)
      /\ DOMAIN requests' = DOMAIN requests
      /\ requests'[n].txn = requests[n].txn
      /\ requests'[n].batch = requests[n].batch
      /\ requests'[n].stage = "server_error"
      /\ \A m \in DOMAIN requests : m # n => requests'[m] = requests[m]
  <2>0. requests \in Seq(Requests)
    BY DEF Typed
  <2> QED BY <1>1, <1>2, <2>0, StageSet
<1>4. Sound(requests[n], ledger, auth)
  BY DEF AllSound
<1>5. Sound(requests'[n], ledger', auth')
  BY <1>1, <1>3, <1>4 DEF Sound
<1> QED BY <1>1, <1>3, <1>5, OneChanges DEF Typed, Outlives

LEMMA CrashKeeps ==
    ASSUME Typed, AllSound, AccountsAreAgents, Crash
    PROVE  Kept
<1>1. /\ requests' = [n \in DOMAIN requests |->
                          IF requests[n].stage \in InFlight
                          THEN [requests[n] EXCEPT !.stage = "cut_off"]
                          ELSE requests[n]]
      /\ UNCHANGED <<ledger, auth, clock>>
      /\ faults' \in 0 .. MaxFaults
  BY FaultType DEF Crash, Typed
<1>2. ASSUME NEW n \in DOMAIN requests
      PROVE  requests'[n] \in Requests /\ Sound(requests'[n], ledger, auth)
  <2>1. requests[n] \in Requests /\ Sound(requests[n], ledger, auth)
    BY RequestType DEF Typed, AllSound
  <2>2. CASE requests[n].stage \notin InFlight
    BY <1>1, <2>1, <2>2
  <2>3. CASE requests[n].stage \in InFlight
    <3>1. requests'[n] = [requests[n] EXCEPT !.stage = "cut_off"]
      BY <1>1, <2>3
    <3> QED BY <2>1, <3>1 DEF Requests, Stages, Ended, Sound
  <2> QED BY <2>2, <2>3
<1>3. DOMAIN requests' = DOMAIN requests /\ requests' \in Seq(Requests)
  <2>1. DOMAIN requests = 1 .. Len(requests) /\ Len(requests) \in Nat
    BY DEF Typed
  <2> QED BY <1>1, <1>2, <2>1
<1> QED BY <1>1, <1>2, <1>3 DEF Kept, Typed, AllSound, AccountsAreAgents

LEMMA ExecuteKeeps ==
    ASSUME Typed, AllSound, AccountsAreAgents, NEW n \in DOMAIN requests, Execute(n)
    PROVE  Kept
<1> DEFINE t == requests[n].txn
           batch == IF Accepts(ledger, t, clock) THEN "committed" ELSE "invalid"
<1>1. /\ Queued(requests[n].batch)
      /\ requests' = WithBatch(n, batch)
      /\ ledger' = IF batch = "committed" THEN Effect(ledger, t) ELSE ledger
      /\ UNCHANGED <<auth, clock, faults>>
  BY DEF Execute, apply, WithBatch
<1>2. WellFormed(t)
  BY RequestType, TransactionsWellFormed DEF Typed
<1>3. batch \in BatchPlaces /\ batch \in {"committed", "invalid"}
  BY DEF BatchPlaces
<1> HIDE DEF batch
<1>4. ledger' \in GlobalStates /\ Outlives(ledger')
  BY <1>1, <1>2, EffectType, EffectKeepsAgents DEF Typed, Outlives
<1>5. /\ requests' \in Seq(Requests)
      /\ DOMAIN requests' = DOMAIN requests
      /\ requests'[n].txn = t
      /\ requests'[n].batch = batch
      /\ requests'[n].stage = requests[n].stage
      /\ \A m \in DOMAIN requests : m # n => requests'[m] = requests[m]
  <2>0. requests \in Seq(Requests)
    BY DEF Typed
  <2> QED BY <1>1, <1>3, <2>0, BatchSet
<1>6. Sound(requests[n], ledger, auth)
  BY DEF AllSound
<1>7. batch = "committed" /\ t.action = "CREATE_AGENT" => AgentExists(ledger', t.signer)
  BY <1>1, <1>2, EffectCreatesAgent DEF Typed
<1>8. requests[n].stage \notin {"storing", "ok", "bad_request"}
  BY <1>1, <1>6 DEF Sound, Queued
<1>9. Sound(requests'[n], ledger', auth')
  BY <1>1, <1>5, <1>7, <1>8 DEF Sound
<1> QED BY <1>1, <1>4, <1>5, <1>9, OneChanges DEF Typed

LEMMA ForgetKeeps ==
    ASSUME Typed, AllSound, AccountsAreAgents, NEW n \in DOMAIN requests, Forget(n)
    PROVE  Kept
<1> PICK place \in BatchPlaces :
        /\ Forgets(requests[n].batch, place)
        /\ requests' = WithBatch(n, place)
  BY DEF Forget, WithBatch
<1>1. UNCHANGED <<ledger, auth, clock>> /\ faults' \in 0 .. MaxFaults
  BY FaultType DEF Forget, Typed
<1>2. /\ requests' \in Seq(Requests)
      /\ DOMAIN requests' = DOMAIN requests
      /\ requests'[n].txn = requests[n].txn
      /\ requests'[n].batch = place
      /\ requests'[n].stage = requests[n].stage
      /\ \A m \in DOMAIN requests : m # n => requests'[m] = requests[m]
  <2>0. requests \in Seq(Requests)
    BY DEF Typed
  <2> QED BY <2>0, BatchSet
<1>3. Sound(requests[n], ledger, auth)
  BY DEF AllSound
<1>4. Sound(requests'[n], ledger', auth')
  BY <1>1, <1>2, <1>3 DEF Sound, Forgets
<1> QED BY <1>1, <1>2, <1>4, OneChanges DEF Typed, Outlives

-----------------------------------------------------------------------------

LEMMA ArrivalSubmits ==
    ASSUME Typed, Arrive
    PROVE  \E t \in Transactions : t.timestamp = clock /\ Submit(t)
<1>1. clock \in 0 .. MaxClock
  BY DEF Typed
<1> PICK k \in Keys :
        \/ CreateAgent(k)
        \/ \E lat \in Latitudes, lng \in Longitudes :
            \/ \E id \in RecordIds : CreateRecord(k, lat, lng, id)
            \/ \E id \in RecordIds \ {EmptyId} : UpdateRecord(k, lat, lng, id)
        \/ \E receiver \in Keys, id \in RecordIds \ {EmptyId} :
              TransferRecord(k, receiver, id)
  BY DEF Arrive
<1>2. CASE CreateAgent(k)
  BY <1>1, <1>2, SubmittedTransactions DEF CreateAgent, make_create_agent
<1>3. ASSUME NEW lat \in Latitudes, NEW lng \in Longitudes, NEW id \in RecordIds,
             CreateRecord(k, lat, lng, id) \/ UpdateRecord(k, lat, lng, id)
      PROVE  \E t \in Transactions : t.timestamp = clock /\ Submit(t)
  BY <1>1, <1>3, SubmittedTransactions
     DEF CreateRecord, UpdateRecord, make_create_record, make_update_record
<1>4. ASSUME NEW receiver \in Keys, NEW id \in RecordIds, TransferRecord(k, receiver, id)
      PROVE  \E t \in Transactions : t.timestamp = clock /\ Submit(t)
  BY <1>1, <1>4, SubmittedTransactions DEF TransferRecord, make_transfer_record
<1> QED BY <1>2, <1>3, <1>4

LEMMA StepKeeps ==
    ASSUME Typed, AllSound, AccountsAreAgents, [Next]_vars
    PROVE  Kept
<1>1. CASE Arrive
  BY <1>1, ArrivalSubmits, ArriveKeeps
<1>2. ASSUME NEW n \in DOMAIN requests,
             Serve(n) \/ ConnectionFails(n) \/ Execute(n) \/ Forget(n)
      PROVE  Kept
  BY <1>2, StatusAnsweredKeeps, AuthEntryKeeps, ConnectionFailsKeeps, ExecuteKeeps, ForgetKeeps
     DEF Serve
<1>3. CASE Crash
  BY <1>3, CrashKeeps
<1>4. CASE Tick \/ UNCHANGED vars
  <2>1. UNCHANGED <<ledger, auth, requests, faults>> /\ clock' \in 0 .. MaxClock
    BY <1>4 DEF Tick, vars, Typed
  <2> QED BY <2>1 DEF Kept, Typed, AllSound, AccountsAreAgents
<1> QED BY <1>1, <1>2, <1>3, <1>4 DEF Next

Inv == Typed /\ AllSound /\ AccountsAreAgents

LEMMA Invariance == Spec => []Inv
<1>1. Init => Inv
  <2> SUFFICES ASSUME Init PROVE Inv
    OBVIOUS
  <2>1. PICK e \in Earlier : ledger = e.ledger /\ auth = e.auth /\ clock = e.clock
    BY DEF Init
  <2>2. requests = << >> /\ faults = 0
    BY DEF Init
  <2>0. MayStartOn(e)
    BY RestApiAssumption
  <2>3. Typed
    BY <2>0, <2>1, <2>2 DEF Typed, MayStartOn
  <2>4. AllSound
    BY <2>2 DEF AllSound
  <2>5. AccountsAreAgents
    BY <2>0, <2>1 DEF AccountsAreAgents, MayStartOn
  <2> QED BY <2>3, <2>4, <2>5 DEF Inv
<1>2. Inv /\ [Next]_vars => Inv'
  BY StepKeeps DEF Inv, Kept
<1> QED BY <1>1, <1>2, PTL DEF Spec

(* The ledger, the auth table and the requests keep their types.           *)
THEOREM RequestsTyped == Spec => []TypeOK
<1>1. Inv => TypeOK
  BY TypedIsTypeOK DEF Inv
<1> QED BY <1>1, Invariance, PTL

(* Whoever can log in is an agent of the ledger, whatever was refused,     *)
(* forgotten, late or cut off.                                             *)
THEOREM LoginsAreAgents == Spec => []AccountsAreAgents
<1>1. Inv => AccountsAreAgents
  BY DEF Inv
<1> QED BY <1>1, Invariance, PTL

(* A request answered 200 has been done.                                   *)
THEOREM OkIsKept == Spec => []OkMeansDone
<1>1. Inv => OkMeansDone
  BY DEF Inv, AllSound, Sound, OkMeansDone
<1> QED BY <1>1, Invariance, PTL

(* A request answered 400 never takes effect.                              *)
THEOREM BadRequestIsFinal == Spec => []BadRequestMeansNever
<1>1. Inv => BadRequestMeansNever
  BY DEF Inv, AllSound, Sound, BadRequestMeansNever
<1> QED BY <1>1, Invariance, PTL

-----------------------------------------------------------------------------
(***************************************************************************)
(* Answered transfers.  Requests are dated in the order they are made.     *)
(* Every owner in a history was there from the start, and is older than    *)
(* any request, or stands for a committed request.  And what the property  *)
(* says of answered transfers holds of committed ones from the moment they *)
(* are executed: they are the newest entry.                                *)
(***************************************************************************)
Done(n) == requests[n].batch = "committed"

InTimeOrder ==
    \A n \in DOMAIN requests :
        /\ requests[n].txn.timestamp <= clock
        /\ \A m \in DOMAIN requests :
              m <= n => requests[m].txn.timestamp <= requests[n].txn.timestamp

(* Where owner o of record id comes from, given requests rs and the time.  *)
Older(rs, now, o) ==
    /\ o.timestamp <= now
    /\ \A n \in DOMAIN rs : o.timestamp <= rs[n].txn.timestamp

Traced(rs, now, o, id) ==
    \/ Older(rs, now, o)
    \/ \E n \in DOMAIN rs :
        /\ rs[n].batch = "committed"
        /\ Names(rs[n].txn, id) /\ o.timestamp = rs[n].txn.timestamp

AllTraced ==
    \A a \in RecordAddresses : \A i \in DOMAIN ledger[a] :
        \A j \in DOMAIN ledger[a][i].owners :
            Traced(requests, clock, ledger[a][i].owners[j], ledger[a][i].record_id)

Leads(owners, k, ts) ==
    \E j \in DOMAIN owners :
        /\ owners[j].agent_id = k /\ owners[j].timestamp = ts
        /\ \A i \in DOMAIN owners : i # j => owners[i].timestamp < ts

(* The transfer t of request n, given the owners of its record.            *)
Stands(n, owners) ==
    \/ Leads(owners, requests[n].txn.receiving_agent, requests[n].txn.timestamp)
    \/ Superseded(n)
    \/ SharesItsSecond(owners, requests[n].txn.timestamp)

TransfersStand ==
    \A n \in DOMAIN requests :
        Done(n) /\ requests[n].txn.action = "TRANSFER_RECORD" =>
            /\ RecordExists(ledger, requests[n].txn.record_id)
            /\ Stands(n, get_record(ledger, requests[n].txn.record_id).owners)

HInv == InTimeOrder /\ AllTraced /\ TransfersStand

-----------------------------------------------------------------------------
(* Owner histories *)

(* The owner in the lead is the one max() returns.                         *)
LEMMA LeaderIsOwner ==
    ASSUME NEW r, r.owners \in Seq(Owner), NEW k, NEW ts \in Nat, Leads(r.owners, k, ts)
    PROVE  LatestOwner(r) = k
<1> DEFINE h == r.owners
<1>1. PICK j \in DOMAIN h :
        /\ h[j].agent_id = k /\ h[j].timestamp = ts
        /\ \A i \in DOMAIN h : i # j => h[i].timestamp < ts
  BY DEF Leads
<1>2. \A i \in DOMAIN h : h[i].timestamp \in Nat /\ i \in Nat
  <2>1. \A i \in DOMAIN h : h[i] \in Owner /\ i \in Nat
    OBVIOUS
  <2> QED BY <2>1 DEF Owner
<1> DEFINE First(i) == \A m \in DOMAIN h : \/ h[m].timestamp < h[i].timestamp
                                           \/ h[m].timestamp = h[i].timestamp /\ i <= m
<1>3. First(j)
  BY <1>1, <1>2
<1>4. ASSUME NEW i \in DOMAIN h, First(i) PROVE i = j
  BY <1>1, <1>2, <1>4
<1>5. LatestPosition(h) = j
  BY <1>3, <1>4 DEF LatestPosition
<1> QED BY <1>1, <1>5 DEF LatestOwner

LEMMA AppendedOwners ==
    ASSUME NEW h \in Seq(Owner), NEW o \in Owner, NEW g, g = Append(h, o)
    PROVE  /\ g \in Seq(Owner)
           /\ Len(h) + 1 \in DOMAIN g /\ g[Len(h) + 1] = o /\ Len(h) + 1 \notin DOMAIN h
           /\ \A i \in DOMAIN g : i \in DOMAIN h \/ i = Len(h) + 1
           /\ \A i \in DOMAIN h :
                 i \in DOMAIN g /\ g[i] = h[i] /\ h[i].timestamp \in Nat
           /\ o.timestamp \in Nat
<1>1. \A i \in DOMAIN h : h[i] \in Owner
  OBVIOUS
<1>2. /\ g \in Seq(Owner)
      /\ Len(h) + 1 \in DOMAIN g /\ g[Len(h) + 1] = o /\ Len(h) + 1 \notin DOMAIN h
      /\ \A i \in DOMAIN g : i \in DOMAIN h \/ i = Len(h) + 1
      /\ \A i \in DOMAIN h : i \in DOMAIN g /\ g[i] = h[i]
  OBVIOUS
<1>3. \A i \in DOMAIN h : h[i].timestamp \in Nat
  BY <1>1 DEF Owner
<1>4. o.timestamp \in Nat
  BY DEF Owner
<1> QED BY <1>2, <1>3, <1>4

(* A second that is shared stays shared.                                   *)
LEMMA StillShared ==
    ASSUME NEW h \in Seq(Owner), NEW o \in Owner, NEW ts, SharesItsSecond(h, ts)
    PROVE  SharesItsSecond(Append(h, o), ts)
<1> DEFINE g == Append(h, o)
<1>1. \A i \in DOMAIN h : i \in DOMAIN g /\ g[i] = h[i]
  BY AppendedOwners
<1> HIDE DEF g
<1>2. SharesItsSecond(g, ts)
  BY <1>1 DEF SharesItsSecond
<1> QED BY <1>2 DEF g

(* An owner as old as the leader, or older, only takes the lead by sharing *)
(* the leader's second.                                                    *)
LEMMA StillLeads ==
    ASSUME NEW h \in Seq(Owner), NEW o \in Owner, NEW k, NEW ts \in Nat,
           Leads(h, k, ts), o.timestamp <= ts
    PROVE  Leads(Append(h, o), k, ts) \/ SharesItsSecond(Append(h, o), ts)
<1> DEFINE last == Len(h) + 1
<1>0. PICK g : g = Append(h, o)
  OBVIOUS
<1>1. /\ last \in DOMAIN g /\ g[last] = o /\ last \notin DOMAIN h
      /\ \A i \in DOMAIN g : i \in DOMAIN h \/ i = last
      /\ \A i \in DOMAIN h : i \in DOMAIN g /\ g[i] = h[i] /\ h[i].timestamp \in Nat
      /\ o.timestamp \in Nat
  BY <1>0, AppendedOwners
<1>2. PICK j \in DOMAIN h :
        /\ h[j].agent_id = k /\ h[j].timestamp = ts
        /\ \A i \in DOMAIN h : i # j => h[i].timestamp < ts
  BY DEF Leads
<1> HIDE DEF last
<1>3. CASE o.timestamp = ts
  <2>1. SharesItsSecond(g, ts)
    BY <1>1, <1>2, <1>3 DEF SharesItsSecond
  <2> QED BY <1>0, <2>1
<1>4. CASE o.timestamp < ts
  <2>1. Leads(g, k, ts)
    BY <1>1, <1>2, <1>4 DEF Leads
  <2> QED BY <1>0, <2>1
<1> QED BY <1>1, <1>3, <1>4

(* An owner no older than the others leads, or shares its second.          *)
LEMMA NewestLeads ==
    ASSUME NEW h \in Seq(Owner), NEW o \in Owner,
           \A i \in DOMAIN h : h[i].timestamp <= o.timestamp
    PROVE  Leads(Append(h, o), o.agent_id, o.timestamp) \/ SharesItsSecond(Append(h, o), o.timestamp)
<1> DEFINE last == Len(h) + 1
<1>0. PICK g : g = Append(h, o)
  OBVIOUS
<1>1. /\ last \in DOMAIN g /\ g[last] = o /\ last \notin DOMAIN h
      /\ \A i \in DOMAIN g : i \in DOMAIN h \/ i = last
      /\ \A i \in DOMAIN h : i \in DOMAIN g /\ g[i] = h[i] /\ h[i].timestamp \in Nat
      /\ o.timestamp \in Nat
  BY <1>0, AppendedOwners
<1> HIDE DEF last
<1>2. CASE \E i \in DOMAIN h : h[i].timestamp = o.timestamp
  <2>1. PICK i \in DOMAIN h : h[i].timestamp = o.timestamp
    BY <1>2
  <2>2. SharesItsSecond(g, o.timestamp)
    BY <1>1, <2>1 DEF SharesItsSecond
  <2> QED BY <1>0, <2>2
<1>3. CASE \A i \in DOMAIN h : h[i].timestamp # o.timestamp
  <2>1. \A i \in DOMAIN h : h[i].timestamp < o.timestamp
    BY <1>1, <1>3
  <2>2. \A i \in DOMAIN g : i # last => g[i].timestamp < o.timestamp
    BY <1>1, <2>1
  <2>3. Leads(g, o.agent_id, o.timestamp)
    BY <1>1, <2>2 DEF Leads
  <2> QED BY <1>0, <2>3
<1> QED BY <1>2, <1>3

-----------------------------------------------------------------------------
(* What a step does to the list of requests: those made stay, with their   *)
(* transactions and what has been done, and a new one is dated now.        *)
Continues ==
    /\ Typed /\ Typed'
    /\ clock <= clock'
    /\ DOMAIN requests \subseteq DOMAIN requests'
    /\ \A n \in DOMAIN requests :
        requests'[n].txn = requests[n].txn /\ (Done(n) => Done(n)')
    /\ \A n \in DOMAIN requests' \ DOMAIN requests : requests'[n].txn.timestamp = clock

(* No transaction is executed.                                             *)
Quiet ==
    /\ Continues
    /\ ledger' = ledger
    /\ \A n \in DOMAIN requests' : Done(n)' => n \in DOMAIN requests /\ Done(n)

(* The transaction of request n is.                                        *)
Executes(n) ==
    /\ Continues
    /\ DOMAIN requests' = DOMAIN requests
    /\ ~Done(n) /\ Done(n)'
    /\ \A m \in DOMAIN requests : m # n => (Done(m)' => Done(m))
    /\ Accepts(ledger, requests[n].txn, clock)
    /\ ledger' = Effect(ledger, requests[n].txn)

LEMMA ArriveIsQuiet ==
    ASSUME Typed, Typed', NEW t \in Transactions, t.timestamp = clock, Submit(t)
    PROVE  Quiet
<1> PICK place \in AfterSubmission :
        requests' = Append(requests, [txn |-> t, batch |-> place, stage |-> "waiting"])
  BY DEF Submit
<1> DEFINE r == [txn |-> t, batch |-> place, stage |-> "waiting"]
<1>1. r.txn = t /\ r.batch # "committed"
  BY DEF AfterSubmission
<1>2. requests' = Append(requests, r) /\ UNCHANGED <<ledger, clock>>
  BY DEF Submit
<1> HIDE DEF r
<1>3. /\ DOMAIN requests' = DOMAIN requests \cup {Len(requests) + 1}
      /\ \A n \in DOMAIN requests : requests'[n] = requests[n]
      /\ requests'[Len(requests) + 1] = r
      /\ Len(requests) + 1 \notin DOMAIN requests
  BY <1>2 DEF Typed
<1>4. clock <= clock'
  BY <1>2 DEF Typed
<1>5. Continues
  BY <1>1, <1>3, <1>4 DEF Continues, Done
<1>6. \A n \in DOMAIN requests' : Done(n)' => n \in DOMAIN requests /\ Done(n)
  BY <1>1, <1>3 DEF Done
<1> QED BY <1>2, <1>5, <1>6 DEF Quiet

(* One request gets another stage, or loses its batch.                     *)
LEMMA OneIsQuiet ==
    ASSUME Typed, Typed', NEW n \in DOMAIN requests,
           ledger' = ledger, clock' = clock,
           DOMAIN requests' = DOMAIN requests,
           requests'[n].txn = requests[n].txn,
           requests'[n].batch = "committed" <=> requests[n].batch = "committed",
           \A m \in DOMAIN requests : m # n => requests'[m] = requests[m]
    PROVE  Quiet
<1>1. \A m \in DOMAIN requests :
        requests'[m].txn = requests[m].txn /\ (Done(m)' <=> Done(m))
  BY DEF Done
<1>2. clock <= clock'
  BY DEF Typed
<1> QED BY <1>1, <1>2 DEF Quiet, Continues

LEMMA StageIsQuiet ==
    ASSUME Typed, Typed', NEW n \in DOMAIN requests, NEW stage \in Stages,
           requests' = WithStage(n, stage),
           ledger' = ledger, clock' = clock
    PROVE  Quiet
<1>1. /\ DOMAIN requests' = DOMAIN requests
      /\ requests'[n].txn = requests[n].txn
      /\ requests'[n].batch = requests[n].batch
      /\ \A m \in DOMAIN requests : m # n => requests'[m] = requests[m]
  <2>0. requests \in Seq(Requests)
    BY DEF Typed
  <2> QED BY <2>0, StageSet
<1> QED BY <1>1, OneIsQuiet

LEMMA ExecuteStep ==
    ASSUME Typed, Typed', NEW n \in DOMAIN requests, Execute(n)
    PROVE  Quiet \/ Executes(n)
<1> DEFINE t == requests[n].txn
           batch == IF Accepts(ledger, t, clock) THEN "committed" ELSE "invalid"
<1>1. /\ Queued(requests[n].batch)
      /\ requests' = WithBatch(n, batch)
      /\ ledger' = IF batch = "committed" THEN Effect(ledger, t) ELSE ledger
      /\ UNCHANGED clock
  BY DEF Execute, apply, WithBatch
<1>2. batch \in BatchPlaces /\ (batch = "committed" <=> Accepts(ledger, t, clock))
  BY DEF BatchPlaces
<1> HIDE DEF batch
<1>3. /\ DOMAIN requests' = DOMAIN requests
      /\ requests'[n].txn = t
      /\ requests'[n].batch = batch
      /\ \A m \in DOMAIN requests : m # n => requests'[m] = requests[m]
  <2>0. requests \in Seq(Requests)
    BY DEF Typed
  <2> QED BY <1>1, <1>2, <2>0, BatchSet
<1>4. ~Done(n)
  BY <1>1 DEF Done, Queued
<1>5. CASE batch # "committed"
  BY <1>1, <1>3, <1>4, <1>5, OneIsQuiet DEF Done
<1>6. CASE batch = "committed"
  <2>1. clock <= clock'
    BY <1>1 DEF Typed
  <2>2. Continues
    BY <1>3, <1>4, <2>1 DEF Continues, Done
  <2>3. Done(n)' /\ \A m \in DOMAIN requests : m # n => (Done(m)' => Done(m))
    BY <1>3, <1>6 DEF Done
  <2> QED BY <1>1, <1>2, <1>3, <1>4, <1>6, <2>2, <2>3 DEF Executes
<1> QED BY <1>5, <1>6

LEMMA ForgetIsQuiet ==
    ASSUME Typed, Typed', NEW n \in DOMAIN requests, Forget(n)
    PROVE  Quiet
<1>1. PICK place \in BatchPlaces :
        /\ Forgets(requests[n].batch, place)
        /\ requests' = WithBatch(n, place)
  BY DEF Forget, WithBatch
<1>2. /\ DOMAIN requests' = DOMAIN requests
      /\ requests'[n].txn = requests[n].txn
      /\ requests'[n].batch = place
      /\ \A m \in DOMAIN requests : m # n => requests'[m] = requests[m]
  <2>0. requests \in Seq(Requests)
    BY DEF Typed
  <2> QED BY <1>1, <2>0, BatchSet
<1>3. requests[n].batch # "committed" /\ place # "committed"
  BY <1>1 DEF Forgets
<1> QED BY <1>2, <1>3, OneIsQuiet DEF Forget

LEMMA CrashIsQuiet ==
    ASSUME Typed, Typed', Crash
    PROVE  Quiet
<1>1. /\ DOMAIN requests' = DOMAIN requests
      /\ UNCHANGED <<ledger, clock>>
  BY DEF Crash
<1>2. ASSUME NEW n \in DOMAIN requests
      PROVE  requests'[n].txn = requests[n].txn /\ requests'[n].batch = requests[n].batch
  <2>1. requests[n] \in Requests
    BY RequestType DEF Typed
  <2>2. requests'[n] = IF requests[n].stage \in InFlight
                       THEN [requests[n] EXCEPT !.stage = "cut_off"]
                       ELSE requests[n]
    BY DEF Crash
  <2> QED BY <2>1, <2>2 DEF Requests
<1>3. \A n \in DOMAIN requests : Done(n)' <=> Done(n)
  BY <1>2 DEF Done
<1>4. clock <= clock'
  BY <1>1 DEF Typed
<1> QED BY <1>1, <1>2, <1>3, <1>4 DEF Quiet, Continues

(* Every step is one or the other.                                         *)
LEMMA StepContinues ==
    ASSUME Typed, Typed', [Next]_vars
    PROVE  Quiet \/ \E n \in DOMAIN requests : Executes(n)
<1>1. CASE Arrive
  BY <1>1, ArrivalSubmits, ArriveIsQuiet
<1>2. ASSUME NEW n \in DOMAIN requests, StatusAnswered(n)
      PROVE  Quiet
  <2>1. StageAfter(requests[n].txn, Status(requests[n].batch)) \in Stages
    BY RequestType, StageAfterType DEF Typed
  <2> QED BY <1>2, <2>1, StageIsQuiet DEF StatusAnswered, WithStage
<1>3. ASSUME NEW n \in DOMAIN requests, create_auth_entry(n) \/ ConnectionFails(n)
      PROVE  Quiet
  <2>1. "ok" \in Stages /\ "server_error" \in Stages
    BY DEF Stages, Ended
  <2> QED BY <1>3, <2>1, StageIsQuiet DEF create_auth_entry, ConnectionFails, WithStage
<1>4. ASSUME NEW n \in DOMAIN requests, Execute(n)
      PROVE  Quiet \/ Executes(n)
  BY <1>4, ExecuteStep
<1>5. ASSUME NEW n \in DOMAIN requests, Forget(n)
      PROVE  Quiet
  BY <1>5, ForgetIsQuiet
<1>6. CASE Crash
  BY <1>6, CrashIsQuiet
<1>7. CASE Tick \/ UNCHANGED vars
  <2>1. UNCHANGED <<ledger, requests>> /\ clock <= clock'
    BY <1>7 DEF Tick, vars, Typed
  <2>2. \A n \in DOMAIN requests : Done(n)' <=> Done(n)
    BY <2>1 DEF Done
  <2> QED BY <2>1, <2>2 DEF Quiet, Continues
<1> QED BY <1>1, <1>2, <1>3, <1>4, <1>5, <1>6, <1>7 DEF Next, Serve

-----------------------------------------------------------------------------
(* The three parts of the invariant are kept. *)

LEMMA RequestTimes ==
    ASSUME Typed, NEW n \in DOMAIN requests
    PROVE  /\ requests[n].txn.timestamp \in Nat
           /\ WellFormed(requests[n].txn)
           /\ n \in Nat
BY RequestType, TransactionsWellFormed DEF Typed, WellFormed

LEMMA TimesStayInOrder ==
    ASSUME InTimeOrder, Continues
    PROVE  InTimeOrder'
<1>1. Typed /\ clock \in Nat /\ clock' \in Nat /\ clock <= clock'
  BY DEF Continues, Typed
<1>2. /\ DOMAIN requests = 1 .. Len(requests) /\ Len(requests) \in Nat
      /\ DOMAIN requests' = 1 .. Len(requests') /\ Len(requests') \in Nat
  BY DEF Continues, Typed
<1>3. ASSUME NEW n \in DOMAIN requests'
      PROVE  /\ requests'[n].txn.timestamp <= clock'
             /\ \/ requests'[n].txn.timestamp = clock
                \/ n \in DOMAIN requests /\ requests'[n].txn = requests[n].txn
  <2>1. CASE n \in DOMAIN requests
    <3>1. requests[n].txn.timestamp \in Nat /\ requests[n].txn.timestamp <= clock
      BY <1>1, <2>1, RequestTimes DEF InTimeOrder
    <3>2. requests'[n].txn = requests[n].txn
      BY <2>1 DEF Continues
    <3> QED BY <1>1, <2>1, <3>1, <3>2
  <2>2. CASE n \notin DOMAIN requests
    BY <1>1, <2>2 DEF Continues
  <2> QED BY <2>1, <2>2
<1>4. ASSUME NEW n \in DOMAIN requests', NEW m \in DOMAIN requests', m <= n
      PROVE  requests'[m].txn.timestamp <= requests'[n].txn.timestamp
  <2>1. CASE n \in DOMAIN requests
    <3>1. m \in DOMAIN requests
      BY <1>2, <1>4, <2>1
    <3>2. requests'[m].txn = requests[m].txn /\ requests'[n].txn = requests[n].txn
      BY <2>1, <3>1 DEF Continues
    <3> QED BY <1>4, <2>1, <3>1, <3>2 DEF InTimeOrder
  <2>2. CASE n \notin DOMAIN requests
    <3>1. requests'[n].txn.timestamp = clock
      BY <2>2 DEF Continues
    <3>2. CASE m \in DOMAIN requests
      <4>1. requests'[m].txn = requests[m].txn
        BY <3>2 DEF Continues
      <4>2. requests[m].txn.timestamp <= clock
        BY <3>2 DEF InTimeOrder
      <4> QED BY <3>1, <4>1, <4>2
    <3>3. CASE m \notin DOMAIN requests
      <4>1. requests'[m].txn.timestamp = clock
        BY <3>3 DEF Continues
      <4> QED BY <1>1, <3>1, <4>1
    <3> QED BY <3>2, <3>3
  <2> QED BY <2>1, <2>2
<1> QED BY <1>3, <1>4 DEF InTimeOrder

(* An owner that is traced stays traced.                                   *)
LEMMA StaysTraced ==
    ASSUME Continues, NEW o, o.timestamp \in Nat, NEW id, Traced(requests, clock, o, id)
    PROVE  Traced(requests', clock', o, id)
<1>1. CASE Older(requests, clock, o)
  <2>1. clock \in Nat /\ clock' \in Nat
    BY DEF Continues, Typed
  <2>2. o.timestamp <= clock'
    BY <1>1, <2>1 DEF Older, Continues
  <2>3. ASSUME NEW n \in DOMAIN requests' PROVE o.timestamp <= requests'[n].txn.timestamp
    BY <1>1 DEF Older, Continues
  <2> QED BY <2>2, <2>3 DEF Traced, Older
<1>2. CASE ~Older(requests, clock, o)
  <2>1. PICK n \in DOMAIN requests :
          /\ requests[n].batch = "committed"
          /\ Names(requests[n].txn, id) /\ o.timestamp = requests[n].txn.timestamp
    BY <1>2 DEF Traced
  <2>2. /\ n \in DOMAIN requests' /\ requests'[n].batch = "committed"
        /\ requests'[n].txn = requests[n].txn
    BY <2>1 DEF Continues, Done
  <2> QED BY <2>1, <2>2 DEF Traced
<1> QED BY <1>1, <1>2

LEMMA AllStayTraced ==
    ASSUME AllTraced, Quiet \/ \E n \in DOMAIN requests : Executes(n)
    PROVE  AllTraced'
<1>0. Continues
  BY DEF Quiet, Executes
<1>1. ledger \in GlobalStates
  BY <1>0 DEF Continues, Typed
<1>2. SUFFICES ASSUME NEW a \in RecordAddresses, NEW i \in DOMAIN ledger'[a],
                      NEW j \in DOMAIN ledger'[a][i].owners
               PROVE  Traced(requests', clock', ledger'[a][i].owners[j], ledger'[a][i].record_id)
  BY DEF AllTraced
<1>3. ASSUME WasThere(ledger, ledger', a, i, j)
      PROVE  Traced(requests', clock', ledger'[a][i].owners[j], ledger'[a][i].record_id)
  <2> DEFINE o == ledger[a][i].owners[j]
             id == ledger[a][i].record_id
  <2>1. /\ i \in DOMAIN ledger[a] /\ j \in DOMAIN ledger[a][i].owners
        /\ ledger'[a][i].owners[j] = o /\ ledger'[a][i].record_id = id
    BY <1>3 DEF WasThere
  <2>2. Traced(requests, clock, o, id) /\ o.timestamp \in Nat
    BY <1>1, <2>1, EntryType DEF AllTraced
  <2> HIDE DEF o, id
  <2>3. Traced(requests', clock', o, id)
    BY <1>0, <2>2, StaysTraced
  <2> QED BY <2>1, <2>3
<1>4. CASE Quiet
  <2>1. WasThere(ledger, ledger', a, i, j)
    BY <1>4 DEF Quiet, WasThere
  <2> QED BY <1>3, <2>1
<1>5. ASSUME NEW n \in DOMAIN requests, Executes(n)
      PROVE  Traced(requests', clock', ledger'[a][i].owners[j], ledger'[a][i].record_id)
  <2> DEFINE t == requests[n].txn
  <2>1. ledger' = Effect(ledger, t) /\ WellFormed(t)
    BY <1>0, <1>5, RequestTimes DEF Executes, Continues
  <2>2. WasThere(ledger, ledger', a, i, j) \/ AddedBy(t, ledger'[a][i], j)
    BY <1>1, <2>1, EffectOwners
  <2>3. ASSUME AddedBy(t, ledger'[a][i], j)
        PROVE  Traced(requests', clock', ledger'[a][i].owners[j], ledger'[a][i].record_id)
    <3>1. n \in DOMAIN requests' /\ requests'[n].batch = "committed" /\ requests'[n].txn = t
      BY <1>5 DEF Executes, Continues, Done
    <3>2. /\ Names(t, ledger'[a][i].record_id)
          /\ ledger'[a][i].owners[j].timestamp = t.timestamp
      BY <2>3 DEF AddedBy, Names
    <3> QED BY <3>1, <3>2 DEF Traced
  <2> QED BY <1>3, <2>2, <2>3
<1> QED BY <1>4, <1>5

LEMMA StaysSuperseded ==
    ASSUME Continues, NEW n \in DOMAIN requests, Superseded(n)
    PROVE  Superseded(n)'
<1>1. PICK m \in DOMAIN requests :
        n < m /\ Names(requests[m].txn, requests[n].txn.record_id)
              /\ requests[m].batch = "committed"
  BY DEF Superseded
<1>2. /\ m \in DOMAIN requests' /\ requests'[m].txn = requests[m].txn
      /\ requests'[m].batch = "committed" /\ requests'[n].txn = requests[n].txn
  BY <1>1 DEF Continues, Done
<1> QED BY <1>1, <1>2 DEF Superseded

(* While nothing is executed, what has been done stands.                   *)
LEMMA QuietStands ==
    ASSUME Quiet, TransfersStand
    PROVE  TransfersStand'
<1>0. Continues /\ ledger' = ledger
  BY DEF Quiet
<1>1. SUFFICES ASSUME NEW n \in DOMAIN requests', Done(n)',
                      requests'[n].txn.action = "TRANSFER_RECORD"
               PROVE  /\ RecordExists(ledger', requests'[n].txn.record_id)
                      /\ Stands(n, get_record(ledger, requests[n].txn.record_id).owners)'
  BY DEF TransfersStand
<1>2. n \in DOMAIN requests /\ Done(n)
  BY <1>1 DEF Quiet
<1>3. requests'[n].txn = requests[n].txn
  BY <1>0, <1>2 DEF Continues
<1>4. /\ RecordExists(ledger, requests[n].txn.record_id)
      /\ Stands(n, get_record(ledger, requests[n].txn.record_id).owners)
  BY <1>1, <1>2, <1>3 DEF TransfersStand
<1>5. Superseded(n) => Superseded(n)'
  BY <1>0, <1>2, StaysSuperseded
<1> QED BY <1>0, <1>3, <1>4, <1>5 DEF Stands

(* The owners of a record are traced.                                      *)
LEMMA OwnersAreTraced ==
    ASSUME Typed, AllTraced, NEW id \in RecordIds, RecordExists(ledger, id)
    PROVE  /\ get_record(ledger, id).owners \in Seq(Owner)
           /\ \A i \in DOMAIN get_record(ledger, id).owners :
                 Traced(requests, clock, get_record(ledger, id).owners[i], id)
<1> DEFINE a == get_record_address[id]
<1>1. ledger \in GlobalStates /\ a \in RecordAddresses
  BY DEF Typed
<1>2. PICK p \in RecordPositions(ledger, id) : get_record(ledger, id) = ledger[a][p]
  BY <1>1, FirstRecord
<1>3. p \in DOMAIN ledger[a] /\ ledger[a][p].record_id = id
  BY DEF RecordPositions
<1>4. ledger[a][p].owners \in Seq(Owner)
  BY <1>1, <1>3, EntryType
<1> QED BY <1>1, <1>2, <1>3, <1>4 DEF AllTraced

(* The transfer that is executed becomes the newest entry, unless a        *)
(* request made later has been done before it.                             *)
LEMMA ExecutedStands ==
    ASSUME HInv, NEW n \in DOMAIN requests, Executes(n),
           requests[n].txn.action = "TRANSFER_RECORD",
           NEW h, h = get_record(ledger', requests[n].txn.record_id).owners
    PROVE  /\ RecordExists(ledger', requests[n].txn.record_id)
           /\ Stands(n, h)'
<1> DEFINE t == requests[n].txn
           id == t.record_id
           g == get_record(ledger, id).owners
           o == [agent_id |-> t.receiving_agent, timestamp |-> t.timestamp]
<1>1. /\ Continues /\ Typed /\ InTimeOrder /\ AllTraced
      /\ Accepts(ledger, t, clock) /\ ledger' = Effect(ledger, t) /\ ~Done(n)
  BY DEF Executes, Continues, HInv
<1>2. /\ ledger \in GlobalStates /\ WellFormed(t) /\ id \in RecordIds
      /\ t.timestamp \in Nat /\ t.receiving_agent \in Keys
  BY <1>1, RequestTimes DEF Typed, WellFormed
<1>3. RecordExists(ledger, id)
  BY <1>1 DEF Accepts, MayTransferRecord
<1>4. RecordExists(ledger', id) /\ h = Append(g, o)
  BY <1>1, <1>2, <1>3, EffectOnRecord
<1>5. /\ g \in Seq(Owner)
      /\ \A i \in DOMAIN g : Traced(requests, clock, g[i], id)
  BY <1>1, <1>2, <1>3, OwnersAreTraced
<1>6. o \in Owner /\ o.agent_id = t.receiving_agent /\ o.timestamp = t.timestamp
  BY <1>2 DEF Owner
<1>7. requests'[n].txn = t
  BY <1>1 DEF Continues
<1> HIDE DEF g, o
<1>8. ASSUME NEW i \in DOMAIN g, ~(g[i].timestamp <= t.timestamp)
      PROVE  Superseded(n)
  <2>1. ~Older(requests, clock, g[i])
    BY <1>8 DEF Older
  <2>2. PICK m \in DOMAIN requests :
          /\ requests[m].batch = "committed"
          /\ Names(requests[m].txn, id) /\ g[i].timestamp = requests[m].txn.timestamp
    BY <1>5, <2>1 DEF Traced
  <2>3. m \in Nat /\ n \in Nat
    BY <1>1, RequestTimes
  <2>4. ~(m <= n)
    BY <1>1, <1>8, <2>2 DEF InTimeOrder
  <2>5. n < m
    BY <2>3, <2>4
  <2> QED BY <2>2, <2>5 DEF Superseded
<1>9. CASE \E i \in DOMAIN g : ~(g[i].timestamp <= t.timestamp)
  <2>1. Superseded(n)'
    BY <1>1, <1>8, <1>9, StaysSuperseded
  <2> QED BY <1>4, <2>1 DEF Stands
<1>10. CASE \A i \in DOMAIN g : g[i].timestamp <= t.timestamp
  <2>1. Leads(h, t.receiving_agent, t.timestamp) \/ SharesItsSecond(h, t.timestamp)
    BY <1>4, <1>5, <1>6, <1>10, NewestLeads
  <2> QED BY <1>4, <1>7, <2>1 DEF Stands
<1> QED BY <1>9, <1>10

(* A transfer done before stands when another request is executed: a later *)
(* one supersedes it, an earlier one is too old.                           *)
LEMMA OthersStand ==
    ASSUME HInv, NEW e \in DOMAIN requests, Executes(e),
           NEW n \in DOMAIN requests, Done(n), n # e,
           requests[n].txn.action = "TRANSFER_RECORD",
           NEW h, h = get_record(ledger', requests[n].txn.record_id).owners
    PROVE  /\ RecordExists(ledger', requests[n].txn.record_id)
           /\ Stands(n, h)'
<1> DEFINE t == requests[n].txn
           id == t.record_id
           u == requests[e].txn
           g == get_record(ledger, id).owners
           o == [agent_id |-> u.receiving_agent, timestamp |-> u.timestamp]
           moved == u.action = "TRANSFER_RECORD" /\ u.record_id = id
<1>1. /\ Continues /\ Typed /\ InTimeOrder /\ AllTraced /\ TransfersStand
      /\ Accepts(ledger, u, clock) /\ ledger' = Effect(ledger, u) /\ Done(e)'
  BY DEF Executes, Continues, HInv
<1>2. /\ ledger \in GlobalStates /\ WellFormed(u) /\ u.timestamp \in Nat
      /\ WellFormed(t) /\ id \in RecordIds /\ t.timestamp \in Nat /\ n \in Nat /\ e \in Nat
  BY <1>1, RequestTimes DEF Typed, WellFormed
<1>3. RecordExists(ledger, id) /\ Stands(n, g)
  BY <1>1 DEF TransfersStand
<1>4. RecordExists(ledger', id) /\ h = IF moved THEN Append(g, o) ELSE g
  BY <1>1, <1>2, <1>3, EffectOnRecord
<1>5. g \in Seq(Owner)
  BY <1>1, <1>2, <1>3, OwnersAreTraced
<1>6. requests'[n].txn = t /\ requests'[e].txn = u /\ e \in DOMAIN requests'
  BY <1>1 DEF Continues
<1>7. Superseded(n) => Superseded(n)'
  BY <1>1, StaysSuperseded
<1>8. moved => o \in Owner /\ o.timestamp = u.timestamp
  BY <1>2 DEF WellFormed, Owner
<1> HIDE DEF g, o
<1>9. CASE ~moved
  <2>1. h = g
    BY <1>4, <1>9
  <2> QED BY <1>3, <1>4, <1>6, <1>7, <2>1 DEF Stands
<1>10. CASE moved /\ n < e
  <2>1. Names(u, id)
    BY <1>10 DEF Names
  <2>2. Superseded(n)'
    BY <1>1, <1>6, <1>10, <2>1 DEF Superseded, Done
  <2> QED BY <1>4, <2>2 DEF Stands
<1>11. CASE moved /\ e < n
  <2>1. o.timestamp <= t.timestamp
    BY <1>1, <1>2, <1>8, <1>11 DEF InTimeOrder
  <2>2. h = Append(g, o) /\ o \in Owner
    BY <1>4, <1>8, <1>11
  <2>3. Leads(g, t.receiving_agent, t.timestamp) =>
            Leads(h, t.receiving_agent, t.timestamp) \/ SharesItsSecond(h, t.timestamp)
    BY <1>2, <1>5, <2>1, <2>2, StillLeads
  <2>4. SharesItsSecond(g, t.timestamp) => SharesItsSecond(h, t.timestamp)
    BY <1>5, <2>2, StillShared
  <2> QED BY <1>3, <1>4, <1>6, <1>7, <2>3, <2>4 DEF Stands
<1> QED BY <1>2, <1>9, <1>10, <1>11

LEMMA TransfersStillStand ==
    ASSUME HInv, NEW e \in DOMAIN requests, Executes(e)
    PROVE  TransfersStand'
<1>1. SUFFICES ASSUME NEW n \in DOMAIN requests', Done(n)',
                      requests'[n].txn.action = "TRANSFER_RECORD",
                      NEW h, h = get_record(ledger', requests'[n].txn.record_id).owners
               PROVE  /\ RecordExists(ledger', requests'[n].txn.record_id)
                      /\ Stands(n, h)'
  BY DEF TransfersStand
<1>2. n \in DOMAIN requests /\ requests'[n].txn = requests[n].txn
  BY <1>1 DEF Executes, Continues
<1>3. CASE n = e
  BY <1>1, <1>2, <1>3, ExecutedStands
<1>4. CASE n # e
  <2>1. Done(n)
    BY <1>1, <1>2, <1>4 DEF Executes
  <2> QED BY <1>1, <1>2, <1>4, <2>1, OthersStand
<1> QED BY <1>3, <1>4

LEMMA HistoryInvariance == Spec => []HInv
<1>1. Init => HInv
  <2> SUFFICES ASSUME Init PROVE HInv
    OBVIOUS
  <2>1. PICK e \in Earlier : ledger = e.ledger /\ clock = e.clock
    BY DEF Init
  <2>2. requests = << >>
    BY DEF Init
  <2>3. InTimeOrder /\ TransfersStand
    BY <2>2 DEF InTimeOrder, TransfersStand
  <2>4. OwnersDatedBy(ledger, clock)
    BY <2>1, RestApiAssumption DEF MayStartOn
  <2>5. AllTraced
    BY <2>2, <2>4 DEF AllTraced, Traced, Older, OwnersDatedBy
  <2> QED BY <2>3, <2>5 DEF HInv
<1>2. Inv /\ Inv' /\ HInv /\ [Next]_vars => HInv'
  <2> SUFFICES ASSUME Inv, Inv', HInv, [Next]_vars PROVE HInv'
    OBVIOUS
  <2>1. Quiet \/ \E n \in DOMAIN requests : Executes(n)
    BY StepContinues DEF Inv
  <2>2. Continues
    BY <2>1 DEF Quiet, Executes
  <2>3. InTimeOrder' /\ AllTraced'
    BY <2>1, <2>2, TimesStayInOrder, AllStayTraced DEF HInv
  <2>4. TransfersStand'
    BY <2>1, QuietStands, TransfersStillStand DEF HInv
  <2> QED BY <2>3, <2>4 DEF HInv
<1> QED BY <1>1, <1>2, Invariance, PTL DEF Spec

(* The new owner of a transfer answered 200 keeps the record until a       *)
(* request made later is committed, whatever was given up before and is    *)
(* committed late, unless two entries share a second.                      *)
THEOREM TransfersHold == Spec => []AnsweredTransferStands
<1>1. Inv /\ HInv => AnsweredTransferStands
  <2> SUFFICES ASSUME Inv, HInv, NEW n \in DOMAIN requests,
                      requests[n].txn.action = "TRANSFER_RECORD", requests[n].stage = "ok"
               PROVE  LET t == requests[n].txn IN
                      \/ LatestOwner(get_record(ledger, t.record_id)) = t.receiving_agent
                      \/ Superseded(n)
                      \/ SharesItsSecond(get_record(ledger, t.record_id).owners, t.timestamp)
    BY DEF AnsweredTransferStands
  <2> DEFINE t == requests[n].txn
             r == get_record(ledger, t.record_id)
  <2>1. Done(n)
    BY DEF Inv, AllSound, Sound, Done
  <2>2. RecordExists(ledger, t.record_id) /\ Stands(n, r.owners)
    BY <2>1 DEF HInv, TransfersStand
  <2>3. t.timestamp \in Nat /\ t.record_id \in RecordIds
    BY RequestTimes DEF Inv, WellFormed
  <2>4. r.owners \in Seq(Owner)
    BY <2>2, <2>3, OwnersAreTraced DEF Inv, HInv
  <2> HIDE DEF r
  <2>5. Leads(r.owners, t.receiving_agent, t.timestamp) => LatestOwner(r) = t.receiving_agent
    BY <2>3, <2>4, LeaderIsOwner
  <2> QED BY <2>2, <2>5 DEF Stands, r
<1> QED BY <1>1, Invariance, HistoryInvariance, PTL

(* A server that is started again on the ledger and the auth table it left *)
(* finds what the specification assumes of Earlier.                        *)
THEOREM RestartsAllowed ==
    Spec => []MayStartOn([ledger |-> ledger, auth |-> auth, clock |-> clock])
<1>1. Inv /\ HInv => MayStartOn([ledger |-> ledger, auth |-> auth, clock |-> clock])
  <2> SUFFICES ASSUME Inv, HInv
               PROVE  /\ Typed /\ AccountsAreAgents
                      /\ OwnersDatedBy(ledger, clock)
    BY DEF Typed, AccountsAreAgents, MayStartOn
  <2>1. ASSUME NEW a \in RecordAddresses, NEW i \in DOMAIN ledger[a],
               NEW j \in DOMAIN ledger[a][i].owners
        PROVE  ledger[a][i].owners[j].timestamp <= clock
    <3>1. Traced(requests, clock, ledger[a][i].owners[j], ledger[a][i].record_id)
      BY DEF HInv, AllTraced
    <3> QED BY <3>1 DEF Traced, Older, HInv, InTimeOrder
  <2> QED BY <2>1 DEF Inv, OwnersDatedBy
<1> QED BY <1>1, Invariance, HistoryInvariance, PTL
=============================================================================
