---------------------------- MODULE TokenApi_proofs ----------------------------
(***************************************************************************)
(* Proofs about TokenApi, for any accounts, tokens and calls, however      *)
(* often the status of a batch is asked for, and any number of faults.     *)
(***************************************************************************)
EXTENDS TokenApi, TokenTP_proofs

USE ApiAssumption

(* What a client may ask for.                                              *)
LEMMA OrderType ==
    ASSUME NEW n \in Calls
    PROVE  LET call == order[n].call IN
           /\ order[n].signer \in Keys
           /\ call.action \in {"set_manager", "set_issuer", "set_account"} =>
                 call.endorsement \in Endorsements
           /\ call.action = "set_endorsement" =>
                 call.account \in Keys /\ call.endorsement \in Endorsements
           /\ call.action = "issue_token" =>
                 /\ call.token \in Tokens /\ call.supply \in Supplies
                 /\ call.endorsed \in TransferEndorsements
                 /\ call.schedule \in Schedules
           /\ call.action = "set_immutables" =>
                 call.token \in Tokens /\ call.immutables \in ImmutablesLists
           /\ call.action = "set_token_status" =>
                 call.token \in Tokens /\ call.status \in AskedStatuses
           /\ call.action = "transfer" =>
                 /\ call.token \in Tokens /\ call.receiver \in Keys
                 /\ call.amount \in Amounts /\ call.date \in Times
           /\ call.action = "heartbeat" =>
                 call.token \in Tokens /\ call.date \in Times /\ call.issuer \in Keys
           /\ call.action = "set_balance_attributes" =>
                 call.account \in Keys /\ call.attributes \in Attributes
<1>1. order[n] \in RestOrders \cup CliOrders
  OBVIOUS
<1>2. CASE order[n] \in RestOrders
  BY <1>2 DEF RestOrders, AccountRequests, EndorsementRequests, TokenRequests,
              AttributesRequests
<1>3. CASE order[n] \in CliOrders
  BY <1>3 DEF CliOrders
<1> QED BY <1>1, <1>2, <1>3

-----------------------------------------------------------------------------
(* What the execution of a call may do to the state.                       *)

Listed(n, listed) ==
    /\ order[n].call.action = "heartbeat" => listed \in SUBSET Keys
    /\ order[n].call.action = "set_balance_attributes" => listed \in SUBSET Tokens

(* All kinds of steps but the setting of attributes.                       *)
OtherKinds ==
    \/ AccountsChange \/ CashIssued \/ TokenIssued \/ ImmutablesAdded \/ StatusSet
    \/ Transferred \/ Paid
    \/ UNCHANGED vars

(* A call the processor performs takes one kind of step.                   *)
LEMMA PerformKind ==
    ASSUME Shaped(state), NEW n \in Calls, NEW listed, Listed(n, listed),
           Perform(order[n].signer, order[n].call, listed)
    PROVE  LET call == order[n].call IN
           /\ Shaped(state') /\ StepKinds
           /\ call.action # "set_balance_attributes" => OtherKinds
           /\ call.action = "set_balance_attributes" =>
                 /\ \A t \in listed : Holds(state, call.account, t)
                 /\ AfterNotes(state', state, call.account, listed, call.attributes)
                 /\ inflated' = inflated
<1> DEFINE k == order[n].signer
           call == order[n].call
<1>0. OtherKinds => StepKinds
  BY DEF OtherKinds, StepKinds
<1>1. CASE \/ call.action = "set_manager" /\ SetManager(k, call.endorsement)
           \/ call.action = "set_issuer" /\ SetIssuer(k, call.endorsement)
           \/ call.action = "set_account" /\ SetAccount(k, call.endorsement)
           \/ call.action = "set_endorsement"
                /\ SetEndorsement(k, call.account, call.endorsement)
  <2>1. AccountStep
    BY <1>1, OrderType DEF AccountStep
  <2>2. Shaped(state') /\ OtherKinds
    BY <2>1, AccountStepKinds DEF OtherKinds
  <2> QED BY <1>0, <1>1, <2>2
<1>2. CASE \/ call.action = "issue_token"
                /\ IssueToken(k, call.token, call.supply, call.endorsed, call.schedule)
           \/ call.action = "set_immutables" /\ AddImmutables(k, call.token, call.immutables)
           \/ call.action = "set_token_status" /\ SetTokenStatus(k, call.token, call.status)
  <2>1. TokenStep
    BY <1>2, OrderType DEF TokenStep
  <2>2. Shaped(state') /\ OtherKinds
    BY <2>1, TokenStepKinds DEF OtherKinds
  <2> QED BY <1>0, <1>2, <2>2
<1>3. CASE call.action = "transfer"
             /\ DoTransfer(k, call.receiver, call.token, call.amount, call.date)
  <2>1. Shaped(state') /\ Transferred
    BY <1>3, OrderType, TransferKind
  <2> QED BY <1>0, <1>3, <2>1 DEF OtherKinds
<1>4. CASE call.action = "set_balance_attributes"
             /\ SetBalanceAttributes(call.account, listed, call.attributes)
  <2>1. /\ Shaped(state') /\ Annotated
        /\ AfterNotes(state', state, call.account, listed, call.attributes)
    BY <1>4, OrderType, AttributesKind DEF Listed
  <2> QED BY <1>4, <2>1 DEF SetBalanceAttributes, StepKinds
<1>5. CASE call.action = "heartbeat" /\ DoHeartbeat(listed, call.token, call.date)
  <2>1. Shaped(state') /\ Paid
    BY <1>5, OrderType, HeartbeatKind DEF Listed
  <2> QED BY <1>0, <1>5, <2>1 DEF OtherKinds
<1>6. CASE call.action = "heartbeat" /\ IdleHeartbeat(listed, call.token, call.date)
  <2>1. UNCHANGED vars
    BY <1>6 DEF IdleHeartbeat
  <2> QED BY <1>0, <1>6, <2>1 DEF OtherKinds, vars
<1> QED BY <1>1, <1>2, <1>3, <1>4, <1>5, <1>6 DEF Perform

(* What is accepted keeps the state of its type.                           *)
LEMMA PerformType ==
    ASSUME TypeOK, NEW n \in Calls, NEW listed, Listed(n, listed),
           Perform(order[n].signer, order[n].call, listed)
    PROVE  TypeOK'
<1> DEFINE k == order[n].signer
           call == order[n].call
<1>1. CASE \/ call.action = "set_manager" /\ SetManager(k, call.endorsement)
           \/ call.action = "set_issuer" /\ SetIssuer(k, call.endorsement)
           \/ call.action = "set_account" /\ SetAccount(k, call.endorsement)
           \/ call.action = "set_endorsement"
                /\ SetEndorsement(k, call.account, call.endorsement)
  <2>1. AccountStep
    BY <1>1, OrderType DEF AccountStep
  <2> QED BY <2>1, AccountStepType
<1>2. CASE \/ call.action = "issue_token"
                /\ IssueToken(k, call.token, call.supply, call.endorsed, call.schedule)
           \/ call.action = "set_immutables" /\ AddImmutables(k, call.token, call.immutables)
           \/ call.action = "set_token_status" /\ SetTokenStatus(k, call.token, call.status)
  <2>1. TokenStep
    BY <1>2, OrderType DEF TokenStep
  <2> QED BY <2>1, TokenStepType
<1>3. CASE \/ call.action = "transfer"
                /\ DoTransfer(k, call.receiver, call.token, call.amount, call.date)
           \/ call.action = "set_balance_attributes"
                /\ SetBalanceAttributes(call.account, listed, call.attributes)
  <2>1. PaymentStep
    BY <1>3, OrderType DEF PaymentStep, Listed
  <2> QED BY <2>1, PaymentStepType
<1>4. CASE call.action = "heartbeat" /\ DoHeartbeat(listed, call.token, call.date)
  BY <1>4, OrderType, HeartbeatType DEF Listed
<1>5. CASE IdleHeartbeat(listed, call.token, call.date)
  BY <1>5 DEF IdleHeartbeat, vars, TypeOK
<1> QED BY <1>1, <1>2, <1>3, <1>4, <1>5 DEF Perform

(* A refused call changes nothing but its batch.                           *)
LEMMA RefuseChangesNothing ==
    ASSUME NEW k, NEW call, NEW listed, Refuse(k, call, listed)
    PROVE  UNCHANGED <<state, inflated, annotated>>
BY DEF Refuse

(* The first manager stays.                                                *)
LEMMA ManagerStays ==
    ASSUME StepKinds, NEW k \in Keys, IsManager(k)
    PROVE  state'.manager = k
<1>1. k # None
  BY NoneAssumption
<1> QED BY <1>1 DEF StepKinds, AccountsChange, CashIssued, TokenIssued, IssuedAs, ImmutablesAdded,
        AddedAs, StatusSet, SetAs, Transferred, Paid, PaidOn, Annotated,
        AfterTransfer, AfterPayment, AfterNotes, SameAccounts, SameRoles, IsManager, vars

-----------------------------------------------------------------------------
(* What a call, the list it has read and its batch promise.                *)

Stages == InFlight \cup Ended
CallRecords == [stage : Stages, listed : (SUBSET Tokens) \cup (SUBSET Keys),
                batch : BatchPlaces, asked : 0 .. retry_num - 1]

(* The batch of a call that has not been submitted is nowhere yet, and     *)
(* attributes are only set, or prepared, for the manager.                  *)
Sound(n, c, s) ==
    /\ c \in CallRecords
    /\ Listed(n, c.listed)
    /\ c.stage \in {"asking", "listing", "ready", "forbidden"} => c.batch = "gone"
    /\ c.stage = "ok" => c.batch = "committed"
    /\ c.stage = "bad_request" => c.batch \in {"invalid", "gone"}
    /\ /\ order[n].call.action = "set_balance_attributes"
       /\ c.stage \in {"listing", "ready", "waiting"} \/ c.batch # "gone"
       => s.manager = order[n].signer

AllSound ==
    /\ calls = [n \in DOMAIN calls |-> calls[n]]
    /\ DOMAIN calls \subseteq Calls
    /\ \A n \in DOMAIN calls : Sound(n, calls[n], state)

(* One call changes, and what it promises then is kept.                    *)
LEMMA OneChanges ==
    ASSUME AllSound, NEW n \in DOMAIN calls, NEW c,
           calls' = [calls EXCEPT ![n] = c],
           Sound(n, c, state'),
           \A k \in Keys : IsManager(k) => state'.manager = k
    PROVE  AllSound'
<1>1. DOMAIN calls' = DOMAIN calls /\ calls' = [m \in DOMAIN calls' |-> calls'[m]]
  BY DEF AllSound
<1>2. ASSUME NEW m \in DOMAIN calls PROVE Sound(m, calls'[m], state')
  <2>1. CASE m = n
    BY <2>1 DEF AllSound
  <2>2. CASE m # n
    <3>1. calls'[m] = calls[m] /\ Sound(m, calls[m], state) /\ m \in Calls
      BY <2>2 DEF AllSound
    <3>2. order[m].signer \in Keys
      BY <3>1, OrderType
    <3> QED BY <3>1, <3>2 DEF Sound, IsManager
  <2> QED BY <2>1, <2>2
<1> QED BY <1>1, <1>2 DEF AllSound

(* A call that arrives promises nothing yet.                               *)
LEMMA ArriveKeeps ==
    ASSUME AllSound, NEW n \in Calls, Arrive(n)
    PROVE  AllSound'
<1>1. /\ n \notin DOMAIN calls
      /\ UNCHANGED state
      /\ calls' = [m \in DOMAIN calls \cup {n} |-> IF m = n THEN NewCall(n) ELSE calls[m]]
  BY DEF Arrive
<1> DEFINE c == NewCall(n)
<1>2. FirstStage(order[n].call) \in {"asking", "listing", "ready"}
  BY DEF FirstStage
<1>3. order[n].call.action = "set_balance_attributes" => FirstStage(order[n].call) = "asking"
  BY DEF FirstStage
<1>4. Sound(n, c, state')
  BY <1>2, <1>3 DEF Sound, CallRecords, NewCall, Listed, Stages, InFlight, BatchPlaces
<1>5. ASSUME NEW m \in DOMAIN calls' PROVE Sound(m, calls'[m], state')
  <2>1. CASE m = n
    BY <1>1, <1>4, <2>1
  <2>2. CASE m # n
    <3>1. m \in DOMAIN calls /\ calls'[m] = calls[m]
      BY <1>1, <2>2
    <3>2. Sound(m, calls[m], state)
      BY <3>1 DEF AllSound
    <3> QED BY <1>1, <3>1, <3>2
  <2> QED BY <2>1, <2>2
<1>6. DOMAIN calls' = DOMAIN calls \cup {n} /\ calls' = [m \in DOMAIN calls' |-> calls'[m]]
  BY <1>1
<1> QED BY <1>5, <1>6 DEF AllSound

(* What the server, or the command, does changes one call and no state.    *)
LEMMA ServeKeeps ==
    ASSUME AllSound, NEW n \in DOMAIN calls, Serve(n) \/ ReadFails(n) \/ ConnectionFails(n)
    PROVE  AllSound' /\ UNCHANGED <<state, inflated, annotated>>
<1> DEFINE c == calls[n]
           call == order[n].call
<1>1. UNCHANGED <<state, inflated, annotated>>
  BY DEF Serve, CheckManager, ListBalances, Submit, CheckBatchStatus, Return, ReadFails, ConnectionFails
<1>2. Sound(n, c, state) /\ n \in Calls /\ c \in CallRecords
  BY DEF AllSound, Sound
<1>3. CASE CheckManager(n)
  <2> DEFINE stage == IF ~IsManager(order[n].signer) THEN "forbidden"
                      ELSE IF call.action = "set_endorsement" THEN "ready"
                      ELSE "listing"
             d == [c EXCEPT !.stage = stage]
  <2>1. calls' = [calls EXCEPT ![n] = d] /\ c.stage = "asking"
    BY <1>3 DEF CheckManager, To
  <2>2. stage \in {"forbidden", "ready", "listing"}
    OBVIOUS
  <2>3. stage # "forbidden" => state.manager = order[n].signer
    BY DEF IsManager
  <2> HIDE DEF stage
  <2>4. Sound(n, d, state')
    BY <1>1, <1>2, <2>1, <2>2, <2>3
       DEF Sound, CallRecords, Stages, InFlight, Ended, BatchPlaces
  <2> HIDE DEF d
  <2> QED BY <1>1, <2>1, <2>4, OneChanges DEF IsManager
<1>4. CASE ListBalances(n)
  <2> DEFINE d == [c EXCEPT !.stage = "ready", !.listed = Listing(call)]
  <2>1. calls' = [calls EXCEPT ![n] = d] /\ c.stage = "listing"
    BY <1>4 DEF ListBalances
  <2>2. Listing(call) \in (SUBSET Tokens) \cup (SUBSET Keys) /\ Listed(n, Listing(call))
    BY DEF Listing, Listed
  <2>3. Sound(n, d, state')
    BY <1>1, <1>2, <2>1, <2>2 DEF Sound, CallRecords, Stages, InFlight, BatchPlaces
  <2> HIDE DEF d
  <2> QED BY <1>1, <2>1, <2>3, OneChanges DEF IsManager
<1>5. CASE Submit(n)
  <2> PICK place \in AfterSubmission :
        calls' = [calls EXCEPT ![n].batch = place,
                               ![n].stage = IF place = "gone" /\ order[n].client = "cli"
                                            THEN "raised" ELSE "waiting"]
    BY <1>5 DEF Submit
  <2> DEFINE stage == IF place = "gone" /\ order[n].client = "cli" THEN "raised" ELSE "waiting"
             d == [c EXCEPT !.batch = place, !.stage = stage]
  <2>1. calls' = [calls EXCEPT ![n] = d] /\ c.stage = "ready"
    BY <1>5 DEF Submit
  <2>2. place \in BatchPlaces /\ stage \in {"raised", "waiting"}
        /\ (stage = "raised" => place = "gone")
    BY DEF AfterSubmission, BatchPlaces
  <2> HIDE DEF stage
  <2>3. Sound(n, d, state')
    BY <1>1, <1>2, <2>1, <2>2 DEF Sound, CallRecords, Stages, InFlight, Ended
  <2> HIDE DEF d
  <2> QED BY <1>1, <2>1, <2>3, OneChanges DEF IsManager
<1>6. CASE CheckBatchStatus(n)
  <2> DEFINE asked == c.asked + 1
             stage == StageAfter(Status(c.batch), asked)
             next == IF asked < retry_num THEN asked ELSE c.asked
             d == [c EXCEPT !.stage = stage, !.asked = next]
  <2>1. calls' = [calls EXCEPT ![n] = d] /\ c.stage = "waiting"
    BY <1>6 DEF CheckBatchStatus
  <2>2. c.batch \in BatchPlaces /\ c.asked \in 0 .. retry_num - 1
    BY <1>2 DEF CallRecords
  <2>3. next \in 0 .. retry_num - 1
    BY <2>2
  <2>4. /\ stage \in {"ok", "bad_request", "server_error", "waiting"}
        /\ stage = "ok" => c.batch = "committed"
        /\ stage = "bad_request" => c.batch = "invalid"
    BY <2>2 DEF StageAfter, Status, BatchPlaces
  <2> HIDE DEF stage, next
  <2>5. Sound(n, d, state')
    BY <1>1, <1>2, <2>1, <2>3, <2>4 DEF Sound, CallRecords, Stages, InFlight, Ended
  <2> HIDE DEF d
  <2> QED BY <1>1, <2>1, <2>5, OneChanges DEF IsManager
<1>7. CASE Return(n)
  <2> DEFINE d == [c EXCEPT !.stage = "returned"]
  <2>1. calls' = [calls EXCEPT ![n] = d] /\ c.stage = "waiting"
    BY <1>7 DEF Return, To
  <2>2. Sound(n, d, state')
    BY <1>1, <1>2, <2>1 DEF Sound, CallRecords, Stages, InFlight, Ended
  <2> HIDE DEF d
  <2> QED BY <1>1, <2>1, <2>2, OneChanges DEF IsManager
<1>8. CASE ReadFails(n)
  <2> PICK stage \in {"forbidden", "ready"} :
        /\ calls' = [calls EXCEPT ![n].stage = stage]
        /\ stage = "forbidden" => c.stage = "asking"
        /\ stage = "ready" => c.stage = "listing"
    BY <1>8 DEF ReadFails, To
  <2> DEFINE d == [c EXCEPT !.stage = stage]
  <2>1. calls' = [calls EXCEPT ![n] = d]
    OBVIOUS
  <2>2. Sound(n, d, state')
    BY <1>1, <1>2 DEF Sound, CallRecords, Stages, InFlight, Ended
  <2> HIDE DEF d
  <2> QED BY <1>1, <2>1, <2>2, OneChanges DEF IsManager
<1>9. CASE ConnectionFails(n)
  <2> PICK stage \in {"server_error", "raised"} : calls' = [calls EXCEPT ![n].stage = stage]
    BY <1>9 DEF ConnectionFails, To
  <2> DEFINE d == [c EXCEPT !.stage = stage]
  <2>1. calls' = [calls EXCEPT ![n] = d] /\ c.stage \in InFlight
    BY <1>9 DEF ConnectionFails
  <2>2. Sound(n, d, state')
    BY <1>1, <1>2, <2>1 DEF Sound, CallRecords, Stages, InFlight, Ended
  <2> HIDE DEF d
  <2> QED BY <1>1, <2>1, <2>2, OneChanges DEF IsManager
<1> QED BY <1>1, <1>3, <1>4, <1>5, <1>6, <1>7, <1>8, <1>9 DEF Serve

(* A batch that moves was queued or refused: its call had been submitted.  *)
LEMMA BatchMoves ==
    ASSUME AllSound, NEW n \in DOMAIN calls, NEW place \in BatchPlaces,
           calls' = [calls EXCEPT ![n].batch = place],
           Queued(calls[n].batch) \/ Forgets(calls[n].batch, place),
           \A k \in Keys : IsManager(k) => state'.manager = k
    PROVE  AllSound'
<1> DEFINE d == [calls[n] EXCEPT !.batch = place]
<1>1. Sound(n, calls[n], state) /\ n \in Calls /\ order[n].signer \in Keys
  BY OrderType DEF AllSound
<1>2. Sound(n, d, state')
  BY <1>1 DEF Sound, CallRecords, Queued, Forgets, IsManager
<1>3. calls' = [calls EXCEPT ![n] = d]
  OBVIOUS
<1> HIDE DEF d
<1> QED BY <1>2, <1>3, OneChanges

(* Executing one call keeps what every call promises.                      *)
LEMMA ExecuteKeeps ==
    ASSUME Shaped(state), AllSound, NEW n \in DOMAIN calls, Execute(n)
    PROVE  Shaped(state') /\ StepKinds /\ AllSound'
<1>1. n \in Calls /\ Listed(n, calls[n].listed) /\ Queued(calls[n].batch)
  BY DEF AllSound, Sound, Execute
<1>2. Shaped(state') /\ StepKinds
  <2>1. CASE Perform(order[n].signer, order[n].call, calls[n].listed)
    BY <1>1, <2>1, PerformKind
  <2>2. CASE Refuse(order[n].signer, order[n].call, calls[n].listed)
    BY <2>2, RefuseChangesNothing DEF StepKinds, vars
  <2> QED BY <2>1, <2>2 DEF Execute
<1>3. PICK place \in {"committed", "invalid"} : calls' = [calls EXCEPT ![n].batch = place]
  BY DEF Execute
<1> QED BY <1>1, <1>2, <1>3, ManagerStays, BatchMoves DEF BatchPlaces

(* So does every step.                                                     *)
LEMMA StepKeeps ==
    ASSUME Shaped(state), AllSound, [ApiNext]_apiVars
    PROVE  Shaped(state') /\ StepKinds /\ AllSound'
<1>1. CASE \E n \in Calls : Arrive(n)
  BY <1>1, ArriveKeeps DEF Arrive, StepKinds, vars
<1>2. ASSUME NEW n \in DOMAIN calls, Serve(n) \/ ReadFails(n) \/ ConnectionFails(n)
      PROVE  Shaped(state') /\ StepKinds /\ AllSound'
  BY <1>2, ServeKeeps DEF StepKinds, vars
<1>3. ASSUME NEW n \in DOMAIN calls, Execute(n)
      PROVE  Shaped(state') /\ StepKinds /\ AllSound'
  BY <1>3, ExecuteKeeps
<1>4. ASSUME NEW n \in DOMAIN calls, Forget(n)
      PROVE  Shaped(state') /\ StepKinds /\ AllSound'
  <2>1. UNCHANGED vars
    BY <1>4 DEF Forget, vars
  <2>2. AllSound'
    BY <1>4, <2>1, BatchMoves DEF Forget, IsManager, vars
  <2> QED BY <2>1, <2>2 DEF StepKinds, vars
<1>5. CASE UNCHANGED apiVars
  BY <1>5 DEF apiVars, AllSound, StepKinds, vars
<1> QED BY <1>1, <1>2, <1>3, <1>4, <1>5 DEF ApiNext

Inv == Shaped(state) /\ AllSound

LEMMA Invariance == ApiSpec => []Inv
<1>1. ApiInit => Inv
  <2> SUFFICES ASSUME ApiInit PROVE Inv
    OBVIOUS
  <2>1. state \in TokenStates /\ calls = << >>
    BY DEF ApiInit
  <2>2. Shaped(state)
    BY <2>1 DEF TokenStates, Shaped, Parts, Balance, BalanceFields
  <2>3. AllSound
    BY <2>1 DEF AllSound
  <2> QED BY <2>2, <2>3 DEF Inv
<1>2. Inv /\ [ApiNext]_apiVars => Inv'
  BY StepKeeps DEF Inv
<1> QED BY <1>1, <1>2, PTL DEF ApiSpec

(* Attributes of balances are set for managers only.                       *)
THEOREM OnlyManagersAsk == ApiSpec => []OnlyManagersAnnotate
<1>1. Inv => OnlyManagersAnnotate
  BY DEF Inv, AllSound, Sound, OnlyManagersAnnotate, IsManager
<1> QED BY <1>1, Invariance, PTL

(* The answers of the REST API are true.                                   *)
THEOREM TrueAnswers == ApiSpec => []AnswersAreTrue
<1>1. Inv => AnswersAreTrue
  BY DEF Inv, AllSound, Sound, AnswersAreTrue, Queued
<1> QED BY <1>1, Invariance, PTL

(* A token comes back from INACTIVE by set_token_status alone, whatever    *)
(* the clients do meanwhile.                                               *)
THEOREM ApiReactivation == ApiSpec => ReactivationDoesNothingElse
<1> DEFINE Alone ==
        \A t \in Tokens :
            Issued(state, t) /\ ~Active(t) /\ Active(t)' /\ state'.issuer = state.issuer =>
                state' = set_token(state, t, [state.token[t] EXCEPT
                                                  !.status = state'.token[t].status])
<1>1. Inv /\ [ApiNext]_apiVars => [Alone]_vars
  <2> SUFFICES ASSUME Shaped(state), AllSound, [ApiNext]_apiVars PROVE Alone
    BY DEF Inv
  <2> QED BY StepKeeps, ReactivationStep
<1> QED BY <1>1, Invariance, PTL DEF ApiSpec, ReactivationDoesNothingElse

(* Immutables only narrow who may receive a token, whoever adds them.      *)
THEOREM ApiNarrowing == ApiSpec => ReceiversNarrow
<1> DEFINE Narrow ==
        \A k \in Keys, t \in Tokens :
            /\ Registered(state, k)
            /\ state'.account[k] = state.account[k]
            /\ Issued(state, t)
            /\ state'.issuer = state.issuer
            /\ detectTransferRestriction(state'.account[k], state'.token[t])
            => detectTransferRestriction(state.account[k], state.token[t])
<1>1. Inv /\ [ApiNext]_apiVars => [Narrow]_vars
  <2> SUFFICES ASSUME Shaped(state), AllSound, [ApiNext]_apiVars PROVE Narrow
    BY DEF Inv
  <2> QED BY StepKeeps, ReceiversStep
<1> QED BY <1>1, Invariance, PTL DEF ApiSpec, ReceiversNarrow

-----------------------------------------------------------------------------
(* What becomes of a balance, unless its attributes are set.               *)

HeldAreIssued(s) == \A k \in Keys, t \in Tokens : Holds(s, k, t) => Issued(s, t)

(* Tokens stay issued.                                                     *)
LEMMA TokensStayIssued ==
    ASSUME Shaped(state), StepKinds, NEW t \in Tokens, Issued(state, t)
    PROVE  Issued(state', t)
<1>0. state.token \in [Tokens -> Token \cup {None}]
  BY DEF Shaped
<1>1. CASE CashIssued
  <2> PICK k \in Keys : state'.token = [state.token EXCEPT ![CASH_TOKEN] = CashToken(k)]
    BY <1>1 DEF CashIssued
  <2>1. CashToken(k) \in Token
    BY PaymentAssumption DEF CashToken, Token, Statuses
  <2> QED BY <1>0, <2>1, NoneAssumption DEF Issued
<1>2. CASE TokenIssued
  BY <1>0, <1>2, NoneAssumption DEF TokenIssued, IssuedAs, Issued
<1>3. CASE ImmutablesAdded
  <2> PICK k \in Keys, v \in Tokens, new \in ImmutablesLists : AddedAs(k, v, new)
    BY <1>3 DEF ImmutablesAdded
  <2> DEFINE token == [state.token[v] EXCEPT !.immutables = new \o @, !.status = "ACTIVE"]
  <2>1. state.token[v] \in Token
    BY <1>0 DEF AddedAs, MayAddImmutables, Active, Issued
  <2>2. new \in Seq(Immutable) /\ state.token[v].immutables \in Seq(Immutable)
    BY <2>1, PaymentAssumption DEF Token
  <2>3. new \o state.token[v].immutables \in Seq(Immutable)
    BY <2>2
  <2>4. token \in Token
    BY <2>1, <2>3 DEF Token, Statuses
  <2>5. state'.token = [state.token EXCEPT ![v] = token]
    BY DEF AddedAs
  <2> HIDE DEF token
  <2> QED BY <1>0, <2>4, <2>5, NoneAssumption DEF Issued
<1>4. CASE StatusSet
  <2> PICK v \in Tokens, status \in Statuses : SetAs(v, status)
    BY <1>4 DEF StatusSet
  <2> DEFINE token == [state.token[v] EXCEPT !.status = status]
  <2>1. state.token[v] \in Token
    BY <1>0 DEF SetAs, Issued
  <2>2. token \in Token
    BY <2>1 DEF Token
  <2>3. state'.token = [state.token EXCEPT ![v] = token]
    BY DEF SetAs
  <2> HIDE DEF token
  <2> QED BY <1>0, <2>2, <2>3, NoneAssumption DEF Issued
<1> QED BY <1>1, <1>2, <1>3, <1>4, TokensChangeByKind DEF Issued

(* A balance stays, or an amount is added to it or taken from it, or it is *)
(* that of whom a new token, or the Cash Token, is issued to.              *)
BalanceAfter(k, t) ==
    \/ get_balance(state', k, t) = get_balance(state, k, t)
    \/ /\ Issued(state, t)
       /\ \E amount \in Int : get_balance(state', k, t) = Credit(get_balance(state, k, t), amount)
    \/ /\ ~Issued(state, t) \/ state'.issuer # state.issuer
       /\ Issued(state', t)
       /\ \E token \in Token : get_balance(state', k, t) = Whole(token)

(* What becomes of one balance in a step of any kind.                      *)
LEMMA BalanceStep ==
    ASSUME TypeOK, OtherKinds, NEW k \in Keys, NEW t \in Tokens
    PROVE  BalanceAfter(k, t)
<1>0. DOMAIN state.account_token = Keys \X Tokens /\ DOMAIN state.token = Tokens
  BY DEF TypeOK, TokenStates
<1>1. CASE AccountsChange \/ ImmutablesAdded \/ StatusSet \/ UNCHANGED vars
  BY <1>1 DEF AccountsChange, ImmutablesAdded, AddedAs, StatusSet, SetAs, vars,
              SameHoldings, get_balance, BalanceAfter
<1>2. ASSUME NEW x \in Keys, NEW v \in Tokens, NEW token \in Token,
             state'.token = [state.token EXCEPT ![v] = token],
             state'.account_token = [state.account_token EXCEPT ![<<x, v>>] = Whole(token)],
             ~Issued(state, v) \/ state'.issuer # state.issuer
      PROVE  BalanceAfter(k, t)
  <2>1. CASE <<x, v>> = <<k, t>>
    <3>1. Issued(state', t) /\ get_balance(state', k, t) = Whole(token)
      BY <1>0, <1>2, <2>1, NoneAssumption DEF Issued, get_balance
    <3> QED BY <1>2, <2>1, <3>1 DEF BalanceAfter
  <2>2. CASE <<x, v>> # <<k, t>>
    <3>1. get_balance(state', k, t) = get_balance(state, k, t)
      BY <1>0, <1>2, <2>2 DEF get_balance
    <3> QED BY <3>1 DEF BalanceAfter
  <2> QED BY <2>1, <2>2
<1>3. CASE CashIssued
  <2> PICK x \in Keys :
        /\ state'.token = [state.token EXCEPT ![CASH_TOKEN] = CashToken(x)]
        /\ state'.account_token =
              [state.account_token EXCEPT ![<<x, CASH_TOKEN>>] = Whole(CashToken(x))]
        /\ state.issuer = None /\ state'.issuer = x
    BY <1>3 DEF CashIssued
  <2>1. CashToken(x) \in Token /\ CASH_TOKEN \in Tokens /\ x # None
    BY TokenAssumption, PaymentAssumption, NoneAssumption DEF CashToken, Token, Statuses
  <2> QED BY <1>2, <2>1
<1>4. CASE TokenIssued
  BY <1>2, <1>4 DEF TokenIssued, IssuedAs
<1>5. CASE Transferred
  <2> PICK x \in Keys, receiver \in Keys, v \in Tokens, amount \in Amounts :
          /\ MayTransfer(x, receiver, v, amount)
          /\ AfterTransfer(state', state, v, x, receiver, amount)
    BY <1>5 DEF Transferred
  <2>1. Issued(state, v) /\ amount \in Int /\ -amount \in Int
    BY PaymentAssumption DEF MayTransfer, Active
  <2> DEFINE debited == Credit(get_balance(state, x, v), -amount)
             credited == Credit(get_balance(state, receiver, v), amount)
  <2>2. state'.account_token = [[state.account_token EXCEPT ![<<x, v>>] = debited]
                                                     EXCEPT ![<<receiver, v>>] = credited]
    BY DEF AfterTransfer
  <2>3. \/ get_balance(state', k, t) = get_balance(state, k, t)
        \/ get_balance(state', k, t) = debited /\ k = x /\ t = v
        \/ get_balance(state', k, t) = credited /\ k = receiver /\ t = v
    <3> HIDE DEF debited, credited
    <3> QED BY <1>0, <2>2 DEF get_balance
  <2> QED BY <2>1, <2>3 DEF BalanceAfter
<1>6. CASE Paid
  <2> PICK receivers \in SUBSET Keys, v \in Tokens, ts \in Times : PaidOn(receivers, v, ts)
    BY <1>6 DEF Paid
  <2> DEFINE due == Due(v, ts)
             balances == CashAfter(receivers, v, due)
  <2>1. /\ Issued(state, CASH_TOKEN) /\ Issued(state, v)
        /\ \A r \in receivers : Holds(state, r, v)
    BY DEF PaidOn, MayHeartbeat, Active
  <2>2. \/ balances[k] = get_balance(state, k, CASH_TOKEN)
        \/ \E amount \in Int : balances[k] = Credit(get_balance(state, k, CASH_TOKEN), amount)
    <3>1. -Outlay(v, due, receivers) \in Int
      BY <2>1, OutlayType DEF TypeOK
    <3>2. k \in receivers => Income(v, due, k) \in Int
      BY <2>1, IncomeType DEF TypeOK
    <3> HIDE DEF due
    <3> QED BY <3>1, <3>2 DEF CashAfter
  <2> HIDE DEF balances
  <2>3. AfterPayment(state', state, CASH_TOKEN, balances)
    BY DEF PaidOn, balances
  <2>4. get_balance(state', k, t) = IF t = CASH_TOKEN THEN balances[k]
                                                      ELSE get_balance(state, k, t)
    BY <2>3 DEF AfterPayment, get_balance
  <2> QED BY <2>1, <2>2, <2>4 DEF BalanceAfter
<1> QED BY <1>1, <1>3, <1>4, <1>5, <1>6 DEF OtherKinds

-----------------------------------------------------------------------------
(* Balances are never removed, and carry the attributes set on them.       *)

AttributesOf(balance) == IF balance = None THEN NoAttributes ELSE balance.attributes

(* Money received leaves the attributes of a balance alone.                *)
LEMMA CreditKeepsAttributes ==
    ASSUME NEW balance \in Balance \cup {None}, NEW amount \in Int
    PROVE  /\ Credit(balance, amount) # None
           /\ AttributesOf(Credit(balance, amount)) = AttributesOf(balance)
<1>1. Credit(balance, amount) # None
  BY CreditType, NoneAssumption
<1>2. Credit(balance, amount).attributes = AttributesOf(balance)
  BY DEF Credit, AttributesOf, Balance
<1> QED BY <1>1, <1>2 DEF AttributesOf

(* A whole supply just issued is a balance without attributes.             *)
LEMMA WholeIsBalance ==
    ASSUME NEW token \in Token
    PROVE  Whole(token) # None /\ AttributesOf(Whole(token)) = NoAttributes
<1>1. Whole(token) \in Balance
  BY TokenAssumption DEF Whole, Token, Balance
<1> QED BY <1>1, NoneAssumption DEF AttributesOf, Whole

(* Attributes are only set on what is held.                                *)
NotedOn(x, identifiers, attributes) ==
    /\ x \in Keys /\ identifiers \subseteq Tokens /\ attributes \in Attributes
    /\ \A t \in identifiers : Holds(state, x, t)
    /\ AfterNotes(state', state, x, identifiers, attributes)

(* Attributes noted are on the balance after any kind of step.             *)
LEMMA NotesStep ==
    ASSUME TypeOK, NEW x, NEW identifiers, NEW attributes, NotedOn(x, identifiers, attributes),
           NEW k \in Keys, NEW t \in Tokens
    PROVE  /\ Holds(state', k, t) <=> Holds(state, k, t)
           /\ k = x /\ t \in identifiers =>
                 AttributesOf(get_balance(state', k, t)) = attributes
           /\ ~(k = x /\ t \in identifiers) =>
                 AttributesOf(get_balance(state', k, t)) = AttributesOf(get_balance(state, k, t))
<1>1. CASE k = x /\ t \in identifiers
  <2>1. get_balance(state, k, t) \in Balance /\ Holds(state, k, t)
    BY <1>1, BalanceType DEF NotedOn, TypeOK
  <2>2. get_balance(state', k, t) = [get_balance(state, k, t) EXCEPT !.attributes = attributes]
    BY <1>1 DEF NotedOn, AfterNotes, get_balance
  <2>3. get_balance(state', k, t) \in Balance /\ get_balance(state', k, t).attributes = attributes
    BY <2>1, <2>2 DEF NotedOn, Balance
  <2>4. Holds(state', k, t)
    BY <2>3, NoneAssumption DEF Holds
  <2> QED BY <1>1, <2>1, <2>3, <2>4 DEF AttributesOf, Holds
<1>2. CASE ~(k = x /\ t \in identifiers)
  <2>1. get_balance(state', k, t) = get_balance(state, k, t)
    BY <1>2 DEF NotedOn, AfterNotes, get_balance
  <2> QED BY <1>2, <2>1 DEF Holds
<1> QED BY <1>1, <1>2

(* No kind of step removes a balance.                                      *)
LEMMA HoldersStay ==
    ASSUME TypeOK, StepKinds, HeldAreIssued(state)
    PROVE  /\ HeldAreIssued(state')
           /\ \A k \in Keys, t \in Tokens : Holds(state, k, t) => Holds(state', k, t)
<1>1. Shaped(state)
  BY StatesAreShaped DEF TypeOK
<1> SUFFICES ASSUME NEW k \in Keys, NEW t \in Tokens
             PROVE  /\ Holds(state', k, t) => Issued(state', t)
                    /\ Holds(state, k, t) => Holds(state', k, t)
  BY DEF HeldAreIssued
<1>2. Holds(state, k, t) => Issued(state, t)
  BY DEF HeldAreIssued
<1>3. Issued(state, t) => Issued(state', t)
  BY <1>1, TokensStayIssued
<1>4. CASE Annotated
  <2>1. Holds(state', k, t) <=> Holds(state, k, t)
    BY <1>4, NotesStep DEF Annotated, NotedOn
  <2> QED BY <1>2, <1>3, <2>1
<1>5. CASE OtherKinds
  <2>1. BalanceAfter(k, t)
    BY <1>5, BalanceStep
  <2>2. get_balance(state, k, t) \in Balance \cup {None}
    BY BalanceType DEF TypeOK
  <2>3. \A amount \in Int : Credit(get_balance(state, k, t), amount) # None
    BY <2>2, CreditKeepsAttributes
  <2> QED BY <1>2, <1>3, <2>1, <2>3, WholeIsBalance DEF BalanceAfter, Holds
<1> QED BY <1>4, <1>5 DEF StepKinds, OtherKinds

(* While the issuer stays, steps other than annotating keep the attributes *)
(* of a balance.                                                           *)
LEMMA AttributesStep ==
    ASSUME TypeOK, OtherKinds, HeldAreIssued(state), state'.issuer = state.issuer,
           NEW k \in Keys, NEW t \in Tokens
    PROVE  AttributesOf(get_balance(state', k, t)) = AttributesOf(get_balance(state, k, t))
<1>1. BalanceAfter(k, t)
  BY BalanceStep
<1>2. get_balance(state, k, t) \in Balance \cup {None}
  BY BalanceType DEF TypeOK
<1>3. \A amount \in Int : AttributesOf(Credit(get_balance(state, k, t), amount)) =
                              AttributesOf(get_balance(state, k, t))
  BY <1>2, CreditKeepsAttributes
<1>4. ~Issued(state, t) => AttributesOf(get_balance(state, k, t)) = NoAttributes
  BY DEF HeldAreIssued, Holds, AttributesOf
<1> QED BY <1>1, <1>3, <1>4, WholeIsBalance DEF BalanceAfter

(* Only set_issuer makes an issuer.                                        *)
LEMMA IssuerStays ==
    ASSUME Shaped(state), NEW n \in Calls, NEW listed, Listed(n, listed),
           Perform(order[n].signer, order[n].call, listed),
           order[n].call.action \notin {"set_issuer", "set_balance_attributes"}
    PROVE  state'.issuer = state.issuer
<1> DEFINE k == order[n].signer
           call == order[n].call
<1>1. CASE \/ SetManager(k, call.endorsement)
           \/ SetAccount(k, call.endorsement)
           \/ SetEndorsement(k, call.account, call.endorsement)
  BY <1>1, IssuerKept
<1>2. CASE \/ /\ call.action = "issue_token"
              /\ IssueToken(k, call.token, call.supply, call.endorsed, call.schedule)
           \/ /\ call.action = "set_immutables"
              /\ AddImmutables(k, call.token, call.immutables)
           \/ call.action = "set_token_status" /\ SetTokenStatus(k, call.token, call.status)
  <2>1. TokenStep
    BY <1>2, OrderType DEF TokenStep
  <2> QED BY <2>1, TokenStepKinds DEF TokenIssued, IssuedAs, ImmutablesAdded, AddedAs,
          StatusSet, SetAs, SameAccounts, SameRoles
<1>3. CASE /\ call.action = "transfer"
           /\ DoTransfer(k, call.receiver, call.token, call.amount, call.date)
  BY <1>3, OrderType, TransferKind DEF Transferred, AfterTransfer, SameAccounts, SameRoles
<1>4. CASE call.action = "heartbeat" /\ DoHeartbeat(listed, call.token, call.date)
  BY <1>4, OrderType, HeartbeatKind
     DEF Listed, Paid, PaidOn, AfterPayment, SameAccounts, SameRoles
<1>5. CASE call.action = "heartbeat" /\ IdleHeartbeat(listed, call.token, call.date)
  BY <1>5 DEF IdleHeartbeat, vars
<1> QED BY <1>1, <1>2, <1>3, <1>4, <1>5 DEF Perform

(* Nobody's account is taken away.                                         *)
LEMMA AccountsStay ==
    ASSUME Shaped(state), StepKinds, NEW k \in Keys, Registered(state, k)
    PROVE  Registered(state', k)
<1>1. CASE state'.account = state.account
  BY <1>1 DEF Registered
<1>2. CASE \E x \in Keys, e \in SUBSET EndorsementKeys :
              state'.account = [state.account EXCEPT ![x] = e]
  BY <1>2, AccountsStayRegistered
<1> QED BY <1>1, <1>2 DEF StepKinds, AccountsChange, CashIssued, TokenIssued, IssuedAs,
          ImmutablesAdded, AddedAs, StatusSet, SetAs, Transferred, Paid, PaidOn, Annotated,
          AfterTransfer, AfterPayment, AfterNotes, SameAccounts, vars

-----------------------------------------------------------------------------
(* The lists that calls have read.                                         *)

ListIsValid(n, listed, s) ==
    LET call == order[n].call IN
    /\ call.action = "heartbeat" =>
          \A r \in listed : Registered(s, r) /\ Holds(s, r, call.token)
    /\ call.action = "set_balance_attributes" =>
          \A t \in listed : Holds(s, call.account, t)

(* A call keeps its list, begins without one, or lists what there is.      *)
ListAfter(n) ==
    \/ n \in DOMAIN calls /\ calls'[n].listed = calls[n].listed
    \/ calls'[n].listed = {}
    \/ calls'[n].listed = Listing(order[n].call) /\ UNCHANGED state

(* A list changes only when its own call reads it.                         *)
LEMMA ListsChange ==
    ASSUME AllSound, [ApiNext]_apiVars, NEW m \in DOMAIN calls'
    PROVE  ListAfter(m)
<1>1. ASSUME NEW n \in DOMAIN calls, NEW c, c.listed = calls[n].listed,
             calls' = [calls EXCEPT ![n] = c]
      PROVE  ListAfter(m)
  <2>1. m \in DOMAIN calls /\ calls'[m] = IF m = n THEN c ELSE calls[m]
    BY <1>1
  <2> QED BY <1>1, <2>1 DEF ListAfter
<1>2. CASE \E n \in Calls : Arrive(n)
  <2> PICK n \in Calls : Arrive(n)
    BY <1>2
  <2>1. m \in DOMAIN calls \cup {n} /\ calls'[m] = IF m = n THEN NewCall(n) ELSE calls[m]
    BY DEF Arrive
  <2> QED BY <2>1 DEF ListAfter, NewCall
<1>3. ASSUME NEW n \in DOMAIN calls, ListBalances(n)
      PROVE  ListAfter(m)
  <2> DEFINE c == [calls[n] EXCEPT !.stage = "ready", !.listed = Listing(order[n].call)]
  <2>1. calls' = [calls EXCEPT ![n] = c] /\ UNCHANGED state
    BY <1>3 DEF ListBalances
  <2>2. c.listed = Listing(order[n].call)
    BY DEF AllSound, Sound, CallRecords
  <2> HIDE DEF c
  <2>3. m \in DOMAIN calls /\ calls'[m] = IF m = n THEN c ELSE calls[m]
    BY <2>1
  <2> QED BY <2>1, <2>2, <2>3 DEF ListAfter
<1>4. ASSUME NEW n \in DOMAIN calls,
             \/ CheckManager(n) \/ Submit(n) \/ CheckBatchStatus(n) \/ Return(n)
             \/ ReadFails(n) \/ ConnectionFails(n) \/ Execute(n) \/ Forget(n)
      PROVE  ListAfter(m)
  <2>1. \/ \E stage : calls' = [calls EXCEPT ![n] = [calls[n] EXCEPT !.stage = stage]]
        \/ \E batch : calls' = [calls EXCEPT ![n] = [calls[n] EXCEPT !.batch = batch]]
        \/ \E batch, stage :
              calls' = [calls EXCEPT ![n] = [calls[n] EXCEPT !.batch = batch, !.stage = stage]]
        \/ \E stage, asked :
              calls' = [calls EXCEPT ![n] = [calls[n] EXCEPT !.stage = stage, !.asked = asked]]
    <3>1. CASE CheckManager(n) \/ Return(n) \/ ReadFails(n) \/ ConnectionFails(n)
      BY <3>1 DEF CheckManager, Return, ReadFails, ConnectionFails, To
    <3>2. CASE Submit(n)
      <4> PICK place \in AfterSubmission :
            calls' = [calls EXCEPT ![n].batch = place,
                                   ![n].stage = IF place = "gone" /\ order[n].client = "cli"
                                                THEN "raised" ELSE "waiting"]
        BY <3>2 DEF Submit
      <4> DEFINE stage == IF place = "gone" /\ order[n].client = "cli" THEN "raised" ELSE "waiting"
      <4>1. calls' = [calls EXCEPT ![n] = [calls[n] EXCEPT !.batch = place, !.stage = stage]]
        OBVIOUS
      <4> HIDE DEF stage
      <4> QED BY <4>1
    <3>3. CASE CheckBatchStatus(n)
      <4> DEFINE asked == calls[n].asked + 1
                 stage == StageAfter(Status(calls[n].batch), asked)
                 next == IF asked < retry_num THEN asked ELSE calls[n].asked
      <4>1. calls' = [calls EXCEPT ![n] = [calls[n] EXCEPT !.stage = stage, !.asked = next]]
        BY <3>3 DEF CheckBatchStatus
      <4> HIDE DEF stage, next
      <4> QED BY <4>1
    <3>4. CASE Execute(n) \/ Forget(n)
      BY <3>4 DEF Execute, Forget
    <3> QED BY <1>4, <3>1, <3>2, <3>3, <3>4
  <2>2. calls[n] \in CallRecords
    BY DEF AllSound, Sound
  <2>3. PICK c : calls' = [calls EXCEPT ![n] = c] /\ c.listed = calls[n].listed
    BY <2>1, <2>2 DEF CallRecords
  <2> QED BY <1>1, <2>3
<1>5. CASE UNCHANGED apiVars
  BY <1>5 DEF apiVars, ListAfter
<1> QED BY <1>2, <1>3, <1>4, <1>5 DEF ApiNext, Serve

(* What is listed is there, and belongs to registered accounts.            *)
LEMMA ListingIsValid ==
    ASSUME AllRegistered(state), NEW n \in Calls
    PROVE  ListIsValid(n, Listing(order[n].call), state)
BY OrderType DEF ListIsValid, Listing, AllRegistered

(* The balances of a list stay.                                            *)
LEMMA ListsStep ==
    ASSUME TypeOK, AllSound, AllRegistered(state), HeldAreIssued(state), ListsStayValid,
           [ApiNext]_apiVars
    PROVE  ListsStayValid'
<1>0. Shaped(state)
  BY StatesAreShaped DEF TypeOK
<1>1. StepKinds /\ AllSound'
  BY <1>0, StepKeeps
<1>2. /\ \A k \in Keys : Registered(state, k) => Registered(state', k)
      /\ \A k \in Keys, t \in Tokens : Holds(state, k, t) => Holds(state', k, t)
  BY <1>0, <1>1, AccountsStay, HoldersStay
<1>3. ASSUME NEW m \in DOMAIN calls'
      PROVE  ListIsValid(m, calls'[m].listed, state')
  <2>0. m \in Calls
    BY <1>1 DEF AllSound
  <2>1. CASE m \in DOMAIN calls /\ calls'[m].listed = calls[m].listed
    <3>1. Listed(m, calls[m].listed)
      BY <2>1 DEF AllSound, Sound
    <3>2. ListIsValid(m, calls[m].listed, state)
      BY <2>1 DEF ListsStayValid, ListIsValid
    <3>3. ListIsValid(m, calls[m].listed, state')
      BY <1>2, <2>0, <3>1, <3>2, OrderType DEF ListIsValid, Listed
    <3> QED BY <2>1, <3>3
  <2>2. CASE calls'[m].listed = {}
    BY <2>2 DEF ListIsValid
  <2>3. CASE calls'[m].listed = Listing(order[m].call) /\ UNCHANGED state
    BY <2>0, <2>3, ListingIsValid
  <2> QED BY <2>1, <2>2, <2>3, ListsChange DEF ListAfter
<1> QED BY <1>3 DEF ListsStayValid, ListIsValid

-----------------------------------------------------------------------------
(* The inductive invariant of types, lists and attributes.                 *)

NotesKept ==
    \A k \in Keys, t \in Tokens :
        annotated[<<k, t>>] = AttributesOf(get_balance(state, k, t))

ApiInv ==
    /\ ApiTypeOK
    /\ AllSound
    /\ AllRegistered(state)
    /\ HeldAreIssued(state)
    /\ NotesKept
    /\ ListsStayValid

(* What was annotated stays as it was set.                                 *)
LEMMA NotesStay ==
    ASSUME TypeOK, AllSound, HeldAreIssued(state), NotesKept,
           annotated \in [Keys \X Tokens -> Attributes], [ApiNext]_apiVars
    PROVE  NotesKept' /\ annotated' \in [Keys \X Tokens -> Attributes]
<1>0. Shaped(state)
  BY StatesAreShaped DEF TypeOK
<1>1. CASE UNCHANGED <<state, inflated, annotated>>
  BY <1>1 DEF NotesKept
<1>2. ASSUME NEW n \in DOMAIN calls,
             Perform(order[n].signer, order[n].call, calls[n].listed),
             Annotate(order[n].signer, order[n].call, calls[n].listed)
      PROVE  NotesKept' /\ annotated' \in [Keys \X Tokens -> Attributes]
  <2> DEFINE call == order[n].call
             listed == calls[n].listed
  <2>1. n \in Calls /\ Listed(n, listed)
    BY DEF AllSound, Sound
  <2>2. CASE call.action = "set_issuer"
    <3> DEFINE k == order[n].signer
    <3>1. k \in Keys /\ call.endorsement \in Endorsements
      BY <2>1, <2>2, OrderType
    <3>2. SetIssuer(k, call.endorsement)
      BY <1>2, <2>2 DEF Perform
    <3>3. annotated' = [annotated EXCEPT ![<<k, CASH_TOKEN>>] = NoAttributes]
      BY <1>2, <2>2 DEF Annotate
    <3> HIDE DEF k, call
    <3>4. /\ CashToken(k) \in Token
          /\ state'.account_token =
                [state.account_token EXCEPT ![<<k, CASH_TOKEN>>] = Whole(CashToken(k))]
      BY <1>0, <3>1, <3>2, IssuerStep
    <3>5. /\ DOMAIN state.account_token = Keys \X Tokens /\ NoAttributes \in Attributes
          /\ CASH_TOKEN \in Tokens
      BY TokenAssumption DEF TypeOK, TokenStates
    <3>6. ASSUME NEW x \in Keys, NEW t \in Tokens
          PROVE  annotated'[<<x, t>>] = AttributesOf(get_balance(state', x, t))
      <4>1. CASE <<x, t>> = <<k, CASH_TOKEN>>
        <5>1. get_balance(state', x, t) = Whole(CashToken(k))
          BY <3>1, <3>4, <3>5, <4>1 DEF get_balance
        <5>2. annotated'[<<x, t>>] = NoAttributes
          BY <3>1, <3>3, <3>5, <4>1
        <5> QED BY <3>4, <5>1, <5>2, WholeIsBalance
      <4>2. CASE <<x, t>> # <<k, CASH_TOKEN>>
        <5>1. get_balance(state', x, t) = get_balance(state, x, t)
          BY <3>4, <3>5, <4>2 DEF get_balance
        <5>2. annotated'[<<x, t>>] = annotated[<<x, t>>]
          BY <3>3, <4>2
        <5> QED BY <5>1, <5>2 DEF NotesKept
      <4> QED BY <4>1, <4>2
    <3>7. annotated' \in [Keys \X Tokens -> Attributes]
      BY <3>3, <3>5
    <3> QED BY <3>6, <3>7 DEF NotesKept
  <2>3. CASE call.action \notin {"set_issuer", "set_balance_attributes"}
    <3>1. OtherKinds /\ state'.issuer = state.issuer
      BY <1>0, <1>2, <2>1, <2>3, PerformKind, IssuerStays
    <3>2. annotated' = annotated
      BY <1>2, <2>3 DEF Annotate
    <3>3. ASSUME NEW k \in Keys, NEW t \in Tokens
          PROVE  annotated'[<<k, t>>] = AttributesOf(get_balance(state', k, t))
      BY <3>1, <3>2, AttributesStep DEF NotesKept
    <3> QED BY <3>2, <3>3 DEF NotesKept
  <2>4. CASE call.action = "set_balance_attributes"
    <3>1. /\ call.account \in Keys /\ call.attributes \in Attributes
          /\ listed \in SUBSET Tokens
      BY <2>1, <2>4, OrderType DEF Listed
    <3>2. /\ \A t \in listed : Holds(state, call.account, t)
          /\ AfterNotes(state', state, call.account, listed, call.attributes)
      BY <1>0, <1>2, <2>1, <2>4, PerformKind
    <3>3. annotated' = [b \in Keys \X Tokens |->
                            IF b[1] = call.account /\ b[2] \in listed
                            THEN call.attributes ELSE annotated[b]]
      BY <1>2, <2>4 DEF Annotate
    <3> HIDE DEF call, listed
    <3>4. annotated' \in [Keys \X Tokens -> Attributes]
      BY <3>1, <3>3
    <3>5. ASSUME NEW k \in Keys, NEW t \in Tokens
          PROVE  annotated'[<<k, t>>] = AttributesOf(get_balance(state', k, t))
      <4>1. annotated'[<<k, t>>] = IF k = call.account /\ t \in listed
                                   THEN call.attributes ELSE annotated[<<k, t>>]
        BY <3>3
      <4>2. annotated[<<k, t>>] = AttributesOf(get_balance(state, k, t))
        BY DEF NotesKept
      <4>3. AttributesOf(get_balance(state', k, t)) =
                IF k = call.account /\ t \in listed THEN call.attributes
                ELSE AttributesOf(get_balance(state, k, t))
        <5>1. NotedOn(call.account, listed, call.attributes)
          BY <3>1, <3>2 DEF NotedOn
        <5> QED BY <5>1, NotesStep
      <4> QED BY <4>1, <4>2, <4>3
    <3> QED BY <3>4, <3>5 DEF NotesKept
  <2> QED BY <2>2, <2>3, <2>4
<1>3. CASE \E n \in Calls : Arrive(n)
  BY <1>1, <1>3 DEF Arrive
<1>4. ASSUME NEW n \in DOMAIN calls, Serve(n) \/ ReadFails(n) \/ ConnectionFails(n) \/ Forget(n)
      PROVE  UNCHANGED <<state, inflated, annotated>>
  BY <1>4, ServeKeeps DEF Forget
<1>5. ASSUME NEW n \in DOMAIN calls, Execute(n)
      PROVE  NotesKept' /\ annotated' \in [Keys \X Tokens -> Attributes]
  <2>1. \/ /\ Perform(order[n].signer, order[n].call, calls[n].listed)
           /\ Annotate(order[n].signer, order[n].call, calls[n].listed)
        \/ Refuse(order[n].signer, order[n].call, calls[n].listed)
    BY <1>5 DEF Execute
  <2> QED BY <1>1, <1>2, <2>1, RefuseChangesNothing
<1> QED BY <1>1, <1>3, <1>4, <1>5 DEF ApiNext, apiVars

(* Types are kept.                                                         *)
LEMMA TypesStay ==
    ASSUME ApiTypeOK, AllSound, [ApiNext]_apiVars
    PROVE  TypeOK' /\ faults' \in 0 .. MaxFaults
<1>0. TypeOK /\ faults \in 0 .. MaxFaults /\ MaxFaults \in Nat
  BY DEF ApiTypeOK
<1>1. CASE UNCHANGED apiVars
  BY <1>0, <1>1 DEF apiVars, TypeOK
<1>2. CASE \E n \in Calls : Arrive(n)
  BY <1>0, <1>2 DEF Arrive, TypeOK
<1>3. ASSUME NEW n \in DOMAIN calls, Serve(n) \/ ReadFails(n) \/ ConnectionFails(n) \/ Forget(n)
      PROVE  TypeOK' /\ faults' \in 0 .. MaxFaults
  <2>1. UNCHANGED <<state, inflated, annotated>>
    BY <1>3, ServeKeeps DEF Forget
  <2>2. UNCHANGED faults \/ Fault
    BY <1>3 DEF Serve, CheckManager, ListBalances, Submit, CheckBatchStatus, Return,
                ReadFails, ConnectionFails, Forget
  <2>3. faults' \in 0 .. MaxFaults
    BY <1>0, <2>2 DEF Fault
  <2> QED BY <1>0, <2>1, <2>3 DEF TypeOK
<1>4. ASSUME NEW n \in DOMAIN calls, Execute(n)
      PROVE  TypeOK' /\ faults' \in 0 .. MaxFaults
  <2>1. n \in Calls /\ Listed(n, calls[n].listed)
    BY DEF AllSound, Sound
  <2>2. faults' = faults
    BY <1>4 DEF Execute
  <2>3. \/ Perform(order[n].signer, order[n].call, calls[n].listed)
        \/ Refuse(order[n].signer, order[n].call, calls[n].listed)
    BY <1>4 DEF Execute
  <2>4. TypeOK'
    BY <1>0, <2>1, <2>3, PerformType, RefuseChangesNothing DEF TypeOK
  <2> QED BY <1>0, <2>2, <2>4
<1> QED BY <1>1, <1>2, <1>3, <1>4 DEF ApiNext

(* Every step keeps the invariant.                                         *)
LEMMA ApiInvStep ==
    ASSUME ApiInv, [ApiNext]_apiVars
    PROVE  ApiInv'
<1>1. TypeOK /\ AllSound /\ annotated \in [Keys \X Tokens -> Attributes]
  BY DEF ApiInv, ApiTypeOK
<1>2. Shaped(state)
  BY <1>1, StatesAreShaped DEF TypeOK
<1>3. StepKinds /\ AllSound'
  BY <1>1, <1>2, StepKeeps
<1>4. AllRegistered(state') /\ HeldAreIssued(state')
  BY <1>1, <1>2, <1>3, RegisteredStep, HoldersStay DEF ApiInv
<1>5. NotesKept' /\ annotated' \in [Keys \X Tokens -> Attributes]
  BY <1>1, NotesStay DEF ApiInv
<1>6. TypeOK' /\ faults' \in 0 .. MaxFaults
  BY TypesStay DEF ApiInv
<1>7. ApiTypeOK'
  BY <1>3, <1>5, <1>6 DEF ApiTypeOK, AllSound, Sound, CallRecords, Stages
<1>8. ListsStayValid'
  BY <1>1, ListsStep DEF ApiInv
<1> QED BY <1>3, <1>4, <1>5, <1>7, <1>8 DEF ApiInv

LEMMA ApiInvariance == ApiSpec => []ApiInv
<1>1. ApiInit => ApiInv
  <2> SUFFICES ASSUME ApiInit PROVE ApiInv
    OBVIOUS
  <2>1. /\ state \in TokenStates /\ inflated = {} /\ calls = <<>> /\ faults = 0
        /\ AllRegistered(state) /\ HeldAreIssued(state)
    BY DEF ApiInit, InOrder, HeldAreIssued
  <2>2. annotated = [b \in Keys \X Tokens |-> AttributesOf(state.account_token[b])]
    BY DEF ApiInit, AttributesOf
  <2>3. NotesKept
    BY <2>2 DEF NotesKept, get_balance
  <2>4. ASSUME NEW b \in Keys \X Tokens
        PROVE  AttributesOf(state.account_token[b]) \in Attributes
    BY <2>1, TokenAssumption DEF TokenStates, Balance, AttributesOf
  <2>5. annotated \in [Keys \X Tokens -> Attributes]
    BY <2>2, <2>4
  <2>6. ApiTypeOK
    BY <2>1, <2>5 DEF ApiTypeOK, TypeOK
  <2> QED BY <2>1, <2>3, <2>6 DEF ApiInv, AllSound, ListsStayValid
<1>2. ApiInv /\ [ApiNext]_apiVars => ApiInv'
  BY ApiInvStep
<1> QED BY <1>1, <1>2, PTL DEF ApiSpec

(* Every call is at a stage, with a list and a batch of its kind, and the  *)
(* global state keeps its shape, whatever clients send.                    *)
THEOREM ApiTypeCorrect == ApiSpec => []ApiTypeOK
<1>1. ApiInv => ApiTypeOK
  BY DEF ApiInv
<1> QED BY <1>1, ApiInvariance, PTL

(* What was listed before a transaction was built is still there when it   *)
(* is executed, however late that is.                                      *)
THEOREM ListsLast == ApiSpec => []ListsStayValid
<1>1. ApiInv => ListsStayValid
  BY DEF ApiInv
<1> QED BY <1>1, ApiInvariance, PTL

-----------------------------------------------------------------------------
(* What each operation writes, entry by entry.                             *)

(* u differs from s at most in the entries at the addresses D.             *)
Within(s, u, D) ==
    /\ \A k \in Keys : u.account[k] = s.account[k] \/ <<"account", k>> \in D
    /\ u.manager = s.manager \/ <<"manager">> \in D
    /\ u.issuer = s.issuer \/ <<"issuer">> \in D
    /\ \A t \in Tokens : u.token[t] = s.token[t] \/ <<"token", t>> \in D
    /\ \A k \in Keys, t \in Tokens :
          \/ u.account_token[<<k, t>>] = s.account_token[<<k, t>>]
          \/ <<"account_token", k, t>> \in D
    /\ \A k \in Keys, t \in Tokens :
          \/ u.token_account[<<t, k>>] = s.token_account[<<t, k>>]
          \/ <<"token_account", t, k>> \in D
    /\ \A e \in s.transfers \cup u.transfers :
          \/ e \in s.transfers /\ e \in u.transfers
          \/ <<"transfer", e.token, e.sender_pkey, e.receiver_pkey, e.date>> \in D

(* To write only within a set of addresses is what the property compares.  *)
LEMMA ChangedIsWithin ==
    ASSUME NEW s, NEW u, NEW D, Within(s, u, D)
    PROVE  Changed(s, u) \subseteq D
<1>1. Accounts({k \in Keys : s.account[k] # u.account[k]}) \subseteq D
  BY DEF Within, Accounts
<1>2. /\ (IF s.manager = u.manager THEN {} ELSE Manager) \subseteq D
      /\ (IF s.issuer = u.issuer THEN {} ELSE Issuer) \subseteq D
  BY DEF Within, Manager, Issuer
<1>3. TokensAt({t \in Tokens : s.token[t] # u.token[t]}) \subseteq D
  BY DEF Within, TokensAt
<1>4. {<<"account_token", b[1], b[2]>> :
          b \in {b \in Keys \X Tokens : s.account_token[b] # u.account_token[b]}} \subseteq D
  <2> SUFFICES ASSUME NEW b \in Keys \X Tokens, s.account_token[b] # u.account_token[b]
               PROVE  <<"account_token", b[1], b[2]>> \in D
    OBVIOUS
  <2>1. b = <<b[1], b[2]>> /\ b[1] \in Keys /\ b[2] \in Tokens
    OBVIOUS
  <2> QED BY <2>1 DEF Within
<1>5. {<<"token_account", b[1], b[2]>> :
          b \in {b \in Tokens \X Keys : s.token_account[b] # u.token_account[b]}} \subseteq D
  <2> SUFFICES ASSUME NEW b \in Tokens \X Keys, s.token_account[b] # u.token_account[b]
               PROVE  <<"token_account", b[1], b[2]>> \in D
    OBVIOUS
  <2>1. b = <<b[1], b[2]>> /\ b[2] \in Keys /\ b[1] \in Tokens
    OBVIOUS
  <2> QED BY <2>1 DEF Within
<1>6. {<<"transfer", e.token, e.sender_pkey, e.receiver_pkey, e.date>> :
          e \in (s.transfers \ u.transfers) \cup (u.transfers \ s.transfers)} \subseteq D
  BY DEF Within
<1> QED BY <1>1, <1>2, <1>3, <1>4, <1>5, <1>6 DEF Changed

LEMMA NothingChanged ==
    ASSUME NEW s, NEW D
    PROVE  Within(s, s, D)
BY DEF Within

LEMMA WithinBoth ==
    ASSUME NEW s, NEW v, NEW u, NEW D, Within(s, v, D), Within(v, u, D)
    PROVE  Within(s, u, D)
BY DEF Within

(* The copies of the balances and the transfers on record, kept.           *)
SameRecords(u, s) == u.token_account = s.token_account /\ u.transfers = s.transfers

(* What each kind of transaction writes, address by address.               *)
LEMMA AccountWrites ==
    ASSUME NEW s, Shaped(s), NEW k \in Keys, NEW e, NEW D, <<"account", k>> \in D
    PROVE  /\ <<"manager">> \in D => Within(s, set_manager(s, k, e), D)
           /\ <<"issuer">> \in D => Within(s, set_issuer(s, k, e), D)
           /\ Within(s, set_account(s, k, e), D)
<1>0. DOMAIN s = Parts /\ DOMAIN s.account = Keys
  BY DEF Shaped
<1>1. ASSUME NEW u, u.account = [s.account EXCEPT ![k] = e],
             u.manager = s.manager \/ <<"manager">> \in D,
             u.issuer = s.issuer \/ <<"issuer">> \in D,
             SameHoldings(u, s), SameRecords(u, s)
      PROVE  Within(s, u, D)
  BY <1>0, <1>1 DEF Within, SameHoldings, SameRecords
<1>2. /\ SameRecords(set_manager(s, k, e), s)
      /\ SameRecords(set_issuer(s, k, e), s)
      /\ SameRecords(set_account(s, k, e), s)
  BY <1>0 DEF Parts, set_manager, set_issuer, set_account, SameRecords
<1>3. <<"manager">> \in D => Within(s, set_manager(s, k, e), D)
  BY <1>0, <1>1, <1>2, AccountFields
<1>4. <<"issuer">> \in D => Within(s, set_issuer(s, k, e), D)
  BY <1>0, <1>1, <1>2, AccountFields
<1>5. Within(s, set_account(s, k, e), D)
  BY <1>0, <1>1, <1>2, AccountFields DEF SameRoles
<1> QED BY <1>3, <1>4, <1>5

LEMMA TokenWrites ==
    ASSUME NEW s, Shaped(s), NEW t \in Tokens, NEW token, NEW D, <<"token", t>> \in D
    PROVE  Within(s, set_token(s, t, token), D)
<1> DEFINE u == set_token(s, t, token)
<1>0. DOMAIN s = Parts /\ DOMAIN s.token = Tokens
  BY DEF Shaped
<1>1. /\ SameAccounts(u, s) /\ SameRecords(u, s)
      /\ u.token = [s.token EXCEPT ![t] = token] /\ u.account_token = s.account_token
  BY <1>0, TokenFields DEF Parts, set_token, SameRecords
<1> HIDE DEF u
<1>2. Within(s, u, D)
  BY <1>0, <1>1 DEF Within, SameAccounts, SameRoles, SameRecords
<1> QED BY <1>2 DEF u

LEMMA IssueWrites ==
    ASSUME NEW s, Paired(s), DOMAIN s.token = Tokens, NEW t \in Tokens, NEW token,
           NEW D, <<"token", t>> \in D,
           <<"account_token", token.issuer_pkey, t>> \in D,
           <<"token_account", t, token.issuer_pkey>> \in D
    PROVE  Within(s, issue_token(s, t, token), D)
<1> DEFINE u == issue_token(s, t, token)
           k == token.issuer_pkey
<1>1. /\ DOMAIN s = Parts /\ DOMAIN s.account_token = Keys \X Tokens
      /\ DOMAIN s.token_account = Tokens \X Keys
  BY DEF Paired
<1>2. /\ SameAccounts(u, s)
      /\ u.token = [s.token EXCEPT ![t] = token]
      /\ u.account_token = [s.account_token EXCEPT ![<<k, t>>] = Whole(token)]
  BY <1>1, IssueFields
<1>3. /\ u.token_account = [s.token_account EXCEPT ![<<t, k>>] = Whole(token)]
      /\ u.transfers = s.transfers
  BY <1>1 DEF Parts, issue_token, Whole
<1> HIDE DEF u
<1>4. Within(s, u, D)
  BY <1>1, <1>2, <1>3 DEF Within, SameAccounts, SameRoles
<1> QED BY <1>4 DEF u

LEMMA TransferWrites ==
    ASSUME NEW s, Paired(s), NEW t \in Tokens, NEW sender \in Keys, NEW receiver \in Keys,
           NEW amount, NEW ts, NEW D,
           \A k \in {sender, receiver} :
              <<"account_token", k, t>> \in D /\ <<"token_account", t, k>> \in D,
           <<"transfer", t, sender, receiver, ts>> \in D
    PROVE  Within(s, transfer(s, t, sender, receiver, amount, ts), D)
<1> DEFINE u == transfer(s, t, sender, receiver, amount, ts)
           e == [token |-> t, sender_pkey |-> sender, receiver_pkey |-> receiver,
                 date |-> ts, amount |-> amount]
           debited == Credit(get_balance(s, sender, t), -amount)
           credited == Credit(get_balance(s, receiver, t), amount)
<1>1. /\ DOMAIN s = Parts /\ DOMAIN s.account_token = Keys \X Tokens
      /\ DOMAIN s.token_account = Tokens \X Keys
  BY DEF Paired
<1> HIDE DEF debited, credited
<1>2. SameAccounts(u, s) /\ u.token = s.token
  BY <1>1 DEF Parts, transfer, SameAccounts, SameRoles
<1>3. u.account_token = [[s.account_token EXCEPT ![<<sender, t>>] = debited]
                                          EXCEPT ![<<receiver, t>>] = credited]
  BY <1>1 DEF Parts, transfer, debited, credited
<1>4. u.token_account = [[s.token_account EXCEPT ![<<t, sender>>] = debited]
                                          EXCEPT ![<<t, receiver>>] = credited]
  BY <1>1 DEF Parts, transfer, debited, credited
<1>5. u.transfers = AddTransfer(s.transfers, e)
  BY <1>1 DEF Parts, transfer
<1> HIDE DEF u
<1>6. ASSUME NEW k \in Keys, NEW v \in Tokens
      PROVE  /\ \/ u.account_token[<<k, v>>] = s.account_token[<<k, v>>]
                \/ <<"account_token", k, v>> \in D
             /\ \/ u.token_account[<<v, k>>] = s.token_account[<<v, k>>]
                \/ <<"token_account", v, k>> \in D
  BY <1>1, <1>3, <1>4
<1>7. ASSUME NEW f \in s.transfers \cup u.transfers, ~(f \in s.transfers /\ f \in u.transfers)
      PROVE  <<"transfer", f.token, f.sender_pkey, f.receiver_pkey, f.date>> \in D
  <2>1. /\ e.token = t /\ e.sender_pkey = sender
        /\ e.receiver_pkey = receiver /\ e.date = ts
    OBVIOUS
  <2> HIDE DEF e
  <2>2. /\ f.token = e.token /\ f.sender_pkey = e.sender_pkey
        /\ f.receiver_pkey = e.receiver_pkey /\ f.date = e.date
    BY <1>5, <1>7 DEF AddTransfer
  <2> QED BY <2>1, <2>2
<1>8. Within(s, u, D)
  BY <1>2, <1>6, <1>7 DEF Within, SameAccounts, SameRoles
<1> QED BY <1>8 DEF u

LEMMA AttributesWrites ==
    ASSUME NEW s, Paired(s), NEW x, NEW identifiers, NEW attributes, NEW D,
           \A t \in identifiers :
              <<"account_token", x, t>> \in D /\ <<"token_account", t, x>> \in D
    PROVE  Within(s, set_balance_attributes(s, x, identifiers, attributes), D)
<1> DEFINE u == set_balance_attributes(s, x, identifiers, attributes)
<1>1. DOMAIN s = Parts
  BY DEF Paired
<1>2. SameAccounts(u, s) /\ u.token = s.token /\ u.transfers = s.transfers
  BY <1>1 DEF Parts, set_balance_attributes, SameAccounts, SameRoles
<1>3. ASSUME NEW k \in Keys, NEW t \in Tokens, ~(k = x /\ t \in identifiers)
      PROVE  /\ u.account_token[<<k, t>>] = s.account_token[<<k, t>>]
             /\ u.token_account[<<t, k>>] = s.token_account[<<t, k>>]
  BY <1>1, <1>3 DEF Parts, set_balance_attributes
<1> HIDE DEF u
<1>4. Within(s, u, D)
  BY <1>2, <1>3 DEF Within, SameAccounts, SameRoles
<1> QED BY <1>4 DEF u

LEMMA HeartbeatWrites ==
    ASSUME TypeOK, Paired(state), NEW receivers \in SUBSET Keys, NEW t \in Tokens,
           NEW ts \in Times, DoHeartbeat(receivers, t, ts), NEW D,
           \A k \in receivers \cup {state.issuer} :
              /\ <<"account_token", k, CASH_TOKEN>> \in D
              /\ <<"token_account", CASH_TOKEN, k>> \in D,
           \A k \in receivers : <<"transfer", CASH_TOKEN, state.issuer, k, ts>> \in D
    PROVE  Within(state, state', D)
<1> DEFINE due == Due(t, ts)
           balances == CashAfter(receivers, t, due)
           paid == {PaymentTransfer(r, t, due, ts) : r \in receivers}
           transfers == PaymentTransfers(state.transfers, receivers, t, due, ts)
<1>1. /\ state' = [set_balances(state, CASH_TOKEN, balances) EXCEPT !.transfers = transfers]
      /\ DOMAIN state = Parts /\ state.transfers \subseteq Transfer
  <2>1. state.transfers \subseteq Transfer
    BY DEF TypeOK, TokenStates
  <2>2. set_balances(state, CASH_TOKEN, balances).transfers = state.transfers
    BY DEF Paired, Parts, set_balances
  <2> QED BY <2>1, <2>2 DEF DoHeartbeat, Paired
<1>2. \A k \in Keys : \/ balances[k] = get_balance(state, k, CASH_TOKEN)
                      \/ k \in receivers \cup {state.issuer}
  BY DEF CashAfter
<1>3. /\ transfers \subseteq state.transfers \cup paid
      /\ \A e \in state.transfers \ transfers :
            \E f \in paid : [e EXCEPT !.amount = 0] = [f EXCEPT !.amount = 0]
      /\ paid \subseteq transfers
  BY DEF PaymentTransfers
<1>4. ASSUME NEW f \in paid
      PROVE  \E r \in receivers :
                /\ f = PaymentTransfer(r, t, due, ts)
                /\ f.token = CASH_TOKEN /\ f.sender_pkey = state.issuer
                /\ f.receiver_pkey = r /\ f.date = ts
                /\ <<"transfer", f.token, f.sender_pkey, f.receiver_pkey, f.date>> \in D
  BY DEF PaymentTransfer
<1>5. ASSUME NEW e \in Transfer, NEW f \in paid,
             [e EXCEPT !.amount = 0] = [f EXCEPT !.amount = 0]
      PROVE  /\ e.token = f.token /\ e.sender_pkey = f.sender_pkey
             /\ e.receiver_pkey = f.receiver_pkey /\ e.date = f.date
  <2> DEFINE g == [e EXCEPT !.amount = 0]
             h == [f EXCEPT !.amount = 0]
  <2>1. /\ g.token = e.token /\ g.sender_pkey = e.sender_pkey
        /\ g.receiver_pkey = e.receiver_pkey /\ g.date = e.date
    BY DEF Transfer
  <2>2. PICK r \in receivers : f = PaymentTransfer(r, t, due, ts)
    OBVIOUS
  <2>3. /\ h.token = f.token /\ h.sender_pkey = f.sender_pkey
        /\ h.receiver_pkey = f.receiver_pkey /\ h.date = f.date
    BY <2>2 DEF PaymentTransfer
  <2>4. g = h
    BY <1>5
  <2> HIDE DEF g, h
  <2> QED BY <2>1, <2>3, <2>4
<1> HIDE DEF balances, transfers, paid
<1>6. ASSUME NEW e \in state.transfers \cup transfers,
             ~(e \in state.transfers /\ e \in transfers)
      PROVE  <<"transfer", e.token, e.sender_pkey, e.receiver_pkey, e.date>> \in D
  <2>1. CASE e \in paid
    BY <1>4, <2>1
  <2>2. CASE e \notin paid
    <3>1. e \in Transfer /\ e \in state.transfers \ transfers
      BY <1>1, <1>3, <1>6, <2>2
    <3> PICK f \in paid : [e EXCEPT !.amount = 0] = [f EXCEPT !.amount = 0]
      BY <1>3, <3>1
    <3>2. /\ e.token = f.token /\ e.sender_pkey = f.sender_pkey
          /\ e.receiver_pkey = f.receiver_pkey /\ e.date = f.date
      BY <1>5, <3>1
    <3>3. <<"transfer", f.token, f.sender_pkey, f.receiver_pkey, f.date>> \in D
      BY <1>4
    <3> QED BY <3>2, <3>3
  <2> QED BY <2>1, <2>2
<1>7. /\ state'.account = state.account /\ state'.manager = state.manager
      /\ state'.issuer = state.issuer /\ state'.token = state.token
      /\ state'.transfers = transfers
      /\ state'.account_token = [b \in Keys \X Tokens |->
            IF b[2] = CASH_TOKEN THEN balances[b[1]] ELSE state.account_token[b]]
      /\ state'.token_account = [b \in Tokens \X Keys |->
            IF b[1] = CASH_TOKEN THEN balances[b[2]] ELSE state.token_account[b]]
  BY <1>1 DEF Parts, set_balances
<1>8. ASSUME NEW k \in Keys, NEW v \in Tokens
      PROVE  /\ \/ state'.account_token[<<k, v>>] = state.account_token[<<k, v>>]
                \/ <<"account_token", k, v>> \in D
             /\ \/ state'.token_account[<<v, k>>] = state.token_account[<<v, k>>]
                \/ <<"token_account", v, k>> \in D
  <2>1. state.token_account[<<v, k>>] = get_balance(state, k, v)
    BY DEF Paired, get_balance
  <2>2. /\ state'.account_token[<<k, v>>] =
              IF v = CASH_TOKEN THEN balances[k] ELSE get_balance(state, k, v)
        /\ state'.token_account[<<v, k>>] =
              IF v = CASH_TOKEN THEN balances[k] ELSE get_balance(state, k, v)
    BY <1>7, <2>1 DEF get_balance
  <2> QED BY <1>2, <2>1, <2>2 DEF get_balance
<1> QED BY <1>6, <1>7, <1>8 DEF Within

-----------------------------------------------------------------------------
(* What a transaction writes is what its client has declared.              *)

(* Every call the processor performs writes within what its client         *)
(* declared.                                                               *)
LEMMA PerformWrites ==
    ASSUME TypeOK, Paired(state), NEW n \in Calls, NEW listed, Listed(n, listed),
           Perform(order[n].signer, order[n].call, listed)
    PROVE  Within(state, state', Declared(order[n].signer, order[n].call, listed))
<1> DEFINE k == order[n].signer
           call == order[n].call
           D == Declared(k, call, listed)
<1>0. /\ Shaped(state) /\ DOMAIN state.token = Tokens /\ k \in Keys
      /\ CASH_TOKEN \in Tokens
  BY StatesAreShaped, OrderType, TokenAssumption DEF TypeOK, TokenStates
<1>1. CASE call.action = "set_manager" /\ SetManager(k, call.endorsement)
  <2>1. <<"account", k>> \in D /\ <<"manager">> \in D
    BY <1>1 DEF Declared, Manager, Accounts
  <2>2. state' = set_manager(state, k, call.endorsement)
    BY <1>1 DEF SetManager
  <2> HIDE DEF D
  <2> QED BY <1>0, <2>1, <2>2, AccountWrites DEF D
<1>2. CASE call.action = "set_issuer" /\ SetIssuer(k, call.endorsement)
  <2> DEFINE v == set_issuer(state, k, call.endorsement)
  <2>1. /\ <<"account", k>> \in D /\ <<"issuer">> \in D /\ <<"token", CASH_TOKEN>> \in D
        /\ <<"account_token", k, CASH_TOKEN>> \in D
        /\ <<"token_account", CASH_TOKEN, k>> \in D
    BY <1>2 DEF Declared, Issuer, Accounts, TokensAt, Balances
  <2>2. state' = issue_token(v, CASH_TOKEN, CashToken(k)) /\ CashToken(k).issuer_pkey = k
    BY <1>2 DEF SetIssuer, CashToken
  <2>3. Paired(v) /\ v.token = state.token
    <3>1. Paired(v)
      BY OtherPartsArePaired
    <3>2. SameHoldings(v, state)
      BY AccountFields DEF Paired
    <3> QED BY <3>1, <3>2 DEF SameHoldings
  <2> HIDE DEF D
  <2>4. Within(state, v, D)
    BY <1>0, <2>1, AccountWrites
  <2> HIDE DEF v
  <2>5. Within(v, state', D)
    BY <1>0, <2>1, <2>2, <2>3, IssueWrites
  <2>6. Within(state, state', D)
    BY <2>4, <2>5, WithinBoth
  <2> QED BY <2>6 DEF D
<1>3. CASE call.action = "set_account" /\ SetAccount(k, call.endorsement)
  <2>1. <<"account", k>> \in D
    BY <1>3 DEF Declared, Accounts
  <2>2. state' = set_account(state, k, call.endorsement)
    BY <1>3 DEF SetAccount
  <2> HIDE DEF D
  <2> QED BY <1>0, <2>1, <2>2, AccountWrites DEF D
<1>4. CASE call.action = "set_endorsement"
             /\ SetEndorsement(k, call.account, call.endorsement)
  <2>1. <<"account", call.account>> \in D /\ call.account \in Keys
    BY <1>4, OrderType DEF Declared, Accounts
  <2>2. state' = set_account(state, call.account, call.endorsement)
    BY <1>4 DEF SetEndorsement
  <2> HIDE DEF D
  <2> QED BY <1>0, <2>1, <2>2, AccountWrites DEF D
<1>5. CASE call.action = "issue_token"
             /\ IssueToken(k, call.token, call.supply, call.endorsed, call.schedule)
  <2> DEFINE token == [issuer_pkey         |-> k,
                       total_supply        |-> call.supply,
                       status              |-> "ACTIVE",
                       transferendorsement |-> call.endorsed,
                       payments            |-> call.schedule,
                       immutables          |-> <<>>]
  <2>1. /\ <<"token", call.token>> \in D /\ call.token \in Tokens
        /\ <<"account_token", k, call.token>> \in D
        /\ <<"token_account", call.token, k>> \in D
    BY <1>5, OrderType DEF Declared, TokensAt, Balances
  <2>2. state' = issue_token(state, call.token, token) /\ token.issuer_pkey = k
    BY <1>5 DEF IssueToken
  <2> HIDE DEF D, token
  <2> QED BY <1>0, <2>1, <2>2, IssueWrites DEF D
<1>6. CASE \/ call.action = "set_immutables" /\ AddImmutables(k, call.token, call.immutables)
           \/ call.action = "set_token_status" /\ SetTokenStatus(k, call.token, call.status)
  <2>1. <<"token", call.token>> \in D /\ call.token \in Tokens
    BY <1>6, OrderType DEF Declared, TokensAt
  <2>2. PICK token : state' = set_token(state, call.token, token)
    BY <1>6 DEF AddImmutables, SetTokenStatus
  <2> HIDE DEF D
  <2> QED BY <1>0, <2>1, <2>2, TokenWrites DEF D
<1>7. CASE call.action = "transfer"
             /\ DoTransfer(k, call.receiver, call.token, call.amount, call.date)
  <2>1. call.token \in Tokens /\ call.receiver \in Keys
    BY <1>7, OrderType
  <2>2. /\ \A x \in {k, call.receiver} :
              /\ <<"account_token", x, call.token>> \in D
              /\ <<"token_account", call.token, x>> \in D
        /\ <<"transfer", call.token, k, call.receiver, call.date>> \in D
    BY <1>7 DEF Declared, Balances, Events
  <2>3. state' = transfer(state, call.token, k, call.receiver, call.amount, call.date)
    BY <1>7 DEF DoTransfer
  <2> HIDE DEF D
  <2> QED BY <1>0, <2>1, <2>2, <2>3, TransferWrites DEF D
<1>8. CASE /\ call.action = "heartbeat" /\ call.issuer = state.issuer
           /\ DoHeartbeat(listed, call.token, call.date)
  <2>1. call.token \in Tokens /\ call.date \in Times /\ listed \in SUBSET Keys
    BY <1>8, OrderType DEF Listed
  <2>2. D = HeartbeatAddresses(state.issuer, listed, call.token, call.date)
    BY <1>8 DEF Declared
  <2>3. /\ \A x \in listed \cup {state.issuer} :
              /\ <<"account_token", x, CASH_TOKEN>> \in D
              /\ <<"token_account", CASH_TOKEN, x>> \in D
        /\ \A x \in listed : <<"transfer", CASH_TOKEN, state.issuer, x, call.date>> \in D
    <3> HIDE DEF D
    <3> QED BY <2>2 DEF HeartbeatAddresses, Balances, Events
  <2> HIDE DEF D
  <2> QED BY <1>8, <2>1, <2>3, HeartbeatWrites DEF D
<1>9. CASE IdleHeartbeat(listed, call.token, call.date)
  BY <1>9, NothingChanged DEF IdleHeartbeat, vars
<1>10. CASE call.action = "set_balance_attributes"
              /\ SetBalanceAttributes(call.account, listed, call.attributes)
  <2>1. \A t \in listed : /\ <<"account_token", call.account, t>> \in D
                          /\ <<"token_account", t, call.account>> \in D
    BY <1>10 DEF Declared, Balances
  <2>2. state' = set_balance_attributes(state, call.account, listed, call.attributes)
    BY <1>10 DEF SetBalanceAttributes
  <2> HIDE DEF D
  <2> QED BY <2>1, <2>2, AttributesWrites DEF D
<1> QED BY <1>1, <1>2, <1>3, <1>4, <1>5, <1>6, <1>7, <1>8, <1>9, <1>10 DEF Perform

(* It keeps the two copies of every balance alike.                         *)
LEMMA PerformPairs ==
    ASSUME Paired(state), NEW n \in Calls, NEW listed, Listed(n, listed),
           Perform(order[n].signer, order[n].call, listed)
    PROVE  Paired(state')
<1> DEFINE k == order[n].signer
           call == order[n].call
<1>1. CASE \/ call.action = "set_manager" /\ SetManager(k, call.endorsement)
           \/ call.action = "set_issuer" /\ SetIssuer(k, call.endorsement)
           \/ call.action = "set_account" /\ SetAccount(k, call.endorsement)
           \/ call.action = "set_endorsement"
                /\ SetEndorsement(k, call.account, call.endorsement)
  <2>1. AccountStep
    BY <1>1, OrderType DEF AccountStep
  <2> QED BY <2>1, AccountStepPairs
<1>2. CASE \/ call.action = "issue_token"
                /\ IssueToken(k, call.token, call.supply, call.endorsed, call.schedule)
           \/ call.action = "set_immutables" /\ AddImmutables(k, call.token, call.immutables)
           \/ call.action = "set_token_status" /\ SetTokenStatus(k, call.token, call.status)
  <2>1. TokenStep
    BY <1>2, OrderType DEF TokenStep
  <2> QED BY <2>1, TokenStepPairs
<1>3. CASE \/ call.action = "transfer"
                /\ DoTransfer(k, call.receiver, call.token, call.amount, call.date)
           \/ call.action = "set_balance_attributes"
                /\ SetBalanceAttributes(call.account, listed, call.attributes)
  <2>1. PaymentStep
    BY <1>3, OrderType DEF PaymentStep, Listed
  <2> QED BY <2>1, PaymentStepPairs
<1>4. CASE DoHeartbeat(listed, call.token, call.date)
  BY <1>4, HeartbeatPairs
<1>5. CASE IdleHeartbeat(listed, call.token, call.date)
  BY <1>5 DEF IdleHeartbeat, vars
<1> QED BY <1>1, <1>2, <1>3, <1>4, <1>5 DEF Perform

(* Only an execution changes the state, and it moves the batch of one call.*)
LEMMA StepWrites ==
    ASSUME TypeOK, AllSound, Paired(state), [ApiNext]_apiVars
    PROVE  /\ Paired(state')
           /\ \A n \in DOMAIN calls :
                 calls'[n].batch # calls[n].batch =>
                    Within(state, state', Declared(order[n].signer, order[n].call,
                                                   calls[n].listed))
<1>1. CASE UNCHANGED state
  BY <1>1, NothingChanged
<1>2. ASSUME NEW m \in DOMAIN calls, Execute(m)
      PROVE  /\ Paired(state')
             /\ \A n \in DOMAIN calls :
                   calls'[n].batch # calls[n].batch =>
                      Within(state, state', Declared(order[n].signer, order[n].call,
                                                     calls[n].listed))
  <2>1. m \in Calls /\ Listed(m, calls[m].listed)
    BY DEF AllSound, Sound
  <2>2. CASE Refuse(order[m].signer, order[m].call, calls[m].listed)
    BY <1>1, <2>2, RefuseChangesNothing
  <2>3. CASE Perform(order[m].signer, order[m].call, calls[m].listed)
    <3>1. Within(state, state', Declared(order[m].signer, order[m].call, calls[m].listed))
      BY <2>1, <2>3, PerformWrites
    <3>2. Paired(state')
      BY <2>1, <2>3, PerformPairs
    <3>3. ASSUME NEW n \in DOMAIN calls, calls'[n].batch # calls[n].batch
          PROVE  n = m
      BY <1>2, <3>3 DEF Execute
    <3> QED BY <3>1, <3>2, <3>3
  <2> QED BY <1>2, <2>2, <2>3 DEF Execute
<1>3. ASSUME NEW n \in DOMAIN calls, Serve(n) \/ ReadFails(n) \/ ConnectionFails(n) \/ Forget(n)
      PROVE  UNCHANGED state
  BY <1>3, ServeKeeps DEF Forget
<1>4. CASE \E n \in Calls : Arrive(n)
  BY <1>1, <1>4 DEF Arrive
<1> QED BY <1>1, <1>2, <1>3, <1>4 DEF ApiNext, apiVars

(* Whatever clients send, the two copies of a balance agree.               *)
LEMMA ApiPairs == ApiSpec => []Paired(state)
<1>1. ApiInit => Paired(state)
  <2> SUFFICES ASSUME ApiInit PROVE Paired(state)
    OBVIOUS
  <2>1. state \in TokenStates /\ InOrder(state)
    BY DEF ApiInit
  <2> QED BY <2>1 DEF TokenStates, Paired, Parts, InOrder
<1>2. ApiInv /\ Paired(state) /\ [ApiNext]_apiVars => Paired(state)'
  <2> SUFFICES ASSUME ApiInv, Paired(state), [ApiNext]_apiVars
               PROVE  Paired(state')
    OBVIOUS
  <2>1. TypeOK /\ AllSound
    BY DEF ApiInv, ApiTypeOK
  <2> QED BY <2>1, StepWrites
<1> QED BY <1>1, <1>2, ApiInvariance, PTL DEF ApiSpec

(* A transaction writes only what its client has declared, from however    *)
(* old a list it was built.                                                *)
THEOREM DeclaredWrites == ApiSpec => WritesAreDeclared
<1> DEFINE Declares ==
        \A n \in DOMAIN calls :
            calls'[n].batch # calls[n].batch =>
                Changed(state, state')
                    \subseteq Declared(order[n].signer, order[n].call, calls[n].listed)
<1>1. ApiInv /\ Paired(state) /\ [ApiNext]_apiVars => [Declares]_apiVars
  <2> SUFFICES ASSUME ApiInv, Paired(state), [ApiNext]_apiVars
               PROVE  Declares
    OBVIOUS
  <2>1. TypeOK /\ AllSound
    BY DEF ApiInv, ApiTypeOK
  <2> QED BY <2>1, StepWrites, ChangedIsWithin
<1> QED BY <1>1, ApiPairs, ApiInvariance, PTL DEF ApiSpec, WritesAreDeclared

(* The attributes set last stay on a balance, at both of its addresses,    *)
(* whatever is transferred, issued or paid afterwards, to oneself          *)
(* included; only who becomes the issuer starts with a bare balance of     *)
(* the Cash Token.                                                         *)
THEOREM AttributesLast == ApiSpec => []AttributesStay
<1>1. ApiInv /\ Paired(state) => AttributesStay
  <2> SUFFICES ASSUME ApiInv, Paired(state),
                      NEW k \in Keys, NEW t \in Tokens, Holds(state, k, t)
               PROVE  /\ state.account_token[<<k, t>>].attributes = annotated[<<k, t>>]
                      /\ state.token_account[<<t, k>>].attributes = annotated[<<k, t>>]
    BY DEF AttributesStay
  <2>1. state.account_token[<<k, t>>].attributes = annotated[<<k, t>>]
    BY DEF ApiInv, NotesKept, AttributesOf, Holds, get_balance
  <2>2. state.token_account[<<t, k>>] = state.account_token[<<k, t>>]
    BY DEF Paired
  <2> QED BY <2>1, <2>2
<1> QED BY <1>1, ApiInvariance, ApiPairs, PTL

(* What is asked of the states clients find is true of every state the     *)
(* processor leaves.                                                       *)
THEOREM StatesAreInOrder == Spec => [](state \in TokenStates /\ InOrder(state))
<1>1. Paired(state) /\ HoldersRegistered /\ SupplyInv =>
          state \in TokenStates /\ InOrder(state)
  BY DEF Paired, HoldersRegistered, SupplyInv, HoldingsAreIssued, InOrder, TypeOK
<1> QED BY <1>1, AlwaysPaired, Registration, SupplyInvariant, PTL
=============================================================================
