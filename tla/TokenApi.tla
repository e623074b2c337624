------------------------------ MODULE TokenApi ------------------------------
(***************************************************************************)
(* The clients of the token family with the validator and the transaction  *)
(* processor behind them: the REST API (stw/rest_api/rest_api/account.py,  *)
(* token.py, security_messaging.py, messaging.py) and the command line     *)
(* client (stw/cli/cli/workflow/cli.py, client.py).                        *)
(*                                                                         *)
(* Every client has a server of its own, which signs with the client's     *)
(* key.  Some calls read the state first and build the transaction from    *)
(* what they read; meanwhile, and while a call waits for its batch, other  *)
(* clients' batches are executed, in any order.  Servers keep nothing, so  *)
(* one that dies leaves what a call given up leaves.                       *)
(***************************************************************************)
EXTENDS TokenTP, ValidatorBatches

CONSTANTS
    Earlier,        \* states the clients may find
    Calls,          \* the calls clients may make, each once
    order,          \* who makes it, and what for
    retry_num,      \* requests for the status of an unknown batch
    MaxCalls,       \* bound: calls ever made
    MaxFaults       \* bound: lost batches, failed reads

VARIABLES
    calls,          \* the calls made so far
    annotated,      \* history: attributes a balance last got, or was found with
    faults          \* what has gone wrong so far

apiVars == <<state, inflated, calls, annotated, faults>>

-----------------------------------------------------------------------------

(* The requests to the REST API that change something.                     *)
AccountRequests ==
    [action : {"set_manager", "set_issuer", "set_account"}, endorsement : Endorsements]

EndorsementRequests ==
    [action : {"set_endorsement"}, account : Keys, endorsement : Endorsements]

TokenRequests ==
         [action : {"issue_token"}, token : Tokens, supply : Supplies,
          endorsed : TransferEndorsements, schedule : Schedules]
    \cup [action : {"set_immutables"}, token : Tokens, immutables : ImmutablesLists]
    \cup [action : {"set_token_status"}, token : Tokens, status : AskedStatuses]
    \cup [action : {"transfer"}, token : Tokens, receiver : Keys, amount : Amounts, date : Times]

AttributesRequests ==
    [action : {"set_balance_attributes"}, account : Keys, attributes : Attributes]

RestOrders ==
    [client : {"rest"}, signer : Keys,
     call : UNION {AccountRequests, EndorsementRequests, TokenRequests, AttributesRequests}]

(* The commands that do: set_manager, set_issuer and set_account pass no   *)
(* endorsement to transaction.py and end before anything is sent.  With    *)
(* --wait and no value a command waits as long as it takes (sys.maxsize).  *)
CliOrders ==
    [client : {"cli"}, signer : Keys, wait : BOOLEAN,
     call : [action : {"issue_token"}, token : Tokens, supply : Supplies,
             endorsed : {FALSE}, schedule : {<<>>}]
       \cup [action : {"transfer"}, token : Tokens, receiver : Keys,
             amount : Amounts, date : Times]
       \cup [action : {"heartbeat"}, token : Tokens, date : Times, issuer : Keys]]

(* Roles, tokens and balances belong to registered accounts, balances are  *)
(* of issued tokens, and their copies agree.                               *)
InOrder(s) ==
    /\ AllRegistered(s)
    /\ \A k \in Keys, t \in Tokens :
          /\ Holds(s, k, t) => Issued(s, t)
          /\ s.account_token[<<k, t>>] = s.token_account[<<t, k>>]

(* Clients may find any state the processor may have left.                 *)
ASSUME ApiAssumption ==
    /\ Earlier \subseteq TokenStates
    /\ \A s \in Earlier : InOrder(s)
    /\ <<>> \in Schedules
    /\ FALSE \in TransferEndorsements
    /\ order \in [Calls -> RestOrders \cup CliOrders]
    /\ retry_num \in Nat \ {0}
    /\ {MaxCalls, MaxFaults} \subseteq Nat

(* A call first asks who is manager ("asking"), or lists balances          *)
(* ("listing"), or submits its batch at once ("ready"); then it waits.     *)
InFlight == {"asking", "listing", "ready", "waiting"}

(* Answered 403, 200, 400 or 500; the command returned or raised an error. *)
Ended == {"forbidden", "ok", "bad_request", "server_error", "returned", "raised"}

FirstStage(call) ==
    CASE call.action \in {"set_endorsement", "set_balance_attributes"} -> "asking"
      [] call.action = "heartbeat" -> "listing"
      [] OTHER -> "ready"

ApiInit ==
    /\ state \in Earlier
    /\ inflated = {}
    /\ calls = <<>>
    /\ annotated = [b \in Keys \X Tokens |->
          IF state.account_token[b] = None THEN NoAttributes
                                           ELSE state.account_token[b].attributes]
    /\ faults = 0

Fault ==
    /\ faults < MaxFaults
    /\ faults' = faults + 1

To(n, stage) == calls' = [calls EXCEPT ![n].stage = stage]

-----------------------------------------------------------------------------
(* A call, from the request to the submission of its batch *)

NewCall(n) ==
    [stage  |-> FirstStage(order[n].call),
     listed |-> {},
     batch  |-> "gone",
     asked  |-> 0]

Arrive(n) ==
    /\ n \notin DOMAIN calls
    /\ Cardinality(DOMAIN calls) < MaxCalls
    /\ calls' = [m \in DOMAIN calls \cup {n} |-> IF m = n THEN NewCall(n) ELSE calls[m]]
    /\ UNCHANGED <<state, inflated, annotated, faults>>

(* get_manager *)
CheckManager(n) ==
    /\ calls[n].stage = "asking"
    /\ To(n, IF ~IsManager(order[n].signer) THEN "forbidden"
             ELSE IF order[n].call.action = "set_endorsement" THEN "ready"
             ELSE "listing")
    /\ UNCHANGED <<state, inflated, annotated, faults>>

(* The tokens the account has a balance of, or the holders of the token.   *)
Listing(call) ==
    IF call.action = "heartbeat" THEN {k \in Keys : Holds(state, k, call.token)}
                                 ELSE {t \in Tokens : Holds(state, call.account, t)}

ListBalances(n) ==
    /\ calls[n].stage = "listing"
    /\ calls' = [calls EXCEPT ![n].stage = "ready",
                                    ![n].listed = Listing(order[n].call)]
    /\ UNCHANGED <<state, inflated, annotated, faults>>

(* A reply without entries is taken for an empty list, whatever the reason. *)
ReadFails(n) ==
    /\ Fault
    /\ \/ calls[n].stage = "asking" /\ To(n, "forbidden")
       \/ calls[n].stage = "listing" /\ To(n, "ready")
    /\ UNCHANGED <<state, inflated, annotated>>

(* The connection is lost, and the call ends with an error.                *)
ConnectionFails(n) ==
    /\ Fault
    /\ calls[n].stage \in InFlight
    /\ To(n, IF order[n].client = "rest" THEN "server_error" ELSE "raised")
    /\ UNCHANGED <<state, inflated, annotated>>

(* The REST API does not look at the reply; the command line client gets   *)
(* an error status for a batch that is refused.                            *)
Submit(n) ==
    /\ calls[n].stage = "ready"
    /\ \E place \in AfterSubmission :
        /\ calls' = [calls EXCEPT
              ![n].batch = place,
              ![n].stage = IF place = "gone" /\ order[n].client = "cli"
                           THEN "raised" ELSE "waiting"]
        /\ IF place = "pending" THEN UNCHANGED faults ELSE Fault
    /\ UNCHANGED <<state, inflated, annotated>>

-----------------------------------------------------------------------------
(* The answer to the asked-th request for the status of a batch *)

(* Faulty variant: the last request is taken for one that may be repeated, *)
(* and the loop ends without an error.                                     *)
StageAfter_FallsThrough(status, asked) ==
    CASE status = "COMMITTED" -> "ok"
      [] status = "INVALID" -> "bad_request"
      [] status = "PENDING" -> "server_error"
      [] status = "UNKNOWN" -> IF asked < retry_num THEN "waiting" ELSE "ok"

(* Faulty variant: an unknown batch is asked for as long as it is unknown. *)
StageAfter_Forever(status, asked) ==
    CASE status = "COMMITTED" -> "ok"
      [] status = "INVALID" -> "bad_request"
      [] status = "PENDING" -> "server_error"
      [] status = "UNKNOWN" -> "waiting"

StageAfter(status, asked) ==
    CASE status = "COMMITTED" -> "ok"
      [] status = "INVALID" -> "bad_request"
      [] status = "PENDING" -> "server_error"
      [] status = "UNKNOWN" -> IF asked < retry_num THEN "waiting" ELSE "server_error"

(* How often it was asked only matters until the limit. *)
CheckBatchStatus(n) ==
    LET asked == calls[n].asked + 1 IN
    /\ calls[n].stage = "waiting"
    /\ order[n].client = "rest"
    /\ calls' = [calls EXCEPT
          ![n].stage = StageAfter(Status(calls[n].batch), asked),
          ![n].asked = IF asked < retry_num THEN asked ELSE @]
    /\ UNCHANGED <<state, inflated, annotated, faults>>

(* A command that waits without limit, for a batch that is pending.        *)
AwaitsBatch(n) ==
    /\ calls[n].stage = "waiting"
    /\ order[n].client = "cli"
    /\ order[n].wait
    /\ Status(calls[n].batch) = "PENDING"

(* The command returns at once, when the batch is no longer pending or     *)
(* when its wait is over, and prints the same whatever became of it.       *)
Return(n) ==
    /\ calls[n].stage = "waiting"
    /\ order[n].client = "cli"
    /\ ~AwaitsBatch(n)
    /\ To(n, "returned")
    /\ UNCHANGED <<state, inflated, annotated, faults>>

-----------------------------------------------------------------------------
(* The validator and the transaction processor *)

(* The addresses transaction.py declares, as inputs and as outputs.  What  *)
(* a handler writes elsewhere the validator does not let it.               *)
Accounts(keys) == {<<"account", k>> : k \in keys}
TokensAt(tokens) == {<<"token", t>> : t \in tokens}
Balances(keys, tokens) == {<<"account_token", k, t>> : k \in keys, t \in tokens}
                     \cup {<<"token_account", t, k>> : k \in keys, t \in tokens}
Events(t, sender, receivers, date) ==
    {<<"transfer", t, sender, receiver, date>> : receiver \in receivers}
Manager == {<<"manager">>}
Issuer == {<<"issuer">>}

(* Faulty variant: the holders' balances of the Cash Token are left out. *)
HeartbeatAddresses_NoCash(issuer, holders, t, date) ==
    UNION {Issuer, Accounts(holders \cup {issuer}), TokensAt({t, CASH_TOKEN}),
           Balances({issuer}, {CASH_TOKEN}), Balances(holders, {t}),
           Events(CASH_TOKEN, issuer, holders, date)}

HeartbeatAddresses(issuer, holders, t, date) ==
    UNION {Issuer, Accounts(holders \cup {issuer}), TokensAt({t, CASH_TOKEN}),
           Balances({issuer}, {CASH_TOKEN}), Balances(holders, {t, CASH_TOKEN}),
           Events(CASH_TOKEN, issuer, holders, date)}

Declared(k, call, listed) ==
    CASE call.action = "set_manager" -> Manager \cup Accounts({k})
      [] call.action = "set_issuer" -> Issuer \cup Accounts({k})
            \cup TokensAt({CASH_TOKEN}) \cup Balances({k}, {CASH_TOKEN})
      [] call.action = "set_account" -> Accounts({k})
      [] call.action = "set_endorsement" -> Manager \cup Accounts({call.account})
      [] call.action = "issue_token" -> Manager \cup TokensAt({call.token})
            \cup Balances({k}, {call.token})
      [] call.action \in {"set_immutables", "set_token_status"} ->
            Manager \cup TokensAt({call.token})
      [] call.action = "transfer" -> Accounts({k, call.receiver})
            \cup TokensAt({call.token}) \cup Balances({k, call.receiver}, {call.token})
            \cup Events(call.token, k, {call.receiver}, call.date)
      [] call.action = "heartbeat" ->
            HeartbeatAddresses(call.issuer, listed, call.token, call.date)
      [] call.action = "set_balance_attributes" -> Manager \cup Accounts({call.account})
            \cup Balances({call.account}, listed)

(* A heartbeat with no payment due is accepted, too, and does not look for *)
(* the issuer's balance.                                                   *)
IdleHeartbeat(receivers, t, ts) ==
    /\ MayHeartbeat(receivers, t)
    /\ Due(t, ts) = {}
    /\ UNCHANGED vars

(* Payments need the issuer's addresses, so the client must have named it. *)
Perform(k, call, listed) ==
    \/ call.action = "set_manager" /\ SetManager(k, call.endorsement)
    \/ call.action = "set_issuer" /\ SetIssuer(k, call.endorsement)
    \/ call.action = "set_account" /\ SetAccount(k, call.endorsement)
    \/ call.action = "set_endorsement" /\ SetEndorsement(k, call.account, call.endorsement)
    \/ call.action = "issue_token"
        /\ IssueToken(k, call.token, call.supply, call.endorsed, call.schedule)
    \/ call.action = "set_immutables" /\ AddImmutables(k, call.token, call.immutables)
    \/ call.action = "set_token_status" /\ SetTokenStatus(k, call.token, call.status)
    \/ call.action = "transfer"
        /\ DoTransfer(k, call.receiver, call.token, call.amount, call.date)
    \/ call.action = "heartbeat"
        /\ \/ call.issuer = state.issuer /\ DoHeartbeat(listed, call.token, call.date)
           \/ IdleHeartbeat(listed, call.token, call.date)
    \/ call.action = "set_balance_attributes"
        /\ SetBalanceAttributes(call.account, listed, call.attributes)

(* The handler raises InvalidTransaction. *)
Refuse(k, call, listed) ==
    /\ ~ENABLED Perform(k, call, listed)
    /\ UNCHANGED <<state, inflated, annotated>>

(* What the balances written anew carry: those set for them, or none.      *)
Annotate(k, call, listed) ==
    annotated' =
        CASE call.action = "set_balance_attributes" ->
                [b \in Keys \X Tokens |->
                    IF b[1] = call.account /\ b[2] \in listed
                    THEN call.attributes ELSE annotated[b]]
          [] call.action = "set_issuer" ->
                [annotated EXCEPT ![<<k, CASH_TOKEN>>] = NoAttributes]
          [] OTHER -> annotated

Execute(n) ==
    /\ Queued(calls[n].batch)
    /\ \/ /\ Perform(order[n].signer, order[n].call, calls[n].listed)
          /\ Annotate(order[n].signer, order[n].call, calls[n].listed)
          /\ calls' = [calls EXCEPT ![n].batch = "committed"]
       \/ /\ Refuse(order[n].signer, order[n].call, calls[n].listed)
          /\ calls' = [calls EXCEPT ![n].batch = "invalid"]
    /\ UNCHANGED faults

Forget(n) ==
    /\ Fault
    /\ \E place \in BatchPlaces :
        /\ Forgets(calls[n].batch, place)
        /\ calls' = [calls EXCEPT ![n].batch = place]
    /\ UNCHANGED <<state, inflated, annotated>>

-----------------------------------------------------------------------------

Serve(n) ==
    \/ CheckManager(n)
    \/ ListBalances(n)
    \/ Submit(n)
    \/ CheckBatchStatus(n)
    \/ Return(n)

ApiNext ==
    \/ \E n \in Calls : Arrive(n)
    \/ \E n \in DOMAIN calls :
        \/ Serve(n)
        \/ ReadFails(n)
        \/ ConnectionFails(n)
        \/ Execute(n)
        \/ Forget(n)

(***************************************************************************)
(* Servers and commands go on while they can, and the validator answers, a *)
(* request for a status at the latest when its wait is over.  Nothing is   *)
(* assumed of when, or whether, a batch is executed: a command that waits  *)
(* for it without limit need not go on.                                    *)
(***************************************************************************)
Fairness == WF_apiVars(\E n \in DOMAIN calls : Serve(n))

ApiSpec == ApiInit /\ [][ApiNext]_apiVars /\ Fairness

-----------------------------------------------------------------------------
(* Properties *)

(* Type invariant. *)
ApiTypeOK ==
    /\ TypeOK
    /\ DOMAIN calls \subseteq Calls
    /\ \A n \in DOMAIN calls :
          calls[n] \in [stage : InFlight \cup Ended, listed : (SUBSET Tokens) \cup (SUBSET Keys),
                       batch : BatchPlaces, asked : 0 .. retry_num - 1]
    /\ annotated \in [Keys \X Tokens -> Attributes]
    /\ faults \in 0 .. MaxFaults

(***************************************************************************)
(* Attributes of balances are set for managers only, though the processor  *)
(* does not ask who signed (handler.py:363): what the REST API has asked   *)
(* before it built the transaction is still true when it is executed.      *)
(***************************************************************************)
OnlyManagersAnnotate ==
    \A n \in DOMAIN calls :
        /\ order[n].call.action = "set_balance_attributes"
        /\ calls[n].batch = "committed"
        => IsManager(order[n].signer)

(***************************************************************************)
(* The attributes set last stay on a balance, at both of its addresses,    *)
(* whatever is transferred or paid, to oneself included (state.py:155-221  *)
(* writes balances whole).  Only the balance of the Cash Token that a new  *)
(* issuer starts with has none again.                                      *)
(***************************************************************************)
AttributesStay ==
    \A k \in Keys, t \in Tokens :
        Holds(state, k, t) =>
            /\ state.account_token[<<k, t>>].attributes = annotated[<<k, t>>]
            /\ state.token_account[<<t, k>>].attributes = annotated[<<k, t>>]

(***************************************************************************)
(* Whatever was listed before a transaction was built is still there when  *)
(* it is executed, however late: a stale list is never the reason why a    *)
(* heartbeat or new attributes are refused (client.py:156, token.py:311).  *)
(***************************************************************************)
ListsStayValid ==
    \A n \in DOMAIN calls :
        LET call == order[n].call
            listed == calls[n].listed
        IN  /\ call.action = "heartbeat" =>
                  \A r \in listed : Registered(state, r) /\ Holds(state, r, call.token)
            /\ call.action = "set_balance_attributes" =>
                  \A t \in listed : Holds(state, call.account, t)

(* The entries in which two states differ.                                 *)
Changed(s, u) ==
    UNION {Accounts({k \in Keys : s.account[k] # u.account[k]}),
           IF s.manager = u.manager THEN {} ELSE Manager,
           IF s.issuer = u.issuer THEN {} ELSE Issuer,
           TokensAt({t \in Tokens : s.token[t] # u.token[t]}),
           {<<"account_token", b[1], b[2]>> :
              b \in {b \in Keys \X Tokens : s.account_token[b] # u.account_token[b]}},
           {<<"token_account", b[1], b[2]>> :
              b \in {b \in Tokens \X Keys : s.token_account[b] # u.token_account[b]}},
           {<<"transfer", e.token, e.sender_pkey, e.receiver_pkey, e.date>> :
              e \in (s.transfers \ u.transfers) \cup (u.transfers \ s.transfers)}}

(***************************************************************************)
(* A transaction writes only what its client has declared, though the      *)
(* client may have built it from a list that is out of date: otherwise     *)
(* the validator would refuse what the handler accepts (transaction.py     *)
(* names the addresses a second time, handler.py and state.py use them).   *)
(***************************************************************************)
WritesAreDeclared ==
    [][\A n \in DOMAIN calls :
          calls'[n].batch # calls[n].batch =>
              Changed(state, state')
                  \subseteq Declared(order[n].signer, order[n].call, calls[n].listed)]_apiVars

(***************************************************************************)
(* The answers of the REST API are true: 200 is only said of what is done, *)
(* and what was answered 400 or 403 does not happen any more.              *)
(***************************************************************************)
AnswersAreTrue ==
    \A n \in DOMAIN calls :
        /\ calls[n].stage = "ok" => calls[n].batch = "committed"
        /\ calls[n].stage \in {"bad_request", "forbidden"} => ~Queued(calls[n].batch)
                                                    /\ calls[n].batch # "committed"

(***************************************************************************)
(* Every call ends, though its batch may be unknown or pending for ever:   *)
(* there are MaxCalls, so one that did not would be in flight from then on. *)
(* Only a command told to wait without limit lasts as long as its batch is *)
(* pending, and it ends, too, when the batch is executed or forgotten.     *)
(***************************************************************************)
EveryCallEnds ==
    []<>(\A n \in DOMAIN calls : calls[n].stage \in Ended \/ AwaitsBatch(n))
=============================================================================
