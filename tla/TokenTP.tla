------------------------------ MODULE TokenTP ------------------------------
(***************************************************************************)
(* The transaction processor of the token family serving its validator     *)
(* (stw/token_processor/token_processor/handler.py).                       *)
(*                                                                         *)
(* Each action is one call of TokenTransactionHandler.apply that succeeds, *)
(* for a transaction as stw/common/transaction.py builds it: clients name  *)
(* their own key as account, issuer or sender.  Every other call raises    *)
(* InvalidTransaction, whatever the exception was, and the validator       *)
(* discards what the call has written.                                     *)
(*                                                                         *)
(* Amounts are whole units; the division of a payment is exact by          *)
(* PaymentAssumption, so nothing is said about the rounding of doubles.    *)
(***************************************************************************)
EXTENDS TokenState

CONSTANTS
    CASH_SUPPLY,        \* total supply of the Cash Token
    Supplies,           \* total supplies clients ask for
    TransferEndorsements, \* whether all but the blacklisted may receive it
    Schedules,          \* lists of payments a token may promise
    AskedStatuses,      \* statuses the manager may set
    ImmutablesLists,    \* lists of immutables the manager may add
    Endorsements,       \* endorsements clients ask for, sets of keys
    Amounts,            \* amounts clients transfer
    MaxBalance,         \* bound: no balance, and no debt, grows beyond
    MaxTransfers,       \* bound: transfers on record
    MaxImmutables       \* bound: immutables of each token

ASSUME PaymentAssumption ==
    /\ CASH_SUPPLY \in Nat \ {0}
    /\ Supplies \subseteq Int
    /\ TransferEndorsements \subseteq BOOLEAN
    /\ Schedules \subseteq Seq(Payment)
    /\ AskedStatuses \subseteq Statuses
    /\ ImmutablesLists \subseteq Seq(Immutable)
    /\ Endorsements \subseteq SUBSET EndorsementKeys
    /\ Amounts \subseteq Int
    /\ \A schedule \in Schedules, supply \in Supplies : \A i \in DOMAIN schedule :
          supply > 0 => schedule[i].amount % supply = 0

VARIABLES
    state,      \* the global state
    inflated    \* history: tokens paid by an account to itself, or issued anew

vars == <<state, inflated>>

Init ==
    /\ state = EmptyState
    /\ inflated = {}

IsManager(k) == state.manager = k

Active(t) == Issued(state, t) /\ state.token[t].status # "INACTIVE"

-----------------------------------------------------------------------------
(* Accounts and roles *)

(* Faulty variant: whether there is a manager is not asked. *)
SetManager_Again(k, endorsement) ==
    /\ state' = set_manager(state, k, endorsement)
    /\ UNCHANGED inflated

SetManager(k, endorsement) ==
    /\ state.manager = None
    /\ state' = set_manager(state, k, endorsement)
    /\ UNCHANGED inflated

CashToken(k) ==
    [issuer_pkey         |-> k,
     total_supply        |-> CASH_SUPPLY,
     status              |-> "ACTIVE",
     transferendorsement |-> FALSE,
     payments            |-> <<>>,
     immutables          |-> <<>>]

SetIssuer(k, endorsement) ==
    /\ state.issuer = None
    /\ state' = issue_token(set_issuer(state, k, endorsement), CASH_TOKEN, CashToken(k))
    /\ inflated' = IF Issued(state, CASH_TOKEN) THEN inflated \cup {CASH_TOKEN}
                                                ELSE inflated

SetAccount(k, endorsement) ==
    /\ ~Registered(state, k)
    /\ state' = set_account(state, k, endorsement)
    /\ UNCHANGED inflated

SetEndorsement(k, account, endorsement) ==
    /\ IsManager(k)
    /\ Registered(state, account)
    /\ state' = set_account(state, account, endorsement)
    /\ UNCHANGED inflated

-----------------------------------------------------------------------------
(* Tokens *)

IssueToken(k, t, supply, endorsed, schedule) ==
    /\ IsManager(k)
    /\ ~Issued(state, t)
    /\ supply > 0
    /\ state' = issue_token(state, t,
                    [issuer_pkey         |-> k,
                     total_supply        |-> supply,
                     status              |-> "ACTIVE",
                     transferendorsement |-> endorsed,
                     payments            |-> schedule,
                     immutables          |-> <<>>])
    /\ UNCHANGED inflated

(* Faulty variant: a key that is there already is not refused. *)
NoDuplicates_Any(new, old) == TRUE

NoDuplicates(new, old) ==
    \A i \in DOMAIN new, j \in DOMAIN old : new[i].key # old[j].key

(* Faulty variant: the status of the token is not looked at. *)
MayAddImmutables_Always(k, t, new) ==
    /\ IsManager(k)
    /\ new # <<>>
    /\ Issued(state, t)
    /\ NoDuplicates(new, state.token[t].immutables)

(* A token that is not issued ends the call with an AttributeError. *)
MayAddImmutables(k, t, new) ==
    /\ IsManager(k)
    /\ new # <<>>
    /\ Active(t)
    /\ NoDuplicates(new, state.token[t].immutables)

(* The token is built anew, and its status is then the default one. *)
AddImmutables(k, t, new) ==
    /\ MayAddImmutables(k, t, new)
    /\ Len(new \o state.token[t].immutables) <= MaxImmutables[t]
    /\ state' = set_token(state, t,
                    [state.token[t] EXCEPT !.immutables = new \o @, !.status = "ACTIVE"])
    /\ UNCHANGED inflated

SetTokenStatus(k, t, status) ==
    /\ IsManager(k)
    /\ Issued(state, t)
    /\ state' = set_token(state, t, [state.token[t] EXCEPT !.status = status])
    /\ UNCHANGED inflated

-----------------------------------------------------------------------------
(* Payments *)

WithinBounds ==
    /\ \A b \in Keys \X Tokens :
          state'.account_token[b] # None =>
              state'.account_token[b].amount \in -MaxBalance .. MaxBalance
    /\ Cardinality(state'.transfers) <= MaxTransfers

(* Faulty variant: whether the receiver has an account is not asked. *)
MayTransfer_ToAnyone(k, receiver, t, amount) ==
    /\ Registered(state, k)
    /\ Active(t)
    /\ Holds(state, k, t)
    /\ amount > 0
    /\ amount <= get_balance(state, k, t).amount

MayTransfer(k, receiver, t, amount) ==
    /\ Registered(state, k)
    /\ Registered(state, receiver)
    /\ Active(t)
    /\ Holds(state, k, t)
    /\ amount > 0
    /\ amount <= get_balance(state, k, t).amount
    /\ detectTransferRestriction(state.account[receiver], state.token[t])

DoTransfer(k, receiver, t, amount, ts) ==
    /\ MayTransfer(k, receiver, t, amount)
    /\ state' = transfer(state, t, k, receiver, amount, ts)
    /\ inflated' = IF k = receiver THEN inflated \cup {t} ELSE inflated
    /\ WithinBounds

(* Faulty variant: whether the Cash Token is in use is not asked. *)
MayHeartbeat_AnyCash(receivers, t) ==
    /\ state.issuer # None
    /\ \A r \in receivers : Registered(state, r) /\ Holds(state, r, t)
    /\ Issued(state, CASH_TOKEN)
    /\ Active(t)
    /\ state.token[t].payments # <<>>

MayHeartbeat(receivers, t) ==
    /\ state.issuer # None
    /\ \A r \in receivers : Registered(state, r) /\ Holds(state, r, t)
    /\ Active(CASH_TOKEN)
    /\ Active(t)
    /\ state.token[t].payments # <<>>

(* The payments of token t that fall due on the day of ts. *)
Due(t, ts) ==
    LET payments == state.token[t].payments
    IN  {i \in DOMAIN payments : payments[i].date = DateOf[ts]}

(* What the i-th payment of t brings to holder r. *)
Share(t, i, r) ==
    (get_balance(state, r, t).amount * state.token[t].payments[i].amount)
        \div state.token[t].total_supply

Income(t, payments, r) == SumFunctionOnSet([i \in payments |-> Share(t, i, r)], payments)

(* Faulty variant: the issuer pays out all that was promised.              *)
Outlay_Whole(t, payments, receivers) ==
    SumFunctionOnSet([i \in payments |-> state.token[t].payments[i].amount], payments)

(* A holder's payment is taken from the issuer.  The issuer's own is not:  *)
(* its balance is written with the amount taken, then with it added.       *)
Outlay(t, payments, receivers) ==
    SumFunctionOnSet([r \in receivers |-> IF r = state.issuer THEN -Income(t, payments, r)
                                                              ELSE Income(t, payments, r)],
                     receivers)

(* Faulty variant: the issuer's balance is read once, before all payments. *)
IssuerCanPay_Once(receivers, t, due) ==
    \A i \in due :
        get_balance(state, state.issuer, CASH_TOKEN).amount >= state.token[t].payments[i].amount

(* Each payment in turn needs its whole amount on the issuer's balance,    *)
(* as the payments before have left it.  Of a negative amount that is      *)
(* soon said, and its shares are then taken from the holders.              *)
IssuerCanPay(receivers, t, due) ==
    \A i \in due :
        get_balance(state, state.issuer, CASH_TOKEN).amount
            - Outlay(t, {j \in due : j < i}, receivers) >= state.token[t].payments[i].amount

CashAfter(receivers, t, due) ==
    [k \in Keys |->
        CASE k = state.issuer -> Credit(get_balance(state, k, CASH_TOKEN),
                                        -Outlay(t, due, receivers))
          [] k \in receivers \ {state.issuer} -> Credit(get_balance(state, k, CASH_TOKEN),
                                                        Income(t, due, k))
          [] OTHER -> get_balance(state, k, CASH_TOKEN)]

(* The payments to one holder share an address, and the last one stays.    *)
PaymentTransfer(receiver, t, due, ts) ==
    [token |-> CASH_TOKEN, sender_pkey |-> state.issuer, receiver_pkey |-> receiver,
     date |-> ts, amount |-> Share(t, Max(due), receiver)]

PaymentTransfers(transfers, receivers, t, due, ts) ==
    LET paid == {PaymentTransfer(r, t, due, ts) : r \in receivers}
    IN  paid \cup {e \in transfers :
            \A f \in paid : [e EXCEPT !.amount = 0] # [f EXCEPT !.amount = 0]}

(* Whoever asks for it; a heartbeat with no payment due changes nothing.    *)
DoHeartbeat(receivers, t, ts) ==
    LET due == Due(t, ts) IN
    /\ MayHeartbeat(receivers, t)
    /\ due # {}
    /\ IssuerCanPay(receivers, t, due)
    /\ state' = [set_balances(state, CASH_TOKEN, CashAfter(receivers, t, due))
                    EXCEPT !.transfers = PaymentTransfers(@, receivers, t, due, ts)]
    /\ inflated' = IF state.issuer \in receivers THEN inflated \cup {CASH_TOKEN}
                                                 ELSE inflated
    /\ WithinBounds

SetBalanceAttributes(k, identifiers, attributes) ==
    /\ \A t \in identifiers : Holds(state, k, t)
    /\ state' = set_balance_attributes(state, k, identifiers, attributes)
    /\ UNCHANGED inflated

-----------------------------------------------------------------------------
(* The transactions clients build.  They name the key they sign with as    *)
(* account, issuer or sender, and declare every address the handler uses.  *)

AccountStep ==
    \E k \in Keys, endorsement \in Endorsements :
        \/ SetManager(k, endorsement)
        \/ SetIssuer(k, endorsement)
        \/ SetAccount(k, endorsement)
        \/ \E account \in Keys : SetEndorsement(k, account, endorsement)

TokenStep ==
    \E k \in Keys, t \in Tokens :
        \/ \E supply \in Supplies, endorsed \in TransferEndorsements, schedule \in Schedules :
              IssueToken(k, t, supply, endorsed, schedule)
        \/ \E new \in ImmutablesLists : AddImmutables(k, t, new)
        \/ \E status \in AskedStatuses : SetTokenStatus(k, t, status)

PaymentStep ==
    \/ \E k, receiver \in Keys, t \in Tokens, amount \in Amounts, ts \in Times :
          DoTransfer(k, receiver, t, amount, ts)
    \/ \E receivers \in (SUBSET Keys) \ {{}}, t \in Tokens, ts \in Times :
          DoHeartbeat(receivers, t, ts)
    \/ \E k \in Keys, identifiers \in SUBSET Tokens, attributes \in Attributes :
          SetBalanceAttributes(k, identifiers, attributes)

Next == AccountStep \/ TokenStep \/ PaymentStep

Spec == Init /\ [][Next]_vars

-----------------------------------------------------------------------------
(* Properties *)

(* The state keeps its shape, and a balance is written whole.              *)
TypeOK ==
    /\ state \in TokenStates
    /\ inflated \in SUBSET Tokens

(* What an account lists under its tokens is what a token lists under its  *)
(* accounts: clients read both, and every operation writes both.           *)
BalanceCopiesAgree ==
    \A k \in Keys, t \in Tokens : state.account_token[<<k, t>>] = state.token_account[<<t, k>>]

(* Tokens, roles and balances belong to registered accounts.               *)
AllRegistered(s) ==
    /\ \A t \in Tokens : Issued(s, t) => Registered(s, s.token[t].issuer_pkey)
    /\ \A k \in Keys : k \in {s.manager, s.issuer} => Registered(s, k)
    /\ \A k \in Keys, t \in Tokens : Holds(s, k, t) => Registered(s, k)

(* It stays so, though most operations never look up the account they act  *)
(* for.                                                                    *)
HoldersRegistered == AllRegistered(state)

(* Of a token nobody has paid to itself, the holders together hold the     *)
(* total supply, whatever transfers and heartbeats there were.             *)
SupplyIsHeld ==
    \A t \in Tokens \ inflated :
        LET holders == {k \in Keys : Holds(state, k, t)}
        IN  Issued(state, t) =>
                state.token[t].total_supply =
                    SumFunctionOnSet([k \in holders |-> get_balance(state, k, t).amount], holders)

(* What is promised on a token is not negative, and its balances add up to *)
(* its supply.                                                             *)
Covered(t) ==
    /\ t \notin inflated
    /\ \A i \in DOMAIN state.token[t].payments : state.token[t].payments[i].amount >= 0

(* No account owes a token: the balance checks of transfers, and the one   *)
(* check per payment of a heartbeat for all its receivers, are enough.     *)
(* Cash may be owed only where a token with payments promises negative     *)
(* ones, or was paid by an account to itself; cash so paid does no harm.   *)
NoDebt ==
    \A k \in Keys, t \in Tokens :
        /\ Holds(state, k, t)
        /\ t = CASH_TOKEN =>
              \A u \in Tokens \ {CASH_TOKEN} :
                  Issued(state, u) /\ state.token[u].payments # <<>> => Covered(u)
        => get_balance(state, k, t).amount >= 0

(* Nobody has less than nothing: who is refused a transfer it has "Not     *)
(* enough balance for" (handler.py:233) is not made to pay more than it    *)
(* has by a heartbeat, either.  Payments of negative amounts do that.      *)
NothingOwed ==
    \A k \in Keys, t \in Tokens :
        Holds(state, k, t) => get_balance(state, k, t).amount >= 0

(* A token that is INACTIVE stays where it is, the Cash Token that pays    *)
(* for another one included.                                               *)
FrozenWhileInactive ==
    [][\A t \in Tokens :
          Issued(state, t) /\ ~Active(t) /\ ~Active(t)' =>
              \A k \in Keys : Holds(state', k, t) =>
                  /\ Holds(state, k, t)
                  /\ get_balance(state', k, t).amount = get_balance(state, k, t).amount]_vars

(* A token comes back from INACTIVE by set_token_status alone, which does  *)
(* nothing else; unless set_issuer issues the Cash Token anew.             *)
ReactivationDoesNothingElse ==
    [][\A t \in Tokens :
          Issued(state, t) /\ ~Active(t) /\ Active(t)' /\ state'.issuer = state.issuer =>
              state' = set_token(state, t, [state.token[t] EXCEPT
                                                !.status = state'.token[t].status])]_vars

(* Immutables only narrow who may receive a token: a later list never lets *)
(* in an account that the earlier ones kept out.                           *)
ReceiversNarrow ==
    [][\A k \in Keys, t \in Tokens :
          /\ Registered(state, k)
          /\ state'.account[k] = state.account[k]
          /\ Issued(state, t)
          /\ state'.issuer = state.issuer
          /\ detectTransferRestriction(state'.account[k], state'.token[t])
          => detectTransferRestriction(state.account[k], state.token[t])]_vars
=============================================================================
