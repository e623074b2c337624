----------------------------- MODULE TokenState -----------------------------
(***************************************************************************)
(* The global state of the token family, and what the operations of        *)
(* stw/token_processor/token_processor/state.py read and write in it.      *)
(*                                                                         *)
(* Addresses made of hashes of different identifiers are taken to differ,  *)
(* so each kind of entry is a function of its identifiers.  Names of       *)
(* accounts are left out: nothing depends on them.  The entries at the     *)
(* manager's and the issuer's address are read for their public key only,  *)
(* and stand for that key.                                                 *)
(***************************************************************************)
EXTENDS Integers, Sequences, FiniteSets, FiniteSetsExt

CONSTANTS
    Keys,             \* public keys
    Tokens,           \* token names
    CASH_TOKEN,       \* the token that payments are made in
    EndorsementKeys,  \* keys of account endorsements
    Attributes,       \* lists of attributes a balance may carry
    NoAttributes,     \* the empty one
    Dates,            \* days on which payments fall due
    Times,            \* timestamps of transactions, in whole seconds
    DateOf,           \* the day a timestamp falls on
    None              \* no entry at an address

ASSUME TokenAssumption ==
    /\ CASH_TOKEN \in Tokens
    /\ NoAttributes \in Attributes
    /\ DateOf \in [Times -> Dates]
    /\ {"blacklist", "whitelist"} \subseteq EndorsementKeys
    /\ IsFiniteSet(Keys)

Statuses == {"ACTIVE", "ISSUED", "INACTIVE"}

(* One immutable of a token; the value lists keys of endorsements. *)
Immutable == [key : {"endorsement", "other"}, value : SUBSET EndorsementKeys]

(* Nobody asks what amount was promised, nor its sign. *)
Payment == [date : Dates, amount : Int]

(* A token.  Two of its attributes are ever read: "payments", and          *)
(* "transferendorsement" among the basic attributes.                       *)
Token == [issuer_pkey         : Keys,
          total_supply        : Nat \ {0},
          status              : Statuses,
          transferendorsement : BOOLEAN,
          payments            : Seq(Payment),
          immutables          : Seq(Immutable)]

Balance == [amount : Int, attributes : Attributes]

Transfer == [token : Tokens, sender_pkey : Keys, receiver_pkey : Keys,
             date : Times, amount : Int]

(* No entry is like any entry. *)
ASSUME NoneAssumption ==
    /\ None \notin Keys \cup Token \cup Balance
    /\ \A endorsement \in SUBSET EndorsementKeys : None # endorsement

TokenStates ==
    [account       : [Keys -> (SUBSET EndorsementKeys) \cup {None}],
     manager       : Keys \cup {None},
     issuer        : Keys \cup {None},
     token         : [Tokens -> Token \cup {None}],
     account_token : [Keys \X Tokens -> Balance \cup {None}],
     token_account : [Tokens \X Keys -> Balance \cup {None}],
     transfers     : SUBSET Transfer]

EmptyState ==
    [account       |-> [k \in Keys |-> None],
     manager       |-> None,
     issuer        |-> None,
     token         |-> [t \in Tokens |-> None],
     account_token |-> [b \in Keys \X Tokens |-> None],
     token_account |-> [b \in Tokens \X Keys |-> None],
     transfers     |-> {}]

-----------------------------------------------------------------------------

get_balance(s, k, t) == s.account_token[<<k, t>>]

Registered(s, k) == s.account[k] # None
Issued(s, t) == s.token[t] # None
Holds(s, k, t) == get_balance(s, k, t) # None

(* The account of a new manager or issuer replaces the one its key had. *)
set_manager(s, k, endorsement) ==
    [s EXCEPT !.account[k] = endorsement, !.manager = k]

set_issuer(s, k, endorsement) ==
    [s EXCEPT !.account[k] = endorsement, !.issuer = k]

set_account(s, k, endorsement) == [s EXCEPT !.account[k] = endorsement]

(* set_immutables and set_token_status both replace the token. *)
set_token(s, t, token) == [s EXCEPT !.token[t] = token]

issue_token(s, t, token) ==
    LET balance == [amount |-> token.total_supply, attributes |-> NoAttributes]
    IN  [s EXCEPT !.token[t] = token,
                  !.account_token[<<token.issuer_pkey, t>>] = balance,
                  !.token_account[<<t, token.issuer_pkey>>] = balance]

(* Faulty variant: a first balance has no attributes, not even none. *)
Credit_Bare(balance, amount) ==
    IF balance = None THEN [amount |-> amount]
                      ELSE [balance EXCEPT !.amount = @ + amount]

(* Faulty variant: the balance is made anew, without its attributes. *)
Credit_Fresh(balance, amount) ==
    IF balance = None THEN [amount |-> amount, attributes |-> NoAttributes]
                      ELSE [amount |-> balance.amount + amount, attributes |-> NoAttributes]

Credit(balance, amount) ==
    IF balance = None THEN [amount |-> amount, attributes |-> NoAttributes]
                      ELSE [balance EXCEPT !.amount = @ + amount]

(* A transfer has one address per token, parties and second. *)
AddTransfer(transfers, e) ==
    {f \in transfers : \/ f.token # e.token
                       \/ f.sender_pkey # e.sender_pkey
                       \/ f.receiver_pkey # e.receiver_pkey
                       \/ f.date # e.date} \cup {e}

(* Faulty variant: of the sender's balance only one copy is written. *)
transfer_OneCopy(s, t, sender, receiver, amount, ts) ==
    LET debited  == Credit(get_balance(s, sender, t), -amount)
        credited == Credit(get_balance(s, receiver, t), amount)
    IN  [s EXCEPT !.account_token = [@ EXCEPT ![<<sender, t>>] = debited,
                                              ![<<receiver, t>>] = credited],
                  !.token_account = [@ EXCEPT ![<<t, receiver>>] = credited]]

(* Faulty variant: a balance that is used up is removed. *)
transfer_Empties(s, t, sender, receiver, amount, ts) ==
    LET debited  == IF get_balance(s, sender, t).amount = amount
                    THEN None ELSE Credit(get_balance(s, sender, t), -amount)
        credited == Credit(get_balance(s, receiver, t), amount)
    IN  [s EXCEPT !.account_token = [@ EXCEPT ![<<sender, t>>] = debited,
                                              ![<<receiver, t>>] = credited],
                  !.token_account = [@ EXCEPT ![<<t, sender>>] = debited,
                                              ![<<t, receiver>>] = credited]]

(* Both balances are read before either is written, and the receiver's is  *)
(* written last: who sends to itself ends with the amount added.           *)
transfer(s, t, sender, receiver, amount, ts) ==
    LET debited  == Credit(get_balance(s, sender, t), -amount)
        credited == Credit(get_balance(s, receiver, t), amount)
    IN  [s EXCEPT !.account_token = [@ EXCEPT ![<<sender, t>>] = debited,
                                              ![<<receiver, t>>] = credited],
                  !.token_account = [@ EXCEPT ![<<t, sender>>] = debited,
                                              ![<<t, receiver>>] = credited],
                  !.transfers = AddTransfer(@, [token         |-> t,
                                                sender_pkey   |-> sender,
                                                receiver_pkey |-> receiver,
                                                date          |-> ts,
                                                amount        |-> amount])]

(* The balances of token t, both copies. *)
set_balances(s, t, balances) ==
    [s EXCEPT
      !.account_token = [b \in Keys \X Tokens |->
                            IF b[2] = t THEN balances[b[1]] ELSE @[b]],
      !.token_account = [b \in Tokens \X Keys |->
                            IF b[1] = t THEN balances[b[2]] ELSE @[b]]]

(* Faulty variant: the balance is made anew, without its amount. *)
set_balance_attributes_Bare(s, k, identifiers, attributes) ==
    [s EXCEPT !.account_token = [b \in Keys \X Tokens |->
                  IF b[1] = k /\ b[2] \in identifiers
                  THEN [attributes |-> attributes] ELSE @[b]]]

(* The balances of account k in the tokens named: each is read at its first *)
(* address and written to both.                                            *)
set_balance_attributes(s, k, identifiers, attributes) ==
    LET Marked(t) == [get_balance(s, k, t) EXCEPT !.attributes = attributes]
    IN  [s EXCEPT
          !.account_token = [b \in Keys \X Tokens |->
              IF b[1] = k /\ b[2] \in identifiers THEN Marked(b[2]) ELSE @[b]],
          !.token_account = [b \in Tokens \X Keys |->
              IF b[2] = k /\ b[1] \in identifiers THEN Marked(b[1]) ELSE @[b]]]

-----------------------------------------------------------------------------
(* Whether an account may receive a token by a transfer. *)

EndorsementRules(token) ==
    {i \in DOMAIN token.immutables : token.immutables[i].key = "endorsement"}

(* Any empty rule lets everyone in; otherwise the first one decides.       *)
detectTransferRestriction(endorsement, token) ==
    LET rules == EndorsementRules(token) IN
    /\ "blacklist" \notin endorsement
    /\ \/ token.transferendorsement
       \/ "whitelist" \in endorsement
       \/ rules = {}
       \/ \E i \in rules : token.immutables[i].value = {}
       \/ \E i \in rules :
             /\ \A j \in rules : i <= j
             /\ token.immutables[i].value \cap endorsement # {}
=============================================================================
