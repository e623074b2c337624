--------------------------- MODULE TokenTP_proofs ---------------------------
(***************************************************************************)
(* Proofs about TokenTP, for every set of keys and tokens, all supplies    *)
(* and payments, and all bounds.                                           *)
(***************************************************************************)
EXTENDS TokenTP, FiniteSums, TLAPS

Parts == {"account", "manager", "issuer", "token",
          "account_token", "token_account", "transfers"}

(* A state with a pair of equal entries for each account and token.        *)
Paired(s) ==
    /\ DOMAIN s = Parts
    /\ DOMAIN s.account_token = Keys \X Tokens
    /\ DOMAIN s.token_account = Tokens \X Keys
    /\ \A k \in Keys, t \in Tokens : s.account_token[<<k, t>>] = s.token_account[<<t, k>>]

(* Operations that leave the balances alone keep them paired.              *)
LEMMA OtherPartsArePaired ==
    ASSUME NEW s, Paired(s), NEW k, NEW t, NEW value
    PROVE  /\ Paired(set_manager(s, k, value))
           /\ Paired(set_issuer(s, k, value))
           /\ Paired(set_account(s, k, value))
           /\ Paired(set_token(s, t, value))
           /\ Paired([s EXCEPT !.transfers = value])
<1>1. Paired(set_manager(s, k, value))
  BY DEF Paired, Parts, set_manager
<1>2. Paired(set_issuer(s, k, value))
  BY DEF Paired, Parts, set_issuer
<1>3. Paired(set_account(s, k, value))
  BY DEF Paired, Parts, set_account
<1>4. Paired(set_token(s, t, value))
  BY DEF Paired, Parts, set_token
<1>5. Paired([s EXCEPT !.transfers = value])
  BY DEF Paired, Parts
<1> QED BY <1>1, <1>2, <1>3, <1>4, <1>5

(* Writing the same balance at both addresses keeps the pairs equal.       *)
LEMMA IssuedIsPaired ==
    ASSUME NEW s, Paired(s), NEW t \in Tokens, NEW token, token.issuer_pkey \in Keys
    PROVE  Paired(issue_token(s, t, token))
<1> DEFINE u == issue_token(s, t, token)
           k == token.issuer_pkey
           balance == [amount |-> token.total_supply, attributes |-> NoAttributes]
<1>1. DOMAIN u = Parts
  BY DEF Paired, Parts, issue_token
<1>2. u.account_token = [s.account_token EXCEPT ![<<k, t>>] = balance]
  BY DEF Paired, Parts, issue_token
<1>3. u.token_account = [s.token_account EXCEPT ![<<t, k>>] = balance]
  BY DEF Paired, Parts, issue_token
<1> QED BY <1>1, <1>2, <1>3 DEF Paired

(* A transfer writes both copies of both balances alike.                   *)
LEMMA TransferIsPaired ==
    ASSUME NEW s, Paired(s), NEW t \in Tokens, NEW sender \in Keys, NEW receiver \in Keys,
           NEW amount, NEW ts
    PROVE  Paired(transfer(s, t, sender, receiver, amount, ts))
<1> DEFINE u == transfer(s, t, sender, receiver, amount, ts)
           debited == Credit(get_balance(s, sender, t), -amount)
           credited == Credit(get_balance(s, receiver, t), amount)
<1> HIDE DEF debited, credited
<1>1. DOMAIN u = Parts
  BY DEF Paired, Parts, transfer
<1>2. u.account_token = [[s.account_token EXCEPT ![<<sender, t>>] = debited]
                                          EXCEPT ![<<receiver, t>>] = credited]
  BY DEF Paired, Parts, transfer, debited, credited
<1>3. u.token_account = [[s.token_account EXCEPT ![<<t, sender>>] = debited]
                                          EXCEPT ![<<t, receiver>>] = credited]
  BY DEF Paired, Parts, transfer, debited, credited
<1>4. DOMAIN u.account_token = Keys \X Tokens /\ DOMAIN u.token_account = Tokens \X Keys
  BY <1>2, <1>3 DEF Paired
<1>5. ASSUME NEW k \in Keys, NEW v \in Tokens
      PROVE  u.account_token[<<k, v>>] = u.token_account[<<v, k>>]
  <2>1. CASE k = receiver /\ v = t
    <3>1. u.account_token[<<k, v>>] = credited
      BY <1>2, <2>1 DEF Paired
    <3>2. u.token_account[<<v, k>>] = credited
      BY <1>3, <2>1 DEF Paired
    <3> QED BY <3>1, <3>2
  <2>2. CASE k = sender /\ v = t /\ k # receiver
    <3>1. u.account_token[<<k, v>>] = debited
      BY <1>2, <2>2 DEF Paired
    <3>2. u.token_account[<<v, k>>] = debited
      BY <1>3, <2>2 DEF Paired
    <3> QED BY <3>1, <3>2
  <2>3. CASE v # t \/ (k # sender /\ k # receiver)
    <3>1. u.account_token[<<k, v>>] = s.account_token[<<k, v>>]
      BY <1>2, <2>3 DEF Paired
    <3>2. u.token_account[<<v, k>>] = s.token_account[<<v, k>>]
      BY <1>3, <2>3 DEF Paired
    <3> QED BY <3>1, <3>2 DEF Paired
  <2> QED BY <2>1, <2>2, <2>3
<1> QED BY <1>1, <1>4, <1>5 DEF Paired

LEMMA BalancesSetArePaired ==
    ASSUME NEW s, Paired(s), NEW t, NEW balances
    PROVE  Paired(set_balances(s, t, balances))
BY DEF Paired, Parts, set_balances

LEMMA AttributesSetArePaired ==
    ASSUME NEW s, Paired(s), NEW k, NEW identifiers, NEW attributes
    PROVE  Paired(set_balance_attributes(s, k, identifiers, attributes))
BY DEF Paired, Parts, set_balance_attributes

-----------------------------------------------------------------------------

(* Every step keeps the balances paired.                                   *)
LEMMA AccountStepPairs ==
    ASSUME Paired(state), AccountStep
    PROVE  Paired(state')
<1> PICK k \in Keys, endorsement \in Endorsements :
        \/ SetManager(k, endorsement)
        \/ SetIssuer(k, endorsement)
        \/ SetAccount(k, endorsement)
        \/ \E account \in Keys : SetEndorsement(k, account, endorsement)
  BY DEF AccountStep
<1>1. CASE SetManager(k, endorsement)
  BY <1>1, OtherPartsArePaired DEF SetManager
<1>2. CASE SetIssuer(k, endorsement)
  <2>1. Paired(set_issuer(state, k, endorsement))
    BY OtherPartsArePaired
  <2>2. CashToken(k).issuer_pkey \in Keys /\ CASH_TOKEN \in Tokens
    BY TokenAssumption DEF CashToken
  <2> QED BY <1>2, <2>1, <2>2, IssuedIsPaired DEF SetIssuer
<1>3. CASE SetAccount(k, endorsement)
  BY <1>3, OtherPartsArePaired DEF SetAccount
<1>4. CASE \E account \in Keys : SetEndorsement(k, account, endorsement)
  BY <1>4, OtherPartsArePaired DEF SetEndorsement
<1> QED BY <1>1, <1>2, <1>3, <1>4

LEMMA TokenStepPairs ==
    ASSUME Paired(state), TokenStep
    PROVE  Paired(state')
<1> PICK k \in Keys, t \in Tokens :
        \/ \E supply \in Supplies, endorsed \in TransferEndorsements, schedule \in Schedules :
              IssueToken(k, t, supply, endorsed, schedule)
        \/ \E new \in ImmutablesLists : AddImmutables(k, t, new)
        \/ \E status \in AskedStatuses : SetTokenStatus(k, t, status)
  BY DEF TokenStep
<1>1. CASE \E supply \in Supplies, endorsed \in TransferEndorsements, schedule \in Schedules :
              IssueToken(k, t, supply, endorsed, schedule)
  BY <1>1, IssuedIsPaired DEF IssueToken
<1>2. CASE \E new \in ImmutablesLists : AddImmutables(k, t, new)
  <2> PICK token : state' = set_token(state, t, token)
    BY <1>2 DEF AddImmutables
  <2> QED BY OtherPartsArePaired
<1>3. CASE \E status \in AskedStatuses : SetTokenStatus(k, t, status)
  <2> PICK token : state' = set_token(state, t, token)
    BY <1>3 DEF SetTokenStatus
  <2> QED BY OtherPartsArePaired
<1> QED BY <1>1, <1>2, <1>3

LEMMA HeartbeatPairs ==
    ASSUME Paired(state), NEW receivers, NEW t, NEW ts, DoHeartbeat(receivers, t, ts)
    PROVE  Paired(state')
<1> DEFINE paid == set_balances(state, CASH_TOKEN, CashAfter(receivers, t, Due(t, ts)))
<1>1. Paired(paid)
  BY BalancesSetArePaired
<1>2. PICK events : state' = [paid EXCEPT !.transfers = events]
  BY DEF DoHeartbeat
<1> HIDE DEF paid
<1> QED BY <1>1, <1>2, OtherPartsArePaired

LEMMA PaymentStepPairs ==
    ASSUME Paired(state), PaymentStep
    PROVE  Paired(state')
<1>1. CASE \E k, receiver \in Keys, t \in Tokens, amount \in Amounts, ts \in Times :
              DoTransfer(k, receiver, t, amount, ts)
  BY <1>1, TransferIsPaired DEF DoTransfer
<1>2. CASE \E receivers \in (SUBSET Keys) \ {{}}, t \in Tokens, ts \in Times :
              DoHeartbeat(receivers, t, ts)
  BY <1>2, HeartbeatPairs
<1>3. CASE \E k \in Keys, identifiers \in SUBSET Tokens, attributes \in Attributes :
              SetBalanceAttributes(k, identifiers, attributes)
  BY <1>3, AttributesSetArePaired DEF SetBalanceAttributes
<1> QED BY <1>1, <1>2, <1>3 DEF PaymentStep

(* Paired is an invariant.                                                 *)
LEMMA AlwaysPaired == Spec => []Paired(state)
<1>1. Init => Paired(state)
  BY DEF Init, EmptyState, Paired, Parts
<1>2. Paired(state) /\ [Next]_vars => Paired(state)'
  <2> SUFFICES ASSUME Paired(state), [Next]_vars
               PROVE  Paired(state')
    OBVIOUS
  <2>1. CASE UNCHANGED vars
    BY <2>1 DEF vars
  <2> QED BY <2>1, AccountStepPairs, TokenStepPairs, PaymentStepPairs DEF Next
<1> QED BY <1>1, <1>2, PTL DEF Spec

(* What an account lists under its tokens is what a token lists under its  *)
(* accounts, after any number of transfers, payments and new issues.       *)
THEOREM CopiesAgree == Spec => []BalanceCopiesAgree
<1>1. Paired(state) => BalanceCopiesAgree
  BY DEF Paired, BalanceCopiesAgree
<1> QED BY <1>1, AlwaysPaired, PTL

-----------------------------------------------------------------------------
(* What each operation leaves of the entries the rules depend on.          *)

BalanceFields == {"amount", "attributes"}

(* The entries of a state are complete, but for what amounts come to.      *)
Shaped(s) ==
    /\ DOMAIN s = Parts
    /\ s.account \in [Keys -> (SUBSET EndorsementKeys) \cup {None}]
    /\ s.manager \in Keys \cup {None}
    /\ s.issuer \in Keys \cup {None}
    /\ s.token \in [Tokens -> Token \cup {None}]
    /\ DOMAIN s.account_token = Keys \X Tokens
    /\ \A b \in Keys \X Tokens :
          s.account_token[b] # None => DOMAIN s.account_token[b] = BalanceFields

(* The entries that u and s have in common.                                *)
SameRoles(u, s) == u.manager = s.manager /\ u.issuer = s.issuer
SameAccounts(u, s) == SameRoles(u, s) /\ u.account = s.account
SameHoldings(u, s) == u.token = s.token /\ u.account_token = s.account_token

(* What each operation of the state changes, and what it leaves.           *)
LEMMA AccountFields ==
    ASSUME NEW s, DOMAIN s = Parts, NEW k, NEW e
    PROVE  /\ DOMAIN set_manager(s, k, e) = Parts
           /\ set_manager(s, k, e).account = [s.account EXCEPT ![k] = e]
           /\ set_manager(s, k, e).manager = k
           /\ set_manager(s, k, e).issuer = s.issuer
           /\ SameHoldings(set_manager(s, k, e), s)
           /\ DOMAIN set_issuer(s, k, e) = Parts
           /\ set_issuer(s, k, e).account = [s.account EXCEPT ![k] = e]
           /\ set_issuer(s, k, e).issuer = k
           /\ set_issuer(s, k, e).manager = s.manager
           /\ SameHoldings(set_issuer(s, k, e), s)
           /\ DOMAIN set_account(s, k, e) = Parts
           /\ set_account(s, k, e).account = [s.account EXCEPT ![k] = e]
           /\ SameRoles(set_account(s, k, e), s)
           /\ SameHoldings(set_account(s, k, e), s)
BY DEF Parts, set_manager, set_issuer, set_account, SameHoldings, SameRoles

LEMMA TokenFields ==
    ASSUME NEW s, DOMAIN s = Parts, NEW t, NEW token
    PROVE  /\ DOMAIN set_token(s, t, token) = Parts
           /\ SameAccounts(set_token(s, t, token), s)
           /\ set_token(s, t, token).token = [s.token EXCEPT ![t] = token]
           /\ set_token(s, t, token).account_token = s.account_token
BY DEF Parts, set_token, SameAccounts, SameRoles

(* The balance of the issuer of a new token.                               *)
Whole(token) == [amount |-> token.total_supply, attributes |-> NoAttributes]

LEMMA IssueFields ==
    ASSUME NEW s, DOMAIN s = Parts, NEW t, NEW token
    PROVE  /\ DOMAIN issue_token(s, t, token) = Parts
           /\ SameAccounts(issue_token(s, t, token), s)
           /\ issue_token(s, t, token).token = [s.token EXCEPT ![t] = token]
           /\ issue_token(s, t, token).account_token =
                  [s.account_token EXCEPT ![<<token.issuer_pkey, t>>] = Whole(token)]
BY DEF Parts, issue_token, SameAccounts, SameRoles, Whole

(* u is s after a change of the balances: by a transfer, in one token, in  *)
(* what is noted on those of one account.                                  *)
AfterTransfer(u, s, t, sender, receiver, amount) ==
    /\ SameAccounts(u, s)
    /\ u.token = s.token
    /\ u.account_token =
          [[s.account_token
              EXCEPT ![<<sender, t>>] = Credit(get_balance(s, sender, t), -amount)]
              EXCEPT ![<<receiver, t>>] = Credit(get_balance(s, receiver, t), amount)]

AfterPayment(u, s, t, balances) ==
    /\ SameAccounts(u, s)
    /\ u.token = s.token
    /\ u.account_token =
          [b \in Keys \X Tokens |-> IF b[2] = t THEN balances[b[1]] ELSE s.account_token[b]]

AfterNotes(u, s, k, identifiers, attributes) ==
    /\ SameAccounts(u, s)
    /\ u.token = s.token
    /\ u.account_token =
          [b \in Keys \X Tokens |->
              IF b[1] = k /\ b[2] \in identifiers
              THEN [get_balance(s, k, b[2]) EXCEPT !.attributes = attributes]
              ELSE s.account_token[b]]

LEMMA TransferFields ==
    ASSUME NEW s, DOMAIN s = Parts, NEW t, NEW sender, NEW receiver, NEW amount, NEW ts
    PROVE  /\ DOMAIN transfer(s, t, sender, receiver, amount, ts) = Parts
           /\ AfterTransfer(transfer(s, t, sender, receiver, amount, ts),
                            s, t, sender, receiver, amount)
<1> DEFINE u == transfer(s, t, sender, receiver, amount, ts)
           debited == Credit(get_balance(s, sender, t), -amount)
           credited == Credit(get_balance(s, receiver, t), amount)
<1> HIDE DEF debited, credited
<1>1. /\ DOMAIN u = Parts
      /\ u.token = s.token
      /\ u.account_token = [[s.account_token EXCEPT ![<<sender, t>>] = debited]
                                          EXCEPT ![<<receiver, t>>] = credited]
  BY DEF Parts, transfer, debited, credited
<1>2. SameAccounts(u, s)
  BY DEF Parts, transfer, SameAccounts, SameRoles
<1> QED BY <1>1, <1>2 DEF AfterTransfer, debited, credited

LEMMA BalancesFields ==
    ASSUME NEW s, DOMAIN s = Parts, NEW t, NEW balances
    PROVE  /\ DOMAIN set_balances(s, t, balances) = Parts
           /\ AfterPayment(set_balances(s, t, balances), s, t, balances)
BY DEF Parts, set_balances, SameAccounts, SameRoles, AfterPayment

LEMMA AttributesFields ==
    ASSUME NEW s, DOMAIN s = Parts, NEW k, NEW identifiers, NEW attributes
    PROVE  /\ DOMAIN set_balance_attributes(s, k, identifiers, attributes) = Parts
           /\ AfterNotes(set_balance_attributes(s, k, identifiers, attributes),
                         s, k, identifiers, attributes)
BY DEF Parts, set_balance_attributes, SameAccounts, SameRoles, AfterNotes

-----------------------------------------------------------------------------
(* Each operation keeps entries complete.                                  *)

(* The operations keep the shape of the state.                             *)
LEMMA RolesStayShaped ==
    ASSUME NEW s, Shaped(s), NEW u, DOMAIN u = Parts, SameHoldings(u, s),
           u.account \in [Keys -> (SUBSET EndorsementKeys) \cup {None}],
           u.manager \in Keys \cup {None}, u.issuer \in Keys \cup {None}
    PROVE  Shaped(u)
BY DEF Shaped, SameHoldings

LEMMA AccountsStayShaped ==
    ASSUME NEW s, Shaped(s), NEW k \in Keys, NEW e \in SUBSET EndorsementKeys
    PROVE  /\ Shaped(set_manager(s, k, e))
           /\ Shaped(set_issuer(s, k, e))
           /\ Shaped(set_account(s, k, e))
<1>1. DOMAIN s = Parts /\ s.manager \in Keys \cup {None} /\ s.issuer \in Keys \cup {None}
  BY DEF Shaped
<1>2. [s.account EXCEPT ![k] = e] \in [Keys -> (SUBSET EndorsementKeys) \cup {None}]
  BY DEF Shaped
<1>3. Shaped(set_manager(s, k, e))
  <2> DEFINE u == set_manager(s, k, e)
  <2>1. /\ DOMAIN u = Parts /\ u.account = [s.account EXCEPT ![k] = e]
        /\ u.manager = k /\ u.issuer = s.issuer /\ SameHoldings(u, s)
    BY <1>1, AccountFields
  <2> HIDE DEF u
  <2> QED BY <1>1, <1>2, <2>1, RolesStayShaped DEF u
<1>4. Shaped(set_issuer(s, k, e))
  <2> DEFINE u == set_issuer(s, k, e)
  <2>1. /\ DOMAIN u = Parts /\ u.account = [s.account EXCEPT ![k] = e]
        /\ u.issuer = k /\ u.manager = s.manager /\ SameHoldings(u, s)
    BY <1>1, AccountFields
  <2> HIDE DEF u
  <2> QED BY <1>1, <1>2, <2>1, RolesStayShaped DEF u
<1>5. Shaped(set_account(s, k, e))
  <2> DEFINE u == set_account(s, k, e)
  <2>1. /\ DOMAIN u = Parts /\ u.account = [s.account EXCEPT ![k] = e]
        /\ SameRoles(u, s) /\ SameHoldings(u, s)
    BY <1>1, AccountFields
  <2> HIDE DEF u
  <2> QED BY <1>1, <1>2, <2>1, RolesStayShaped DEF u, SameRoles
<1> QED BY <1>3, <1>4, <1>5

LEMMA TokensStayShaped ==
    ASSUME NEW s, Shaped(s), NEW t \in Tokens, NEW token \in Token
    PROVE  /\ Shaped(set_token(s, t, token))
           /\ Shaped(issue_token(s, t, token))
<1>1. DOMAIN s = Parts
  BY DEF Shaped
<1>2. [s.token EXCEPT ![t] = token] \in [Tokens -> Token \cup {None}]
  BY DEF Shaped
<1>3. Shaped(set_token(s, t, token))
  <2> DEFINE v == set_token(s, t, token)
  <2>1. /\ DOMAIN v = Parts /\ SameAccounts(v, s)
        /\ v.token = [s.token EXCEPT ![t] = token]
        /\ v.account_token = s.account_token
    BY <1>1, TokenFields
  <2> HIDE DEF v
  <2>2. Shaped(v)
    BY <1>2, <2>1 DEF Shaped, SameAccounts, SameRoles
  <2> QED BY <2>2 DEF v
<1>4. token.issuer_pkey \in Keys
  BY DEF Token
<1>5. DOMAIN Whole(token) = BalanceFields
  BY DEF Whole, BalanceFields
<1> DEFINE u == issue_token(s, t, token)
<1>6. /\ DOMAIN u = Parts /\ SameAccounts(u, s)
      /\ u.token = [s.token EXCEPT ![t] = token]
      /\ u.account_token = [s.account_token EXCEPT ![<<token.issuer_pkey, t>>] = Whole(token)]
  BY <1>1, IssueFields
<1> HIDE DEF u
<1>7. /\ DOMAIN u.account_token = Keys \X Tokens
      /\ \A b \in Keys \X Tokens :
            u.account_token[b] # None => DOMAIN u.account_token[b] = BalanceFields
  BY <1>4, <1>5, <1>6 DEF Shaped
<1>8. Shaped(u)
  BY <1>2, <1>6, <1>7 DEF Shaped, SameAccounts, SameRoles
<1> QED BY <1>3, <1>8 DEF u

LEMMA CreditIsBalance ==
    ASSUME NEW balance, NEW amount,
           balance # None => DOMAIN balance = BalanceFields
    PROVE  DOMAIN Credit(balance, amount) = BalanceFields
BY DEF Credit, BalanceFields

LEMMA BalancesStayShaped ==
    ASSUME NEW s, Shaped(s), NEW u, DOMAIN u = Parts, SameAccounts(u, s), u.token = s.token,
           DOMAIN u.account_token = Keys \X Tokens,
           \A b \in Keys \X Tokens :
              u.account_token[b] # None => DOMAIN u.account_token[b] = BalanceFields
    PROVE  Shaped(u)
BY DEF Shaped, SameAccounts, SameRoles

LEMMA TransferStaysShaped ==
    ASSUME NEW s, Shaped(s), NEW t \in Tokens, NEW sender \in Keys, NEW receiver \in Keys,
           NEW amount, NEW ts
    PROVE  Shaped(transfer(s, t, sender, receiver, amount, ts))
<1> DEFINE u == transfer(s, t, sender, receiver, amount, ts)
           debited == Credit(get_balance(s, sender, t), -amount)
           credited == Credit(get_balance(s, receiver, t), amount)
<1>1. DOMAIN s = Parts
  BY DEF Shaped
<1>2. DOMAIN debited = BalanceFields /\ DOMAIN credited = BalanceFields
  BY CreditIsBalance DEF Shaped, get_balance
<1>3. /\ DOMAIN u = Parts /\ SameAccounts(u, s) /\ u.token = s.token
      /\ u.account_token = [[s.account_token EXCEPT ![<<sender, t>>] = debited]
                                             EXCEPT ![<<receiver, t>>] = credited]
  BY <1>1, TransferFields DEF AfterTransfer
<1> HIDE DEF u, debited, credited
<1>4. /\ DOMAIN u.account_token = Keys \X Tokens
      /\ \A b \in Keys \X Tokens :
            u.account_token[b] # None => DOMAIN u.account_token[b] = BalanceFields
  BY <1>2, <1>3 DEF Shaped
<1>5. Shaped(u)
  BY <1>3, <1>4, BalancesStayShaped
<1> QED BY <1>5 DEF u

LEMMA PaidStaysShaped ==
    ASSUME NEW s, Shaped(s), NEW t \in Tokens, NEW balances,
           \A k \in Keys : balances[k] # None => DOMAIN balances[k] = BalanceFields
    PROVE  Shaped(set_balances(s, t, balances))
<1>1. DOMAIN s = Parts
  BY DEF Shaped
<1> DEFINE u == set_balances(s, t, balances)
<1>2. DOMAIN u = Parts /\ AfterPayment(u, s, t, balances)
  BY <1>1, BalancesFields
<1> HIDE DEF u
<1>3. /\ DOMAIN u.account_token = Keys \X Tokens
      /\ \A b \in Keys \X Tokens :
            u.account_token[b] # None => DOMAIN u.account_token[b] = BalanceFields
  BY <1>2 DEF Shaped, AfterPayment
<1>4. Shaped(u)
  BY <1>2, <1>3, BalancesStayShaped DEF AfterPayment
<1> QED BY <1>4 DEF u

LEMMA AnnotatedStaysShaped ==
    ASSUME NEW s, Shaped(s), NEW k \in Keys, NEW identifiers, NEW attributes,
           \A t \in identifiers : Holds(s, k, t)
    PROVE  Shaped(set_balance_attributes(s, k, identifiers, attributes))
<1> DEFINE u == set_balance_attributes(s, k, identifiers, attributes)
<1>1. DOMAIN s = Parts
  BY DEF Shaped
<1>2. DOMAIN u = Parts /\ AfterNotes(u, s, k, identifiers, attributes)
  BY <1>1, AttributesFields
<1> HIDE DEF u
<1>3. ASSUME NEW b \in Keys \X Tokens, u.account_token[b] # None
      PROVE  DOMAIN u.account_token[b] = BalanceFields
  <2>1. CASE b[1] = k /\ b[2] \in identifiers
    <3>1. b = <<k, b[2]>> /\ s.account_token[b] # None
      BY <2>1 DEF Holds, get_balance
    <3> QED BY <1>2, <2>1, <3>1 DEF Shaped, get_balance, AfterNotes
  <2>2. CASE ~(b[1] = k /\ b[2] \in identifiers)
    BY <1>2, <1>3, <2>2 DEF Shaped, AfterNotes
  <2> QED BY <2>1, <2>2
<1>4. DOMAIN u.account_token = Keys \X Tokens
  BY <1>2 DEF AfterNotes
<1>5. Shaped(u)
  BY <1>2, <1>3, <1>4, BalancesStayShaped DEF AfterNotes
<1> QED BY <1>5 DEF u

(* What the transfers on record are makes no difference.                   *)
LEMMA RecordedStaysShaped ==
    ASSUME NEW s, Shaped(s), NEW transfers
    PROVE  /\ Shaped([s EXCEPT !.transfers = transfers])
           /\ SameAccounts([s EXCEPT !.transfers = transfers], s)
           /\ SameHoldings([s EXCEPT !.transfers = transfers], s)
<1> DEFINE u == [s EXCEPT !.transfers = transfers]
<1>1. DOMAIN u = Parts /\ SameAccounts(u, s) /\ SameHoldings(u, s)
  BY DEF Shaped, Parts, SameAccounts, SameRoles, SameHoldings
<1> HIDE DEF u
<1>2. Shaped(u)
  BY <1>1 DEF Shaped, SameAccounts, SameRoles, SameHoldings
<1> QED BY <1>1, <1>2 DEF u

-----------------------------------------------------------------------------
(* What a step may do, by the entries it changes.                          *)

AccountsChange ==
    \E k \in Keys, e \in SUBSET EndorsementKeys :
        /\ state'.account = [state.account EXCEPT ![k] = e]
        /\ \/ state.manager = None /\ state'.manager = k
           \/ state'.manager = state.manager
        /\ state'.issuer = state.issuer
        /\ SameHoldings(state', state)
        /\ inflated' = inflated

CashIssued ==
    \E k \in Keys, e \in SUBSET EndorsementKeys :
        /\ state.issuer = None
        /\ state'.issuer = k
        /\ state'.manager = state.manager
        /\ state'.account = [state.account EXCEPT ![k] = e]
        /\ state'.token = [state.token EXCEPT ![CASH_TOKEN] = CashToken(k)]
        /\ state'.account_token =
              [state.account_token EXCEPT ![<<k, CASH_TOKEN>>] = Whole(CashToken(k))]
        /\ inflated' = IF Issued(state, CASH_TOKEN) THEN inflated \cup {CASH_TOKEN}
                                                    ELSE inflated

IssuedAs(k, t, token) ==
    /\ IsManager(k)
    /\ ~Issued(state, t)
    /\ token.issuer_pkey = k
    /\ token.total_supply \in Supplies /\ token.payments \in Schedules
    /\ inflated' = inflated
    /\ SameAccounts(state', state)
    /\ state'.token = [state.token EXCEPT ![t] = token]
    /\ state'.account_token = [state.account_token EXCEPT ![<<k, t>>] = Whole(token)]

TokenIssued == \E k \in Keys, t \in Tokens, token \in Token : IssuedAs(k, t, token)

AddedAs(k, t, new) ==
    /\ MayAddImmutables(k, t, new)
    /\ inflated' = inflated
    /\ SameAccounts(state', state)
    /\ state'.token = [state.token EXCEPT ![t] =
          [state.token[t] EXCEPT !.immutables = new \o @, !.status = "ACTIVE"]]
    /\ state'.account_token = state.account_token

ImmutablesAdded == \E k \in Keys, t \in Tokens, new \in ImmutablesLists : AddedAs(k, t, new)

SetAs(t, status) ==
    /\ Issued(state, t)
    /\ inflated' = inflated
    /\ state' = set_token(state, t, [state.token[t] EXCEPT !.status = status])
    /\ SameAccounts(state', state)
    /\ state'.token = [state.token EXCEPT ![t] = [state.token[t] EXCEPT !.status = status]]
    /\ state'.account_token = state.account_token

StatusSet == \E t \in Tokens, status \in Statuses : SetAs(t, status)

Transferred ==
    \E k \in Keys, receiver \in Keys, t \in Tokens, amount \in Amounts :
        /\ MayTransfer(k, receiver, t, amount)
        /\ AfterTransfer(state', state, t, k, receiver, amount)
        /\ inflated' = IF k = receiver THEN inflated \cup {t} ELSE inflated

PaidOn(receivers, t, ts) ==
    LET due == Due(t, ts) IN
    /\ MayHeartbeat(receivers, t)
    /\ due # {}
    /\ IssuerCanPay(receivers, t, due)
    /\ AfterPayment(state', state, CASH_TOKEN, CashAfter(receivers, t, due))
    /\ inflated' = IF state.issuer \in receivers THEN inflated \cup {CASH_TOKEN}
                                                  ELSE inflated

Paid ==
    \E receivers \in SUBSET Keys, t \in Tokens, ts \in Times : PaidOn(receivers, t, ts)

Annotated ==
    \E k \in Keys, identifiers \in SUBSET Tokens, attributes \in Attributes :
        /\ \A t \in identifiers : Holds(state, k, t)
        /\ AfterNotes(state', state, k, identifiers, attributes)
        /\ inflated' = inflated

StepKinds ==
    \/ AccountsChange \/ CashIssued \/ TokenIssued \/ ImmutablesAdded \/ StatusSet
    \/ Transferred \/ Paid \/ Annotated
    \/ UNCHANGED vars

(* The issuer stays when somebody else's account changes.                  *)
LEMMA IssuerKept ==
    ASSUME Shaped(state), NEW k, NEW endorsement, NEW account,
           \/ SetManager(k, endorsement)
           \/ SetAccount(k, endorsement)
           \/ SetEndorsement(k, account, endorsement)
    PROVE  state'.issuer = state.issuer
<1>0. DOMAIN state = Parts
  BY DEF Shaped
<1>1. CASE SetManager(k, endorsement)
  <2>1. /\ state'.account = [state.account EXCEPT ![k] = endorsement]
        /\ state'.issuer = state.issuer
    BY <1>0, <1>1, AccountFields DEF SetManager
  <2> QED BY <2>1
<1>2. CASE SetAccount(k, endorsement)
  <2>1. /\ state'.account = [state.account EXCEPT ![k] = endorsement]
        /\ SameRoles(state', state) /\ SameHoldings(state', state)
    BY <1>0, <1>2, AccountFields DEF SetAccount
  <2> QED BY <2>1 DEF SameRoles
<1>3. CASE SetEndorsement(k, account, endorsement)
  <2>1. /\ state'.account = [state.account EXCEPT ![account] = endorsement]
        /\ SameRoles(state', state)
    BY <1>0, <1>3, AccountFields DEF SetEndorsement
  <2> QED BY <2>1 DEF SameRoles
<1> QED BY <1>1, <1>2, <1>3

(* Of all balances, set_issuer only writes that of the Cash Token it issues *)
LEMMA IssuerStep ==
    ASSUME Shaped(state), NEW k \in Keys, NEW endorsement \in Endorsements,
           SetIssuer(k, endorsement)
    PROVE  /\ CashToken(k) \in Token
           /\ state'.account_token =
                 [state.account_token EXCEPT ![<<k, CASH_TOKEN>>] = Whole(CashToken(k))]
<1> DEFINE s == set_issuer(state, k, endorsement)
<1>1. DOMAIN s = Parts /\ SameHoldings(s, state)
  BY AccountFields DEF Shaped
<1>2. state' = issue_token(s, CASH_TOKEN, CashToken(k))
  BY DEF SetIssuer
<1> HIDE DEF s
<1>3. CashToken(k) \in Token /\ CashToken(k).issuer_pkey = k /\ CASH_TOKEN \in Tokens
  BY TokenAssumption, PaymentAssumption DEF CashToken, Token, Statuses
<1> DEFINE token == CashToken(k)
<1>4. token.issuer_pkey = k /\ state' = issue_token(s, CASH_TOKEN, token)
  BY <1>2, <1>3
<1> HIDE DEF token
<1>5. /\ state'.token = [s.token EXCEPT ![CASH_TOKEN] = token]
      /\ state'.account_token =
            [s.account_token EXCEPT ![<<token.issuer_pkey, CASH_TOKEN>>] = Whole(token)]
  BY <1>1, <1>4, IssueFields
<1> QED BY <1>1, <1>3, <1>4, <1>5 DEF SameHoldings, token

(* Each action is one kind of step: actions on accounts,                   *)
LEMMA AccountStepKinds ==
    ASSUME Shaped(state), AccountStep
    PROVE  Shaped(state') /\ (AccountsChange \/ CashIssued)
<1> PICK k \in Keys, endorsement \in Endorsements :
        \/ SetManager(k, endorsement)
        \/ SetIssuer(k, endorsement)
        \/ SetAccount(k, endorsement)
        \/ \E account \in Keys : SetEndorsement(k, account, endorsement)
  BY DEF AccountStep
<1>1. endorsement \in SUBSET EndorsementKeys
  BY PaymentAssumption
<1>2. DOMAIN state = Parts
  BY DEF Shaped
<1>3. CASE SetManager(k, endorsement)
  <2>1. /\ state'.account = [state.account EXCEPT ![k] = endorsement]
        /\ state.manager = None
        /\ state'.manager = k
        /\ state'.issuer = state.issuer
        /\ SameHoldings(state', state)
        /\ inflated' = inflated
    BY <1>2, <1>3, AccountFields DEF SetManager
  <2>2. Shaped(state')
    BY <1>1, <1>3, AccountsStayShaped DEF SetManager
  <2> QED BY <1>1, <2>1, <2>2 DEF AccountsChange
<1>4. CASE SetIssuer(k, endorsement)
  <2> DEFINE s == set_issuer(state, k, endorsement)
  <2>1. /\ DOMAIN s = Parts
        /\ s.account = [state.account EXCEPT ![k] = endorsement]
        /\ s.issuer = k
        /\ s.manager = state.manager
        /\ SameHoldings(s, state)
    BY <1>2, AccountFields
  <2>2. Shaped(s)
    BY <1>1, AccountsStayShaped
  <2>3. state' = issue_token(s, CASH_TOKEN, CashToken(k)) /\ state.issuer = None
    BY <1>4 DEF SetIssuer
  <2> HIDE DEF s
  <2>4. CASH_TOKEN \in Tokens /\ CashToken(k) \in Token /\ CashToken(k).issuer_pkey = k
    BY TokenAssumption, PaymentAssumption DEF CashToken, Token, Statuses
  <2>5. Shaped(state')
    BY <2>2, <2>3, <2>4, TokensStayShaped
  <2>6. /\ SameAccounts(state', s)
        /\ state'.token = [s.token EXCEPT ![CASH_TOKEN] = CashToken(k)]
        /\ state'.account_token =
              [s.account_token EXCEPT ![<<k, CASH_TOKEN>>] = Whole(CashToken(k))]
    BY <2>1, <2>3, <2>4, IssueFields
  <2>7. inflated' = IF Issued(state, CASH_TOKEN) THEN inflated \cup {CASH_TOKEN} ELSE inflated
    BY <1>4 DEF SetIssuer
  <2>8. CashIssued
    BY <1>1, <2>1, <2>3, <2>6, <2>7 DEF CashIssued, SameAccounts, SameRoles, SameHoldings
  <2> QED BY <2>5, <2>8
<1>5. CASE SetAccount(k, endorsement)
  <2>1. /\ state'.account = [state.account EXCEPT ![k] = endorsement]
        /\ SameRoles(state', state)
        /\ SameHoldings(state', state)
        /\ inflated' = inflated
    BY <1>2, <1>5, AccountFields DEF SetAccount
  <2>2. Shaped(state')
    BY <1>1, <1>5, AccountsStayShaped DEF SetAccount
  <2> QED BY <1>1, <2>1, <2>2 DEF AccountsChange, SameRoles
<1>6. CASE \E account \in Keys : SetEndorsement(k, account, endorsement)
  <2> PICK account \in Keys : SetEndorsement(k, account, endorsement)
    BY <1>6
  <2>1. /\ state'.account = [state.account EXCEPT ![account] = endorsement]
        /\ SameRoles(state', state)
        /\ SameHoldings(state', state)
        /\ inflated' = inflated
    BY <1>2, AccountFields DEF SetEndorsement
  <2>2. Shaped(state')
    BY <1>1, AccountsStayShaped DEF SetEndorsement
  <2> QED BY <1>1, <2>1, <2>2 DEF AccountsChange, SameRoles
<1> QED BY <1>3, <1>4, <1>5, <1>6

(* actions on tokens,                                                      *)
LEMMA TokenStepKinds ==
    ASSUME Shaped(state), TokenStep
    PROVE  Shaped(state') /\ (TokenIssued \/ ImmutablesAdded \/ StatusSet)
<1> PICK k \in Keys, t \in Tokens :
        \/ \E supply \in Supplies, endorsed \in TransferEndorsements, schedule \in Schedules :
              IssueToken(k, t, supply, endorsed, schedule)
        \/ \E new \in ImmutablesLists : AddImmutables(k, t, new)
        \/ \E status \in AskedStatuses : SetTokenStatus(k, t, status)
  BY DEF TokenStep
<1>1. DOMAIN state = Parts
  BY DEF Shaped
<1>2. Issued(state, t) => state.token[t] \in Token
  BY DEF Shaped, Issued
<1>3. CASE \E supply \in Supplies, endorsed \in TransferEndorsements, schedule \in Schedules :
              IssueToken(k, t, supply, endorsed, schedule)
  <2> PICK supply \in Supplies, endorsed \in TransferEndorsements, schedule \in Schedules :
              IssueToken(k, t, supply, endorsed, schedule)
    BY <1>3
  <2> DEFINE token == [issuer_pkey         |-> k,
                       total_supply        |-> supply,
                       status              |-> "ACTIVE",
                       transferendorsement |-> endorsed,
                       payments            |-> schedule,
                       immutables          |-> <<>>]
  <2>1. /\ token \in Token /\ token.issuer_pkey = k
        /\ token.total_supply \in Supplies /\ token.payments \in Schedules
    BY PaymentAssumption DEF IssueToken, Token, Statuses
  <2>2. /\ IsManager(k) /\ ~Issued(state, t)
        /\ state' = issue_token(state, t, token) /\ inflated' = inflated
    BY DEF IssueToken
  <2> HIDE DEF token
  <2>3. Shaped(state')
    BY <2>1, <2>2, TokensStayShaped
  <2>4. /\ SameAccounts(state', state)
        /\ state'.token = [state.token EXCEPT ![t] = token]
        /\ state'.account_token = [state.account_token EXCEPT ![<<k, t>>] = Whole(token)]
    BY <1>1, <2>1, <2>2, IssueFields
  <2>5. IssuedAs(k, t, token)
    BY <2>1, <2>2, <2>4 DEF IssuedAs
  <2> QED BY <2>1, <2>3, <2>5 DEF TokenIssued
<1>4. CASE \E new \in ImmutablesLists : AddImmutables(k, t, new)
  <2> PICK new \in ImmutablesLists : AddImmutables(k, t, new)
    BY <1>4
  <2> DEFINE token == [state.token[t] EXCEPT !.immutables = new \o @, !.status = "ACTIVE"]
  <2>1. /\ MayAddImmutables(k, t, new)
        /\ state' = set_token(state, t, token) /\ inflated' = inflated
    BY DEF AddImmutables
  <2>2. token \in Token
    <3>1. state.token[t] \in Token
      BY <1>2, <2>1 DEF MayAddImmutables, Active
    <3>2. new \in Seq(Immutable) /\ state.token[t].immutables \in Seq(Immutable)
      BY <3>1, PaymentAssumption DEF Token
    <3>3. new \o state.token[t].immutables \in Seq(Immutable)
      BY <3>2
    <3> QED BY <3>1, <3>3 DEF Token, Statuses
  <2>3. token = [state.token[t] EXCEPT !.immutables = new \o @, !.status = "ACTIVE"]
    OBVIOUS
  <2> HIDE DEF token
  <2>4. Shaped(state')
    BY <2>1, <2>2, TokensStayShaped
  <2>5. /\ SameAccounts(state', state)
        /\ state'.token = [state.token EXCEPT ![t] = token]
        /\ state'.account_token = state.account_token
    BY <1>1, <2>1, TokenFields
  <2>6. AddedAs(k, t, new)
    BY <2>1, <2>3, <2>5 DEF AddedAs
  <2> QED BY <2>4, <2>6 DEF ImmutablesAdded
<1>5. CASE \E status \in AskedStatuses : SetTokenStatus(k, t, status)
  <2> PICK status \in AskedStatuses : SetTokenStatus(k, t, status)
    BY <1>5
  <2> status \in Statuses
    BY PaymentAssumption
  <2> DEFINE token == [state.token[t] EXCEPT !.status = status]
  <2>1. Issued(state, t) /\ state' = set_token(state, t, token) /\ inflated' = inflated
    BY DEF SetTokenStatus
  <2>2. token \in Token
    BY <1>2, <2>1 DEF Token
  <2>3. token = [state.token[t] EXCEPT !.status = status]
    OBVIOUS
  <2> HIDE DEF token
  <2>4. Shaped(state')
    BY <2>1, <2>2, TokensStayShaped
  <2>5. /\ SameAccounts(state', state)
        /\ state'.token = [state.token EXCEPT ![t] = token]
        /\ state'.account_token = state.account_token
    BY <1>1, <2>1, TokenFields
  <2>6. SetAs(t, status)
    BY <2>1, <2>3, <2>5 DEF SetAs
  <2> QED BY <2>4, <2>6 DEF StatusSet
<1> QED BY <1>3, <1>4, <1>5

(* Whoever the holders are, none included.                                 *)
LEMMA HeartbeatKind ==
    ASSUME Shaped(state), NEW receivers \in SUBSET Keys, NEW t \in Tokens, NEW ts \in Times,
           DoHeartbeat(receivers, t, ts)
    PROVE  Shaped(state') /\ Paid
<1>0. DOMAIN state = Parts
  BY DEF Shaped
<1> DEFINE due == Due(t, ts)
           balances == CashAfter(receivers, t, due)
           s == set_balances(state, CASH_TOKEN, balances)
<1>1. /\ MayHeartbeat(receivers, t) /\ due # {} /\ IssuerCanPay(receivers, t, due)
      /\ inflated' = IF state.issuer \in receivers THEN inflated \cup {CASH_TOKEN}
                                                    ELSE inflated
  BY DEF DoHeartbeat
<1>2. PICK events : state' = [s EXCEPT !.transfers = events]
  BY DEF DoHeartbeat
<1>3. \A k \in Keys : balances[k] # None => DOMAIN balances[k] = BalanceFields
  <2> TAKE k \in Keys
  <2>1. \A amount : DOMAIN Credit(get_balance(state, k, CASH_TOKEN), amount) = BalanceFields
    BY CreditIsBalance, TokenAssumption DEF Shaped, get_balance
  <2>2. \/ \E amount : balances[k] = Credit(get_balance(state, k, CASH_TOKEN), amount)
        \/ balances[k] = get_balance(state, k, CASH_TOKEN)
    BY DEF CashAfter
  <2>3. get_balance(state, k, CASH_TOKEN) # None =>
            DOMAIN get_balance(state, k, CASH_TOKEN) = BalanceFields
    BY TokenAssumption DEF Shaped, get_balance
  <2> HIDE DEF balances
  <2> QED BY <2>1, <2>2, <2>3
<1>4. balances = CashAfter(receivers, t, due) /\ due = Due(t, ts)
  OBVIOUS
<1> HIDE DEF balances, due
<1>5. Shaped(s)
  BY <1>3, PaidStaysShaped, TokenAssumption
<1>6. AfterPayment(s, state, CASH_TOKEN, balances)
  BY <1>0, BalancesFields
<1> HIDE DEF s
<1>7. Shaped(state') /\ SameAccounts(state', s) /\ SameHoldings(state', s)
  BY <1>2, <1>5, RecordedStaysShaped
<1>8. AfterPayment(state', state, CASH_TOKEN, balances)
  BY <1>6, <1>7 DEF AfterPayment, SameAccounts, SameRoles, SameHoldings
<1>9. PaidOn(receivers, t, ts)
  BY <1>1, <1>4, <1>8 DEF PaidOn
<1> QED BY <1>7, <1>9 DEF Paid

LEMMA TransferKind ==
    ASSUME Shaped(state), NEW k \in Keys, NEW receiver \in Keys, NEW t \in Tokens,
           NEW amount \in Amounts, NEW ts \in Times,
           DoTransfer(k, receiver, t, amount, ts)
    PROVE  Shaped(state') /\ Transferred
<1>1. /\ MayTransfer(k, receiver, t, amount)
      /\ state' = transfer(state, t, k, receiver, amount, ts)
      /\ inflated' = IF k = receiver THEN inflated \cup {t} ELSE inflated
  BY DEF DoTransfer
<1>2. Shaped(state')
  BY <1>1, TransferStaysShaped
<1>3. AfterTransfer(state', state, t, k, receiver, amount)
  BY <1>1, TransferFields DEF Shaped
<1> QED BY <1>1, <1>2, <1>3 DEF Transferred

LEMMA AttributesKind ==
    ASSUME Shaped(state), NEW k \in Keys, NEW identifiers \in SUBSET Tokens,
           NEW attributes \in Attributes, SetBalanceAttributes(k, identifiers, attributes)
    PROVE  /\ Shaped(state')
           /\ AfterNotes(state', state, k, identifiers, attributes)
           /\ Annotated
<1>1. /\ \A t \in identifiers : Holds(state, k, t)
      /\ state' = set_balance_attributes(state, k, identifiers, attributes)
      /\ inflated' = inflated
  BY DEF SetBalanceAttributes
<1>2. Shaped(state')
  BY <1>1, AnnotatedStaysShaped
<1>3. AfterNotes(state', state, k, identifiers, attributes)
  BY <1>1, AttributesFields DEF Shaped
<1> QED BY <1>1, <1>2, <1>3 DEF Annotated

(* and those that move balances or annotate them.                          *)
LEMMA PaymentStepKinds ==
    ASSUME Shaped(state), PaymentStep
    PROVE  Shaped(state') /\ (Transferred \/ Paid \/ Annotated)
<1>1. CASE \E k, receiver \in Keys, t \in Tokens, amount \in Amounts, ts \in Times :
              DoTransfer(k, receiver, t, amount, ts)
  BY <1>1, TransferKind
<1>2. CASE \E receivers \in (SUBSET Keys) \ {{}}, t \in Tokens, ts \in Times :
              DoHeartbeat(receivers, t, ts)
  BY <1>2, HeartbeatKind
<1>3. CASE \E k \in Keys, identifiers \in SUBSET Tokens, attributes \in Attributes :
              SetBalanceAttributes(k, identifiers, attributes)
  BY <1>3, AttributesKind
<1> QED BY <1>1, <1>2, <1>3 DEF PaymentStep

(* So is every step.                                                       *)
LEMMA EveryStepHasAKind ==
    ASSUME Shaped(state), [Next]_vars
    PROVE  Shaped(state') /\ StepKinds
<1>1. CASE Next
  BY <1>1, AccountStepKinds, TokenStepKinds, PaymentStepKinds DEF Next, StepKinds
<1>2. CASE UNCHANGED vars
  BY <1>2 DEF vars, StepKinds
<1> QED BY <1>1, <1>2

LEMMA StartsShaped == Init => Shaped(state)
BY DEF Init, EmptyState, Shaped, Parts

-----------------------------------------------------------------------------
(* Accounts are never taken away, and who gets a role, a token or a        *)
(* balance has one.                                                        *)

LEMMA StillRegistered ==
    ASSUME NEW s, Shaped(s), AllRegistered(s), NEW u,
           \A k \in Keys : Registered(s, k) => Registered(u, k),
           \A t \in Tokens : Issued(u, t) =>
              \/ Issued(s, t) /\ u.token[t].issuer_pkey = s.token[t].issuer_pkey
              \/ Registered(u, u.token[t].issuer_pkey),
           \A k \in Keys : k \in {u.manager, u.issuer} =>
              k \in {s.manager, s.issuer} \/ Registered(u, k),
           \A k \in Keys, t \in Tokens : Holds(u, k, t) => Holds(s, k, t) \/ Registered(u, k)
    PROVE  AllRegistered(u)
<1>1. ASSUME NEW t \in Tokens, Issued(s, t)
      PROVE  s.token[t].issuer_pkey \in Keys
  BY <1>1 DEF Shaped, Issued, Token
<1> QED BY <1>1 DEF AllRegistered

LEMMA AccountsStayRegistered ==
    ASSUME NEW k \in Keys, NEW e \in SUBSET EndorsementKeys, Shaped(state),
           state'.account = [state.account EXCEPT ![k] = e]
    PROVE  /\ Registered(state', k)
           /\ \A x \in Keys : Registered(state, x) => Registered(state', x)
BY NoneAssumption DEF Registered, Shaped

LEMMA RolesAreRegistered ==
    ASSUME Shaped(state), AllRegistered(state)
    PROVE  /\ \A k \in Keys : IsManager(k) => Registered(state, k)
           /\ state.issuer # None => state.issuer \in Keys /\ Registered(state, state.issuer)
BY DEF Shaped, AllRegistered, IsManager

LEMMA RegisteredStep ==
    ASSUME Shaped(state), AllRegistered(state), StepKinds
    PROVE  AllRegistered(state')
<1>1. CASE AccountsChange
  <2> PICK k \in Keys, e \in SUBSET EndorsementKeys :
          /\ state'.account = [state.account EXCEPT ![k] = e]
          /\ state'.manager \in {state.manager, k}
          /\ state'.issuer = state.issuer
          /\ SameHoldings(state', state)
    BY <1>1 DEF AccountsChange
  <2>1. Registered(state', k) /\ \A x \in Keys : Registered(state, x) => Registered(state', x)
    BY AccountsStayRegistered
  <2> QED BY <2>1, StillRegistered DEF SameHoldings, Issued, Holds, get_balance
<1>2. CASE CashIssued
  <2> PICK k \in Keys, e \in SUBSET EndorsementKeys :
          /\ state'.issuer = k
          /\ state'.manager = state.manager
          /\ state'.account = [state.account EXCEPT ![k] = e]
          /\ state'.token = [state.token EXCEPT ![CASH_TOKEN] = CashToken(k)]
          /\ state'.account_token =
                [state.account_token EXCEPT ![<<k, CASH_TOKEN>>] = Whole(CashToken(k))]
    BY <1>2 DEF CashIssued
  <2>1. Registered(state', k) /\ \A x \in Keys : Registered(state, x) => Registered(state', x)
    BY AccountsStayRegistered
  <2>2. ASSUME NEW t \in Tokens, Issued(state', t)
        PROVE  \/ Issued(state, t) /\ state'.token[t].issuer_pkey = state.token[t].issuer_pkey
               \/ Registered(state', state'.token[t].issuer_pkey)
    BY <2>1, <2>2 DEF Shaped, Issued, CashToken
  <2>3. ASSUME NEW x \in Keys, NEW t \in Tokens, Holds(state', x, t)
        PROVE  Holds(state, x, t) \/ Registered(state', x)
    BY <2>1, <2>3 DEF Shaped, Holds, get_balance
  <2> QED BY <2>1, <2>2, <2>3, StillRegistered
<1>3. CASE TokenIssued
  <2> PICK k \in Keys, v \in Tokens, token \in Token : IssuedAs(k, v, token)
    BY <1>3 DEF TokenIssued
  <2>1. /\ \A x : Registered(state', x) <=> Registered(state, x)
        /\ Registered(state, k)
    BY RolesAreRegistered DEF IssuedAs, SameAccounts, Registered
  <2>2. ASSUME NEW t \in Tokens, Issued(state', t)
        PROVE  \/ Issued(state, t) /\ state'.token[t].issuer_pkey = state.token[t].issuer_pkey
               \/ Registered(state', state'.token[t].issuer_pkey)
    BY <2>1, <2>2 DEF IssuedAs, Shaped, Issued
  <2>3. ASSUME NEW x \in Keys, NEW t \in Tokens, Holds(state', x, t)
        PROVE  Holds(state, x, t) \/ Registered(state', x)
    BY <2>1, <2>3 DEF IssuedAs, Shaped, Holds, get_balance
  <2>4. state'.manager = state.manager /\ state'.issuer = state.issuer
    BY DEF IssuedAs, SameAccounts, SameRoles
  <2> QED BY <2>1, <2>2, <2>3, <2>4, StillRegistered
<1>4. CASE ImmutablesAdded \/ StatusSet
  <2> DEFINE Rewritten(t, token) ==
            /\ Issued(state, t)
            /\ token.issuer_pkey = state.token[t].issuer_pkey
            /\ SameAccounts(state', state)
            /\ state'.token = [state.token EXCEPT ![t] = token]
            /\ state'.account_token = state.account_token
  <2>1. PICK t \in Tokens : \E token : Rewritten(t, token)
    <3>1. \A t \in Tokens : Issued(state, t) => state.token[t] \in Token
      BY DEF Shaped, Issued
    <3>2. CASE ImmutablesAdded
      <4> PICK k \in Keys, t \in Tokens, new \in ImmutablesLists : AddedAs(k, t, new)
        BY <3>2 DEF ImmutablesAdded
      <4> DEFINE token == [state.token[t] EXCEPT !.immutables = new \o @, !.status = "ACTIVE"]
      <4>1. Issued(state, t)
        BY DEF AddedAs, MayAddImmutables, Active
      <4>2. token.issuer_pkey = state.token[t].issuer_pkey
        BY <3>1, <4>1 DEF Token
      <4> QED BY <4>1, <4>2 DEF AddedAs
    <3>3. CASE StatusSet
      <4> PICK t \in Tokens, status \in Statuses : SetAs(t, status)
        BY <3>3 DEF StatusSet
      <4> DEFINE token == [state.token[t] EXCEPT !.status = status]
      <4>1. Issued(state, t)
        BY DEF SetAs
      <4>2. token.issuer_pkey = state.token[t].issuer_pkey
        BY <3>1, <4>1 DEF Token
      <4> QED BY <4>1, <4>2 DEF SetAs
    <3> QED BY <1>4, <3>2, <3>3
  <2> PICK token : Rewritten(t, token)
    BY <2>1
  <2>2. ASSUME NEW v \in Tokens, Issued(state', v)
        PROVE  Issued(state, v) /\ state'.token[v].issuer_pkey = state.token[v].issuer_pkey
    BY <2>2 DEF Shaped, Issued
  <2>3. /\ \A x : Registered(state', x) <=> Registered(state, x)
        /\ \A x \in Keys, v \in Tokens : Holds(state', x, v) <=> Holds(state, x, v)
        /\ state'.manager = state.manager /\ state'.issuer = state.issuer
    BY DEF SameAccounts, SameRoles, Registered, Holds, get_balance
  <2> QED BY <2>2, <2>3, StillRegistered
<1>5. ASSUME SameAccounts(state', state), state'.token = state.token,
             \A k \in Keys, t \in Tokens :
                Holds(state', k, t) => Holds(state, k, t) \/ Registered(state, k)
      PROVE  AllRegistered(state')
  <2>1. /\ \A x : Registered(state', x) <=> Registered(state, x)
        /\ \A t \in Tokens : Issued(state', t) <=> Issued(state, t)
        /\ state'.manager = state.manager /\ state'.issuer = state.issuer
    BY <1>5 DEF SameAccounts, SameRoles, Registered, Issued
  <2> QED BY <1>5, <2>1, StillRegistered
<1>6. CASE Transferred
  <2> PICK k \in Keys, receiver \in Keys, t \in Tokens, amount \in Amounts :
          /\ MayTransfer(k, receiver, t, amount)
          /\ AfterTransfer(state', state, t, k, receiver, amount)
    BY <1>6 DEF Transferred
  <2>1. Registered(state, k) /\ Registered(state, receiver)
    BY DEF MayTransfer
  <2>2. ASSUME NEW x \in Keys, NEW v \in Tokens, Holds(state', x, v)
        PROVE  Holds(state, x, v) \/ Registered(state, x)
    BY <2>1, <2>2 DEF AfterTransfer, Shaped, Holds, get_balance
  <2> QED BY <1>5, <2>2 DEF AfterTransfer
<1>7. CASE Paid
  <2> PICK receivers \in SUBSET Keys, t \in Tokens :
          /\ MayHeartbeat(receivers, t)
          /\ \E due : AfterPayment(state', state, CASH_TOKEN, CashAfter(receivers, t, due))
    BY <1>7 DEF Paid, PaidOn
  <2> PICK due : AfterPayment(state', state, CASH_TOKEN, CashAfter(receivers, t, due))
    OBVIOUS
  <2>1. /\ Registered(state, state.issuer)
        /\ \A r \in receivers : Registered(state, r)
    BY RolesAreRegistered DEF MayHeartbeat
  <2>2. ASSUME NEW x \in Keys, ~Registered(state, x)
        PROVE  CashAfter(receivers, t, due)[x] = get_balance(state, x, CASH_TOKEN)
    BY <2>1, <2>2 DEF CashAfter
  <2>3. ASSUME NEW x \in Keys, NEW v \in Tokens, Holds(state', x, v), ~Registered(state, x)
        PROVE  Holds(state, x, v)
    <3> DEFINE balances == CashAfter(receivers, t, due)
    <3>1. balances[x] = get_balance(state, x, CASH_TOKEN)
      BY <2>2, <2>3
    <3> HIDE DEF balances
    <3>2. AfterPayment(state', state, CASH_TOKEN, balances)
      BY DEF balances
    <3> QED BY <2>3, <3>1, <3>2 DEF AfterPayment, Holds, get_balance
  <2> QED BY <1>5, <2>3 DEF AfterPayment
<1>8. CASE Annotated
  <2> PICK k \in Keys, identifiers \in SUBSET Tokens, attributes \in Attributes :
          /\ \A t \in identifiers : Holds(state, k, t)
          /\ AfterNotes(state', state, k, identifiers, attributes)
    BY <1>8 DEF Annotated
  <2>1. ASSUME NEW x \in Keys, NEW v \in Tokens, Holds(state', x, v)
        PROVE  Holds(state, x, v)
    BY <2>1 DEF AfterNotes, Holds, get_balance
  <2> QED BY <1>5, <2>1 DEF AfterNotes
<1>9. CASE UNCHANGED vars
  BY <1>9 DEF vars
<1> QED BY <1>1, <1>2, <1>3, <1>4, <1>6, <1>7, <1>8, <1>9 DEF StepKinds

(* Tokens, roles and balances belong to registered accounts.               *)
THEOREM Registration == Spec => []HoldersRegistered
<1> DEFINE Inv == Shaped(state) /\ AllRegistered(state)
<1>1. Init => Inv
  <2> SUFFICES ASSUME Init PROVE AllRegistered(state)
    BY StartsShaped
  <2>1. ASSUME NEW k \in Keys PROVE k # None
    BY NoneAssumption
  <2> QED BY <2>1 DEF Init, EmptyState, AllRegistered, Issued, Holds, get_balance
<1>2. Inv /\ [Next]_vars => Inv'
  <2> SUFFICES ASSUME Shaped(state), AllRegistered(state), [Next]_vars
               PROVE  Shaped(state') /\ AllRegistered(state')
    OBVIOUS
  <2> QED BY EveryStepHasAKind, RegisteredStep
<1>3. Inv => HoldersRegistered
  BY DEF HoldersRegistered
<1> QED BY <1>1, <1>2, <1>3, PTL DEF Spec

-----------------------------------------------------------------------------
(* What steps do to a token, read off their kinds.                         *)

(* Most kinds of steps leave all tokens as they are.                       *)
LEMMA TokensChangeByKind ==
    ASSUME StepKinds
    PROVE  \/ state'.token = state.token
           \/ CashIssued \/ TokenIssued \/ ImmutablesAdded \/ StatusSet
BY DEF StepKinds, AccountsChange, Transferred, Paid, PaidOn, Annotated,
       SameHoldings, AfterTransfer, AfterPayment, AfterNotes, vars

(* A token that is INACTIVE stays where it is.                             *)
LEMMA FrozenStep ==
    ASSUME Shaped(state), StepKinds, NEW t \in Tokens,
           Issued(state, t), ~Active(t), ~Active(t)',
           NEW k \in Keys, Holds(state', k, t)
    PROVE  /\ Holds(state, k, t)
           /\ get_balance(state', k, t).amount = get_balance(state, k, t).amount
<1> SUFFICES \/ state'.account_token[<<k, t>>] = state.account_token[<<k, t>>]
             \/ /\ Holds(state, k, t)
                /\ get_balance(state', k, t).amount = get_balance(state, k, t).amount
  BY DEF Holds, get_balance
<1>1. CASE \/ AccountsChange \/ ImmutablesAdded \/ StatusSet
           \/ UNCHANGED vars
  BY <1>1 DEF vars, AccountsChange, ImmutablesAdded, StatusSet, AddedAs, SetAs, SameHoldings
<1>2. CASE CashIssued
  <2>1. t # CASH_TOKEN
    <3> SUFFICES ASSUME t = CASH_TOKEN PROVE FALSE
      OBVIOUS
    <3>1. PICK issuer \in Keys : state'.token[t] = CashToken(issuer)
      BY <1>2 DEF CashIssued, Shaped
    <3>2. CashToken(issuer) \in Token /\ CashToken(issuer).status = "ACTIVE"
      BY PaymentAssumption DEF CashToken, Token, Statuses
    <3>3. Active(t)'
      BY <3>1, <3>2, NoneAssumption DEF Active, Issued
    <3> QED BY <3>3
  <2> QED BY <1>2, <2>1 DEF CashIssued, Shaped
<1>3. CASE TokenIssued
  BY <1>3 DEF TokenIssued, IssuedAs, Shaped
<1>4. CASE Transferred
  BY <1>4 DEF Transferred, MayTransfer, AfterTransfer, Shaped
<1>5. CASE Paid
  <2> PICK receivers \in SUBSET Keys, v \in Tokens :
          /\ MayHeartbeat(receivers, v)
          /\ \E due : AfterPayment(state', state, CASH_TOKEN, CashAfter(receivers, v, due))
    BY <1>5 DEF Paid, PaidOn
  <2> PICK due : AfterPayment(state', state, CASH_TOKEN, CashAfter(receivers, v, due))
    OBVIOUS
  <2>1. t # CASH_TOKEN
    BY DEF MayHeartbeat
  <2> DEFINE balances == CashAfter(receivers, v, due)
  <2> HIDE DEF balances
  <2>2. AfterPayment(state', state, CASH_TOKEN, balances)
    BY DEF balances
  <2> QED BY <2>1, <2>2 DEF AfterPayment
<1>6. CASE Annotated
  <2> PICK x \in Keys, identifiers \in SUBSET Tokens, attributes \in Attributes :
          /\ \A v \in identifiers : Holds(state, x, v)
          /\ AfterNotes(state', state, x, identifiers, attributes)
    BY <1>6 DEF Annotated
  <2>1. CASE k = x /\ t \in identifiers
    <3>1. Holds(state, k, t)
      BY <2>1
    <3>2. "amount" \in DOMAIN get_balance(state, k, t)
      BY <3>1 DEF Shaped, Holds, get_balance, BalanceFields
    <3>3. get_balance(state', k, t) = [get_balance(state, k, t) EXCEPT !.attributes = attributes]
      BY <2>1 DEF AfterNotes, get_balance
    <3> QED BY <3>1, <3>2, <3>3
  <2>2. CASE ~(k = x /\ t \in identifiers)
    BY <2>2 DEF AfterNotes
  <2> QED BY <2>1, <2>2
<1> QED BY <1>1, <1>2, <1>3, <1>4, <1>5, <1>6 DEF StepKinds

(* A token comes back from INACTIVE by a change of its status alone.       *)
LEMMA ReactivationStep ==
    ASSUME Shaped(state), StepKinds, NEW t \in Tokens,
           Issued(state, t), ~Active(t), Active(t)', state'.issuer = state.issuer
    PROVE  state' = set_token(state, t, [state.token[t] EXCEPT
                                             !.status = state'.token[t].status])
<1>1. state'.token[t] # state.token[t]
  BY DEF Active, Issued
<1>2. state.token[t] \in Token
  BY DEF Shaped, Issued
<1>3. ~CashIssued
  BY NoneAssumption DEF CashIssued
<1>4. ~TokenIssued
  BY <1>1 DEF TokenIssued, IssuedAs, Shaped
<1>5. ~ImmutablesAdded
  BY <1>1 DEF ImmutablesAdded, AddedAs, MayAddImmutables, Shaped
<1>6. StatusSet
  BY <1>1, <1>3, <1>4, <1>5, TokensChangeByKind
<1> PICK v \in Tokens, status \in Statuses : SetAs(v, status)
  BY <1>6 DEF StatusSet
<1>7. v = t
  BY <1>1 DEF SetAs, Shaped
<1>8. state'.token[t].status = status
  BY <1>2, <1>7 DEF SetAs, Shaped, Token
<1> QED BY <1>7, <1>8 DEF SetAs

(* Immutables put before others under different keys only narrow who may   *)
(* receive the token.                                                      *)
LEMMA PrependingNarrows ==
    ASSUME NEW token \in Token, NEW new \in Seq(Immutable), NEW later \in Token,
           NoDuplicates(new, token.immutables),
           later.immutables = new \o token.immutables,
           later.transferendorsement = token.transferendorsement,
           NEW endorsement, detectTransferRestriction(endorsement, later)
    PROVE  detectTransferRestriction(endorsement, token)
<1> DEFINE old == token.immutables
           n == Len(new)
<1>1. old \in Seq(Immutable) /\ n \in Nat
  BY DEF Token
<1>2. DOMAIN old = 1..Len(old) /\ DOMAIN new = 1..n /\ Len(old) \in Nat
  BY <1>1
<1>3. /\ DOMAIN later.immutables = 1..(n + Len(old))
      /\ \A i \in 1..n : later.immutables[i] = new[i]
      /\ \A i \in 1..Len(old) : later.immutables[n + i] = old[i]
  BY <1>1
<1>4. CASE \E i \in DOMAIN new : new[i].key = "endorsement"
  <2>1. EndorsementRules(token) = {}
    BY <1>4 DEF NoDuplicates, EndorsementRules
  <2> QED BY <2>1 DEF detectTransferRestriction
<1>5. CASE ~ \E i \in DOMAIN new : new[i].key = "endorsement"
  <2>1. ASSUME NEW i \in EndorsementRules(later)
        PROVE  /\ i - n \in EndorsementRules(token)
               /\ later.immutables[i] = old[i - n]
    <3>1. i \in 1..(n + Len(old)) /\ later.immutables[i].key = "endorsement"
      BY <1>3, <2>1 DEF EndorsementRules
    <3>2. i > n
      BY <1>2, <1>3, <1>5, <3>1
    <3>3. i - n \in 1..Len(old) /\ later.immutables[n + (i - n)] = old[i - n]
      BY <1>1, <1>2, <1>3, <3>1, <3>2
    <3>4. n + (i - n) = i
      BY <1>1, <3>1
    <3> QED BY <1>2, <3>1, <3>3, <3>4 DEF EndorsementRules
  <2>2. ASSUME NEW i \in EndorsementRules(token)
        PROVE  /\ i \in Int
               /\ n + i \in EndorsementRules(later)
    <3>1. i \in 1..Len(old) /\ old[i].key = "endorsement"
      BY <1>2, <2>2 DEF EndorsementRules
    <3>2. n + i \in 1..(n + Len(old))
      BY <1>1, <1>2, <3>1
    <3> QED BY <1>3, <3>1, <3>2 DEF EndorsementRules
  <2>3. "blacklist" \notin endorsement
    BY DEF detectTransferRestriction
  <2>4. CASE \/ later.transferendorsement \/ "whitelist" \in endorsement
    BY <2>3, <2>4 DEF detectTransferRestriction
  <2>5. CASE EndorsementRules(later) = {}
    <3>1. EndorsementRules(token) = {}
      BY <2>2, <2>5
    <3> QED BY <2>3, <3>1 DEF detectTransferRestriction
  <2>6. CASE \E i \in EndorsementRules(later) : later.immutables[i].value = {}
    BY <2>1, <2>3, <2>6 DEF detectTransferRestriction
  <2>7. CASE \E i \in EndorsementRules(later) :
                /\ \A j \in EndorsementRules(later) : i <= j
                /\ later.immutables[i].value \cap endorsement # {}
    <3> PICK i \in EndorsementRules(later) :
            /\ \A j \in EndorsementRules(later) : i <= j
            /\ later.immutables[i].value \cap endorsement # {}
      BY <2>7
    <3>1. i \in Int
      BY <1>3 DEF EndorsementRules
    <3>2. i - n \in EndorsementRules(token) /\ old[i - n].value \cap endorsement # {}
      BY <2>1
    <3>3. ASSUME NEW j \in EndorsementRules(token) PROVE i - n <= j
      <4>1. i <= n + j /\ j \in Int
        BY <2>2
      <4> QED BY <1>1, <3>1, <4>1
    <3> QED BY <2>3, <3>2, <3>3 DEF detectTransferRestriction
  <2> QED BY <2>4, <2>5, <2>6, <2>7 DEF detectTransferRestriction
<1> QED BY <1>4, <1>5

LEMMA ReceiversStep ==
    ASSUME Shaped(state), StepKinds, NEW k \in Keys, NEW t \in Tokens,
           state'.account[k] = state.account[k],
           Issued(state, t), state'.issuer = state.issuer,
           detectTransferRestriction(state'.account[k], state'.token[t])
    PROVE  detectTransferRestriction(state.account[k], state.token[t])
<1>1. state.token[t] \in Token
  BY DEF Shaped, Issued
<1>2. CASE state'.token[t] = state.token[t]
  BY <1>2
<1>3. CASE state'.token[t] # state.token[t]
  <2>1. ~CashIssued /\ ~TokenIssued
    BY <1>3, NoneAssumption DEF CashIssued, TokenIssued, IssuedAs, Shaped
  <2>2. CASE ImmutablesAdded
    <3> PICK x \in Keys, v \in Tokens, new \in ImmutablesLists : AddedAs(x, v, new)
      BY <2>2 DEF ImmutablesAdded
    <3>1. v = t /\ NoDuplicates(new, state.token[t].immutables)
      BY <1>3 DEF AddedAs, MayAddImmutables, Shaped
    <3>2. state'.token[t] = [state.token[t] EXCEPT !.immutables = new \o @, !.status = "ACTIVE"]
      BY <3>1 DEF AddedAs, Shaped
    <3>3. new \in Seq(Immutable) /\ state.token[t].immutables \in Seq(Immutable)
      BY <1>1, PaymentAssumption DEF Token
    <3>4. new \o state.token[t].immutables \in Seq(Immutable)
      BY <3>3
    <3>5. state'.token[t] \in Token
      BY <1>1, <3>2, <3>4 DEF Token, Statuses
    <3>6. /\ state'.token[t].immutables = new \o state.token[t].immutables
          /\ state'.token[t].transferendorsement = state.token[t].transferendorsement
      BY <1>1, <3>2 DEF Token
    <3> QED BY <1>1, <3>1, <3>3, <3>5, <3>6, PrependingNarrows
  <2>3. CASE StatusSet
    <3> PICK v \in Tokens, status \in Statuses : SetAs(v, status)
      BY <2>3 DEF StatusSet
    <3>1. state'.token[t] = [state.token[t] EXCEPT !.status = status]
      BY <1>3 DEF SetAs, Shaped
    <3>2. /\ state'.token[t].immutables = state.token[t].immutables
          /\ state'.token[t].transferendorsement = state.token[t].transferendorsement
      BY <1>1, <3>1 DEF Token
    <3> QED BY <3>2 DEF detectTransferRestriction, EndorsementRules
  <2> QED BY <1>3, <2>1, <2>2, <2>3, TokensChangeByKind
<1> QED BY <1>2, <1>3

-----------------------------------------------------------------------------

LEMMA AlwaysShaped == Spec => []Shaped(state)
<1>1. Shaped(state) /\ [Next]_vars => Shaped(state)'
  <2> SUFFICES ASSUME Shaped(state), [Next]_vars PROVE Shaped(state')
    OBVIOUS
  <2> QED BY EveryStepHasAKind
<1> QED BY <1>1, StartsShaped, PTL DEF Spec

(* A token that is INACTIVE stays where it is, the Cash Token that pays    *)
(* for another one included.                                               *)
THEOREM Freezing == Spec => FrozenWhileInactive
<1> DEFINE Frozen ==
        \A t \in Tokens :
            Issued(state, t) /\ ~Active(t) /\ ~Active(t)' =>
                \A k \in Keys : Holds(state', k, t) =>
                    /\ Holds(state, k, t)
                    /\ get_balance(state', k, t).amount = get_balance(state, k, t).amount
<1>1. Shaped(state) /\ [Next]_vars => [Frozen]_vars
  <2> SUFFICES ASSUME Shaped(state), [Next]_vars PROVE Frozen
    OBVIOUS
  <2> QED BY EveryStepHasAKind, FrozenStep
<1> QED BY <1>1, AlwaysShaped, PTL DEF Spec, FrozenWhileInactive

(* A token comes back from INACTIVE by set_token_status alone, which does  *)
(* nothing else.                                                           *)
THEOREM Reactivation == Spec => ReactivationDoesNothingElse
<1> DEFINE Alone ==
        \A t \in Tokens :
            Issued(state, t) /\ ~Active(t) /\ Active(t)' /\ state'.issuer = state.issuer =>
                state' = set_token(state, t, [state.token[t] EXCEPT
                                                  !.status = state'.token[t].status])
<1>1. Shaped(state) /\ [Next]_vars => [Alone]_vars
  <2> SUFFICES ASSUME Shaped(state), [Next]_vars PROVE Alone
    OBVIOUS
  <2> QED BY EveryStepHasAKind, ReactivationStep
<1> QED BY <1>1, AlwaysShaped, PTL DEF Spec, ReactivationDoesNothingElse

(* Immutables only narrow who may receive a token.                         *)
THEOREM Narrowing == Spec => ReceiversNarrow
<1> DEFINE Narrow ==
        \A k \in Keys, t \in Tokens :
            /\ Registered(state, k)
            /\ state'.account[k] = state.account[k]
            /\ Issued(state, t)
            /\ state'.issuer = state.issuer
            /\ detectTransferRestriction(state'.account[k], state'.token[t])
            => detectTransferRestriction(state.account[k], state.token[t])
<1>1. Shaped(state) /\ [Next]_vars => [Narrow]_vars
  <2> SUFFICES ASSUME Shaped(state), [Next]_vars PROVE Narrow
    OBVIOUS
  <2> QED BY EveryStepHasAKind, ReceiversStep
<1> QED BY <1>1, AlwaysShaped, PTL DEF Spec, ReceiversNarrow

-----------------------------------------------------------------------------
(* Operations keep the state among the states.                             *)

(* Types of what each operation leaves.                                    *)
LEMMA AccountTypes ==
    ASSUME NEW s \in TokenStates, NEW k \in Keys, NEW e \in SUBSET EndorsementKeys
    PROVE  /\ set_manager(s, k, e) \in TokenStates
           /\ set_issuer(s, k, e) \in TokenStates
           /\ set_account(s, k, e) \in TokenStates
<1>1. s.account \in [Keys -> (SUBSET EndorsementKeys) \cup {None}]
  BY DEF TokenStates
<1>2. [s.account EXCEPT ![k] = e] \in [Keys -> (SUBSET EndorsementKeys) \cup {None}]
  BY <1>1
<1>3. set_manager(s, k, e) = [s EXCEPT !.account = [s.account EXCEPT ![k] = e], !.manager = k]
  BY DEF TokenStates, set_manager
<1>4. set_issuer(s, k, e) = [s EXCEPT !.account = [s.account EXCEPT ![k] = e], !.issuer = k]
  BY DEF TokenStates, set_issuer
<1>5. set_account(s, k, e) = [s EXCEPT !.account = [s.account EXCEPT ![k] = e]]
  BY DEF TokenStates, set_account
<1> DEFINE account == [s.account EXCEPT ![k] = e]
<1> HIDE DEF account
<1>6. account \in [Keys -> (SUBSET EndorsementKeys) \cup {None}]
  BY <1>2 DEF account
<1>7. /\ set_manager(s, k, e) = [s EXCEPT !.account = account, !.manager = k]
      /\ set_issuer(s, k, e) = [s EXCEPT !.account = account, !.issuer = k]
      /\ set_account(s, k, e) = [s EXCEPT !.account = account]
  BY <1>3, <1>4, <1>5 DEF account
<1> QED BY <1>6, <1>7 DEF TokenStates

LEMMA SetTokenType ==
    ASSUME NEW s \in TokenStates, NEW t \in Tokens, NEW token \in Token
    PROVE  set_token(s, t, token) \in TokenStates
<1> DEFINE tokens == [s.token EXCEPT ![t] = token]
<1>1. tokens \in [Tokens -> Token \cup {None}]
  BY DEF TokenStates
<1>2. set_token(s, t, token) = [s EXCEPT !.token = tokens]
  BY DEF TokenStates, set_token
<1> HIDE DEF tokens
<1> QED BY <1>1, <1>2 DEF TokenStates

(* Both copies of the balances, and what else belongs to them.             *)
WithHoldings(s, tokens, balances, copies, transfers) ==
    [s EXCEPT !.token = tokens, !.account_token = balances,
              !.token_account = copies, !.transfers = transfers]

TokenFunctions == [Tokens -> Token \cup {None}]
BalanceFunctions == [Keys \X Tokens -> Balance \cup {None}]
CopyFunctions == [Tokens \X Keys -> Balance \cup {None}]
TransferSets == SUBSET Transfer

LEMMA HoldingsType ==
    ASSUME NEW s \in TokenStates,
           NEW tokens \in TokenFunctions, NEW balances \in BalanceFunctions,
           NEW copies \in CopyFunctions, NEW transfers \in TransferSets
    PROVE  WithHoldings(s, tokens, balances, copies, transfers) \in TokenStates
BY DEF TokenStates, WithHoldings, TokenFunctions, BalanceFunctions, CopyFunctions, TransferSets

LEMMA IssueType ==
    ASSUME NEW s \in TokenStates, NEW t \in Tokens, NEW token \in Token
    PROVE  issue_token(s, t, token) \in TokenStates
<1> DEFINE tokens == [s.token EXCEPT ![t] = token]
           balance == [amount |-> token.total_supply, attributes |-> NoAttributes]
           balances == [s.account_token EXCEPT ![<<token.issuer_pkey, t>>] = balance]
           copies == [s.token_account EXCEPT ![<<t, token.issuer_pkey>>] = balance]
<1>1. tokens \in TokenFunctions
  BY DEF TokenFunctions, TokenStates
<1>2. balance \in Balance /\ token.issuer_pkey \in Keys
  BY TokenAssumption DEF Token, Balance
<1>3. issue_token(s, t, token) =
          WithHoldings(s, tokens, balances, copies, s.transfers)
  BY DEF TokenStates, WithHoldings, issue_token
<1> HIDE DEF balance
<1>4. balances \in BalanceFunctions
  BY <1>2 DEF BalanceFunctions, TokenStates
<1>5. copies \in CopyFunctions
  BY <1>2 DEF CopyFunctions, TokenStates
<1>6. s.transfers \in TransferSets
  BY DEF TransferSets, TokenStates
<1> HIDE DEF tokens, balances, copies
<1> QED BY <1>1, <1>3, <1>4, <1>5, <1>6, HoldingsType

LEMMA CreditType ==
    ASSUME NEW balance \in Balance \cup {None}, NEW amount \in Int
    PROVE  Credit(balance, amount) \in Balance
<1>1. CASE balance = None
  BY <1>1, TokenAssumption DEF Credit, Balance
<1>2. CASE balance # None
  BY <1>2 DEF Credit, Balance
<1> QED BY <1>1, <1>2

LEMMA BalanceType ==
    ASSUME NEW s \in TokenStates, NEW k \in Keys, NEW t \in Tokens
    PROVE  /\ get_balance(s, k, t) \in Balance \cup {None}
           /\ Holds(s, k, t) => get_balance(s, k, t) \in Balance
BY DEF TokenStates, get_balance, Holds

LEMMA TransferType ==
    ASSUME NEW s \in TokenStates, NEW t \in Tokens, NEW sender \in Keys, NEW receiver \in Keys,
           NEW amount \in Int, NEW ts \in Times
    PROVE  transfer(s, t, sender, receiver, amount, ts) \in TokenStates
<1> DEFINE debited == Credit(get_balance(s, sender, t), -amount)
           credited == Credit(get_balance(s, receiver, t), amount)
           balances == [s.account_token EXCEPT ![<<sender, t>>] = debited,
                                               ![<<receiver, t>>] = credited]
           copies == [s.token_account EXCEPT ![<<t, sender>>] = debited,
                                             ![<<t, receiver>>] = credited]
           e == [token         |-> t,
                 sender_pkey   |-> sender,
                 receiver_pkey |-> receiver,
                 date          |-> ts,
                 amount        |-> amount]
<1>1. debited \in Balance /\ credited \in Balance
  <2>1. /\ get_balance(s, sender, t) \in Balance \cup {None}
        /\ get_balance(s, receiver, t) \in Balance \cup {None}
        /\ -amount \in Int
    BY BalanceType
  <2> QED BY <2>1, CreditType
<1> HIDE DEF debited, credited
<1>2. balances \in BalanceFunctions
  BY <1>1 DEF BalanceFunctions, TokenStates
<1>3. copies \in CopyFunctions
  BY <1>1 DEF CopyFunctions, TokenStates
<1>4. AddTransfer(s.transfers, e) \in TransferSets
  BY DEF TransferSets, AddTransfer, Transfer, TokenStates
<1>5. s.token \in TokenFunctions
  BY DEF TokenFunctions, TokenStates
<1>6. transfer(s, t, sender, receiver, amount, ts) =
          WithHoldings(s, s.token, balances, copies, AddTransfer(s.transfers, e))
  BY DEF TokenStates, WithHoldings, transfer, debited, credited
<1> HIDE DEF balances, copies, e
<1> QED BY <1>2, <1>3, <1>4, <1>5, <1>6, HoldingsType

LEMMA BalancesType ==
    ASSUME NEW s \in TokenStates, NEW t \in Tokens, NEW new,
           \A k \in Keys : new[k] \in Balance \cup {None},
           NEW transfers \in TransferSets
    PROVE  [set_balances(s, t, new) EXCEPT !.transfers = transfers] \in TokenStates
<1> DEFINE balances == [b \in Keys \X Tokens |->
                           IF b[2] = t THEN new[b[1]] ELSE s.account_token[b]]
           copies == [b \in Tokens \X Keys |->
                           IF b[1] = t THEN new[b[2]] ELSE s.token_account[b]]
<1>1. balances \in BalanceFunctions
  BY DEF BalanceFunctions, TokenStates
<1>2. copies \in CopyFunctions
  BY DEF CopyFunctions, TokenStates
<1>3. s.token \in TokenFunctions
  BY DEF TokenFunctions, TokenStates
<1>4. [set_balances(s, t, new) EXCEPT !.transfers = transfers] =
          WithHoldings(s, s.token, balances, copies, transfers)
  BY DEF TokenStates, WithHoldings, set_balances
<1> HIDE DEF balances, copies
<1> QED BY <1>1, <1>2, <1>3, <1>4, HoldingsType

LEMMA AttributesType ==
    ASSUME NEW s \in TokenStates, NEW k \in Keys, NEW identifiers \in SUBSET Tokens,
           NEW attributes \in Attributes, \A t \in identifiers : Holds(s, k, t)
    PROVE  set_balance_attributes(s, k, identifiers, attributes) \in TokenStates
<1> DEFINE Marked(t) == [get_balance(s, k, t) EXCEPT !.attributes = attributes]
           balances == [b \in Keys \X Tokens |->
              IF b[1] = k /\ b[2] \in identifiers THEN Marked(b[2]) ELSE s.account_token[b]]
           copies == [b \in Tokens \X Keys |->
              IF b[2] = k /\ b[1] \in identifiers THEN Marked(b[1]) ELSE s.token_account[b]]
<1>1. ASSUME NEW t \in identifiers PROVE Marked(t) \in Balance
  <2>1. get_balance(s, k, t) \in Balance
    BY BalanceType
  <2> QED BY <2>1 DEF Balance
<1>2. set_balance_attributes(s, k, identifiers, attributes) =
          WithHoldings(s, s.token, balances, copies, s.transfers)
  BY DEF TokenStates, WithHoldings, set_balance_attributes
<1>3. s.transfers \in TransferSets /\ s.token \in TokenFunctions
  BY DEF TransferSets, TokenFunctions, TokenStates
<1> HIDE DEF Marked
<1>4. balances \in BalanceFunctions
  BY <1>1 DEF BalanceFunctions, TokenStates
<1>5. copies \in CopyFunctions
  BY <1>1 DEF CopyFunctions, TokenStates
<1> HIDE DEF balances, copies
<1> QED BY <1>2, <1>3, <1>4, <1>5, HoldingsType

-----------------------------------------------------------------------------
(* What a heartbeat pays *)

(* A token that is issued, with its promises, in a state of the right type.*)
LEMMA IssuedType ==
    ASSUME state \in TokenStates, NEW t \in Tokens, Issued(state, t)
    PROVE  state.token[t] \in Token
BY DEF TokenStates, Issued

(* The payments that fall due are finitely many numbers.                   *)
LEMMA DueType ==
    ASSUME state \in TokenStates, NEW t \in Tokens, Issued(state, t), NEW ts
    PROVE  /\ IsFiniteSet(Due(t, ts))
           /\ \A i \in Due(t, ts) : i \in Int
           /\ \A i \in Due(t, ts) : state.token[t].payments[i] \in Payment
           /\ Due(t, ts) # {} => Max(Due(t, ts)) \in Due(t, ts)
           /\ \A i \in Due(t, ts) : Max(Due(t, ts)) >= i
<1> DEFINE payments == state.token[t].payments
<1>1. payments \in Seq(Payment)
  BY IssuedType DEF Token
<1>2. /\ DOMAIN payments = 1..Len(payments) /\ Len(payments) \in Nat
      /\ \A i \in DOMAIN payments : payments[i] \in Payment
  BY <1>1
<1>3. Due(t, ts) \subseteq 1..Len(payments)
  BY <1>2 DEF Due
<1>4. IsFiniteSet(1..Len(payments))
  BY <1>2, FS_Interval
<1>5. IsFiniteSet(Due(t, ts))
  BY <1>3, <1>4, FS_Subset
<1>6. \A i \in Due(t, ts) : i \in Int
  BY <1>2, <1>3
<1>7. Due(t, ts) # {} => \E m \in Due(t, ts) : \A i \in Due(t, ts) : m >= i
  BY <1>5, <1>6, HasGreatest
<1>8. Due(t, ts) # {} =>
          /\ Max(Due(t, ts)) \in Due(t, ts)
          /\ \A i \in Due(t, ts) : Max(Due(t, ts)) >= i
  <2> HIDE DEF payments
  <2> QED BY <1>7 DEF Max
<1> QED BY <1>2, <1>3, <1>5, <1>6, <1>8

LEMMA ShareType ==
    ASSUME state \in TokenStates, NEW t \in Tokens, Issued(state, t), NEW ts,
           NEW i \in Due(t, ts), NEW r \in Keys, Holds(state, r, t)
    PROVE  Share(t, i, r) \in Int
<1> DEFINE amount == get_balance(state, r, t).amount
           payment == state.token[t].payments[i].amount
           supply == state.token[t].total_supply
<1>1. amount \in Int
  BY BalanceType DEF Balance
<1>2. payment \in Int
  BY DueType DEF Payment
<1>3. supply \in Nat \ {0}
  BY IssuedType DEF Token
<1>4. Share(t, i, r) = (amount * payment) \div supply
  BY DEF Share
<1> HIDE DEF amount, payment, supply
<1>5. amount * payment \in Int
  BY <1>1, <1>2
<1>6. \A x \in Int : x \div supply \in Int
  BY <1>3
<1> QED BY <1>4, <1>5, <1>6

(* The income of a holder and the outlay are sums over what is due.        *)
LEMMA IncomeType ==
    ASSUME state \in TokenStates, NEW t \in Tokens, Issued(state, t), NEW ts,
           NEW due \in SUBSET Due(t, ts), NEW r \in Keys, Holds(state, r, t)
    PROVE  Income(t, due, r) \in Int
<1> DEFINE shares == [i \in due |-> Share(t, i, r)]
<1>1. IsFiniteSet(due)
  BY DueType, FS_Subset
<1>2. \A i \in due : shares[i] \in Int
  BY ShareType
<1>3. Income(t, due, r) = SumFunctionOnSet(shares, due)
  BY DEF Income
<1> HIDE DEF shares
<1> QED BY <1>1, <1>2, <1>3, SumType

(* The sum a heartbeat pays, for any number of holders, is a natural.      *)
LEMMA OutlayType ==
    ASSUME state \in TokenStates, NEW t \in Tokens, Issued(state, t), NEW ts,
           NEW due \in SUBSET Due(t, ts), NEW receivers \in SUBSET Keys,
           \A r \in receivers : Holds(state, r, t)
    PROVE  Outlay(t, due, receivers) \in Int
<1> DEFINE takes == [r \in receivers |-> IF r = state.issuer THEN -Income(t, due, r)
                                                             ELSE Income(t, due, r)]
<1>1. IsFiniteSet(receivers)
  BY TokenAssumption, FS_Subset
<1>2. ASSUME NEW r \in receivers PROVE takes[r] \in Int
  <2>1. Income(t, due, r) \in Int
    BY IncomeType
  <2> QED BY <2>1
<1>3. Outlay(t, due, receivers) = SumFunctionOnSet(takes, receivers)
  BY DEF Outlay
<1> HIDE DEF takes
<1> QED BY <1>1, <1>2, <1>3, SumType

LEMMA CashType ==
    ASSUME state \in TokenStates, NEW t \in Tokens, Issued(state, t), NEW ts,
           NEW receivers \in SUBSET Keys, \A r \in receivers : Holds(state, r, t)
    PROVE  \A k \in Keys :
              CashAfter(receivers, t, Due(t, ts))[k] \in Balance \cup {None}
<1> DEFINE due == Due(t, ts)
           cash(k) == get_balance(state, k, CASH_TOKEN)
<1> TAKE k \in Keys
<1>1. cash(k) \in Balance \cup {None}
  BY BalanceType, TokenAssumption
<1>2. Credit(cash(k), -Outlay(t, due, receivers)) \in Balance
  <2>1. -Outlay(t, due, receivers) \in Int
    BY OutlayType
  <2> QED BY <1>1, <2>1, CreditType
<1>3. k \in receivers => Credit(cash(k), Income(t, due, k)) \in Balance
  <2>1. k \in receivers => Income(t, due, k) \in Int
    BY IncomeType
  <2> QED BY <1>1, <2>1, CreditType
<1>4. CashAfter(receivers, t, due)[k] \in
          {cash(k), Credit(cash(k), -Outlay(t, due, receivers))}
             \cup (IF k \in receivers THEN {Credit(cash(k), Income(t, due, k))} ELSE {})
  BY DEF CashAfter
<1> HIDE DEF cash, due
<1> QED BY <1>1, <1>2, <1>3, <1>4 DEF due

LEMMA PaymentTransfersType ==
    ASSUME state \in TokenStates, NEW t \in Tokens, Issued(state, t), NEW ts \in Times,
           Due(t, ts) # {}, state.issuer # None,
           NEW receivers \in SUBSET Keys, \A r \in receivers : Holds(state, r, t)
    PROVE  PaymentTransfers(state.transfers, receivers, t, Due(t, ts), ts) \in TransferSets
<1> DEFINE due == Due(t, ts)
<1>1. ASSUME NEW r \in receivers PROVE PaymentTransfer(r, t, due, ts) \in Transfer
  <2>1. Share(t, Max(due), r) \in Int
    BY DueType, ShareType
  <2>2. state.issuer \in Keys
    BY DEF TokenStates
  <2> QED BY <2>1, <2>2, TokenAssumption DEF PaymentTransfer, Transfer
<1>2. state.transfers \subseteq Transfer
  BY DEF TokenStates
<1> HIDE DEF due
<1>3. PaymentTransfers(state.transfers, receivers, t, due, ts)
          \subseteq {PaymentTransfer(r, t, due, ts) : r \in receivers} \cup state.transfers
  BY DEF PaymentTransfers
<1>4. PaymentTransfers(state.transfers, receivers, t, due, ts) \subseteq Transfer
  BY <1>1, <1>2, <1>3
<1> QED BY <1>4 DEF due, TransferSets

LEMMA HeartbeatType ==
    ASSUME TypeOK, NEW receivers \in SUBSET Keys, NEW t \in Tokens, NEW ts \in Times,
           DoHeartbeat(receivers, t, ts)
    PROVE  TypeOK'
<1>0. state \in TokenStates /\ inflated \in SUBSET Tokens
  BY DEF TypeOK
<1> DEFINE balances == CashAfter(receivers, t, Due(t, ts))
           transfers == PaymentTransfers(state.transfers, receivers, t, Due(t, ts), ts)
<1>1. /\ Issued(state, t) /\ state.issuer # None /\ Due(t, ts) # {}
      /\ \A r \in receivers : Holds(state, r, t)
  BY DEF DoHeartbeat, MayHeartbeat, Active
<1>2. state' = [set_balances(state, CASH_TOKEN, balances) EXCEPT !.transfers = transfers]
  BY <1>0 DEF DoHeartbeat, set_balances, TokenStates
<1>3. \A k \in Keys : balances[k] \in Balance \cup {None}
  BY <1>0, <1>1, CashType
<1>4. transfers \in TransferSets
  BY <1>0, <1>1, PaymentTransfersType
<1> HIDE DEF balances, transfers
<1>5. state' \in TokenStates
  BY <1>0, <1>2, <1>3, <1>4, BalancesType, TokenAssumption
<1>6. inflated' \in SUBSET Tokens
  BY <1>0, TokenAssumption DEF DoHeartbeat
<1> QED BY <1>5, <1>6 DEF TypeOK

LEMMA AccountStepType ==
    ASSUME TypeOK, AccountStep
    PROVE  TypeOK'
<1>0. state \in TokenStates /\ inflated \in SUBSET Tokens
  BY DEF TypeOK
<1> PICK k \in Keys, endorsement \in Endorsements :
        \/ SetManager(k, endorsement)
        \/ SetIssuer(k, endorsement)
        \/ SetAccount(k, endorsement)
        \/ \E account \in Keys : SetEndorsement(k, account, endorsement)
  BY DEF AccountStep
<1>1. endorsement \in SUBSET EndorsementKeys
  BY PaymentAssumption
<1>2. CASE SetManager(k, endorsement)
  BY <1>0, <1>1, <1>2, AccountTypes DEF SetManager, TypeOK
<1>3. CASE SetIssuer(k, endorsement)
  <2>1. set_issuer(state, k, endorsement) \in TokenStates
    BY <1>0, <1>1, AccountTypes
  <2>2. CASH_TOKEN \in Tokens /\ CashToken(k) \in Token
    BY TokenAssumption, PaymentAssumption DEF CashToken, Token, Statuses
  <2>3. issue_token(set_issuer(state, k, endorsement), CASH_TOKEN, CashToken(k)) \in TokenStates
    BY <2>1, <2>2, IssueType
  <2> QED BY <1>0, <1>3, <2>2, <2>3 DEF SetIssuer, TypeOK
<1>4. CASE SetAccount(k, endorsement)
  BY <1>0, <1>1, <1>4, AccountTypes DEF SetAccount, TypeOK
<1>5. CASE \E account \in Keys : SetEndorsement(k, account, endorsement)
  BY <1>0, <1>1, <1>5, AccountTypes DEF SetEndorsement, TypeOK
<1> QED BY <1>2, <1>3, <1>4, <1>5

LEMMA TokenStepType ==
    ASSUME TypeOK, TokenStep
    PROVE  TypeOK'
<1>0. state \in TokenStates /\ inflated \in SUBSET Tokens
  BY DEF TypeOK
<1> PICK k \in Keys, t \in Tokens :
        \/ \E supply \in Supplies, endorsed \in TransferEndorsements, schedule \in Schedules :
              IssueToken(k, t, supply, endorsed, schedule)
        \/ \E new \in ImmutablesLists : AddImmutables(k, t, new)
        \/ \E status \in AskedStatuses : SetTokenStatus(k, t, status)
  BY DEF TokenStep
<1>1. CASE \E supply \in Supplies, endorsed \in TransferEndorsements, schedule \in Schedules :
              IssueToken(k, t, supply, endorsed, schedule)
  <2> PICK supply \in Supplies, endorsed \in TransferEndorsements, schedule \in Schedules :
              IssueToken(k, t, supply, endorsed, schedule)
    BY <1>1
  <2> DEFINE token == [issuer_pkey         |-> k,
                       total_supply        |-> supply,
                       status              |-> "ACTIVE",
                       transferendorsement |-> endorsed,
                       payments            |-> schedule,
                       immutables          |-> <<>>]
  <2>1. token \in Token
    BY PaymentAssumption DEF IssueToken, Token, Statuses
  <2>2. state' = issue_token(state, t, token) /\ inflated' = inflated
    BY DEF IssueToken
  <2> HIDE DEF token
  <2> QED BY <1>0, <2>1, <2>2, IssueType DEF TypeOK
<1>2. CASE \E new \in ImmutablesLists : AddImmutables(k, t, new)
  <2> PICK new \in ImmutablesLists : AddImmutables(k, t, new)
    BY <1>2
  <2> DEFINE token == [state.token[t] EXCEPT !.immutables = new \o @, !.status = "ACTIVE"]
  <2>1. token \in Token
    <3>1. state.token[t] \in Token
      BY <1>0, IssuedType DEF AddImmutables, MayAddImmutables, Active
    <3>2. new \in Seq(Immutable) /\ state.token[t].immutables \in Seq(Immutable)
      BY <3>1, PaymentAssumption DEF Token
    <3>3. new \o state.token[t].immutables \in Seq(Immutable)
      BY <3>2
    <3> QED BY <3>1, <3>3 DEF Token, Statuses
  <2>2. state' = set_token(state, t, token) /\ inflated' = inflated
    BY DEF AddImmutables
  <2> HIDE DEF token
  <2> QED BY <1>0, <2>1, <2>2, SetTokenType DEF TypeOK
<1>3. CASE \E status \in AskedStatuses : SetTokenStatus(k, t, status)
  <2> PICK status \in AskedStatuses : SetTokenStatus(k, t, status)
    BY <1>3
  <2> status \in Statuses
    BY PaymentAssumption
  <2> DEFINE token == [state.token[t] EXCEPT !.status = status]
  <2>1. token \in Token
    <3>1. state.token[t] \in Token
      BY <1>0, IssuedType DEF SetTokenStatus
    <3> QED BY <3>1 DEF Token
  <2>2. state' = set_token(state, t, token) /\ inflated' = inflated
    BY DEF SetTokenStatus
  <2> HIDE DEF token
  <2> QED BY <1>0, <2>1, <2>2, SetTokenType DEF TypeOK
<1> QED BY <1>1, <1>2, <1>3

LEMMA PaymentStepType ==
    ASSUME TypeOK, PaymentStep
    PROVE  TypeOK'
<1>0. state \in TokenStates /\ inflated \in SUBSET Tokens
  BY DEF TypeOK
<1>1. CASE \E k, receiver \in Keys, t \in Tokens, amount \in Amounts, ts \in Times :
              DoTransfer(k, receiver, t, amount, ts)
  <2> PICK k \in Keys, receiver \in Keys, t \in Tokens, amount \in Amounts, ts \in Times :
              DoTransfer(k, receiver, t, amount, ts)
    BY <1>1
  <2>1. amount \in Int
    BY PaymentAssumption
  <2> QED BY <1>0, <2>1, TransferType DEF DoTransfer, TypeOK
<1>2. CASE \E receivers \in (SUBSET Keys) \ {{}}, t \in Tokens, ts \in Times :
              DoHeartbeat(receivers, t, ts)
  BY <1>2, HeartbeatType
<1>3. CASE \E k \in Keys, identifiers \in SUBSET Tokens, attributes \in Attributes :
              SetBalanceAttributes(k, identifiers, attributes)
  BY <1>0, <1>3, AttributesType DEF SetBalanceAttributes, TypeOK
<1> QED BY <1>1, <1>2, <1>3 DEF PaymentStep

LEMMA StartsTyped == Init => TypeOK
<1>1. EmptyState \in TokenStates
  BY DEF EmptyState, TokenStates
<1> QED BY <1>1 DEF Init, TypeOK

(* The state keeps its shape: whatever is transferred, paid or issued,     *)
(* every balance is whole, its amount a number of units.                   *)
THEOREM TypeCorrect == Spec => []TypeOK
<1>1. TypeOK /\ [Next]_vars => TypeOK'
  <2> SUFFICES ASSUME TypeOK, [Next]_vars PROVE TypeOK'
    OBVIOUS
  <2>1. CASE UNCHANGED vars
    BY <2>1 DEF vars, TypeOK
  <2> QED BY <2>1, AccountStepType, TokenStepType, PaymentStepType DEF Next
<1> QED BY <1>1, StartsTyped, PTL DEF Spec

-----------------------------------------------------------------------------
(* Balances as amounts of which there is a total *)

Amount(s, k, t) == IF Holds(s, k, t) THEN get_balance(s, k, t).amount ELSE 0

AmountsOf(s, t) == [k \in Keys |-> Amount(s, k, t)]

Total(s, t) == SumFunctionOnSet(AmountsOf(s, t), Keys)

(* Whoever holds a token, it is issued; the issuer of payments holds cash. *)
HoldingsAreIssued(s) ==
    /\ \A t \in Tokens : ~Issued(s, t) => \A k \in Keys : ~Holds(s, k, t)
    /\ s.issuer # None => Holds(s, s.issuer, CASH_TOKEN)

(* Each payment is as much for every unit of the token.                    *)
Divides(token) ==
    \A i \in DOMAIN token.payments : token.payments[i].amount % token.total_supply = 0

PaymentsDivide(s) == \A t \in Tokens : Issued(s, t) => Divides(s.token[t])

TotalsAreSupplies(s, inflations) ==
    \A t \in Tokens \ inflations :
        Issued(s, t) => s.token[t].total_supply = Total(s, t)

(* Cash is covered while what the other tokens promise is not negative,    *)
(* and those that promise something are not inflated.                      *)
CashIsCovered(s, inflations) ==
    \A u \in Tokens \ {CASH_TOKEN} :
        Issued(s, u) /\ s.token[u].payments # <<>> =>
            /\ u \notin inflations
            /\ \A i \in DOMAIN s.token[u].payments : s.token[u].payments[i].amount >= 0

NobodyOwes(s, inflations) ==
    \A k \in Keys, t \in Tokens :
        (t = CASH_TOKEN => CashIsCovered(s, inflations)) => Amount(s, k, t) >= 0

(* Who pays has issued the Cash Token, on which nothing is promised.       *)
CashPaysNothing(s) ==
    s.issuer # None => Issued(s, CASH_TOKEN) /\ s.token[CASH_TOKEN].payments = <<>>

(* The inductive invariant of the supplies.                                *)
SupplyInv ==
    /\ TypeOK
    /\ HoldingsAreIssued(state)
    /\ PaymentsDivide(state)
    /\ TotalsAreSupplies(state, inflated)
    /\ CashPaysNothing(state)
    /\ NobodyOwes(state, inflated)

LEMMA StatesAreShaped ==
    ASSUME NEW s \in TokenStates
    PROVE  Shaped(s)
BY DEF TokenStates, Shaped, Parts, Balance, BalanceFields

LEMMA AmountType ==
    ASSUME NEW s \in TokenStates, NEW k \in Keys, NEW t \in Tokens
    PROVE  Amount(s, k, t) \in Int
BY BalanceType DEF Amount, Balance

LEMMA AmountsType ==
    ASSUME NEW s \in TokenStates, NEW t \in Tokens
    PROVE  /\ IsFiniteSet(Keys)
           /\ \A k \in Keys : AmountsOf(s, t)[k] \in Int
           /\ \A k \in Keys : AmountsOf(s, t)[k] = Amount(s, k, t)
           /\ Total(s, t) \in Int
<1>1. IsFiniteSet(Keys)
  BY TokenAssumption
<1>2. \A k \in Keys : AmountsOf(s, t)[k] = Amount(s, k, t)
  BY DEF AmountsOf
<1>3. \A k \in Keys : AmountsOf(s, t)[k] \in Int
  BY <1>2, AmountType
<1> QED BY <1>1, <1>2, <1>3, SumType DEF Total

(* Totals are unchanged when no balance of the token is.                   *)
LEMMA SameTotals ==
    ASSUME NEW s, NEW u, NEW t, \A k \in Keys : Amount(u, k, t) = Amount(s, k, t)
    PROVE  Total(u, t) = Total(s, t)
BY DEF Total, AmountsOf

(* The holders of a token have the total of what all accounts have.        *)
LEMMA TotalOfHolders ==
    ASSUME NEW s \in TokenStates, NEW t \in Tokens
    PROVE  LET holders == {k \in Keys : Holds(s, k, t)}
           IN  Total(s, t) =
                   SumFunctionOnSet([k \in holders |-> get_balance(s, k, t).amount], holders)
<1> DEFINE holders == {k \in Keys : Holds(s, k, t)}
           amounts == AmountsOf(s, t)
           held == [k \in holders |-> get_balance(s, k, t).amount]
<1>1. /\ IsFiniteSet(Keys)
      /\ \A k \in Keys : amounts[k] \in Int
      /\ Total(s, t) = SumFunctionOnSet(amounts, Keys)
  BY AmountsType DEF Total
<1>2. \A k \in Keys \ holders : amounts[k] = 0
  BY AmountsType DEF Amount
<1>3. \A k \in holders : amounts[k] = held[k]
  BY AmountsType DEF Amount
<1>4. holders \in SUBSET Keys
  OBVIOUS
<1> HIDE DEF holders, amounts, held
<1>5. IsFiniteSet(holders)
  BY <1>1, <1>4, FS_Subset
<1>6. SumFunctionOnSet(amounts, Keys) = SumFunctionOnSet(amounts, holders)
  BY <1>1, <1>2, <1>4, SumOutside
<1>7. SumFunctionOnSet(amounts, holders) = SumFunctionOnSet(held, holders)
  BY <1>3, <1>5, SumSame
<1>8. Total(s, t) = SumFunctionOnSet(held, holders)
  BY <1>1, <1>6, <1>7
<1> QED BY <1>8 DEF holders, held

(* The invariant says that the supplies are held.                          *)
LEMMA SuppliesAreHeld ==
    ASSUME SupplyInv
    PROVE  SupplyIsHeld /\ NoDebt
<1>1. SupplyIsHeld
  <2> SUFFICES ASSUME NEW t \in Tokens \ inflated, Issued(state, t)
               PROVE  LET holders == {k \in Keys : Holds(state, k, t)}
                      IN  state.token[t].total_supply =
                            SumFunctionOnSet([k \in holders |-> get_balance(state, k, t).amount],
                                             holders)
    BY DEF SupplyIsHeld
  <2>1. state.token[t].total_supply = Total(state, t)
    BY DEF SupplyInv, TotalsAreSupplies
  <2>2. state \in TokenStates
    BY DEF SupplyInv, TypeOK
  <2> QED BY <2>1, <2>2, TotalOfHolders
<1>2. NoDebt
  <2> SUFFICES ASSUME NEW k \in Keys, NEW t \in Tokens, Holds(state, k, t),
                      t = CASH_TOKEN =>
                          \A u \in Tokens \ {CASH_TOKEN} :
                              Issued(state, u) /\ state.token[u].payments # <<>> => Covered(u)
               PROVE  get_balance(state, k, t).amount >= 0
    BY DEF NoDebt
  <2>1. t = CASH_TOKEN => CashIsCovered(state, inflated)
    BY DEF CashIsCovered, Covered
  <2>2. Amount(state, k, t) >= 0
    BY <2>1 DEF SupplyInv, NobodyOwes
  <2> QED BY <2>2 DEF Amount
<1> QED BY <1>1, <1>2

(* Promises stay, and what is inflated stays so: cash that is covered was  *)
(* covered before.                                                         *)
LEMMA CoverLasts ==
    ASSUME \A t \in Tokens \ {CASH_TOKEN} :
              Issued(state, t) =>
                  Issued(state', t) /\ state'.token[t].payments = state.token[t].payments,
           inflated \subseteq inflated',
           CashIsCovered(state', inflated')
    PROVE  CashIsCovered(state, inflated)
BY DEF CashIsCovered

(* A credit adds to the amount, whether or not there was a balance.        *)
LEMMA CreditAdds ==
    ASSUME NEW s \in TokenStates, NEW k \in Keys, NEW t \in Tokens, NEW amount \in Int,
           NEW u, get_balance(u, k, t) = Credit(get_balance(s, k, t), amount)
    PROVE  /\ Holds(u, k, t)
           /\ Amount(u, k, t) = Amount(s, k, t) + amount
<1>1. get_balance(s, k, t) \in Balance \cup {None}
  BY BalanceType
<1>2. Credit(get_balance(s, k, t), amount) \in Balance
  BY <1>1, CreditType
<1>3. Holds(u, k, t)
  BY <1>2, NoneAssumption DEF Holds
<1>4. CASE Holds(s, k, t)
  <2>1. get_balance(s, k, t) \in Balance /\ get_balance(s, k, t) # None
    BY <1>1, <1>4 DEF Holds
  <2>2. Credit(get_balance(s, k, t), amount).amount = get_balance(s, k, t).amount + amount
    BY <2>1 DEF Credit, Balance
  <2> QED BY <1>3, <1>4, <2>2 DEF Amount
<1>5. CASE ~Holds(s, k, t)
  <2>1. Credit(get_balance(s, k, t), amount).amount = amount
    BY <1>5 DEF Credit, Holds
  <2> QED BY <1>3, <1>5, <2>1 DEF Amount
<1> QED BY <1>3, <1>4, <1>5

-----------------------------------------------------------------------------
(* How the steps change supplies and amounts *)

(* Most steps leave what is promised and who has how much.                 *)
LEMMA SuppliesStay ==
    ASSUME SupplyInv, TypeOK',
           state'.issuer = state.issuer, inflated' = inflated,
           \A t \in Tokens : Issued(state', t) <=> Issued(state, t),
           \A t \in Tokens : Issued(state, t) =>
              /\ state'.token[t].total_supply = state.token[t].total_supply
              /\ state'.token[t].payments = state.token[t].payments,
           \A k \in Keys, t \in Tokens :
              /\ Holds(state', k, t) <=> Holds(state, k, t)
              /\ Amount(state', k, t) = Amount(state, k, t)
    PROVE  SupplyInv'
<1>1. HoldingsAreIssued(state')
  <2>1. state.issuer \in Keys \cup {None} /\ CASH_TOKEN \in Tokens
    BY TokenAssumption DEF SupplyInv, TypeOK, TokenStates
  <2> QED BY <2>1 DEF SupplyInv, HoldingsAreIssued
<1>2. PaymentsDivide(state')
  BY DEF SupplyInv, PaymentsDivide, Divides
<1>3. TotalsAreSupplies(state', inflated')
  <2>1. \A t \in Tokens : Total(state', t) = Total(state, t)
    BY SameTotals
  <2> QED BY <2>1 DEF SupplyInv, TotalsAreSupplies
<1>4. CashPaysNothing(state')
  BY TokenAssumption DEF SupplyInv, CashPaysNothing
<1>5. NobodyOwes(state', inflated')
  <2>1. CashIsCovered(state', inflated') => CashIsCovered(state, inflated)
    BY CoverLasts
  <2> QED BY <2>1 DEF SupplyInv, NobodyOwes
<1> QED BY <1>1, <1>2, <1>3, <1>4, <1>5 DEF SupplyInv

LEMMA UnchangedBalances ==
    ASSUME NEW s, NEW u, u.account_token = s.account_token
    PROVE  \A k \in Keys, t \in Tokens :
              /\ Holds(u, k, t) <=> Holds(s, k, t)
              /\ Amount(u, k, t) = Amount(s, k, t)
BY DEF Holds, Amount, get_balance

(* Steps that move no balance keep it.                                     *)
LEMMA QuietStep ==
    ASSUME SupplyInv, TypeOK',
           AccountsChange \/ ImmutablesAdded \/ StatusSet \/ Annotated
    PROVE  SupplyInv'
<1>0. \A t \in Tokens : Issued(state, t) => state.token[t] \in Token
  BY IssuedType DEF SupplyInv, TypeOK
<1>1. CASE AccountsChange
  BY <1>1, UnchangedBalances, SuppliesStay DEF AccountsChange, SameHoldings, Issued
<1>2. ASSUME NEW v \in Tokens, NEW token \in Token, Issued(state, v),
             token.total_supply = state.token[v].total_supply,
             token.payments = state.token[v].payments,
             SameAccounts(state', state), inflated' = inflated,
             state'.token = [state.token EXCEPT ![v] = token],
             state'.account_token = state.account_token
      PROVE  SupplyInv'
  <2>1. ASSUME NEW t \in Tokens
        PROVE  /\ Issued(state', t) <=> Issued(state, t)
               /\ Issued(state, t) =>
                     /\ state'.token[t].total_supply = state.token[t].total_supply
                     /\ state'.token[t].payments = state.token[t].payments
    <3>1. DOMAIN state.token = Tokens
      BY DEF SupplyInv, TypeOK, TokenStates
    <3> QED BY <1>2, <3>1, NoneAssumption DEF Issued
  <2> QED BY <1>2, <2>1, UnchangedBalances, SuppliesStay DEF SameAccounts, SameRoles
<1>3. CASE ImmutablesAdded
  <2> PICK k \in Keys, v \in Tokens, new \in ImmutablesLists : AddedAs(k, v, new)
    BY <1>3 DEF ImmutablesAdded
  <2> DEFINE token == [state.token[v] EXCEPT !.immutables = new \o @, !.status = "ACTIVE"]
  <2>1. Issued(state, v) /\ state.token[v] \in Token
    BY <1>0 DEF AddedAs, MayAddImmutables, Active
  <2>2. new \in Seq(Immutable) /\ state.token[v].immutables \in Seq(Immutable)
    BY <2>1, PaymentAssumption DEF Token
  <2>3. new \o state.token[v].immutables \in Seq(Immutable)
    BY <2>2
  <2>4. /\ token \in Token
        /\ token.total_supply = state.token[v].total_supply
        /\ token.payments = state.token[v].payments
    BY <2>1, <2>3 DEF Token, Statuses
  <2> QED BY <1>2, <2>1, <2>4 DEF AddedAs
<1>4. CASE StatusSet
  <2> PICK v \in Tokens, status \in Statuses : SetAs(v, status)
    BY <1>4 DEF StatusSet
  <2> DEFINE token == [state.token[v] EXCEPT !.status = status]
  <2>1. Issued(state, v) /\ state.token[v] \in Token
    BY <1>0 DEF SetAs
  <2>2. /\ token \in Token
        /\ token.total_supply = state.token[v].total_supply
        /\ token.payments = state.token[v].payments
    BY <2>1 DEF Token
  <2> QED BY <1>2, <2>1, <2>2 DEF SetAs
<1>5. CASE Annotated
  <2> PICK x \in Keys, identifiers \in SUBSET Tokens, attributes \in Attributes :
          /\ \A t \in identifiers : Holds(state, x, t)
          /\ AfterNotes(state', state, x, identifiers, attributes)
          /\ inflated' = inflated
    BY <1>5 DEF Annotated
  <2>1. ASSUME NEW k \in Keys, NEW t \in Tokens
        PROVE  /\ Holds(state', k, t) <=> Holds(state, k, t)
               /\ Amount(state', k, t) = Amount(state, k, t)
    <3>1. CASE k = x /\ t \in identifiers
      <4>1. get_balance(state, k, t) \in Balance /\ Holds(state, k, t)
        BY <3>1, BalanceType DEF SupplyInv, TypeOK
      <4>2. get_balance(state', k, t) =
                [get_balance(state, k, t) EXCEPT !.attributes = attributes]
        BY <3>1 DEF AfterNotes, get_balance
      <4>3. /\ get_balance(state', k, t) \in Balance
            /\ get_balance(state', k, t).amount = get_balance(state, k, t).amount
        BY <4>1, <4>2 DEF Balance
      <4>4. Holds(state', k, t)
        BY <4>3, NoneAssumption DEF Holds
      <4> QED BY <4>1, <4>3, <4>4 DEF Amount
    <3>2. CASE ~(k = x /\ t \in identifiers)
      <4>1. get_balance(state', k, t) = get_balance(state, k, t)
        BY <3>2 DEF AfterNotes, get_balance
      <4> QED BY <4>1 DEF Holds, Amount
    <3> QED BY <3>1, <3>2
  <2> QED BY <2>1, SuppliesStay DEF AfterNotes, SameAccounts, SameRoles, Issued
<1> QED BY <1>1, <1>3, <1>4, <1>5

(* What is issued is held by who issued it, and the supply of a token that *)
(* is issued anew is not counted on any more.                              *)
LEMMA IssueStep ==
    ASSUME SupplyInv, TypeOK', NEW k \in Keys, NEW v \in Tokens, NEW token \in Token,
           Divides(token), state'.token = [state.token EXCEPT ![v] = token],
           state'.account_token = [state.account_token EXCEPT ![<<k, v>>] = Whole(token)],
           state'.issuer = state.issuer \/ (state'.issuer = k /\ v = CASH_TOKEN),
           Issued(state, v) => v = CASH_TOKEN,
           v = CASH_TOKEN => state'.issuer = None \/ token.payments = <<>>,
           inflated' = IF Issued(state, v) THEN inflated \cup {v} ELSE inflated
    PROVE  SupplyInv'
<1>0. state \in TokenStates /\ state' \in TokenStates
  BY DEF SupplyInv, TypeOK
<1>1. /\ DOMAIN state.token = Tokens /\ DOMAIN state.account_token = Keys \X Tokens
      /\ state.issuer \in Keys \cup {None} /\ token.total_supply \in Nat \ {0}
      /\ CASH_TOKEN \in Tokens
  BY <1>0, TokenAssumption DEF TokenStates, Token
<1>2. /\ state'.token[v] = token /\ Issued(state', v)
      /\ \A t \in Tokens \ {v} : state'.token[t] = state.token[t]
  BY <1>1, NoneAssumption DEF Issued
<1>3. Whole(token) # None /\ Whole(token).amount = token.total_supply
  <2>1. Whole(token) \in Balance
    BY <1>1, TokenAssumption DEF Whole, Balance
  <2> QED BY <2>1, NoneAssumption DEF Whole
<1>4. Holds(state', k, v) /\ Amount(state', k, v) = token.total_supply
  BY <1>1, <1>3 DEF Holds, Amount, get_balance
<1>5. ASSUME NEW x \in Keys, NEW t \in Tokens, x # k \/ t # v
      PROVE  /\ Holds(state', x, t) <=> Holds(state, x, t)
             /\ Amount(state', x, t) = Amount(state, x, t)
  BY <1>1, <1>5 DEF Holds, Amount, get_balance
<1>6. HoldingsAreIssued(state')
  <2>1. ASSUME NEW t \in Tokens, ~Issued(state', t), NEW x \in Keys
        PROVE  ~Holds(state', x, t)
    BY <1>2, <1>5, <2>1 DEF SupplyInv, HoldingsAreIssued, Issued
  <2>2. state'.issuer # None => Holds(state', state'.issuer, CASH_TOKEN)
    BY <1>1, <1>4, <1>5 DEF SupplyInv, HoldingsAreIssued
  <2> QED BY <2>1, <2>2 DEF HoldingsAreIssued
<1>7. PaymentsDivide(state')
  BY <1>2 DEF SupplyInv, PaymentsDivide, Issued
<1>8. TotalsAreSupplies(state', inflated')
  <2> SUFFICES ASSUME NEW t \in Tokens \ inflated', Issued(state', t)
               PROVE  state'.token[t].total_supply = Total(state', t)
    BY DEF TotalsAreSupplies
  <2>1. CASE t # v
    <3>1. Total(state', t) = Total(state, t)
      BY <1>5, <2>1, SameTotals
    <3> QED BY <1>2, <2>1, <3>1 DEF SupplyInv, TotalsAreSupplies, Issued
  <2>2. CASE t = v
    <3>1. ~Issued(state, v)
      BY <2>2
    <3>2. \A x \in Keys : ~Holds(state, x, v)
      BY <3>1 DEF SupplyInv, HoldingsAreIssued
    <3>3. \A x \in Keys \ {k} : Amount(state', x, v) = 0
      BY <1>5, <3>2 DEF Amount
    <3> DEFINE amounts == AmountsOf(state', v)
    <3>4. /\ IsFiniteSet(Keys) /\ \A x \in Keys : amounts[x] \in Int
          /\ amounts[k] = token.total_supply
          /\ \A x \in Keys \ {k} : amounts[x] = 0
      BY <1>0, <1>4, <3>3, AmountsType
    <3> HIDE DEF amounts
    <3>5. SumFunctionOnSet(amounts, Keys) = token.total_supply
      BY <3>4, SumOne
    <3> QED BY <1>2, <2>2, <3>5 DEF Total, amounts
  <2> QED BY <2>1, <2>2
<1>9. NobodyOwes(state', inflated')
  <2> SUFFICES ASSUME NEW x \in Keys, NEW t \in Tokens,
                      t = CASH_TOKEN => CashIsCovered(state', inflated')
               PROVE  Amount(state', x, t) >= 0
    BY DEF NobodyOwes
  <2>1. \A u \in Tokens \ {CASH_TOKEN} :
            Issued(state, u) =>
                Issued(state', u) /\ state'.token[u].payments = state.token[u].payments
    BY <1>2 DEF Issued
  <2>2. t = CASH_TOKEN => CashIsCovered(state, inflated)
    BY <2>1, CoverLasts
  <2>3. Amount(state, x, t) >= 0
    BY <2>2 DEF SupplyInv, NobodyOwes
  <2> QED BY <1>1, <1>4, <1>5, <2>3
<1>10. CashPaysNothing(state')
  <2>1. CASE v = CASH_TOKEN
    BY <1>2, <2>1 DEF CashPaysNothing
  <2>2. CASE v # CASH_TOKEN
    BY <1>1, <1>2, <2>2 DEF SupplyInv, CashPaysNothing, Issued
  <2> QED BY <2>1, <2>2
<1> QED BY <1>6, <1>7, <1>8, <1>9, <1>10 DEF SupplyInv

(* So does a new issue, whose whole supply is the issuer's.                *)
LEMMA IssuedStep ==
    ASSUME SupplyInv, TypeOK', CashIssued \/ TokenIssued
    PROVE  SupplyInv'
<1>1. CASE CashIssued
  <2> PICK k \in Keys, e \in SUBSET EndorsementKeys :
        /\ state'.issuer = k
        /\ state'.token = [state.token EXCEPT ![CASH_TOKEN] = CashToken(k)]
        /\ state'.account_token =
              [state.account_token EXCEPT ![<<k, CASH_TOKEN>>] = Whole(CashToken(k))]
        /\ inflated' = IF Issued(state, CASH_TOKEN) THEN inflated \cup {CASH_TOKEN}
                                                    ELSE inflated
    BY <1>1 DEF CashIssued
  <2>1. CASH_TOKEN \in Tokens /\ CashToken(k) \in Token /\ CashToken(k).payments = <<>>
    BY TokenAssumption, PaymentAssumption DEF CashToken, Token, Statuses
  <2>2. Divides(CashToken(k))
    BY <2>1 DEF Divides
  <2> QED BY <2>1, <2>2, IssueStep
<1>2. CASE TokenIssued
  <2> PICK k \in Keys, v \in Tokens, token \in Token : IssuedAs(k, v, token)
    BY <1>2 DEF TokenIssued
  <2>1. Divides(token)
    <3>1. token.total_supply > 0
      BY DEF Token
    <3> QED BY <3>1, PaymentAssumption DEF IssuedAs, Divides
  <2>2. inflated' = IF Issued(state, v) THEN inflated \cup {v} ELSE inflated
    BY DEF IssuedAs
  <2>3. /\ state'.token = [state.token EXCEPT ![v] = token]
        /\ state'.account_token = [state.account_token EXCEPT ![<<k, v>>] = Whole(token)]
        /\ state'.issuer = state.issuer /\ ~Issued(state, v)
    BY DEF IssuedAs, SameAccounts, SameRoles
  <2>4. v = CASH_TOKEN => state'.issuer = None
    BY <2>3 DEF SupplyInv, CashPaysNothing
  <2> QED BY <2>1, <2>2, <2>3, <2>4, IssueStep
<1> QED BY <1>1, <1>2

(* What one account gets the other loses.                                  *)
LEMMA TransferStep ==
    ASSUME SupplyInv, TypeOK', Transferred
    PROVE  SupplyInv'
<1> PICK k \in Keys, receiver \in Keys, v \in Tokens, amount \in Amounts :
        /\ MayTransfer(k, receiver, v, amount)
        /\ AfterTransfer(state', state, v, k, receiver, amount)
        /\ inflated' = IF k = receiver THEN inflated \cup {v} ELSE inflated
  BY DEF Transferred
<1>0. state \in TokenStates /\ state' \in TokenStates /\ amount \in Nat
  <2>1. amount \in Int /\ amount > 0
    BY PaymentAssumption DEF MayTransfer
  <2> QED BY <2>1 DEF SupplyInv, TypeOK
<1>1. /\ DOMAIN state.account_token = Keys \X Tokens
      /\ state'.token = state.token /\ state'.issuer = state.issuer
      /\ Issued(state, v) /\ Holds(state, k, v) /\ amount <= Amount(state, k, v)
  BY <1>0 DEF TokenStates, AfterTransfer, SameAccounts, SameRoles, MayTransfer, Active, Amount
<1> DEFINE debited == Credit(get_balance(state, k, v), -amount)
           credited == Credit(get_balance(state, receiver, v), amount)
<1>2. state'.account_token = [[state.account_token EXCEPT ![<<k, v>>] = debited]
                                  EXCEPT ![<<receiver, v>>] = credited]
  BY DEF AfterTransfer
<1> HIDE DEF debited, credited
<1>3. ASSUME NEW x \in Keys, NEW t \in Tokens, t # v \/ x \notin {k, receiver}
      PROVE  /\ Holds(state', x, t) <=> Holds(state, x, t)
             /\ Amount(state', x, t) = Amount(state, x, t)
  <2>1. get_balance(state', x, t) = get_balance(state, x, t)
    BY <1>1, <1>2, <1>3 DEF get_balance
  <2> QED BY <2>1 DEF Holds, Amount
<1>4. /\ Holds(state', receiver, v)
      /\ Amount(state', receiver, v) = Amount(state, receiver, v) + amount
  <2>1. get_balance(state', receiver, v) = credited
    BY <1>1, <1>2 DEF get_balance
  <2> QED BY <1>0, <2>1, CreditAdds DEF credited
<1>5. k # receiver =>
          /\ Holds(state', k, v)
          /\ Amount(state', k, v) = Amount(state, k, v) - amount
  <2> SUFFICES ASSUME k # receiver
               PROVE  /\ Holds(state', k, v)
                      /\ Amount(state', k, v) = Amount(state, k, v) - amount
    OBVIOUS
  <2>1. get_balance(state', k, v) = debited
    BY <1>1, <1>2 DEF get_balance
  <2>2. -amount \in Int /\ Amount(state, k, v) \in Int
    BY <1>0, AmountType
  <2>3. Amount(state', k, v) = Amount(state, k, v) + (-amount) /\ Holds(state', k, v)
    BY <1>0, <2>1, <2>2, CreditAdds DEF debited
  <2> QED BY <1>0, <2>2, <2>3
<1>6. HoldingsAreIssued(state')
  <2>1. ASSUME NEW x \in Keys, NEW t \in Tokens, Holds(state, x, t)
        PROVE  Holds(state', x, t)
    BY <1>3, <1>4, <1>5, <2>1
  <2>2. ASSUME NEW t \in Tokens, ~Issued(state', t), NEW x \in Keys
        PROVE  ~Holds(state', x, t)
    BY <1>1, <1>3, <2>2 DEF SupplyInv, HoldingsAreIssued, Issued
  <2>3. state.issuer \in Keys \cup {None} /\ CASH_TOKEN \in Tokens
    BY <1>0, TokenAssumption DEF TokenStates
  <2> QED BY <1>1, <2>1, <2>2, <2>3 DEF SupplyInv, HoldingsAreIssued
<1>7. PaymentsDivide(state')
  BY <1>1 DEF SupplyInv, PaymentsDivide, Issued
<1>8. k # receiver => Total(state', v) = Total(state, v)
  <2> SUFFICES ASSUME k # receiver PROVE Total(state', v) = Total(state, v)
    OBVIOUS
  <2> DEFINE before == AmountsOf(state, v)
             after == AmountsOf(state', v)
             between == [before EXCEPT ![k] = after[k]]
  <2>1. /\ IsFiniteSet(Keys)
        /\ \A x \in Keys : before[x] \in Int /\ after[x] \in Int
        /\ Total(state, v) = SumFunctionOnSet(before, Keys)
        /\ Total(state', v) = SumFunctionOnSet(after, Keys)
    BY <1>0, AmountsType DEF Total
  <2>2. /\ after[k] = before[k] - amount
        /\ after[receiver] = before[receiver] + amount
        /\ \A x \in Keys \ {k, receiver} : after[x] = before[x]
    BY <1>3, <1>4, <1>5 DEF AmountsOf
  <2>3. DOMAIN before = Keys
    BY DEF AmountsOf
  <2> HIDE DEF before, after
  <2>4. /\ between[k] = after[k]
        /\ \A x \in Keys \ {k} : between[x] = before[x]
        /\ \A x \in Keys : between[x] \in Int
    BY <2>1, <2>3
  <2>5. \A x \in Keys \ {receiver} : after[x] = between[x]
    BY <2>2, <2>4
  <2>6. between[receiver] = before[receiver]
    BY <2>4
  <2> HIDE DEF between
  <2>7. SumFunctionOnSet(between, Keys) = SumFunctionOnSet(before, Keys) - before[k] + between[k]
    BY <2>1, <2>4, SumChange
  <2>8. SumFunctionOnSet(after, Keys) =
            SumFunctionOnSet(between, Keys) - between[receiver] + after[receiver]
    BY <2>1, <2>4, <2>5, SumChange
  <2>9. SumFunctionOnSet(before, Keys) \in Int
    BY <2>1, SumType
  <2> QED BY <1>0, <2>1, <2>2, <2>4, <2>6, <2>7, <2>8, <2>9
<1>9. TotalsAreSupplies(state', inflated')
  <2> SUFFICES ASSUME NEW t \in Tokens \ inflated', Issued(state', t)
               PROVE  state'.token[t].total_supply = Total(state', t)
    BY DEF TotalsAreSupplies
  <2>1. t \notin inflated /\ (t = v => k # receiver)
    OBVIOUS
  <2>2. Total(state', t) = Total(state, t)
    BY <1>3, <1>8, <2>1, SameTotals
  <2> QED BY <1>1, <2>1, <2>2 DEF SupplyInv, TotalsAreSupplies, Issued
<1>10. NobodyOwes(state', inflated')
  <2> SUFFICES ASSUME NEW x \in Keys, NEW t \in Tokens,
                      t = CASH_TOKEN => CashIsCovered(state', inflated')
               PROVE  Amount(state', x, t) >= 0
    BY DEF NobodyOwes
  <2>1. t = CASH_TOKEN => CashIsCovered(state, inflated)
    <3>1. inflated \subseteq inflated'
      OBVIOUS
    <3> QED BY <1>1, <3>1, CoverLasts DEF Issued
  <2>2. \A y \in Keys : Amount(state, y, t) >= 0
    BY <2>1 DEF SupplyInv, NobodyOwes
  <2>3. /\ Amount(state, x, t) \in Int /\ Amount(state, k, v) \in Int
        /\ Amount(state, receiver, v) \in Int
    BY <1>0, AmountType
  <2>4. CASE t # v \/ x \notin {k, receiver}
    BY <1>3, <2>2, <2>4
  <2>5. CASE t = v /\ x = k /\ k # receiver
    BY <1>0, <1>1, <1>5, <2>3, <2>5
  <2>6. CASE t = v /\ x = receiver
    BY <1>0, <1>4, <2>2, <2>3, <2>6
  <2> QED BY <2>4, <2>5, <2>6
<1>11. CashPaysNothing(state')
  BY <1>1 DEF SupplyInv, CashPaysNothing, Issued
<1> QED BY <1>6, <1>7, <1>9, <1>10, <1>11 DEF SupplyInv

-----------------------------------------------------------------------------
(* What a heartbeat takes and brings *)

(* To holders other than the issuer, the outlay is the sum of their        *)
(* incomes.                                                                *)
LEMMA OutlayOfHolders ==
    ASSUME NEW t, NEW due, NEW receivers, state.issuer \notin receivers
    PROVE  Outlay(t, due, receivers) =
               SumFunctionOnSet([r \in receivers |-> Income(t, due, r)], receivers)
<1>1. [r \in receivers |-> IF r = state.issuer THEN -Income(t, due, r)
                                               ELSE Income(t, due, r)]
          = [r \in receivers |-> Income(t, due, r)]
  OBVIOUS
<1> QED BY <1>1, Zenon DEF Outlay

(* One payment more brings a holder one share more.                        *)
LEMMA IncomeSplits ==
    ASSUME state \in TokenStates, NEW t \in Tokens, Issued(state, t), NEW ts,
           NEW m \in Due(t, ts), NEW r \in Keys, Holds(state, r, t)
    PROVE  Income(t, Due(t, ts), r) = Share(t, m, r) + Income(t, Due(t, ts) \ {m}, r)
<1> DEFINE due == Due(t, ts)
           rest == due \ {m}
           shares == [i \in due |-> Share(t, i, r)]
           others == [i \in rest |-> Share(t, i, r)]
<1>1. IsFiniteSet(due) /\ m \in due
  BY DueType
<1>2. \A i \in due : shares[i] \in Int
  BY ShareType
<1>3. shares[m] = Share(t, m, r) /\ \A i \in rest : shares[i] = others[i]
  OBVIOUS
<1>4. /\ Income(t, due, r) = SumFunctionOnSet(shares, due)
      /\ Income(t, rest, r) = SumFunctionOnSet(others, rest)
  BY DEF Income
<1>5. rest = due \ {m} /\ rest \subseteq due
  OBVIOUS
<1> HIDE DEF due, rest, shares, others
<1>6. SumFunctionOnSet(shares, due) = shares[m] + SumFunctionOnSet(shares, rest)
  BY <1>1, <1>2, <1>5, SumSplit
<1>7. SumFunctionOnSet(shares, rest) = SumFunctionOnSet(others, rest)
  BY <1>1, <1>3, <1>5, FS_Subset, SumSame
<1>8. Income(t, due, r) = Share(t, m, r) + Income(t, rest, r)
  BY <1>3, <1>4, <1>6, <1>7
<1> QED BY <1>8 DEF due, rest

(* One payment more takes the sum of its shares more from the issuer, and  *)
(* brings it its own.                                                      *)
LEMMA OutlaySplits ==
    ASSUME state \in TokenStates, NEW t \in Tokens, Issued(state, t), NEW ts,
           NEW m \in Due(t, ts), NEW receivers \in SUBSET Keys,
           \A r \in receivers : Holds(state, r, t)
    PROVE  Outlay(t, Due(t, ts), receivers) =
               SumFunctionOnSet([r \in receivers |-> IF r = state.issuer THEN -Share(t, m, r)
                                                                         ELSE Share(t, m, r)],
                                receivers)
                   + Outlay(t, Due(t, ts) \ {m}, receivers)
<1> DEFINE due == Due(t, ts)
           rest == due \ {m}
           all == [r \in receivers |-> IF r = state.issuer THEN -Income(t, due, r)
                                                           ELSE Income(t, due, r)]
           now == [r \in receivers |-> IF r = state.issuer THEN -Share(t, m, r)
                                                           ELSE Share(t, m, r)]
           before == [r \in receivers |-> IF r = state.issuer THEN -Income(t, rest, r)
                                                              ELSE Income(t, rest, r)]
<1>1. IsFiniteSet(receivers)
  BY TokenAssumption, FS_Subset
<1>2. ASSUME NEW r \in receivers
      PROVE  now[r] \in Int /\ before[r] \in Int /\ all[r] = now[r] + before[r]
  <2>1. Share(t, m, r) \in Int
    BY ShareType
  <2>2. Income(t, rest, r) \in Int
    BY IncomeType
  <2>3. Income(t, due, r) = Share(t, m, r) + Income(t, rest, r)
    BY IncomeSplits
  <2>4. /\ all[r] = IF r = state.issuer THEN -Income(t, due, r) ELSE Income(t, due, r)
        /\ now[r] = IF r = state.issuer THEN -Share(t, m, r) ELSE Share(t, m, r)
        /\ before[r] = IF r = state.issuer THEN -Income(t, rest, r) ELSE Income(t, rest, r)
    OBVIOUS
  <2> HIDE DEF all, now, before, rest, due
  <2> QED BY <2>1, <2>2, <2>3, <2>4
<1>3. /\ Outlay(t, due, receivers) = SumFunctionOnSet(all, receivers)
      /\ Outlay(t, rest, receivers) = SumFunctionOnSet(before, receivers)
  BY DEF Outlay
<1>4. SumFunctionOnSet(all, receivers) =
          SumFunctionOnSet(now, receivers) + SumFunctionOnSet(before, receivers)
  <2> HIDE DEF all, now, before
  <2> QED BY <1>1, <1>2, SumAdds
<1> QED BY <1>3, <1>4

(* A payment that divides brings each unit of the token the same.          *)
LEMMA ShareOfPayment ==
    ASSUME state \in TokenStates, NEW t \in Tokens, Issued(state, t), Divides(state.token[t]),
           NEW ts, NEW i \in Due(t, ts)
    PROVE  \E each \in Int :
              /\ state.token[t].payments[i].amount >= 0 => each >= 0
              /\ state.token[t].payments[i].amount = state.token[t].total_supply * each
              /\ \A r \in Keys : Holds(state, r, t) => Share(t, i, r) = Amount(state, r, t) * each
<1> DEFINE payment == state.token[t].payments[i].amount
           supply == state.token[t].total_supply
           each == payment \div supply
<1>1. payment \in Int /\ i \in DOMAIN state.token[t].payments
  BY DueType DEF Due, Payment
<1>2. supply \in Nat \ {0}
  BY IssuedType DEF Token
<1>3. payment % supply = 0
  BY <1>1 DEF Divides
<1>4. \A r : Share(t, i, r) = (get_balance(state, r, t).amount * payment) \div supply
  BY DEF Share
<1> HIDE DEF payment, supply
<1>5. each \in Int /\ payment = supply * each
  BY <1>1, <1>2, <1>3
<1> HIDE DEF each
<1>6. payment >= 0 => each >= 0
  BY <1>1, <1>2, <1>5
<1>7. ASSUME NEW r \in Keys, Holds(state, r, t)
      PROVE  Share(t, i, r) = Amount(state, r, t) * each
  <2> DEFINE amount == get_balance(state, r, t).amount
  <2>1. amount \in Int /\ amount = Amount(state, r, t)
    BY <1>7, AmountType DEF Amount
  <2> HIDE DEF amount
  <2>2. amount * payment = (amount * each) * supply
    BY <1>2, <1>5, <2>1
  <2>3. \A x \in Int : (x * supply) \div supply = x
    BY <1>2
  <2>4. amount * each \in Int
    BY <1>5, <2>1
  <2>5. (amount * payment) \div supply = amount * each
    BY <2>2, <2>3, <2>4
  <2> QED BY <1>4, <2>1, <2>5 DEF amount
<1> QED BY <1>5, <1>6, <1>7 DEF payment, supply

(* Of a promise that is not negative nobody is paid less than nothing, and *)
(* it is enough for all.                                                   *)
LEMMA SharesWithinPayment ==
    ASSUME SupplyInv, NEW t \in Tokens \ {CASH_TOKEN}, Issued(state, t), Covered(t), NEW ts,
           NEW i \in Due(t, ts), NEW receivers \in SUBSET Keys,
           \A r \in receivers : Holds(state, r, t)
    PROVE  /\ \A r \in receivers : Share(t, i, r) >= 0
           /\ SumFunctionOnSet([r \in receivers |-> Share(t, i, r)], receivers)
                 <= state.token[t].payments[i].amount
<1>0. state \in TokenStates /\ Divides(state.token[t])
  BY DEF SupplyInv, TypeOK, PaymentsDivide
<1> DEFINE payment == state.token[t].payments[i].amount
           supply == state.token[t].total_supply
           amounts == AmountsOf(state, t)
           shares == [r \in receivers |-> Share(t, i, r)]
<1>1. PICK each \in Nat :
          /\ payment = supply * each
          /\ \A r \in Keys : Holds(state, r, t) => Share(t, i, r) = Amount(state, r, t) * each
  <2>1. payment >= 0
    BY DEF Covered, Due
  <2> QED BY <1>0, <2>1, ShareOfPayment
<1>2. /\ IsFiniteSet(Keys)
      /\ \A k \in Keys : amounts[k] \in Int /\ amounts[k] >= 0
      /\ \A k \in Keys : amounts[k] = Amount(state, k, t)
      /\ supply = SumFunctionOnSet(amounts, Keys)
      /\ supply \in Nat
  <2>1. \A k \in Keys : Amount(state, k, t) >= 0
    BY DEF SupplyInv, NobodyOwes
  <2>2. supply = Total(state, t)
    BY DEF SupplyInv, TotalsAreSupplies, Covered
  <2>3. supply \in Nat
    BY <1>0, IssuedType DEF Token
  <2> QED BY <1>0, <2>1, <2>2, <2>3, AmountsType DEF Total
<1>3. \A r \in receivers : shares[r] = amounts[r] * each /\ shares[r] = Share(t, i, r)
  BY <1>1, <1>2
<1> HIDE DEF payment, supply, amounts, shares
<1>4. \A r \in receivers : shares[r] >= 0
  <2> TAKE r \in receivers
  <2>1. amounts[r] \in Int /\ amounts[r] >= 0 /\ each \in Nat
    BY <1>2
  <2> DEFINE a == amounts[r]
  <2> HIDE DEF a
  <2>2. a * each >= 0
    BY <2>1 DEF a
  <2> QED BY <1>3, <2>2 DEF a
<1>5. IsFiniteSet(receivers)
  BY <1>2, FS_Subset
<1>6. SumFunctionOnSet(shares, receivers) = SumFunctionOnSet(amounts, receivers) * each
  <2>1. \A r \in receivers : amounts[r] \in Int /\ shares[r] = amounts[r] * each
    BY <1>2, <1>3
  <2> QED BY <1>5, <2>1, SumScales
<1>7. SumFunctionOnSet(amounts, receivers) <= supply
  BY <1>2, SumOfPart
<1>8. SumFunctionOnSet(amounts, receivers) \in Int
  BY <1>2, <1>5, SumType
<1>9. SumFunctionOnSet(shares, receivers) <= payment
  <2> DEFINE part == SumFunctionOnSet(amounts, receivers)
  <2>1. part \in Int /\ supply \in Nat /\ part <= supply /\ each \in Nat
    BY <1>2, <1>7, <1>8
  <2> HIDE DEF part
  <2>2. part * each <= supply * each
    BY <2>1
  <2> QED BY <1>1, <1>6, <2>2 DEF part
<1>10. \A r \in receivers : Share(t, i, r) >= 0
  BY <1>3, <1>4
<1> QED BY <1>9, <1>10 DEF payment, shares

(* Nobody receives less than nothing.                                      *)
LEMMA IncomesAreGains ==
    ASSUME SupplyInv, NEW t \in Tokens \ {CASH_TOKEN}, Issued(state, t), Covered(t), NEW ts,
           NEW r \in Keys, Holds(state, r, t)
    PROVE  Income(t, Due(t, ts), r) >= 0
<1> DEFINE due == Due(t, ts)
           shares == [i \in due |-> Share(t, i, r)]
<1>0. state \in TokenStates
  BY DEF SupplyInv, TypeOK
<1>1. IsFiniteSet(due)
  BY <1>0, DueType
<1>2. ASSUME NEW i \in due PROVE shares[i] \in Int /\ shares[i] >= 0
  <2>1. \A x \in {r} : Share(t, i, x) >= 0
    <3>1. {r} \in SUBSET Keys /\ \A x \in {r} : Holds(state, x, t)
      OBVIOUS
    <3> HIDE DEF shares
    <3> QED BY <3>1, SharesWithinPayment
  <2>2. Share(t, i, r) \in Int
    BY <1>0, ShareType
  <2> QED BY <2>1, <2>2
<1>3. Income(t, due, r) = SumFunctionOnSet(shares, due)
  BY DEF Income
<1> HIDE DEF due, shares
<1>4. SumFunctionOnSet(shares, {}) <= SumFunctionOnSet(shares, due)
  <2>1. {} \in SUBSET due
    OBVIOUS
  <2> QED BY <1>1, <1>2, <2>1, SumOfPart
<1>5. Income(t, due, r) >= 0
  <2>1. SumFunctionOnSet(shares, due) \in Int
    BY <1>1, <1>2, SumType
  <2> QED BY <1>3, <1>4, <2>1, SumEmpty
<1> QED BY <1>5 DEF due

(* The issuer has what the payments come to: of the last one due, the      *)
(* shares are no more than the amount the issuer was asked for, and its    *)
(* own share is only added.                                                *)
LEMMA IssuerStaysSolvent ==
    ASSUME SupplyInv, NEW t \in Tokens \ {CASH_TOKEN}, Issued(state, t), Covered(t), NEW ts,
           Due(t, ts) # {}, NEW receivers \in SUBSET Keys,
           \A r \in receivers : Holds(state, r, t),
           state.issuer # None,
           IssuerCanPay(receivers, t, Due(t, ts))
    PROVE  Amount(state, state.issuer, CASH_TOKEN) - Outlay(t, Due(t, ts), receivers) >= 0
<1> DEFINE due == Due(t, ts)
           m == Max(due)
           rest == due \ {m}
           payment == state.token[t].payments[m].amount
           taken == [r \in receivers |-> IF r = state.issuer THEN -Share(t, m, r)
                                                            ELSE Share(t, m, r)]
           all == [r \in receivers |-> Share(t, m, r)]
           shares == SumFunctionOnSet(taken, receivers)
           cash == Amount(state, state.issuer, CASH_TOKEN)
<1>0. state \in TokenStates
  BY DEF SupplyInv, TypeOK
<1>1. m \in due /\ \A i \in due : i \in Int /\ m >= i
  BY <1>0, DueType
<1>2. {j \in due : j < m} = rest
  BY <1>1
<1>3. cash \in Int /\ cash = get_balance(state, state.issuer, CASH_TOKEN).amount
  <2>1. Holds(state, state.issuer, CASH_TOKEN) /\ state.issuer \in Keys
    BY <1>0 DEF SupplyInv, HoldingsAreIssued, TokenStates
  <2> QED BY <1>0, <2>1, AmountType, TokenAssumption DEF Amount
<1>4. cash - Outlay(t, rest, receivers) >= payment
  <2> HIDE DEF m, due
  <2> QED BY <1>1, <1>2, <1>3 DEF IssuerCanPay, due
<1>5. Outlay(t, due, receivers) = shares + Outlay(t, rest, receivers)
  BY <1>0, <1>1, OutlaySplits
<1>6. IsFiniteSet(receivers)
  BY TokenAssumption, FS_Subset
<1>7. ASSUME NEW r \in receivers
      PROVE  taken[r] \in Int /\ all[r] \in Int /\ taken[r] <= all[r]
  <2>1. Share(t, m, r) \in Int
    BY <1>0, <1>1, ShareType
  <2>2. Share(t, m, r) >= 0
    BY <1>1, SharesWithinPayment
  <2>3. /\ taken[r] = IF r = state.issuer THEN -Share(t, m, r) ELSE Share(t, m, r)
        /\ all[r] = Share(t, m, r)
    OBVIOUS
  <2> HIDE DEF taken, all, m, due
  <2> QED BY <2>1, <2>2, <2>3
<1>8. SumFunctionOnSet(all, receivers) <= payment
  BY <1>1, SharesWithinPayment
<1>9. shares <= payment /\ shares \in Int /\ payment \in Int
  <2>1. payment \in Int
    BY <1>0, <1>1, DueType DEF Payment
  <2> HIDE DEF taken, all, payment
  <2>2. /\ SumFunctionOnSet(all, receivers) \in Int
        /\ SumFunctionOnSet(taken, receivers) \in Int
        /\ SumFunctionOnSet(taken, receivers) <= SumFunctionOnSet(all, receivers)
    BY <1>6, <1>7, SumType, SumLess
  <2> QED BY <1>8, <2>1, <2>2
<1>10. /\ Outlay(t, rest, receivers) \in Int
       /\ Outlay(t, due, receivers) \in Int
  BY <1>0, OutlayType
<1> HIDE DEF cash, payment, shares, rest, due
<1>11. cash - Outlay(t, due, receivers) >= 0
  BY <1>3, <1>4, <1>5, <1>9, <1>10
<1> QED BY <1>11 DEF cash, due

(* What a heartbeat leaves of everybody's cash.                            *)
LEMMA CashAmounts ==
    ASSUME SupplyInv, NEW t \in Tokens, Issued(state, t), NEW ts,
           NEW receivers \in SUBSET Keys, \A r \in receivers : Holds(state, r, t),
           state.issuer # None,
           AfterPayment(state', state, CASH_TOKEN, CashAfter(receivers, t, Due(t, ts)))
    PROVE  LET due == Due(t, ts) IN
           /\ \A k \in Keys, v \in Tokens :
                 Holds(state, k, v) => Holds(state', k, v)
           /\ \A k \in Keys, v \in Tokens :
                 v # CASH_TOKEN \/ k \notin receivers \cup {state.issuer} =>
                    /\ Holds(state', k, v) <=> Holds(state, k, v)
                    /\ Amount(state', k, v) = Amount(state, k, v)
           /\ Amount(state', state.issuer, CASH_TOKEN) =
                 Amount(state, state.issuer, CASH_TOKEN) - Outlay(t, due, receivers)
           /\ \A k \in receivers \ {state.issuer} :
                 Amount(state', k, CASH_TOKEN) =
                    Amount(state, k, CASH_TOKEN) + Income(t, due, k)
<1> DEFINE due == Due(t, ts)
           balances == CashAfter(receivers, t, due)
<1>0. /\ state \in TokenStates /\ CASH_TOKEN \in Tokens
      /\ state.issuer \in Keys
  BY TokenAssumption DEF SupplyInv, TypeOK, TokenStates
<1>1. ASSUME NEW k \in Keys, NEW v \in Tokens
      PROVE  get_balance(state', k, v) =
                IF v = CASH_TOKEN THEN balances[k] ELSE get_balance(state, k, v)
  <2> HIDE DEF balances
  <2>1. AfterPayment(state', state, CASH_TOKEN, balances)
    BY DEF balances
  <2> QED BY <2>1 DEF AfterPayment, get_balance
<1>2. balances[state.issuer] =
          Credit(get_balance(state, state.issuer, CASH_TOKEN), -Outlay(t, due, receivers))
  BY <1>0 DEF CashAfter
<1>3. \A k \in receivers \ {state.issuer} :
          balances[k] = Credit(get_balance(state, k, CASH_TOKEN), Income(t, due, k))
  BY DEF CashAfter
<1>4. \A k \in Keys : k \notin receivers \cup {state.issuer} =>
          balances[k] = get_balance(state, k, CASH_TOKEN)
  BY DEF CashAfter
<1>5. Outlay(t, due, receivers) \in Int /\ \A r \in receivers : Income(t, due, r) \in Int
  BY <1>0, OutlayType, IncomeType
<1> HIDE DEF balances, due
<1>6. /\ Holds(state', state.issuer, CASH_TOKEN)
      /\ Amount(state', state.issuer, CASH_TOKEN) =
            Amount(state, state.issuer, CASH_TOKEN) - Outlay(t, due, receivers)
  <2> DEFINE o == Outlay(t, due, receivers)
  <2>1. get_balance(state', state.issuer, CASH_TOKEN) =
            Credit(get_balance(state, state.issuer, CASH_TOKEN), -o)
    BY <1>0, <1>1, <1>2
  <2>2. o \in Int
    BY <1>5
  <2> HIDE DEF o
  <2>3. -o \in Int /\ Amount(state, state.issuer, CASH_TOKEN) \in Int
    BY <1>0, <2>2, AmountType
  <2>4. /\ Holds(state', state.issuer, CASH_TOKEN)
        /\ Amount(state', state.issuer, CASH_TOKEN) =
              Amount(state, state.issuer, CASH_TOKEN) + (-o)
    BY <1>0, <2>1, <2>3, CreditAdds
  <2>5. Amount(state', state.issuer, CASH_TOKEN) = Amount(state, state.issuer, CASH_TOKEN) - o
    BY <2>2, <2>3, <2>4
  <2> QED BY <2>4, <2>5 DEF o
<1>7. ASSUME NEW k \in receivers \ {state.issuer}
      PROVE  /\ Holds(state', k, CASH_TOKEN)
             /\ Amount(state', k, CASH_TOKEN) = Amount(state, k, CASH_TOKEN) + Income(t, due, k)
  <2>1. get_balance(state', k, CASH_TOKEN) =
            Credit(get_balance(state, k, CASH_TOKEN), Income(t, due, k))
    BY <1>0, <1>1, <1>3
  <2> QED BY <1>0, <1>5, <2>1, CreditAdds
<1>8. ASSUME NEW k \in Keys, NEW v \in Tokens,
             v # CASH_TOKEN \/ k \notin receivers \cup {state.issuer}
      PROVE  /\ Holds(state', k, v) <=> Holds(state, k, v)
             /\ Amount(state', k, v) = Amount(state, k, v)
  <2>1. get_balance(state', k, v) = get_balance(state, k, v)
    BY <1>1, <1>4, <1>8
  <2> QED BY <2>1 DEF Holds, Amount
<1>9. \A k \in Keys, v \in Tokens : Holds(state, k, v) => Holds(state', k, v)
  BY <1>6, <1>7, <1>8
<1> QED BY <1>6, <1>7, <1>8, <1>9 DEF due

(* What the holders get is what the issuer gives.                          *)
LEMMA CashTotal ==
    ASSUME SupplyInv, TypeOK', NEW t \in Tokens, Issued(state, t), NEW ts,
           NEW receivers \in SUBSET Keys, \A r \in receivers : Holds(state, r, t),
           state.issuer # None, state.issuer \notin receivers,
           AfterPayment(state', state, CASH_TOKEN, CashAfter(receivers, t, Due(t, ts)))
    PROVE  Total(state', CASH_TOKEN) = Total(state, CASH_TOKEN)
<1> DEFINE due == Due(t, ts)
           outlay == Outlay(t, due, receivers)
           incomes == [r \in receivers |-> Income(t, due, r)]
           before == AmountsOf(state, CASH_TOKEN)
           after == AmountsOf(state', CASH_TOKEN)
           change == [k \in Keys |-> IF k = state.issuer THEN -outlay
                                     ELSE IF k \in receivers THEN Income(t, due, k) ELSE 0]
<1>0. /\ state \in TokenStates /\ state' \in TokenStates /\ CASH_TOKEN \in Tokens
      /\ state.issuer \in Keys
  BY TokenAssumption DEF SupplyInv, TypeOK, TokenStates
<1>1. /\ IsFiniteSet(Keys)
      /\ \A k \in Keys : before[k] \in Int /\ after[k] \in Int
      /\ Total(state, CASH_TOKEN) = SumFunctionOnSet(before, Keys)
      /\ Total(state', CASH_TOKEN) = SumFunctionOnSet(after, Keys)
  BY <1>0, AmountsType DEF Total
<1>2. outlay \in Int /\ \A r \in receivers : Income(t, due, r) \in Int
  BY <1>0, OutlayType, IncomeType
<1>3. outlay = SumFunctionOnSet(incomes, receivers)
  BY OutlayOfHolders
<1>4. /\ change[state.issuer] = -outlay
      /\ \A k \in receivers : change[k] = incomes[k]
      /\ \A k \in (Keys \ {state.issuer}) \ receivers : change[k] = 0
  BY <1>0
<1>5. \A k \in Keys : change[k] \in Int
  BY <1>2
<1>6. /\ after[state.issuer] = before[state.issuer] - outlay
      /\ \A k \in receivers : after[k] = before[k] + incomes[k]
      /\ \A k \in (Keys \ {state.issuer}) \ receivers : after[k] = before[k]
  <2>1. \A k \in Keys : /\ before[k] = Amount(state, k, CASH_TOKEN)
                        /\ after[k] = Amount(state', k, CASH_TOKEN)
    BY DEF AmountsOf
  <2>2. \A k \in receivers : incomes[k] = Income(t, due, k)
    OBVIOUS
  <2> HIDE DEF before, after, incomes, change
  <2> QED BY <1>0, <2>1, <2>2, CashAmounts
<1> HIDE DEF outlay, incomes, before, after, change
<1>7. ASSUME NEW k \in Keys PROVE after[k] = before[k] + change[k]
  <2>0. before[k] \in Int /\ after[k] \in Int
    BY <1>1
  <2>1. CASE k = state.issuer
    BY <1>2, <1>4, <1>6, <2>0, <2>1
  <2>2. CASE k \in receivers
    BY <1>4, <1>6, <2>2
  <2>3. CASE k \in (Keys \ {state.issuer}) \ receivers
    BY <1>4, <1>6, <2>0, <2>3
  <2> QED BY <2>1, <2>2, <2>3
<1>8. SumFunctionOnSet(after, Keys) =
          SumFunctionOnSet(before, Keys) + SumFunctionOnSet(change, Keys)
  BY <1>1, <1>5, <1>7, SumAdds
<1>9. SumFunctionOnSet(change, Keys) =
          change[state.issuer] + SumFunctionOnSet(change, Keys \ {state.issuer})
  BY <1>0, <1>1, <1>5, SumSplit
<1>10. SumFunctionOnSet(change, Keys \ {state.issuer}) = SumFunctionOnSet(change, receivers)
  <2>1. IsFiniteSet(Keys \ {state.issuer})
    BY <1>1, FS_Subset
  <2>2. receivers \in SUBSET (Keys \ {state.issuer})
    OBVIOUS
  <2> QED BY <1>4, <1>5, <2>1, <2>2, SumOutside
<1>11. SumFunctionOnSet(change, receivers) = SumFunctionOnSet(incomes, receivers)
  <2>1. IsFiniteSet(receivers)
    BY <1>1, FS_Subset
  <2> QED BY <1>4, <2>1, SumSame
<1>12. SumFunctionOnSet(change, Keys) = 0
  BY <1>2, <1>3, <1>4, <1>9, <1>10, <1>11
<1>13. SumFunctionOnSet(before, Keys) \in Int
  BY <1>1, SumType
<1> QED BY <1>1, <1>8, <1>12, <1>13

(* A heartbeat of any number of payments keeps the totals.                 *)
LEMMA PaidStep ==
    ASSUME SupplyInv, TypeOK', Paid
    PROVE  SupplyInv'
<1> PICK receivers \in SUBSET Keys, t \in Tokens, ts \in Times : PaidOn(receivers, t, ts)
  BY DEF Paid
<1> DEFINE due == Due(t, ts)
<1>0. /\ state \in TokenStates /\ state' \in TokenStates /\ CASH_TOKEN \in Tokens
      /\ state.issuer \in Keys \cup {None}
  BY TokenAssumption DEF SupplyInv, TypeOK, TokenStates
<1>1. /\ state.issuer # None
      /\ Issued(state, t) /\ Issued(state, CASH_TOKEN)
      /\ \A r \in receivers : Holds(state, r, t)
      /\ due # {} /\ IssuerCanPay(receivers, t, due)
      /\ AfterPayment(state', state, CASH_TOKEN, CashAfter(receivers, t, due))
      /\ inflated' = IF state.issuer \in receivers THEN inflated \cup {CASH_TOKEN}
                                                    ELSE inflated
  BY DEF PaidOn, MayHeartbeat, Active
<1>2. state'.token = state.token /\ state'.issuer = state.issuer
  BY <1>1 DEF AfterPayment, SameAccounts, SameRoles
<1>3. HoldingsAreIssued(state')
  <2>1. \A k \in Keys, v \in Tokens : Holds(state, k, v) => Holds(state', k, v)
    BY <1>1, CashAmounts
  <2>2. \A k \in Keys, v \in Tokens :
            v # CASH_TOKEN => (Holds(state', k, v) <=> Holds(state, k, v))
    BY <1>1, CashAmounts
  <2> HIDE DEF due
  <2> QED BY <1>0, <1>1, <1>2, <2>1, <2>2 DEF SupplyInv, HoldingsAreIssued, Issued
<1>4. PaymentsDivide(state')
  BY <1>2 DEF SupplyInv, PaymentsDivide, Issued
<1>5. TotalsAreSupplies(state', inflated')
  <2> SUFFICES ASSUME NEW v \in Tokens \ inflated', Issued(state', v)
               PROVE  state'.token[v].total_supply = Total(state', v)
    BY DEF TotalsAreSupplies
  <2>1. v \notin inflated /\ (v = CASH_TOKEN => state.issuer \notin receivers)
    BY <1>1
  <2>2. Total(state', v) = Total(state, v)
    <3>1. CASE v = CASH_TOKEN
      BY <1>1, <2>1, <3>1, CashTotal
    <3>2. CASE v # CASH_TOKEN
      <4>1. \A k \in Keys : Amount(state', k, v) = Amount(state, k, v)
        BY <1>1, <3>2, CashAmounts
      <4> QED BY <4>1, SameTotals
    <3> QED BY <3>1, <3>2
  <2> QED BY <1>2, <2>1, <2>2 DEF SupplyInv, TotalsAreSupplies, Issued
<1>6. CashPaysNothing(state')
  BY <1>2 DEF SupplyInv, CashPaysNothing, Issued
<1>7. CashIsCovered(state, inflated) => t # CASH_TOKEN /\ Covered(t)
  <2>1. state.token[t].payments # <<>>
    BY DEF PaidOn, MayHeartbeat
  <2>2. t # CASH_TOKEN
    BY <1>1, <2>1 DEF SupplyInv, CashPaysNothing
  <2> QED BY <1>1, <2>1, <2>2 DEF CashIsCovered, Covered
<1>8. NobodyOwes(state', inflated')
  <2> SUFFICES ASSUME NEW k \in Keys, NEW v \in Tokens,
                      v = CASH_TOKEN => CashIsCovered(state', inflated')
               PROVE  Amount(state', k, v) >= 0
    BY DEF NobodyOwes
  <2>1. v = CASH_TOKEN => CashIsCovered(state, inflated)
    <3>1. inflated \subseteq inflated'
      BY <1>1
    <3> QED BY <1>2, <3>1, CoverLasts DEF Issued
  <2>2. Amount(state, k, v) >= 0 /\ Amount(state, k, v) \in Int
    BY <1>0, <2>1, AmountType DEF SupplyInv, NobodyOwes
  <2>3. CASE v # CASH_TOKEN \/ k \notin receivers \cup {state.issuer}
    <3>1. Amount(state', k, v) = Amount(state, k, v)
      BY <1>1, <2>3, CashAmounts
    <3> QED BY <2>2, <3>1
  <2>4. CASE v = CASH_TOKEN /\ k = state.issuer
    <3>1. Amount(state', state.issuer, CASH_TOKEN) =
              Amount(state, state.issuer, CASH_TOKEN) - Outlay(t, due, receivers)
      BY <1>1, CashAmounts
    <3>2. Amount(state, state.issuer, CASH_TOKEN) - Outlay(t, due, receivers) >= 0
      BY <1>1, <1>7, <2>1, <2>4, IssuerStaysSolvent
    <3> QED BY <2>4, <3>1, <3>2
  <2>5. CASE v = CASH_TOKEN /\ k \in receivers \ {state.issuer}
    <3>1. Amount(state', k, CASH_TOKEN) = Amount(state, k, CASH_TOKEN) + Income(t, due, k)
      BY <1>1, <2>5, CashAmounts
    <3>2. Income(t, due, k) >= 0
      BY <1>1, <1>7, <2>1, <2>5, IncomesAreGains
    <3>3. Income(t, due, k) \in Int
      BY <1>0, <1>1, <2>5, IncomeType
    <3> HIDE DEF due
    <3> QED BY <2>2, <2>5, <3>1, <3>2, <3>3
  <2> QED BY <2>3, <2>4, <2>5
<1> QED BY <1>3, <1>4, <1>5, <1>6, <1>8 DEF SupplyInv

(* Every step keeps the invariant.                                         *)
LEMMA SupplyStep ==
    ASSUME SupplyInv, TypeOK', StepKinds
    PROVE  SupplyInv'
<1>1. CASE UNCHANGED vars
  BY <1>1 DEF vars, SupplyInv
<1> QED BY <1>1, QuietStep, IssuedStep, TransferStep, PaidStep DEF StepKinds

(* The supplies are held, with what that rests on.                         *)
LEMMA SupplyInvariant == Spec => []SupplyInv
<1>1. Init => SupplyInv
  <2> SUFFICES ASSUME Init PROVE SupplyInv
    OBVIOUS
  <2>1. /\ \A t \in Tokens : ~Issued(state, t)
        /\ \A k \in Keys, t \in Tokens : ~Holds(state, k, t)
        /\ state.issuer = None
    BY DEF Init, EmptyState, Issued, Holds, get_balance
  <2>2. \A k \in Keys, t \in Tokens : Amount(state, k, t) = 0
    BY <2>1 DEF Amount
  <2> QED BY <2>1, <2>2, StartsTyped
          DEF SupplyInv, HoldingsAreIssued, PaymentsDivide, TotalsAreSupplies,
              CashPaysNothing, NobodyOwes
<1>2. SupplyInv /\ TypeOK' /\ [Next]_vars => SupplyInv'
  <2> SUFFICES ASSUME SupplyInv, TypeOK', [Next]_vars PROVE SupplyInv'
    OBVIOUS
  <2>1. Shaped(state)
    BY StatesAreShaped DEF SupplyInv, TypeOK
  <2> QED BY <2>1, EveryStepHasAKind, SupplyStep
<1> QED BY <1>1, <1>2, TypeCorrect, PTL DEF Spec

(* Of a token nobody has paid to itself, the holders together hold the     *)
(* total supply, whatever transfers and heartbeats there were.             *)
THEOREM SuppliesHeld == Spec => []SupplyIsHeld
BY SupplyInvariant, SuppliesAreHeld, PTL

(* No account owes a token: one check for each payment of a heartbeat,     *)
(* against its whole amount, is enough for all who receive a share of it,  *)
(* the issuer among them, whatever payments fall due on one day.  Only     *)
(* cash may be owed, once a token promises a negative payment or, with     *)
(* payments, is paid to oneself.                                           *)
THEOREM NobodyInDebt == Spec => []NoDebt
BY SupplyInvariant, SuppliesAreHeld, PTL
=============================================================================
