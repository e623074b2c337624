----------------------------- MODULE MC_TokenApi -----------------------------
(* Small instances of TokenApi. *)
EXTENDS TokenApi, TLC

CONSTANTS k1, k2, cash, bond, none, plain, marked, day1, day2

MC_Keys == {k1, k2}
MC_Tokens == {cash, bond}
MC_EndorsementKeys == {"blacklist", "whitelist"}
MC_Attributes == {plain, marked}
MC_Dates == {day1, day2}
MC_DateOf == [ts \in Times |-> IF ts = 1 THEN day1 ELSE day2]
MC_Schedules == {<<>>, <<[date |-> day1, amount |-> 2]>>}
MC_Rule(keys) == <<[key |-> "endorsement", value |-> keys]>>
MC_ImmutablesLists == {MC_Rule({}), MC_Rule({"whitelist"})}
MC_MaxImmutables == [t \in Tokens |-> 9]
MC_Endorsements == {{}, {"whitelist"}}

(* Nothing yet; or k1 as manager with a bond, and k2 as issuer who holds   *)
(* none of it and has paid k1, on whose cash attributes were set.          *)
MC_Bond ==
    [issuer_pkey |-> k1, total_supply |-> 2, status |-> "ACTIVE",
     transferendorsement |-> FALSE, payments |-> <<[date |-> day1, amount |-> 2]>>,
     immutables |-> <<>>]
MC_Roles ==
    issue_token(set_issuer(set_manager(EmptyState, k1, {}), k2, {}), CASH_TOKEN, CashToken(k2))
MC_InUse ==
    [transfer(issue_token(MC_Roles, bond, MC_Bond), CASH_TOKEN, k2, k1, 2, 0)
        EXCEPT !.transfers = {},
               !.account_token[<<k1, CASH_TOKEN>>].attributes = marked,
               !.token_account[<<CASH_TOKEN, k1>>].attributes = marked]
MC_Earlier == {EmptyState, MC_InUse}

MC_Order(k, call) == [client |-> "rest", signer |-> k, call |-> call]
MC_Command(k, wait, call) == [client |-> "cli", signer |-> k, wait |-> wait, call |-> call]
MC_order ==
  <<MC_Order(k2, [action |-> "set_manager", endorsement |-> {}]),
    MC_Order(k1, [action |-> "set_issuer", endorsement |-> {}]),
    MC_Order(k2, [action |-> "set_account", endorsement |-> {}]),
    MC_Order(k1, [action |-> "set_endorsement", account |-> k2,
                  endorsement |-> {"whitelist"}]),
    MC_Command(k2, FALSE, [action |-> "issue_token", token |-> cash, supply |-> 2,
                           endorsed |-> FALSE, schedule |-> <<>>]),
    MC_Order(k1, [action |-> "set_immutables", token |-> bond, immutables |-> MC_Rule({})]),
    MC_Order(k1, [action |-> "set_immutables", token |-> bond,
                  immutables |-> MC_Rule({"whitelist"})]),
    MC_Order(k1, [action |-> "set_token_status", token |-> bond, status |-> "INACTIVE"]),
    MC_Order(k1, [action |-> "set_token_status", token |-> bond, status |-> "ACTIVE"]),
    MC_Command(k1, FALSE, [action |-> "transfer", token |-> bond, receiver |-> k2,
                           amount |-> 2, date |-> 1]),
    MC_Command(k2, TRUE, [action |-> "heartbeat", token |-> bond, date |-> 1,
                          issuer |-> k2]),
    MC_Command(k2, FALSE, [action |-> "heartbeat", token |-> bond, date |-> 2,
                           issuer |-> k1]),
    MC_Order(k1, [action |-> "set_balance_attributes", account |-> k2,
                  attributes |-> marked])>>
MC_Calls == DOMAIN MC_order
=============================================================================
