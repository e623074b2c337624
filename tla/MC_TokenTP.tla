---------------------------- MODULE MC_TokenTP ----------------------------
(* Values for the constants of small instances of TokenTP. *)
EXTENDS TokenTP, TLC

CONSTANTS k1, k2, k3, cash, bond, none, plain, day1, day2

MCThreeKeys == {k1, k2, k3}
MCTwoKeys == {k1, k2}
MCTokens == {cash, bond}
MCEndorsementKeys == {"blacklist", "whitelist"}
MCPlain == {plain}
MCDates == {day1, day2}
MCTimes == {1}
MCDateOf == [ts \in Times |-> day1]

MCNoEndorsements == {{}}
MCSupplies == {0, 2}
MCAmounts == {-1, 1}
MCPayment(day, amount) == [date |-> day, amount |-> amount]
MCTwice == <<MCPayment(day1, 2), MCPayment(day1, 2)>>
MCNegative == <<MCPayment(day2, 2), MCPayment(day1, -2)>>
MCSchedules == {MCTwice, MCNegative}
MCNegativeOnly == {MCNegative}
MCImmutablesLists == {<<[key |-> "other", value |-> {}]>>}
MCMaxImmutables == [t \in Tokens |-> IF t = bond THEN 1 ELSE 0]

Symmetry == Permutations(Keys)
=============================================================================
