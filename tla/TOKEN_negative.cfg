SPECIFICATION Spec
CONSTANTS
    k1 = k1
    k2 = k2
    k3 = k3
    cash = cash
    bond = bond
    none = none
    plain = plain
    day1 = day1
    day2 = day2
    Keys <- MCTwoKeys
    Tokens <- MCTokens
    CASH_TOKEN = cash
    EndorsementKeys <- MCEndorsementKeys
    Attributes <- MCPlain
    NoAttributes = plain
    Dates <- MCDates
    Times <- MCTimes
    DateOf <- MCDateOf
    None = none
    CASH_SUPPLY = 4
    Supplies <- MCSupplies
    TransferEndorsements = {TRUE, FALSE}
    Schedules <- MCNegativeOnly
    AskedStatuses <- Statuses
    ImmutablesLists <- MCImmutablesLists
    Endorsements <- MCNoEndorsements
    Amounts <- MCAmounts
    MaxBalance = 6
    MaxTransfers = 1
    MaxImmutables <- MCMaxImmutables
INVARIANT NothingOwed
CHECK_DEADLOCK FALSE
