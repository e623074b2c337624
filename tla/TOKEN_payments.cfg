SPECIFICATION Spec
CONSTANTS
    k1 = k1
    k2 = k2
    k3 = k3
    cash = cash
    bond = bond
    none = none
    plain = plain
    day1 = day1
    day2 = day2
    Keys <- MCThreeKeys
    Tokens <- MCTokens
    CASH_TOKEN = cash
    EndorsementKeys <- MCEndorsementKeys
    Attributes <- MCPlain
    NoAttributes = plain
    Dates <- MCDates
    Times <- MCTimes
    DateOf <- MCDateOf
    None = none
    CASH_SUPPLY = 4
    Supplies <- MCSupplies
    TransferEndorsements = {FALSE}
    Schedules <- MCSchedules
    AskedStatuses = {"ACTIVE", "INACTIVE"}
    ImmutablesLists <- MCImmutablesLists
    Endorsements <- MCNoEndorsements
    Amounts <- MCAmounts
    MaxBalance = 4
    MaxTransfers = 3
    MaxImmutables <- MCMaxImmutables
SYMMETRY Symmetry
INVARIANTS TypeOK HoldersRegistered SupplyIsHeld NoDebt BalanceCopiesAgree
PROPERTY FrozenWhileInactive
CHECK_DEADLOCK FALSE
