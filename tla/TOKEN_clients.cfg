SPECIFICATION ApiSpec
CONSTANTS
    k1 = k1
    k2 = k2
    cash = cash
    bond = bond
    none = none
    plain = plain
    marked = marked
    day1 = day1
    day2 = day2
    Keys <- MC_Keys
    Tokens <- MC_Tokens
    CASH_TOKEN = cash
    EndorsementKeys <- MC_EndorsementKeys
    Attributes <- MC_Attributes
    NoAttributes = plain
    Dates <- MC_Dates
    Times = {1, 2}
    DateOf <- MC_DateOf
    None = none
    CASH_SUPPLY = 4
    Supplies = {2}
    TransferEndorsements = {TRUE, FALSE}
    Schedules <- MC_Schedules
    AskedStatuses <- Statuses
    ImmutablesLists <- MC_ImmutablesLists
    Endorsements <- MC_Endorsements
    Amounts = {2}
    MaxBalance = 9
    MaxTransfers = 9
    MaxImmutables <- MC_MaxImmutables
    Earlier <- MC_Earlier
    Calls <- MC_Calls
    order <- MC_order
    retry_num = 2
    MaxCalls = 3
    MaxFaults = 1
INVARIANT ApiTypeOK
INVARIANT OnlyManagersAnnotate
INVARIANT AttributesStay
INVARIANT ListsStayValid
INVARIANT AnswersAreTrue
PROPERTY EveryCallEnds
PROPERTIES ReactivationDoesNothingElse ReceiversNarrow WritesAreDeclared
CHECK_DEADLOCK FALSE
