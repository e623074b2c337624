SPECIFICATION QueriesSpec
CONSTANTS
    alice = alice
    r1 = r1
    r2 = r2
    NULL = NULL
    MAX_BLOCK_NUMBER = 99
    BlockIds <- MC_BlockIds
    KNOWN_COUNT = 1
    MaxBlocks = 5
    MaxChanges = 1
    MaxForks = 0
    MaxFaults = 2
    DatabaseMayFail = FALSE
    Keys = {alice}
    RecordIds = {r1, r2}
PROPERTY FollowsLedger
PROPERTY EventuallyCurrent
INVARIANT AnswersAreFresh
CHECK_DEADLOCK FALSE
