SPECIFICATION Spec
CONSTANTS
    alice = alice
    r1 = r1
    r2 = r2
    NULL = NULL
    MAX_BLOCK_NUMBER = 99
    BlockIds <- MC_BlockIds
    KNOWN_COUNT = 1
    MaxBlocks = 5
    MaxChanges = 2
    MaxForks = 2
    MaxFaults = 1
    DatabaseMayFail = TRUE
    Keys = {alice}
    RecordIds = {r1}
INVARIANT TypeOK
INVARIANT OneRowReported
INVARIANT NothingOfDroppedBlocks
INVARIANT ReportedOwnersAreOneVersion
CHECK_DEADLOCK FALSE
