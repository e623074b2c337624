SPECIFICATION Spec
CONSTANTS
    alice = alice
    r1 = r1
    r2 = r2
    NULL = NULL
    MAX_BLOCK_NUMBER = 99
    BlockIds <- MC_BlockIds
    KNOWN_COUNT = 1
    MaxBlocks = 4
    MaxChanges = 1
    MaxForks = 1
    MaxFaults = 0
    DatabaseMayFail = FALSE
    Keys = {alice}
    RecordIds = {r1}
INVARIANT NoLocationOutlivesItsBlock
CHECK_DEADLOCK FALSE
