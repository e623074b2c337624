SPECIFICATION Spec
CONSTANTS
    alice = alice
    bob = bob
    r1 = r1
    blank = blank
    v1 = v1
    v2 = v2
    Keys <- MC_Keys
    EmptyId = blank
    RecordIds <- MC_RecordIds
    AgentAddresses <- MC_AgentAddresses
    RecordAddresses <- MC_RecordAddresses
    get_agent_address <- MC_get_agent_address
    get_record_address <- MC_get_record_address
    SYNC_TOLERANCE = 2
    ClockError = 1
    ClientError = 1
    Validators = {v1, v2}
    Latitudes = {0}
    Longitudes = {0}
    MaxBlocks = 4
    MaxTime = 2
INVARIANT TypeOK
INVARIANT NoBlockRefused
PROPERTY EveryoneCatchesUp
CHECK_DEADLOCK FALSE
