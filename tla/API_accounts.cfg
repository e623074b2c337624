SPECIFICATION Spec
CONSTANTS
    alice = alice
    bob = bob
    r1 = r1
    blank = blank
    Keys <- MC_Keys
    EmptyId = blank
    RecordIds <- MC_RecordIds
    AgentAddresses <- MC_AgentAddresses
    RecordAddresses <- MC_RecordAddresses
    get_agent_address <- MC_get_agent_address
    get_record_address <- MC_get_record_address
    SYNC_TOLERANCE = 0
    Earlier <- MC_Earlier
    Latitudes = {0}
    Longitudes = {0}
    MaxRequests = 3
    MaxClock = 1
    MaxFaults = 1
INVARIANT TypeOK
INVARIANT AccountsAreAgents
INVARIANT OkMeansDone
INVARIANT BadRequestMeansNever
INVARIANT AnsweredTransferStands
PROPERTY EveryRequestEnds
CHECK_DEADLOCK FALSE
