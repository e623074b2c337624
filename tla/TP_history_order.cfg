SPECIFICATION Spec
CONSTANTS
    alice = alice
    bob = bob
    r1 = r1
    r2 = r2
    blank = blank
    NoOne = NoOne
    Keys <- MC_Keys
    EmptyId = blank
    RecordIds <- MC_OneRecord
    AgentAddresses <- MC_AgentAddresses
    RecordAddresses <- MC_RecordAddresses
    get_agent_address <- MC_CollidingAgents
    get_record_address <- MC_OneRecordAddress
    Latitudes <- MC_OneLatitude
    Longitudes <- MC_OneLongitude
    SYNC_TOLERANCE = 1
    MaxClock = 0
    MaxOwners <- MC_TwoOwners
    MaxLocations <- MC_OneLocation
SYMMETRY MC_Symmetry
INVARIANT HistoriesOrderedByTimestamp
