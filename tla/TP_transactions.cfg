SPECIFICATION Spec
CONSTANTS
    alice = alice
    bob = bob
    r1 = r1
    r2 = r2
    blank = blank
    NoOne = NoOne
    Keys <- MC_Keys
    EmptyId = blank
    RecordIds <- MC_RecordIds
    AgentAddresses <- MC_Keys
    RecordAddresses <- MC_RecordAddresses
    get_agent_address <- MC_AgentsApart
    get_record_address <- MC_CollidingRecords
    Latitudes <- MC_Latitudes
    Longitudes <- MC_OneLongitude
    SYNC_TOLERANCE = 0
    MaxClock = 1
    MaxOwners <- MC_MaxOwners
    MaxLocations <- MC_MaxLocations
SYMMETRY MC_Symmetry
INVARIANTS TypeOK EntriesUniqueAndPlaced OwnersRegistered
INVARIANT HistoryNeverAheadOfTolerance
INVARIANT ParallelTransactionsCommute
PROPERTIES HistoriesOnlyGrow NewestTimestampDecides OwnerConsents
PROPERTY ImplementsRecordOwnership
