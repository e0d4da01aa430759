SPECIFICATION SimFairSpec
CONSTANTS
    Users = {1, 2, 3}
    r1 = r1
    r2 = r2
    r3 = r3
    i1 = i1
    d1 = d1
    d2 = d2
    d3 = d3
    None = None
    Requests = {r1, r2}
    Instances = {i1}
    Home <- MCHome
    MaxConns = 1
    MaxInt = 9
    Opening <- MCOpening
    Devices = {d1, d2, d3}
    DeviceUser <- MCDeviceUser
    Registered = {d1, d2, d3}
    Batches <- DealtBatches
    NumTxs = 4
    BatchSize = 3
    Draws <- MCDraws
    Ids <- MCIds
INVARIANTS
    SimTypeOK
    AuditPasses
    EveryVoucherCounted
    RefusedWasOvertaken
    SolventVouchersPay
PROPERTY
    SimulationEnds
CHECK_DEADLOCK FALSE
