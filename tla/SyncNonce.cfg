SPECIFICATION SyncSpec
CONSTANTS
    Users = {1, 2}
    r1 = r1
    r2 = r2
    r3 = r3
    i1 = i1
    i2 = i2
    d1 = d1
    d2 = d2
    None = None
    Requests = {r2, r3}
    Instances = {i1, i2}
    Home <- MCHome
    MaxConns = 1
    MaxInt = 7
    Opening <- MCOpening
    Devices = {d1, d2}
    DeviceUser <- MCDeviceUser
    Registered = {}
    Batches <- SplitBatches
INVARIANT
    DuplicateIsProcessed
