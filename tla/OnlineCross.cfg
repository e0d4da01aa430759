SPECIFICATION OnlineSpec
CONSTANTS
    Users = {1, 2}
    r1 = r1
    r2 = r2
    r3 = r3
    i1 = i1
    i2 = i2
    None = None
    Requests = {r1, r2, r3}
    Instances = {i1, i2}
    Home <- MCHome
    MaxConns = 2
    MaxInt = 6
    Opening <- MCOpening
    Transfers <- CrossTransfers
    UseMemory = {}
    Redis = Redis
INVARIANT
    NoLockCycle
