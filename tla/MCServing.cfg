CONSTANTS
    u1 = u1
    u2 = u2
    u3 = u3
    p1 = p1
    Upload <- MCUpload
    Probe = {p1}
    FileOf <- MCFileOf
    PoolSize = 2
    Workers = 1
    MaxFaults = 1
    Null = Null
SPECIFICATION FairSpec
INVARIANTS TypeOK IInv ConnectionsAccounted OneThreadPerUpload QueuedCallsAreAwaited
PROPERTIES ImplementsExecutor EveryRequestAnswered ConnectionsReturn
