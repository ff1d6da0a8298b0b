CONSTANTS
    u1 = u1
    u2 = u2
    u3 = u3
    p1 = p1
    Upload <- MCUpload
    Probe = {p1}
    FileOf <- MCFileOf
    PoolSize = 2
    Workers = 1
    MaxFaults = 0
    Null = Null
SPECIFICATION Spec
INVARIANT HealthyMeansOK
