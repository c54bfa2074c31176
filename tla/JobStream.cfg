SPECIFICATION Spec
CONSTANTS
    s1 = s1
    s2 = s2
    g1 = g1
    j1 = j1
    j2 = j2
    c1 = c1
    c2 = c2
    c3 = c3
    NoConn = NoConn
    Jobs = {j1, j2}
    Streams = {s1, s2, g1}
    GrpcStreams = {g1}
    Of <- TwoJobs
    Conns = {c1, c2}
    MaxUpdates <- TwoUpdates
    MaxMishaps = 1
SYMMETRY ConnSymmetry
INVARIANTS
    TypeOK
    NoLostWakeup
    ConnsAccounted
PROPERTIES
    ImplementsWatch
CHECK_DEADLOCK FALSE
