SPECIFICATION LiveSpec
CONSTANTS
    s1 = s1
    s2 = s2
    g1 = g1
    j1 = j1
    j2 = j2
    c1 = c1
    c2 = c2
    c3 = c3
    NoConn = NoConn
    Jobs = {j1}
    Streams = {s1, s2}
    GrpcStreams = {}
    Of <- OneJob
    Conns = {c1, c2, c3}
    MaxUpdates <- OneUpdates
    MaxMishaps = 1
PROPERTIES
    EndIsDelivered
CHECK_DEADLOCK FALSE
