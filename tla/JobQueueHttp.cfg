SPECIFICATION Spec
CONSTANTS
    g1 = g1
    g2 = g2
    h1 = h1
    h2 = h2
    j1 = j1
    j2 = j2
    j3 = j3
    d1 = d1
    d2 = d2
    NoJob = NoJob
    NoDevice = NoDevice
    Jobs = {j1, j2}
    Workers = {h1, h2}
    HttpWorkers = {h1, h2}
    Devices = {d1}
    Source <- HttpSource
    Requested <- HttpRequested
    On <- HttpOn
    Serves <- HttpServes
    MaxConcurrency = 1
    CircuitThreshold = 2
    MaxFaults <- HttpFaults
    MaxFlips = 1
    MaxBeats = 0
SYMMETRY HttpSymmetry
INVARIANTS
    ExclusiveUntilDisturbed
    RowsAccounted
    RunsWithinMishaps
    CircuitMatchesHistory
CHECK_DEADLOCK FALSE
