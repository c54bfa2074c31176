SPECIFICATION LiveSpec
CONSTANTS
    g1 = g1
    g2 = g2
    h1 = h1
    h2 = h2
    j1 = j1
    j2 = j2
    j3 = j3
    d1 = d1
    d2 = d2
    NoJob = NoJob
    NoDevice = NoDevice
    Jobs = {j1}
    Workers = {g1, g2}
    HttpWorkers = {}
    Devices = {d1}
    Source <- BenchSource
    Requested <- BenchRequested
    On <- BenchOn
    Serves <- BenchServes
    MaxConcurrency = 1
    CircuitThreshold = 3
    MaxFaults <- BenchFaults
    MaxFlips = 0
    MaxBeats = 1
INVARIANTS
    AttemptsWithinBudget
PROPERTIES
    EventuallySettled
CHECK_DEADLOCK FALSE
