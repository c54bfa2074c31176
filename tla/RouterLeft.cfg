SPECIFICATION Spec
CONSTANTS
    c1 = c1
    c2 = c2
    d1 = d1
    d2 = d2
    NoDevice = NoDevice
    Devices = {d1}
    Clients = {c1, c2}
    Asks <- ProxyAsks
    Local <- ProxyLocal
    Rank <- ProxyRanks
    Clouds <- NoClouds
    Keys = {}
    Strict = FALSE
    Threshold = 3
    MaxRetries = 3
PROPERTIES
    DegradedByFailures
