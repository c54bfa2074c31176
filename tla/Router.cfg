SPECIFICATION LiveSpec
CONSTANTS
    c1 = c1
    c2 = c2
    d1 = d1
    d2 = d2
    NoDevice = NoDevice
    Devices = {d1, d2}
    Clients = {c1, c2}
    Asks <- TwoAsks
    Local <- TwoLocal
    Rank <- TwoRanks
    Clouds <- TwoClouds
    Keys = {"openrouter"}
    Strict = FALSE
    Threshold = 3
    MaxRetries = 3
INVARIANTS
    TypeOK
    DegradedPassedOver
    CloudHasKey
PROPERTIES
    RequestsAnswered
