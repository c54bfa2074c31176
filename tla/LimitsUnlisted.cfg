SPECIFICATION Spec
CONSTANTS
    n1 = n1
    p1 = p1
    l1 = l1
    l2 = l2
    l3 = l3
    x1 = x1
    w1 = w1
    m1 = m1
    m2 = m2
    NoName = NoName
    NoList = NoList
    NoRow = NoRow
    NoDevice = NoDevice
    Devices = {n1, p1, l1, l2, l3, x1, w1}
    Nodes = {n1}
    PortDevices = {p1}
    Base <- OneBase
    Lan = {l1, l2, l3}
    LanPorts = {l3}
    Own = {l1, l3}
    Extras = {x1}
    Workers = {w1}
    Models = {m1, m2}
    Described <- TwoModels
    Prompts <- Boundaries
    Strict = TRUE
    Envs <- UnlistedEnvs
INVARIANTS
    FittingModelsAdmitted
