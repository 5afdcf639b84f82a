CONSTANTS
    Machines = {m1, m2}
    NodeKeys = {nk1}
    Endpoints = {}
    Tokens = {a, b}
    KeyIds = {k0, k1, k2}
    Threads = {t1, t2}
    Empty = Empty
    Unset = Unset
    Ipv4 <- ThreeHosts
    Ipv6 <- Prefix6
    IntMax = 15
    IndexMod = 16
    KeyOptions <- GroupKeys
    HasPath = FALSE
    HasHook = FALSE
    HasCli = FALSE
    CanImport = FALSE
    OpenMayFail = FALSE
    SaveMayFail = FALSE
    MayCrash = FALSE
    MaxNodeId = 3
    MaxNow = 1
    MaxStreams = 1
    Requests <- MapRequests
    MaxEvents = 6

SPECIFICATION Spec
SYMMETRY Symmetry
INVARIANT Isolation
