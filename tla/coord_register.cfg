CONSTANTS
    Machines = {m1, m2}
    NodeKeys = {nk1}
    Endpoints = {}
    Tokens = {a}
    KeyIds = {k0, k1}
    Threads = {t1, t2}
    Empty = Empty
    Unset = Unset
    Ipv4 <- OneHost
    Ipv6 <- Prefix6
    IntMax = 15
    IndexMod = 16
    KeyOptions <- MixedKeys
    HasPath = TRUE
    HasHook = FALSE
    HasCli = FALSE
    CanImport = FALSE
    OpenMayFail = TRUE
    SaveMayFail = TRUE
    MayCrash = TRUE
    MaxNodeId = 4
    MaxNow = 1
    MaxStreams = 1
    Requests <- RegisterRequests
    MaxEvents = 5

SPECIFICATION Spec
INVARIANT NodesClaimed
 
INVARIANT AddressForLife
INVARIANT AddressesInPrefix
PROPERTY GroupStable
