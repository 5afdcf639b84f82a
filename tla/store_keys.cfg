CONSTANTS
    Machines = {m1}
    NodeKeys = {nk1}
    Endpoints = {}
    Tokens = {a}
    KeyIds = {k0, k1}
    Threads = {t1}
    Empty = Empty
    Unset = Unset
    Ipv4 <- NoHost
    Ipv6 <- Prefix6
    IntMax = 15
    IndexMod = 16
    KeyOptions <- Expiring
    HasPath = TRUE
    HasHook = FALSE
    HasCli = FALSE
    CanImport = FALSE
    OpenMayFail = TRUE
    SaveMayFail = FALSE
    MayCrash = TRUE
    MaxNodeId = 3
    MaxNow = 4

SPECIFICATION StoreSpec
INVARIANT OneShotOnce
PROPERTY ClaimHonest
PROPERTY DenialHonest
