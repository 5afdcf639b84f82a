CONSTANTS
    Machines = {}
    NodeKeys = {nk1}
    Endpoints = {}
    Tokens = {}
    KeyIds = {k0, k1}
    Threads = {t1, t2}
    Empty = Empty
    Unset = Unset
    Ipv4 <- ThreeHosts
    Ipv6 <- Prefix6
    IntMax = 15
    IndexMod = 16
    KeyOptions <- Plain
    HasPath = TRUE
    HasHook = FALSE
    HasCli = FALSE
    CanImport = FALSE
    OpenMayFail = FALSE
    SaveMayFail = FALSE
    MayCrash = FALSE
    MaxNodeId = 3
    MaxNow = 1

SPECIFICATION StoreSpec
INVARIANT OneShotOnce
