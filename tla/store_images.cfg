CONSTANTS
    Machines = {m1, m2}
    NodeKeys = {nk1}
    Endpoints = {}
    Tokens = {}
    KeyIds = {k0, k1}
    Threads = {}
    Empty = Empty
    Unset = Unset
    Ipv4 <- ThreeHosts
    Ipv6 <- Prefix6
    IntMax = 15
    IndexMod = 16
    KeyOptions <- OneKind
    HasPath = TRUE
    HasHook = TRUE
    HasCli = TRUE
    CanImport = TRUE
    OpenMayFail = FALSE
    SaveMayFail = FALSE
    MayCrash = TRUE
    MaxNodeId = 3
    MaxNow = 1

SPECIFICATION StoreSpec
INVARIANT StoreIInv
INVARIANT UniqueIdentity
PROPERTY HookSeesEveryMutation
