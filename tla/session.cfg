CONSTANTS
    kMaxPlaintext = 2
    BufSize = 3
    MaxWrite = 3
    MaxBytes = 4
    NoKey = NoKey
    RecvSize = 3
    MaxHead = 6
    MaxLine = 3
    ControlKeys = {"control1", "control2"}
    Machine = "machine"
    ClientEph = "client_eph"
    ServerEph = "server_eph"
    Version = 1
    OtherVersion = 2

SPECIFICATION Spec
CHECK_DEADLOCK FALSE
INVARIANT HeadDecided
INVARIANT Agree
INVARIANT NonceOnce
INVARIANT Prefix
INVARIANT Drained
PROPERTY HandshakeDecides
PROPERTY HeadEnds
PROPERTY Delivers
