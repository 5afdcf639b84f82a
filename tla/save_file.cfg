CONSTANTS
    Procs = {server, cli}
    Reader = server
    Inodes = {f1, f2, f3, f4}
    None = None
    Absent = Absent
    Damaged = Damaged
    Overlap = TRUE
    DiskMayFill = TRUE
    MaxBlocks = 2
    MaxSaves = 3

SPECIFICATION Spec
CHECK_DEADLOCK FALSE
INVARIANT SaveIInv
INVARIANT LastSaveStands
INVARIANT ReloadWhole
PROPERTY FreshOnlyFirst
PROPERTY AtomicRegister
