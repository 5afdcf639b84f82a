CONSTANTS
    Fds = {3, 4}
    Threads = {t1, t2, t3}
    Nobody = Nobody
    SessionMayThrow = TRUE

SPECIFICATION ConnSpec
CHECK_DEADLOCK FALSE
INVARIANT KeepsSocket
