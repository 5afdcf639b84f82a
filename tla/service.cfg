CONSTANTS
    None = None
    MaxStarts = 2
    Fds = {3, 4}
    Threads = {t1, t2}
    Nobody = Nobody
    SessionMayThrow = TRUE
    Hops = 4
    Nodes <- MCNodes
    Domain <- MCDomain
    Queries <- MCQueries

SPECIFICATION Spec
CHECK_DEADLOCK FALSE
INVARIANT LifeIInv
INVARIANT StoppedClean
INVARIANT NoThreadLost
INVARIANT Serves
INVARIANT NoLeak
INVARIANT DnsAnswers
PROPERTY StopReturns
