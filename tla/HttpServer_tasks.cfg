\* One slot, three events of its client on their way through two workers.
\* Without symmetry, for the liveness property.
CONSTANTS
    Conn = {c1}
    NoConn = NoConn
    Task = {t1, t2, t3}
    NumWorkers = 2
    Listener = Listener
    MaxConnections = 1
    ServerFd = 3
    MaxBacklog = 1
    MaxInbox = 2
    ReadSize = 1
    MaxLeaks = 1
SPECIFICATION FairSpec
INVARIANT RefsCountHolders
PROPERTIES
    DecideOnlyUnheld
    HangupIsReaped
