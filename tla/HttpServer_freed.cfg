\* The window between reading a slot and take().
CONSTANTS
    Conn = {c1, c2}
    NoConn = NoConn
    Task = {t1}
    NumWorkers = 1
    Listener = Listener
    MaxConnections = 1
    ServerFd = 3
    MaxBacklog = 1
    MaxInbox = 1
    ReadSize = 1
    MaxLeaks = 0
SPECIFICATION Spec
INVARIANT DeallocatedIsSkipped
