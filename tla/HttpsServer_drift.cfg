\* One reference is dropped for each packet that is read.
CONSTANTS
    Conn = {c1}
    NoConn = NoConn
    Task = {t1, t2}
    NumWorkers = 2
    Listener = Listener
    MaxConnections = 1
    ServerFd = 3
    MaxBacklog = 1
    MaxInbox = 1
    ReadSize = 1
    MaxLeaks = 1
    MaxPackets = 3
SPECIFICATION Spec
PROPERTY HandlerKeepsConnection
