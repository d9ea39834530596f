\* Two workers on one connection whose peer waits for its answer.
CONSTANTS
    Conn = {c1}
    NoConn = NoConn
    Task = {t1, t2}
    NumWorkers = 2
    Listener = Listener
    MaxConnections = 1
    ServerFd = 3
    MaxBacklog = 1
    MaxInbox = 1
    ReadSize = 1
    MaxLeaks = 0
    MaxPackets = 2
SPECIFICATION FairSpec
PROPERTY PacketIsProcessed
