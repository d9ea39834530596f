\* Two workers on the connections that follow each other in one slot.
CONSTANTS
    Conn = {c1}
    NoConn = NoConn
    Task = {t1, t2}
    NumWorkers = 2
    Listener = Listener
    MaxConnections = 1
    ServerFd = 3
    MaxBacklog = 1
    MaxInbox = 1
    ReadSize = 2
    MaxLeaks = 1
    MaxPackets = 3
SPECIFICATION Spec
SYMMETRY Symmetry
INVARIANTS
    TypeOK
    SlotOwnership
    RefsDrift
    ReadIsExclusive
PROPERTIES
    NoDecisionWhileReading
