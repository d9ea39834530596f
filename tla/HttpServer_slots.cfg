\* Two clients, two slots, one worker. Slot 1 has the number of the
\* listening descriptor: its client's events are taken for the listener's.
CONSTANTS
    Conn = {c1, c2}
    NoConn = NoConn
    Task = {t1}
    NumWorkers = 1
    Listener = Listener
    MaxConnections = 2
    ServerFd = 1
    MaxBacklog = 1
    MaxInbox = 1
    ReadSize = 2
    MaxLeaks = 0
SPECIFICATION Spec
SYMMETRY Symmetry
INVARIANTS
    TypeOK
    SlotOwnership
    SentinelGuardsOwn
    UnreadIsNoticed
PROPERTY ImplementsTable
