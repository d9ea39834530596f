CONSTANTS
    r1 = r1
    r2 = r2
    r3 = r3
    c1 = c1
    c2 = c2
    s1 = s1
    NoTiming = NoTiming
    Request = {r1, r2, r3}
    Name = {s1}
    Client = {c1, c2}
    Failing = {c2}
    Endpoints <- TestEndpoints
    Traffic <- Tests
    Rated <- Records
    Admin = {"/__server/", "/__server/empty"}
    ChunkSize = 2
    FrameSize = 2
    RingSize = 1
    Timings = 2
    MaxRates = 1
    Inserts = 2
SPECIFICATION FairSpec
INVARIANTS
    TypeOK
    HeldWhileUsed
    AnswerIsWhole
    HeadersAreSentOnce
    CountsAddUp
    RecentAreRecorded
PROPERTIES
    
    EveryRequestEnds
