\* Requests with trailers, and blocks that END_STREAM cuts off.
CONSTANTS
    s1 = s1
    s2 = s2
    Stream = {s1, s2}
    HeaderSize = 2
    PrefaceSize = 2
    MaxFrameSize = 3
    MaxPacket = 8
    PlainFrames = 4
    Worker = {w1}
    Script <- GoodScripts
SPECIFICATION Spec
INVARIANT HeadersAreSaved
