\* Two workers read packets of one connection.
CONSTANTS
    s1 = s1
    s2 = s2
    Stream = {s1, s2}
    HeaderSize = 2
    PrefaceSize = 2
    MaxFrameSize = 3
    MaxPacket = 8
    PlainFrames = 1
    Worker = {w1, w2}
    Script <- TwoPosts
SPECIFICATION Spec
INVARIANT ContinuesLastPacket
