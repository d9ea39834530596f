\* Two workers; every script of up to four frames, every way to cut it.
CONSTANTS
    s1 = s1
    s2 = s2
    Stream = {s1, s2}
    HeaderSize = 2
    PrefaceSize = 2
    MaxFrameSize = 3
    MaxPacket = 8
    PlainFrames = 4
    Worker = {w1, w2}
    Script <- AllScripts
SPECIFICATION Spec
SYMMETRY Symmetry
INVARIANTS
    TypeOK
    OnlyCutsFail
    NothingIsLeft
PROPERTY ImplementsLog
