SPECIFICATION Spec
CONSTANTS
    HeaderSize = 3
    kMaxBufferLen = 5
    SizeMax = 64
    GarbageLens = {0, 1, 2, 3, 4, 6, 40}
    MaxPackets = 3
    MaxBody = 2
INVARIANTS
    TypeOK
    ReadsInside
    StaysAligned
    InOrderOnce
    AnswersArrive
    AbortsOnly
CHECK_DEADLOCK FALSE
