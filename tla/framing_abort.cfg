SPECIFICATION Spec
CONSTANTS
    HeaderSize = 3
    kMaxBufferLen = 5
    SizeMax = 64
    GarbageLens = {0, 1, 2, 3, 4, 6, 40}
    MaxPackets = 3
    MaxBody = 2
INVARIANTS
    ResetLenHolds
CHECK_DEADLOCK FALSE
