SPECIFICATION Spec
CONSTANTS
    Byte = {0, 1}
    Junk = 0
    kCheapPrependSize = 1
    kInitialSize = 2
    MaxLength = 2
    MaxArg = 2
    MaxRoom = 1
    UnreadAtOnce = TRUE
INVARIANTS
    BufferOK
    GrowSafe
PROPERTIES
    ImplementsQueue
