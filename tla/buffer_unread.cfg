SPECIFICATION Spec
CONSTANTS
    Byte = {0, 1}
    Junk = 0
    kCheapPrependSize = 2
    kInitialSize = 2
    MaxLength = 1
    MaxArg = 1
    MaxRoom = 0
    UnreadAtOnce = FALSE
PROPERTIES
    UnreadRestores
