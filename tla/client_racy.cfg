SPECIFICATION ThreadsSpec
CONSTANTS
    MaxLogins = 2
    Fds = {0, 1}
    Serialised = FALSE
    Patient = FALSE
    login_time_out = 0
    MaxAge = 1
INVARIANTS
    ThreadsTypeOK
    SocketOwned
CHECK_DEADLOCK FALSE
