SPECIFICATION Spec
CONSTANTS
    MaxLogins = 2
    Fds = {0, 1}
    Serialised = TRUE
    Patient = FALSE
    login_time_out = 1
    MaxAge = 2
INVARIANTS
    FilenoHolds
CHECK_DEADLOCK FALSE
