SPECIFICATION ThreadsSpec
CONSTANTS
    MaxLogins = 2
    Fds = {0, 1}
    Serialised = FALSE
    Patient = TRUE
    login_time_out = 0
    MaxAge = 1
PROPERTIES
    LoginHeard
CHECK_DEADLOCK FALSE
