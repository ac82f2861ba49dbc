SPECIFICATION Spec
CONSTANTS
    MaxLogins = 1
    Fds = {0, 1}
    Serialised = TRUE
    Patient = TRUE
    login_time_out = 1
    MaxAge = 2
PROPERTIES
    TimeoutMeansNoAnswer
CHECK_DEADLOCK FALSE
