SPECIFICATION Spec
CONSTANTS
    MaxLogins = 2
    Fds = {0, 1}
    Serialised = TRUE
    Patient = TRUE
    login_time_out = 1
    MaxAge = 2
INVARIANTS
    TypeOK
    RegistrySound
    NoOtherFault
    OneConnection
    AnswerIsOwn
    SendSafe
    CredentialsOwn
PROPERTIES
    LoginHeard
    ImplementsSession
CHECK_DEADLOCK FALSE
