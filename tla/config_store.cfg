SPECIFICATION Spec
CONSTANTS
    Callers = {t1, t2}
    Keys = {"serverIp", "gatePort", "httpPort"}
    NewValues = {"new1", "new2"}
    Missing = Missing
    MaxUpdates = 3
    MaxErrors = 1
    MaxCrashes = 1
INVARIANTS TypeOK KeysUnique SetUpUnlessHarmed LostOnlyByRace AssertOnlyUnopened
PROPERTY ImplementsConfigMap
