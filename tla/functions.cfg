SPECIFICATION Spec
CONSTANTS
    Schema <- ProtocolSchema
    MaxSets = 2
    MaxParts = 2
    Names = {"x", "y"}
    MaxPath = 4
    MaxOthers = 1
    MaxErrors = 1
    Lengths = {0, 1, 5, 6, 7, 8, 9, 17}
    MaxCalls = 5
    MsgDays = {5, 30, 58, 330, 364, 1125, 1459}
    Lags = {0, 1, 6, 7, 22, 23, 28, 31, 120, 364, 365, 366}
    Minutes = {0, 9, 70, 1400, 1439}
INVARIANTS RoundTrip ConcatMerges SkipInside RelayStable PathMade DigestIsOfAll
PROPERTIES LabelAges
CHECK_DEADLOCK FALSE
