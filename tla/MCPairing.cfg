SPECIFICATION Spec
CONSTANTS
    Students = {s1}
    MaxAttempts = 2
    MaxRequests = 2
    MaxWindows = 2
    MaxFaults = 1
INVARIANTS KeysSurvive KeysNeedConsent
CHECK_DEADLOCK FALSE
