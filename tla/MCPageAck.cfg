CONSTANTS
    Keys = {"k1"}
    Candidates = {"c1"}
    Candidate = "c1"
    Questions = {"q1"}
    Answers = {"a"}
    NoQuestion = NoQuestion
    NoAnswer = NoAnswer
    NoExam = NoExam
    SessionId <- MCSessionId
    MaxOutboxEvents = 4
    MaxWatermarks = 2
    MaxSessions = 2
    MaxStateEntries = 2
    MaxIngress = 1
    MaxRequests = 1
    MaxPosted = 1
    MaxSent = 1
    MaxEdits = 2
    MaxSubmits = 0
    MaxStarts = 1
    MaxStops = 0
    MaxFaults = 0
SPECIFICATION Spec
PROPERTIES ValidAckRetires
CHECK_DEADLOCK FALSE
