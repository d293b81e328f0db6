CONSTANTS
    Keys = {"k1"}
    Candidates = {"c1"}
    Candidate = "c1"
    Questions = {"q1"}
    Answers = {"a"}
    NoQuestion = NoQuestion
    NoAnswer = NoAnswer
    NoExam = NoExam
    SessionId <- MCSessionId
    MaxOutboxEvents = 4
    MaxWatermarks = 2
    MaxSessions = 2
    MaxStateEntries = 2
    MaxIngress = 1
    MaxRequests = 1
    MaxPosted = 1
    MaxSent = 1
    MaxEdits = 2
    MaxSubmits = 1
    MaxStarts = 2
    MaxStops = 1
    MaxFaults = 1
SPECIFICATION Spec
INVARIANTS LatestAnswerKept FinalizedIsComplete AckAfterRetirement NoManualReview
CHECK_DEADLOCK FALSE
