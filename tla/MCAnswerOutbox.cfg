CONSTANTS
    Keys = {"k1", "k2"}
    Candidates = {"c1", "c2"}
    Questions = {"q1"}
    Answers = {"a", "b"}
    NoQuestion = NoQuestion
    NoAnswer = NoAnswer
    SessionId <- MCSessionId
    MaxOutboxEvents = 3
    MaxWatermarks = 2
    Events <- MCEvents
    InitialStates <- MCInitialStates
SPECIFICATION Spec
INVARIANTS FileAlwaysOpens NoAnswerLost
