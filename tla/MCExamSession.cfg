SPECIFICATION Spec
CONSTANTS
    NoExam = NoExam
    MaxOrigins = 2
    MaxApplyRetries = 2
    MaxEvents = 2
    MaxCommands = 1
    MaxAgentQueue = 2
    MaxBridgeMessages = 1
INVARIANTS ReadyIsReal StopWins AlteredOnlyLate
PROPERTY NetworkReleased ExamEnds
CHECK_DEADLOCK FALSE
