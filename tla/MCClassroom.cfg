SPECIFICATION Spec
CONSTANTS
    MaxConnections = 2
    MaxBoot = 2
    MaxCommands = 2
    MaxFaults = 1
    MaxPending = 1
    MaxOutbound = 1
INVARIANTS ProofIsTrue ExamOnlyProtected SequenceUnbroken ReportOnItsWay
PROPERTY SeatRefined
CHECK_DEADLOCK FALSE
