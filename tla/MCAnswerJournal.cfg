CONSTANTS
    Procs = {p1, p2}
    Keys = {"k1", "k2", "k3"}
    Candidates = {"c1", "c2"}
    Questions = {"q1", "q2"}
    Answers = {"a", "b"}
    NoQuestion = NoQuestion
    NoAnswer = NoAnswer
    Events <- MCEvents
    MaxSessions = 2
    MaxStateEntries = 1
    MaxRecords = 4
    NoProc = NoProc
    Torn = Torn
SPECIFICATION Spec
INVARIANTS AckedDurable ReopenNeverFails IndexMatchesFile AcksNeverDisagree
PROPERTY JournalOnlyGrows
