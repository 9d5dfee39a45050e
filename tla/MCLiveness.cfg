CONSTANTS
    Agent = {a1}
    Key = {}
    Priority = {0}
    Nil = Nil
    Job = {j1}
    Conn = {c1, c2}
    Report = {"error", "exit 0", "exit 1"}
    AckTask = AckTask
    MaxAttempts = 2
    MaxRestarts = 1

SPECIFICATION FairSpec
CHECK_DEADLOCK FALSE

INVARIANTS
    TypeOK
    NoMissedDispatch

PROPERTIES
    RunningEnds
    AckTimeoutActs
    CancelEnds
