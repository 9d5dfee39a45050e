CONSTANTS
    Agent = {a1}
    Job = {j1}
    Nil = Nil
    Key = {}
    Priority = {0}
    Report = {"error", "exit 0"}
    ExitReport = {"exit 0"}
    AckTask = AckTask
    MaxAttempts = 2
    MaxRestarts = 1
    Conn = {1, 2}
    Container = {1, 2, 3, 4, 5}
    Fault = {"answer", "list", "start", "wait", "remove"}
    MaxCrashes = 1
    MaxFaults = 1
    CancelIn = {"RUNNING"}
    Trouble = {"restart", "crash", "fault", "cut", "overtaken", "late"}
    MaxTrouble = 1

SPECIFICATION FairSpec
CHECK_DEADLOCK FALSE

INVARIANTS
    TypeOK
    ExecutionBound
    TableTellsTruth
    RunningIsHeld
    SlotHeld

PROPERTIES
    EveryJobEnds
    ContainersGo
