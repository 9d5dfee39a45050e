CONSTANTS
    Agent = {a1}
    Job = {j1}
    Nil = Nil
    Key = {}
    Priority = {0}
    Report = {"error", "exit 0"}
    ExitReport = {"exit 0"}
    AckTask = AckTask
    MaxAttempts = 2
    MaxRestarts = 0
    Conn = {1, 2}
    Container = {1, 2, 3, 4, 5}
    Fault = {}
    MaxCrashes = 0
    MaxFaults = 0
    CancelIn = {}
    Trouble = {}
    MaxTrouble = 0

SPECIFICATION Spec
CHECK_DEADLOCK FALSE

INVARIANTS
    ExecutedOnce
