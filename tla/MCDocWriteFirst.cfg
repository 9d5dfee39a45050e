CONSTANTS
    Agent = {a1}
    Key = {}
    Priority = {0}
    Nil = Nil
    Job = {j1}
    Conn = {c1}
    Report = {"error", "exit 0"}
    AckTask = AckTask
    MaxAttempts = 2
    MaxRestarts = 0

SPECIFICATION Spec
SYMMETRY Symmetry
CHECK_DEADLOCK FALSE

INVARIANTS
    RecordedBeforeSent
