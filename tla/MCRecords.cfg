CONSTANTS
    Agent = {a1}
    Key = {k1}
    Priority = {0}
    Nil = Nil
    Job = {j1, j2}
    Conn = {c1}
    Report = {"exit 0"}
    AckTask = AckTask
    MaxAttempts = 2
    MaxRestarts = 1

SPECIFICATION RecordsSpec
SYMMETRY Symmetry
CHECK_DEADLOCK FALSE

INVARIANTS
    OneJobPerKey
    OutcomeConsistent
    TrailReplays
    TrailNeverWrong
    MemoryAgrees

PROPERTIES
    TerminalFinal
