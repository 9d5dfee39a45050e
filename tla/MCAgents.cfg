CONSTANTS
    Agent = {a1, a2}
    Job = {j1, j2}
    Container = {c1, c2}
    Nil = Nil
    Fault = {"answer", "list", "remove"}
    MaxJobs = 2
    MaxCancels = 1
    MaxBreaks = 1
    MaxCrashes = 1
    MaxFaults = 1
    MaxEvents = 2

SPECIFICATION Spec
SYMMETRY Symmetry
CHECK_DEADLOCK FALSE

INVARIANTS
    TypeOK
    Attended
    Cancellable

PROPERTIES
    RemovedOnlyWithResult
