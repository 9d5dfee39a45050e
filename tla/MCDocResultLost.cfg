CONSTANTS
    Agent = {a1}
    Job = {j1}
    Container = {c1}
    Nil = Nil
    Fault = {}
    MaxJobs = 1
    MaxCancels = 0
    MaxBreaks = 1
    MaxCrashes = 0
    MaxFaults = 0
    MaxEvents = 5

SPECIFICATION Spec
CHECK_DEADLOCK FALSE

INVARIANTS
    ResultKept
