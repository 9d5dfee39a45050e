CONSTANTS
    Agent = {a1, a2}
    Job = {j1}
    Container = {c1}
    Nil = Nil
    Fault = {"start", "wait"}
    MaxJobs = 1
    MaxCancels = 1
    MaxBreaks = 2
    MaxCrashes = 1
    MaxFaults = 1
    MaxEvents = 5

SPECIFICATION FairSpec
CHECK_DEADLOCK FALSE

PROPERTIES
    NoLeak
