CONSTANTS
    Agent = {a1}
    Job = {j1}
    Container = {c1}
    Nil = Nil
    Fault = {}
    MaxJobs = 1
    MaxCancels = 1
    MaxBreaks = 0
    MaxCrashes = 0
    MaxFaults = 0
    MaxEvents = 5

SPECIFICATION FairSpec
CHECK_DEADLOCK FALSE

PROPERTIES
    CancelKills
