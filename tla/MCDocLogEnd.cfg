CONSTANTS
    Viewer = {v1}
    Stream = {stdout}
    HistoryCap = 2
    QueueCap = 2
    MaxChunks = 3
    MaxRestarts = 0

SPECIFICATION Spec
CHECK_DEADLOCK FALSE

INVARIANTS
    EndMeansComplete
