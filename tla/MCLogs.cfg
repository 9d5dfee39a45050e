CONSTANTS
    Viewer = {v1}
    Stream = {stdout, stderr}
    HistoryCap = 2
    QueueCap = 2
    MaxChunks = 6
    MaxRestarts = 1

SPECIFICATION FairSpec
CHECK_DEADLOCK FALSE

INVARIANTS
    TypeOK
    InOrderToNewest
    GapsVisible
    LiveViewerComplete

PROPERTIES
    StreamEnds
