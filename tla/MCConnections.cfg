CONSTANTS
    Agent = {a1, a2}
    Key = {}
    Priority = {0}
    Nil = Nil
    Job = {j1, j2}
    Conn = {c1, c2}
    Report = {"exit 0"}
    AckTask = AckTask
    MaxAttempts = 1
    MaxRestarts = 0

SPECIFICATION Spec
SYMMETRY Symmetry
CHECK_DEADLOCK FALSE

INVARIANTS
    NoMissedDispatch
    DispatchedWasSent
    RoutedToOwner
    OneAtATime
