SPECIFICATION Spec
CONSTANTS
    Peers = {a}
    Callers = {1, 2}
    Kinds = {"mailbox", "slot"}
    MaxPending = 1
    WatchBuffer = 1
    Versions = {1, 2}
    PutVersion <- MCPutVersion
    May <- MCMay
    MaxEvents = 2
INVARIANTS
    PendingOnlyAlone
    AcceptedKept
    MeshComplete
    WatchFollows
    RecvWakes
\* A behaviour ends when every call has returned and the events are used up.
CHECK_DEADLOCK FALSE
