SPECIFICATION Spec
CONSTANTS
    Relays = {r1, r2}
    Dht = dht
    Network <- MCNetwork
    Writers = {1, 2}
    Jobs <- MCJobs
    Size <- MCSize
    Capacity = 2
    Starts <- MCStarts
    Watched = "a"
    MaxAttempts = 2
    MaxFaults <- MCFaults
INVARIANT
    StaleIsAnother
\* A behaviour ends when every put has returned and the watch has caught up.
CHECK_DEADLOCK FALSE
