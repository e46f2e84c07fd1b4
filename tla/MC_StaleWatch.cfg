SPECIFICATION Spec
CONSTANTS
    Transports = {http, iroh}
    WatchBuffer = 1
    DedupCapacity = 1
    MaxVersion = 2
    MaxSealed = 1
    MaxWatches = 1
PROPERTIES
    StaleFiltered
\* The writers of a behaviour are bounded.
CHECK_DEADLOCK FALSE
