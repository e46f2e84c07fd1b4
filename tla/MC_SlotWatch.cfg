SPECIFICATION Spec
CONSTANTS
    Transports = {http, iroh}
    WatchBuffer = 1
    DedupCapacity = 1
    MaxVersion = 2
    MaxSealed = 2
    MaxWatches = 2
INVARIANTS
    NoDuplicates
    NewestEmitted
    SeenBeforeSent
PROPERTIES
    ArrivedIsEmitted
\* The writers of a behaviour are bounded.
CHECK_DEADLOCK FALSE
