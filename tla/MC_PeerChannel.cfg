SPECIFICATION Spec
CONSTANTS
    EmptyKey = EmptyKey
    Nodes = {"a", "b", "c"}
    Groups = {"g"}
    Transports = {"t1", "t2"}
    Name = "name"
    MaxSealed = 2
    DedupCapacity = 1
    CardLists <- MCCardLists
    KeyLists <- MCKeyLists
    WatchBuffer = 1
    PutCards <- MCPutCards
    PutKeys <- MCPutKeys
    MaxVersion = 2
    MaxWatches = 2
    Setups <- MCSetups
INVARIANTS
    PopsAccountedFor
    NoReplay
    NewestWatched
PROPERTIES
    OpenedAsSealed
    PutsPastWatched
    WaitingIsPopped
\* A behaviour ends when no more may be sealed.
CHECK_DEADLOCK FALSE
