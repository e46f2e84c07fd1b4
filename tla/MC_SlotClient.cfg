SPECIFICATION Spec
CONSTANTS
    Endpoints = {e1, e2}
    Central = {relay}
    Iroh = iroh
    MaxOps = 2
    MaxGets = 1
    MaxForgets = 1
    MaxCrashes = 1
    MaxFlushFails = 1
INVARIANTS
    VersionsFresh
    GetsRegular
PROPERTIES
    PutsPastGets
\* The puts and gets of a behaviour are bounded.
CHECK_DEADLOCK FALSE
