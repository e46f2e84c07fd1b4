SPECIFICATION Spec
CONSTANTS
    Msgs = {m1, m2}
    Central = {http}
    Iroh = iroh
    Calls = {c1, c2}
    DedupCapacity = 1
    MaxFaults = 2
INVARIANTS
    OncePerWindow
    CopiesAccountedFor
PROPERTIES
    QueuedIsReceived
