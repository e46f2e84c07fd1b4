SPECIFICATION Spec
CONSTANTS
    Ids = {a, b}
    Posts = {p1, p2}
    Gets = {g1, g2}
    Capacity = 2
    Ttl = 1
    MaxPosted = 3
    MaxNow = 1
INVARIANTS
    AnswersSound
    NoSilentLoss
    NoLostWakeup
PROPERTIES
    ImplementsMailbox
    WaiterServed
