SPECIFICATION WSpec
CONSTANTS
    a = a
    Ids = {a}
    Puts = {p1, p2}
    Gets = {g1}
    Watchers = {g1}
    SlotOf <- MCSlotOf
    Ttl = 2
    TicksPerSec = 2
    MaxVersion = 2
    MaxPuts = 2
    MaxNow = 1
    MaxCrashes = 1
    MaxErrors = 0
INVARIANTS
    AckedSurvivesRestart
