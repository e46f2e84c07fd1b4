SPECIFICATION Spec
CONSTANTS
    None = None
    Callers = {"s1", "s2"}
    Calls <- MCCalls
    MaxConns = 1
    Features = {"http", "iroh", "unix-socket"}
    Headers = {"t1", "t2"}
    Subs = {1, 2}
    Messages = {1, 2, 3}
    SessionBuffer = 1
    Results = {"Ok", "Stale", "Timeout", "Unsupported"}
    MaxTransitions = 2
    DownAge = 2
    MaxOutcomes = 7
    Setups <- MCSetups
INVARIANTS
    TablesAgree
    OneIdentity
    ShownOrGone
    HealthDeserved
PROPERTIES
    AdmittedByRule
    TakenIsWritten
\* A behaviour ends when its bounds are used up.
CHECK_DEADLOCK FALSE
