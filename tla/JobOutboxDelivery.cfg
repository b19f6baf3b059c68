\* A valid, an invalid or an unconsumed intent delivered to three workers:
\* expired locks, a forgetful Redis, crashes.
SPECIFICATION Spec
CONSTANTS
    NoNode = NoNode
    NoIntent = NoIntent
    Intents = {i1, bad, event}
    Nodes = {n1, n2, n3}
    Valid = {i1, event}
    Unconsumed = {event}
    Equipped = {n1, n2, n3}
    MaxAttempts = 2
    MaxStalled = 1
    BatchSize = 2
    FaultKinds = {"crash", "lock", "redis"}
    MaxFaults = 2
    MaxRetries = 0
SYMMETRY NodeSymmetry
CONSTRAINT OneIntent
INVARIANTS
    CompletedMeansReturned
PROPERTIES
    NeverOverlappedOrResent
CHECK_DEADLOCK FALSE
