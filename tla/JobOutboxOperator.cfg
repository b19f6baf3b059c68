\* One intent, two nodes: crashes, shutdowns, aborted cycles, failing statements and an
\* operator retry.
SPECIFICATION FairSpec
CONSTANTS
    NoNode = NoNode
    NoIntent = NoIntent
    Intents = {i1}
    Nodes = {n1, n2}
    Valid = {i1}
    Unconsumed = {}
    Equipped = {n1, n2}
    MaxAttempts = 2
    MaxStalled = 1
    BatchSize = 2
    FaultKinds = {"crash", "shutdown", "abort", "db"}
    MaxFaults = 2
    MaxRetries = 1
INVARIANTS
    NoPoisonedKey
PROPERTIES
    KeepsPromise
    NoRunAfterSettlement
    EventuallySettled
CHECK_DEADLOCK FALSE
