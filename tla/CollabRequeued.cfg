\* A tab that types once, a room rebuilt once, and one call without an answer.
SPECIFICATION ClientSpec
CONSTANTS
    MaxEdits = 1
    MaxRebuilds = 1
    MaxFaults = 2
    MaxHandshakes = 2
    MaxFlushes = 2
INVARIANTS
    PendingIsInDocument
CHECK_DEADLOCK FALSE
