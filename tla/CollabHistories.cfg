\* A reconnecting tab, one rebuild of the room and one fault; nothing is typed.
SPECIFICATION ClientSpec
CONSTANTS
    MaxEdits = 0
    MaxRebuilds = 1
    MaxFaults = 2
    MaxHandshakes = 4
    MaxFlushes = 2
INVARIANTS
    HistoriesStayApart
CHECK_DEADLOCK FALSE
