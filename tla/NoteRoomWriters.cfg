\* Two processes, other writers and departures; steps fail and processes die at will.
SPECIFICATION Spec
CONSTANTS
    Instances = {a, b}
    Edits = {e1, e2}
    Refused = {e2}
    Writes = {w}
    CompactAt = 2
    MaxRebuilds = 2
    MaxInputs = 3
    Faulty = TRUE
SYMMETRY InstanceSymmetry
INVARIANTS
    RoomCoversNote
    HistoryIsTrue
PROPERTIES
    ProjectionKeepsContent
    GenerationKeepsUpdates
CHECK_DEADLOCK FALSE
