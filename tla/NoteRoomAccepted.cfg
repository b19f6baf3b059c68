\* Two processes and one note; no other writer, nobody leaves, nothing fails.
SPECIFICATION Spec
CONSTANTS
    Instances = {a, b}
    Edits = {e1, e2}
    Refused = {}
    Writes = {}
    CompactAt = 2
    MaxRebuilds = 2
    MaxInputs = 2
    Faulty = FALSE
SYMMETRY EditSymmetry
PROPERTIES
    AcceptedIsNotLost
CHECK_DEADLOCK FALSE
