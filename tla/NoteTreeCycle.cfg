\* Three moves under way at the same time.
SPECIFICATION MovesSpec
CONSTANTS
    p1 = p1
    x1 = x1
    x2 = x2
    y1 = y1
    y2 = y2
    Notes = {p1, x1, x2, y1, y2}
    Tree <- MCTree
    Top = Top
    Folders = {}
    Unfiled = Unfiled
    Sessions = {s1, s2, s3}
    MaxAsked = 4
SYMMETRY SessionSymmetry
INVARIANTS
    Acyclic
CHECK_DEADLOCK FALSE
