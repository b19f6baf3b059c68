\* Members, notes, orders, tasks, permissions, AI requests and the search index.
SPECIFICATION MCSpec
CONSTANTS
    Users = {u1, u2, u3}
    Founders = {u1, u2}
    Invitations = {i1, i2}
    NoUser = NoUser
    NoInvitation = NoInvitation
    Sessions = {s1, s2}
    MaxTransactions = 3
    FirstTwo = {r1, r2}
    LastTwo = {r3, r4}
    x1 = x1
    x2 = x2
    y1 = y1
    spare = spare
    Notes = {x1, x2, y1, spare}
    Top = Top
    Folders = {f1}
    Unfiled = Unfiled
    MaxAsked = 3
    Tree <- MCTree
    Items = {1, 2, 3, 4}
    Lists = {"a", "b"}
    Nowhere = "none"
    Home = "a"
    Unit = 4
    Farthest = 20
    Clerks = {k1}
    Initial <- MCPlaces
    MaxPlacements = 3
    Before <- MCBefore
    Week = 2
    YearMonths = 3
    HorizonYears = 1
    LastDay = 12
    MaxUpdates = 2
    None = None
    Verbs <- MCVerbs
    NoProject = NoProject
    NoDelegation = NoDelegation
    Requests = {r1, r2, r3, r4}
    Readers = {}
    Quota = 1
    Limit = 1
    MaxOutput = 1
    Prompt = 0
    Patience = 1
    Timeout = 1
    LastMinute = 2
SYMMETRY WorkspaceSymmetry
INVARIANTS
    MembersInv
    SuccessorInv
    PolicyInv
    MeteringInv
PROPERTIES
    RolesAreGranted
    TrashIsSound
    EverythingInPlace
    NothingOpensByClosing
CHECK_DEADLOCK FALSE
