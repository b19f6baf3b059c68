\* Two uploads to one note, and a chain of notes that goes to the trash and back.
SPECIFICATION MCSpec
CONSTANTS
    parent = parent
    child = child
    alone = alone
    image = image
    file = file
    below = below
    NoNote = NoNote
    Notes = {parent, child, alone}
    Subtree <- MCSubtree
    Attachments = {image, file, below}
    NoteOf <- MCNoteOf
    Images = {image, below}
    Sweepers = {s1}
    QuotaLimit = 1
    MaxRestores = 2
    MaxFaults = 2
INVARIANTS
    TypeOK
    QuotaRespected
PROPERTIES
    RecordOfLossIsKept
    CascadeSparesLive
