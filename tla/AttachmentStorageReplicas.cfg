\* One upload, and two API replicas whose sweeps overlap.
SPECIFICATION FairSpec
CONSTANTS
    parent = parent
    child = child
    alone = alone
    image = image
    file = file
    below = below
    NoNote = NoNote
    Notes = {alone}
    Subtree <- MCSubtree
    Attachments = {image}
    NoteOf <- MCNoteOf
    Images = {image}
    Sweepers = {s1, s2}
    QuotaLimit = 1
    MaxRestores = 0
    MaxFaults = 2
INVARIANTS
    ReadyHasBytes
PROPERTIES
    StorageSettles
