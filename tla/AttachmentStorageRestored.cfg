\* One note with one stored file, whose object the store loses and finds again.
SPECIFICATION Spec
CONSTANTS
    parent = parent
    child = child
    alone = alone
    image = image
    file = file
    below = below
    NoNote = NoNote
    Notes = {alone}
    Subtree <- MCSubtree
    Attachments = {file}
    NoteOf <- MCNoteOf
    Images = {}
    Sweepers = {s1}
    QuotaLimit = 1
    MaxRestores = 1
    MaxFaults = 0
INVARIANTS
    ReadyHasBytes
