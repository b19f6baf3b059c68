\* A note that is edited alone, and a task on it that is ticked: the page is rendered again.
SPECIFICATION TabSpec
CONSTANTS
    Docs = {d0, d1, d2}
    Sizes = {A4}
    Opened = d0
    Paper = A4
    Null = Null
    SaveAttempts = 1
    Causes = {"task"}
    Rooms = {FALSE}
    MaxEdits = 1
    MaxForeign = 0
    MaxRenders = 1
    MaxTabFaults = 0
PROPERTIES
    RefreshSparesTyping
CHECK_DEADLOCK FALSE
