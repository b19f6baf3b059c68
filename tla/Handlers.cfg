\* A shared node of the pipeline, webhook events and replays, e-mails, search syncs, mentions.
SPECIFICATION MCSpec
CONSTANTS
    Jobs = {j1, j2}
    One = {j1}
    NoJob = NoJob
    Workers = {w1, w2}
    MaxAttempts = 2
    MaxRetries = 1
    MaxFaults = 2
    None = None
    Urls = {url1, url2}
    MaxEdits = 3
    MaxAccepts = 2
    Kinds = {"workspace", "invitation", "auth"}
    Notes = {n1}
    MaxChanges = 2
    MaxReindexes = 1
    MaxSaves = 2
    i1 = i1
    bad = bad
    event = event
    NoIntent = NoIntent
    n1 = n1
    NoNode = NoNode
INVARIANTS
    EventsAreTold
    MessagesAreTrue
    IndexInv
PROPERTIES
    IntentsKeepPromise
    JobsConclude
    PipelineSettles
    SendsOnlyIfEntitled
    SettledMailStays
    IndexIsRepaired
CHECK_DEADLOCK FALSE
