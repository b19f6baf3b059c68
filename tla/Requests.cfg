\* An export, the saves of a tab, its room, answers of the AI gateway, domains, names.
SPECIFICATION MCSpec
CONSTANTS
    NoJob = NoJob
    Null = Null
    Jobs = {e1}
    Workers = {w1, w2}
    MaxAttempts = 2
    MaxRetries = 2
    MaxFaults = 4
    Docs = {d0, d1}
    Opened = d0
    Sizes = {A4, letter}
    Paper = A4
    Causes = {"reload", "task"}
    Rooms = {TRUE, FALSE}
    MaxEdits = 2
    SaveAttempts = 1
    MaxForeign = 1
    MaxRenders = 1
    MaxTabFaults = 1
    MaxHandshakes = 2
    MaxFlushes = 2
    MaxSynced = 1
    MaxRebuilds = 1
    MaxLost = 2
    Requests = {r1, r2}
    Readers = {r1}
    Quota = 1
    Limit = 1
    MaxOutput = 1
    Prompt = 0
    Patience = 1
    Timeout = 1
    LastMinute = 1
    Tenants = {t1, t2}
    Hosts = {h1, h2}
    Watched = h1
    Calls = {c1, c2}
    Nobody = Nobody
    MaxClaims = 2
    MaxCalls = 3
    Asking = {q1, q2, q3}
    Seed = q0
    Keys = {k1, k2}
    Names = {red, blue}
    Ceiling = 2
    Tries = 3
INVARIANTS
    ExportInv
    TabInv
    ClientInv
    ClaimsInv
PROPERTIES
    ExportsKeepPromise
    NoLostUpdate
    RequestsConclude
CHECK_DEADLOCK FALSE
