------------------------------ MODULE Autosave ------------------------------
(***************************************************************************)
(* One browser tab with a note open: the reliable-save reducer, the hook   *)
(* that turns its effects into timers and requests, the editor that is     *)
(* rendered from the server, and the compare-and-set that answers a save.  *)
(*                                                                         *)
(* The reducer is a set of operators on the tab's state; an action applies *)
(* one event to it (Dispatch).  A document is a model value: only whether  *)
(* two documents are equivalent matters here.                              *)
(***************************************************************************)
EXTENDS Naturals, Sequences

CONSTANTS
    Docs,          \* documents, up to areDocumentsEquivalent
    Sizes,         \* page sizes
    Opened,        \* the document the note was opened with
    Paper,         \* the page size it was opened with
    Null,          \* null
    SaveAttempts,  \* AUTOSAVE_MAX_ATTEMPTS
    Causes,        \* why the page is rendered again: "reload", "task"
    Rooms,         \* whether the tab edits alone (FALSE) or in a room (TRUE)
    MaxEdits,      \* bound: documents typed and page sizes pressed
    MaxForeign,    \* bound: writes of somebody else
    MaxRenders,    \* bound: renders of the page
    MaxTabFaults   \* bound: lost answers, refusals and network losses

ASSUME TabAssumption ==
    /\ Opened \in Docs
    /\ Paper \in Sizes
    /\ Null \notin Docs \cup Sizes
    /\ Rooms \subseteq BOOLEAN
    /\ SaveAttempts \in Nat
    /\ MaxForeign \in Nat

VARIABLES
    note,        \* the row: version, document, pageSize
    tab,         \* AutosaveState, with the timers the hook holds for it
    wire,        \* requests on their way, and their answers
    shown,       \* what the editor shows
    typed,       \* history: the document the writer typed last, Opened before
    seed,        \* seedRef: the version and page size last rendered
    render,      \* a render of the page on its way, or Null
    projected,   \* versions the room reported and the tab has not handled
    open,        \* the page is mounted
    room,        \* the editor belongs to a collaborative room
    foreign,     \* writes of somebody else so far
    view,        \* how many of them what the tab shows includes
    spent        \* what the environment has used of its bounds

tabVars == <<note, tab, wire, shown, typed, seed, render, projected, open, room,
             foreign, view, spent>>

----------------------------------------------------------------------------
(* The reducer.                                                            *)

Else(a, b) == IF a # Null THEN a ELSE b    \* a ?? b

NoSave == [saveId |-> 0, document |-> Null, pageSize |-> Null, base |-> 0]

\* The editor reports the document it was mounted with (document-baseline) before the writer
\* can type: the state begins with it saved.
createAutosaveState(version, document, pageSize, online) ==
    [status |-> "idle", version |-> version,
     savedDocument |-> document, savedPageSize |-> pageSize,
     pendingDocument |-> Null, pendingPageSize |-> Null, base |-> 0,
     inFlight |-> NoSave, lastSaveId |-> 0, attempt |-> 0, online |-> online,
     timers |-> {}]

hasPendingWork(s) == s.pendingDocument # Null \/ s.pendingPageSize # Null

Idle(s) == s.inFlight = NoSave

canSaveNow(s) == s.online /\ Idle(s) /\ s.status # "conflict" /\ hasPendingWork(s)

\* What the server will hold once the open request lands is not worth saving again.
normalizePending(s) ==
    [s EXCEPT
        !.pendingDocument =
            IF @ = Else(s.inFlight.document, s.savedDocument) THEN Null ELSE @,
        !.pendingPageSize =
            IF @ = Else(s.inFlight.pageSize, s.savedPageSize) THEN Null ELSE @]

restingStatus(s) ==
    IF ~Idle(s) THEN "saving"
    ELSE IF s.status \in {"conflict", "saved"} THEN s.status ELSE "idle"

startSave(s) ==
    [s EXCEPT !.status = "saving",
              !.lastSaveId = @ + 1,
              !.inFlight = [saveId |-> s.lastSaveId + 1, document |-> s.pendingDocument,
                            pageSize |-> s.pendingPageSize, base |-> s.base],
              !.pendingDocument = Null,
              !.pendingPageSize = Null,
              !.timers = {}]

\* Mutant: ... over whatever is newer.
requeueOver(s, keepSettings) ==
    normalizePending(
        [s EXCEPT !.inFlight = NoSave,
                  !.pendingDocument = Else(s.inFlight.document, @),
                  !.pendingPageSize = IF keepSettings THEN Else(s.inFlight.pageSize, @) ELSE @,
                  !.base = s.inFlight.base])

\* The unacknowledged patch goes back on the queue, under whatever is newer.
requeue(s, keepSettings) ==
    normalizePending(
        [s EXCEPT !.inFlight = NoSave,
                  !.pendingDocument = Else(@, s.inFlight.document),
                  !.pendingPageSize = IF keepSettings THEN Else(@, s.inFlight.pageSize)
                                                      ELSE @,
                  !.base = s.inFlight.base])

scheduleQueued(s, debounce) ==
    IF ~hasPendingWork(s)
    THEN [s EXCEPT !.status = restingStatus(s), !.timers = @ \ {"debounce"}]
    ELSE IF s.status = "conflict" THEN [s EXCEPT !.timers = {}]
    ELSE IF ~s.online THEN [s EXCEPT !.status = "offline", !.timers = {}]
    ELSE IF ~Idle(s) THEN [s EXCEPT !.status = "saving"]
    ELSE IF s.status = "retrying" THEN s
    ELSE IF ~debounce THEN startSave(s)
    ELSE [s EXCEPT !.status = "dirty", !.timers = @ \cup {"debounce"}]

\* An edit: base, which the code does not keep, is what the tab showed when the
\* oldest edit of the queue was made.
queue(s, document, pageSize, debounce) ==
    LET edited == [s EXCEPT !.pendingDocument = Else(document, @),
                            !.pendingPageSize = Else(pageSize, @),
                            !.base = IF hasPendingWork(s) THEN @ ELSE view]
    IN  scheduleQueued(normalizePending(edited), debounce)

onSaveSucceeded(s, answer) ==
    LET acknowledged ==
            normalizePending(
                [s EXCEPT !.version = answer.version,
                          !.savedDocument = Else(s.inFlight.document, @),
                          !.savedPageSize = answer.pageSize,
                          !.inFlight = NoSave,
                          !.attempt = 0,
                          !.status = "saved"])
    IN  scheduleQueued(acknowledged, acknowledged.pendingPageSize = Null)

onSaveFailed(s, kind) ==
    IF kind = "conflict"
    THEN [requeue(s, TRUE) EXCEPT !.status = "conflict", !.attempt = 0, !.timers = {}]
    ELSE IF kind = "unavailable" /\ ~s.online
    THEN [requeue(s, TRUE) EXCEPT !.status = "offline", !.attempt = 0, !.timers = {}]
    ELSE IF kind = "unavailable" /\ s.attempt < SaveAttempts
    THEN [requeue(s, TRUE) EXCEPT !.status = "retrying", !.attempt = @ + 1,
                                  !.timers = {"retry"}]
    ELSE [requeue(s, FALSE) EXCEPT !.status = "error", !.attempt = 0, !.timers = {}]

\* A result of any request but the open one is from a superseded one.
onAnswer(s, saveId, kind, answer) ==
    IF s.inFlight.saveId # saveId THEN s
    ELSE IF kind = "ok" THEN onSaveSucceeded(s, answer)
    ELSE onSaveFailed(s, kind)

goneOffline(s) ==
    [s EXCEPT !.online = FALSE,
              !.status = IF @ = "conflict" \/ ~hasPendingWork(s) THEN @ ELSE "offline",
              !.timers = {}]

backOnline(s) ==
    LET online == [s EXCEPT !.online = TRUE, !.attempt = 0]
    IN  IF s.status = "conflict" THEN online
        ELSE IF ~hasPendingWork(s) THEN [online EXCEPT !.status = restingStatus(s)]
        ELSE IF ~Idle(s) THEN [online EXCEPT !.status = "saving"]
        ELSE [online EXCEPT !.status = "dirty", !.timers = @ \cup {"debounce"}]

retryRequested(s) ==
    IF s.status = "conflict" THEN s
    ELSE LET cleared == [s EXCEPT !.attempt = 0]
         IN  IF canSaveNow(cleared) THEN startSave(cleared)
             ELSE [cleared EXCEPT !.status =
                     IF ~s.online /\ hasPendingWork(s) THEN "offline" ELSE restingStatus(s)]

\* Mutant: the version is adopted under a patch composed on an older one.
externalVersionAlways(s, version) == [s EXCEPT !.version = version]

externalVersion(s, version) ==
    IF hasPendingWork(s) \/ ~Idle(s) THEN s ELSE [s EXCEPT !.version = version]

reset(s, version, pageSize) ==
    [createAutosaveState(version, Null, pageSize, s.online)
        EXCEPT !.lastSaveId = s.lastSaveId]

----------------------------------------------------------------------------
(* The hook, the editor and the server.                                    *)

Request(s) == [saveId |-> s.inFlight.saveId, expected |-> s.version,
               document |-> s.inFlight.document, pageSize |-> s.inFlight.pageSize,
               base |-> s.inFlight.base, kind |-> "sent", answer |-> Null]

\* dispatch: the new state, and the request of a "save" effect.
Dispatch(s, others) ==
    /\ tab' = s
    /\ wire' = others \cup IF s.lastSaveId > tab.lastSaveId THEN {Request(s)} ELSE {}

Spend(what, bound) ==
    /\ spent[what] < bound
    /\ spent' = [spent EXCEPT ![what] = @ + 1]

stored == <<note, foreign>>
page == <<shown, typed, seed, render, open, view>>

TabInit ==
    /\ note = [version |-> 1, document |-> Opened, pageSize |-> Paper]
    /\ room \in Rooms
    /\ tab = createAutosaveState(1, Opened, Paper, TRUE)
    /\ wire = {}
    /\ shown = Opened
    /\ typed = Opened
    /\ seed = [version |-> 1, pageSize |-> Paper]
    /\ render = Null
    /\ projected = <<>>
    /\ open = TRUE
    /\ foreign = 0
    /\ view = 0
    /\ spent = [edits |-> 0, renders |-> 0, faults |-> 0]

\* The writer types; in a room the machine never hears of it.
Type(d) ==
    /\ open /\ ~room
    /\ d # shown
    /\ Spend("edits", MaxEdits)
    /\ shown' = d /\ typed' = d
    /\ Dispatch(queue(tab, d, Null, TRUE), wire)
    /\ UNCHANGED <<stored, seed, render, open, view, projected, room>>

requestPageSize(p) ==
    /\ open
    /\ p # Else(tab.pendingPageSize, Else(tab.inFlight.pageSize, tab.savedPageSize))
    /\ Spend("edits", MaxEdits)
    /\ Dispatch(queue(tab, Null, p, FALSE), wire)
    /\ UNCHANGED <<stored, page, projected, room>>

\* A timer of the hook fires; it is no longer armed when its event is reduced.
Elapse(timer) ==
    /\ open
    /\ timer \in tab.timers
    /\ LET s == [tab EXCEPT !.timers = @ \ {timer}]
       IN  Dispatch(IF canSaveNow(s) THEN startSave(s) ELSE s, wire)
    /\ UNCHANGED <<stored, page, projected, room, spent>>

\* The page is hidden: whatever is queued is sent at once.
Flush ==
    /\ open
    /\ Dispatch(IF canSaveNow(tab) THEN startSave(tab)
                ELSE [tab EXCEPT !.timers = @ \ {"debounce"}], wire)
    /\ UNCHANGED <<stored, page, projected, room, spent>>

handleOffline ==
    /\ open /\ tab.online
    /\ Spend("faults", MaxTabFaults)
    /\ Dispatch(goneOffline(tab), wire)
    /\ UNCHANGED <<stored, page, projected, room>>

handleOnline ==
    /\ open /\ ~tab.online
    /\ Dispatch(backOnline(tab), wire)
    /\ UNCHANGED <<stored, page, projected, room, spent>>

\* The Retry button, which only a failed save offers.
retry ==
    /\ open /\ tab.status = "error"
    /\ Dispatch(retryRequested(tab), wire)
    /\ UNCHANGED <<stored, page, projected, room, spent>>

\* An in-app navigation: the queued patch is sent one last time, and every later
\* answer and timer is dropped.
Unmount ==
    /\ open
    /\ open' = FALSE
    /\ tab' = [tab EXCEPT !.timers = {}]
    /\ wire' = wire \cup IF canSaveNow(tab) THEN {Request(startSave(tab))} ELSE {}
    /\ UNCHANGED <<stored, shown, typed, seed, render, view, projected, room, spent>>

----------------------------------------------------------------------------
\* NotesService.update: the version is compared and set in one statement.
update(r) ==
    /\ r.kind = "sent"
    /\ IF r.expected = note.version
       THEN /\ note' = [version |-> note.version + 1,
                        document |-> Else(r.document, note.document),
                        pageSize |-> Else(r.pageSize, note.pageSize)]
            /\ wire' = (wire \ {r}) \cup
                  {[r EXCEPT !.kind = "ok",
                             !.answer = [version |-> note'.version,
                                         pageSize |-> note'.pageSize]]}
       ELSE /\ wire' = (wire \ {r}) \cup {[r EXCEPT !.kind = "conflict"]}
            /\ UNCHANGED note
    /\ UNCHANGED <<tab, page, projected, room, foreign, spent>>

\* The answer reaches the tab, if it is still there.
performSave(r) ==
    /\ r.kind # "sent"
    /\ IF open THEN Dispatch(onAnswer(tab, r.saveId, r.kind, r.answer), wire \ {r})
               ELSE wire' = wire \ {r} /\ UNCHANGED tab
    /\ UNCHANGED <<stored, page, projected, room, spent>>

\* The request times out or the connection breaks: the tab is told "unavailable",
\* while the request may still reach the server and even have been accepted.
NoAnswer(r) ==
    /\ open /\ r.saveId = tab.inFlight.saveId
    /\ Spend("faults", MaxTabFaults)
    /\ Dispatch(onAnswer(tab, r.saveId, "unavailable", Null),
                IF r.kind = "sent" THEN wire ELSE wire \ {r})
    /\ UNCHANGED <<stored, page, projected, room>>

\* The server refuses the patch for good, or a lost request never arrives.
Refuse(r) ==
    /\ r.kind = "sent"
    /\ Spend("faults", MaxTabFaults)
    /\ \E kind \in {"rejected", "unavailable"} :
          wire' = (wire \ {r}) \cup {[r EXCEPT !.kind = kind]}
    /\ UNCHANGED <<stored, tab, page, projected, room>>

\* Somebody else writes the note: another session, or the projection of the room,
\* which the members of the room already see and are told the version of.
ForeignWrite(d) ==
    /\ foreign < MaxForeign
    /\ d # note.document
    /\ note' = [note EXCEPT !.version = @ + 1, !.document = d]
    /\ foreign' = foreign + 1
    /\ IF room THEN /\ view' = foreign + 1
                    /\ projected' = Append(projected, note.version + 1)
               ELSE UNCHANGED <<view, projected>>
    /\ UNCHANGED <<tab, wire, shown, typed, seed, render, open, room, spent>>

applyExternalVersion ==
    /\ open /\ projected # <<>>
    /\ projected' = Tail(projected)
    /\ Dispatch(externalVersion(tab, Head(projected)), wire)
    /\ UNCHANGED <<stored, page, room, spent>>

\* router.refresh: the server renders the page again, because the writer asked
\* for it in a conflict or because a task on the page was changed.
refresh(cause) ==
    /\ open
    /\ cause \in Causes
    /\ cause = "reload" => tab.status = "conflict"
    /\ Spend("renders", MaxRenders)
    /\ render' = [row |-> note, foreign |-> foreign, cause |-> cause]
    /\ UNCHANGED <<stored, tab, wire, shown, typed, seed, open, view, projected, room>>

\* The render arrives: new props re-seed the machine, and outside a room the editor
\* takes over the rendered document if it differs from what it shows.
Rerender ==
    LET row == render.row
        props == [version |-> row.version, pageSize |-> row.pageSize]
    IN  /\ open /\ render # Null
        /\ render' = Null
        /\ seed' = props
        /\ Dispatch(IF props = seed THEN tab ELSE reset(tab, row.version, row.pageSize), wire)
        /\ IF room THEN UNCHANGED <<shown, view>>
                   ELSE shown' = row.document /\ view' = render.foreign
        /\ UNCHANGED <<stored, typed, open, projected, room, spent>>

----------------------------------------------------------------------------
Answered == \E r \in wire : update(r) \/ performSave(r)

TabNext ==
    \/ \E d \in Docs : Type(d) \/ ForeignWrite(d)
    \/ \E p \in Sizes : requestPageSize(p)
    \/ \E timer \in {"debounce", "retry"} : Elapse(timer)
    \/ Flush
    \/ handleOffline
    \/ handleOnline
    \/ retry
    \/ Unmount
    \/ Answered
    \/ \E r \in wire : NoAnswer(r) \/ Refuse(r)
    \/ applyExternalVersion
    \/ \E cause \in {"reload", "task"} : refresh(cause)
    \/ Rerender

TabSpec == TabInit /\ [][TabNext]_tabVars

(* Armed timers fire, requests reach the server and their answers the tab.  *)
TabFairness ==
    /\ \A timer \in {"debounce", "retry"} : WF_tabVars(Elapse(timer))
    /\ WF_tabVars(Answered)

TabFairSpec == TabSpec /\ TabFairness

----------------------------------------------------------------------------
(* Properties.                                                             *)

Patch(base) == [saveId : Nat, document : Docs \cup {Null},
                pageSize : Sizes \cup {Null}, base : base]

\* The variables keep their types; a patch on the wire is never empty, a queue that
\* waits for its debounce is not empty, and no timer is armed in a conflict.
TabTypeOK ==
    /\ note \in [version : Nat, document : Docs, pageSize : Sizes]
    /\ tab.savedDocument \in Docs \cup {Null}
    /\ tab.attempt \in 0..SaveAttempts
    /\ tab.inFlight \in Patch(0..MaxForeign)
    /\ ~Idle(tab) => tab.inFlight.document # Null \/ tab.inFlight.pageSize # Null
    /\ tab.status = "saving" => ~Idle(tab)
    /\ tab.status = "dirty" => hasPendingWork(tab)
    /\ tab.status \in {"conflict", "offline"} => tab.timers = {}

\* What the machine would have the server hold: what is queued, or else on the wire, or
\* else what the server acknowledged.
Held(s) == Else(s.pendingDocument, Else(s.inFlight.document, s.savedDocument))

\* Nothing the writer typed drops out of the machine -- through every failure, retry, late
\* answer, re-typing of the saved text and render of the page -- until a render with a
\* newer row re-seeds it.
TypedIsHeld == ~room /\ open /\ tab.savedDocument # Null => typed = Held(tab)

\* "Without clobbering in-progress editing: only replace the content when it genuinely
\* differs from what is loaded" (TiptapEditor.tsx): a document that is queued stays in the
\* editor until the writer types another, except where the writer, in a conflict, asked
\* for the server's.
RefreshSparesTyping ==
    [][tab.pendingDocument # Null /\ tab.status # "conflict" =>
           shown' \in {shown, typed'}]_tabVars

\* The version cell names what the tab believes is saved: while the server still
\* holds that version it holds that document and page size.  A save composed on it
\* then compares with the right row.
VersionNamesSaved ==
    ~room /\ tab.savedDocument # Null /\ note.version = tab.version =>
        /\ note.document = tab.savedDocument
        /\ note.pageSize = tab.savedPageSize

\* The tab knows what was typed, what it queued and what was saved.
TabInv == TabTypeOK /\ TypedIsHeld /\ VersionNamesSaved

\* "The local document is never re-sent over a newer server version": a patch the
\* server accepts was composed by a writer who had been shown every write of
\* somebody else it lands on.
Accepted(r) == /\ r \in wire /\ r \notin wire'
               /\ note'.version # note.version
               /\ r.kind = "sent"

NoLostUpdate ==
    [][\A r \in wire : Accepted(r) => r.base = foreign]_tabVars

\* A save is always answered, given up on or dropped by a new render.
SavesSettle == ~Idle(tab) ~> Idle(tab) \/ ~open

\* What is queued is sent, or the status line says that it was not saved -- unless
\* the machine is stalled: it waits for a retry timer that nobody armed.
Stalled == tab.status = "retrying" /\ "retry" \notin tab.timers

EditsSettle ==
    hasPendingWork(tab) ~>
        \/ ~hasPendingWork(tab)
        \/ tab.status \in {"conflict", "error", "offline"}
        \/ Stalled
        \/ ~open

=============================================================================
