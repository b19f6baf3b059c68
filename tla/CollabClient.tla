---------------------------- MODULE CollabClient ----------------------------
(***************************************************************************)
(* The provider of one browser tab (note-collaboration-provider.ts): its   *)
(* handshakes, its outbound updates, the frames of its room, and the epoch *)
(* that names the history its document belongs to.                         *)
(*                                                                         *)
(* A document is a set of structs, each marked with the history it was     *)
(* made in, 0 for a document that had none.  A room that is rebuilt starts *)
(* a history of its own, with structs of its own.  Calls are answered and  *)
(* frames arrive in any order: handlers are asynchronous, and frames come  *)
(* from other processes.  A lost connection loses what was on it.          *)
(***************************************************************************)
EXTENDS Naturals, FiniteSets

CONSTANTS
    MaxHandshakes,   \* MAX_HANDSHAKE_ATTEMPTS
    MaxFlushes,      \* MAX_FLUSH_ATTEMPTS
    MaxEdits,        \* bound: structs made by this tab and by others
    MaxRebuilds,     \* bound: times the room is rebuilt
    MaxFaults        \* bound: rebuilds, refused or unanswered calls, overflows, lost connections

VARIABLES
    server,          \* the epoch of the room and its structs; whether this socket is in it
    client,          \* the fields of the provider
    calls,           \* calls without an outcome, and updates nobody waits for
    frames,          \* frames under way to this tab
    spent            \* edits, rebuilds and faults so far

clientVars == <<server, client, calls, frames, spent>>

Base(epoch) == [history |-> epoch, nr |-> 0, mine |-> FALSE]

ClientInit ==
    /\ server = [epoch |-> 0, doc |-> {}, joined |-> FALSE]
    /\ client = [gen |-> 1, epoch |-> 0, doc |-> {}, history |-> 0, pending |-> {},
                 held |-> {}, resync |-> FALSE, stopped |-> FALSE, flushes |-> 0,
                 tries |-> 0, handshake |-> 0, begun |-> 0, flushDue |-> FALSE,
                 retryDue |-> FALSE, coolDue |-> FALSE, online |-> FALSE,
                 ready |-> FALSE, mode |-> "pending", status |-> "connecting"]
    /\ calls = {}
    /\ frames = {}
    /\ spent = [edits |-> 0, rebuilds |-> 0, faults |-> 0]

Mounted == client.mode # "left"

Fault ==
    /\ spent.faults + spent.rebuilds < MaxFaults
    /\ spent' = [spent EXCEPT !.faults = @ + 1]

----------------------------------------------------------------------------
(* The fields of the provider.                                             *)

Publish(c, status) ==
    [c EXCEPT !.status = status,
              !.mode = IF status = "synced" THEN "collaborative" ELSE @]

\* A call leaves the tab; nothing answers it before the server is ready for the socket.
Call(c, kind, token, items) ==
    [kind |-> kind, token |-> token, gen |-> c.gen, epoch |-> c.epoch, items |-> items,
     stage |-> IF c.online /\ c.ready THEN "sent" ELSE "silent",
     answer |-> "none", room |-> 0, state |-> {}]

Joins(c) == {Call(c, "join", c.begun, {})}

\* runHandshake: one at a time.
runs(c) == c.handshake = 0
runHandshake(c) ==
    IF runs(c) THEN [c EXCEPT !.begun = @ + 1, !.handshake = c.begun + 1] ELSE c
handshakeCalls(c) == IF runs(c) THEN Joins(runHandshake(c)) ELSE {}

\* The promise settles: only the handshake under way is forgotten.
Settled(c, token) == [c EXCEPT !.handshake = IF @ = token THEN 0 ELSE @]

\* Mutant: a failed handshake is not tried again.
scheduleNoRetry(c) == IF c.retryDue THEN c ELSE [c EXCEPT !.tries = @ + 1]

scheduleHandshakeRetry(c) ==
    IF c.retryDue THEN c
    ELSE [c EXCEPT !.tries = @ + 1, !.retryDue = c.tries + 1 < MaxHandshakes]

failHandshake(c, error) ==
    Publish(scheduleHandshakeRetry(c), IF error = "limited" THEN "error" ELSE "reconnecting")

queueUpdate(c, items) ==
    IF c.stopped THEN c ELSE [c EXCEPT !.pending = @ \cup items, !.flushDue = TRUE]

mayFlush(c) == ~c.stopped /\ c.pending # {} /\ c.epoch # 0

\* flushUpdates: what is pending leaves, or stays when there is no connection.
flushed(c) ==
    LET d == [c EXCEPT !.flushDue = FALSE]
    IN  CASE mayFlush(c) /\ c.online -> [d EXCEPT !.pending = {}]
          [] mayFlush(c) /\ ~c.online -> Publish(d, "reconnecting")
          [] OTHER -> d
flushCalls(c) ==
    IF mayFlush(c) /\ c.online THEN {Call(c, "update", 0, c.pending)} ELSE {}

\* requeue: after too many refusals the tab stops writing for a while.
requeue(c, items) ==
    IF c.flushes + 1 >= MaxFlushes
    THEN Publish([c EXCEPT !.pending = {}, !.flushes = @ + 1, !.stopped = TRUE,
                           !.coolDue = TRUE], "error")
    ELSE Publish([c EXCEPT !.pending = @ \cup items, !.flushes = @ + 1,
                           !.flushDue = TRUE], "reconnecting")

\* adoptDocument: a fresh document has synced nothing.
adoptDocument(c) == [c EXCEPT !.gen = @ + 1, !.epoch = 0, !.doc = {}, !.history = 0]

\* Mutant: a reset joins the handshake under way, whose document it has discarded.
resetJoins(c) ==
    Publish([adoptDocument(c) EXCEPT
                !.pending = {}, !.held = {}, !.resync = FALSE, !.flushDue = FALSE,
                !.stopped = FALSE, !.flushes = 0], "connecting")

\* resetDocument: everything local is discarded, and a handshake supersedes any other.
resetDocument(c) ==
    Publish([adoptDocument(c) EXCEPT
                !.pending = {}, !.held = {}, !.resync = FALSE, !.flushDue = FALSE,
                !.stopped = FALSE, !.flushes = 0, !.handshake = 0], "connecting")

\* drainWindowFrames: the frames held for the epoch the answer named.
drained(c) ==
    LET d == [c EXCEPT !.held = {}, !.resync = FALSE,
                       !.doc = @ \cup UNION {f.items : f \in {g \in c.held : g.epoch = c.epoch}}]
    IN  IF c.resync THEN scheduleHandshakeRetry(d) ELSE d

\* The document after a sync, and the delta the server lacks.
synced(c, answer) ==
    LET filled == [c EXCEPT !.epoch = answer.room, !.history = answer.room,
                            !.doc = @ \cup answer.state, !.stopped = FALSE, !.tries = 0]
        live == Publish(drained(filled), "synced")
        delta == live.doc \ answer.state
    IN  IF delta = {} THEN live ELSE queueUpdate(live, delta)

\* The provider becomes c, which then starts a handshake.
Restart(c, rest) ==
    /\ client' = runHandshake(c)
    /\ calls' = rest \cup handshakeCalls(c)

----------------------------------------------------------------------------
(* The socket and the timers of the tab.                                   *)

\* The server accepted the connection and registered the handlers of the note.
handleServerReady ==
    /\ Mounted /\ ~client.ready
    /\ Restart([client EXCEPT !.online = TRUE, !.ready = TRUE, !.tries = 0], calls)
    /\ UNCHANGED <<server, frames, spent>>

\* Calls on the connection get no answer; the server may still serve its updates.
handleSocketDisconnect ==
    /\ Mounted /\ client.online
    /\ Fault
    /\ client' = Publish([client EXCEPT !.online = FALSE, !.ready = FALSE, !.tries = 0],
                         "reconnecting")
    /\ server' = [server EXCEPT !.joined = FALSE]
    /\ \E arrived \in SUBSET {q \in calls : q.kind = "update" /\ q.stage = "sent"} :
          calls' = {[q EXCEPT !.stage = "silent", !.answer = "none", !.room = 0, !.state = {}] :
                       q \in {r \in calls : r.stage # "ghost"}}
                   \cup {[q EXCEPT !.stage = "ghost"] : q \in arrived}
                   \cup {q \in calls : q.stage = "ghost"}
    /\ frames' = {}

\* A keystroke in the mounted editor.
handleDocUpdate ==
    /\ client.mode = "collaborative"
    /\ spent.edits < MaxEdits
    /\ spent' = [spent EXCEPT !.edits = @ + 1]
    /\ LET struct == {[history |-> client.history, nr |-> spent.edits + 1, mine |-> TRUE]}
       IN  client' = queueUpdate([client EXCEPT !.doc = @ \cup struct], struct)
    /\ UNCHANGED <<server, calls, frames>>

\* An update that reaches a socket outside the room is refused at once.
flushUpdates ==
    /\ Mounted /\ client.flushDue
    /\ client' = flushed(client)
    /\ \/ calls' = calls \cup flushCalls(client)
       \/ /\ ~server.joined
          /\ calls' = calls \cup {[q EXCEPT !.stage = "answered", !.answer = "denied"] :
                                     q \in {r \in flushCalls(client) : r.stage = "sent"}}
          /\ \E q \in flushCalls(client) : q.stage = "sent"
    /\ UNCHANGED <<server, frames, spent>>

handshakeRetry ==
    /\ Mounted /\ client.retryDue
    /\ LET c == [client EXCEPT !.retryDue = FALSE]
       IN  IF client.online THEN Restart(c, calls) ELSE client' = c /\ UNCHANGED calls
    /\ UNCHANGED <<server, frames, spent>>

\* scheduleCooldownRetry: a second chance after a stopped session.
cooldownRetry ==
    /\ Mounted /\ client.coolDue
    /\ LET c == [client EXCEPT !.coolDue = FALSE]
       IN  IF client.stopped
           THEN Restart([c EXCEPT !.stopped = FALSE, !.flushes = 0], calls)
           ELSE client' = c /\ UNCHANGED calls
    /\ UNCHANGED <<server, frames, spent>>

\* The editor unmounts: what is pending is sent, and nobody waits for the answer.
destroy ==
    /\ client.mode = "collaborative"
    /\ client' = [client EXCEPT !.mode = "left", !.pending = {}, !.held = {},
                                !.flushDue = FALSE, !.retryDue = FALSE, !.coolDue = FALSE]
    /\ calls' = {q \in calls : q.stage = "ghost"}
                \cup {[q EXCEPT !.stage = "ghost"] :
                         q \in {r \in calls \cup flushCalls(client) :
                                   r.kind = "update" /\ r.stage = "sent"}}
    /\ server' = [server EXCEPT !.joined = FALSE]
    /\ frames' = {}
    /\ UNCHANGED spent

----------------------------------------------------------------------------
(* Answers.  The answer of a call is taken, or its timer fires first.      *)

Outcome(q) == IF q.answer = "none" THEN "unavailable" ELSE q.answer

\* The answer arrives, or cannot any more, or is late.
Concluded(q, rest) ==
    \/ /\ q.stage \in {"answered", "silent"}
       /\ rest = calls \ {q}
       /\ UNCHANGED spent
    \/ /\ q.stage = "sent"
       /\ Fault
       /\ \/ rest = calls \ {q}
          \/ q.kind = "update" /\ rest = (calls \ {q}) \cup {[q EXCEPT !.stage = "ghost"]}

\* performHandshake after the join: the document is the one adopted by now.
joinAck(q) ==
    /\ Mounted /\ q.kind = "join"
    /\ \A r \in calls : r.answer # "denied"
    /\ \E rest \in SUBSET calls :
          /\ Concluded(q, rest)
          /\ IF Outcome(q) = "ok"
             THEN /\ calls' = rest \cup {Call(client, "sync", q.token, client.doc)}
                  /\ UNCHANGED client
             ELSE /\ client' = Settled(failHandshake(client, Outcome(q)), q.token)
                  /\ calls' = rest
    /\ UNCHANGED <<server, frames>>

\* performHandshake after the sync; the update it queues is flushed at once.
syncAck(q) ==
    /\ Mounted /\ q.kind = "sync"
    /\ \E rest \in SUBSET calls :
          /\ Concluded(q, rest)
          /\ IF Outcome(q) # "ok"
             THEN /\ client' = Settled(failHandshake(client, Outcome(q)), q.token)
                  /\ calls' = rest
             ELSE IF q.gen # client.gen
             THEN client' = Settled(client, q.token) /\ calls' = rest
             ELSE LET c == Settled(synced(client, q), q.token)
                      flush == c.doc # q.state
                  IN  /\ client' = IF flush THEN flushed(c) ELSE c
                      /\ calls' = rest \cup (IF flush THEN flushCalls(c) ELSE {})
    /\ UNCHANGED <<server, frames>>

\* flushUpdates after the update.
updateAck(q) ==
    /\ Mounted /\ q.kind = "update" /\ q.stage # "ghost"
    /\ \E rest \in {calls \ {q}, (calls \ {q}) \cup {[q EXCEPT !.stage = "ghost"]}} :
          /\ Concluded(q, rest)
          /\ CASE Outcome(q) = "ok" ->
                    /\ client' = Publish([client EXCEPT !.flushes = 0, !.epoch = q.room],
                                         "synced")
                    /\ calls' = rest
               [] Outcome(q) = "stale" -> Restart(resetDocument(client), rest)
               [] Outcome(q) = "denied" ->
                    /\ client' = Publish([client EXCEPT !.stopped = TRUE, !.pending = {}],
                                         "error")
                    /\ calls' = rest
               [] OTHER -> client' = requeue(client, q.items) /\ calls' = rest
    /\ UNCHANGED <<server, frames>>

----------------------------------------------------------------------------
(* Frames.                                                                 *)

\* The frame waits for the answer that names its epoch; too many are thrown away.
holdWindowFrame(c, f, overflow) ==
    IF c.resync THEN c
    ELSE IF overflow THEN [c EXCEPT !.resync = TRUE, !.held = {}]
    ELSE [c EXCEPT !.held = @ \cup {f}]

handleRemoteFrame(f) ==
    /\ Mounted /\ f.kind = "remote"
    /\ frames' = frames \ {f}
    /\ \/ /\ client.epoch = 0
          /\ client' = holdWindowFrame(client, f, FALSE)
          /\ UNCHANGED spent
       \/ /\ client.epoch = 0 /\ ~client.resync
          /\ Fault
          /\ client' = holdWindowFrame(client, f, TRUE)
       \/ /\ client.epoch # 0
          /\ client' = IF f.epoch = client.epoch
                       THEN [client EXCEPT !.doc = @ \cup f.items] ELSE client
          /\ UNCHANGED spent
    /\ UNCHANGED <<server, calls>>

handleResetFrame(f) ==
    /\ Mounted /\ f.kind = "reset"
    /\ frames' = frames \ {f}
    /\ IF client.epoch = 0 \/ f.epoch <= client.epoch
       THEN UNCHANGED <<client, calls>>
       ELSE Restart(resetDocument(client), calls)
    /\ UNCHANGED <<server, spent>>

----------------------------------------------------------------------------
(* The server: realtime.gateway.ts and note-collaboration.service.ts.      *)

Answer(q, answer, epoch, state) ==
    calls' = (calls \ {q}) \cup
             {[q EXCEPT !.stage = "answered", !.answer = answer, !.room = epoch,
                        !.state = state]}

ResetFrame(epoch) == [kind |-> "reset", epoch |-> epoch, items |-> {}]
RemoteFrame(items) == [kind |-> "remote", epoch |-> server.epoch, items |-> items]
Relay(f) == frames' = IF server.joined THEN frames \cup {f} ELSE frames

serverJoin(q) ==
    /\ q.kind = "join" /\ q.stage = "sent"
    /\ server' = [server EXCEPT !.joined = TRUE]
    /\ Answer(q, "ok", 0, {})
    /\ UNCHANGED <<client, frames, spent>>

\* The first sync of a note seeds its room, and announces it to those in it.
serverSync(q) ==
    /\ q.kind = "sync" /\ q.stage = "sent"
    /\ IF server.epoch = 0
       THEN /\ server' = [server EXCEPT !.joined = TRUE, !.epoch = 1, !.doc = {Base(1)}]
            /\ frames' = frames \cup {ResetFrame(1)}
       ELSE server' = [server EXCEPT !.joined = TRUE] /\ UNCHANGED frames
    /\ Answer(q, "ok", server'.epoch, server'.doc)
    /\ UNCHANGED <<client, spent>>

\* noteUpdate: accepted if it names the epoch of the room; peers get it, the sender does not.
serverUpdate(q) ==
    /\ q.kind = "update" /\ q.stage \in {"sent", "ghost"}
    /\ q.stage = "sent" => server.joined
    /\ server' = IF q.epoch = server.epoch
                 THEN [server EXCEPT !.doc = @ \cup q.items] ELSE server
    /\ IF q.stage = "ghost" THEN calls' = calls \ {q}
       ELSE Answer(q, IF q.epoch = server.epoch THEN "ok" ELSE "stale", server.epoch, {})
    /\ UNCHANGED <<client, frames, spent>>

\* A rate limit or a failed transaction.
serverRefuses(q) ==
    /\ q.stage = "sent"
    /\ Fault
    /\ \E error \in {"limited", "unavailable"} : Answer(q, error, 0, {})
    /\ UNCHANGED <<server, client, frames>>

\* An update of somebody else is accepted and relayed.
peerUpdate ==
    /\ server.epoch > 0 /\ spent.edits < MaxEdits
    /\ LET struct == {[history |-> server.epoch, nr |-> spent.edits + 1, mine |-> FALSE]}
       IN  /\ server' = [server EXCEPT !.doc = @ \cup struct]
           /\ Relay(RemoteFrame(struct))
    /\ spent' = [spent EXCEPT !.edits = @ + 1]
    /\ UNCHANGED <<client, calls>>

\* The room is rebuilt from notes.content: a restored version, or a save outside the room.
rebuild ==
    /\ server.epoch > 0
    /\ spent.rebuilds < MaxRebuilds /\ spent.faults + spent.rebuilds < MaxFaults
    /\ server' = [server EXCEPT !.epoch = @ + 1, !.doc = {Base(server.epoch + 1)}]
    /\ Relay(ResetFrame(server.epoch + 1))
    /\ spent' = [spent EXCEPT !.rebuilds = @ + 1]
    /\ UNCHANGED <<client, calls>>

----------------------------------------------------------------------------

TabStep == handleServerReady \/ flushUpdates \/ handshakeRetry \/ cooldownRetry
Acknowledged(q) == joinAck(q) \/ syncAck(q) \/ updateAck(q)
Served(q) == serverJoin(q) \/ serverSync(q) \/ serverUpdate(q)
Received(f) == handleRemoteFrame(f) \/ handleResetFrame(f)

ClientNext ==
    \/ TabStep \/ handleSocketDisconnect \/ handleDocUpdate \/ destroy
    \/ \E q \in calls : Acknowledged(q) \/ Served(q) \/ serverRefuses(q)
    \/ \E f \in frames : Received(f)
    \/ peerUpdate \/ rebuild

ClientSpec == ClientInit /\ [][ClientNext]_clientVars

\* Timers fire, calls are answered or time out, frames arrive, and socket.io reconnects.
ClientFairness ==
    /\ WF_clientVars(handleServerReady) /\ WF_clientVars(flushUpdates)
    /\ WF_clientVars(handshakeRetry) /\ WF_clientVars(cooldownRetry)
    /\ WF_clientVars(\E q \in calls : Acknowledged(q) \/ Served(q))
    /\ WF_clientVars(\E f \in frames : Received(f))

----------------------------------------------------------------------------
(* Properties.                                                             *)

Structs == [history : Nat, nr : Nat, mine : BOOLEAN]

\* The variables keep their types.
ClientTypeOK ==
    /\ server.epoch \in Nat /\ server.doc \subseteq Structs /\ server.joined \in BOOLEAN
    /\ client.doc \subseteq Structs /\ client.pending \subseteq Structs
    /\ client.status \in {"connecting", "synced", "reconnecting", "error"}
    /\ client.mode \in {"pending", "collaborative", "left"}
    /\ {client.gen, client.epoch, client.flushes, client.tries, client.begun} \subseteq Nat
    /\ \A q \in calls : q.stage \in {"sent", "answered", "silent", "ghost"}

\* The structs of a history that was discarded never come back into the room.
HistoriesStayApart == \A s \in server.doc : s.history \in {0, server.epoch}

\* What is pending is in the document: a reset discards the queue with everything else.
PendingIsInDocument == Mounted => client.pending \subseteq client.doc

\* Something is due that starts a handshake, whose delta has what the room lacks.
HandshakeComing ==
    \/ ~client.online \/ client.handshake # 0 \/ client.retryDue
    \/ client.coolDue /\ client.stopped

\* The tab has used up its handshakes, and waits for a new connection.
GaveUp == client.tries >= MaxHandshakes

\* What was typed is due to be sent, or in a call whose answer somebody waits for.
Carried(s) ==
    \/ client.flushDue /\ ~client.stopped /\ s \in client.pending
    \/ \E q \in calls : q.kind = "update" /\ q.stage # "ghost" /\ s \in q.items

\* A document that waits for its room is not forgotten, and a tab that has stopped writing
\* starts again.
RoomIsComing == Mounted /\ ~GaveUp /\ ~HandshakeComing => client.epoch # 0 /\ ~client.stopped

\* Neither is anything typed into a document that its room lacks.
TypedIsCarried ==
    Mounted /\ ~GaveUp /\ ~HandshakeComing /\ client.epoch = server.epoch =>
        \A s \in client.doc \ server.doc : s.mine => Carried(s)

\* The tab keeps what it has to send.
ClientInv == ClientTypeOK /\ RoomIsComing /\ TypedIsCarried

\* In the end the tab shows the room, whatever is refused, late or lost, while the
\* room keeps its history and the tab has handshakes left.
TabKeepsUp == <>[](Mounted /\ spent.rebuilds = 0 /\ ~GaveUp => client.doc = server.doc)

\* What is typed reaches the room, unless its document is discarded, the tab closes or
\* its handshakes are used up.
EditsArrive ==
    \A n \in 1..MaxEdits, h \in 0..(MaxRebuilds + 1) :
        LET s == [history |-> h, nr |-> n, mine |-> TRUE]
        IN  s \in client.doc ~> s \in server.doc \/ s \notin client.doc \/ ~Mounted \/ GaveUp
=============================================================================
