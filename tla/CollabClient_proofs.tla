------------------------ MODULE CollabClient_proofs ------------------------
(***************************************************************************)
(* Proofs about the shared document of a tab, for any handshakes, flushes, *)
(* edits, rebuilds and faults: the variables keep their types, and a tab   *)
(* that is connected never waits for a room that nothing is fetching.      *)
(*                                                                         *)
(* A handshake ends in three ways.  It fails, and another one is scheduled *)
(* or its attempts are used up; it is overtaken by a reset, which started  *)
(* another one under a token of its own; or it synchronises the document   *)
(* of its generation, which then has an epoch and may be written.  What is *)
(* left is an update that was refused because the socket was not in the    *)
(* room yet: it stops the tab, and no sync is under way that would be      *)
(* answered before the refusal is.                                         *)
(***************************************************************************)
EXTENDS CollabClient, TLAPS

\* The fields of the provider, of a frame and of a call, and their values.
TabFields ==
    {"gen", "epoch", "doc", "history", "pending", "held", "resync", "stopped", "flushes", "tries",
     "handshake", "begun", "flushDue", "retryDue", "coolDue", "online", "ready", "mode", "status"}
CallFields == {"kind", "token", "gen", "epoch", "items", "stage", "answer", "room", "state"}

Framed(f) == f.epoch \in Nat /\ f.items \subseteq Structs

TabTyped(c) ==
    /\ DOMAIN c = TabFields
    /\ c.gen \in Nat /\ c.epoch \in Nat /\ c.history \in Nat
    /\ c.flushes \in Nat /\ c.tries \in Nat /\ c.begun \in Nat /\ c.handshake \in 0..c.begun
    /\ c.doc \subseteq Structs /\ c.pending \subseteq Structs
    /\ \A f \in c.held : Framed(f)
    /\ c.mode \in {"pending", "collaborative", "left"}
    /\ c.status \in {"connecting", "synced", "reconnecting", "error"}

CallTyped(q) ==
    /\ DOMAIN q = CallFields
    /\ q.kind \in {"join", "sync", "update"}
    /\ q.stage \in {"sent", "answered", "silent", "ghost"}
    /\ q.token \in Nat /\ q.gen \in Nat /\ q.epoch \in Nat /\ q.room \in Nat
    /\ q.items \subseteq Structs /\ q.state \subseteq Structs

\* A sync that may still succeed.
Live(q) == q.kind = "sync" /\ (q.stage = "sent" \/ q.answer = "ok")

\* A call has the token of a handshake that was begun, and the handshake under way works
\* for the document of now; only calls that reached the server were answered, an update names
\* a room and a success names one, and a socket whose handshake gets through is in the room.
CallGood(q) ==
    /\ CallTyped(q)
    /\ q.stage # "answered" => q.answer = "none"
    /\ q.stage = "ghost" => q.kind = "update"
    /\ q.kind # "update" => q.token \in 1..client.begun
    /\ q.kind = "sync" /\ q.token = client.handshake => q.gen = client.gen
    /\ q.kind = "update" => q.epoch # 0
    /\ q.kind # "join" /\ q.answer = "ok" => q.room # 0
    /\ Live(q) \/ (q.kind = "join" /\ q.answer = "ok") => server.joined

SyncTyped ==
    /\ DOMAIN server = {"epoch", "doc", "joined"}
    /\ server.epoch \in Nat /\ server.doc \subseteq Structs /\ server.joined \in BOOLEAN
    /\ TabTyped(client) /\ client.online = client.ready
    /\ DOMAIN spent = {"edits", "rebuilds", "faults"} /\ spent.edits \in Nat
    /\ \A f \in frames : Framed(f)

\* A handshake is under way or due, or there will be none.
Underway(c) == c.handshake # 0 \/ c.retryDue \/ c.tries >= MaxHandshakes

\* What a connected tab needs no handshake for.
Provided(c) ==
    /\ c.epoch # 0 /\ server.joined
    /\ c.stopped => c.coolDue
    /\ \A q \in calls : q.answer # "denied"

Awaited == Mounted /\ client.online => Underway(client) \/ Provided(client)

\* While a refusal is unread, the tab is connected and no sync can overtake it.
Unread == \A q \in calls : q.answer = "denied" => client.online /\ \A r \in calls : ~Live(r)

ClientIInv == SyncTyped /\ (\A q \in calls : CallGood(q)) /\ Awaited /\ Unread
----------------------------------------------------------------------------
(* What the operations of the provider do to it.                           *)

\* The handshakes and the connection of c are those of d; and its room is, too.
SameCalls(c, d) ==
    /\ d.gen = c.gen /\ d.begun = c.begun /\ d.handshake = c.handshake
    /\ d.online = c.online /\ d.ready = c.ready
SameRoom(c, d) == d.epoch = c.epoch /\ d.stopped = c.stopped /\ d.coolDue = c.coolDue
Same(c, d) == SameCalls(c, d) /\ SameRoom(c, d) /\ d.retryDue = c.retryDue /\ d.tries = c.tries

LEMMA PublishedIs ==
  ASSUME NEW c, TabTyped(c), NEW status \in {"connecting", "synced", "reconnecting", "error"}
  PROVE  LET d == Publish(c, status)
         IN  TabTyped(d) /\ Same(c, d) /\ d.doc = c.doc
  BY DEF Publish, TabTyped, TabFields, Same, SameCalls, SameRoom

LEMMA RunIs ==
  ASSUME NEW c, TabTyped(c)
  PROVE  LET d == runHandshake(c)
         IN  /\ TabTyped(d) /\ d.handshake # 0
             /\ d.gen = c.gen /\ d.online = c.online /\ d.ready = c.ready
             /\ IF c.handshake = 0 THEN d.begun = c.begun + 1 /\ d.handshake = d.begun ELSE d = c
  BY DEF runHandshake, runs, TabTyped, TabFields

LEMMA DiscardedIs ==
  ASSUME NEW c, TabTyped(c)
  PROVE  LET d == resetDocument(c)
         IN  /\ TabTyped(d) /\ d.gen = c.gen + 1 /\ d.begun = c.begun /\ d.handshake = 0
             /\ d.online = c.online /\ d.ready = c.ready
  <1> DEFINE fresh == adoptDocument(c)
             empty == [fresh EXCEPT !.pending = {}, !.held = {}, !.resync = FALSE]
             writable == [empty EXCEPT !.flushDue = FALSE, !.stopped = FALSE, !.flushes = 0,
                                       !.handshake = 0]
  <1>1. TabTyped(fresh) /\ fresh.gen = c.gen + 1 /\ fresh.begun = c.begun
        /\ fresh.online = c.online /\ fresh.ready = c.ready
    BY DEF adoptDocument, TabTyped, TabFields
  <1>2. resetDocument(c) = Publish(writable, "connecting")
    BY DEF resetDocument
  <1> HIDE DEF fresh
  <1>3. TabTyped(empty) /\ empty.gen = fresh.gen /\ empty.begun = fresh.begun
        /\ empty.online = fresh.online /\ empty.ready = fresh.ready
    BY <1>1 DEF TabTyped, TabFields
  <1> HIDE DEF empty
  <1>4. /\ TabTyped(writable) /\ writable.gen = empty.gen /\ writable.begun = empty.begun
        /\ writable.handshake = 0
        /\ writable.online = empty.online /\ writable.ready = empty.ready
    BY <1>3 DEF TabTyped, TabFields
  <1> HIDE DEF writable
  <1> QED  BY <1>1, <1>2, <1>3, <1>4, PublishedIs DEF Same, SameCalls

LEMMA SettledIs ==
  ASSUME NEW c, TabTyped(c), NEW token
  PROVE  LET d == Settled(c, token)
         IN  /\ TabTyped(d) /\ SameRoom(c, d) /\ d.retryDue = c.retryDue /\ d.tries = c.tries
             /\ d.gen = c.gen /\ d.begun = c.begun /\ d.online = c.online /\ d.ready = c.ready
             /\ d.handshake = IF c.handshake = token THEN 0 ELSE c.handshake
             /\ d.doc = c.doc
  BY DEF Settled, TabTyped, TabFields, SameRoom

\* Another handshake is scheduled, or there will be none.
LEMMA RetryIs ==
  ASSUME MaxHandshakes \in Nat, NEW c, TabTyped(c)
  PROVE  LET d == scheduleHandshakeRetry(c)
         IN  /\ TabTyped(d) /\ SameCalls(c, d) /\ SameRoom(c, d) /\ d.doc = c.doc
             /\ d.retryDue \/ d.tries >= MaxHandshakes
  <1> DEFINE due == c.tries + 1 < MaxHandshakes
             e == [c EXCEPT !.tries = @ + 1, !.retryDue = due]
  <1>1. scheduleHandshakeRetry(c) = IF c.retryDue THEN c ELSE e
    BY DEF scheduleHandshakeRetry
  <1>2. due \/ c.tries + 1 >= MaxHandshakes
    BY DEF TabTyped
  <1> HIDE DEF due
  <1>3. /\ TabTyped(e) /\ SameCalls(c, e) /\ SameRoom(c, e) /\ e.doc = c.doc
        /\ e.tries = c.tries + 1 /\ e.retryDue = due
    BY DEF TabTyped, TabFields, SameCalls, SameRoom
  <1> HIDE DEF e
  <1> QED  BY <1>1, <1>2, <1>3 DEF SameCalls, SameRoom

LEMMA FailIs ==
  ASSUME MaxHandshakes \in Nat, NEW c, TabTyped(c), NEW error
  PROVE  LET d == failHandshake(c, error)
         IN  TabTyped(d) /\ SameCalls(c, d) /\ (d.retryDue \/ d.tries >= MaxHandshakes)
  <1> DEFINE d == scheduleHandshakeRetry(c)
  <1>1. TabTyped(d) /\ SameCalls(c, d) /\ (d.retryDue \/ d.tries >= MaxHandshakes)
    BY RetryIs
  <1>2. failHandshake(c, error)
          = Publish(d, IF error = "limited" THEN "error" ELSE "reconnecting")
    BY DEF failHandshake
  <1> HIDE DEF d
  <1> QED  BY <1>1, <1>2, PublishedIs DEF Same, SameCalls

LEMMA QueueIs ==
  ASSUME NEW c, TabTyped(c), NEW items \in SUBSET Structs
  PROVE  LET d == queueUpdate(c, items) IN TabTyped(d) /\ Same(c, d)
  BY DEF queueUpdate, TabTyped, TabFields, Same, SameCalls, SameRoom

LEMMA FlushedIs ==
  ASSUME NEW c, TabTyped(c)
  PROVE  LET d == flushed(c) IN TabTyped(d) /\ Same(c, d)
  <1> DEFINE d == [c EXCEPT !.flushDue = FALSE]
             e == [d EXCEPT !.pending = {}]
  <1>1. TabTyped(d) /\ Same(c, d)
    BY DEF TabTyped, TabFields, Same, SameCalls, SameRoom
  <1>2. flushed(c) \in {e, d, Publish(d, "reconnecting")}
    BY DEF flushed
  <1> HIDE DEF d
  <1>3. TabTyped(e) /\ Same(d, e)
    BY <1>1 DEF TabTyped, TabFields, Same, SameCalls, SameRoom
  <1> HIDE DEF e
  <1> QED  BY <1>1, <1>2, <1>3, PublishedIs DEF Same, SameCalls, SameRoom

\* A tab that stops writing will try again.
LEMMA RequeueIs ==
  ASSUME NEW c, TabTyped(c), NEW items \in SUBSET Structs
  PROVE  LET d == requeue(c, items)
         IN  /\ TabTyped(d) /\ SameCalls(c, d) /\ d.retryDue = c.retryDue /\ d.tries = c.tries
             /\ d.epoch = c.epoch
             /\ d.coolDue \/ (d.coolDue = c.coolDue /\ d.stopped = c.stopped)
  <1> DEFINE stops == [c EXCEPT !.pending = {}, !.flushes = @ + 1, !.stopped = TRUE,
                                !.coolDue = TRUE]
             waits == [c EXCEPT !.pending = @ \cup items, !.flushes = @ + 1, !.flushDue = TRUE]
  <1>1. requeue(c, items) \in {Publish(stops, "error"), Publish(waits, "reconnecting")}
    BY DEF requeue
  <1>2. /\ TabTyped(stops) /\ SameCalls(c, stops) /\ stops.coolDue
        /\ stops.epoch = c.epoch /\ stops.retryDue = c.retryDue /\ stops.tries = c.tries
    BY DEF TabTyped, TabFields, SameCalls
  <1>3. TabTyped(waits) /\ Same(c, waits)
    BY DEF TabTyped, TabFields, Same, SameCalls, SameRoom
  <1> HIDE DEF stops, waits
  <1> QED  BY <1>1, <1>2, <1>3, PublishedIs DEF Same, SameCalls, SameRoom

LEMMA DrainedIs ==
  ASSUME MaxHandshakes \in Nat, NEW c, TabTyped(c)
  PROVE  LET d == drained(c) IN TabTyped(d) /\ SameCalls(c, d) /\ SameRoom(c, d)
  <1> DEFINE wanted == UNION {f.items : f \in {g \in c.held : g.epoch = c.epoch}}
             d == [c EXCEPT !.held = {}, !.resync = FALSE, !.doc = @ \cup wanted]
  <1>1. wanted \subseteq Structs
    BY DEF TabTyped, Framed
  <1>2. drained(c) \in {d, scheduleHandshakeRetry(d)}
    BY DEF drained
  <1> HIDE DEF wanted
  <1>3. TabTyped(d) /\ SameCalls(c, d) /\ SameRoom(c, d)
    BY <1>1 DEF TabTyped, TabFields, SameCalls, SameRoom
  <1> HIDE DEF d
  <1> QED  BY <1>2, <1>3, RetryIs DEF SameCalls, SameRoom

\* A sync gives the document its room, and lets the tab write.
LEMMA SyncedIs ==
  ASSUME MaxHandshakes \in Nat, NEW c, TabTyped(c), NEW q, q.room \in Nat, q.state \subseteq Structs
  PROVE  LET d == synced(c, q)
         IN  TabTyped(d) /\ SameCalls(c, d) /\ d.epoch = q.room /\ ~d.stopped
  <1> DEFINE filled == [c EXCEPT !.epoch = q.room, !.history = q.room,
                                 !.doc = @ \cup q.state, !.stopped = FALSE, !.tries = 0]
             full == drained(filled)
             live == Publish(full, "synced")
             delta == live.doc \ q.state
  <1>1. TabTyped(filled) /\ SameCalls(c, filled) /\ filled.epoch = q.room /\ ~filled.stopped
    BY DEF TabTyped, TabFields, SameCalls
  <1>2. synced(c, q) = IF delta = {} THEN live ELSE queueUpdate(live, delta)
    BY DEF synced
  <1> HIDE DEF filled
  <1>3. TabTyped(full) /\ SameCalls(c, full) /\ full.epoch = q.room /\ ~full.stopped
    BY <1>1, DrainedIs DEF SameCalls, SameRoom
  <1> HIDE DEF full
  <1>4. TabTyped(live) /\ SameCalls(c, live) /\ live.epoch = q.room /\ ~live.stopped
    BY <1>3, PublishedIs DEF Same, SameCalls, SameRoom
  <1> HIDE DEF live
  <1>5. delta \in SUBSET Structs
    BY <1>4 DEF TabTyped
  <1> HIDE DEF delta
  <1> QED  BY <1>2, <1>4, <1>5, QueueIs DEF Same, SameCalls, SameRoom
----------------------------------------------------------------------------
(* What every step owes to the calls, and what a step of the tab owes.     *)

LEMMA ClientInitHolds == ClientInit => ClientIInv
  <1> SUFFICES ASSUME ClientInit PROVE ClientIInv
    OBVIOUS
  <1>1. TabTyped(client) /\ client.online = client.ready /\ ~client.online
    BY DEF ClientInit, TabTyped, TabFields
  <1> QED
    BY <1>1 DEF ClientInit, ClientIInv, SyncTyped, Awaited, Unread

SpentTyped == DOMAIN spent = {"edits", "rebuilds", "faults"} /\ spent.edits \in Nat

LEMMA SpentIs ==
  ASSUME SyncTyped, Fault \/ UNCHANGED spent
  PROVE  SpentTyped'
  BY DEF SyncTyped, SpentTyped, Fault

\* The handshake under way is the same, for the same document; or it is none, or another.
Overtaken(c, d) ==
    /\ c.begun <= d.begun
    /\ \/ d.handshake = c.handshake /\ d.gen = c.gen
       \/ d.handshake = 0
       \/ d.handshake > c.begun

LEMMA CallStays ==
  ASSUME ClientIInv, NEW q \in calls, TabTyped(client'), Overtaken(client, client'),
         server.joined => server'.joined
  PROVE  CallGood(q)'
  <1>1. CallGood(q) /\ TabTyped(client)
    BY DEF ClientIInv, SyncTyped
  <1> QED  BY <1>1 DEF CallGood, CallTyped, TabTyped, Overtaken

\* Refusals and syncs come only from where they are looked after.
LEMMA UnreadStays ==
  ASSUME ClientIInv, client.online => client'.online,
         \A q \in calls' : q \in calls \/ (q.answer # "denied" /\ ~Live(q))
  PROVE  Unread'
  BY DEF ClientIInv, Unread

LEMMA TabStepKeeps ==
  ASSUME ClientIInv, server' = server, frames' \subseteq frames, SpentTyped',
         TabTyped(client'), client'.online = client'.ready, Overtaken(client, client'),
         \A q \in calls' : q \in calls \/ CallGood(q)',
         client'.online => Underway(client') \/ Provided(client)',
         Unread'
  PROVE  ClientIInv'
  <1>1. SyncTyped'
    BY DEF ClientIInv, SyncTyped, SpentTyped
  <1>2. \A q \in calls' : CallGood(q)'
    BY CallStays
  <1>3. Awaited'
    BY DEF Awaited, Underway, Provided
  <1> QED  BY <1>1, <1>2, <1>3 DEF ClientIInv

\* A tab in which nothing happens to the handshakes, the connection and the room.
LEMMA QuietKeeps ==
  ASSUME ClientIInv, Mounted, server' = server, frames' \subseteq frames, SpentTyped',
         TabTyped(client'), Same(client, client'),
         \A q \in calls' : q \in calls \/ (CallGood(q)' /\ q.answer # "denied" /\ ~Live(q))
  PROVE  ClientIInv'
  <1>1. TabTyped(client) /\ client.online = client.ready
    BY DEF ClientIInv, SyncTyped
  <1>2. Overtaken(client, client') /\ client'.online = client'.ready
    BY <1>1 DEF Same, SameCalls, Overtaken, TabTyped
  <1>3. client'.online => Underway(client') \/ Provided(client)'
    BY DEF ClientIInv, Awaited, Underway, Provided, Same, SameCalls, SameRoom
  <1>4. Unread'
    BY UnreadStays DEF Same, SameCalls
  <1> QED  BY <1>2, <1>3, <1>4, TabStepKeeps

\* A call that leaves the tab.
LEMMA CallIs ==
  ASSUME NEW c, TabTyped(c), NEW kind \in {"join", "sync", "update"}, NEW token \in Nat,
         NEW items \in SUBSET Structs
  PROVE  LET q == Call(c, kind, token, items)
         IN  /\ CallTyped(q) /\ q.kind = kind /\ q.token = token /\ q.gen = c.gen
             /\ q.epoch = c.epoch /\ q.items = items /\ q.answer = "none" /\ q.room = 0
             /\ q.stage \in {"sent", "silent"}
             /\ q.stage = "sent" => c.online
  BY DEF Call, CallTyped, CallFields, TabTyped

LEMMA FlushCallsAre ==
  ASSUME NEW c, TabTyped(c), NEW q \in flushCalls(c)
  PROVE  /\ CallTyped(q) /\ q.kind = "update" /\ q.answer = "none" /\ q.epoch # 0
         /\ q.stage \in {"sent", "silent"} /\ q.items \subseteq Structs
         /\ CallGood(q)' /\ ~Live(q)
         /\ c.online
  <1>1. q = Call(c, "update", 0, c.pending) /\ c.online /\ c.epoch # 0
    BY DEF flushCalls, mayFlush
  <1>2. c.pending \in SUBSET Structs
    BY DEF TabTyped
  <1>3. /\ CallTyped(q) /\ q.kind = "update" /\ q.answer = "none" /\ q.epoch # 0
        /\ q.stage \in {"sent", "silent"}
    BY <1>1, <1>2, CallIs
  <1> QED  BY <1>1, <1>3 DEF CallGood, CallTyped, Live

\* A handshake starts, and overtakes any other whose document is gone.
LEMMA RestartKeeps ==
  ASSUME ClientIInv, server' = server, frames' \subseteq frames, SpentTyped',
         NEW c, TabTyped(c), c.online = c.ready, client.online => c.online, c.begun = client.begun,
         (c.handshake = client.handshake /\ c.gen = client.gen) \/ c.handshake = 0,
         NEW rest, rest \subseteq calls, Restart(c, rest)
  PROVE  ClientIInv'
  <1>1. client' = runHandshake(c) /\ calls' = rest \cup handshakeCalls(c)
    BY DEF Restart
  <1>2. /\ TabTyped(client') /\ client'.handshake # 0
        /\ client'.gen = c.gen /\ client'.online = c.online /\ client'.ready = c.ready
        /\ IF c.handshake = 0 THEN client'.begun = c.begun + 1 /\ client'.handshake = client'.begun
           ELSE client' = c
    BY <1>1, RunIs
  <1>3. Overtaken(client, client')
    BY <1>2 DEF Overtaken, TabTyped, ClientIInv, SyncTyped
  <1>4. ASSUME NEW q \in handshakeCalls(c)
        PROVE  CallGood(q)' /\ q.answer # "denied" /\ ~Live(q)
    <2>1. q = Call(client', "join", client'.begun, {}) /\ c.handshake = 0
      BY <1>1 DEF handshakeCalls, Joins, runs
    <2>2. client'.begun \in Nat /\ client'.begun >= 1
      BY <1>2, <2>1 DEF TabTyped
    <2>3. /\ CallTyped(q) /\ q.kind = "join" /\ q.token = client'.begun /\ q.answer = "none"
          /\ q.stage \in {"sent", "silent"}
      BY <1>2, <2>1, <2>2, CallIs
    <2> QED  BY <2>2, <2>3 DEF CallGood, CallTyped, Live
  <1>5. Unread'
    BY <1>1, <1>2, <1>4, UnreadStays
  <1>6. Underway(client')
    BY <1>2 DEF Underway
  <1> QED  BY <1>1, <1>2, <1>3, <1>4, <1>5, <1>6, TabStepKeeps
----------------------------------------------------------------------------
(* The socket and the timers of the tab.                                   *)

LEMMA ReadyKeeps == ASSUME ClientIInv, handleServerReady PROVE ClientIInv'
  <1> DEFINE c == [client EXCEPT !.online = TRUE, !.ready = TRUE, !.tries = 0]
  <1>1. Restart(c, calls) /\ UNCHANGED <<server, frames, spent>>
    BY DEF handleServerReady
  <1>2. SpentTyped'
    BY <1>1, SpentIs DEF ClientIInv
  <1>3. /\ TabTyped(c) /\ c.online = c.ready /\ c.online /\ c.begun = client.begun
        /\ c.handshake = client.handshake /\ c.gen = client.gen
    BY DEF ClientIInv, SyncTyped, TabTyped, TabFields
  <1> HIDE DEF c
  <1> QED  BY <1>1, <1>2, <1>3, RestartKeeps

LEMMA DisconnectKeeps == ASSUME ClientIInv, handleSocketDisconnect PROVE ClientIInv'
  <1> DEFINE c == [client EXCEPT !.online = FALSE, !.ready = FALSE, !.tries = 0]
             Silent(q) == [q EXCEPT !.stage = "silent", !.answer = "none", !.room = 0, !.state = {}]
             Ghost(q) == [q EXCEPT !.stage = "ghost"]
  <1>1. /\ Mounted /\ Fault /\ client' = Publish(c, "reconnecting")
        /\ server' = [server EXCEPT !.joined = FALSE] /\ frames' = {}
    BY DEF handleSocketDisconnect
  <1>2. TabTyped(c) /\ ~c.online /\ ~c.ready /\ c.online = c.ready
        /\ c.gen = client.gen /\ c.begun = client.begun /\ c.handshake = client.handshake
    BY DEF ClientIInv, SyncTyped, TabTyped, TabFields
  <1> HIDE DEF c
  <1>3. TabTyped(client') /\ ~client'.online /\ client'.online = client'.ready
        /\ client'.gen = client.gen /\ client'.begun = client.begun
        /\ client'.handshake = client.handshake
    BY <1>1, <1>2, PublishedIs DEF Same, SameCalls
  <1>4. /\ DOMAIN server' = {"epoch", "doc", "joined"} /\ server'.epoch = server.epoch
        /\ server'.doc = server.doc /\ server'.joined = FALSE
    BY <1>1 DEF ClientIInv, SyncTyped
  <1>5. SyncTyped'
    BY <1>1, <1>3, <1>4, SpentIs DEF ClientIInv, SyncTyped, SpentTyped
  <1>6. PICK arrived \in SUBSET {q \in calls : q.kind = "update" /\ q.stage = "sent"} :
          calls' = {Silent(q) : q \in {r \in calls : r.stage # "ghost"}}
                   \cup {Ghost(q) : q \in arrived} \cup {q \in calls : q.stage = "ghost"}
    BY Zenon DEF handleSocketDisconnect
  <1>7. ASSUME NEW q \in calls
        PROVE  /\ q.stage # "ghost" =>
                     CallGood(Silent(q))' /\ Silent(q).answer = "none"
               /\ q.stage = "sent" /\ q.kind = "update" =>
                     CallGood(Ghost(q))' /\ Ghost(q).answer = "none"
               /\ q.stage = "ghost" => CallGood(q)' /\ q.answer = "none"
    <2> DEFINE s == Silent(q)
               g == Ghost(q)
    <2>1. CallGood(q) /\ TabTyped(client)
      BY DEF ClientIInv, SyncTyped
    <2>2. /\ DOMAIN s = CallFields /\ s.kind = q.kind /\ s.token = q.token /\ s.gen = q.gen
          /\ s.epoch = q.epoch /\ s.items = q.items /\ s.stage = "silent" /\ s.answer = "none"
          /\ s.room = 0 /\ s.state = {}
      BY <2>1 DEF CallGood, CallTyped, CallFields
    <2>3. /\ DOMAIN g = CallFields /\ g.kind = q.kind /\ g.token = q.token /\ g.gen = q.gen
          /\ g.epoch = q.epoch /\ g.items = q.items /\ g.stage = "ghost" /\ g.answer = q.answer
          /\ g.room = q.room /\ g.state = q.state
      BY <2>1 DEF CallGood, CallTyped, CallFields
    <2> HIDE DEF s, g
    <2>4. CallGood(s)' /\ s.answer = "none"
      BY <1>3, <2>1, <2>2 DEF CallGood, CallTyped, Live
    <2>5. q.stage = "sent" /\ q.kind = "update" => CallGood(g)' /\ g.answer = "none"
      BY <1>3, <2>1, <2>3 DEF CallGood, CallTyped, Live
    <2>6. q.stage = "ghost" => CallGood(q)' /\ q.answer = "none"
      BY <1>3, <2>1 DEF CallGood, CallTyped, Live
    <2> QED  BY <2>4, <2>5, <2>6 DEF s, g
  <1> HIDE DEF Silent, Ghost
  <1>8. \A q \in calls' : CallGood(q)' /\ q.answer = "none"
    BY <1>6, <1>7
  <1>9. Awaited' /\ Unread'
    BY <1>3, <1>8 DEF Awaited, Unread
  <1> QED  BY <1>5, <1>8, <1>9 DEF ClientIInv

LEMMA KeystrokeKeeps == ASSUME ClientIInv, handleDocUpdate PROVE ClientIInv'
  <1> DEFINE struct == {[history |-> client.history, nr |-> spent.edits + 1, mine |-> TRUE]}
             c == [client EXCEPT !.doc = @ \cup struct]
  <1>1. client.mode = "collaborative" /\ spent' = [spent EXCEPT !.edits = @ + 1]
        /\ client' = queueUpdate(c, struct) /\ UNCHANGED <<server, calls, frames>>
    BY DEF handleDocUpdate
  <1>2. struct \in SUBSET Structs
    BY DEF ClientIInv, SyncTyped, TabTyped, Structs
  <1> HIDE DEF struct
  <1>3. TabTyped(c) /\ Same(client, c)
    BY <1>2 DEF ClientIInv, SyncTyped, TabTyped, TabFields, Same, SameCalls, SameRoom
  <1> HIDE DEF c
  <1>4. TabTyped(client') /\ Same(client, client')
    BY <1>1, <1>2, <1>3, QueueIs DEF Same, SameCalls, SameRoom
  <1>5. Mounted /\ SpentTyped'
    BY <1>1 DEF Mounted, ClientIInv, SyncTyped, SpentTyped
  <1> QED  BY <1>1, <1>4, <1>5, QuietKeeps

\* A refusal of a socket that is not in its room: the handshake that will bring it there
\* is under way, and no sync has been sent.
LEMMA FlushingKeeps == ASSUME ClientIInv, flushUpdates PROVE ClientIInv'
  <1> DEFINE Denied(q) == [q EXCEPT !.stage = "answered", !.answer = "denied"]
             refused == {Denied(q) : q \in {r \in flushCalls(client) : r.stage = "sent"}}
  <1>1. Mounted /\ client' = flushed(client) /\ UNCHANGED <<server, frames, spent>>
    BY DEF flushUpdates
  <1>2. TabTyped(client) /\ client.online = client.ready
    BY DEF ClientIInv, SyncTyped
  <1>3. TabTyped(client') /\ Same(client, client') /\ SpentTyped'
    BY <1>1, <1>2, FlushedIs, SpentIs DEF ClientIInv
  <1>4. CASE calls' = calls \cup flushCalls(client)
    <2>1. \A q \in flushCalls(client) : CallGood(q)' /\ q.answer # "denied" /\ ~Live(q)
      BY <1>2, FlushCallsAre
    <2> QED  BY <1>1, <1>3, <1>4, <2>1, QuietKeeps
  <1>5. CASE ~server.joined /\ calls' = calls \cup refused /\ flushCalls(client) # {}
    <2>1. ASSUME NEW q \in flushCalls(client)
          PROVE  CallGood(Denied(q))' /\ ~Live(Denied(q))
      <3> DEFINE r == Denied(q)
      <3>1. /\ CallTyped(q) /\ q.kind = "update" /\ q.epoch # 0
        BY <1>2, FlushCallsAre
      <3>2. /\ DOMAIN r = CallFields /\ r.kind = q.kind /\ r.token = q.token /\ r.gen = q.gen
            /\ r.epoch = q.epoch /\ r.items = q.items /\ r.stage = "answered"
            /\ r.answer = "denied" /\ r.room = q.room /\ r.state = q.state
        BY <3>1 DEF CallTyped, CallFields
      <3> HIDE DEF r
      <3>3. CallGood(r)' /\ ~Live(r)
        BY <3>1, <3>2 DEF CallGood, CallTyped, Live
      <3> QED  BY <3>3 DEF r
    <2> HIDE DEF Denied
    <2>2. \A q \in calls' : q \in calls \/ (CallGood(q)' /\ ~Live(q))
      BY <1>5, <2>1
    <2>3. client.online
      <3>1. PICK q \in flushCalls(client) : TRUE
        BY <1>5
      <3> QED  BY <1>2, <3>1, FlushCallsAre
    <2>4. \A q \in calls' : ~Live(q)
      BY <1>5, <2>2 DEF ClientIInv, CallGood
    <2>5. Underway(client) /\ Underway(client')
      BY <1>1, <1>3, <1>5, <2>3 DEF ClientIInv, Awaited, Provided, Underway, Same, SameCalls
    <2>6. Unread' /\ Overtaken(client, client') /\ client'.online = client'.ready
      BY <1>2, <1>3, <2>3, <2>4 DEF Unread, Overtaken, TabTyped, Same, SameCalls
    <2> QED  BY <1>1, <1>3, <2>2, <2>5, <2>6, TabStepKeeps
  <1>6. \/ calls' = calls \cup flushCalls(client)
        \/ ~server.joined /\ calls' = calls \cup refused /\ flushCalls(client) # {}
    BY Zenon DEF flushUpdates
  <1> QED  BY <1>4, <1>5, <1>6

LEMMA RetriedKeeps == ASSUME ClientIInv, handshakeRetry PROVE ClientIInv'
  <1> DEFINE c == [client EXCEPT !.retryDue = FALSE]
  <1>1. /\ Mounted /\ UNCHANGED <<server, frames, spent>>
        /\ IF client.online THEN Restart(c, calls) ELSE client' = c /\ UNCHANGED calls
    BY DEF handshakeRetry
  <1>2. SpentTyped'
    BY <1>1, SpentIs DEF ClientIInv
  <1>3. /\ TabTyped(c) /\ c.online = c.ready /\ c.online = client.online
        /\ c.begun = client.begun /\ c.handshake = client.handshake /\ c.gen = client.gen
    BY DEF ClientIInv, SyncTyped, TabTyped, TabFields
  <1> HIDE DEF c
  <1>4. CASE client.online
    BY <1>1, <1>2, <1>3, <1>4, RestartKeeps
  <1>5. CASE ~client.online
    <2>1. Overtaken(client, client') /\ Unread'
      BY <1>1, <1>3, <1>5, UnreadStays DEF Overtaken, TabTyped, ClientIInv
    <2> QED  BY <1>1, <1>2, <1>3, <1>5, <2>1, TabStepKeeps
  <1> QED  BY <1>4, <1>5

LEMMA CooldownKeeps == ASSUME ClientIInv, cooldownRetry PROVE ClientIInv'
  <1> DEFINE c == [client EXCEPT !.coolDue = FALSE]
             d == [c EXCEPT !.stopped = FALSE, !.flushes = 0]
  <1>1. /\ Mounted /\ UNCHANGED <<server, frames, spent>>
        /\ IF client.stopped THEN Restart(d, calls) ELSE client' = c /\ UNCHANGED calls
    BY DEF cooldownRetry
  <1>2. SpentTyped'
    BY <1>1, SpentIs DEF ClientIInv
  <1>3. /\ TabTyped(c) /\ SameCalls(client, c) /\ c.online = c.ready
        /\ c.retryDue = client.retryDue /\ c.tries = client.tries
        /\ c.epoch = client.epoch /\ c.stopped = client.stopped
    BY DEF ClientIInv, SyncTyped, TabTyped, TabFields, SameCalls
  <1> HIDE DEF c
  <1>4. TabTyped(d) /\ SameCalls(c, d)
    BY <1>3 DEF TabTyped, TabFields, SameCalls
  <1> HIDE DEF d
  <1>5. CASE client.stopped
    BY <1>1, <1>2, <1>3, <1>4, <1>5, RestartKeeps DEF SameCalls
  <1>6. CASE ~client.stopped
    <2>1. client' = c /\ calls' = calls
      BY <1>1, <1>6
    <2>2. Overtaken(client, client') /\ Unread'
      BY <1>3, <2>1, UnreadStays DEF Overtaken, SameCalls, TabTyped
    <2>3. client'.online => Underway(client') \/ Provided(client)'
      BY <1>1, <1>3, <1>6, <2>1 DEF ClientIInv, Awaited, Underway, Provided, SameCalls
    <2> QED  BY <1>1, <1>2, <1>3, <2>1, <2>2, <2>3, TabStepKeeps
  <1> QED  BY <1>5, <1>6

LEMMA DestroyKeeps == ASSUME ClientIInv, destroy PROVE ClientIInv'
  <1> DEFINE Ghost(q) == [q EXCEPT !.stage = "ghost"]
  <1>1. /\ client' = [client EXCEPT !.mode = "left", !.pending = {}, !.held = {},
                                    !.flushDue = FALSE, !.retryDue = FALSE, !.coolDue = FALSE]
        /\ server' = [server EXCEPT !.joined = FALSE] /\ frames' = {} /\ UNCHANGED spent
    BY DEF destroy
  <1>2. TabTyped(client') /\ SameCalls(client, client') /\ client'.online = client'.ready
        /\ client'.mode = "left"
    BY <1>1 DEF ClientIInv, SyncTyped, TabTyped, TabFields, SameCalls
  <1>3. /\ DOMAIN server' = {"epoch", "doc", "joined"} /\ server'.epoch = server.epoch
        /\ server'.doc = server.doc /\ server'.joined = FALSE
    BY <1>1 DEF ClientIInv, SyncTyped
  <1>4. SyncTyped'
    BY <1>1, <1>2, <1>3 DEF ClientIInv, SyncTyped
  <1>5. ASSUME NEW q, q \in calls /\ q.stage = "ghost"
        PROVE  CallGood(q)' /\ q.answer = "none"
    BY <1>2, <1>3, <1>5 DEF ClientIInv, CallGood, CallTyped, Live, SameCalls
  <1>6. ASSUME NEW q \in calls \cup flushCalls(client), q.kind = "update", q.stage = "sent"
        PROVE  CallGood(Ghost(q))' /\ Ghost(q).answer = "none"
    <2> DEFINE g == Ghost(q)
    <2>1. CallTyped(q) /\ q.answer = "none" /\ q.epoch # 0
      BY <1>6, FlushCallsAre DEF ClientIInv, SyncTyped, CallGood
    <2>2. /\ DOMAIN g = CallFields /\ g.kind = q.kind /\ g.token = q.token /\ g.gen = q.gen
          /\ g.epoch = q.epoch /\ g.items = q.items /\ g.stage = "ghost" /\ g.answer = q.answer
          /\ g.room = q.room /\ g.state = q.state
      BY <2>1 DEF CallTyped, CallFields
    <2> HIDE DEF g
    <2>3. CallGood(g)' /\ g.answer = "none"
      BY <1>6, <2>1, <2>2 DEF CallGood, CallTyped, Live
    <2> QED  BY <2>3 DEF g
  <1>7. calls' = {q \in calls : q.stage = "ghost"}
                 \cup {Ghost(q) : q \in {r \in calls \cup flushCalls(client) :
                                            r.kind = "update" /\ r.stage = "sent"}}
    BY Zenon DEF destroy
  <1> HIDE DEF Ghost
  <1>8. \A q \in calls' : CallGood(q)' /\ q.answer = "none"
    BY <1>5, <1>6, <1>7
  <1>9. Awaited' /\ Unread'
    BY <1>2, <1>8 DEF Awaited, Unread, Mounted
  <1> QED  BY <1>4, <1>8, <1>9 DEF ClientIInv
----------------------------------------------------------------------------
(* Answers and frames.                                                     *)

\* A handshake that failed: another one is scheduled, or there will be none.
LEMMA FailureKeeps ==
  ASSUME MaxHandshakes \in Nat, ClientIInv, server' = server, frames' = frames, SpentTyped',
         NEW error, NEW token, client' = Settled(failHandshake(client, error), token),
         calls' \subseteq calls
  PROVE  ClientIInv'
  <1> DEFINE c == failHandshake(client, error)
  <1>1. TabTyped(client) /\ client.online = client.ready
    BY DEF ClientIInv, SyncTyped
  <1>2. TabTyped(c) /\ SameCalls(client, c) /\ (c.retryDue \/ c.tries >= MaxHandshakes)
    BY <1>1, FailIs
  <1> HIDE DEF c
  <1>3. /\ TabTyped(client') /\ client'.retryDue = c.retryDue /\ client'.tries = c.tries
        /\ client'.gen = c.gen /\ client'.begun = c.begun
        /\ client'.online = c.online /\ client'.ready = c.ready
        /\ client'.handshake = IF c.handshake = token THEN 0 ELSE c.handshake
    BY <1>2, SettledIs DEF c
  <1>4. Overtaken(client, client') /\ client'.online = client'.ready
    BY <1>1, <1>2, <1>3 DEF Overtaken, SameCalls, TabTyped
  <1>5. Underway(client')
    BY <1>2, <1>3 DEF Underway
  <1>6. Unread'
    BY <1>2, <1>3, UnreadStays DEF SameCalls
  <1> QED  BY <1>3, <1>4, <1>5, <1>6, TabStepKeeps

\* The outcome of a call that was answered takes it away, and nothing stays behind.
LEMMA ConcludedIs ==
  ASSUME ClientIInv, NEW q \in calls, NEW rest, Concluded(q, rest)
  PROVE  /\ SpentTyped'
         /\ q.answer # "none" => rest = calls \ {q}
         /\ \/ rest = calls \ {q}
            \/ q.kind = "update" /\ q.stage = "sent"
               /\ rest = (calls \ {q}) \cup {[q EXCEPT !.stage = "ghost"]}
  <1>1. CallGood(q)
    BY DEF ClientIInv
  <1>2. SpentTyped'
    BY SpentIs DEF Concluded, ClientIInv
  <1>3. q.stage = "sent" => q.answer = "none"
    BY <1>1 DEF CallGood
  <1> QED  BY <1>2, <1>3 DEF Concluded

\* The socket is in the room when its join is answered, so that a sync may follow.
LEMMA JoinAckKeeps ==
  ASSUME MaxHandshakes \in Nat, ClientIInv, NEW q \in calls, joinAck(q)
  PROVE  ClientIInv'
  <1>1. PICK rest \in SUBSET calls :
          /\ Concluded(q, rest)
          /\ IF Outcome(q) = "ok"
             THEN /\ calls' = rest \cup {Call(client, "sync", q.token, client.doc)}
                  /\ UNCHANGED client
             ELSE /\ client' = Settled(failHandshake(client, Outcome(q)), q.token)
                  /\ calls' = rest
    BY Zenon DEF joinAck
  <1>2. /\ Mounted /\ q.kind = "join" /\ UNCHANGED <<server, frames>>
        /\ \A r \in calls : r.answer # "denied"
    BY DEF joinAck
  <1>3. SpentTyped' /\ TabTyped(client) /\ client.online = client.ready /\ CallGood(q)
    BY <1>1, ConcludedIs DEF ClientIInv, SyncTyped
  <1>4. CASE Outcome(q) = "ok"
    <2> PICK n : n = Call(client, "sync", q.token, client.doc)
      OBVIOUS
    <2>1. client' = client /\ calls' = rest \cup {n}
      BY <1>1, <1>4
    <2>2. q.answer = "ok"
      BY <1>4 DEF Outcome
    <2>3. client.doc \in SUBSET Structs /\ q.token \in Nat
      BY <1>3 DEF TabTyped, CallGood, CallTyped
    <2>4. /\ CallTyped(n) /\ n.kind = "sync" /\ n.token = q.token /\ n.gen = client.gen
          /\ n.answer = "none" /\ n.stage \in {"sent", "silent"}
      BY <1>3, <2>3, CallIs
    <2>5. server.joined /\ q.token \in 1..client.begun
      BY <1>2, <1>3, <2>2 DEF CallGood
    <2>6. CallGood(n)'
      BY <1>2, <2>1, <2>4, <2>5 DEF CallGood, CallTyped
    <2>7. \A r \in calls' : r.answer # "denied"
      BY <1>2, <2>1, <2>4
    <2>8. client'.online => Underway(client') \/ Provided(client)'
      BY <1>2, <2>1, <2>7 DEF ClientIInv, Awaited, Provided
    <2>9. Unread' /\ Overtaken(client, client')
      BY <1>3, <2>1, <2>7 DEF Unread, Overtaken, TabTyped
    <2> QED  BY <1>2, <1>3, <2>1, <2>6, <2>8, <2>9, TabStepKeeps
  <1>5. CASE Outcome(q) # "ok"
    BY <1>1, <1>2, <1>3, <1>5, FailureKeeps
  <1> QED  BY <1>4, <1>5

\* A sync that was not overtaken gives the document its room; no refusal is unread.
LEMMA SyncAckKeeps ==
  ASSUME MaxHandshakes \in Nat, ClientIInv, NEW q \in calls, syncAck(q)
  PROVE  ClientIInv'
  <1> DEFINE s == synced(client, q)
             c == Settled(s, q.token)
             flush == c.doc # q.state
  <1>1. PICK rest \in SUBSET calls :
          /\ Concluded(q, rest)
          /\ IF Outcome(q) # "ok"
             THEN /\ client' = Settled(failHandshake(client, Outcome(q)), q.token)
                  /\ calls' = rest
             ELSE IF q.gen # client.gen
             THEN client' = Settled(client, q.token) /\ calls' = rest
             ELSE /\ client' = IF flush THEN flushed(c) ELSE c
                  /\ calls' = rest \cup (IF flush THEN flushCalls(c) ELSE {})
    BY Zenon DEF syncAck
  <1>2. Mounted /\ q.kind = "sync" /\ UNCHANGED <<server, frames>>
    BY DEF syncAck
  <1>3. SpentTyped' /\ TabTyped(client) /\ client.online = client.ready /\ CallGood(q)
    BY <1>1, ConcludedIs DEF ClientIInv, SyncTyped
  <1>4. CASE Outcome(q) # "ok"
    BY <1>1, <1>2, <1>3, <1>4, FailureKeeps
  <1>5. CASE Outcome(q) = "ok" /\ q.gen # client.gen
    <2>1. client' = Settled(client, q.token) /\ calls' \subseteq calls
      BY <1>1, <1>5
    <2>2. q.token # client.handshake
      BY <1>2, <1>3, <1>5 DEF CallGood
    <2>3. TabTyped(client') /\ Same(client, client')
      BY <1>3, <2>1, <2>2, SettledIs DEF Same, SameCalls
    <2> QED  BY <1>2, <1>3, <2>1, <2>3, QuietKeeps
  <1>6. CASE Outcome(q) = "ok" /\ q.gen = client.gen
    <2>1. client' = (IF flush THEN flushed(c) ELSE c)
          /\ calls' = rest \cup (IF flush THEN flushCalls(c) ELSE {})
      BY <1>1, <1>6
    <2>2. q.answer = "ok" /\ Live(q)
      BY <1>2, <1>6 DEF Outcome, Live
    <2>3. server.joined /\ q.room # 0 /\ q.room \in Nat /\ q.state \subseteq Structs
      BY <1>2, <1>3, <2>2 DEF CallGood, CallTyped
    <2>4. TabTyped(s) /\ SameCalls(client, s) /\ s.epoch = q.room /\ ~s.stopped
      BY <1>3, <2>3, SyncedIs
    <2> HIDE DEF s
    <2>5. /\ TabTyped(c) /\ SameRoom(s, c) /\ c.gen = s.gen /\ c.begun = s.begun
          /\ c.online = s.online /\ c.ready = s.ready
          /\ c.handshake = IF s.handshake = q.token THEN 0 ELSE s.handshake
      BY <2>4, SettledIs
    <2> HIDE DEF c
    <2>6. TabTyped(client') /\ Same(c, client')
      BY <2>1, <2>5, FlushedIs DEF Same, SameCalls, SameRoom
    <2>7. /\ Overtaken(client, client') /\ client'.online = client'.ready
          /\ client'.online = client.online /\ client'.epoch # 0 /\ ~client'.stopped
      BY <1>3, <2>3, <2>4, <2>5, <2>6 DEF Overtaken, Same, SameCalls, SameRoom, TabTyped
    <2>8. \A r \in calls' : r \in calls \/ (CallGood(r)' /\ r.answer # "denied" /\ ~Live(r))
      BY <2>1, <2>5, FlushCallsAre
    <2>9. \A r \in calls' : r.answer # "denied"
      BY <2>2, <2>8 DEF ClientIInv, Unread
    <2>10. Provided(client)' /\ Unread'
      BY <1>2, <2>3, <2>7, <2>9 DEF Provided, Unread
    <2> QED  BY <1>2, <1>3, <2>6, <2>7, <2>8, <2>10, TabStepKeeps
  <1> QED  BY <1>4, <1>5, <1>6

\* An update that nobody waits for stays as it was sent.
LEMMA GhostIs ==
  ASSUME ClientIInv, NEW q \in calls, q.kind = "update", q.stage = "sent",
         TabTyped(client'), Overtaken(client, client')
  PROVE  LET g == [q EXCEPT !.stage = "ghost"]
         IN  CallGood(g)' /\ g.answer # "denied" /\ ~Live(g)
  <1> DEFINE g == [q EXCEPT !.stage = "ghost"]
  <1>1. CallTyped(q) /\ q.answer = "none" /\ q.epoch # 0
    BY DEF ClientIInv, CallGood
  <1>2. /\ DOMAIN g = CallFields /\ g.kind = q.kind /\ g.token = q.token /\ g.gen = q.gen
        /\ g.epoch = q.epoch /\ g.items = q.items /\ g.stage = "ghost" /\ g.answer = q.answer
        /\ g.room = q.room /\ g.state = q.state
    BY <1>1 DEF CallTyped, CallFields
  <1> HIDE DEF g
  <1>3. CallGood(g)' /\ g.answer # "denied" /\ ~Live(g)
    BY <1>1, <1>2 DEF CallGood, CallTyped, Live
  <1> QED  BY <1>3 DEF g

\* The answer of an update: taken, out of date, refused, or none.
LEMMA UpdateAckKeeps ==
  ASSUME ClientIInv, NEW q \in calls, updateAck(q)
  PROVE  ClientIInv'
  <1> DEFINE taken == [client EXCEPT !.flushes = 0, !.epoch = q.room]
             quiet == [client EXCEPT !.stopped = TRUE, !.pending = {}]
  <1>1. PICK rest :
          /\ Concluded(q, rest)
          /\ CASE Outcome(q) = "ok" -> client' = Publish(taken, "synced") /\ calls' = rest
               [] Outcome(q) = "stale" -> Restart(resetDocument(client), rest)
               [] Outcome(q) = "denied" -> client' = Publish(quiet, "error") /\ calls' = rest
               [] OTHER -> client' = requeue(client, q.items) /\ calls' = rest
    BY Zenon DEF updateAck
  <1>2. /\ Mounted /\ q.kind = "update" /\ UNCHANGED <<server, frames>>
    BY DEF updateAck
  <1>3. SpentTyped' /\ TabTyped(client) /\ client.online = client.ready /\ CallGood(q)
    BY <1>1, ConcludedIs DEF ClientIInv, SyncTyped
  <1>4. Outcome(q) \in {"ok", "stale", "denied"} => q.answer = Outcome(q) /\ rest \subseteq calls
    BY <1>1, ConcludedIs DEF Outcome
  <1>5. CASE Outcome(q) = "ok"
    <2>1. client' = Publish(taken, "synced") /\ calls' \subseteq calls
      BY <1>1, <1>4, <1>5
    <2>2. q.room # 0 /\ q.room \in Nat
      BY <1>2, <1>3, <1>4, <1>5 DEF CallGood, CallTyped
    <2>3. /\ TabTyped(taken) /\ SameCalls(client, taken) /\ taken.epoch # 0
          /\ taken.retryDue = client.retryDue /\ taken.tries = client.tries
          /\ taken.stopped = client.stopped /\ taken.coolDue = client.coolDue
      BY <1>3, <2>2 DEF TabTyped, TabFields, SameCalls
    <2> HIDE DEF taken
    <2>4. TabTyped(client') /\ Same(taken, client')
      BY <2>1, <2>3, PublishedIs
    <2>5. Overtaken(client, client') /\ client'.online = client'.ready /\ Unread'
      BY <1>3, <2>1, <2>3, <2>4, UnreadStays DEF Overtaken, Same, SameCalls, TabTyped
    <2>6. client'.online => Underway(client') \/ Provided(client)'
      BY <1>2, <2>1, <2>3, <2>4
         DEF ClientIInv, Awaited, Underway, Provided, Same, SameCalls, SameRoom
    <2> QED  BY <1>2, <1>3, <2>1, <2>4, <2>5, <2>6, TabStepKeeps
  <1>6. CASE Outcome(q) = "stale"
    <2> DEFINE d == resetDocument(client)
    <2>1. Restart(d, rest)
      BY <1>1, <1>6
    <2>2. /\ TabTyped(d) /\ d.begun = client.begun /\ d.handshake = 0
          /\ d.online = client.online /\ d.ready = client.ready
      BY <1>3, DiscardedIs
    <2> HIDE DEF d
    <2> QED  BY <1>2, <1>3, <1>4, <1>6, <2>1, <2>2, RestartKeeps
  <1>7. CASE Outcome(q) = "denied"
    <2>1. client' = Publish(quiet, "error") /\ calls' \subseteq calls /\ q.answer = "denied"
      BY <1>1, <1>4, <1>7
    <2>2. Underway(client)
      BY <1>2, <2>1 DEF ClientIInv, Awaited, Unread, Provided
    <2>3. /\ TabTyped(quiet) /\ SameCalls(client, quiet)
          /\ quiet.retryDue = client.retryDue /\ quiet.tries = client.tries
      BY <1>3 DEF TabTyped, TabFields, SameCalls
    <2> HIDE DEF quiet
    <2>4. TabTyped(client') /\ Same(quiet, client')
      BY <2>1, <2>3, PublishedIs
    <2>5. Overtaken(client, client') /\ client'.online = client'.ready /\ Unread'
      BY <1>3, <2>1, <2>3, <2>4, UnreadStays DEF Overtaken, Same, SameCalls, TabTyped
    <2>6. Underway(client')
      BY <2>2, <2>3, <2>4 DEF Underway, Same, SameCalls
    <2> QED  BY <1>2, <1>3, <2>1, <2>4, <2>5, <2>6, TabStepKeeps
  <1>8. CASE Outcome(q) \notin {"ok", "stale", "denied"}
    <2>1. client' = requeue(client, q.items) /\ calls' = rest
      BY <1>1, <1>8
    <2>2. q.items \in SUBSET Structs
      BY <1>3 DEF CallGood, CallTyped
    <2>3. /\ TabTyped(client') /\ SameCalls(client, client')
          /\ client'.retryDue = client.retryDue /\ client'.tries = client.tries
          /\ client'.epoch = client.epoch
          /\ \/ client'.coolDue
             \/ client'.coolDue = client.coolDue /\ client'.stopped = client.stopped
      BY <1>3, <2>1, <2>2, RequeueIs
    <2>4. Overtaken(client, client') /\ client'.online = client'.ready
      BY <1>3, <2>3 DEF Overtaken, SameCalls, TabTyped
    <2>5. \A r \in calls' : r \in calls \/ (CallGood(r)' /\ r.answer # "denied" /\ ~Live(r))
      <3>1. CASE calls' \subseteq calls
        BY <3>1
      <3>2. CASE q.stage = "sent" /\ calls' = (calls \ {q}) \cup {[q EXCEPT !.stage = "ghost"]}
        <4> DEFINE g == [q EXCEPT !.stage = "ghost"]
        <4>1. CallGood(g)' /\ g.answer # "denied" /\ ~Live(g)
          BY <1>2, <2>3, <2>4, <3>2, GhostIs
        <4> HIDE DEF g
        <4> QED  BY <3>2, <4>1 DEF g
      <3>3. Concluded(q, rest)
        BY <1>1
      <3> QED  BY <2>1, <3>1, <3>2, <3>3, ConcludedIs
    <2>6. Unread'
      BY <2>3, <2>5, UnreadStays DEF SameCalls
    <2>7. client'.online => Underway(client') \/ Provided(client)'
      BY <1>2, <2>3, <2>5 DEF ClientIInv, Awaited, Underway, Provided, SameCalls
    <2> QED  BY <1>2, <1>3, <2>3, <2>4, <2>5, <2>6, <2>7, TabStepKeeps
  <1> QED  BY <1>5, <1>6, <1>7, <1>8

LEMMA RemoteFrameKeeps ==
  ASSUME ClientIInv, NEW f \in frames, handleRemoteFrame(f)
  PROVE  ClientIInv'
  <1> DEFINE thrown == [client EXCEPT !.resync = TRUE, !.held = {}]
             kept == [client EXCEPT !.held = @ \cup {f}]
             applied == [client EXCEPT !.doc = @ \cup f.items]
  <1>1. /\ Mounted /\ frames' \subseteq frames /\ UNCHANGED <<server, calls>>
        /\ Fault \/ UNCHANGED spent
        /\ client' \in {client, thrown, kept, applied}
    BY DEF handleRemoteFrame, holdWindowFrame
  <1>2. SpentTyped'
    BY <1>1, SpentIs DEF ClientIInv
  <1>3. TabTyped(client) /\ Framed(f)
    BY DEF ClientIInv, SyncTyped
  <1>4. TabTyped(thrown) /\ Same(client, thrown)
    BY <1>3 DEF TabTyped, TabFields, Same, SameCalls, SameRoom
  <1>5. TabTyped(kept) /\ Same(client, kept)
    BY <1>3 DEF TabTyped, TabFields, Same, SameCalls, SameRoom
  <1>6. TabTyped(applied) /\ Same(client, applied)
    BY <1>3 DEF TabTyped, TabFields, Framed, Same, SameCalls, SameRoom
  <1> HIDE DEF thrown, kept, applied
  <1>7. TabTyped(client') /\ Same(client, client')
    BY <1>1, <1>3, <1>4, <1>5, <1>6 DEF Same, SameCalls, SameRoom
  <1> QED  BY <1>1, <1>2, <1>7, QuietKeeps

LEMMA ResetFrameKeeps ==
  ASSUME ClientIInv, NEW f \in frames, handleResetFrame(f)
  PROVE  ClientIInv'
  <1> DEFINE d == resetDocument(client)
  <1>1. /\ Mounted /\ frames' \subseteq frames /\ UNCHANGED <<server, spent>>
        /\ UNCHANGED <<client, calls>> \/ Restart(d, calls)
    BY DEF handleResetFrame
  <1>2. SpentTyped' /\ TabTyped(client) /\ client.online = client.ready
    BY <1>1, SpentIs DEF ClientIInv, SyncTyped
  <1>3. /\ TabTyped(d) /\ d.begun = client.begun /\ d.handshake = 0
        /\ d.online = client.online /\ d.ready = client.ready
    BY <1>2, DiscardedIs
  <1> HIDE DEF d
  <1>4. CASE UNCHANGED <<client, calls>>
    BY <1>1, <1>2, <1>4, QuietKeeps DEF Same, SameCalls, SameRoom
  <1>5. CASE Restart(d, calls)
    BY <1>1, <1>2, <1>3, <1>5, RestartKeeps
  <1> QED  BY <1>1, <1>4, <1>5
----------------------------------------------------------------------------
(* The server.                                                             *)

ServerTyped ==
    /\ DOMAIN server = {"epoch", "doc", "joined"}
    /\ server.epoch \in Nat /\ server.doc \subseteq Structs /\ server.joined \in BOOLEAN

LEMMA ServerStepKeeps ==
  ASSUME ClientIInv, client' = client, ServerTyped', server.joined => server'.joined,
         \A f \in frames' : Framed(f), SpentTyped',
         \A q \in calls' : \/ q \in calls
                           \/ /\ CallGood(q)' /\ q.answer # "denied"
                              /\ Live(q) => \E r \in calls : Live(r)
  PROVE  ClientIInv'
  <1>1. SyncTyped'
    BY DEF ClientIInv, SyncTyped, ServerTyped, SpentTyped
  <1>2. Overtaken(client, client') /\ TabTyped(client')
    BY DEF Overtaken, ClientIInv, SyncTyped, TabTyped
  <1>3. \A q \in calls' : CallGood(q)'
    BY <1>2, CallStays
  <1>4. Awaited'
    BY DEF ClientIInv, Awaited, Mounted, Underway, Provided
  <1>5. Unread'
    BY DEF ClientIInv, Unread
  <1> QED  BY <1>1, <1>3, <1>4, <1>5 DEF ClientIInv

\* A call with its answer.
LEMMA AnswerIs ==
  ASSUME NEW q \in calls, CallTyped(q), NEW answer, NEW epoch \in Nat, NEW state \in SUBSET Structs,
         Answer(q, answer, epoch, state)
  PROVE  \E a :
           /\ calls' = (calls \ {q}) \cup {a}
           /\ CallTyped(a) /\ a.kind = q.kind /\ a.token = q.token /\ a.gen = q.gen
           /\ a.epoch = q.epoch /\ a.stage = "answered" /\ a.answer = answer /\ a.room = epoch
  <1> DEFINE a == [q EXCEPT !.stage = "answered", !.answer = answer, !.room = epoch,
                            !.state = state]
  <1>1. calls' = (calls \ {q}) \cup {a}
    BY DEF Answer
  <1>2. /\ CallTyped(a) /\ a.kind = q.kind /\ a.token = q.token /\ a.gen = q.gen
        /\ a.epoch = q.epoch /\ a.stage = "answered" /\ a.answer = answer /\ a.room = epoch
    BY DEF CallTyped, CallFields
  <1> QED  BY <1>1, <1>2

LEMMA ServerJoinKeeps ==
  ASSUME ClientIInv, NEW q \in calls, serverJoin(q)
  PROVE  ClientIInv'
  <1>1. /\ q.kind = "join" /\ q.stage = "sent" /\ server' = [server EXCEPT !.joined = TRUE]
        /\ Answer(q, "ok", 0, {}) /\ UNCHANGED <<client, frames, spent>>
    BY DEF serverJoin
  <1>2. CallGood(q) /\ ServerTyped' /\ server'.joined /\ SpentTyped'
    BY <1>1, SpentIs DEF ClientIInv, SyncTyped, ServerTyped
  <1>3. PICK a :
          /\ calls' = (calls \ {q}) \cup {a}
          /\ CallTyped(a) /\ a.kind = q.kind /\ a.token = q.token /\ a.gen = q.gen
          /\ a.epoch = q.epoch /\ a.stage = "answered" /\ a.answer = "ok" /\ a.room = 0
    BY <1>1, <1>2, AnswerIs DEF CallGood
  <1>4. CallGood(a)' /\ ~Live(a) /\ a.answer # "denied"
    BY <1>1, <1>2, <1>3 DEF CallGood, Live
  <1>5. \A f \in frames' : Framed(f)
    BY <1>1 DEF ClientIInv, SyncTyped
  <1> QED  BY <1>1, <1>2, <1>3, <1>4, <1>5, ServerStepKeeps

LEMMA ServerSyncKeeps ==
  ASSUME ClientIInv, NEW q \in calls, serverSync(q)
  PROVE  ClientIInv'
  <1>1. /\ q.kind = "sync" /\ q.stage = "sent" /\ UNCHANGED <<client, spent>>
        /\ IF server.epoch = 0
           THEN /\ server' = [server EXCEPT !.joined = TRUE, !.epoch = 1, !.doc = {Base(1)}]
                /\ frames' = frames \cup {ResetFrame(1)}
           ELSE server' = [server EXCEPT !.joined = TRUE] /\ UNCHANGED frames
        /\ Answer(q, "ok", server'.epoch, server'.doc)
    BY DEF serverSync
  <1>2. ServerTyped
    BY DEF ClientIInv, SyncTyped, ServerTyped
  <1>3. ServerTyped' /\ server'.joined /\ server'.epoch # 0
    <2>1. {Base(1)} \subseteq Structs
      BY DEF Base, Structs
    <2>2. CASE server.epoch = 0
      <3>1. PICK first : first = {Base(1)}
        OBVIOUS
      <3>2. server' = [server EXCEPT !.joined = TRUE, !.epoch = 1, !.doc = first]
        BY <1>1, <2>2, <3>1
      <3>3. /\ DOMAIN server' = DOMAIN server /\ server'.joined /\ server'.epoch = 1
            /\ server'.joined \in BOOLEAN /\ server'.doc = first
        BY <1>2, <3>2 DEF ServerTyped
      <3> QED  BY <1>2, <2>1, <3>1, <3>3 DEF ServerTyped
    <2>3. CASE server.epoch # 0
      BY <1>1, <1>2, <2>3 DEF ServerTyped
    <2> QED  BY <2>2, <2>3
  <1>4. CallGood(q) /\ Live(q) /\ SpentTyped'
    BY <1>1, SpentIs DEF ClientIInv, Live
  <1>5. \A f \in frames' : Framed(f)
    BY <1>1 DEF ClientIInv, SyncTyped, Framed, ResetFrame
  <1>6. server'.epoch \in Nat /\ server'.doc \in SUBSET Structs
    BY <1>3 DEF ServerTyped
  <1>7. PICK epoch \in Nat, state \in SUBSET Structs : epoch = server'.epoch /\ state = server'.doc
    BY <1>6
  <1>8. PICK a :
          /\ calls' = (calls \ {q}) \cup {a}
          /\ CallTyped(a) /\ a.kind = q.kind /\ a.token = q.token /\ a.gen = q.gen
          /\ a.epoch = q.epoch /\ a.stage = "answered" /\ a.answer = "ok" /\ a.room = epoch
    <2>1. Answer(q, "ok", epoch, state) /\ CallTyped(q)
      BY <1>1, <1>4, <1>7 DEF CallGood
    <2> QED  BY <2>1, AnswerIs
  <1>9. CallGood(a)' /\ a.answer # "denied"
    BY <1>1, <1>3, <1>4, <1>7, <1>8 DEF CallGood
  <1> QED  BY <1>1, <1>3, <1>4, <1>5, <1>8, <1>9, ServerStepKeeps

LEMMA ServerUpdateKeeps ==
  ASSUME ClientIInv, NEW q \in calls, serverUpdate(q)
  PROVE  ClientIInv'
  <1> DEFINE answer == IF q.epoch = server.epoch THEN "ok" ELSE "stale"
  <1>1. /\ q.kind = "update" /\ UNCHANGED <<client, frames, spent>>
        /\ server' = IF q.epoch = server.epoch
                     THEN [server EXCEPT !.doc = @ \cup q.items] ELSE server
        /\ IF q.stage = "ghost" THEN calls' = calls \ {q}
           ELSE Answer(q, answer, server.epoch, {})
    BY DEF serverUpdate
  <1>2. ServerTyped /\ CallGood(q) /\ SpentTyped'
    BY <1>1, SpentIs DEF ClientIInv, SyncTyped, ServerTyped
  <1>3. ServerTyped' /\ server'.joined = server.joined
    BY <1>1, <1>2 DEF ServerTyped, CallGood, CallTyped
  <1>4. \A f \in frames' : Framed(f)
    BY <1>1 DEF ClientIInv, SyncTyped
  <1>5. CASE q.stage = "ghost"
    BY <1>1, <1>2, <1>3, <1>4, <1>5, ServerStepKeeps
  <1>6. CASE q.stage # "ghost"
    <2>1. PICK room \in Nat, said \in {"ok", "stale"} : room = server.epoch /\ said = answer
      BY <1>2 DEF ServerTyped
    <2>2. PICK a :
            /\ calls' = (calls \ {q}) \cup {a}
            /\ CallTyped(a) /\ a.kind = q.kind /\ a.token = q.token /\ a.gen = q.gen
            /\ a.epoch = q.epoch /\ a.stage = "answered" /\ a.answer = said /\ a.room = room
      <3>1. Answer(q, said, room, {}) /\ CallTyped(q) /\ {} \in SUBSET Structs
        BY <1>1, <1>2, <1>6, <2>1 DEF CallGood
      <3> QED  BY <3>1, AnswerIs
    <2>3. CallGood(a)' /\ a.answer # "denied" /\ ~Live(a)
      BY <1>1, <1>2, <1>3, <2>1, <2>2 DEF CallGood, Live
    <2> QED  BY <1>1, <1>2, <1>3, <1>4, <2>2, <2>3, ServerStepKeeps
  <1> QED  BY <1>5, <1>6

LEMMA ServerRefusesKeeps ==
  ASSUME ClientIInv, NEW q \in calls, serverRefuses(q)
  PROVE  ClientIInv'
  <1>1. /\ q.stage = "sent" /\ Fault /\ UNCHANGED <<server, client, frames>>
    BY DEF serverRefuses
  <1>2. PICK error \in {"limited", "unavailable"} : Answer(q, error, 0, {})
    BY DEF serverRefuses
  <1>3. CallGood(q) /\ ServerTyped' /\ SpentTyped'
    BY <1>1, SpentIs DEF ClientIInv, SyncTyped, ServerTyped
  <1>4. PICK a :
          /\ calls' = (calls \ {q}) \cup {a}
          /\ CallTyped(a) /\ a.kind = q.kind /\ a.token = q.token /\ a.gen = q.gen
          /\ a.epoch = q.epoch /\ a.stage = "answered" /\ a.answer = error /\ a.room = 0
    <2>1. CallTyped(q) /\ {} \in SUBSET Structs /\ 0 \in Nat
      BY <1>3 DEF CallGood
    <2> QED  BY <1>2, <2>1, AnswerIs
  <1>5. CallGood(a)' /\ a.answer # "denied" /\ ~Live(a)
    BY <1>1, <1>3, <1>4 DEF CallGood, Live
  <1>6. \A f \in frames' : Framed(f)
    BY <1>1 DEF ClientIInv, SyncTyped
  <1> QED  BY <1>1, <1>3, <1>4, <1>5, <1>6, ServerStepKeeps

LEMMA PeerUpdateKeeps == ASSUME ClientIInv, peerUpdate PROVE ClientIInv'
  <1> DEFINE struct == {[history |-> server.epoch, nr |-> spent.edits + 1, mine |-> FALSE]}
  <1>1. /\ server' = [server EXCEPT !.doc = @ \cup struct]
        /\ frames' \subseteq frames \cup {RemoteFrame(struct)}
        /\ spent' = [spent EXCEPT !.edits = @ + 1] /\ UNCHANGED <<client, calls>>
    BY DEF peerUpdate, Relay
  <1>2. struct \subseteq Structs
    BY DEF ClientIInv, SyncTyped, Structs
  <1> HIDE DEF struct
  <1>3. ServerTyped' /\ server'.joined = server.joined /\ SpentTyped'
    BY <1>1, <1>2 DEF ClientIInv, SyncTyped, ServerTyped, SpentTyped
  <1>4. \A f \in frames' : Framed(f)
    BY <1>1, <1>2 DEF ClientIInv, SyncTyped, Framed, RemoteFrame
  <1> QED  BY <1>1, <1>3, <1>4, ServerStepKeeps

LEMMA RebuildKeeps == ASSUME ClientIInv, rebuild PROVE ClientIInv'
  <1>1. /\ server' = [server EXCEPT !.epoch = @ + 1, !.doc = {Base(server.epoch + 1)}]
        /\ frames' \subseteq frames \cup {ResetFrame(server.epoch + 1)}
        /\ spent' = [spent EXCEPT !.rebuilds = @ + 1] /\ UNCHANGED <<client, calls>>
    BY DEF rebuild, Relay
  <1>2. server.epoch + 1 \in Nat /\ {Base(server.epoch + 1)} \subseteq Structs
    BY DEF ClientIInv, SyncTyped, Base, Structs
  <1>3. ServerTyped' /\ server'.joined = server.joined /\ SpentTyped'
    BY <1>1, <1>2 DEF ClientIInv, SyncTyped, ServerTyped, SpentTyped
  <1>4. \A f \in frames' : Framed(f)
    BY <1>1, <1>2 DEF ClientIInv, SyncTyped, Framed, ResetFrame
  <1> QED  BY <1>1, <1>3, <1>4, ServerStepKeeps
----------------------------------------------------------------------------
(* Every step, and the theorem.                                            *)

LEMMA ClientStepKeeps ==
  ASSUME MaxHandshakes \in Nat, ClientIInv, [ClientNext]_clientVars
  PROVE  ClientIInv'
  <1>1. CASE TabStep
    BY <1>1, ReadyKeeps, FlushingKeeps, RetriedKeeps, CooldownKeeps DEF TabStep
  <1>2. CASE handleSocketDisconnect \/ handleDocUpdate \/ destroy
    BY <1>2, DisconnectKeeps, KeystrokeKeeps, DestroyKeeps
  <1>3. CASE \E q \in calls : Acknowledged(q) \/ Served(q) \/ serverRefuses(q)
    BY <1>3, JoinAckKeeps, SyncAckKeeps, UpdateAckKeeps, ServerJoinKeeps, ServerSyncKeeps,
       ServerUpdateKeeps, ServerRefusesKeeps DEF Acknowledged, Served
  <1>4. CASE \E f \in frames : Received(f)
    BY <1>4, RemoteFrameKeeps, ResetFrameKeeps DEF Received
  <1>5. CASE peerUpdate \/ rebuild
    BY <1>5, PeerUpdateKeeps, RebuildKeeps
  <1>6. CASE UNCHANGED clientVars
    <2>1. SyncTyped' /\ Awaited' /\ Unread'
      BY <1>6 DEF clientVars, ClientIInv, SyncTyped, Awaited, Mounted, Underway, Provided, Unread
    <2>2. \A q \in calls' : CallGood(q)'
      BY <1>6 DEF clientVars, ClientIInv, CallGood
    <2> QED  BY <2>1, <2>2 DEF ClientIInv
  <1> QED  BY <1>1, <1>2, <1>3, <1>4, <1>5, <1>6 DEF ClientNext

\* A connected tab whose document has no room, or which has stopped writing, has a handshake
\* under way or due, or has used up its handshakes, whichever answers are refused, late, lost
\* or overtaken by a reset (runHandshake, performHandshake and resetDocument of
\* note-collaboration-provider.ts).
THEOREM RoomIsAwaited ==
  ASSUME MaxHandshakes \in Nat
  PROVE  ClientSpec => [](ClientTypeOK /\ RoomIsComing)
  <1>1. ClientInit => ClientIInv
    BY ClientInitHolds
  <1>2. ClientIInv /\ [ClientNext]_clientVars => ClientIInv'
    BY ClientStepKeeps
  <1>3. ClientIInv => ClientTypeOK
    BY DEF ClientIInv, SyncTyped, CallGood, CallTyped, TabTyped, ClientTypeOK
  <1>4. ClientIInv => RoomIsComing
    BY DEF ClientIInv, Awaited, Underway, Provided, RoomIsComing, HandshakeComing, GaveUp
  <1> QED  BY <1>1, <1>2, <1>3, <1>4, PTL DEF ClientSpec
=============================================================================
