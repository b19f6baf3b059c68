-------------------------- MODULE WebhookDelivery --------------------------
(***************************************************************************)
(* One webhook endpoint: its administration (create, update, verify,       *)
(* delete), the intents that events and replays commit for it, and the     *)
(* attempts that re-read everything, send and record.                      *)
(*                                                                         *)
(* An endpoint's administrators are concurrent: update reads the row and   *)
(* writes it in two statements, and a verification waits for the answer of *)
(* the receiver between the two.                                           *)
(***************************************************************************)
EXTENDS JobConsumer, FiniteSets

CONSTANTS
    Urls,         \* destinations the guard accepts
    None,
    MaxEdits,     \* bound: updates, verifications and changes of access
    MaxAccepts    \* bound: requests the receiver accepts, per intent

VARIABLES
    endpoint,     \* the webhooks row
    readable,     \* whether its creator may read the resource, and it exists
    edit,         \* an update between its two statements
    probe,        \* a verification between its read and its write
    eventOf,      \* the event each intent delivers, named by its first intent
    pruned,       \* intents whose outbox row retention has removed
    sending,      \* what each invocation is about to do, and for which attempt
    deliveries,   \* webhook_deliveries
    inbox,        \* requests the receiver accepted, per intent
    barred,       \* invocations nothing has entitled to send since they began
    edits

admin == <<edit, probe, edits>>
events == <<eventOf, pruned>>
run == <<sending, deliveries, inbox>>
webhookVars == <<jobVars, endpoint, readable, admin, events, run, barred>>

Waiting == [pc |-> "idle", attempt |-> 0, result |-> None]

EndpointInit ==
    /\ endpoint = [row |-> "none", url |-> None, enabled |-> FALSE, verified |-> FALSE]
    /\ readable = TRUE
    /\ edit = None
    /\ probe = None
    /\ eventOf = [j \in Jobs |-> NoJob]
    /\ pruned = {}
    /\ sending = [w \in Workers |-> Waiting]
    /\ deliveries = {}
    /\ inbox = [j \in Jobs |-> 0]
    /\ barred = {}
    /\ edits = 0

WebhookInit == JobInit /\ EndpointInit

Live == endpoint.row = "live"
Deliverable == Live /\ endpoint.enabled /\ endpoint.verified

Edited ==
    /\ edits < MaxEdits
    /\ edits' = edits + 1

----------------------------------------------------------------------------
(* Administration: webhooks.service.ts.                                    *)

\* A new endpoint is disabled and unverified.
create(url) ==
    /\ endpoint.row = "none"
    /\ endpoint' = [row |-> "live", url |-> url, enabled |-> FALSE, verified |-> FALSE]
    /\ UNCHANGED <<jobVars, readable, admin, events, run, barred>>

\* update, first statement: what it decides, it decides from this row.
updateReads(url, enable) ==
    LET moved == url # endpoint.url
    IN  /\ Live /\ edit = None
        /\ Edited
        /\ ~(enable = TRUE /\ (moved \/ ~endpoint.verified))
        /\ edit' = [url |-> url, enable |-> enable, moved |-> moved]
        /\ UNCHANGED <<jobVars, endpoint, readable, probe, events, run, barred>>

Enable(enabled) ==
    barred' = IF enabled THEN barred \ (Workers \X {"endpoint"}) ELSE barred

\* update, second statement: a moved endpoint is a new endpoint.
updateWrites ==
    LET enabled == IF edit.moved THEN FALSE
                   ELSE IF edit.enable = None THEN endpoint.enabled ELSE edit.enable
    IN  /\ edit # None
        /\ edit' = None
        /\ endpoint' = IF ~Live THEN endpoint
                       ELSE [endpoint EXCEPT !.url = edit.url,
                                             !.enabled = enabled,
                                             !.verified = @ /\ ~edit.moved]
        /\ Enable(Deliverable')
        /\ UNCHANGED <<jobVars, readable, probe, edits, events, run>>

\* The deliveries go with the endpoint.
remove ==
    /\ Live
    /\ endpoint' = [endpoint EXCEPT !.row = "deleted"]
    /\ deliveries' = {}
    /\ UNCHANGED <<jobVars, readable, admin, events, sending, inbox, barred>>

\* verify, first half: the challenge is sent to the destination that was read.
challenge ==
    /\ Live /\ probe = None
    /\ Edited
    /\ probe' = [url |-> endpoint.url]
    /\ UNCHANGED <<jobVars, endpoint, readable, edit, events, run, barred>>

\* verify, second half: the receiver echoed, or it did not.
verify ==
    /\ probe # None
    /\ probe' = None
    /\ \/ endpoint' = [endpoint EXCEPT !.verified = @ \/ Live]
       \/ UNCHANGED endpoint
    /\ Enable(Deliverable')
    /\ UNCHANGED <<jobVars, readable, edit, edits, events, run>>

----------------------------------------------------------------------------
(* Intents: webhook-delivery.producer.ts and retryDelivery.                *)

\* A mutation with a subscribed, enabled and verified endpoint.
scheduleWebhookDeliveries(j) ==
    /\ Deliverable
    /\ Accept(j)
    /\ eventOf' = [eventOf EXCEPT ![j] = j]
    /\ UNCHANGED <<endpoint, readable, admin, pruned, run, barred>>

\* A replay delivers the event of the row it replays, read from its first intent.
retryDelivery(j) ==
    /\ Live
    /\ \E row \in deliveries :
          /\ eventOf[row.job] \notin pruned
          /\ eventOf' = [eventOf EXCEPT ![j] = eventOf[row.job]]
    /\ Accept(j)
    /\ UNCHANGED <<endpoint, readable, admin, pruned, run, barred>>

\* Retention removes the outbox rows of settled intents.
prune(j) ==
    /\ phase[j] = "done"
    /\ pruned' = pruned \cup {j}
    /\ UNCHANGED <<jobVars, endpoint, readable, admin, eventOf, run, barred>>

\* The creator loses or regains the resource.
accessChanges ==
    /\ Edited
    /\ readable' = ~readable
    /\ barred' = IF readable THEN barred ELSE barred \ (Workers \X {"access"})
    /\ UNCHANGED <<jobVars, endpoint, edit, probe, events, run>>

----------------------------------------------------------------------------
(* One attempt: webhook-delivery.worker.service.ts.                        *)

At(w, pc) == sending[w].pc = pc
Goto(w, pc) == sending' = [sending EXCEPT ![w].pc = pc]
Leave(w) == sending' = [sending EXCEPT ![w] = Waiting]
aside == <<endpoint, readable, admin, events>>

handle(w, j) ==
    /\ Begin(w, j)
    /\ sending' = [sending EXCEPT ![w] = [pc |-> "load", attempt |-> attempts[j] + 1,
                                          result |-> None]]
    /\ barred' = barred \cup (IF Deliverable THEN {} ELSE {<<w, "endpoint">>})
                        \cup (IF readable THEN {} ELSE {<<w, "access">>})
    /\ UNCHANGED <<aside, deliveries, inbox>>

\* Mutant: the attempt trusts what was true when the event was scheduled.
loadTrusting(w) ==
    /\ At(w, "load")
    /\ Goto(w, "authorize")
    /\ UNCHANGED <<jobVars, aside, deliveries, inbox, barred>>

load(w) ==
    /\ At(w, "load")
    /\ Goto(w, IF Deliverable THEN "authorize" ELSE "refuse")
    /\ UNCHANGED <<jobVars, aside, deliveries, inbox, barred>>

\* The endpoint's creator is authorized against the live resource, which is then read.
authorize(w) ==
    /\ At(w, "authorize")
    /\ Goto(w, IF readable THEN "send" ELSE "refuse")
    /\ UNCHANGED <<jobVars, aside, deliveries, inbox, barred>>

\* The receiver accepts, fails in a way worth retrying, or refuses; or it accepts
\* and its answer is lost.
sendWebhook(w) ==
    LET accepts == /\ inbox[handling[w]] < MaxAccepts
                   /\ inbox' = [inbox EXCEPT ![handling[w]] = @ + 1]
        Result(result) ==
            sending' = [sending EXCEPT ![w].pc = "record", ![w].result = result]
    IN  /\ At(w, "send")
        /\ \/ accepts /\ Result("success") /\ UNCHANGED faults
           \/ accepts /\ Result("retrying") /\ Fault
           \/ \E result \in {"retrying", "failed"} :
                 Result(result) /\ UNCHANGED <<inbox, faults>>
        /\ UNCHANGED <<phase, attempts, retries, handling, abandoned, aside, deliveries,
                       barred>>

\* Mutant: the last attempt asks for another one like the others.
OutcomeAsAnswered(w) == IF At(w, "refuse") THEN "failed" ELSE sending[w].result

\* The last attempt of the lane records a failure instead of asking for a retry.
Outcome(w) ==
    IF At(w, "refuse") THEN "failed"
    ELSE IF sending[w].result = "retrying" /\ sending[w].attempt >= MaxAttempts
    THEN "failed"
    ELSE sending[w].result

Row(w) == [job |-> handling[w], attempt |-> sending[w].attempt, status |-> Outcome(w)]

\* One row per attempt, which needs its endpoint; the attempt ends with it.
record(w) ==
    /\ At(w, "record") \/ At(w, "refuse")
    /\ deliveries' = IF Live THEN deliveries \cup {Row(w)} ELSE deliveries
    /\ IF Live /\ Outcome(w) # "retrying" THEN Returns(w) ELSE Throws(w)
    /\ Leave(w)
    /\ barred' = barred \ ({w} \X {"endpoint", "access"})
    /\ UNCHANGED <<aside, inbox>>

\* A statement fails, or the process dies, before the attempt is recorded.
attemptFails(w) ==
    /\ ~At(w, "idle")
    /\ Fails(w) \/ Dies(w)
    /\ Leave(w)
    /\ barred' = barred \ ({w} \X {"endpoint", "access"})
    /\ UNCHANGED <<aside, deliveries, inbox>>

----------------------------------------------------------------------------
attempt(w) == load(w) \/ authorize(w) \/ sendWebhook(w) \/ record(w)

Administer ==
    \/ \E url \in Urls : create(url)
    \/ \E url \in Urls, enable \in BOOLEAN \cup {None} : updateReads(url, enable)
    \/ updateWrites
    \/ remove
    \/ challenge
    \/ verify

WebhookNext ==
    \/ Administer
    \/ accessChanges
    \/ \E j \in Jobs : scheduleWebhookDeliveries(j) \/ retryDelivery(j) \/ prune(j)
    \/ \E w \in Workers, j \in Jobs : handle(w, j)
    \/ \E w \in Workers : attempt(w) \/ attemptFails(w)
    \/ Around /\ UNCHANGED <<aside, run, barred>>

WebhookSpec == WebhookInit /\ [][WebhookNext]_webhookVars

(* The pipeline delivers what it accepted and a handler runs to its end.   *)
WebhookFairness ==
    /\ \A j \in Jobs : WF_webhookVars(\E w \in Workers : handle(w, j))
    /\ \A w \in Workers : WF_webhookVars(attempt(w))

----------------------------------------------------------------------------
(* Properties.                                                             *)

\* The variables keep their types; an invocation is busy exactly while it handles an
\* intent, and every accepted intent knows its event.
WebhookTypeOK ==
    /\ endpoint.row \in {"none", "live", "deleted"}
    /\ deliveries \subseteq [job : Jobs, attempt : 1..MaxAttempts,
                             status : {"success", "failed", "retrying"}]
    /\ \A w \in Workers : At(w, "idle") <=> handling[w] = NoJob
    /\ \A j \in Jobs : phase[j] # "absent" <=> eventOf[j] # NoJob

\* "Nothing dead-letters for an ordinary bad receiver": an intent is only buried when
\* the platform failed -- or when the endpoint is gone: the record of an attempt then
\* violates its foreign key and throws.
BuriedOnlyIfStruck ==
    \A j \in Jobs : phase[j] = "dead" => Struck \/ ~Live

\* An intent that is done has told its story: one of its rows is final, and a
\* success row means that the receiver accepted it.
DoneIsExplained ==
    \A j \in Jobs : phase[j] = "done" /\ Live =>
        \E row \in deliveries :
            /\ row.job = j
            /\ row.status # "retrying"
            /\ row.status = "success" => inbox[j] > 0

\* At-least-once delivery repeats an accepted event for a reason: a lost answer, a
\* failed record, a crash -- or a replay, which is another intent.
RepeatedOnlyIfStruck ==
    \A j \in Jobs : inbox[j] > 1 => Struck

\* What an operator reads about an event is true: it is buried, done or repeated for
\* the reasons above.
WebhookInv ==
    WebhookTypeOK /\ BuriedOnlyIfStruck /\ DoneIsExplained /\ RepeatedOnlyIfStruck

\* An attempt that began when its endpoint was disabled, moved or deleted, or when
\* its creator had lost the resource, sends nothing unless that changes meanwhile.
Sends(w) == At(w, "send") /\ sending'[w].pc = "record"

SendsOnlyIfEntitled ==
    [][\A w \in Workers :
          Sends(w) => barred \cap ({w} \X {"endpoint", "access"}) = {}]_webhookVars

\* Every event scheduled for an endpoint is concluded.
EventAwaited(j) == phase[j] = "accepted"
EventConcluded(j) == phase[j] \in {"done", "dead"}

EventsConclude == \A j \in Jobs : EventAwaited(j) ~> EventConcluded(j)
=============================================================================
