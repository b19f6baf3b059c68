----------------------------- MODULE MCHandlers -----------------------------
(***************************************************************************)
(* Jobs: three intents that share a node of the pipeline, one of them      *)
(* invalid and one unconsumed, and the handlers of jobs, one job type at a *)
(* time.  The subject of a behaviour is drawn at its start, and the        *)
(* variables of the others keep their first values.                        *)
(*                                                                         *)
(* Webhook events share nothing but their endpoint, e-mails nothing but    *)
(* the preference and mentions nothing but the note, so one intent with    *)
(* two handler invocations has every race, and the other intents are left  *)
(* alone; a replayed event and the syncs of an index need two.  Each       *)
(* subject has an allowance of attempts, operator retries and faults.      *)
(***************************************************************************)
EXTENDS SearchIndex, WebhookDelivery, EmailDelivery, MentionNotify

CONSTANTS
    One,                    \* one of the intents
    i1, bad, event, NoIntent, n1, NoNode

VARIABLES
    subject,
    outbox, due, idem, job, deadLetters, stopping, disp, work, forwarding, stumbles,
    reopened, returned, ambiguous

Pipeline == INSTANCE JobOutbox
               WITH Intents <- {i1, bad, event}, Valid <- {i1, event}, Unconsumed <- {event},
                    Nodes <- {n1}, Equipped <- {n1}, MaxAttempts <- 1, MaxStalled <- 1,
                    BatchSize <- 2, FaultKinds <- {"crash", "shutdown", "abort", "redis"},
                    MaxFaults <- 1, MaxRetries <- 0, faults <- stumbles, retries <- reopened

webhooks == <<endpoint, readable, admin, events, run, barred>>
mails == <<kind, wanted, muted, emailRows, mailing, mailbox>>
indexed == <<stateOf, clock, batch, index, syncing, reindex, overlapped>>
mentions == <<mentionFacts, notifying, mentionRows, mentionPast>>
piped == <<outbox, due, idem, job, deadLetters, stopping, disp, work, forwarding,
           stumbles, reopened, returned, ambiguous>>
mcVars == <<subject, jobVars, webhooks, mails, indexed, mentions, piped>>

Is(s) == subject = s

Others == Jobs \ One

MCInit ==
    /\ subject \in {"pipeline", "webhooks", "replays", "mails", "search", "mentions"}
    /\ SearchInit /\ EndpointInit
    /\ MailInit /\ \A j \in IF Is("mails") THEN Others ELSE Jobs : kind[j] = "auth"
    /\ Is("mails") \/ ~muted
    /\ MentionInit /\ \A j \in IF Is("mentions") THEN Others ELSE Jobs : access[j] = "reader"
    /\ deaf \subseteq IF Is("mentions") THEN One ELSE {}
    /\ Pipeline!Init

\* The other intents are not accepted, and nothing happens to them.
Alone ==
    /\ \A j \in Others : phase'[j] = "absent" /\ delivery'[j] = "none" /\ access'[j] = access[j]
    /\ (mentioned' \cup deaf') \cap Others = {}

Within(tries, revivals, mishaps) ==
    /\ faults' <= mishaps
    /\ \A j \in Jobs : attempts'[j] <= tries /\ retries'[j] <= revivals

MCNext ==
    /\ UNCHANGED subject
    /\ \/ Is("pipeline") /\ Pipeline!Next
          /\ UNCHANGED <<jobVars, webhooks, mails, indexed, mentions>>
       \/ Is("webhooks") /\ WebhookNext
          /\ UNCHANGED <<mails, indexed, mentions, piped>> /\ Alone /\ Within(2, 1, 1)
       \/ Is("replays") /\ WebhookNext
          /\ UNCHANGED <<mails, indexed, mentions, piped>> /\ Within(1, 0, 0)
       \/ Is("mails") /\ EmailNext
          /\ UNCHANGED <<webhooks, indexed, mentions, piped>> /\ Alone /\ Within(2, 1, 2)
       \/ Is("search") /\ SearchNext
          /\ UNCHANGED <<webhooks, mails, mentions, piped>> /\ Within(2, 0, 1)
       \/ Is("mentions") /\ MentionNext
          /\ UNCHANGED <<webhooks, mails, indexed, piped>> /\ Alone /\ Within(2, 0, 1)

\* The fairness of each component, as its module states it.
MCSpec ==
    /\ MCInit
    /\ [][MCNext]_mcVars
    /\ \A j \in One :
          /\ WF_webhookVars(Is("webhooks") /\ \E w \in Workers : handle(w, j))
          /\ WF_emailVars(Is("mails") /\ \E w \in Workers : handleEmail(w, j))
          /\ WF_mentionVars(Is("mentions") /\ \E w \in Workers : handleMention(w, j))
    /\ \A j \in Jobs :
          WF_searchVars(Is("search") /\ \E w \in Workers : handleRead(w, j))
    /\ \A w \in Workers :
          /\ WF_webhookVars(Is("webhooks") /\ attempt(w))
          /\ WF_emailVars(Is("mails") /\ emailAttempt(w))
          /\ WF_searchVars(Is("search") /\ Handling(w))
          /\ WF_mentionVars(Is("mentions") /\ notify(w))
    /\ WF_searchVars(Is("search") /\ ReindexStep)
    /\ \A i \in {i1, bad, event} : /\ WF_piped(Is("pipeline") /\ Pipeline!Elapse(i))
                                   /\ WF_piped(Is("pipeline") /\ Pipeline!JobStalls(i))
                                   /\ WF_piped(Is("pipeline") /\ Pipeline!RetryForward(i))
                                   /\ SF_piped(Is("pipeline") /\ Pipeline!WorkerTake(n1, i))
    /\ WF_piped(Is("pipeline") /\ Pipeline!DispatchStep(n1))
    /\ WF_piped(Is("pipeline") /\ Pipeline!WorkerStep(n1))
    /\ WF_piped(Is("pipeline") /\ Pipeline!Restart(n1))

----------------------------------------------------------------------------
(* The properties of the components, each where its subject is looked at;  *)
(* IntentsKeepPromise, IndexInv, SendsOnlyIfEntitled and SettledMailStays  *)
(* are here by EXTENDS.                                                    *)

\* EventsConclude, MailSettles and MentionsConclude, whichever the subject asks for.
Awaited(j) ==
    \/ Is("webhooks") /\ EventAwaited(j)
    \/ Is("mails") /\ MailAwaited(j)
    \/ Is("mentions") /\ MentionAwaited(j)
Concluded(j) ==
    \/ Is("webhooks") /\ EventConcluded(j)
    \/ Is("mails") /\ MailConcluded(j)
    \/ Is("mentions") /\ MentionConcluded(j)

\* Every job concludes: an event ends up delivered, exhausted or buried, and a message or
\* a mention is settled unless a fault strikes (the three worker services).
JobsConclude == \A j \in One : Awaited(j) ~> Concluded(j)

\* With three intents on one node whose Redis may forget, each is settled or stranded under
\* a failed job, and whatever the node gave up on has a dead-letter record unless a fault
\* struck (outbox-dispatcher.service.ts, queue-worker-processor.service.ts).
PipelineSettles ==
    Is("pipeline") => Pipeline!EventuallySettled /\ Pipeline!FailuresReachDeadLetter

\* A delivery is recorded for what the receiver answered, and buried or sent again only
\* if something struck (webhook-delivery.worker.service.ts).
EventsAreTold == Is("webhooks") \/ Is("replays") => WebhookInv

\* The mailbox and the delivery row agree, nothing is mailed twice, and a mention reaches
\* those who may read the note, once (email-delivery.worker.service.ts,
\* mention-notification.worker.service.ts).
MessagesAreTrue == (Is("mails") => MailInv) /\ (Is("mentions") => MentionInv)

\* The index comes to hold what the notes hold, by its intents if a single writer is at
\* work and by a rebuild in any case (note-reindex.service.ts).
IndexIsRepaired == LoneWriterConverges /\ RebuildRepairs
=============================================================================
