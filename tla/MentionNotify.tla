---------------------------- MODULE MentionNotify ----------------------------
(***************************************************************************)
(* Mentions in a note.  A save that mentions a member for the first time   *)
(* commits an intent for this member; its handler asks anew whether the    *)
(* member may read the note, queues a mail, which is idempotent, and       *)
(* inserts a notification, which is not.                                   *)
(*                                                                         *)
(* An intent is named by its recipient: the key of the outbox row is the   *)
(* workspace, the note and the recipient, whoever mentions and when.       *)
(***************************************************************************)
EXTENDS JobConsumer, FiniteSets

CONSTANTS MaxSaves    \* bound: saves of the note

VARIABLES
    access,      \* of each user: reads the note, is but a member, or is a stranger
    trashed,     \* the note is in the trash
    deaf,        \* users who have switched these mails off
    mentioned,   \* users mentioned in the document
    saves,
    notifying,   \* what each invocation does next
    told,        \* mails queued
    withheld,    \* deliveries recorded as suppressed
    notices,     \* notifications
    unheard,     \* notifications whose insert was taken for failed
    readerOnce,  \* users who could read the note at some time since the mention
    unfit        \* users who could not, or whose note was in the trash, at some time

mentionFacts == <<access, trashed, deaf, mentioned, saves>>
mentionRows == <<told, withheld, notices, unheard>>
mentionPast == <<readerOnce, unfit>>
mentionVars == <<jobVars, mentionFacts, notifying, mentionRows, mentionPast>>

Zero == [j \in Jobs |-> 0]

MentionInit ==
    /\ access \in [Jobs -> {"reader", "member", "stranger"}]
    /\ deaf \in SUBSET Jobs
    /\ trashed = FALSE /\ mentioned = {} /\ saves = 0
    /\ notifying = [w \in Workers |-> "idle"]
    /\ told = Zero /\ withheld = Zero /\ notices = Zero /\ unheard = Zero
    /\ readerOnce = {} /\ unfit = {}

----------------------------------------------------------------------------
(* Saves and what changes beside them.                                     *)

Fit(j, reads, inTrash) == reads[j] = "reader" /\ ~inTrash

\* What has been the case since the mention; before it, nothing counts.
Remember(reads, inTrash) ==
    LET asked == {j \in Jobs : phase'[j] # "absent"}
    IN /\ readerOnce' = readerOnce \cup {j \in asked : reads[j] = "reader"}
       /\ unfit' = unfit \cup {j \in asked : ~Fit(j, reads, inTrash)}

\* scheduleMentionNotifications, of users the save adds; a save adds one at most here.
save ==
    /\ saves < MaxSaves /\ ~trashed
    /\ saves' = saves + 1
    /\ \E next \in SUBSET Jobs :
          LET added == next \ mentioned
              news == {j \in added : access[j] # "stranger" /\ phase[j] = "absent"}
          IN /\ Cardinality(added) <= 1
             /\ mentioned' = next
             /\ IF news = {} THEN UNCHANGED jobVars ELSE \E j \in news : Accept(j)
    /\ Remember(access, trashed)
    /\ UNCHANGED <<access, trashed, deaf, notifying, mentionRows>>

changeAccess(j) ==
    /\ \E level \in {"reader", "member", "stranger"} \ {access[j]} :
          access' = [access EXCEPT ![j] = level]
    /\ UNCHANGED <<jobVars, trashed, deaf, mentioned, saves, notifying, mentionRows>>
    /\ Remember(access', trashed)

changeTrash ==
    /\ trashed' = ~trashed
    /\ UNCHANGED <<jobVars, access, deaf, mentioned, saves, notifying, mentionRows>>
    /\ Remember(access, trashed')

setMailPreference(j) ==
    /\ deaf' = IF j \in deaf THEN deaf \ {j} ELSE deaf \cup {j}
    /\ UNCHANGED <<jobVars, access, trashed, mentioned, saves, notifying, mentionRows, mentionPast>>

----------------------------------------------------------------------------
(* The handler.                                                            *)

Proceeds(w, pc) == notifying' = [notifying EXCEPT ![w] = pc]
Doing(w, pc) == notifying[w] = pc
Count(counts, w) == [counts EXCEPT ![handling[w]] = @ + 1]
still == UNCHANGED <<mentionFacts, mentionPast>>

handleMention(w, j) ==
    /\ Begin(w, j) /\ Proceeds(w, "authorize")
    /\ UNCHANGED <<mentionFacts, mentionRows, mentionPast>>

\* Mutant: whoever is a member is told.
authorizeMember(w) ==
    /\ Doing(w, "authorize")
    /\ IF access[handling[w]] # "stranger" THEN Proceeds(w, "read") /\ UNCHANGED jobVars
       ELSE Proceeds(w, "idle") /\ Returns(w)
    /\ UNCHANGED mentionRows /\ still

\* authorizeUserJob: a refusal ends the job, there is nothing to deliver.
authorizeUserJob(w) ==
    /\ Doing(w, "authorize")
    /\ IF access[handling[w]] = "reader" THEN Proceeds(w, "read") /\ UNCHANGED jobVars
       ELSE Proceeds(w, "idle") /\ Returns(w)
    /\ UNCHANGED mentionRows /\ still

readNote(w) ==
    /\ Doing(w, "read")
    /\ IF trashed THEN Proceeds(w, "idle") /\ Returns(w) ELSE Proceeds(w, "mail") /\ UNCHANGED jobVars
    /\ UNCHANGED mentionRows /\ still

\* WorkspaceEmailProducerService.queue: the key of the mail is there already, or not.
queueMail(w) ==
    /\ Doing(w, "mail")
    /\ IF handling[w] \in deaf THEN withheld' = Count(withheld, w) /\ UNCHANGED told
       ELSE /\ UNCHANGED withheld
            /\ told' = IF told[handling[w]] = 0 THEN Count(told, w) ELSE told
    /\ Proceeds(w, "emit")
    /\ UNCHANGED <<jobVars, notices, unheard>> /\ still

\* NotificationService.emit: a bare insert.
emit(w) ==
    /\ Doing(w, "emit")
    /\ notices' = Count(notices, w)
    /\ Proceeds(w, "return")
    /\ UNCHANGED <<jobVars, told, withheld, unheard>> /\ still

return(w) ==
    /\ Doing(w, "return")
    /\ Proceeds(w, "idle") /\ Returns(w)
    /\ UNCHANGED mentionRows /\ still

\* The process dies, a statement fails, or the answer of the insert is not heard.
handlerFails(w) ==
    /\ ~Doing(w, "idle")
    /\ Proceeds(w, "idle")
    /\ \/ Dies(w) /\ UNCHANGED mentionRows
       \/ ~Doing(w, "return") /\ Fails(w) /\ UNCHANGED mentionRows
       \/ /\ Doing(w, "emit") /\ Fails(w)
          /\ notices' = Count(notices, w)
          /\ unheard' = Count(unheard, w)
          /\ UNCHANGED <<told, withheld>>
    /\ still

notify(w) == authorizeUserJob(w) \/ readNote(w) \/ queueMail(w) \/ emit(w) \/ return(w)

MentionNext ==
    \/ save \/ changeTrash
    \/ \E j \in Jobs : changeAccess(j) \/ setMailPreference(j)
    \/ \E w \in Workers, j \in Jobs : handleMention(w, j)
    \/ \E w \in Workers : notify(w) \/ handlerFails(w)
    \/ Around /\ UNCHANGED <<mentionFacts, notifying, mentionRows, mentionPast>>

MentionSpec == JobInit /\ MentionInit /\ [][MentionNext]_mentionVars

(* The pipeline delivers what it accepted, a handler runs to its end.      *)
MentionFairness ==
    /\ \A j \in Jobs : WF_mentionVars(\E w \in Workers : handleMention(w, j))
    /\ \A w \in Workers : WF_mentionVars(notify(w))

----------------------------------------------------------------------------
(* Properties.                                                             *)

\* Nobody hears of a note he could not read at any time since he was mentioned in it
\* (mention-notification.worker.service.ts, handle).
NothingToOutsiders ==
    \A j \in Jobs \ readerOnce : told[j] + withheld[j] + notices[j] = 0

\* "The idempotent write has to come first": a retry never repeats a notification, unless
\* an operator asked for it or the first insert was taken for failed.
NoticesAreNotRepeated ==
    \A j \in Jobs : notices[j] <= 1 + retries[j] + unheard[j]

\* A notification never comes without its mail, or the record that there is none.
MailComesFirst == \A j \in Jobs : notices[j] > 0 => told[j] + withheld[j] > 0

\* Nobody is mailed twice, and who could read the note all along was told once the job
\* is done.
DoneIsNotified ==
    \A j \in Jobs :
        /\ told[j] <= 1
        /\ phase[j] = "done" /\ j \notin unfit => notices[j] > 0

MentionInv ==
    NothingToOutsiders /\ NoticesAreNotRepeated /\ MailComesFirst /\ DoneIsNotified

\* Whoever is mentioned is told or found not to read the note, unless a fault strikes.
MentionAwaited(j) == phase[j] = "accepted"
MentionConcluded(j) == phase[j] = "done" \/ Struck

MentionsConclude == \A j \in Jobs : MentionAwaited(j) ~> MentionConcluded(j)
=============================================================================
