--------------------------- MODULE EmailDelivery ---------------------------
(***************************************************************************)
(* Transactional e-mail: the three handlers that send it, each for its own *)
(* kind of delivery.                                                       *)
(*   "workspace"   mentions, finished exports, welcomes: a compare-and-set *)
(*                 on the delivery decides who sends;                      *)
(*   "invitation"  a transaction under the invitation's advisory lock;     *)
(*   "auth"        a compare-and-set on a separate intent row.             *)
(* SMTP acceptance is ambiguous -- an error or a crash may hide it -- so    *)
(* none of them may send what another attempt may have sent.               *)
(***************************************************************************)
EXTENDS JobConsumer, FiniteSets

CONSTANTS
    Kinds         \* the kinds of deliveries considered

VARIABLES
    kind,         \* the kind of each delivery
    wanted,       \* its subject is live: the note exists, the export is ready,
                  \* the invitation is pending, the link has not expired
    muted,        \* the recipient has switched mentions off
    delivery,     \* email_deliveries.status
    intent,       \* auth_email_intents.status
    mailing,      \* what each invocation is doing, and the status it has read
    mailbox       \* messages the provider accepted

emailRows == <<delivery, intent>>
emailVars == <<jobVars, kind, wanted, muted, emailRows, mailing, mailbox>>

Settled == {"sent", "failed", "suppressed", "reconciliation_required"}

Resting == [pc |-> "idle", seen |-> "none"]

MailInit ==
    /\ kind \in [Jobs -> Kinds]
    /\ wanted = [j \in Jobs |-> TRUE]
    /\ muted \in BOOLEAN
    /\ delivery = [j \in Jobs |-> "none"]
    /\ intent = [j \in Jobs |-> "none"]
    /\ mailing = [w \in Workers |-> Resting]
    /\ mailbox = [j \in Jobs |-> 0]

EmailInit == JobInit /\ MailInit

----------------------------------------------------------------------------
(* Producers: the delivery is committed with the change that causes it.    *)

queue(j) ==
    /\ delivery[j] = "none"
    /\ IF kind[j] = "workspace" /\ muted
       THEN /\ delivery' = [delivery EXCEPT ![j] = "suppressed"]
            /\ UNCHANGED <<jobVars, intent>>
       ELSE /\ Accept(j)
            /\ delivery' = [delivery EXCEPT ![j] = "queued"]
            /\ intent' = IF kind[j] = "auth" THEN [intent EXCEPT ![j] = "pending"]
                         ELSE intent
    /\ UNCHANGED <<kind, wanted, muted, mailing, mailbox>>

setEmailPreference ==
    /\ muted' = ~muted
    /\ UNCHANGED <<jobVars, kind, wanted, emailRows, mailing, mailbox>>

\* The note is deleted, the export expires, the invitation is accepted or revoked,
\* the link expires.
subjectGone(j) ==
    /\ delivery[j] # "none"
    /\ wanted[j]
    /\ wanted' = [wanted EXCEPT ![j] = FALSE]
    /\ UNCHANGED <<jobVars, kind, muted, emailRows, mailing, mailbox>>

----------------------------------------------------------------------------
(* Handlers.                                                               *)

Mailing(w, pc) == mailing[w].pc = pc
Job(w) == handling[w]
IsKind(w, k) == handling[w] # NoJob /\ kind[handling[w]] = k

To(w, pc) == mailing' = [mailing EXCEPT ![w].pc = pc]
Rests(w) == mailing' = [mailing EXCEPT ![w] = Resting]

\* Mutant: the row is written by its id alone.
SetDeliveryById(w, from, to) == delivery' = [delivery EXCEPT ![Job(w)] = to]

SetDelivery(w, from, to) ==
    delivery' = IF delivery[Job(w)] = from THEN [delivery EXCEPT ![Job(w)] = to]
                ELSE delivery

SetIntent(w, from, to) ==
    intent' = IF intent[Job(w)] = from THEN [intent EXCEPT ![Job(w)] = to] ELSE intent

outside == <<kind, wanted, muted>>

\* The handler starts by reading its row.
handleEmail(w, j) ==
    /\ Begin(w, j)
    /\ mailing' = [mailing EXCEPT ![w] =
                      [pc |-> "claim",
                       seen |-> IF kind[j] = "auth" THEN intent[j] ELSE delivery[j]]]
    /\ UNCHANGED <<outside, emailRows, mailbox>>

\* Mutant: a delivery found in processing is taken for one to send again.
claimAgain(w) ==
    /\ Mailing(w, "claim") /\ IsKind(w, "workspace")
    /\ IF delivery[Job(w)] \in {"queued", "processing"}
       THEN /\ delivery' = [delivery EXCEPT ![Job(w)] = "processing"]
            /\ To(w, "send")
            /\ UNCHANGED jobVars
       ELSE Returns(w) /\ Rests(w) /\ UNCHANGED delivery
    /\ UNCHANGED <<outside, intent, mailbox>>

\* The workspace handler.
claimDelivery(w) ==
    /\ Mailing(w, "claim") /\ IsKind(w, "workspace")
    /\ \/ /\ delivery[Job(w)] = "queued"
          /\ SetDelivery(w, "queued", "processing")
          /\ To(w, "send")
          /\ UNCHANGED jobVars
       \/ /\ delivery[Job(w)] # "queued"
          /\ mailing[w].seen = "processing"
          /\ SetDelivery(w, "processing", "reconciliation_required")
          /\ Buries(w)
          /\ Rests(w)
       \/ /\ delivery[Job(w)] # "queued"
          /\ mailing[w].seen # "processing"
          /\ Returns(w)
          /\ Rests(w)
          /\ UNCHANGED delivery
    /\ UNCHANGED <<outside, intent, mailbox>>

\* The invitation handler: the read of its transaction, under the lock.
claimReads(w) ==
    /\ Mailing(w, "claim") /\ IsKind(w, "invitation")
    /\ \A other \in Workers : ~(Mailing(other, "decide") /\ Job(other) = Job(w))
    /\ mailing' = [mailing EXCEPT ![w] =
                      [pc |-> "decide",
                       seen |-> IF wanted[Job(w)] THEN delivery[Job(w)] ELSE "inactive"]]
    /\ UNCHANGED <<jobVars, outside, emailRows, mailbox>>

\* The invitation handler: its write, decided by what it has read.
claimWrites(w) ==
    LET seen == mailing[w].seen
        ends == Returns(w) /\ Rests(w)
    IN  /\ Mailing(w, "decide")
        /\ \/ seen = "inactive" /\ SetDelivery(w, "queued", "failed") /\ ends
           \/ /\ seen = "processing"
              /\ delivery' = [delivery EXCEPT ![Job(w)] = "reconciliation_required"]
              /\ ends
           \/ /\ seen = "queued"
              /\ SetDelivery(w, "queued", "processing")
              /\ To(w, "send")
              /\ UNCHANGED jobVars
           \/ seen \in Settled /\ UNCHANGED delivery /\ ends
        /\ UNCHANGED <<outside, intent, mailbox>>

\* The authentication handler.
claimIntent(w) ==
    LET seen == mailing[w].seen
    IN  /\ Mailing(w, "claim") /\ IsKind(w, "auth")
        /\ \/ /\ seen = "processing"
              /\ SetIntent(w, "processing", "failed")
              /\ SetDelivery(w, "queued", "reconciliation_required")
              /\ Buries(w) /\ Rests(w)
           \/ /\ seen = "pending" /\ ~wanted[Job(w)]
              /\ SetIntent(w, "pending", "expired")
              /\ SetDelivery(w, "queued", "failed")
              /\ Returns(w) /\ Rests(w)
           \/ /\ seen = "pending" /\ wanted[Job(w)] /\ intent[Job(w)] = "pending"
              /\ SetIntent(w, "pending", "processing")
              /\ To(w, "send")
              /\ UNCHANGED <<jobVars, delivery>>
           \/ /\ \/ seen \notin {"pending", "processing"}
                 \/ seen = "pending" /\ wanted[Job(w)] /\ intent[Job(w)] # "pending"
              /\ Returns(w) /\ Rests(w)
              /\ UNCHANGED emailRows
        /\ UNCHANGED <<outside, mailbox>>

\* The subject is rendered -- the workspace handler re-reads it -- and sent.
sendEmail(w) ==
    LET withheld == IsKind(w, "workspace") /\ ~wanted[Job(w)]
        accepted == /\ ~withheld
                    /\ mailbox' = [mailbox EXCEPT ![Job(w)] = @ + 1]
    IN  /\ Mailing(w, "send")
        /\ \/ accepted /\ To(w, "sent")
           \/ accepted /\ To(w, "ambiguous")
           \/ UNCHANGED mailbox /\ To(w, "ambiguous")
        /\ UNCHANGED <<jobVars, outside, emailRows>>

\* Mutant: the authentication handler settles its intent and forgets the delivery.
recordSentIntent(w) ==
    /\ Mailing(w, "sent")
    /\ IF IsKind(w, "auth")
       THEN SetIntent(w, "processing", "sent") /\ UNCHANGED delivery
       ELSE SetDelivery(w, "processing", "sent") /\ UNCHANGED intent
    /\ Returns(w) /\ Rests(w)
    /\ UNCHANGED <<outside, mailbox>>

recordSent(w) ==
    /\ Mailing(w, "sent")
    /\ IF IsKind(w, "auth")
       THEN SetIntent(w, "processing", "sent") /\ SetDelivery(w, "queued", "sent")
       ELSE SetDelivery(w, "processing", "sent") /\ UNCHANGED intent
    /\ Returns(w) /\ Rests(w)
    /\ UNCHANGED <<outside, mailbox>>

\* What may have been sent is never sent again: an operator decides.
recordAmbiguous(w) ==
    /\ Mailing(w, "ambiguous")
    /\ IF IsKind(w, "auth")
       THEN /\ SetIntent(w, "processing", "failed")
            /\ SetDelivery(w, "queued", "reconciliation_required")
       ELSE SetDelivery(w, "processing", "reconciliation_required") /\ UNCHANGED intent
    /\ Buries(w) /\ Rests(w)
    /\ UNCHANGED <<outside, mailbox>>

\* A statement fails or the process dies.  The authentication handler treats a failure
\* to record as it treats a failure to send.
emailFails(w) ==
    /\ ~Mailing(w, "idle")
    /\ \/ /\ Fails(w) \/ Dies(w)
          /\ Rests(w)
       \/ /\ IsKind(w, "auth") /\ Mailing(w, "sent")
          /\ Fault
          /\ To(w, "ambiguous")
          /\ UNCHANGED <<phase, attempts, retries, handling, abandoned>>
    /\ UNCHANGED <<outside, emailRows, mailbox>>

----------------------------------------------------------------------------
emailAttempt(w) ==
    \/ claimDelivery(w) \/ claimReads(w) \/ claimWrites(w) \/ claimIntent(w)
    \/ sendEmail(w)
    \/ recordSent(w) \/ recordAmbiguous(w)

EmailNext ==
    \/ \E j \in Jobs : queue(j) \/ subjectGone(j)
    \/ setEmailPreference
    \/ \E w \in Workers, j \in Jobs : handleEmail(w, j)
    \/ \E w \in Workers : emailAttempt(w) \/ emailFails(w)
    \/ Around /\ UNCHANGED <<outside, emailRows, mailing, mailbox>>

EmailSpec == EmailInit /\ [][EmailNext]_emailVars

(* The pipeline delivers what it accepted, a handler runs to its end.      *)
EmailFairness ==
    /\ \A j \in Jobs : WF_emailVars(\E w \in Workers : handleEmail(w, j))
    /\ \A w \in Workers : WF_emailVars(emailAttempt(w))

----------------------------------------------------------------------------
(* Properties.                                                             *)

\* The variables keep their types; the handler's steps follow its invocation, and only
\* authentication mail has an intent of its own.
EmailTypeOK ==
    /\ \A w \in Workers : Mailing(w, "idle") <=> handling[w] = NoJob
    /\ \A j \in Jobs :
          /\ delivery[j] \in {"none", "queued", "processing"} \cup Settled
          /\ intent[j] \in {"none", "pending", "processing", "sent", "failed", "expired"}
          /\ intent[j] # "none" => kind[j] = "auth" /\ delivery[j] # "processing"

\* "Never auto-resend this message": whatever fails, times out, dies or is retried by
\* an operator, the provider is never given the same delivery twice.
MailedAtMostOnce == \A j \in Jobs : mailbox[j] <= 1

\* The record tells the truth about the mailbox: what is recorded as sent was accepted,
\* what is recorded as suppressed was not, and an invitation or a workspace message
\* recorded as failed was not either.  (Authentication mail is excepted: see the README.)
RecordMatchesMailbox ==
    \A j \in Jobs :
        /\ delivery[j] = "sent" => mailbox[j] = 1
        /\ delivery[j] = "suppressed" => mailbox[j] = 0
        /\ delivery[j] = "failed" /\ kind[j] # "auth" => mailbox[j] = 0

\* "A stale read could overwrite a sent row with a reconciliation flag": a settled
\* delivery of the guarded handlers never changes again.
SettledMailStays ==
    [][\A j \in Jobs :
          delivery[j] \in Settled /\ kind[j] # "invitation" => delivery'[j] = delivery[j]
      ]_emailVars

\* "Active-state failures converge the authoritative delivery to a safe terminal
\* state": an intent that ended normally leaves no open delivery behind, where no
\* attempt was cut short.
DoneIsSettledUnlessStruck ==
    \A j \in Jobs :
        phase[j] = "done" /\ (\A w \in Workers : Job(w) # j) =>
            delivery[j] \in Settled \/ Struck

\* Nobody gets a message twice, and the record says what happened.
MailInv ==
    EmailTypeOK /\ MailedAtMostOnce /\ RecordMatchesMailbox /\ DoneIsSettledUnlessStruck

\* Every queued e-mail is settled, one way or the other, unless a fault strikes -- in
\* which case an operator finds it dead or marked for reconciliation.
MailAwaited(j) == delivery[j] = "queued"
MailConcluded(j) == delivery[j] \in Settled \/ Struck

MailSettles == \A j \in Jobs : MailAwaited(j) ~> MailConcluded(j)
=============================================================================
