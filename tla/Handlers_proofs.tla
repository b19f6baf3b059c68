--------------------------- MODULE Handlers_proofs ---------------------------
(***************************************************************************)
(* Proofs about four handlers of jobs, for any number of intents,          *)
(* invocations, attempts, retries and faults: the mails, the webhook       *)
(* events, the syncs of the search index and the mentions.  They share the *)
(* variables of JobConsumer and nothing else; a theorem of each is about   *)
(* its own specification, and those at the end are about MCHandlers.       *)
(*                                                                         *)
(* Mails.  Each kind of delivery has one row that decides who sends: the   *)
(* delivery itself, or the intent of an authentication mail.  It leaves    *)
(* its first state once, whoever takes it out of that state is the only    *)
(* one to send, and everyone else can do no more than settle it.           *)
(*                                                                         *)
(* Webhook events.  An attempt knows two things that nobody but a fault    *)
(* takes from it: it counts the attempts of its intent as the pipeline     *)
(* does, and until it has sent, the receiver has accepted nothing of the   *)
(* intent -- unless the endpoint is gone, and then it will not send.       *)
(*                                                                         *)
(* Syncs.  What is wrong with a document is owed by an open intent, and    *)
(* what a writer is about to write is current or owed by another one; that *)
(* lasts until a fault or an overlap of two writers.  A rebuild that       *)
(* nothing disturbs knows, at each of its stages, what it has left to do.  *)
(*                                                                         *)
(* Mentions.  The notifications that are there, those of the invocations   *)
(* that may yet insert one and the one still to be asked for are together  *)
(* no more than the retries and the unheard answers allow.                 *)
(***************************************************************************)
EXTENDS MCHandlers, JobConsumer_proofs, FiniteSetTheorems

----------------------------------------------------------------------------
(* Mails: the invariant.                                                   *)

Statuses == {"none", "queued", "processing"} \cup Settled
Stages == {"none", "pending", "processing", "sent", "failed", "expired"}

MailTyped ==
    /\ kind \in [Jobs -> Kinds]
    /\ delivery \in [Jobs -> Statuses]
    /\ intent \in [Jobs -> Stages]
    /\ mailing \in [Workers -> [pc : {"idle", "claim", "decide", "send", "sent", "ambiguous"},
                                seen : Statuses \cup Stages \cup {"inactive"}]]
    /\ mailbox \in [Jobs -> 0..1]
    /\ faults \in Nat

\* The row that decides who sends, and its states before an attempt has claimed it.
DecidingRow(j) == IF kind[j] = "auth" THEN intent[j] ELSE delivery[j]
Unclaimed(j) == DecidingRow(j) \in {"none", "queued", "pending"}

\* An attempt that has claimed its delivery and not recorded what came of it.
Sending(w) == mailing[w].pc \in {"send", "sent", "ambiguous"}

\* What the rows of a delivery say of the mailbox, and of its intent where nothing struck.
JobOK(j) ==
    /\ intent[j] # "none" <=> kind[j] = "auth" /\ delivery[j] # "none"
    /\ kind[j] = "auth" => delivery[j] \notin {"processing", "suppressed"}
    /\ phase[j] # "absent" => delivery[j] # "none"
    /\ Unclaimed(j) => mailbox[j] = 0
    /\ delivery[j] = "sent" => mailbox[j] = 1
    /\ delivery[j] = "suppressed" => mailbox[j] = 0
    /\ delivery[j] = "failed" /\ kind[j] # "auth" => mailbox[j] = 0
    /\ ~Struck =>
          /\ phase[j] \in {"done", "dead"} => delivery[j] \in Settled
          /\ phase[j] = "accepted" => DecidingRow(j) # "processing"
          /\ kind[j] = "auth" =>
                (delivery[j] = "queued" <=> intent[j] \in {"pending", "processing"})

\* What an attempt may take for granted of its delivery.
WorkerOK(w) ==
    /\ Mailing(w, "idle") <=> handling[w] = NoJob
    /\ handling[w] # NoJob =>
          LET j == handling[w]
              seen == mailing[w].seen
          IN  /\ delivery[j] # "none"
              /\ Mailing(w, "decide") =>
                    /\ kind[j] = "invitation"
                    /\ seen = "queued" => delivery[j] = "queued"
              /\ Sending(w) =>
                    /\ DecidingRow(j) \in {"processing", "reconciliation_required"}
                          \cup (IF kind[j] = "auth" THEN {"failed"} ELSE {})
                    /\ Mailing(w, "send") => mailbox[j] = 0
                    /\ Mailing(w, "sent") => mailbox[j] = 1
              /\ ~Struck =>
                    /\ Mailing(w, "claim") => seen = DecidingRow(j) /\ seen # "processing"
                    /\ Mailing(w, "decide") =>
                          seen \in {"inactive", delivery[j]} /\ delivery[j] # "processing"
                    /\ Sending(w) => DecidingRow(j) = "processing"

OneSends ==
    \A v, w \in Workers : Sending(v) /\ Sending(w) /\ handling[v] = handling[w] => v = w

\* The advisory lock of an invitation.
OneDecides ==
    \A v, w \in Workers :
        Mailing(v, "decide") /\ Mailing(w, "decide") /\ handling[v] = handling[w] => v = w

JobsOK == \A j \in Jobs : JobOK(j)
WorkersOK == \A w \in Workers : WorkerOK(w)
NobodyIsLeft == ~Struck => abandoned = {}

MailIInv ==
    /\ ConsumerInv /\ MailTyped /\ NobodyIsLeft
    /\ JobsOK /\ WorkersOK
    /\ OneSends /\ OneDecides

LEMMA MailIInvImplies == MailIInv => MailInv
  <1> SUFFICES ASSUME MailIInv PROVE MailInv
    OBVIOUS
  <1>1. MailTyped /\ JobsOK /\ WorkersOK
    BY DEF MailIInv
  <1>2. EmailTypeOK
    <2>1. \A w \in Workers : Mailing(w, "idle") <=> handling[w] = NoJob
      BY <1>1 DEF WorkersOK, WorkerOK
    <2>2. \A j \in Jobs : delivery[j] \in Statuses /\ intent[j] \in Stages
      BY <1>1 DEF MailTyped
    <2>3. \A j \in Jobs : intent[j] # "none" => kind[j] = "auth" /\ delivery[j] # "processing"
      BY <1>1 DEF JobsOK, JobOK
    <2> QED
      BY <2>1, <2>2, <2>3 DEF EmailTypeOK, Statuses, Stages
  <1>3. MailedAtMostOnce
    BY <1>1 DEF MailTyped, MailedAtMostOnce
  <1>4. RecordMatchesMailbox
    <2> SUFFICES ASSUME NEW j \in Jobs
                 PROVE  /\ delivery[j] = "sent" => mailbox[j] = 1
                        /\ delivery[j] = "suppressed" => mailbox[j] = 0
                        /\ delivery[j] = "failed" /\ kind[j] # "auth" => mailbox[j] = 0
      BY DEF RecordMatchesMailbox
    <2> QED
      BY <1>1 DEF JobsOK, JobOK
  <1>5. DoneIsSettledUnlessStruck
    <2> SUFFICES ASSUME NEW j \in Jobs, phase[j] = "done", ~Struck
                 PROVE  delivery[j] \in Settled
      BY DEF DoneIsSettledUnlessStruck
    <2> QED
      BY <1>1 DEF JobsOK, JobOK
  <1> QED
    BY <1>2, <1>3, <1>4, <1>5 DEF MailInv

LEMMA InitMail == EmailInit => MailIInv
  <1> SUFFICES ASSUME EmailInit PROVE MailIInv
    OBVIOUS
  <1>1. ConsumerInv
    BY JobInitConsumerInv DEF EmailInit
  <1>2. MailTyped /\ NobodyIsLeft
    BY DEF EmailInit, MailInit, JobInit, MailTyped, Statuses, Stages, Resting, NobodyIsLeft
  <1>3. ASSUME NEW j \in Jobs PROVE JobOK(j)
    BY DEF EmailInit, MailInit, JobInit, JobOK, Unclaimed, DecidingRow
  <1>4. ASSUME NEW w \in Workers
        PROVE  WorkerOK(w) /\ ~Sending(w) /\ ~Mailing(w, "decide")
    BY DEF EmailInit, MailInit, JobInit, WorkerOK, Sending, Mailing, Resting
  <1> QED
    BY <1>1, <1>2, <1>3, <1>4 DEF MailIInv, JobsOK, WorkersOK, OneSends, OneDecides

----------------------------------------------------------------------------
(* Mails: what the steps do to the intents.                                *)

LEMMA EndsAreEnds ==
  ASSUME NEW w \in Workers, Returns(w) \/ Buries(w) \/ Fails(w) \/ Dies(w)
  PROVE  \E outcome \in {"done", "dead", AfterThrow(w)} : End(w, outcome)
  BY DEF Returns, Buries, Fails, Dies

LEMMA AttemptsOnIntents ==
  ASSUME NEW w \in Workers, emailAttempt(w) \/ emailFails(w)
  PROVE  \/ \E outcome \in {"done", "dead", AfterThrow(w)} : End(w, outcome)
         \/ IntentsRest
  <1>1. CASE claimDelivery(w) \/ claimReads(w)
    BY <1>1, EndsAreEnds DEF claimDelivery, claimReads, IntentsRest, jobVars
  <1>2. CASE claimWrites(w)
    BY <1>2, EndsAreEnds DEF claimWrites, IntentsRest, jobVars
  <1>3. CASE claimIntent(w)
    BY <1>3, EndsAreEnds DEF claimIntent, IntentsRest, jobVars
  <1>4. CASE sendEmail(w)
    BY <1>4 DEF sendEmail, IntentsRest, jobVars
  <1>5. CASE recordSent(w) \/ recordAmbiguous(w)
    BY <1>5, EndsAreEnds DEF recordSent, recordAmbiguous
  <1>6. CASE emailFails(w)
    BY <1>6, EndsAreEnds DEF emailFails, IntentsRest
  <1> QED
    BY <1>1, <1>2, <1>3, <1>4, <1>5, <1>6 DEF emailAttempt

LEMMA StepsOnIntents == [EmailNext]_emailVars => JobStep \/ IntentsRest
  <1>1. ASSUME NEW j \in Jobs, queue(j) \/ subjectGone(j)
        PROVE  JobStep \/ IntentsRest
    BY <1>1 DEF queue, subjectGone, JobStep, IntentsRest, jobVars
  <1>2. ASSUME NEW w \in Workers, NEW j \in Jobs, handleEmail(w, j)
        PROVE  JobStep
    BY <1>2 DEF handleEmail, JobStep
  <1>3. ASSUME NEW w \in Workers, emailAttempt(w) \/ emailFails(w)
        PROVE  JobStep \/ IntentsRest
    BY <1>3, AttemptsOnIntents DEF JobStep
  <1>4. setEmailPreference \/ UNCHANGED emailVars => IntentsRest
    BY DEF setEmailPreference, emailVars, jobVars, IntentsRest
  <1>5. Around => JobStep
    BY DEF JobStep
  <1> QED
    BY <1>1, <1>2, <1>3, <1>4, <1>5 DEF EmailNext

LEMMA StepKeepsConsumer ==
  ASSUME ConsumerInv, [EmailNext]_emailVars
  PROVE  ConsumerInv' /\ [Promise!Next]_phase
  <1>1. CASE JobStep
    BY <1>1, JobStepKeepsInv, JobStepIsPromised
  <1>2. CASE IntentsRest
    BY <1>2, RestKeepsConsumerInv DEF IntentsRest
  <1> QED
    BY <1>1, <1>2, StepsOnIntents

----------------------------------------------------------------------------
(* What one statement does to its row.                                      *)

LEMMA SetDeliveryAt ==
  ASSUME MailTyped, NEW w \in Workers, handling[w] \in Jobs, NEW from, NEW to \in Statuses,
         SetDelivery(w, from, to)
  PROVE  /\ delivery' \in [Jobs -> Statuses]
         /\ \A k \in Jobs : k # handling[w] => delivery'[k] = delivery[k]
         /\ delivery'[handling[w]] =
               IF delivery[handling[w]] = from THEN to ELSE delivery[handling[w]]
  BY DEF MailTyped, SetDelivery, Job

LEMMA SetIntentAt ==
  ASSUME MailTyped, NEW w \in Workers, handling[w] \in Jobs, NEW from, NEW to \in Stages,
         SetIntent(w, from, to)
  PROVE  /\ intent' \in [Jobs -> Stages]
         /\ \A k \in Jobs : k # handling[w] => intent'[k] = intent[k]
         /\ intent'[handling[w]] =
               IF intent[handling[w]] = from THEN to ELSE intent[handling[w]]
  BY DEF MailTyped, SetIntent, Job

MailingTyped ==
    mailing \in [Workers -> [pc : {"idle", "claim", "decide", "send", "sent", "ambiguous"},
                             seen : Statuses \cup Stages \cup {"inactive"}]]

LEMMA ToAt ==
  ASSUME MailTyped, NEW w \in Workers, NEW pc \in {"decide", "send", "sent", "ambiguous"},
         To(w, pc)
  PROVE  /\ MailingTyped'
         /\ \A v \in Workers : v # w => mailing'[v] = mailing[v]
         /\ mailing'[w].pc = pc /\ mailing'[w].seen = mailing[w].seen
  BY DEF MailTyped, MailingTyped, To

LEMMA RestsAt ==
  ASSUME MailTyped, NEW w \in Workers, Rests(w)
  PROVE  /\ MailingTyped'
         /\ \A v \in Workers : v # w => mailing'[v] = mailing[v]
         /\ mailing'[w].pc = "idle"
  BY DEF MailTyped, MailingTyped, Rests, Resting, Statuses

\* The end of an invocation; without a fault before it, it settles its intent.
LEMMA EndAt ==
  ASSUME ConsumerInv, NobodyIsLeft, faults \in Nat, NEW w \in Workers,
         Returns(w) \/ Buries(w) \/ Fails(w) \/ Dies(w)
  PROVE  /\ handling[w] \in Jobs /\ handling'[w] = NoJob
         /\ \A v \in Workers : v # w => handling'[v] = handling[v]
         /\ \A k \in Jobs : k # handling[w] => phase'[k] = phase[k]
         /\ NobodyIsLeft' /\ faults' \in Nat /\ (Struck => Struck')
         /\ Fails(w) \/ Dies(w) => Struck'
         /\ ~Struck' => phase'[handling[w]] \in {"done", "dead"}
  <1>1. PICK outcome \in {"done", "dead", AfterThrow(w)} : End(w, outcome)
    BY EndsAreEnds
  <1>2. handling[w] \in Jobs
    BY <1>1 DEF End, ConsumerInv, ConsumerTypeOK
  <1>3. handling' = [handling EXCEPT ![w] = NoJob] /\ abandoned' = abandoned \ {w}
    BY <1>1 DEF End
  <1>4. \/ faults' = faults
        \/ faults' = faults + 1
    BY DEF Returns, Buries, Fails, Dies, Fault
  <1>5. Fails(w) \/ Dies(w) => faults' = faults + 1
    BY DEF Fails, Dies, Fault
  <1>6. phase' = phase \/ phase' = [phase EXCEPT ![handling[w]] = outcome]
    BY <1>1 DEF End
  <1>7. NobodyIsLeft' /\ faults' \in Nat /\ (Struck => Struck')
        /\ (Fails(w) \/ Dies(w) => Struck')
    BY <1>3, <1>4, <1>5 DEF NobodyIsLeft, Struck
  <1>8. ASSUME ~Struck' PROVE phase'[handling[w]] \in {"done", "dead"}
    <2>1. w \notin abandoned /\ (Returns(w) \/ Buries(w))
      BY <1>7, <1>8 DEF NobodyIsLeft
    <2>2. End(w, "done") \/ End(w, "dead")
      BY <2>1 DEF Returns, Buries
    <2> QED
      BY <1>2, <2>1, <2>2 DEF End, ConsumerInv, ConsumerTypeOK
  <1> QED
    BY <1>2, <1>3, <1>6, <1>7, <1>8 DEF ConsumerInv, ConsumerTypeOK

----------------------------------------------------------------------------
(* The steps of an attempt, by what they do to its delivery.                *)

Same(j) == /\ phase'[j] = phase[j] /\ mailbox'[j] = mailbox[j]
           /\ delivery'[j] = delivery[j] /\ intent'[j] = intent[j]

\* An attempt touches its own delivery only.
MovesOnly(w) ==
    /\ handling[w] \in Jobs
    /\ \A k \in Jobs : k # handling[w] => Same(k)
    /\ \A v \in Workers : v # w => mailing'[v] = mailing[v] /\ handling'[v] = handling[v]
    /\ kind' = kind /\ MailTyped' /\ NobodyIsLeft' /\ (Struck => Struck')

Stays(w) == handling'[w] = handling[w] /\ phase'[handling[w]] = phase[handling[w]]

\* The attempt takes its delivery out of its first state, and will send it.
Takes(w) ==
    /\ Stays(w)
    /\ mailing[w].pc \in {"claim", "decide"} /\ mailing'[w].pc = "send"
    /\ kind[handling[w]] = "invitation" => Mailing(w, "decide")
    /\ mailbox'[handling[w]] = mailbox[handling[w]]
    /\ IF kind[handling[w]] = "auth"
       THEN /\ intent[handling[w]] = "pending" /\ intent'[handling[w]] = "processing"
            /\ delivery'[handling[w]] = delivery[handling[w]]
       ELSE /\ delivery[handling[w]] = "queued" /\ delivery'[handling[w]] = "processing"
            /\ intent'[handling[w]] = intent[handling[w]]

\* The attempt reads its invitation under the lock.
Reads(w) ==
    /\ Stays(w) /\ Same(handling[w])
    /\ Mailing(w, "claim") /\ mailing'[w].pc = "decide"
    /\ mailing'[w].seen \in {"inactive", delivery[handling[w]]}
    /\ kind[handling[w]] = "invitation"
    /\ \A v \in Workers : ~(Mailing(v, "decide") /\ handling[v] = handling[w])

\* The provider answers, or nobody knows whether it did.
Posts(w) ==
    /\ Stays(w)
    /\ delivery' = delivery /\ intent' = intent
    /\ Mailing(w, "send")
    /\ \/ mailing'[w].pc \in {"sent", "ambiguous"}
          /\ mailbox'[handling[w]] = mailbox[handling[w]] + 1
       \/ mailing'[w].pc = "ambiguous" /\ mailbox'[handling[w]] = mailbox[handling[w]]

\* The record of an authentication mail fails.
Doubts(w) ==
    /\ Stays(w) /\ Same(handling[w])
    /\ Mailing(w, "sent") /\ mailing'[w].pc = "ambiguous" /\ Struck'

\* A delivery that an attempt has claimed, whether its outcome is known or not.
Held(j) == DecidingRow(j) \in {"processing", "reconciliation_required"}
                        \cup (IF kind[j] = "auth" THEN {"failed"} ELSE {})

\* The attempt ends, with a record of what it knows.
Ends(w) ==
    /\ handling'[w] = NoJob /\ mailing'[w].pc = "idle"
    /\ \E j \in {handling[w]} :
          /\ mailbox'[j] = mailbox[j]
          /\ delivery'[j] # "none" /\ (intent'[j] = "none" <=> intent[j] = "none")
          /\ kind[j] = "auth" => delivery'[j] \notin {"processing", "suppressed"}
          /\ ~Unclaimed(j) => ~Unclaimed(j)'
          /\ delivery'[j] = "sent" => delivery[j] = "sent" \/ Mailing(w, "sent")
          /\ delivery'[j] = "suppressed" => delivery[j] = "suppressed"
          /\ delivery'[j] = "failed" /\ kind[j] # "auth" =>
                delivery[j] = "failed" \/ Unclaimed(j)
          /\ Held(j) => Held(j)' \/ Sending(w)
          /\ delivery[j] = "queued" /\ kind[j] = "invitation" =>
                delivery'[j] = "queued" \/ Mailing(w, "decide")
          /\ ~Struck' =>
                /\ phase'[j] \in {"done", "dead"} /\ delivery'[j] \in Settled
                /\ intent'[j] \notin {"pending", "processing"}

\* What an attempt that is under way may use.
LEMMA UnderWay ==
  ASSUME MailIInv, NEW w \in Workers, ~Mailing(w, "idle")
  PROVE  /\ handling[w] \in Jobs /\ JobOK(handling[w]) /\ WorkerOK(w)
         /\ kind[handling[w]] \in Kinds
         /\ delivery[handling[w]] \in Statuses \ {"none"} /\ intent[handling[w]] \in Stages
         /\ \A k : IsKind(w, k) <=> kind[handling[w]] = k
  <1>1. MailTyped /\ JobsOK /\ WorkersOK /\ ConsumerTypeOK
    BY DEF MailIInv, ConsumerInv
  <1>2. WorkerOK(w)
    BY <1>1 DEF WorkersOK
  <1>3. handling[w] \in Jobs /\ handling[w] # NoJob
    BY <1>1, <1>2 DEF WorkerOK, ConsumerTypeOK
  <1>4. delivery[handling[w]] # "none"
    BY <1>2, <1>3 DEF WorkerOK
  <1> QED
    BY <1>1, <1>2, <1>3, <1>4 DEF JobsOK, MailTyped, IsKind

LEMMA StaysAt ==
  ASSUME ConsumerInv, MailTyped, NobodyIsLeft, UNCHANGED <<phase, attempts, retries, handling, abandoned>>,
         UNCHANGED faults \/ Fault
  PROVE  NobodyIsLeft' /\ faults' \in Nat /\ (Struck => Struck') /\ (Fault => Struck')
  BY DEF MailTyped, NobodyIsLeft, Struck, Fault

LEMMA TypedAgain ==
  ASSUME MailTyped, MailingTyped', kind' = kind, faults' \in Nat,
         delivery' \in [Jobs -> Statuses], intent' \in [Jobs -> Stages],
         mailbox' \in [Jobs -> 0..1]
  PROVE  MailTyped'
  BY DEF MailTyped, MailingTyped

\* Rows that keep their types and change at one delivery alone.
RowsChangeAt(j) ==
    /\ delivery' \in [Jobs -> Statuses] /\ intent' \in [Jobs -> Stages]
    /\ \A k \in Jobs : k # j => delivery'[k] = delivery[k] /\ intent'[k] = intent[k]

LEMMA EndsAlone ==
  ASSUME MailIInv, NEW w \in Workers, RowsChangeAt(handling[w]),
         Returns(w) \/ Buries(w) \/ Fails(w) \/ Dies(w), Rests(w),
         kind' = kind, mailbox' = mailbox
  PROVE  /\ MovesOnly(w)
         /\ handling'[w] = NoJob /\ mailing'[w].pc = "idle"
         /\ Fails(w) \/ Dies(w) => Struck'
         /\ ~Struck' => phase'[handling[w]] \in {"done", "dead"}
  <1>1. ConsumerInv /\ MailTyped /\ NobodyIsLeft /\ faults \in Nat
    BY DEF MailIInv, MailTyped
  <1>2. /\ handling[w] \in Jobs /\ handling'[w] = NoJob
        /\ \A v \in Workers : v # w => handling'[v] = handling[v]
        /\ \A k \in Jobs : k # handling[w] => phase'[k] = phase[k]
        /\ NobodyIsLeft' /\ faults' \in Nat /\ (Struck => Struck')
        /\ Fails(w) \/ Dies(w) => Struck'
        /\ ~Struck' => phase'[handling[w]] \in {"done", "dead"}
    BY <1>1, EndAt
  <1>3. /\ MailingTyped' /\ mailing'[w].pc = "idle"
        /\ \A v \in Workers : v # w => mailing'[v] = mailing[v]
    BY <1>1, RestsAt
  <1>4. MailTyped'
    BY <1>1, <1>2, <1>3, TypedAgain DEF MailTyped, RowsChangeAt
  <1> QED
    BY <1>2, <1>3, <1>4 DEF MovesOnly, Same, RowsChangeAt

LEMMA MovesAlone ==
  ASSUME MailIInv, NEW w \in Workers, ~Mailing(w, "idle"), RowsChangeAt(handling[w]),
         UNCHANGED <<phase, attempts, retries, handling, abandoned>>,
         UNCHANGED faults \/ Fault,
         MailingTyped', \A v \in Workers : v # w => mailing'[v] = mailing[v],
         kind' = kind, mailbox' \in [Jobs -> 0..1],
         \A k \in Jobs : k # handling[w] => mailbox'[k] = mailbox[k]
  PROVE  MovesOnly(w) /\ Stays(w) /\ (Fault => Struck')
  <1>1. ConsumerInv /\ MailTyped /\ NobodyIsLeft
    BY DEF MailIInv
  <1>2. handling[w] \in Jobs
    BY UnderWay
  <1>3. NobodyIsLeft' /\ faults' \in Nat /\ (Struck => Struck') /\ (Fault => Struck')
    BY <1>1, StaysAt
  <1>4. MailTyped'
    BY <1>1, <1>3, TypedAgain DEF RowsChangeAt
  <1> QED
    BY <1>2, <1>3, <1>4 DEF MovesOnly, Same, Stays, RowsChangeAt

LEMMA ClaimDeliveryIs ==
  ASSUME MailIInv, NEW w \in Workers, claimDelivery(w)
  PROVE  MovesOnly(w) /\ (Takes(w) \/ Ends(w))
  <1>1. Mailing(w, "claim") /\ ~Mailing(w, "idle")
    BY DEF claimDelivery, Mailing
  <1>2. PICK j \in Jobs : j = handling[w]
    BY <1>1, UnderWay
  <1>3. /\ JobOK(j) /\ WorkerOK(w) /\ kind[j] = "workspace" /\ intent[j] = "none"
        /\ delivery[j] \in Statuses \ {"none"}
    BY <1>1, <1>2, UnderWay DEF claimDelivery, JobOK
  <1>4. MailTyped /\ kind' = kind /\ intent' = intent /\ mailbox' = mailbox
    BY DEF MailIInv, claimDelivery, outside
  <1>5. CASE /\ delivery[Job(w)] = "queued"
             /\ SetDelivery(w, "queued", "processing")
             /\ To(w, "send")
             /\ UNCHANGED jobVars
    <2>1. /\ RowsChangeAt(handling[w])
          /\ delivery[j] = "queued" /\ delivery'[j] = "processing"
      BY <1>2, <1>4, <1>5, SetDeliveryAt DEF Statuses, Job, RowsChangeAt, MailTyped
    <2>2. /\ MailingTyped' /\ mailing'[w].pc = "send"
          /\ \A v \in Workers : v # w => mailing'[v] = mailing[v]
      BY <1>4, <1>5, ToAt
    <2>3. MovesOnly(w) /\ Stays(w)
      BY <1>1, <1>4, <1>5, <2>1, <2>2, MovesAlone DEF jobVars, MailTyped
    <2> QED
      BY <1>1, <1>2, <1>3, <1>4, <2>1, <2>2, <2>3 DEF Takes, Mailing
  <1>6. ASSUME Rests(w), Returns(w) \/ Buries(w), delivery[j] # "queued",
               \/ SetDelivery(w, "processing", "reconciliation_required")
               \/ mailing[w].seen # "processing" /\ delivery' = delivery
        PROVE  MovesOnly(w) /\ Ends(w)
    <2>1. /\ RowsChangeAt(handling[w])
          /\ \/ mailing[w].seen # "processing" /\ delivery'[j] = delivery[j]
             \/ delivery[j] # "processing" /\ delivery'[j] = delivery[j]
             \/ delivery[j] = "processing" /\ delivery'[j] = "reconciliation_required"
      BY <1>2, <1>4, <1>6, SetDeliveryAt DEF Statuses, Settled, MailTyped, RowsChangeAt
    <2>2. /\ MovesOnly(w) /\ handling'[w] = NoJob /\ mailing'[w].pc = "idle"
          /\ ~Struck' => phase'[j] \in {"done", "dead"} /\ ~Struck
      BY <1>2, <1>4, <1>6, <2>1, EndsAlone DEF MovesOnly
    <2>3. /\ ~Unclaimed(j) /\ ~Unclaimed(j)'
          /\ Held(j) => Held(j)'
          /\ delivery'[j] \notin {"none", "queued"}
      BY <1>3, <1>4, <1>6, <2>1 DEF Unclaimed, DecidingRow, Held, Statuses, Settled
    <2>4. ~Struck => mailing[w].seen = delivery[j] /\ delivery[j] # "processing"
      BY <1>1, <1>2, <1>3 DEF WorkerOK, DecidingRow
    <2>5. ~Struck' => delivery'[j] \in Settled
      BY <1>3, <1>6, <2>1, <2>2, <2>4 DEF Statuses
    <2> QED
      BY <1>2, <1>3, <1>4, <2>1, <2>2, <2>3, <2>5 DEF Ends
  <1> QED
    BY <1>2, <1>5, <1>6 DEF claimDelivery, Job

LEMMA ClaimReadsIs ==
  ASSUME MailIInv, NEW w \in Workers, claimReads(w)
  PROVE  MovesOnly(w) /\ Reads(w)
  <1>1. Mailing(w, "claim") /\ ~Mailing(w, "idle")
    BY DEF claimReads, Mailing
  <1>2. PICK j \in Jobs : j = handling[w]
    BY <1>1, UnderWay
  <1>3. kind[j] = "invitation" /\ delivery[j] \in Statuses
    BY <1>1, <1>2, UnderWay DEF claimReads
  <1>4. MailTyped /\ UNCHANGED <<jobVars, kind, delivery, intent, mailbox>>
    BY DEF MailIInv, claimReads, outside, emailRows
  <1>5. PICK read \in {"inactive", delivery[j]} :
           mailing' = [mailing EXCEPT ![w] = [pc |-> "decide", seen |-> read]]
    BY <1>2 DEF claimReads, Job
  <1>6. /\ MailingTyped' /\ mailing'[w].pc = "decide" /\ mailing'[w].seen = read
        /\ \A v \in Workers : v # w => mailing'[v] = mailing[v]
    BY <1>3, <1>4, <1>5 DEF MailingTyped, MailTyped
  <1>7. MovesOnly(w) /\ Stays(w)
    BY <1>1, <1>4, <1>6, MovesAlone DEF RowsChangeAt, MailTyped, jobVars
  <1>8. \A v \in Workers : ~(Mailing(v, "decide") /\ handling[v] = handling[w])
    <2> SUFFICES ASSUME NEW v \in Workers, Mailing(v, "decide"), handling[v] = handling[w]
                 PROVE  FALSE
      OBVIOUS
    <2> QED
      BY <1>1 DEF claimReads, Job, Mailing
  <1> QED
    BY <1>1, <1>2, <1>3, <1>4, <1>6, <1>7, <1>8 DEF Reads, Same, jobVars

LEMMA ClaimWritesIs ==
  ASSUME MailIInv, NEW w \in Workers, claimWrites(w)
  PROVE  MovesOnly(w) /\ (Takes(w) \/ Ends(w))
  <1>1. Mailing(w, "decide") /\ ~Mailing(w, "idle")
    BY DEF claimWrites, Mailing
  <1>2. PICK j \in Jobs : j = handling[w]
    BY <1>1, UnderWay
  <1>3. /\ JobOK(j) /\ WorkerOK(w) /\ delivery[j] \in Statuses \ {"none"}
        /\ handling[w] # NoJob
    BY <1>1, <1>2, UnderWay, JobAssumption
  <1>4. /\ kind[j] = "invitation" /\ intent[j] = "none"
        /\ mailing[w].seen = "queued" => delivery[j] = "queued"
        /\ ~Struck => mailing[w].seen \in {"inactive", delivery[j]} /\ delivery[j] # "processing"
    BY <1>1, <1>2, <1>3 DEF WorkerOK, JobOK
  <1>5. MailTyped /\ kind' = kind /\ intent' = intent /\ mailbox' = mailbox
    BY DEF MailIInv, claimWrites, outside
  <1>6. CASE /\ mailing[w].seen = "queued" /\ SetDelivery(w, "queued", "processing")
             /\ To(w, "send") /\ UNCHANGED jobVars
    <2>1. /\ RowsChangeAt(handling[w])
          /\ delivery[j] = "queued" /\ delivery'[j] = "processing"
      BY <1>2, <1>4, <1>5, <1>6, SetDeliveryAt DEF Statuses, RowsChangeAt, MailTyped
    <2>2. /\ MailingTyped' /\ mailing'[w].pc = "send"
          /\ \A v \in Workers : v # w => mailing'[v] = mailing[v]
      BY <1>5, <1>6, ToAt
    <2>3. MovesOnly(w) /\ Stays(w)
      BY <1>1, <1>5, <1>6, <2>1, <2>2, MovesAlone DEF jobVars, MailTyped
    <2> QED
      BY <1>1, <1>2, <1>4, <1>5, <2>1, <2>2, <2>3 DEF Takes, Mailing
  <1>7. ASSUME Rests(w), Returns(w),
               \/ mailing[w].seen = "inactive" /\ SetDelivery(w, "queued", "failed")
               \/ /\ mailing[w].seen = "processing"
                  /\ delivery' = [delivery EXCEPT ![j] = "reconciliation_required"]
               \/ mailing[w].seen \in Settled /\ delivery' = delivery
        PROVE  MovesOnly(w) /\ Ends(w)
    <2>1. /\ RowsChangeAt(handling[w])
          /\ \/ delivery[j] = "queued" /\ delivery'[j] = "failed"
             \/ delivery[j] # "queued" /\ delivery'[j] = delivery[j]
             \/ delivery'[j] = "reconciliation_required"
             \/ mailing[w].seen \in Settled /\ delivery'[j] = delivery[j]
      BY <1>2, <1>5, <1>7, SetDeliveryAt DEF Statuses, Settled, MailTyped, RowsChangeAt
    <2>2. /\ MovesOnly(w) /\ handling'[w] = NoJob /\ mailing'[w].pc = "idle"
          /\ ~Struck' => phase'[j] \in {"done", "dead"} /\ ~Struck
      BY <1>2, <1>5, <1>7, <2>1, EndsAlone DEF MovesOnly
    <2>3. /\ ~Unclaimed(j) => ~Unclaimed(j)'
          /\ Held(j) => Held(j)'
          /\ delivery'[j] \notin {"none"}
          /\ delivery'[j] = "failed" => delivery[j] = "failed" \/ Unclaimed(j)
      BY <1>3, <1>4, <1>5, <2>1 DEF Unclaimed, DecidingRow, Held, Statuses, Settled
    <2>4. ~Struck' => delivery'[j] \in Settled
      BY <1>3, <1>4, <2>1, <2>2 DEF Statuses, Settled
    <2> QED
      BY <1>1, <1>2, <1>4, <1>5, <2>1, <2>2, <2>3, <2>4 DEF Ends
  <1> QED
    BY <1>2, <1>6, <1>7 DEF claimWrites, Job

\* The statements by which an authentication attempt settles its two rows.
LEMMA SettlesIntent ==
  ASSUME MailIInv, NEW w \in Workers, ~Mailing(w, "idle"), NEW j \in Jobs, j = handling[w],
         NEW from \in {"pending", "processing"},
         NEW to \in {"sent", "failed", "expired"}, NEW settled \in Settled \ {"suppressed"},
         SetIntent(w, from, to), SetDelivery(w, "queued", settled),
         Rests(w), Returns(w) \/ Buries(w),
         kind[j] = "auth", UNCHANGED <<outside, mailbox>>,
         settled = "sent" => Mailing(w, "sent"),
         ~Struck => intent[j] \notin {"pending", "processing"} \ {from},
         from = "processing" => to = "failed" \/ Sending(w)
  PROVE  MovesOnly(w) /\ Ends(w)
  <1>1. /\ JobOK(j) /\ delivery[j] \in Statuses \ {"none"} /\ intent[j] \in Stages \ {"none"}
    BY UnderWay DEF JobOK
  <1>2. MailTyped /\ kind' = kind /\ mailbox' = mailbox
    BY DEF MailIInv, outside
  <1>3. /\ RowsChangeAt(handling[w])
        /\ intent'[j] = IF intent[j] = from THEN to ELSE intent[j]
        /\ delivery'[j] = IF delivery[j] = "queued" THEN settled ELSE delivery[j]
    BY <1>2, SetDeliveryAt, SetIntentAt DEF RowsChangeAt, Statuses, Stages, Settled
  <1>4. /\ MovesOnly(w) /\ handling'[w] = NoJob /\ mailing'[w].pc = "idle"
        /\ ~Struck' => phase'[j] \in {"done", "dead"} /\ ~Struck
    BY <1>2, <1>3, EndsAlone DEF MovesOnly
  <1>5. /\ delivery'[j] \notin {"none", "processing", "suppressed"} /\ intent'[j] # "none"
        /\ delivery'[j] = "sent" => delivery[j] = "sent" \/ Mailing(w, "sent")
    BY <1>1, <1>3 DEF JobOK, Settled
  <1>6. /\ ~Unclaimed(j) => ~Unclaimed(j)'
        /\ Held(j) => Held(j)' \/ Sending(w)
    BY <1>2, <1>3 DEF Unclaimed, DecidingRow, Held
  <1>7. ~Struck' => delivery'[j] \in Settled /\ intent'[j] \notin {"pending", "processing"}
    BY <1>1, <1>3, <1>4, <1>5 DEF Statuses
  <1> QED
    BY <1>1, <1>2, <1>4, <1>5, <1>6, <1>7 DEF Ends

LEMMA ClaimIntentIs ==
  ASSUME MailIInv, NEW w \in Workers, claimIntent(w)
  PROVE  MovesOnly(w) /\ (Takes(w) \/ Ends(w))
  <1>1. Mailing(w, "claim") /\ ~Mailing(w, "idle")
    BY DEF claimIntent, Mailing
  <1>2. PICK j \in Jobs : j = handling[w]
    BY <1>1, UnderWay
  <1>3. /\ JobOK(j) /\ WorkerOK(w) /\ delivery[j] \in Statuses \ {"none"}
        /\ kind[j] = "auth" /\ intent[j] \in Stages \ {"none"} /\ handling[w] # NoJob
    BY <1>1, <1>2, UnderWay, JobAssumption DEF claimIntent, JobOK
  <1>4. ~Struck => mailing[w].seen = intent[j] /\ intent[j] # "processing"
    BY <1>1, <1>2, <1>3 DEF WorkerOK, DecidingRow
  <1>5. MailTyped /\ kind' = kind /\ mailbox' = mailbox /\ UNCHANGED <<outside, mailbox>>
    BY DEF MailIInv, claimIntent, outside
  <1>6. CASE /\ SetIntent(w, "processing", "failed")
             /\ SetDelivery(w, "queued", "reconciliation_required")
             /\ Buries(w) /\ Rests(w) /\ mailing[w].seen = "processing"
    <2>1. "reconciliation_required" \in Settled \ {"suppressed"} /\ Struck
      BY <1>4, <1>6 DEF Settled
    <2> QED
      BY <1>1, <1>2, <1>3, <1>5, <1>6, <2>1, SettlesIntent
  <1>7. CASE /\ SetIntent(w, "pending", "expired") /\ SetDelivery(w, "queued", "failed")
             /\ Returns(w) /\ Rests(w)
    <2>1. "failed" \in Settled \ {"suppressed"}
      BY DEF Settled
    <2> QED
      BY <1>1, <1>2, <1>3, <1>4, <1>5, <1>7, <2>1, SettlesIntent
  <1>8. CASE /\ intent[Job(w)] = "pending" /\ SetIntent(w, "pending", "processing")
             /\ To(w, "send") /\ UNCHANGED <<jobVars, delivery>>
    <2>1. /\ RowsChangeAt(handling[w]) /\ intent[j] = "pending"
          /\ intent'[j] = "processing" /\ delivery'[j] = delivery[j]
      BY <1>2, <1>5, <1>8, SetIntentAt DEF Stages, Job, RowsChangeAt, MailTyped
    <2>2. /\ MailingTyped' /\ mailing'[w].pc = "send"
          /\ \A v \in Workers : v # w => mailing'[v] = mailing[v]
      BY <1>5, <1>8, ToAt
    <2>3. MovesOnly(w) /\ Stays(w)
      BY <1>1, <1>5, <1>8, <2>1, <2>2, MovesAlone DEF jobVars, MailTyped
    <2> QED
      BY <1>1, <1>2, <1>3, <1>5, <2>1, <2>2, <2>3 DEF Takes, Mailing
  <1>9. ASSUME Returns(w), Rests(w), UNCHANGED emailRows,
               \/ mailing[w].seen \notin {"pending", "processing"}
               \/ mailing[w].seen = "pending" /\ intent[j] # "pending"
        PROVE  MovesOnly(w) /\ Ends(w)
    <2>1. RowsChangeAt(handling[w]) /\ delivery'[j] = delivery[j] /\ intent'[j] = intent[j]
      BY <1>5, <1>9 DEF emailRows, RowsChangeAt, MailTyped
    <2>2. /\ MovesOnly(w) /\ handling'[w] = NoJob /\ mailing'[w].pc = "idle"
          /\ ~Struck' => phase'[j] \in {"done", "dead"} /\ ~Struck
      BY <1>2, <1>5, <1>9, <2>1, EndsAlone DEF MovesOnly
    <2>3. ~Struck' => intent[j] \notin {"pending", "processing"}
      BY <1>4, <1>9, <2>2
    <2>4. ~Struck' => delivery[j] \in Settled
      BY <1>3, <2>2, <2>3 DEF JobOK, Statuses
    <2>5. Unclaimed(j)' = Unclaimed(j) /\ Held(j)' = Held(j)
      BY <1>5, <2>1 DEF Unclaimed, DecidingRow, Held
    <2> QED
      BY <1>2, <1>3, <1>5, <2>1, <2>2, <2>3, <2>4, <2>5 DEF Ends, JobOK
  <1> QED
    BY <1>2, <1>6, <1>7, <1>8, <1>9 DEF claimIntent, Job

LEMMA SendEmailIs ==
  ASSUME MailIInv, NEW w \in Workers, sendEmail(w)
  PROVE  MovesOnly(w) /\ Posts(w)
  <1>1. Mailing(w, "send") /\ ~Mailing(w, "idle")
    BY DEF sendEmail, Mailing
  <1>2. PICK j \in Jobs : j = handling[w]
    BY <1>1, UnderWay
  <1>3. mailbox[j] = 0
    BY <1>1, <1>2, UnderWay, JobAssumption DEF WorkerOK, Sending, Mailing
  <1>4. MailTyped /\ UNCHANGED <<jobVars, kind, delivery, intent>>
    BY DEF MailIInv, sendEmail, outside, emailRows
  <1>5. PICK pc \in {"sent", "ambiguous"} :
           /\ To(w, pc)
           /\ \/ mailbox' = [mailbox EXCEPT ![j] = @ + 1]
              \/ mailbox' = mailbox /\ pc = "ambiguous"
    BY <1>2 DEF sendEmail, Job
  <1>6. /\ MailingTyped' /\ mailing'[w].pc = pc
        /\ \A v \in Workers : v # w => mailing'[v] = mailing[v]
    BY <1>4, <1>5, ToAt
  <1>7. /\ mailbox' \in [Jobs -> 0..1]
        /\ \A k \in Jobs : k # handling[w] => mailbox'[k] = mailbox[k]
        /\ \/ mailbox'[j] = mailbox[j] + 1
           \/ mailbox'[j] = mailbox[j] /\ pc = "ambiguous"
    BY <1>2, <1>3, <1>4, <1>5 DEF MailTyped
  <1>8. MovesOnly(w) /\ Stays(w)
    BY <1>1, <1>4, <1>6, <1>7, MovesAlone DEF RowsChangeAt, MailTyped, jobVars
  <1> QED
    BY <1>1, <1>2, <1>4, <1>6, <1>7, <1>8 DEF Posts

LEMMA RecordIs ==
  ASSUME MailIInv, NEW w \in Workers, recordSent(w) \/ recordAmbiguous(w)
  PROVE  MovesOnly(w) /\ Ends(w)
  <1>1. ~Mailing(w, "idle") /\ Sending(w) /\ (recordSent(w) => Mailing(w, "sent"))
    BY DEF recordSent, recordAmbiguous, Mailing, Sending
  <1>2. PICK j \in Jobs : j = handling[w]
    BY <1>1, UnderWay
  <1>3. /\ JobOK(j) /\ WorkerOK(w) /\ delivery[j] \in Statuses \ {"none"} /\ handling[w] # NoJob
        /\ IsKind(w, "auth") <=> kind[j] = "auth"
    BY <1>1, <1>2, UnderWay, JobAssumption
  <1>4. Held(j) /\ (kind[j] # "auth" => ~Unclaimed(j)) /\ (~Struck => DecidingRow(j) = "processing")
    BY <1>1, <1>2, <1>3 DEF WorkerOK, Held, Unclaimed, DecidingRow
  <1>5. MailTyped /\ kind' = kind /\ mailbox' = mailbox /\ UNCHANGED <<outside, mailbox>>
    BY DEF MailIInv, recordSent, recordAmbiguous, outside
  <1>6. Rests(w) /\ (Returns(w) \/ Buries(w))
    BY DEF recordSent, recordAmbiguous
  <1>7. PICK to \in {"sent", "reconciliation_required"} :
           /\ to = "sent" => Mailing(w, "sent")
           /\ IF IsKind(w, "auth")
              THEN /\ SetDelivery(w, "queued", to)
                   /\ SetIntent(w, "processing", IF to = "sent" THEN "sent" ELSE "failed")
              ELSE SetDelivery(w, "processing", to) /\ UNCHANGED intent
    <2>1. CASE recordSent(w)
      BY <1>1, <2>1 DEF recordSent
    <2>2. CASE recordAmbiguous(w)
      BY <2>2 DEF recordAmbiguous
    <2> QED
      BY <2>1, <2>2
  <1>8. CASE kind[j] = "auth"
    <2>1. intent[j] \notin {"pending", "processing"} \ {"processing"}
      BY <1>4, <1>8 DEF Held, DecidingRow
    <2>2. to \in Settled \ {"suppressed"}
          /\ (IF to = "sent" THEN "sent" ELSE "failed") \in {"sent", "failed", "expired"}
      BY DEF Settled
    <2> QED
      BY <1>1, <1>2, <1>3, <1>5, <1>6, <1>7, <1>8, <2>1, <2>2, SettlesIntent
  <1>9. CASE kind[j] # "auth"
    <2>1. /\ RowsChangeAt(handling[w]) /\ intent'[j] = intent[j]
          /\ delivery'[j] = IF delivery[j] = "processing" THEN to ELSE delivery[j]
      BY <1>2, <1>3, <1>5, <1>7, <1>9, SetDeliveryAt
         DEF RowsChangeAt, Statuses, Settled, MailTyped
    <2>2. /\ MovesOnly(w) /\ handling'[w] = NoJob /\ mailing'[w].pc = "idle"
          /\ ~Struck' => phase'[j] \in {"done", "dead"} /\ ~Struck
      BY <1>2, <1>5, <1>6, <2>1, EndsAlone DEF MovesOnly
    <2>3. /\ delivery[j] \in {"processing", "reconciliation_required"} /\ intent[j] = "none"
          /\ ~Struck => delivery[j] = "processing"
      BY <1>3, <1>4, <1>9 DEF Held, DecidingRow, JobOK
    <2>4. ~Unclaimed(j)'
      BY <1>5, <1>9, <2>1, <2>3 DEF Unclaimed, DecidingRow
    <2> QED
      BY <1>1, <1>2, <1>5, <1>7, <1>9, <2>1, <2>2, <2>3, <2>4 DEF Ends, Settled
  <1> QED
    BY <1>8, <1>9

LEMMA EmailFailsIs ==
  ASSUME MailIInv, NEW w \in Workers, emailFails(w)
  PROVE  MovesOnly(w) /\ (Doubts(w) \/ Ends(w))
  <1>1. ~Mailing(w, "idle")
    BY DEF emailFails
  <1>2. PICK j \in Jobs : j = handling[w]
    BY <1>1, UnderWay
  <1>3. JobOK(j) /\ delivery[j] # "none" /\ (IsKind(w, "auth") <=> kind[j] = "auth")
    BY <1>1, <1>2, UnderWay
  <1>4. /\ MailTyped /\ kind' = kind /\ mailbox' = mailbox
        /\ delivery' = delivery /\ intent' = intent /\ RowsChangeAt(handling[w])
    BY DEF MailIInv, emailFails, outside, emailRows, RowsChangeAt, MailTyped
  <1>5. CASE (Fails(w) \/ Dies(w)) /\ Rests(w)
    <2>1. /\ MovesOnly(w) /\ handling'[w] = NoJob /\ mailing'[w].pc = "idle" /\ Struck'
      BY <1>4, <1>5, EndsAlone
    <2>2. Unclaimed(j)' = Unclaimed(j) /\ Held(j)' = Held(j)
      BY <1>4 DEF Unclaimed, DecidingRow, Held
    <2> QED
      BY <1>2, <1>3, <1>4, <2>1, <2>2 DEF Ends, JobOK
  <1>6. CASE /\ IsKind(w, "auth") /\ Mailing(w, "sent") /\ Fault /\ To(w, "ambiguous")
             /\ UNCHANGED <<phase, attempts, retries, handling, abandoned>>
    <2>1. /\ MailingTyped' /\ mailing'[w].pc = "ambiguous"
          /\ \A v \in Workers : v # w => mailing'[v] = mailing[v]
      BY <1>4, <1>6, ToAt
    <2>2. MovesOnly(w) /\ Stays(w) /\ Struck'
      BY <1>1, <1>4, <1>6, <2>1, MovesAlone DEF MailTyped
    <2> QED
      BY <1>4, <1>6, <2>1, <2>2 DEF Doubts, Same
  <1> QED
    BY <1>5, <1>6 DEF emailFails

----------------------------------------------------------------------------
(* Mails: the invariant is kept.                                           *)

LEMMA JobRests ==
  ASSUME NEW j \in Jobs, JobOK(j), Same(j), kind' = kind, Struck => Struck'
  PROVE  JobOK(j)'
  BY DEF JobOK, Same, Unclaimed, DecidingRow

\* An attempt whose delivery nobody touched.
SameRows(j) == /\ mailbox'[j] = mailbox[j]
               /\ delivery'[j] = delivery[j] /\ intent'[j] = intent[j]

LEMMA WorkerRests ==
  ASSUME ConsumerTypeOK, NEW v \in Workers, WorkerOK(v), mailing'[v] = mailing[v],
         handling'[v] = handling[v], handling[v] \in Jobs => SameRows(handling[v]),
         kind' = kind, Struck => Struck'
  PROVE  WorkerOK(v)'
  <1>1. CASE handling[v] = NoJob
    BY <1>1 DEF WorkerOK, Mailing
  <1>2. CASE handling[v] # NoJob
    <2>1. PICK j \in Jobs : j = handling[v]
      BY <1>2 DEF ConsumerTypeOK
    <2>2. SameRows(j) /\ handling'[v] = j
      BY <2>1
    <2> QED
      BY <1>2, <2>1, <2>2 DEF WorkerOK, Mailing, Sending, DecidingRow, SameRows
  <1> QED
    BY <1>1, <1>2

\* Without a fault, a delivery has one attempt at a time.
LEMMA AloneWithoutFault ==
  ASSUME MailIInv, ~Struck, NEW v \in Workers, NEW w \in Workers,
         handling[v] = handling[w], handling[w] # NoJob
  PROVE  v = w
  BY DEF MailIInv, NobodyIsLeft, ConsumerInv, OneAttends, Attended

\* What the other attempts at the same delivery need of a step.
Spares(w) ==
    \E j \in {handling[w]} :
       /\ delivery'[j] # "none"
       /\ delivery[j] = "queued" /\ kind[j] = "invitation" =>
             \/ delivery'[j] = "queued"
             \/ \A v \in Workers : Mailing(v, "decide") /\ handling[v] = j => v = w
       /\ \/ \A v \in Workers : Sending(v) /\ handling[v] = j => v = w
          \/ (Held(j) => Held(j)') /\ mailbox'[j] = mailbox[j]

LEMMA OthersRest ==
  ASSUME MailIInv, NEW w \in Workers, MovesOnly(w), Spares(w)
  PROVE  /\ \A k \in Jobs : k # handling[w] => JobOK(k)'
         /\ \A v \in Workers : v # w => WorkerOK(v)'
  <1>1. ConsumerTypeOK /\ WorkersOK /\ JobsOK
    BY DEF MailIInv, ConsumerInv
  <1>2. ASSUME NEW k \in Jobs, k # handling[w]
        PROVE  JobOK(k)'
    BY <1>1, <1>2, JobRests DEF MovesOnly, JobsOK
  <1>3. ASSUME NEW v \in Workers, v # w, handling[v] # handling[w]
        PROVE  WorkerOK(v)'
    BY <1>1, <1>3, WorkerRests DEF MovesOnly, WorkersOK, Same, SameRows
  <1>4. ASSUME NEW v \in Workers, v # w, handling[v] = handling[w]
        PROVE  WorkerOK(v)'
    <2>1. PICK j \in Jobs : j = handling[w] /\ j # NoJob
      BY JobAssumption DEF MovesOnly
    <2>2. Struck /\ Struck'
      BY <1>4, <2>1, AloneWithoutFault DEF MovesOnly
    <2>3. mailing'[v] = mailing[v] /\ handling'[v] = j /\ handling[v] = j /\ kind' = kind
      BY <1>4, <2>1 DEF MovesOnly
    <2>4. WorkerOK(v)
      BY <1>1 DEF WorkersOK
    <2>5. ~Mailing(v, "idle")' /\ delivery'[j] # "none"
      BY <2>1, <2>3, <2>4 DEF WorkerOK, Mailing, Spares
    <2>6. ASSUME Mailing(v, "decide")'
          PROVE  /\ kind'[j] = "invitation"
                 /\ mailing'[v].seen = "queued" => delivery'[j] = "queued"
      <3>1. /\ Mailing(v, "decide") /\ kind[j] = "invitation"
            /\ mailing[v].seen = "queued" => delivery[j] = "queued"
        BY <2>1, <2>3, <2>4, <2>6 DEF WorkerOK, Mailing
      <3> QED
        BY <1>4, <2>1, <2>3, <3>1 DEF Spares
    <2>7. ASSUME Sending(v)'
          PROVE  /\ Held(j)'
                 /\ Mailing(v, "send")' => mailbox'[j] = 0
                 /\ Mailing(v, "sent")' => mailbox'[j] = 1
      <3>1. /\ Sending(v) /\ Held(j)
            /\ Mailing(v, "send") => mailbox[j] = 0
            /\ Mailing(v, "sent") => mailbox[j] = 1
        BY <2>1, <2>3, <2>4, <2>7 DEF WorkerOK, Sending, Mailing, Held
      <3> QED
        BY <1>4, <2>1, <2>3, <3>1 DEF Spares, Mailing
    <2> QED
      BY <2>1, <2>2, <2>3, <2>5, <2>6, <2>7 DEF WorkerOK, Held
  <1> QED
    BY <1>2, <1>3, <1>4

\* Nobody else sends, or decides, for the delivery of an attempt.
OnlySender(w) == \A v \in Workers : Sending(v) /\ handling[v] = handling[w] => v = w
OnlyDecider(w) == \A v \in Workers : Mailing(v, "decide") /\ handling[v] = handling[w] => v = w

LEMMA MovesOnlyKeeps ==
  ASSUME MailIInv, ConsumerInv', NEW w \in Workers, MovesOnly(w), Spares(w),
         NEW j \in Jobs, j = handling[w], JobOK(j)', WorkerOK(w)',
         \/ handling'[w] = NoJob
         \/ /\ handling'[w] = j
            /\ Sending(w)' => OnlySender(w)
            /\ Mailing(w, "decide")' => OnlyDecider(w)
  PROVE  MailIInv'
  <1>1. JobsOK'
    BY OthersRest DEF JobsOK
  <1>2. WorkersOK'
    BY OthersRest DEF WorkersOK
  <1>3. (~Sending(w)' /\ ~Mailing(w, "decide")') \/ handling'[w] = j
    BY DEF WorkerOK, Sending, Mailing
  <1>4. OneSends'
    <2> SUFFICES ASSUME NEW u \in Workers, NEW v \in Workers, Sending(u)', Sending(v)',
                        handling'[u] = handling'[v]
                 PROVE  u = v
      BY DEF OneSends
    <2>1. /\ u # w => Sending(u) /\ handling'[u] = handling[u]
          /\ v # w => Sending(v) /\ handling'[v] = handling[v]
      BY DEF MovesOnly, Sending
    <2>2. CASE u # w /\ v # w
      BY <2>1, <2>2 DEF MailIInv, OneSends
    <2>3. CASE u = w \/ v = w
      <3>1. handling'[w] = j /\ OnlySender(w)
        BY <1>3, <2>3, JobAssumption
      <3> QED
        BY <2>1, <2>3, <3>1 DEF OnlySender
    <2> QED
      BY <2>2, <2>3
  <1>5. OneDecides'
    <2> SUFFICES ASSUME NEW u \in Workers, NEW v \in Workers,
                        Mailing(u, "decide")', Mailing(v, "decide")',
                        handling'[u] = handling'[v]
                 PROVE  u = v
      BY DEF OneDecides
    <2>1. /\ u # w => Mailing(u, "decide") /\ handling'[u] = handling[u]
          /\ v # w => Mailing(v, "decide") /\ handling'[v] = handling[v]
      BY DEF MovesOnly, Mailing
    <2>2. CASE u # w /\ v # w
      BY <2>1, <2>2 DEF MailIInv, OneDecides
    <2>3. CASE u = w \/ v = w
      <3>1. handling'[w] = j /\ OnlyDecider(w)
        BY <1>3, <2>3, JobAssumption
      <3> QED
        BY <2>1, <2>3, <3>1 DEF OnlyDecider
    <2> QED
      BY <2>2, <2>3
  <1> QED
    BY <1>1, <1>2, <1>4, <1>5 DEF MailIInv, MovesOnly

\* Whoever sends has a claimed delivery, and is the only one to send it.
LEMMA SendersHold ==
  ASSUME MailIInv, NEW v \in Workers, Sending(v)
  PROVE  Held(handling[v]) /\ OnlySender(v)
  <1>1. ~Mailing(v, "idle")
    BY DEF Sending, Mailing
  <1>2. WorkerOK(v) /\ handling[v] # NoJob
    BY <1>1, UnderWay, JobAssumption
  <1> QED
    BY <1>2 DEF MailIInv, OneSends, OnlySender, WorkerOK, Held

LEMMA TakesKeeps ==
  ASSUME MailIInv, ConsumerInv', NEW w \in Workers, MovesOnly(w), Takes(w)
  PROVE  MailIInv'
  <1>1. PICK j \in Jobs : j = handling[w]
    BY DEF MovesOnly
  <1>2. /\ JobOK(j) /\ kind' = kind /\ MailTyped /\ delivery[j] # "none" /\ j # NoJob
        /\ ~Mailing(w, "idle")
    BY <1>1, UnderWay, JobAssumption DEF MailIInv, MovesOnly, Takes, Mailing
  <1>3. /\ Stays(w) /\ handling'[w] = j /\ phase'[j] = phase[j] /\ Mailing(w, "send")'
        /\ mailbox'[j] = mailbox[j] /\ (Struck => Struck')
    BY <1>1 DEF Takes, Stays, MovesOnly, Mailing
  <1>4. Unclaimed(j) /\ ~Held(j)
    BY <1>1, <1>2 DEF Takes, Unclaimed, Held, DecidingRow
  <1>5. mailbox[j] = 0
    BY <1>2, <1>4 DEF JobOK
  <1>6. OnlySender(w)
    <2> SUFFICES ASSUME NEW v \in Workers, Sending(v), handling[v] = j PROVE FALSE
      BY <1>1 DEF OnlySender
    <2> QED
      BY <1>4, SendersHold
  <1>7. /\ DecidingRow(j)' = "processing" /\ delivery'[j] # "none"
        /\ \/ kind[j] = "auth" /\ delivery'[j] = delivery[j] /\ intent'[j] = "processing"
              /\ intent[j] = "pending"
           \/ kind[j] # "auth" /\ delivery'[j] = "processing" /\ intent'[j] = intent[j]
    BY <1>1, <1>2 DEF Takes, DecidingRow
  <1>8. phase[j] = "executing" \/ Struck
    BY <1>1, <1>2 DEF MailIInv, NobodyIsLeft, ConsumerInv, AttendedExecutes, Attended
  <1>9. JobOK(j)'
    BY <1>2, <1>3, <1>5, <1>7, <1>8 DEF JobOK, Unclaimed
  <1>10. WorkerOK(w)'
    BY <1>2, <1>3, <1>5, <1>7 DEF WorkerOK, Mailing, Sending
  <1>11. Spares(w)
    <2>1. \A v \in Workers : Sending(v) /\ handling[v] = j => v = w
      BY <1>1, <1>6 DEF OnlySender
    <2>2. kind[j] = "invitation" =>
             \A v \in Workers : Mailing(v, "decide") /\ handling[v] = j => v = w
      BY <1>1 DEF Takes, MailIInv, OneDecides
    <2> QED
      BY <1>1, <1>7, <2>1, <2>2 DEF Spares
  <1> QED
    BY <1>1, <1>3, <1>6, <1>9, <1>10, <1>11, MovesOnlyKeeps DEF Mailing

LEMMA ReadsKeeps ==
  ASSUME MailIInv, ConsumerInv', NEW w \in Workers, MovesOnly(w), Reads(w)
  PROVE  MailIInv'
  <1>1. PICK j \in Jobs : j = handling[w]
    BY DEF MovesOnly
  <1>2. /\ JobOK(j) /\ WorkerOK(w) /\ delivery[j] # "none" /\ j # NoJob
        /\ kind' = kind /\ (Struck => Struck') /\ Mailing(w, "claim")
    BY <1>1, UnderWay, JobAssumption DEF MovesOnly, Reads, Mailing
  <1>3. Same(j) /\ handling'[w] = j /\ mailing'[w].pc = "decide" /\ kind[j] = "invitation"
        /\ mailing'[w].seen \in {"inactive", delivery[j]}
    BY <1>1 DEF Reads, Stays
  <1>4. JobOK(j)'
    BY <1>2, <1>3, JobRests
  <1>5. ~Struck => delivery[j] # "processing"
    BY <1>1, <1>2, <1>3 DEF WorkerOK, DecidingRow
  <1>6. WorkerOK(w)'
    BY <1>2, <1>3, <1>5 DEF WorkerOK, Mailing, Sending, Same
  <1>7. Spares(w)
    BY <1>1, <1>2, <1>3 DEF Spares, Same, Held, DecidingRow
  <1>8. OnlyDecider(w) /\ ~Sending(w)'
    BY <1>3 DEF Reads, OnlyDecider, Sending
  <1> QED
    BY <1>1, <1>3, <1>4, <1>6, <1>7, <1>8, MovesOnlyKeeps

LEMMA PostsKeeps ==
  ASSUME MailIInv, ConsumerInv', NEW w \in Workers, MovesOnly(w), Posts(w)
  PROVE  MailIInv'
  <1>1. PICK j \in Jobs : j = handling[w]
    BY DEF MovesOnly
  <1>2. /\ JobOK(j) /\ WorkerOK(w) /\ delivery[j] # "none" /\ j # NoJob
        /\ kind' = kind /\ (Struck => Struck') /\ Mailing(w, "send") /\ Sending(w)
    BY <1>1, UnderWay, JobAssumption DEF MovesOnly, Posts, Mailing, Sending
  <1>3. /\ handling'[w] = j /\ phase'[j] = phase[j]
        /\ delivery' = delivery /\ intent' = intent
        /\ mailing'[w].pc = "sent" => mailbox'[j] = 1
        /\ mailing'[w].pc \in {"sent", "ambiguous"}
    BY <1>1, <1>2 DEF Posts, Stays, WorkerOK
  <1>4. Held(j) /\ OnlySender(w) /\ (~Struck => DecidingRow(j) = "processing")
    BY <1>1, <1>2, SendersHold DEF WorkerOK
  <1>5. mailbox[j] = 0 /\ ~Unclaimed(j) /\ delivery[j] \notin {"sent", "suppressed"}
        /\ (kind[j] # "auth" => delivery[j] # "failed")
    BY <1>1, <1>2, <1>4 DEF WorkerOK, JobOK, Held, DecidingRow, Unclaimed
  <1>6. JobOK(j)'
    BY <1>2, <1>3, <1>5 DEF JobOK, Unclaimed, DecidingRow
  <1>7. WorkerOK(w)'
    BY <1>2, <1>3, <1>4 DEF WorkerOK, Mailing, Sending, DecidingRow, Held
  <1>8. Spares(w)
    BY <1>1, <1>2, <1>3, <1>4 DEF Spares, OnlySender
  <1>9. ~Mailing(w, "decide")'
    BY <1>3 DEF Mailing
  <1> QED
    BY <1>1, <1>3, <1>4, <1>6, <1>7, <1>8, <1>9, MovesOnlyKeeps

LEMMA DoubtsKeeps ==
  ASSUME MailIInv, ConsumerInv', NEW w \in Workers, MovesOnly(w), Doubts(w)
  PROVE  MailIInv'
  <1>1. PICK j \in Jobs : j = handling[w]
    BY DEF MovesOnly
  <1>2. /\ JobOK(j) /\ WorkerOK(w) /\ delivery[j] # "none" /\ j # NoJob
        /\ kind' = kind /\ Struck' /\ Sending(w)
    BY <1>1, UnderWay, JobAssumption DEF MovesOnly, Doubts, Mailing, Sending
  <1>3. Same(j) /\ handling'[w] = j /\ mailing'[w].pc = "ambiguous"
    BY <1>1 DEF Doubts, Stays
  <1>4. Held(j) /\ OnlySender(w)
    BY <1>1, <1>2, SendersHold
  <1>5. JobOK(j)' /\ Held(j)'
    BY <1>2, <1>3, <1>4, JobRests DEF Held, DecidingRow, Same
  <1>6. WorkerOK(w)'
    BY <1>2, <1>3, <1>5 DEF WorkerOK, Mailing, Sending, Same, Held
  <1>7. Spares(w) /\ ~Mailing(w, "decide")'
    BY <1>1, <1>2, <1>3, <1>4 DEF Spares, Same, OnlySender, Mailing
  <1> QED
    BY <1>1, <1>3, <1>4, <1>5, <1>6, <1>7, MovesOnlyKeeps

LEMMA EndsKeeps ==
  ASSUME MailIInv, ConsumerInv', NEW w \in Workers, MovesOnly(w), Ends(w), ~Mailing(w, "idle")
  PROVE  MailIInv'
  <1>1. PICK j \in Jobs : j = handling[w]
    BY DEF MovesOnly
  <1>2. JobOK(j) /\ kind' = kind /\ (Struck => Struck') /\ delivery[j] # "none"
    BY <1>1, UnderWay DEF MovesOnly
  <1>3. /\ mailbox'[j] = mailbox[j]
        /\ delivery'[j] # "none" /\ (intent'[j] = "none" <=> intent[j] = "none")
        /\ kind[j] = "auth" => delivery'[j] \notin {"processing", "suppressed"}
        /\ ~Unclaimed(j) => ~Unclaimed(j)'
        /\ delivery'[j] = "sent" => delivery[j] = "sent" \/ Mailing(w, "sent")
        /\ delivery'[j] = "suppressed" => delivery[j] = "suppressed"
        /\ delivery'[j] = "failed" /\ kind[j] # "auth" => delivery[j] = "failed" \/ Unclaimed(j)
        /\ Held(j) => Held(j)' \/ Sending(w)
        /\ delivery[j] = "queued" /\ kind[j] = "invitation" =>
              delivery'[j] = "queued" \/ Mailing(w, "decide")
        /\ ~Struck' =>
              /\ phase'[j] \in {"done", "dead"} /\ delivery'[j] \in Settled
              /\ intent'[j] \notin {"pending", "processing"}
    BY <1>1 DEF Ends
  <1>4. Mailing(w, "sent") => mailbox[j] = 1
    BY <1>1, UnderWay, JobAssumption DEF WorkerOK, Sending, Mailing
  <1>5. JobOK(j)'
    BY <1>2, <1>3, <1>4 DEF JobOK, Settled, Unclaimed
  <1>6. handling'[w] = NoJob /\ WorkerOK(w)'
    BY DEF Ends, WorkerOK, Mailing
  <1>7. Spares(w)
    <2>1. Mailing(w, "decide") => \A v \in Workers : Mailing(v, "decide") /\ handling[v] = j => v = w
      BY <1>1 DEF MailIInv, OneDecides
    <2>2. Sending(w) => \A v \in Workers : Sending(v) /\ handling[v] = j => v = w
      BY <1>1, SendersHold DEF OnlySender
    <2> QED
      BY <1>1, <1>3, <2>1, <2>2 DEF Spares
  <1> QED
    BY <1>1, <1>5, <1>6, <1>7, MovesOnlyKeeps

LEMMA AttemptKeeps ==
  ASSUME MailIInv, ConsumerInv', NEW w \in Workers, emailAttempt(w) \/ emailFails(w)
  PROVE  MailIInv'
  <1>1. ~Mailing(w, "idle")
    BY DEF emailAttempt, claimDelivery, claimReads, claimWrites, claimIntent, sendEmail,
           recordSent, recordAmbiguous, emailFails, Mailing
  <1>2. MovesOnly(w) /\ (Takes(w) \/ Reads(w) \/ Posts(w) \/ Doubts(w) \/ Ends(w))
    BY ClaimDeliveryIs, ClaimReadsIs, ClaimWritesIs, ClaimIntentIs, SendEmailIs, RecordIs,
       EmailFailsIs DEF emailAttempt
  <1> QED
    BY <1>1, <1>2, TakesKeeps, ReadsKeeps, PostsKeeps, DoubtsKeeps, EndsKeeps

\* A step that leaves every attempt where it is.
LEMMA AttemptsRest ==
  ASSUME MailIInv, handling' = handling, mailing' = mailing, kind' = kind, Struck => Struck',
         \A w \in Workers : handling[w] \in Jobs => SameRows(handling[w])
  PROVE  WorkersOK' /\ OneSends' /\ OneDecides'
  <1>1. WorkersOK'
    BY WorkerRests DEF MailIInv, ConsumerInv, WorkersOK
  <1>2. OneSends'
    BY DEF MailIInv, OneSends, Sending
  <1>3. OneDecides'
    BY DEF MailIInv, OneDecides, Mailing
  <1> QED
    BY <1>1, <1>2, <1>3

LEMMA MailQueueKeeps ==
  ASSUME MailIInv, ConsumerInv', NEW j \in Jobs, queue(j)
  PROVE  MailIInv'
  <1>1. /\ MailTyped /\ JobsOK /\ WorkersOK /\ NobodyIsLeft /\ ConsumerTypeOK /\ JobOK(j)
        /\ UNCHANGED <<kind, mailing, mailbox, faults, handling, abandoned>>
        /\ delivery[j] = "none" /\ phase[j] = "absent" /\ intent[j] = "none"
    BY DEF MailIInv, ConsumerInv, JobsOK, queue, Accept, jobVars, JobOK
  <1>2. mailbox[j] = 0
    BY <1>1 DEF JobOK, Unclaimed, DecidingRow
  <1>3. /\ \/ /\ kind[j] = "workspace" /\ delivery' = [delivery EXCEPT ![j] = "suppressed"]
              /\ intent' = intent /\ phase' = phase
           \/ /\ delivery' = [delivery EXCEPT ![j] = "queued"]
              /\ intent' = IF kind[j] = "auth" THEN [intent EXCEPT ![j] = "pending"] ELSE intent
              /\ phase' = [phase EXCEPT ![j] = "accepted"]
    BY DEF queue, Accept, jobVars
  <1>4. /\ \A k \in Jobs : k # j => Same(k)
        /\ kind'[j] = kind[j] /\ mailbox'[j] = 0
        /\ \/ /\ kind[j] = "workspace" /\ delivery'[j] = "suppressed" /\ intent'[j] = "none"
              /\ phase'[j] = "absent"
           \/ /\ delivery'[j] = "queued" /\ phase'[j] = "accepted"
              /\ intent'[j] = IF kind[j] = "auth" THEN "pending" ELSE "none"
    BY <1>1, <1>2, <1>3 DEF MailTyped, ConsumerTypeOK, Same
  <1>5. MailTyped' /\ NobodyIsLeft'
    BY <1>1, <1>3 DEF MailTyped, NobodyIsLeft, Statuses, Settled, Stages, Struck
  <1>6. Struck => Struck'
    BY <1>1 DEF Struck
  <1>7. JobsOK'
    <2> SUFFICES ASSUME NEW k \in Jobs PROVE JobOK(k)'
      BY DEF JobsOK
    <2>1. CASE k # j
      BY <1>1, <1>4, <1>6, <2>1, JobRests DEF JobsOK
    <2>2. CASE k = j
      BY <1>4, <2>2 DEF JobOK, Unclaimed, DecidingRow
    <2> QED
      BY <2>1, <2>2
  <1>8. ASSUME NEW w \in Workers, handling[w] \in Jobs PROVE SameRows(handling[w])
    <2>1. handling[w] # j
      BY <1>1, <1>8, JobAssumption DEF WorkersOK, WorkerOK
    <2> QED
      BY <1>4, <1>8, <2>1 DEF Same, SameRows
  <1> QED
    BY <1>1, <1>5, <1>6, <1>7, <1>8, AttemptsRest DEF MailIInv

LEMMA HandleKeeps ==
  ASSUME MailIInv, ConsumerInv', NEW w \in Workers, NEW j \in Jobs, handleEmail(w, j)
  PROVE  MailIInv'
  <1>1. /\ MailTyped /\ JobsOK /\ WorkersOK /\ NobodyIsLeft /\ ConsumerTypeOK
        /\ JobOK(j) /\ WorkerOK(w)
        /\ UNCHANGED <<kind, delivery, intent, mailbox, faults, abandoned>>
        /\ handling[w] = NoJob /\ phase[j] = "accepted"
        /\ phase' = [phase EXCEPT ![j] = "executing"]
        /\ handling' = [handling EXCEPT ![w] = j]
        /\ mailing' = [mailing EXCEPT ![w] = [pc |-> "claim", seen |-> DecidingRow(j)]]
    BY DEF MailIInv, ConsumerInv, JobsOK, WorkersOK, handleEmail, Begin, outside, emailRows, DecidingRow
  <1>2. /\ handling'[w] = j /\ mailing'[w] = [pc |-> "claim", seen |-> DecidingRow(j)]
        /\ \A v \in Workers : v # w => mailing'[v] = mailing[v] /\ handling'[v] = handling[v]
        /\ \A k \in Jobs : SameRows(k)
        /\ \A k \in Jobs : k # j => Same(k)
        /\ phase'[j] = "executing" /\ (Struck <=> Struck')
    BY <1>1 DEF MailTyped, ConsumerTypeOK, Same, SameRows, Struck
  <1>3. MailTyped' /\ NobodyIsLeft'
    <2>1. DecidingRow(j) \in Statuses \cup Stages
      BY <1>1 DEF MailTyped, DecidingRow
    <2> QED
      BY <1>1, <2>1 DEF MailTyped, NobodyIsLeft, Struck
  <1>4. JobsOK'
    <2> SUFFICES ASSUME NEW k \in Jobs PROVE JobOK(k)'
      BY DEF JobsOK
    <2>1. CASE k # j
      BY <1>1, <1>2, <2>1, JobRests DEF JobsOK
    <2>2. CASE k = j
      BY <1>1, <1>2, <2>2 DEF JobOK, Unclaimed, DecidingRow, SameRows
    <2> QED
      BY <2>1, <2>2
  <1>5. WorkersOK'
    <2> SUFFICES ASSUME NEW v \in Workers PROVE WorkerOK(v)'
      BY DEF WorkersOK
    <2>1. CASE v # w
      BY <1>1, <1>2, <2>1, WorkerRests DEF WorkersOK
    <2>2. CASE v = w
      <3>1. delivery[j] # "none" /\ (~Struck => DecidingRow(j) # "processing") /\ j # NoJob
        BY <1>1, JobAssumption DEF JobOK
      <3> QED
        BY <1>1, <1>2, <2>2, <3>1 DEF WorkerOK, Mailing, Sending, DecidingRow
    <2> QED
      BY <2>1, <2>2
  <1>6. ASSUME NEW v \in Workers, Sending(v)' \/ Mailing(v, "decide")'
        PROVE  v # w /\ mailing'[v] = mailing[v] /\ handling'[v] = handling[v]
    BY <1>2, <1>6 DEF Sending, Mailing
  <1>7. OneSends'
    BY <1>6 DEF MailIInv, OneSends, Sending
  <1>8. OneDecides'
    BY <1>6 DEF MailIInv, OneDecides, Mailing
  <1> QED
    BY <1>3, <1>4, <1>5, <1>7, <1>8 DEF MailIInv

\* What happens around the handlers, and to the subjects of the mails.
LEMMA AroundKeeps ==
  ASSUME MailIInv, ConsumerInv',
         UNCHANGED <<kind, delivery, intent, mailing, mailbox>>,
         Around \/ UNCHANGED jobVars
  PROVE  MailIInv'
  <1>1. /\ MailTyped /\ JobsOK /\ WorkersOK /\ NobodyIsLeft /\ ConsumerTypeOK
        /\ faults \in Nat
    BY DEF MailIInv, ConsumerInv, MailTyped
  <1>2. handling' = handling
    BY DEF Around, TimesOut, Refused, OperatorRetry, jobVars
  <1>3. /\ \/ Fault
           \/ faults' = faults /\ abandoned' = abandoned
        /\ Fault => faults' = faults + 1
    BY DEF Around, TimesOut, Refused, OperatorRetry, Fault, jobVars
  <1>4. faults' \in Nat /\ (Struck => Struck') /\ (Fault => Struck') /\ NobodyIsLeft'
    BY <1>1, <1>3 DEF Struck, NobodyIsLeft
  <1>5. ASSUME NEW k \in Jobs
        PROVE  /\ phase[k] = "absent" => phase'[k] = "absent"
               /\ \/ Fault
                  \/ phase'[k] = phase[k]
                  \/ phase[k] = "dead" /\ phase'[k] = "accepted"
    BY <1>1 DEF Around, TimesOut, Refused, OperatorRetry, jobVars, ConsumerTypeOK, MailIInv,
                ConsumerInv, AttendedExecutes, Attended
  <1>6. JobsOK'
    <2> SUFFICES ASSUME NEW k \in Jobs PROVE JobOK(k)'
      BY DEF JobsOK
    <2>1. JobOK(k)
      BY <1>1 DEF JobsOK
    <2>2. CASE Struck'
      BY <1>5, <2>1, <2>2 DEF JobOK, Unclaimed, DecidingRow
    <2>3. CASE ~Struck'
      BY <1>4, <1>5, <2>1, <2>3 DEF JobOK, Unclaimed, DecidingRow, Settled
    <2> QED
      BY <2>2, <2>3
  <1>7. \A w \in Workers : handling[w] \in Jobs => SameRows(handling[w])
    BY DEF SameRows
  <1>8. MailTyped'
    BY <1>1, <1>4 DEF MailTyped
  <1> QED
    BY <1>2, <1>4, <1>6, <1>7, <1>8, AttemptsRest DEF MailIInv

LEMMA NextMail == MailIInv /\ [EmailNext]_emailVars => MailIInv'
  <1> SUFFICES ASSUME MailIInv, [EmailNext]_emailVars PROVE MailIInv'
    OBVIOUS
  <1>1. ConsumerInv'
    BY StepKeepsConsumer DEF MailIInv
  <1>2. ASSUME NEW j \in Jobs, queue(j) PROVE MailIInv'
    BY <1>1, <1>2, MailQueueKeeps
  <1>3. ASSUME NEW w \in Workers, NEW j \in Jobs, handleEmail(w, j) PROVE MailIInv'
    BY <1>1, <1>3, HandleKeeps
  <1>4. ASSUME NEW w \in Workers, emailAttempt(w) \/ emailFails(w) PROVE MailIInv'
    BY <1>1, <1>4, AttemptKeeps
  <1>5. ASSUME \/ \E j \in Jobs : subjectGone(j)
               \/ setEmailPreference \/ UNCHANGED emailVars
               \/ Around /\ UNCHANGED <<outside, emailRows, mailing, mailbox>>
        PROVE  MailIInv'
    BY <1>1, <1>5, AroundKeeps DEF subjectGone, setEmailPreference, emailVars, emailRows, outside
  <1> QED
    BY <1>2, <1>3, <1>4, <1>5 DEF EmailNext

----------------------------------------------------------------------------
(* Mails: the theorems.                                                    *)

\* Nobody is sent the same mail twice, the record agrees with the mailbox, and an intent
\* that ended normally leaves no open delivery behind where nothing struck: for each of the
\* three ways in which the handlers claim what they send (email-delivery.worker.service.ts).
THEOREM MailsAreTrue == EmailSpec => []MailInv
  BY InitMail, NextMail, MailIInvImplies, PTL DEF EmailSpec

LEMMA SettledStays ==
  ASSUME MailIInv, [EmailNext]_emailVars, NEW j \in Jobs,
         delivery[j] \in Settled, kind[j] # "invitation"
  PROVE  delivery'[j] = delivery[j]
  <1>1. delivery[j] \notin {"none", "queued", "processing"} /\ delivery \in [Jobs -> Statuses]
    BY DEF Settled, MailIInv, MailTyped
  <1>2. ASSUME NEW w \in Workers, NEW from \in {"queued", "processing"}, NEW to,
               SetDelivery(w, from, to)
        PROVE  delivery'[j] = delivery[j]
    BY <1>1, <1>2 DEF SetDelivery
  <1>3. ASSUME NEW w \in Workers, emailAttempt(w) \/ emailFails(w)
        PROVE  delivery'[j] = delivery[j]
    <2>1. CASE claimWrites(w)
      <3>1. /\ handling[w] \in Jobs /\ kind[handling[w]] = "invitation" /\ handling[w] # NoJob
        BY <2>1, UnderWay, JobAssumption DEF claimWrites, Mailing, WorkerOK
      <3>2. \/ delivery' = delivery
            \/ \E to : SetDelivery(w, "queued", to)
            \/ delivery' = [delivery EXCEPT ![handling[w]] = "reconciliation_required"]
        BY <2>1 DEF claimWrites, Job
      <3>3. j # handling[w]
        BY <3>1
      <3> QED
        BY <1>1, <1>2, <3>2, <3>3
    <2>2. CASE claimDelivery(w)
      BY <1>2, <2>2 DEF claimDelivery
    <2>3. CASE claimIntent(w)
      BY <1>2, <2>3 DEF claimIntent, emailRows
    <2>4. CASE claimReads(w) \/ sendEmail(w) \/ emailFails(w)
      BY <2>4 DEF claimReads, sendEmail, emailFails, emailRows
    <2>5. CASE recordSent(w) \/ recordAmbiguous(w)
      BY <1>2, <2>5 DEF recordSent, recordAmbiguous
    <2> QED
      BY <1>3, <2>1, <2>2, <2>3, <2>4, <2>5 DEF emailAttempt
  <1>4. ASSUME NEW k \in Jobs, queue(k) PROVE delivery'[j] = delivery[j]
    BY <1>1, <1>4 DEF queue
  <1>5. ASSUME NEW w \in Workers, NEW k \in Jobs, handleEmail(w, k)
        PROVE  delivery'[j] = delivery[j]
    BY <1>5 DEF handleEmail, emailRows
  <1>6. ASSUME \/ \E k \in Jobs : subjectGone(k)
               \/ setEmailPreference \/ UNCHANGED emailVars
               \/ Around /\ UNCHANGED <<outside, emailRows, mailing, mailbox>>
        PROVE  delivery'[j] = delivery[j]
    BY <1>6 DEF subjectGone, setEmailPreference, emailVars, emailRows
  <1> QED
    BY <1>3, <1>4, <1>5, <1>6 DEF EmailNext

\* What is settled stays settled, whatever late attempt still writes: an attempt at
\* anything but an invitation writes its row only from the state in which it claimed it.
THEOREM SettledMailIsKept == EmailSpec => SettledMailStays
  <1>1. MailIInv /\ [EmailNext]_emailVars =>
           [\A j \in Jobs :
               delivery[j] \in Settled /\ kind[j] # "invitation" => delivery'[j] = delivery[j]
           ]_emailVars
    BY SettledStays
  <1> QED
    BY <1>1, InitMail, NextMail, PTL DEF EmailSpec, SettledMailStays

\* Whatever the mail handlers do, their intents behave as JobPromise says.
THEOREM MailsKeepPromise == EmailSpec => IntentsKeepPromise
  <1>1. EmailInit => ConsumerInv /\ Promise!Init
    BY JobInitConsumerInv, JobInitIsPromised DEF EmailInit
  <1>2. ConsumerInv /\ [EmailNext]_emailVars => ConsumerInv' /\ [Promise!Next]_phase
    BY StepKeepsConsumer
  <1> QED
    BY <1>1, <1>2, PTL DEF EmailSpec, IntentsKeepPromise, Promise!Spec

----------------------------------------------------------------------------
(* Webhook events: the invariant.                                          *)

Results == {"success", "failed", "retrying"}
Endpoints == [row : {"none", "live", "deleted"}, url : Urls \cup {None},
              enabled : BOOLEAN, verified : BOOLEAN]
Edits == [url : Urls, enable : BOOLEAN \cup {None}, moved : BOOLEAN]
Rows == [job : Jobs, attempt : 1..MaxAttempts, status : Results]
Reasons == {"endpoint", "access"}

SendingTyped ==
    sending \in [Workers -> [pc : {"idle", "load", "authorize", "refuse", "send", "record"},
                             attempt : 0..MaxAttempts, result : Results \cup {None}]]

AdminTyped == endpoint \in Endpoints /\ readable \in BOOLEAN /\ edit \in Edits \cup {None}

HookTyped ==
    /\ AdminTyped
    /\ eventOf \in [Jobs -> Jobs \cup {NoJob}]
    /\ SendingTyped
    /\ deliveries \subseteq Rows
    /\ inbox \in [Jobs -> Nat]
    /\ barred \subseteq Workers \X Reasons
    /\ faults \in Nat

Deleted == endpoint.row = "deleted"

Explains(row, j) ==
    /\ row.job = j
    /\ row.status # "retrying"
    /\ row.status = "success" => inbox[j] > 0

Explained(j) == \E row \in deliveries : Explains(row, j)

\* What an intent says of its event, and of the inbox where nothing struck.
EventOK(j) ==
    /\ phase[j] # "absent" <=> eventOf[j] # NoJob
    /\ phase[j] # "absent" => endpoint.row # "none"
    /\ phase[j] = "done" /\ Live => Explained(j)
    /\ ~Struck =>
          /\ inbox[j] <= 1
          /\ phase[j] = "absent" => inbox[j] = 0
          /\ phase[j] = "accepted" => inbox[j] = 0 \/ Deleted
          /\ phase[j] = "dead" => Deleted

\* What an attempt may take for granted of its intent.
AttemptOK(w, j) ==
    /\ phase[j] # "absent"
    /\ sending[w].attempt \in 1..MaxAttempts
    /\ At(w, "record") => sending[w].result \in Results
    /\ At(w, "record") /\ sending[w].result = "success" => inbox[j] > 0
    /\ ~Struck =>
          /\ sending[w].attempt = attempts[j]
          /\ At(w, "load") => inbox[j] = 0 \/ Deleted
          /\ At(w, "authorize") \/ At(w, "send") => inbox[j] = 0
          /\ At(w, "record") /\ sending[w].result # "success" => inbox[j] = 0 \/ Deleted

\* A barred attempt is on its way to be refused.
BarredOK(w) ==
    /\ <<w, "endpoint">> \in barred => ~Deliverable /\ sending[w].pc \in {"load", "refuse"}
    /\ <<w, "access">> \in barred =>
          ~readable /\ sending[w].pc \in {"load", "authorize", "refuse"}

SenderOK(w) ==
    /\ At(w, "idle") <=> handling[w] = NoJob
    /\ handling[w] # NoJob => AttemptOK(w, handling[w])
    /\ BarredOK(w)

EventsOK == \A j \in Jobs : EventOK(j)
SendersOK == \A w \in Workers : SenderOK(w)
RowsKnown == \A row \in deliveries : phase[row.job] # "absent"

HookIInv ==
    /\ ConsumerInv /\ HookTyped /\ NobodyIsLeft
    /\ EventsOK /\ SendersOK /\ RowsKnown

LEMMA HookIInvImplies == HookIInv => WebhookInv
  <1> SUFFICES ASSUME HookIInv PROVE WebhookInv
    OBVIOUS
  <1>1. HookTyped /\ EventsOK /\ SendersOK
    BY DEF HookIInv
  <1>2. WebhookTypeOK
    <2>1. \A w \in Workers : At(w, "idle") <=> handling[w] = NoJob
      BY <1>1 DEF SendersOK, SenderOK
    <2>2. \A j \in Jobs : phase[j] # "absent" <=> eventOf[j] # NoJob
      BY <1>1 DEF EventsOK, EventOK
    <2>3. endpoint.row \in {"none", "live", "deleted"}
      BY <1>1 DEF HookTyped, AdminTyped, Endpoints
    <2> QED
      BY <1>1, <2>1, <2>2, <2>3 DEF WebhookTypeOK, HookTyped, Rows, Results
  <1>3. BuriedOnlyIfStruck
    <2> SUFFICES ASSUME NEW j \in Jobs, phase[j] = "dead", ~Struck PROVE ~Live
      BY DEF BuriedOnlyIfStruck
    <2> QED
      BY <1>1 DEF EventsOK, EventOK, Deleted, Live
  <1>4. DoneIsExplained
    <2> SUFFICES ASSUME NEW j \in Jobs, phase[j] = "done", Live PROVE Explained(j)
      BY DEF DoneIsExplained, Explained, Explains
    <2> QED
      BY <1>1 DEF EventsOK, EventOK
  <1>5. RepeatedOnlyIfStruck
    <2> SUFFICES ASSUME NEW j \in Jobs, inbox[j] > 1, ~Struck PROVE FALSE
      BY DEF RepeatedOnlyIfStruck
    <2>1. inbox[j] <= 1 /\ inbox[j] \in Nat
      BY <1>1 DEF EventsOK, EventOK, HookTyped
    <2> QED
      BY <2>1
  <1> QED
    BY <1>2, <1>3, <1>4, <1>5 DEF WebhookInv

LEMMA InitHook == WebhookInit => HookIInv
  <1> SUFFICES ASSUME WebhookInit PROVE HookIInv
    OBVIOUS
  <1>1. ConsumerInv
    BY JobInitConsumerInv DEF WebhookInit
  <1>2. HookTyped /\ NobodyIsLeft /\ RowsKnown
    BY JobAssumption
       DEF WebhookInit, EndpointInit, JobInit, HookTyped, AdminTyped, SendingTyped, Endpoints,
           Waiting, NobodyIsLeft, RowsKnown
  <1>3. ASSUME NEW j \in Jobs PROVE EventOK(j)
    BY DEF WebhookInit, EndpointInit, JobInit, EventOK
  <1>4. ASSUME NEW w \in Workers PROVE SenderOK(w)
    BY DEF WebhookInit, EndpointInit, JobInit, SenderOK, BarredOK, At, Waiting
  <1> QED
    BY <1>1, <1>2, <1>3, <1>4 DEF HookIInv, EventsOK, SendersOK

----------------------------------------------------------------------------
(* Webhook events: what the steps do to the intents.                       *)

LEMMA HookEndsAreEnds ==
  ASSUME NEW w \in Workers, Returns(w) \/ Throws(w) \/ Fails(w) \/ Dies(w)
  PROVE  \E outcome \in {"done", "dead", AfterThrow(w)} : End(w, outcome)
  BY DEF Returns, Throws, Fails, Dies

LEMMA HookStepsOnIntents == [WebhookNext]_webhookVars => JobStep \/ IntentsRest
  <1>1. ASSUME NEW w \in Workers, attempt(w) \/ attemptFails(w)
        PROVE  JobStep \/ IntentsRest
    <2>1. CASE load(w) \/ authorize(w) \/ sendWebhook(w)
      BY <2>1 DEF load, authorize, sendWebhook, jobVars, IntentsRest
    <2>2. CASE record(w) \/ attemptFails(w)
      BY <2>2, HookEndsAreEnds DEF record, attemptFails, JobStep
    <2> QED
      BY <1>1, <2>1, <2>2 DEF attempt
  <1>2. ASSUME NEW j \in Jobs, scheduleWebhookDeliveries(j) \/ retryDelivery(j) \/ prune(j)
        PROVE  JobStep \/ IntentsRest
    BY <1>2 DEF scheduleWebhookDeliveries, retryDelivery, prune, JobStep, IntentsRest, jobVars
  <1>3. ASSUME NEW w \in Workers, NEW j \in Jobs, handle(w, j)
        PROVE  JobStep
    BY <1>3 DEF handle, JobStep
  <1>4. Administer \/ accessChanges \/ UNCHANGED webhookVars => IntentsRest
    BY DEF Administer, create, updateReads, updateWrites, remove, challenge, verify,
           accessChanges, webhookVars, jobVars, IntentsRest
  <1>5. Around => JobStep
    BY DEF JobStep
  <1> QED
    BY <1>1, <1>2, <1>3, <1>4, <1>5 DEF WebhookNext

LEMMA HookKeepsConsumer ==
  ASSUME ConsumerInv, [WebhookNext]_webhookVars
  PROVE  ConsumerInv' /\ [Promise!Next]_phase
  <1>1. CASE JobStep
    BY <1>1, JobStepKeepsInv, JobStepIsPromised
  <1>2. CASE IntentsRest
    BY <1>2, RestKeepsConsumerInv DEF IntentsRest
  <1> QED
    BY <1>1, <1>2, HookStepsOnIntents

----------------------------------------------------------------------------
(* Webhook events: what is left alone stays true.                          *)

\* An endpoint is never made alive again, nor forgotten.
GoesOn ==
    /\ Live' => Live \/ endpoint.row = "none"
    /\ Deleted => Deleted'
    /\ endpoint.row # "none" => endpoint'.row # "none"
    /\ Struck => Struck'

SameIntent(j) ==
    /\ phase'[j] = phase[j] /\ eventOf'[j] = eventOf[j]
    /\ attempts'[j] = attempts[j] /\ inbox'[j] = inbox[j]

LEMMA ExplainedStill ==
  ASSUME NEW j, Explained(j), deliveries \subseteq deliveries',
         inbox[j] > 0 => inbox'[j] > 0
  PROVE  Explained(j)'
  <1>1. PICK row \in deliveries : Explains(row, j)
    BY DEF Explained
  <1>2. Explains(row, j)' /\ row \in deliveries'
    BY <1>1 DEF Explains
  <1> QED
    BY <1>2 DEF Explained

LEMMA EventRests ==
  ASSUME NEW j \in Jobs, EventOK(j), SameIntent(j), GoesOn,
         deliveries \subseteq deliveries' \/ ~Live'
  PROVE  EventOK(j)'
  <1>1. phase[j] = "done" /\ Live' => Explained(j)'
    BY ExplainedStill DEF EventOK, SameIntent, GoesOn
  <1> QED
    BY <1>1 DEF EventOK, SameIntent, GoesOn

\* Nobody is barred by the step, and what bars them stays.
BarsStay ==
    /\ barred' \subseteq barred
    /\ Deliverable' => Deliverable \/ barred' \cap (Workers \X {"endpoint"}) = {}
    /\ readable' => readable \/ barred' \cap (Workers \X {"access"}) = {}

LEMMA BarredRests ==
  ASSUME NEW w \in Workers, BarredOK(w), BarsStay, sending'[w] = sending[w]
  PROVE  BarredOK(w)'
  <1>1. /\ <<w, "endpoint">> \in barred' => <<w, "endpoint">> \in barred /\ ~Deliverable'
        /\ <<w, "access">> \in barred' => <<w, "access">> \in barred /\ ~readable'
    BY DEF BarsStay, BarredOK
  <1> QED
    BY <1>1 DEF BarredOK

\* The intent of an attempt goes on: as it was, where nothing struck.
IntentGoesOn(j) ==
    /\ phase[j] # "absent" => phase'[j] # "absent"
    /\ inbox[j] > 0 => inbox'[j] > 0
    /\ ~Struck' => attempts'[j] = attempts[j] /\ inbox'[j] = inbox[j]

LEMMA SenderRests ==
  ASSUME ConsumerTypeOK, NEW w \in Workers, SenderOK(w), BarsStay, GoesOn,
         sending'[w] = sending[w], handling'[w] = handling[w],
         handling[w] \in Jobs => IntentGoesOn(handling[w])
  PROVE  SenderOK(w)'
  <1>1. BarredOK(w)'
    BY BarredRests DEF SenderOK
  <1>2. CASE handling[w] = NoJob
    BY <1>1, <1>2 DEF SenderOK, At
  <1>3. CASE handling[w] # NoJob
    <2>1. PICK j \in Jobs : j = handling[w] /\ j # NoJob
      BY <1>3 DEF ConsumerTypeOK
    <2>2. AttemptOK(w, j) /\ IntentGoesOn(j) /\ handling'[w] = j
      BY <2>1 DEF SenderOK
    <2>3. AttemptOK(w, j)'
      BY <2>2 DEF AttemptOK, IntentGoesOn, GoesOn, At
    <2> QED
      BY <1>1, <2>1, <2>2, <2>3 DEF SenderOK, At
  <1> QED
    BY <1>2, <1>3

LEMMA RowsRest ==
  ASSUME RowsKnown, deliveries \subseteq Rows, deliveries' \subseteq deliveries,
         \A j \in Jobs : phase[j] # "absent" => phase'[j] # "absent"
  PROVE  RowsKnown'
  BY DEF RowsKnown, Rows

\* Where nothing struck, an attempt is alone with its intent, which executes.
LEMMA HookAlone ==
  ASSUME HookIInv, ~Struck, NEW w \in Workers, handling[w] # NoJob
  PROVE  /\ phase[handling[w]] = "executing" /\ w \notin abandoned
         /\ \A v \in Workers : handling[v] = handling[w] => v = w
  BY DEF HookIInv, NobodyIsLeft, ConsumerInv, OneAttends, AttendedExecutes, Attended

\* A step that leaves every intent and every attempt where it is.
LEMMA QuietKeeps ==
  ASSUME HookIInv, ConsumerInv', UNCHANGED <<jobVars, eventOf, sending, inbox>>,
         AdminTyped', GoesOn, BarsStay,
         deliveries' = deliveries \/ (deliveries' = {} /\ ~Live')
  PROVE  HookIInv'
  <1>1. /\ HookTyped /\ EventsOK /\ SendersOK /\ RowsKnown /\ NobodyIsLeft /\ ConsumerTypeOK
        /\ UNCHANGED <<phase, attempts, faults, handling, abandoned>>
    BY DEF HookIInv, ConsumerInv, jobVars
  <1>2. HookTyped' /\ NobodyIsLeft'
    BY <1>1 DEF HookTyped, SendingTyped, BarsStay, NobodyIsLeft, Struck
  <1>3. \A j \in Jobs : SameIntent(j)
    BY <1>1 DEF SameIntent
  <1>4. EventsOK'
    BY <1>1, <1>3, EventRests DEF EventsOK
  <1>5. \A j \in Jobs : IntentGoesOn(j)
    BY <1>3 DEF SameIntent, IntentGoesOn
  <1>6. SendersOK'
    BY <1>1, <1>5, SenderRests DEF SendersOK
  <1>7. RowsKnown'
    BY <1>1 DEF RowsKnown
  <1> QED
    BY <1>2, <1>4, <1>6, <1>7 DEF HookIInv

----------------------------------------------------------------------------
(* The administration of the endpoint.                                      *)

LEMMA EnableBars ==
  ASSUME HookTyped, Enable(Deliverable'), readable' = readable
  PROVE  BarsStay
  <1>1. /\ barred' \subseteq barred
        /\ Deliverable' => barred' = barred \ (Workers \X {"endpoint"})
    BY DEF Enable
  <1> QED
    BY <1>1 DEF BarsStay

\* What an update writes.
LEMMA UpdateAt ==
  ASSUME HookTyped, updateWrites
  PROVE  /\ edit' = None /\ endpoint' \in Endpoints /\ endpoint'.row = endpoint.row
  <1>1. edit \in Edits /\ endpoint \in Endpoints /\ edit' = None
    BY DEF updateWrites, HookTyped, AdminTyped
  <1> DEFINE enabled == IF edit.moved THEN FALSE
                        ELSE IF edit.enable = None THEN endpoint.enabled ELSE edit.enable
             verified == endpoint.verified /\ ~edit.moved
  <1>2. edit.url \in Urls /\ enabled \in BOOLEAN /\ verified \in BOOLEAN
    BY <1>1 DEF Edits, Endpoints
  <1>3. CASE ~Live
    BY <1>1, <1>3 DEF updateWrites
  <1>4. CASE Live
    <2>1. endpoint' = [endpoint EXCEPT !.url = edit.url, !.enabled = enabled,
                                       !.verified = endpoint.verified /\ ~edit.moved]
      BY <1>4, Zenon DEF updateWrites
    <2> HIDE DEF enabled, verified
    <2> QED
      BY <1>1, <1>2, <2>1 DEF Endpoints, verified
  <1> QED
    BY <1>3, <1>4

LEMMA AdministerKeeps ==
  ASSUME HookIInv, ConsumerInv', Administer
  PROVE  HookIInv'
  <1>1. HookTyped /\ AdminTyped /\ SendersOK
    BY DEF HookIInv, HookTyped
  <1>2. UNCHANGED <<jobVars, eventOf, sending, inbox, readable>>
    BY DEF Administer, create, updateReads, updateWrites, remove, challenge, verify,
           run, events
  <1>3. Struck => Struck'
    BY <1>2 DEF jobVars, Struck
  <1>4. ASSUME NEW url \in Urls, create(url) PROVE HookIInv'
    <2>1. /\ endpoint' = [row |-> "live", url |-> url, enabled |-> FALSE, verified |-> FALSE]
          /\ endpoint.row = "none"
          /\ UNCHANGED <<readable, edit, deliveries, barred>>
      BY <1>4 DEF create, admin, run
    <2>2. AdminTyped' /\ GoesOn
      BY <1>1, <1>3, <2>1 DEF AdminTyped, Endpoints, GoesOn, Live, Deleted
    <2>3. BarsStay
      BY <2>1 DEF BarsStay, Deliverable
    <2> QED
      BY <1>2, <2>1, <2>2, <2>3, QuietKeeps
  <1>5. ASSUME NEW url \in Urls, NEW enable \in BOOLEAN \cup {None}, updateReads(url, enable)
        PROVE  HookIInv'
    <2>1. /\ edit' = [url |-> url, enable |-> enable, moved |-> url # endpoint.url]
          /\ UNCHANGED <<endpoint, readable, deliveries, barred>>
      BY <1>5 DEF updateReads, run
    <2>2. AdminTyped' /\ GoesOn
      BY <1>1, <1>3, <2>1 DEF AdminTyped, Edits, GoesOn, Live, Deleted
    <2>3. BarsStay
      BY <2>1 DEF BarsStay, Deliverable, Live
    <2> QED
      BY <1>2, <2>1, <2>2, <2>3, QuietKeeps
  <1>6. ASSUME updateWrites PROVE HookIInv'
    <2>1. Enable(Deliverable') /\ deliveries' = deliveries
      BY <1>6 DEF updateWrites, run
    <2>2. AdminTyped' /\ GoesOn
      BY <1>1, <1>2, <1>3, <1>6, UpdateAt DEF AdminTyped, GoesOn, Live, Deleted
    <2>3. BarsStay
      BY <1>1, <1>2, <2>1, EnableBars
    <2> QED
      BY <1>2, <2>1, <2>2, <2>3, QuietKeeps
  <1>7. ASSUME remove PROVE HookIInv'
    <2>1. /\ endpoint' = [endpoint EXCEPT !.row = "deleted"] /\ deliveries' = {}
          /\ UNCHANGED <<readable, edit, barred>>
      BY <1>7 DEF remove, admin
    <2>2. AdminTyped' /\ endpoint'.row = "deleted"
      BY <1>1, <2>1 DEF AdminTyped, Endpoints
    <2>3. GoesOn /\ ~Live'
      BY <1>3, <2>2 DEF GoesOn, Live, Deleted
    <2>4. BarsStay
      BY <2>1, <2>3 DEF BarsStay, Deliverable
    <2> QED
      BY <1>2, <2>1, <2>2, <2>3, <2>4, QuietKeeps
  <1>8. ASSUME challenge PROVE HookIInv'
    <2>1. UNCHANGED <<endpoint, readable, edit, deliveries, barred>>
      BY <1>8 DEF challenge, run
    <2>2. AdminTyped' /\ GoesOn /\ BarsStay
      BY <1>1, <1>3, <2>1 DEF AdminTyped, GoesOn, Live, Deleted, BarsStay, Deliverable
    <2> QED
      BY <1>2, <2>1, <2>2, QuietKeeps
  <1>9. ASSUME verify PROVE HookIInv'
    <2>1. /\ \/ endpoint' = [endpoint EXCEPT !.verified = @ \/ Live]
             \/ endpoint' = endpoint
          /\ Enable(Deliverable')
          /\ UNCHANGED <<readable, edit, deliveries>>
      BY <1>9 DEF verify, run
    <2>2. AdminTyped' /\ endpoint'.row = endpoint.row
      BY <1>1, <2>1 DEF AdminTyped, Endpoints
    <2>3. GoesOn
      BY <1>3, <2>2 DEF GoesOn, Live, Deleted
    <2>4. BarsStay
      BY <1>1, <2>1, EnableBars
    <2> QED
      BY <1>2, <2>1, <2>2, <2>3, <2>4, QuietKeeps
  <1> QED
    BY <1>4, <1>5, <1>6, <1>7, <1>8, <1>9 DEF Administer

\* The creator's access changes, the outbox is pruned, or nothing happens.
LEMMA RestKeeps ==
  ASSUME HookIInv, ConsumerInv',
         accessChanges \/ UNCHANGED webhookVars \/ \E j \in Jobs : prune(j)
  PROVE  HookIInv'
  <1>1. HookTyped /\ AdminTyped
    BY DEF HookIInv, HookTyped
  <1>2. UNCHANGED <<jobVars, eventOf, sending, inbox, deliveries, endpoint, edit>>
    BY DEF accessChanges, prune, webhookVars, events, run, admin
  <1>3. \/ /\ readable' = ~readable
           /\ barred' = IF readable THEN barred ELSE barred \ (Workers \X {"access"})
        \/ readable' = readable /\ barred' = barred
    BY DEF accessChanges, prune, webhookVars
  <1>4. AdminTyped' /\ GoesOn
    BY <1>1, <1>2, <1>3 DEF AdminTyped, GoesOn, Live, Deleted, Struck, jobVars
  <1>5. BarsStay
    BY <1>1, <1>2, <1>3 DEF BarsStay, Deliverable, Live, AdminTyped
  <1> QED
    BY <1>2, <1>4, <1>5, QuietKeeps

----------------------------------------------------------------------------
(* The intents, and what happens around the handlers.                       *)

\* A step that leaves the endpoint, its access and the attempts under way as they are.
LEMMA HookUntouched ==
  ASSUME UNCHANGED <<endpoint, readable, barred>>, Struck => Struck'
  PROVE  GoesOn /\ BarsStay
  BY DEF GoesOn, BarsStay, Live, Deleted, Deliverable

LEMMA ScheduleKeeps ==
  ASSUME HookIInv, ConsumerInv', NEW j \in Jobs,
         scheduleWebhookDeliveries(j) \/ retryDelivery(j)
  PROVE  HookIInv'
  <1>1. /\ HookTyped /\ EventsOK /\ SendersOK /\ RowsKnown /\ NobodyIsLeft /\ ConsumerTypeOK
        /\ EventOK(j)
    BY DEF HookIInv, ConsumerInv, EventsOK
  <1>2. /\ UNCHANGED <<attempts, faults, handling, abandoned, endpoint, readable, edit, barred>>
        /\ UNCHANGED <<sending, deliveries, inbox>>
        /\ phase[j] = "absent" /\ phase' = [phase EXCEPT ![j] = "accepted"] /\ Live
    BY DEF scheduleWebhookDeliveries, retryDelivery, Accept, run, admin, Deliverable
  <1>3. \E e \in Jobs : eventOf' = [eventOf EXCEPT ![j] = e]
    <2>1. CASE scheduleWebhookDeliveries(j)
      BY <2>1 DEF scheduleWebhookDeliveries
    <2>2. CASE retryDelivery(j)
      <3>1. PICK row \in deliveries : eventOf' = [eventOf EXCEPT ![j] = eventOf[row.job]]
        BY <2>2 DEF retryDelivery
      <3>2. row.job \in Jobs /\ phase[row.job] # "absent"
        BY <1>1 DEF HookTyped, Rows, RowsKnown
      <3>3. eventOf[row.job] \in Jobs
        BY <1>1, <3>2 DEF EventsOK, EventOK, HookTyped
      <3> QED
        BY <3>1, <3>3
    <2> QED
      BY <2>1, <2>2
  <1>4. HookTyped' /\ NobodyIsLeft' /\ GoesOn /\ BarsStay
    BY <1>1, <1>2, <1>3, HookUntouched
       DEF HookTyped, AdminTyped, SendingTyped, NobodyIsLeft, Struck
  <1>5. /\ phase'[j] = "accepted" /\ eventOf'[j] # NoJob
        /\ \A k \in Jobs : k # j => SameIntent(k)
        /\ \A k \in Jobs : IntentGoesOn(k)
    BY <1>1, <1>2, <1>3, JobAssumption DEF HookTyped, ConsumerTypeOK, SameIntent, IntentGoesOn
  <1>6. EventOK(j)'
    BY <1>1, <1>2, <1>5 DEF EventOK, Live, Deleted, Struck
  <1>7. EventsOK'
    BY <1>1, <1>2, <1>4, <1>5, <1>6, EventRests DEF EventsOK
  <1>8. SendersOK'
    BY <1>1, <1>2, <1>4, <1>5, SenderRests DEF SendersOK
  <1>9. RowsKnown'
    BY <1>1, <1>2, <1>5, RowsRest DEF HookTyped, IntentGoesOn
  <1> QED
    BY <1>4, <1>7, <1>8, <1>9 DEF HookIInv

LEMMA HookHandleKeeps ==
  ASSUME HookIInv, ConsumerInv', NEW w \in Workers, NEW j \in Jobs, handle(w, j)
  PROVE  HookIInv'
  <1>1. /\ HookTyped /\ EventsOK /\ SendersOK /\ RowsKnown /\ NobodyIsLeft /\ ConsumerTypeOK
        /\ EventOK(j) /\ SenderOK(w) /\ AttemptsLeft
    BY DEF HookIInv, ConsumerInv, EventsOK, SendersOK
  <1>2. /\ UNCHANGED <<faults, abandoned, endpoint, readable, edit, eventOf, deliveries, inbox>>
        /\ handling[w] = NoJob /\ phase[j] = "accepted"
        /\ phase' = [phase EXCEPT ![j] = "executing"]
        /\ attempts' = [attempts EXCEPT ![j] = @ + 1]
        /\ handling' = [handling EXCEPT ![w] = j]
        /\ sending' = [sending EXCEPT ![w] = [pc |-> "load", attempt |-> attempts[j] + 1,
                                              result |-> None]]
        /\ barred' = barred \cup (IF Deliverable THEN {} ELSE {<<w, "endpoint">>})
                            \cup (IF readable THEN {} ELSE {<<w, "access">>})
    BY DEF handle, Begin, aside, admin, events
  <1>3. attempts[j] + 1 \in 1..MaxAttempts /\ attempts[j] \in Nat /\ j # NoJob
    BY <1>1, <1>2, JobAssumption DEF AttemptsLeft, ConsumerTypeOK
  <1>4. /\ phase'[j] = "executing" /\ attempts'[j] = attempts[j] + 1 /\ handling'[w] = j
        /\ sending'[w] = [pc |-> "load", attempt |-> attempts[j] + 1, result |-> None]
        /\ \A v \in Workers : v # w => sending'[v] = sending[v] /\ handling'[v] = handling[v]
        /\ \A k \in Jobs : k # j => SameIntent(k)
        /\ \A k \in Jobs : phase[k] # "absent" => phase'[k] # "absent"
        /\ GoesOn /\ (Struck <=> Struck')
    BY <1>1, <1>2
       DEF HookTyped, SendingTyped, ConsumerTypeOK, SameIntent, GoesOn, Live, Deleted, Struck
  <1>5. HookTyped' /\ NobodyIsLeft'
    <2>1. SendingTyped'
      BY <1>1, <1>2, <1>3 DEF HookTyped, SendingTyped
    <2>2. barred' \subseteq Workers \X Reasons
      BY <1>1, <1>2 DEF HookTyped, Reasons
    <2> QED
      BY <1>1, <1>2, <2>1, <2>2 DEF HookTyped, AdminTyped, NobodyIsLeft, Struck
  <1>6. EventOK(j)'
    BY <1>1, <1>2, <1>4 DEF EventOK, Struck
  <1>7. EventsOK'
    BY <1>1, <1>2, <1>4, <1>6, EventRests DEF EventsOK
  <1>8. ASSUME NEW v \in Workers, v # w PROVE SenderOK(v)'
    <2>1. BarredOK(v) /\ SenderOK(v)
      BY <1>1 DEF SendersOK, SenderOK
    <2>2. BarredOK(v)'
      BY <1>2, <1>4, <1>8, <2>1 DEF BarredOK, Deliverable, Live
    <2>3. CASE handling[v] = NoJob
      BY <1>4, <1>8, <2>1, <2>2, <2>3 DEF SenderOK, At
    <2>4. CASE handling[v] # NoJob
      <3>1. PICK k \in Jobs : k = handling[v]
        BY <1>1, <2>4 DEF ConsumerTypeOK
      <3>2. AttemptOK(v, k)
        BY <2>1, <2>4, <3>1 DEF SenderOK
      <3>3. ~Struck => k # j
        BY <1>2, <2>4, <3>1, HookAlone
      <3>4. AttemptOK(v, k)'
        BY <1>2, <1>4, <1>8, <3>2, <3>3 DEF AttemptOK, SameIntent, GoesOn, At
      <3> QED
        BY <1>4, <1>8, <2>1, <2>2, <2>4, <3>1, <3>4 DEF SenderOK, At
    <2> QED
      BY <2>3, <2>4
  <1>9. SenderOK(w)'
    <2>1. BarredOK(w)'
      <3>1. <<w, "endpoint">> \notin barred /\ <<w, "access">> \notin barred
        BY <1>1, <1>2 DEF SenderOK, BarredOK, At
      <3> QED
        BY <1>2, <1>4, <3>1 DEF BarredOK, Deliverable, Live
    <2>2. AttemptOK(w, j)'
      BY <1>1, <1>2, <1>3, <1>4 DEF AttemptOK, At, EventOK, GoesOn
    <2> QED
      BY <1>3, <1>4, <2>1, <2>2 DEF SenderOK, At
  <1>10. SendersOK'
    BY <1>8, <1>9 DEF SendersOK
  <1>11. RowsKnown'
    BY <1>1, <1>2, <1>4, RowsRest DEF HookTyped
  <1> QED
    BY <1>5, <1>7, <1>10, <1>11 DEF HookIInv

LEMMA HookAroundKeeps ==
  ASSUME HookIInv, ConsumerInv', Around, UNCHANGED <<aside, run, barred>>
  PROVE  HookIInv'
  <1>1. /\ HookTyped /\ EventsOK /\ SendersOK /\ RowsKnown /\ NobodyIsLeft /\ ConsumerTypeOK
        /\ faults \in Nat
    BY DEF HookIInv, ConsumerInv, HookTyped
  <1>2. /\ UNCHANGED <<handling, endpoint, readable, edit, barred>>
        /\ UNCHANGED <<eventOf, sending, deliveries, inbox>>
    BY DEF Around, TimesOut, Refused, OperatorRetry, aside, run, events, admin
  <1>3. /\ \/ Fault
           \/ faults' = faults /\ abandoned' = abandoned
        /\ Fault => faults' = faults + 1
    BY DEF Around, TimesOut, Refused, OperatorRetry, Fault
  <1>4. /\ faults' \in Nat /\ (Struck => Struck') /\ (Fault => Struck') /\ NobodyIsLeft'
        /\ HookTyped' /\ GoesOn /\ BarsStay
    <2>1. faults' \in Nat /\ (Struck => Struck') /\ (Fault => Struck') /\ NobodyIsLeft'
      BY <1>1, <1>3 DEF Struck, NobodyIsLeft
    <2> QED
      BY <1>1, <1>2, <2>1, HookUntouched DEF HookTyped, AdminTyped, SendingTyped
  <1>5. ASSUME NEW k \in Jobs
        PROVE  /\ phase[k] = "absent" <=> phase'[k] = "absent"
               /\ phase'[k] = "done" => phase[k] = "done"
               /\ \/ Fault
                  \/ phase'[k] = phase[k] /\ attempts'[k] = attempts[k]
                  \/ phase[k] = "dead" /\ phase'[k] = "accepted"
    BY <1>1 DEF Around, TimesOut, Refused, OperatorRetry, ConsumerTypeOK, HookIInv,
                ConsumerInv, AttendedExecutes, Attended
  <1>6. EventsOK'
    <2> SUFFICES ASSUME NEW k \in Jobs PROVE EventOK(k)'
      BY DEF EventsOK
    <2>1. EventOK(k) /\ eventOf'[k] = eventOf[k] /\ inbox'[k] = inbox[k]
      BY <1>1, <1>2 DEF EventsOK
    <2>2. phase'[k] = "done" /\ Live' => Explained(k)'
      BY <1>2, <1>5, <2>1, ExplainedStill DEF EventOK, Live
    <2>3. CASE Struck'
      BY <1>2, <1>5, <2>1, <2>2, <2>3 DEF EventOK
    <2>4. CASE ~Struck'
      BY <1>2, <1>4, <1>5, <2>1, <2>2, <2>4 DEF EventOK, Deleted
    <2> QED
      BY <2>3, <2>4
  <1>7. ASSUME NEW w \in Workers PROVE SenderOK(w)'
    <2>1. ASSUME handling[w] \in Jobs PROVE IntentGoesOn(handling[w])
      <3>1. PICK k \in Jobs : k = handling[w] /\ k # NoJob
        BY <2>1, JobAssumption
      <3>2. ~Struck => phase[k] = "executing"
        BY <3>1, HookAlone
      <3>3. ~Struck' => attempts'[k] = attempts[k]
        BY <1>4, <1>5, <3>2
      <3>4. IntentGoesOn(k)
        BY <1>2, <1>5, <3>3 DEF IntentGoesOn
      <3> QED
        BY <3>1, <3>4
    <2> QED
      BY <1>1, <1>2, <1>4, <2>1, SenderRests DEF SendersOK
  <1>8. SendersOK'
    BY <1>7 DEF SendersOK
  <1>9. RowsKnown'
    BY <1>1, <1>2, <1>5, RowsRest DEF HookTyped
  <1> QED
    BY <1>4, <1>6, <1>8, <1>9 DEF HookIInv

----------------------------------------------------------------------------
(* The steps of an attempt.                                                 *)

\* An attempt under way knows its intent.
LEMMA HookUnderWay ==
  ASSUME HookIInv, NEW w \in Workers, ~At(w, "idle")
  PROVE  \E j \in Jobs :
            /\ j = handling[w] /\ j # NoJob
            /\ EventOK(j) /\ AttemptOK(w, j) /\ BarredOK(w)
            /\ ~Struck => phase[j] = "executing" /\ w \notin abandoned
  <1>1. SendersOK /\ EventsOK /\ ConsumerTypeOK
    BY DEF HookIInv, ConsumerInv
  <1>2. SenderOK(w)
    BY <1>1 DEF SendersOK
  <1>3. handling[w] # NoJob /\ handling[w] \in Jobs
    BY <1>1, <1>2 DEF SenderOK, ConsumerTypeOK
  <1> QED
    BY <1>1, <1>2, <1>3, HookAlone DEF SenderOK, EventsOK

\* An attempt touches its own intent only, and takes nothing back.
TouchesOnly(w, j) ==
    /\ UNCHANGED <<endpoint, readable, edit, eventOf, attempts>>
    /\ barred' \subseteq barred
    /\ \A k \in Jobs : k # j => phase'[k] = phase[k] /\ inbox'[k] = inbox[k]
    /\ \A v \in Workers : v # w => sending'[v] = sending[v] /\ handling'[v] = handling[v]
    /\ deliveries \subseteq deliveries' /\ deliveries' \subseteq Rows
    /\ phase'[j] # "absent" /\ inbox'[j] \in {inbox[j], inbox[j] + 1}
    /\ \A row \in deliveries' \ deliveries : row.job = j
    /\ SendingTyped' /\ inbox' \in [Jobs -> Nat] /\ faults' \in Nat
    /\ NobodyIsLeft' /\ (Struck => Struck')

LEMMA TouchesOnlyKeeps ==
  ASSUME HookIInv, ConsumerInv', NEW w \in Workers, NEW j \in Jobs, j = handling[w],
         TouchesOnly(w, j), EventOK(j)', SenderOK(w)'
  PROVE  HookIInv'
  <1>1. /\ HookTyped /\ EventsOK /\ SendersOK /\ RowsKnown /\ ConsumerTypeOK /\ j # NoJob
        /\ UNCHANGED <<endpoint, readable, edit, eventOf, attempts>>
        /\ barred' \subseteq barred /\ deliveries \subseteq deliveries'
        /\ Struck => Struck'
    BY JobAssumption DEF HookIInv, ConsumerInv, TouchesOnly
  <1>2. HookTyped' /\ NobodyIsLeft'
    BY <1>1 DEF TouchesOnly, HookTyped, AdminTyped
  <1>3. GoesOn /\ BarsStay
    BY <1>1 DEF GoesOn, BarsStay, Live, Deleted, Deliverable
  <1>4. \A k \in Jobs : k # j => SameIntent(k)
    BY <1>1 DEF TouchesOnly, SameIntent
  <1>5. EventsOK'
    BY <1>1, <1>3, <1>4, EventRests DEF EventsOK
  <1>6. ASSUME NEW v \in Workers, v # w PROVE SenderOK(v)'
    <2>1. ASSUME handling[v] \in Jobs PROVE IntentGoesOn(handling[v])
      <3>1. PICK k \in Jobs : k = handling[v] /\ k # NoJob
        BY <2>1, JobAssumption
      <3>2. ASSUME k # j PROVE IntentGoesOn(k)
        BY <1>4, <3>2 DEF SameIntent, IntentGoesOn
      <3>3. ASSUME k = j PROVE IntentGoesOn(k)
        <4>1. Struck
          BY <1>1, <1>6, <3>1, <3>3, HookAlone
        <4>2. inbox[j] \in Nat
          BY <1>1 DEF HookTyped
        <4> QED
          BY <1>1, <3>3, <4>1, <4>2 DEF TouchesOnly, IntentGoesOn
      <3> QED
        BY <3>1, <3>2, <3>3
    <2>2. sending'[v] = sending[v] /\ handling'[v] = handling[v]
      BY <1>6 DEF TouchesOnly
    <2> QED
      BY <1>1, <1>3, <2>1, <2>2, SenderRests DEF SendersOK
  <1>7. SendersOK'
    BY <1>6 DEF SendersOK
  <1>8. RowsKnown'
    <2> SUFFICES ASSUME NEW row \in deliveries' PROVE phase'[row.job] # "absent"
      BY DEF RowsKnown
    <2>1. CASE row \in deliveries
      <3>1. row.job \in Jobs /\ phase[row.job] # "absent"
        BY <1>1, <2>1 DEF HookTyped, Rows, RowsKnown
      <3> QED
        BY <3>1 DEF TouchesOnly
    <2>2. CASE row \notin deliveries
      BY <2>2 DEF TouchesOnly
    <2> QED
      BY <2>1, <2>2
  <1> QED
    BY <1>2, <1>5, <1>7, <1>8 DEF HookIInv

\* The intents and the inbox are left alone by the two reads of an attempt.
LEMMA GotoAlone ==
  ASSUME HookIInv, NEW w \in Workers, NEW j \in Jobs, j = handling[w], EventOK(j),
         phase[j] # "absent", NEW pc \in {"authorize", "refuse", "send"}, Goto(w, pc),
         UNCHANGED <<jobVars, aside, deliveries, inbox, barred>>
  PROVE  /\ TouchesOnly(w, j) /\ EventOK(j)' /\ handling'[w] = j
         /\ sending'[w].pc = pc /\ sending'[w].attempt = sending[w].attempt
         /\ BarredOK(w)' <=>
               /\ <<w, "endpoint">> \in barred => ~Deliverable /\ pc = "refuse"
               /\ <<w, "access">> \in barred => ~readable /\ pc \in {"authorize", "refuse"}
  <1>1. /\ HookTyped /\ NobodyIsLeft
        /\ UNCHANGED <<phase, attempts, faults, handling, abandoned, endpoint, readable, edit>>
        /\ UNCHANGED <<eventOf, deliveries, inbox, barred>>
    BY DEF HookIInv, jobVars, aside, admin, events
  <1>2. /\ SendingTyped'
        /\ sending'[w].pc = pc /\ sending'[w].attempt = sending[w].attempt
        /\ \A v \in Workers : v # w => sending'[v] = sending[v]
    BY <1>1 DEF Goto, HookTyped, SendingTyped
  <1>3. TouchesOnly(w, j)
    BY <1>1, <1>2 DEF TouchesOnly, HookTyped, NobodyIsLeft, Struck
  <1>4. EventOK(j)'
    BY <1>1 DEF EventOK, Explained, Explains, Live, Deleted, Struck
  <1> QED
    BY <1>1, <1>2, <1>3, <1>4 DEF BarredOK, Deliverable, Live

LEMMA LoadKeeps ==
  ASSUME HookIInv, ConsumerInv', NEW w \in Workers, load(w)
  PROVE  HookIInv'
  <1>1. At(w, "load") /\ ~At(w, "idle")
    BY DEF load, At
  <1>2. PICK j \in Jobs :
           /\ j = handling[w] /\ j # NoJob /\ EventOK(j) /\ AttemptOK(w, j) /\ BarredOK(w)
    BY <1>1, HookUnderWay
  <1>3. PICK pc \in {"authorize", "refuse"} :
           /\ Goto(w, pc) /\ (pc = "authorize" <=> Deliverable)
           /\ UNCHANGED <<jobVars, aside, deliveries, inbox, barred>>
    BY DEF load
  <1>4. /\ TouchesOnly(w, j) /\ EventOK(j)' /\ handling'[w] = j
        /\ sending'[w].pc = pc /\ sending'[w].attempt = sending[w].attempt
        /\ BarredOK(w)' <=>
              /\ <<w, "endpoint">> \in barred => ~Deliverable /\ pc = "refuse"
              /\ <<w, "access">> \in barred => ~readable /\ pc \in {"authorize", "refuse"}
    BY <1>2, <1>3, GotoAlone DEF AttemptOK
  <1>5. BarredOK(w)'
    BY <1>2, <1>3, <1>4 DEF BarredOK
  <1>6. AttemptOK(w, j)'
    <2>1. Deliverable => ~Deleted
      BY DEF Deliverable, Live, Deleted
    <2> QED
      BY <1>1, <1>2, <1>3, <1>4, <2>1 DEF AttemptOK, At, Struck, jobVars
  <1>7. SenderOK(w)'
    BY <1>2, <1>4, <1>5, <1>6 DEF SenderOK, At
  <1> QED
    BY <1>2, <1>4, <1>7, TouchesOnlyKeeps

LEMMA AuthorizeKeeps ==
  ASSUME HookIInv, ConsumerInv', NEW w \in Workers, authorize(w)
  PROVE  HookIInv'
  <1>1. At(w, "authorize") /\ ~At(w, "idle")
    BY DEF authorize, At
  <1>2. PICK j \in Jobs :
           /\ j = handling[w] /\ j # NoJob /\ EventOK(j) /\ AttemptOK(w, j) /\ BarredOK(w)
    BY <1>1, HookUnderWay
  <1>3. PICK pc \in {"send", "refuse"} :
           /\ Goto(w, pc) /\ (pc = "send" => readable)
           /\ UNCHANGED <<jobVars, aside, deliveries, inbox, barred>>
    BY DEF authorize
  <1>4. /\ TouchesOnly(w, j) /\ EventOK(j)' /\ handling'[w] = j
        /\ sending'[w].pc = pc /\ sending'[w].attempt = sending[w].attempt
        /\ BarredOK(w)' <=>
              /\ <<w, "endpoint">> \in barred => ~Deliverable /\ pc = "refuse"
              /\ <<w, "access">> \in barred => ~readable /\ pc \in {"authorize", "refuse"}
    BY <1>2, <1>3, GotoAlone DEF AttemptOK
  <1>5. BarredOK(w)'
    BY <1>1, <1>2, <1>3, <1>4 DEF BarredOK, At
  <1>6. AttemptOK(w, j)'
    BY <1>1, <1>2, <1>3, <1>4 DEF AttemptOK, At, Struck, jobVars
  <1>7. SenderOK(w)'
    BY <1>2, <1>4, <1>5, <1>6 DEF SenderOK, At
  <1> QED
    BY <1>2, <1>4, <1>7, TouchesOnlyKeeps

LEMMA SendKeeps ==
  ASSUME HookIInv, ConsumerInv', NEW w \in Workers, sendWebhook(w)
  PROVE  HookIInv'
  <1>1. At(w, "send") /\ ~At(w, "idle")
    BY DEF sendWebhook, At
  <1>2. PICK j \in Jobs :
           /\ j = handling[w] /\ j # NoJob /\ EventOK(j) /\ AttemptOK(w, j) /\ BarredOK(w)
           /\ ~Struck => phase[j] = "executing" /\ w \notin abandoned
    BY <1>1, HookUnderWay
  <1>3. /\ HookTyped /\ NobodyIsLeft /\ inbox[j] \in Nat /\ faults \in Nat
        /\ UNCHANGED <<phase, attempts, handling, abandoned, endpoint, readable, edit>>
        /\ UNCHANGED <<eventOf, deliveries, barred>>
    BY DEF HookIInv, HookTyped, sendWebhook, aside, admin, events
  <1>4. PICK result \in Results :
           /\ sending' = [sending EXCEPT ![w].pc = "record", ![w].result = result]
           /\ \/ /\ inbox' = [inbox EXCEPT ![j] = @ + 1]
                 /\ (result = "success" /\ faults' = faults) \/ faults' = faults + 1
              \/ result # "success" /\ inbox' = inbox /\ faults' = faults
    BY <1>2 DEF sendWebhook, Fault, Results
  <1>5. /\ faults' \in Nat /\ (Struck => Struck') /\ NobodyIsLeft' /\ inbox' \in [Jobs -> Nat]
        /\ \A k \in Jobs : k # j => inbox'[k] = inbox[k]
        /\ \/ /\ inbox'[j] = inbox[j] + 1
              /\ result = "success" \/ Struck'
           \/ inbox'[j] = inbox[j] /\ result # "success"
    BY <1>3, <1>4 DEF HookTyped, NobodyIsLeft, Struck
  <1>6. /\ SendingTyped'
        /\ sending'[w].pc = "record" /\ sending'[w].result = result
        /\ sending'[w].attempt = sending[w].attempt
        /\ \A v \in Workers : v # w => sending'[v] = sending[v]
    BY <1>3, <1>4 DEF HookTyped, SendingTyped
  <1>7. TouchesOnly(w, j)
    BY <1>2, <1>3, <1>5, <1>6 DEF TouchesOnly, HookTyped, AttemptOK
  <1>8. ~Struck => inbox[j] = 0
    BY <1>1, <1>2 DEF AttemptOK
  <1>9. EventOK(j)'
    <2>1. phase[j] = "done" /\ Live => Explained(j)'
      BY <1>2, <1>3, <1>5, ExplainedStill DEF EventOK
    <2> QED
      BY <1>2, <1>3, <1>5, <1>8, <2>1 DEF EventOK, Live, Deleted
  <1>10. BarredOK(w)'
    BY <1>1, <1>2, <1>3 DEF BarredOK, At
  <1>11. AttemptOK(w, j)'
    BY <1>2, <1>3, <1>5, <1>6, <1>8 DEF AttemptOK, At
  <1>12. SenderOK(w)'
    BY <1>2, <1>3, <1>6, <1>10, <1>11 DEF SenderOK, At
  <1> QED
    BY <1>2, <1>7, <1>9, <1>12, TouchesOnlyKeeps

\* The end of an invocation; without a fault before it, it decides about its intent.
LEMMA HookEndAt ==
  ASSUME HookIInv, NEW w \in Workers, NEW j \in Jobs, j = handling[w],
         NEW outcome \in {"done", "accepted", "dead"}, End(w, outcome),
         faults' \in {faults, faults + 1}
  PROVE  /\ handling'[w] = NoJob /\ attempts' = attempts
         /\ \A v \in Workers : v # w => handling'[v] = handling[v]
         /\ \A k \in Jobs : k # j => phase'[k] = phase[k]
         /\ phase'[j] \in {phase[j], outcome}
         /\ ~Struck => phase'[j] = outcome
         /\ NobodyIsLeft' /\ faults' \in Nat /\ (Struck => Struck')
  <1>1. /\ ConsumerTypeOK /\ NobodyIsLeft /\ faults \in Nat
        /\ handling[w] # NoJob /\ handling' = [handling EXCEPT ![w] = NoJob]
        /\ abandoned' = abandoned \ {w} /\ attempts' = attempts
    BY DEF HookIInv, ConsumerInv, HookTyped, End
  <1>2. /\ phase' = phase \/ phase' = [phase EXCEPT ![j] = outcome]
        /\ ~Struck => phase' = [phase EXCEPT ![j] = outcome]
    BY <1>1 DEF End, NobodyIsLeft
  <1>3. faults' \in Nat /\ (Struck => Struck') /\ NobodyIsLeft'
    BY <1>1 DEF Struck, NobodyIsLeft
  <1> QED
    BY <1>1, <1>2, <1>3 DEF ConsumerTypeOK

\* Whoever leaves is not barred any more.
LEMMA LeavesAt ==
  ASSUME HookIInv, NEW w \in Workers, Leave(w), handling'[w] = NoJob,
         barred' = barred \ ({w} \X Reasons)
  PROVE  /\ SendingTyped' /\ SenderOK(w)'
         /\ \A v \in Workers : v # w => sending'[v] = sending[v]
  <1>1. SendingTyped
    BY DEF HookIInv, HookTyped
  <1>2. /\ SendingTyped' /\ sending'[w].pc = "idle"
        /\ \A v \in Workers : v # w => sending'[v] = sending[v]
    BY <1>1, JobAssumption DEF SendingTyped, Leave, Waiting
  <1>3. BarredOK(w)'
    BY DEF BarredOK, Reasons
  <1> QED
    BY <1>2, <1>3 DEF SenderOK, At

LEMMA RecordKeeps ==
  ASSUME HookIInv, ConsumerInv', NEW w \in Workers, record(w)
  PROVE  HookIInv'
  <1>1. (At(w, "record") \/ At(w, "refuse")) /\ ~At(w, "idle")
    BY DEF record, At
  <1>2. PICK j \in Jobs :
           /\ j = handling[w] /\ j # NoJob /\ EventOK(j) /\ AttemptOK(w, j)
           /\ ~Struck => phase[j] = "executing" /\ w \notin abandoned
    BY <1>1, HookUnderWay
  <1>3. /\ HookTyped /\ inbox[j] \in Nat /\ attempts[j] \in 0..MaxAttempts
        /\ UNCHANGED <<endpoint, readable, edit, eventOf, inbox, faults>>
        /\ barred' = barred \ ({w} \X Reasons) /\ Leave(w)
        /\ deliveries' = IF Live THEN deliveries \cup {Row(w)} ELSE deliveries
    BY DEF HookIInv, ConsumerInv, ConsumerTypeOK, HookTyped, record, Returns, Throws, aside,
           admin, events, Reasons
  <1>4. /\ Outcome(w) \in Results
        /\ Outcome(w) = "success" => inbox[j] > 0
        /\ ~Struck /\ Live /\ Outcome(w) = "retrying" =>
              inbox[j] = 0 /\ attempts[j] < MaxAttempts
    BY <1>1, <1>2, <1>3, JobAssumption DEF AttemptOK, Outcome, At, Results, Live, Deleted
  <1>5. Row(w) \in Rows /\ Row(w).job = j /\ Row(w).status = Outcome(w)
    BY <1>2, <1>4 DEF Row, Rows, AttemptOK
  <1>6. PICK outcome \in {"done", "accepted", "dead"} :
           /\ End(w, outcome)
           /\ outcome = "done" => Live /\ Outcome(w) # "retrying"
           /\ outcome # "done" => ~Live \/ Outcome(w) = "retrying"
           /\ outcome = "accepted" <=> outcome # "done" /\ attempts[j] < MaxAttempts
    BY <1>2 DEF record, Returns, Throws, AfterThrow
  <1>7. /\ handling'[w] = NoJob /\ attempts' = attempts
        /\ \A v \in Workers : v # w => handling'[v] = handling[v]
        /\ \A k \in Jobs : k # j => phase'[k] = phase[k]
        /\ phase'[j] \in {phase[j], outcome}
        /\ ~Struck => phase'[j] = outcome
        /\ NobodyIsLeft' /\ faults' \in Nat /\ (Struck => Struck')
    BY <1>2, <1>3, <1>6, HookEndAt
  <1>8. /\ SendingTyped' /\ SenderOK(w)'
        /\ \A v \in Workers : v # w => sending'[v] = sending[v]
    BY <1>3, <1>7, LeavesAt
  <1>9. TouchesOnly(w, j)
    BY <1>2, <1>3, <1>5, <1>7, <1>8 DEF TouchesOnly, HookTyped, AttemptOK
  <1>10. phase'[j] = "done" /\ Live' => Explained(j)'
    <2>1. CASE outcome = "done"
      <3>1. Row(w) \in deliveries'
        BY <1>3, <1>6, <2>1
      <3>2. inbox' = inbox /\ (Outcome(w) = "success" => inbox[j] > 0)
        BY <1>3, <1>4
      <3> DEFINE row == Row(w)
      <3>3. row \in deliveries' /\ row.job = j /\ row.status = Outcome(w)
        BY <1>5, <3>1
      <3> HIDE DEF row
      <3>4. PICK r \in deliveries' : r.job = j /\ r.status = Outcome(w)
        BY <3>3
      <3>5. PICK status : status = Outcome(w)
        OBVIOUS
      <3>6. r.status = status /\ status # "retrying" /\ (status = "success" => inbox'[j] > 0)
        BY <1>6, <2>1, <3>2, <3>4, <3>5
      <3> QED
        BY <3>4, <3>6 DEF Explained, Explains
    <2>2. CASE outcome # "done"
      <3>1. phase'[j] = "done" /\ Live' => Explained(j)
        BY <1>2, <1>3, <1>7, <2>2 DEF EventOK, Live
      <3> QED
        BY <1>3, <3>1, ExplainedStill
    <2> QED
      BY <2>1, <2>2
  <1>11. EventOK(j)'
    <2>1. phase[j] # "absent" /\ phase'[j] # "absent" /\ endpoint.row # "none"
      BY <1>2, <1>7 DEF EventOK, AttemptOK
    <2>2. Live \/ Deleted
      BY <1>3, <2>1 DEF Live, Deleted, HookTyped, AdminTyped, Endpoints
    <2>3. ASSUME ~Struck'
          PROVE  /\ inbox[j] <= 1
                 /\ phase'[j] = "accepted" => inbox[j] = 0 \/ Deleted
                 /\ phase'[j] = "dead" => Deleted
      <3>1. ~Struck /\ phase'[j] = outcome /\ inbox[j] <= 1
        BY <1>2, <1>7, <2>3 DEF EventOK
      <3>2. outcome # "done" /\ ~Deleted => Outcome(w) = "retrying" /\ Live
        BY <1>6, <2>2
      <3> QED
        BY <1>4, <1>6, <3>1, <3>2
    <2> QED
      BY <1>2, <1>3, <1>10, <2>1, <2>3 DEF EventOK, Deleted
  <1> QED
    BY <1>2, <1>8, <1>9, <1>11, TouchesOnlyKeeps

LEMMA FailureKeeps ==
  ASSUME HookIInv, ConsumerInv', NEW w \in Workers, attemptFails(w)
  PROVE  HookIInv'
  <1>1. ~At(w, "idle")
    BY DEF attemptFails
  <1>2. PICK j \in Jobs : j = handling[w] /\ j # NoJob /\ EventOK(j) /\ AttemptOK(w, j)
    BY <1>1, HookUnderWay
  <1>3. /\ HookTyped /\ faults \in Nat /\ faults' = faults + 1
        /\ UNCHANGED <<endpoint, readable, edit, eventOf, deliveries, inbox>>
        /\ barred' = barred \ ({w} \X Reasons) /\ Leave(w)
    BY DEF HookIInv, HookTyped, attemptFails, Fails, Dies, Fault, aside, admin, events, Reasons
  <1>4. PICK outcome \in {"accepted", "dead"} : End(w, outcome)
    BY DEF attemptFails, Fails, Dies, AfterThrow
  <1>5. /\ handling'[w] = NoJob /\ attempts' = attempts
        /\ \A v \in Workers : v # w => handling'[v] = handling[v]
        /\ \A k \in Jobs : k # j => phase'[k] = phase[k]
        /\ phase'[j] \in {phase[j], outcome}
        /\ NobodyIsLeft' /\ faults' \in Nat /\ (Struck => Struck')
    BY <1>2, <1>3, <1>4, HookEndAt
  <1>6. /\ SendingTyped' /\ SenderOK(w)'
        /\ \A v \in Workers : v # w => sending'[v] = sending[v]
    BY <1>3, <1>5, LeavesAt
  <1>7. TouchesOnly(w, j)
    BY <1>2, <1>3, <1>5, <1>6 DEF TouchesOnly, HookTyped, AttemptOK
  <1>8. Struck'
    BY <1>3 DEF Struck
  <1>9. EventOK(j)'
    <2>1. phase'[j] = "done" /\ Live' => Explained(j)'
      BY <1>2, <1>3, <1>5, ExplainedStill DEF EventOK, Live
    <2> QED
      BY <1>2, <1>3, <1>5, <1>8, <2>1 DEF EventOK, AttemptOK
  <1> QED
    BY <1>2, <1>6, <1>7, <1>9, TouchesOnlyKeeps

LEMMA NextHook == HookIInv /\ [WebhookNext]_webhookVars => HookIInv'
  <1> SUFFICES ASSUME HookIInv, [WebhookNext]_webhookVars PROVE HookIInv'
    OBVIOUS
  <1>1. ConsumerInv'
    BY HookKeepsConsumer DEF HookIInv
  <1>2. ASSUME Administer PROVE HookIInv'
    BY <1>1, <1>2, AdministerKeeps
  <1>3. ASSUME accessChanges \/ UNCHANGED webhookVars \/ \E j \in Jobs : prune(j)
        PROVE  HookIInv'
    BY <1>1, <1>3, RestKeeps
  <1>4. ASSUME NEW j \in Jobs, scheduleWebhookDeliveries(j) \/ retryDelivery(j)
        PROVE  HookIInv'
    BY <1>1, <1>4, ScheduleKeeps
  <1>5. ASSUME NEW w \in Workers, NEW j \in Jobs, handle(w, j) PROVE HookIInv'
    BY <1>1, <1>5, HookHandleKeeps
  <1>6. ASSUME NEW w \in Workers, attempt(w) \/ attemptFails(w) PROVE HookIInv'
    BY <1>1, <1>6, LoadKeeps, AuthorizeKeeps, SendKeeps, RecordKeeps, FailureKeeps DEF attempt
  <1>7. ASSUME Around, UNCHANGED <<aside, run, barred>> PROVE HookIInv'
    BY <1>1, <1>7, HookAroundKeeps
  <1> QED
    BY <1>2, <1>3, <1>4, <1>5, <1>6, <1>7 DEF WebhookNext

----------------------------------------------------------------------------
(* Webhook events: the theorems.                                           *)

\* What an operator reads about an event is true, however the endpoint is administered
\* meanwhile: it is buried and delivered again only where something struck (or where the
\* endpoint is gone), and what is done has a final row that does not claim a success the
\* receiver never saw (webhook-delivery.worker.service.ts).
THEOREM HooksAreTrue == WebhookSpec => []WebhookInv
  BY InitHook, NextHook, HookIInvImplies, PTL DEF WebhookSpec

LEMMA BarredSendsNothing ==
  ASSUME HookIInv, NEW w \in Workers, Sends(w)
  PROVE  barred \cap ({w} \X {"endpoint", "access"}) = {}
  <1>1. BarredOK(w)
    BY DEF HookIInv, SendersOK, SenderOK
  <1>2. <<w, "endpoint">> \notin barred /\ <<w, "access">> \notin barred
    BY <1>1 DEF BarredOK, Sends, At
  <1> QED
    BY <1>2

\* An attempt that began when its endpoint was disabled, moved, unverified or deleted, or
\* when the creator had lost the resource, sends nothing unless that was mended meanwhile:
\* each attempt reads both again, and no step leads past the reading (authorize).
THEOREM EntitledSendsOnly == WebhookSpec => SendsOnlyIfEntitled
  <1>1. HookIInv /\ [WebhookNext]_webhookVars =>
           [\A w \in Workers :
               Sends(w) => barred \cap ({w} \X {"endpoint", "access"}) = {}]_webhookVars
    BY BarredSendsNothing
  <1> QED
    BY <1>1, InitHook, NextHook, PTL DEF WebhookSpec, SendsOnlyIfEntitled

\* Whatever the webhook handlers do, their intents behave as JobPromise says.
THEOREM HooksKeepPromise == WebhookSpec => IntentsKeepPromise
  <1>1. WebhookInit => ConsumerInv /\ Promise!Init
    BY JobInitConsumerInv, JobInitIsPromised DEF WebhookInit
  <1>2. ConsumerInv /\ [WebhookNext]_webhookVars => ConsumerInv' /\ [Promise!Next]_phase
    BY HookKeepsConsumer
  <1> QED
    BY <1>1, <1>2, PTL DEF WebhookSpec, IntentsKeepPromise, Promise!Spec

----------------------------------------------------------------------------
(* Syncs of the search index: the invariant.                               *)

\* An open intent owes the index a note.
Unsettled(j) == phase[j] \in {"accepted", "executing"}
Owes(j, n) == n \in batch[j] /\ Unsettled(j)
Owed(n) == \E j \in Jobs : Owes(j, n)
OwedElsewhere(w, n) == \E j \in Jobs : j # handling[w] /\ Owes(j, n)

Documented == [Notes -> 0..MaxChanges]
Syncs == [pc : {"idle", "upsert", "delete"}, read : Documented, ids : SUBSET Notes]
Reindexes ==
    [pc : {"none", "project", "list", "liveness", "drift", "stale", "recreated", "finish"},
     read : Documented, ids : SUBSET Notes, boundary : Nat, begun : Nat, quiet : BOOLEAN]

SearchTyped ==
    /\ stateOf \in Documented
    /\ index \in Documented
    /\ clock \in Nat
    /\ batch \in [Jobs -> SUBSET Notes]
    /\ syncing \in [Workers -> Syncs]
    /\ reindex \in Reindexes
    /\ overlapped \in BOOLEAN
    /\ faults \in Nat

\* An invocation syncs the notes of the intent it handles.
SyncsItsBatch ==
    \A w \in Workers :
        /\ syncing[w].pc # "idle" <=> handling[w] # NoJob
        /\ \A n \in Notes \ syncing[w].ids : syncing[w].read[n] = NoDocument

BatchesHeld ==
    \A w \in Workers :
        handling[w] # NoJob => syncing[w].ids = batch[handling[w]]

HandledIsAccepted ==
    \A w \in Workers : handling[w] # NoJob => phase[handling[w]] # "absent"

\* Nothing has struck, and no two writers of the index have been at work together.
Plain == ~Struck /\ ~overlapped

NobodyIsAbandoned == ~Struck => abandoned = {}

\* Without an overlap there is one writer at most: an invocation or the rebuild.
OneWriter ==
    ~overlapped =>
        /\ \A v, w \in Writing : v = w
        /\ Writing # {} => reindex.pc = "none"

\* What a writer has read is current, or another intent owes the note.
ReadOK(w, n) ==
    /\ syncing[w].read[n] # stateOf[n] => OwedElsewhere(w, n)
    /\ syncing[w].pc = "delete" /\ syncing[w].read[n] # NoDocument =>
          index[n] = syncing[w].read[n]
ReadsAreOwed == Plain => \A w \in Writing : \A n \in syncing[w].ids : ReadOK(w, n)

\* The rebuild under way leaves a document that is current as it is.
Untouched(n) ==
    /\ index[n] = stateOf[n]
    /\ reindex.read[n] \in {NoDocument, stateOf[n]}
    /\ reindex.pc \in {"drift", "stale"} /\ n \in reindex.ids => stateOf[n] = NoDocument

\* What is or may come to be out of date is owed by an open intent.
DriftIsOwed == Plain => \A n \in Notes : Untouched(n) \/ Owed(n)

BetweenRebuilds == reindex.pc = "none" => reindex.read = Blank

\* What a rebuild nothing has disturbed has left to do for a note at each of its stages:
\* write it, find that it is gone, delete its document.
RepairOf(n) ==
    /\ reindex.pc = "project" => reindex.read[n] = stateOf[n]
    /\ reindex.pc # "project" /\ stateOf[n] # NoDocument => index[n] = stateOf[n]
    /\ reindex.pc = "liveness" /\ index[n] # NoDocument => n \in reindex.ids
    /\ reindex.pc \in {"drift", "stale"} /\ index[n] # stateOf[n] => n \in reindex.ids
    /\ reindex.pc \in {"drift", "stale", "recreated"} /\ n \in reindex.ids =>
          stateOf[n] = NoDocument
    /\ reindex.pc \in {"recreated", "finish"} => index[n] = stateOf[n]
    /\ reindex.pc \in {"drift", "finish"} => reindex.read[n] \in {NoDocument, stateOf[n]}

RepairIsUndisturbed ==
    reindex.pc # "none" /\ reindex.quiet =>
        /\ Writing = {}
        /\ \A n \in Notes : RepairOf(n)

SearchOK ==
    /\ SearchTyped
    /\ SyncsItsBatch
    /\ BatchesHeld
    /\ HandledIsAccepted
    /\ NobodyIsAbandoned
    /\ OneWriter
    /\ ReadsAreOwed
    /\ DriftIsOwed
    /\ BetweenRebuilds
    /\ RepairIsUndisturbed

SearchIInv == ConsumerInv /\ SearchOK

LEMMA IndexInvHolds == SearchIInv => IndexInv
  <1> SUFFICES ASSUME SearchIInv PROVE IndexInv
    OBVIOUS
  <1>1. SearchTypeOK
    BY DEF SearchIInv, SearchOK, SearchTyped, SyncsItsBatch, SearchTypeOK, Documented
  <1>2. ASSUME ~overlapped, NEW n \in Notes, index[n] # stateOf[n], ~Struck
        PROVE  \E j \in Jobs : n \in batch[j] /\ phase[j] \in {"accepted", "executing"}
    BY <1>2 DEF SearchIInv, SearchOK, DriftIsOwed, Plain, Untouched, Owed, Owes, Unsettled
  <1> QED
    BY <1>1, <1>2 DEF IndexInv, DriftIsExplained

LEMMA SearchInitHolds ==
    ASSUME MaxChanges \in Nat, SearchInit
    PROVE  SearchIInv
  <1>1. ConsumerInv
    BY JobInitConsumerInv DEF SearchInit
  <1>2. SearchTyped
    <2>1. Blank \in Documented
      BY DEF Blank, Documented, NoDocument
    <2>2. Idle \in Syncs /\ NoReindex \in Reindexes
      BY <2>1 DEF Idle, Syncs, NoReindex, Reindexes
    <2> QED
      BY <2>1, <2>2 DEF SearchInit, JobInit, IndexInit, SearchTyped
  <1>3. Writing = {}
    BY DEF SearchInit, IndexInit, Idle, Writing
  <1>4. SyncsItsBatch /\ BatchesHeld /\ HandledIsAccepted /\ NobodyIsAbandoned
    BY DEF SearchInit, JobInit, IndexInit, SyncsItsBatch, BatchesHeld, HandledIsAccepted,
           NobodyIsAbandoned, Idle, Blank, NoDocument
  <1>5. OneWriter /\ ReadsAreOwed
    BY <1>3 DEF OneWriter, ReadsAreOwed
  <1>6. DriftIsOwed /\ BetweenRebuilds /\ RepairIsUndisturbed
    BY DEF SearchInit, IndexInit, DriftIsOwed, Untouched, BetweenRebuilds,
           RepairIsUndisturbed, Blank, NoReindex, NoDocument
  <1> QED
    BY <1>1, <1>2, <1>4, <1>5, <1>6 DEF SearchIInv, SearchOK

LEMMA SearchStepIsJobStep == [SearchNext]_searchVars => JobStep \/ IntentsRest
  <1> SUFFICES ASSUME [SearchNext]_searchVars PROVE JobStep \/ IntentsRest
    OBVIOUS
  <1>1. ASSUME NEW j \in Jobs, NEW ids, NEW live, change(j, ids, live)
        PROVE  JobStep
    BY <1>1 DEF change, JobStep
  <1>2. ASSUME NEW w \in Workers, NEW j \in Jobs, handleRead(w, j)
        PROVE  JobStep
    BY <1>2 DEF handleRead, JobStep
  <1>3. ASSUME NEW w \in Workers, handleDelete(w) \/ handleFails(w)
        PROVE  JobStep
    <2>1. \E outcome \in {"done", "dead", AfterThrow(w)} : End(w, outcome)
      BY <1>3 DEF handleDelete, handleFails, Returns, Fails, Dies
    <2> QED  BY <2>1 DEF JobStep
  <1>4. ASSUME NEW w \in Workers, handleUpsert(w)
        PROVE  IntentsRest
    BY <1>4 DEF handleUpsert, jobVars, IntentsRest
  <1>5. around => JobStep
    BY DEF around, JobStep
  <1>6. reindexPage \/ ReindexStep => IntentsRest
    BY DEF reindexPage, ReindexStep, reindexProject, reindexList, reindexLiveness, reindexDrift,
           reindexStale, reindexRecreated, reindexFinish, Elsewhere, jobVars, IntentsRest
  <1>7. UNCHANGED searchVars => IntentsRest
    BY DEF searchVars, jobVars, IntentsRest
  <1> QED
    BY <1>1, <1>2, <1>3, <1>4, <1>5, <1>6, <1>7 DEF SearchNext, Handling

\* No step makes an intent that is being handled absent.
LEMMA HandledStaysAccepted ==
    ASSUME ConsumerInv, HandledIsAccepted, JobStep \/ IntentsRest
    PROVE  HandledIsAccepted'
  <1> USE DEF HandledIsAccepted, ConsumerInv, ConsumerTypeOK
  <1>1. ASSUME NEW w \in Workers, NEW outcome \in {"done", "dead", AfterThrow(w)},
               End(w, outcome)
        PROVE  HandledIsAccepted'
    <2>1. outcome # "absent"
      BY DEF AfterThrow
    <2>2. handling[w] \in Jobs
      BY <1>1 DEF End
    <2> QED  BY <1>1, <2>1, <2>2 DEF End
  <1>2. ASSUME NEW j \in Jobs, Accept(j) PROVE HandledIsAccepted'
    BY <1>2 DEF Accept
  <1>3. ASSUME NEW w \in Workers, NEW j \in Jobs, Begin(w, j) PROVE HandledIsAccepted'
    BY <1>3 DEF Begin
  <1>4. ASSUME NEW w \in Workers, TimesOut(w) PROVE HandledIsAccepted'
    BY <1>4 DEF TimesOut
  <1>5. ASSUME NEW j \in Jobs, Refused(j) \/ OperatorRetry(j) PROVE HandledIsAccepted'
    BY <1>5 DEF Refused, OperatorRetry
  <1>6. IntentsRest => HandledIsAccepted'
    BY DEF IntentsRest
  <1> QED
    BY <1>1, <1>2, <1>3, <1>4, <1>5, <1>6 DEF JobStep, Around

\* A change of notes gives an intent that was absent the notes it concerns.
LEMMA ChangeKeepsSearch ==
    ASSUME SearchIInv, HandledIsAccepted', MaxChanges \in Nat,
           NEW j \in Jobs, NEW ids \in SUBSET Notes, NEW live \in BOOLEAN,
           change(j, ids, live)
    PROVE  SearchOK'
  <1> USE DEF SearchIInv, SearchOK
  <1>1. /\ phase[j] = "absent" /\ phase' = [phase EXCEPT ![j] = "accepted"]
        /\ batch' = [batch EXCEPT ![j] = ids]
        /\ reindex' = [reindex EXCEPT !.quiet = FALSE]
        /\ UNCHANGED <<index, syncing, overlapped, faults, handling, abandoned>>
        /\ clock' = clock + 1 /\ clock < MaxChanges
    BY DEF change, Accept
  <1>2. stateOf' = [n \in Notes |-> IF n \notin ids THEN stateOf[n]
                                    ELSE IF live THEN clock + 1 ELSE NoDocument]
    BY DEF change
  <1>3. SearchTyped'
    <2>1. clock + 1 \in 0..MaxChanges /\ 0 \in 0..MaxChanges
      BY <1>1 DEF SearchTyped
    <2>2. stateOf' \in Documented
      BY <1>2, <2>1 DEF SearchTyped, Documented, NoDocument
    <2>3. reindex' \in Reindexes
      BY <1>1 DEF SearchTyped, Reindexes
    <2> QED
      BY <1>1, <2>2, <2>3 DEF SearchTyped
  <1>4. \A w \in Workers : handling[w] # j
    BY <1>1, JobAssumption DEF HandledIsAccepted
  <1>5. SyncsItsBatch' /\ BatchesHeld' /\ NobodyIsAbandoned' /\ BetweenRebuilds'
    BY <1>1, <1>4, JobAssumption
       DEF SyncsItsBatch, BatchesHeld, NobodyIsAbandoned, BetweenRebuilds, SearchTyped, Struck,
           ConsumerInv, ConsumerTypeOK
  <1>6. Writing' = Writing
    BY <1>1 DEF Writing
  <1>7. OneWriter'
    BY <1>1, <1>6 DEF OneWriter, SearchTyped
  <1>8. RepairIsUndisturbed'
    BY <1>1 DEF RepairIsUndisturbed, SearchTyped
  <1>9. \A k \in Jobs, n \in Notes : Owes(k, n) => k # j /\ Owes(k, n)'
    BY <1>1 DEF Owes, Unsettled, SearchTyped, ConsumerInv, ConsumerTypeOK
  <1>10. \A n \in ids : Owes(j, n)'
    BY <1>1 DEF Owes, Unsettled, SearchTyped, ConsumerInv, ConsumerTypeOK
  <1>11. \A n \in Notes \ ids : stateOf'[n] = stateOf[n]
    BY <1>2
  <1>12. Plain' <=> Plain
    BY <1>1 DEF Plain, Struck
  <1>13. ReadsAreOwed'
    <2> SUFFICES ASSUME Plain', NEW w \in Writing', NEW n \in (syncing[w].ids)'
                 PROVE  ReadOK(w, n)'
      BY DEF ReadsAreOwed
    <2>1. n \in Notes /\ w \in Writing /\ w \in Workers /\ n \in syncing[w].ids
      BY <1>1, <1>6 DEF SearchTyped, Syncs, Writing
    <2>2. ReadOK(w, n)
      BY <2>1, <1>12 DEF ReadsAreOwed
    <2>3. ASSUME syncing[w].read[n] # stateOf'[n]
          PROVE  \E k \in Jobs : k # handling[w] /\ Owes(k, n)'
      <3>1. CASE n \in ids
        BY <3>1, <1>4, <1>10, <2>1
      <3>2. CASE n \notin ids
        BY <3>2, <2>3, <2>1, <2>2, <1>9, <1>11 DEF ReadOK, OwedElsewhere
      <3> QED  BY <3>1, <3>2
    <2> QED
      BY <2>2, <2>3, <1>1 DEF ReadOK, OwedElsewhere
  <1>14. DriftIsOwed'
    <2> SUFFICES ASSUME Plain', NEW n \in Notes
                 PROVE  Untouched(n)' \/ Owed(n)'
      BY DEF DriftIsOwed
    <2>1. CASE n \in ids
      BY <2>1, <1>10 DEF Owed
    <2>2. CASE n \notin ids /\ Owed(n)
      BY <2>2, <1>9 DEF Owed
    <2>3. CASE n \notin ids /\ Untouched(n)
      BY <2>3, <1>1, <1>11 DEF Untouched, SearchTyped
    <2> QED
      BY <2>1, <2>2, <2>3, <1>12 DEF DriftIsOwed
  <1> QED
    BY <1>3, <1>5, <1>7, <1>8, <1>13, <1>14

LEMMA DocumentsRead ==
    ASSUME MaxChanges \in Nat, SearchTyped, NEW ids
    PROVE  Documents(stateOf, ids) \in Documented
  BY DEF Documents, SearchTyped, Documented, NoDocument

\* An invocation begins: it has read the notes as they are.
LEMMA ReadKeepsSearch ==
    ASSUME SearchIInv, HandledIsAccepted', MaxChanges \in Nat,
           NEW w \in Workers, NEW j \in Jobs, handleRead(w, j)
    PROVE  SearchOK'
  <1> USE DEF SearchIInv, SearchOK
  <1> DEFINE docs == Documents(stateOf, batch[j])
  <1> DEFINE s == [pc |-> "upsert", read |-> docs, ids |-> batch[j]]
  <1>1. /\ phase[j] = "accepted" /\ phase' = [phase EXCEPT ![j] = "executing"]
        /\ handling[w] = NoJob /\ handling' = [handling EXCEPT ![w] = j]
        /\ syncing' = [syncing EXCEPT ![w] = s]
        /\ overlapped' = (overlapped \/ AtWork)
        /\ reindex' = [reindex EXCEPT !.quiet = FALSE]
        /\ UNCHANGED <<index, stateOf, clock, batch, faults, abandoned>>
    BY DEF handleRead, Begin, Sync, Overlap, Unread
  <1>2. batch[j] \in SUBSET Notes
    BY DEF SearchTyped
  <1>3. \A n \in batch[j] : docs[n] = stateOf[n]
    BY <1>2 DEF Documents
  <1>4. \A n \in Notes \ batch[j] : docs[n] = NoDocument
    BY DEF Documents
  <1>5. docs \in Documented
    BY DocumentsRead
  <1>6. s \in Syncs /\ s.pc = "upsert" /\ s.read = docs /\ s.ids = batch[j]
    BY <1>2, <1>5 DEF Syncs
  <1> HIDE DEF docs, s
  <1>7. \A v \in Workers : syncing'[v] = IF v = w THEN s ELSE syncing[v]
    BY <1>1 DEF SearchTyped
  <1>8. \A v \in Workers : handling'[v] = IF v = w THEN j ELSE handling[v]
    BY <1>1 DEF ConsumerInv, ConsumerTypeOK
  <1>9. reindex' \in Reindexes /\ reindex'.pc = reindex.pc /\ reindex'.read = reindex.read
        /\ reindex'.ids = reindex.ids /\ ~reindex'.quiet
    BY <1>1 DEF SearchTyped, Reindexes
  <1>10. SearchTyped'
    BY <1>1, <1>6, <1>9 DEF SearchTyped
  <1>11. j # NoJob
    BY JobAssumption
  <1>12. SyncsItsBatch'
    BY <1>4, <1>6, <1>7, <1>8, <1>11 DEF SyncsItsBatch
  <1>13. BatchesHeld'
    BY <1>1, <1>6, <1>7, <1>8 DEF BatchesHeld
  <1>14. NobodyIsAbandoned' /\ BetweenRebuilds' /\ RepairIsUndisturbed'
    BY <1>1, <1>9
       DEF NobodyIsAbandoned, BetweenRebuilds, RepairIsUndisturbed, Struck
  <1>15. ASSUME ~overlapped' PROVE Writing' = {w} /\ reindex.pc = "none" /\ ~overlapped
    <2>1. Writing = {} /\ reindex.pc = "none" /\ ~overlapped
      BY <1>1, <1>15 DEF AtWork
    <2>2. \A v \in Workers : v \in Writing' <=> v = w
      BY <1>6, <1>7, <2>1 DEF Writing
    <2> QED  BY <2>1, <2>2 DEF Writing
  <1>16. OneWriter'
    BY <1>9, <1>15 DEF OneWriter
  <1>17. ReadsAreOwed'
    <2> SUFFICES ASSUME Plain', NEW v \in Writing', NEW n \in (syncing[v].ids)'
                 PROVE  ReadOK(v, n)'
      BY DEF ReadsAreOwed
    <2>1. v = w /\ syncing'[v] = s
      BY <1>7, <1>15 DEF Plain
    <2> QED
      BY <2>1, <1>1, <1>3, <1>6 DEF ReadOK
  <1>18. \A k \in Jobs, n \in Notes : Owes(k, n) => Owes(k, n)'
    BY <1>1 DEF Owes, Unsettled, ConsumerInv, ConsumerTypeOK
  <1>19. DriftIsOwed'
    <2> SUFFICES ASSUME Plain', NEW n \in Notes
                 PROVE  Untouched(n)' \/ Owed(n)'
      BY DEF DriftIsOwed
    <2>1. Plain
      BY <1>1, <1>15 DEF Plain, Struck
    <2>2. CASE Owed(n)
      BY <2>2, <1>18 DEF Owed
    <2>3. CASE Untouched(n)
      BY <2>3, <1>1, <1>9 DEF Untouched
    <2> QED  BY <2>1, <2>2, <2>3 DEF DriftIsOwed
  <1> QED
    BY <1>10, <1>12, <1>13, <1>14, <1>16, <1>17, <1>19

\* Without a fault an invocation at work executes its intent.
LEMMA WriterExecutes ==
    ASSUME SearchIInv, ~Struck, NEW w \in Writing
    PROVE  handling[w] \in Jobs /\ phase[handling[w]] = "executing"
           /\ batch[handling[w]] = syncing[w].ids
  <1>1. handling[w] # NoJob /\ w \in Workers
    BY DEF SearchIInv, SearchOK, SyncsItsBatch, Writing
  <1>2. Attended(w)
    BY <1>1 DEF SearchIInv, SearchOK, NobodyIsAbandoned, Attended
  <1> QED
    BY <1>1, <1>2 DEF SearchIInv, SearchOK, BatchesHeld, ConsumerInv, ConsumerTypeOK,
                      AttendedExecutes

\* What it has read is written.
LEMMA UpsertKeepsSearch ==
    ASSUME SearchIInv, HandledIsAccepted', NEW w \in Workers, handleUpsert(w)
    PROVE  SearchOK'
  <1> USE DEF SearchIInv, SearchOK
  <1> DEFINE docs == syncing[w].read
  <1>1. /\ syncing[w].pc = "upsert"
        /\ syncing' = [syncing EXCEPT ![w] = [syncing[w] EXCEPT !.pc = "delete"]]
        /\ index' = [n \in Notes |-> IF docs[n] # NoDocument THEN docs[n] ELSE index[n]]
        /\ UNCHANGED <<phase, handling, abandoned, faults, stateOf, clock, batch, reindex,
                       overlapped>>
    BY DEF handleUpsert, Syncing, Sync, Upsert, Unread, jobVars
  <1>2. syncing[w] \in Syncs /\ docs \in Documented /\ index \in Documented
    BY DEF SearchTyped, Syncs
  <1>3. index' \in Documented
    BY <1>1, <1>2 DEF Documented
  <1>4. \A v \in Workers : /\ syncing'[v] \in Syncs
                           /\ syncing'[v].read = syncing[v].read
                           /\ syncing'[v].ids = syncing[v].ids
                           /\ syncing'[v].pc = IF v = w THEN "delete" ELSE syncing[v].pc
    BY <1>1 DEF SearchTyped, Syncs
  <1>5. SearchTyped'
    BY <1>1, <1>3, <1>4 DEF SearchTyped
  <1>6. Writing' = Writing /\ w \in Writing
    BY <1>1, <1>4 DEF Writing
  <1>7. SyncsItsBatch' /\ BatchesHeld' /\ NobodyIsAbandoned' /\ BetweenRebuilds'
    BY <1>1, <1>4
       DEF SyncsItsBatch, BatchesHeld, NobodyIsAbandoned, BetweenRebuilds, Struck
  <1>8. OneWriter' /\ RepairIsUndisturbed'
    BY <1>1, <1>6 DEF OneWriter, RepairIsUndisturbed
  <1>9. \A k \in Jobs, n \in Notes : Owes(k, n) <=> Owes(k, n)'
    BY <1>1 DEF Owes, Unsettled
  <1>10. Plain' => Plain /\ \A v \in Writing : v = w
    BY <1>1, <1>6 DEF Plain, Struck, OneWriter
  <1>11. ReadsAreOwed'
    <2> SUFFICES ASSUME Plain', NEW v \in Writing', NEW n \in (syncing[v].ids)'
                 PROVE  ReadOK(v, n)'
      BY DEF ReadsAreOwed
    <2>1. v = w /\ n \in syncing[w].ids /\ n \in Notes
      BY <1>4, <1>6, <1>10, <1>2 DEF Syncs
    <2>2. ReadOK(w, n)
      BY <1>6, <1>10, <2>1 DEF ReadsAreOwed
    <2>3. OwedElsewhere(w, n) => OwedElsewhere(w, n)'
      BY <1>1, <1>9, <2>1 DEF OwedElsewhere
    <2> QED
      BY <1>1, <1>4, <2>1, <2>2, <2>3 DEF ReadOK
  <1>12. DriftIsOwed'
    <2> SUFFICES ASSUME Plain', NEW n \in Notes
                 PROVE  Untouched(n)' \/ Owed(n)'
      BY DEF DriftIsOwed
    <2>1. CASE docs[n] # NoDocument
      <3>1. n \in syncing[w].ids
        BY <2>1 DEF SyncsItsBatch
      <3>2. Owes(handling[w], n) /\ handling[w] \in Jobs
        BY <3>1, <1>6, <1>10, WriterExecutes DEF Plain, Owes, Unsettled
      <3> QED  BY <3>2, <1>9 DEF Owed
    <2>2. CASE docs[n] = NoDocument
      <3>1. index'[n] = index[n]
        BY <1>1, <2>2
      <3>2. Untouched(n) \/ Owed(n)
        BY <1>10 DEF DriftIsOwed
      <3>3. Untouched(n) => Untouched(n)'
        BY <1>1, <3>1 DEF Untouched
      <3>4. Owed(n) => Owed(n)'
        BY <1>9 DEF Owed
      <3> QED  BY <3>2, <3>3, <3>4
    <2> QED  BY <2>1, <2>2
  <1> QED
    BY <1>5, <1>7, <1>8, <1>11, <1>12

\* An invocation ends, and what it has not found is removed.
LEMMA DeleteKeepsSearch ==
    ASSUME SearchIInv, HandledIsAccepted', MaxChanges \in Nat,
           NEW w \in Workers, handleDelete(w)
    PROVE  SearchOK'
  <1> USE DEF SearchIInv, SearchOK
  <1> DEFINE docs == syncing[w].read
  <1> DEFINE gone == syncing[w].ids \ Present(docs)
  <1>1. /\ syncing[w].pc = "delete"
        /\ syncing' = [syncing EXCEPT ![w] = Idle]
        /\ index' = [n \in Notes |-> IF n \in gone THEN NoDocument ELSE index[n]]
        /\ handling' = [handling EXCEPT ![w] = NoJob]
        /\ abandoned' = abandoned \ {w}
        /\ phase' = IF w \in abandoned THEN phase ELSE [phase EXCEPT ![handling[w]] = "done"]
        /\ UNCHANGED <<faults, stateOf, clock, batch, reindex, overlapped>>
    BY DEF handleDelete, Syncing, Sync, Remove, Unread, Returns, End
  <1>2. syncing[w] \in Syncs /\ docs \in Documented /\ index \in Documented
    BY DEF SearchTyped, Syncs
  <1>3. index' \in Documented
    BY <1>1, <1>2 DEF Documented, NoDocument
  <1>4. Idle \in Syncs /\ Idle.pc = "idle" /\ \A n \in Notes : Idle.read[n] = NoDocument
    BY DEF Idle, Syncs, Blank, Documented, NoDocument
  <1>5. \A v \in Workers : syncing'[v] = IF v = w THEN Idle ELSE syncing[v]
    BY <1>1 DEF SearchTyped
  <1>6. \A v \in Workers : handling'[v] = IF v = w THEN NoJob ELSE handling[v]
    BY <1>1 DEF ConsumerInv, ConsumerTypeOK
  <1>7. SearchTyped'
    BY <1>1, <1>3, <1>4 DEF SearchTyped
  <1>8. SyncsItsBatch'
    BY <1>4, <1>5, <1>6 DEF SyncsItsBatch
  <1>9. BatchesHeld' /\ NobodyIsAbandoned' /\ BetweenRebuilds'
    BY <1>1, <1>5, <1>6 DEF BatchesHeld, NobodyIsAbandoned, BetweenRebuilds, Struck
  <1>10. Writing' = Writing \ {w} /\ w \in Writing
    BY <1>1, <1>4, <1>5 DEF Writing
  <1>11. OneWriter' /\ RepairIsUndisturbed'
    BY <1>1, <1>10 DEF OneWriter, RepairIsUndisturbed
  <1>12. Plain' => Plain /\ Writing' = {} /\ Writing = {w}
    BY <1>1, <1>10 DEF Plain, Struck, OneWriter
  <1>13. ReadsAreOwed'
    BY <1>12 DEF ReadsAreOwed
  <1>14. ASSUME Plain, NEW n \in Notes, OwedElsewhere(w, n)
         PROVE  Owed(n)'
    <2>1. PICK k \in Jobs : k # handling[w] /\ Owes(k, n)
      BY <1>14 DEF OwedElsewhere
    <2>2. Owes(k, n)'
      BY <2>1, <1>1 DEF Owes, Unsettled, ConsumerInv, ConsumerTypeOK
    <2> QED  BY <2>2 DEF Owed
  <1>15. DriftIsOwed'
    <2> SUFFICES ASSUME Plain', NEW n \in Notes
                 PROVE  Untouched(n)' \/ Owed(n)'
      BY DEF DriftIsOwed
    <2>1. handling[w] \in Jobs /\ batch[handling[w]] = syncing[w].ids
      BY <1>10, <1>12, WriterExecutes DEF Plain
    <2>2. reindex.pc = "none" /\ reindex.read[n] = NoDocument
      BY <1>10, <1>12 DEF OneWriter, Plain, BetweenRebuilds, Blank
    <2>3. CASE n \in syncing[w].ids
      <3>1. ReadOK(w, n)
        BY <2>3, <1>10, <1>12 DEF ReadsAreOwed
      <3>2. CASE docs[n] # stateOf[n]
        BY <3>1, <3>2, <1>12, <1>14 DEF ReadOK
      <3>3. CASE docs[n] = stateOf[n]
        <4>1. index'[n] = stateOf[n]
          BY <3>1, <3>3, <2>3, <1>1 DEF ReadOK, Present
        <4> QED  BY <4>1, <2>2, <1>1 DEF Untouched
      <3> QED  BY <3>2, <3>3
    <2>4. CASE n \notin syncing[w].ids
      <3>1. index'[n] = index[n]
        BY <2>4, <1>1
      <3>2. Untouched(n) => Untouched(n)'
        BY <3>1, <1>1 DEF Untouched
      <3>3. Owed(n) => OwedElsewhere(w, n)
        BY <2>1, <2>4 DEF Owed, Owes, OwedElsewhere
      <3> QED  BY <3>2, <3>3, <1>12, <1>14 DEF DriftIsOwed
    <2> QED  BY <2>3, <2>4
  <1> QED
    BY <1>7, <1>8, <1>9, <1>11, <1>13, <1>15

\* An invocation fails or dies, which is a fault.
LEMMA FailsKeepsSearch ==
    ASSUME SearchIInv, HandledIsAccepted', MaxChanges \in Nat,
           NEW w \in Workers, handleFails(w)
    PROVE  SearchOK'
  <1> USE DEF SearchIInv, SearchOK
  <1>1. /\ syncing[w].pc # "idle"
        /\ syncing' = [syncing EXCEPT ![w] = Idle]
        /\ handling' = [handling EXCEPT ![w] = NoJob]
        /\ faults' = faults + 1
        /\ UNCHANGED <<index, stateOf, clock, batch, reindex, overlapped>>
    BY DEF handleFails, Sync, Unread, Fails, Dies, Fault, End
  <1>2. Idle \in Syncs /\ Idle.pc = "idle" /\ \A n \in Notes : Idle.read[n] = NoDocument
    BY DEF Idle, Syncs, Blank, Documented, NoDocument
  <1>3. \A v \in Workers : syncing'[v] = IF v = w THEN Idle ELSE syncing[v]
    BY <1>1 DEF SearchTyped
  <1>4. \A v \in Workers : handling'[v] = IF v = w THEN NoJob ELSE handling[v]
    BY <1>1 DEF ConsumerInv, ConsumerTypeOK
  <1>5. SearchTyped' /\ Struck'
    BY <1>1, <1>2 DEF SearchTyped, Struck
  <1>6. SyncsItsBatch'
    BY <1>2, <1>3, <1>4 DEF SyncsItsBatch
  <1>7. BatchesHeld' /\ BetweenRebuilds'
    BY <1>1, <1>3, <1>4 DEF BatchesHeld, BetweenRebuilds
  <1>8. Writing' = Writing \ {w} /\ w \in Writing
    BY <1>1, <1>2, <1>3 DEF Writing
  <1>9. OneWriter' /\ RepairIsUndisturbed'
    BY <1>1, <1>8 DEF OneWriter, RepairIsUndisturbed
  <1>10. ReadsAreOwed' /\ DriftIsOwed' /\ NobodyIsAbandoned'
    BY <1>5 DEF ReadsAreOwed, DriftIsOwed, NobodyIsAbandoned, Plain
  <1> QED
    BY <1>5, <1>6, <1>7, <1>9, <1>10

\* The pipeline gives up on invocations and refuses intents, which are faults, and an
\* operator reopens them.
LEMMA AroundKeepsSearch ==
    ASSUME SearchIInv, HandledIsAccepted', around \/ UNCHANGED searchVars
    PROVE  SearchOK'
  <1> USE DEF SearchIInv, SearchOK
  <1>1. UNCHANGED <<stateOf, clock, batch, index, syncing, reindex, overlapped, handling>>
    BY DEF around, Around, TimesOut, Refused, OperatorRetry, Unread, searchVars, jobVars
  <1>2. Writing' = Writing
    BY <1>1 DEF Writing
  <1>3. SyncsItsBatch' /\ BatchesHeld' /\ OneWriter' /\ BetweenRebuilds'
        /\ RepairIsUndisturbed'
    BY <1>1, <1>2
       DEF SyncsItsBatch, BatchesHeld, OneWriter, BetweenRebuilds, RepairIsUndisturbed, RepairOf
  <1>4. SearchTyped'
    <2>1. faults' \in Nat
      BY DEF around, Around, TimesOut, Refused, OperatorRetry, Fault, searchVars, jobVars,
             SearchTyped
    <2> QED  BY <1>1, <2>1 DEF SearchTyped
  <1>5. CASE Struck'
    BY <1>5, <1>3, <1>4 DEF ReadsAreOwed, DriftIsOwed, NobodyIsAbandoned, Plain
  <1>6. CASE ~Struck'
    <2>1. /\ UNCHANGED <<faults, abandoned>>
          /\ \/ \E j \in Jobs : phase[j] = "dead" /\ phase' = [phase EXCEPT ![j] = "accepted"]
             \/ UNCHANGED phase
      BY <1>6 DEF around, Around, TimesOut, Refused, OperatorRetry, Fault, Struck, SearchTyped,
                  searchVars, jobVars
    <2>2. \A k \in Jobs, n \in Notes : Owes(k, n) => Owes(k, n)'
      BY <2>1, <1>1 DEF Owes, Unsettled, ConsumerInv, ConsumerTypeOK
    <2>3. NobodyIsAbandoned' /\ (Plain' => Plain)
      BY <2>1, <1>1 DEF NobodyIsAbandoned, Plain, Struck
    <2>4. ReadsAreOwed'
      <3> SUFFICES ASSUME Plain', NEW w \in Writing', NEW n \in (syncing[w].ids)'
                   PROVE  ReadOK(w, n)'
        BY DEF ReadsAreOwed
      <3>1. ReadOK(w, n) /\ n \in Notes
        BY <1>1, <1>2, <2>3 DEF ReadsAreOwed, SearchTyped, Syncs, Writing
      <3> QED
        BY <3>1, <1>1, <2>2 DEF ReadOK, OwedElsewhere
    <2>5. DriftIsOwed'
      BY <1>1, <2>2, <2>3 DEF DriftIsOwed, Untouched, Owed
    <2> QED  BY <1>3, <1>4, <2>3, <2>4, <2>5
  <1> QED  BY <1>5, <1>6

\* What a step of the rebuild leaves alone.
RebuildOnly == UNCHANGED <<phase, handling, abandoned, faults, stateOf, clock, batch, syncing>>

LEMMA RebuildKeepsSearch ==
    ASSUME SearchIInv, HandledIsAccepted', RebuildOnly,
           index' \in Documented, reindex' \in Reindexes,
           \/ reindex.pc # "none" /\ overlapped' = overlapped
           \/ overlapped' = (overlapped \/ AtWork),
           Plain' /\ Writing = {} => \A n \in Notes : Untouched(n) => Untouched(n)',
           BetweenRebuilds', RepairIsUndisturbed'
    PROVE  SearchOK'
  <1> USE DEF SearchIInv, SearchOK
  <1>1. SearchTyped'
    BY DEF RebuildOnly, SearchTyped, AtWork
  <1>2. SyncsItsBatch' /\ BatchesHeld' /\ NobodyIsAbandoned'
    BY DEF RebuildOnly, SyncsItsBatch, BatchesHeld, NobodyIsAbandoned, Struck
  <1>3. Writing' = Writing
    BY DEF RebuildOnly, Writing
  <1>4. ~overlapped' => ~overlapped /\ Writing = {}
    BY DEF AtWork, OneWriter
  <1>5. OneWriter' /\ ReadsAreOwed'
    BY <1>3, <1>4 DEF OneWriter, ReadsAreOwed, Plain
  <1>6. DriftIsOwed'
    <2> SUFFICES ASSUME Plain', NEW n \in Notes
                 PROVE  Untouched(n)' \/ Owed(n)'
      BY DEF DriftIsOwed
    <2>1. Plain /\ Writing = {}
      BY <1>4 DEF Plain, Struck, RebuildOnly
    <2>2. Owed(n) => Owed(n)'
      BY DEF Owed, Owes, Unsettled, RebuildOnly
    <2> QED  BY <2>1, <2>2 DEF DriftIsOwed
  <1> QED
    BY <1>1, <1>2, <1>5, <1>6

\* A page of notes is read.
LEMMA PageKeepsSearch ==
    ASSUME SearchIInv, HandledIsAccepted', MaxChanges \in Nat, reindexPage
    PROVE  SearchOK'
  <1> DEFINE docs == Documents(stateOf, Notes)
  <1> DEFINE calm == Writing = {} /\ \A j \in Jobs : phase[j] # "executing"
  <1>1. /\ reindex.pc = "none"
        /\ reindex' = [pc |-> "project", read |-> docs, ids |-> {}, boundary |-> clock,
                       begun |-> reindex.begun + 1, quiet |-> calm]
        /\ overlapped' = (overlapped \/ AtWork)
        /\ index' = index
        /\ RebuildOnly
    BY DEF reindexPage, Reindexing, Overlap, Elsewhere, Unread, jobVars, RebuildOnly
  <1>2. docs \in Documented /\ \A n \in Notes : docs[n] = stateOf[n]
    BY DocumentsRead DEF Documents, SearchIInv, SearchOK
  <1>3. calm \in BOOLEAN /\ (calm => Writing = {})
    OBVIOUS
  <1> HIDE DEF docs, calm
  <1>4. reindex' \in Reindexes
    BY <1>1, <1>2, <1>3 DEF SearchIInv, SearchOK, SearchTyped, Reindexes
  <1>5. reindex'.pc = "project" /\ reindex'.read = docs /\ reindex'.quiet = calm
    BY <1>1
  <1>6. Writing' = Writing
    BY <1>1 DEF RebuildOnly, Writing
  <1>7. RepairIsUndisturbed' /\ BetweenRebuilds'
    <2>1. \A n \in Notes : RepairOf(n)'
      BY <1>1, <1>2, <1>5 DEF RepairOf, RebuildOnly
    <2> QED
      BY <2>1, <1>3, <1>5, <1>6 DEF RepairIsUndisturbed, BetweenRebuilds
  <1>8. \A n \in Notes : Untouched(n) => Untouched(n)'
    BY <1>1, <1>2, <1>5 DEF Untouched, RebuildOnly
  <1>9. index' \in Documented
    BY <1>1 DEF SearchIInv, SearchOK, SearchTyped
  <1> QED
    BY <1>1, <1>4, <1>7, <1>8, <1>9, RebuildKeepsSearch

\* What each of the next steps does to a note.
LEMMA StageKeepsSearch ==
    ASSUME SearchIInv, HandledIsAccepted', RebuildOnly, reindex.pc # "none",
           overlapped' = overlapped, reindex'.quiet = reindex.quiet,
           index' \in Documented, reindex' \in Reindexes, BetweenRebuilds',
           \A n \in Notes : Untouched(n) => Untouched(n)',
           reindex'.pc # "none" => \A n \in Notes : RepairOf(n) => RepairOf(n)'
    PROVE  SearchOK'
  <1>1. Writing' = Writing
    BY DEF RebuildOnly, Writing
  <1>2. RepairIsUndisturbed'
    BY <1>1 DEF RepairIsUndisturbed, SearchIInv, SearchOK
  <1> QED
    BY <1>2, RebuildKeepsSearch

LEMMA UpsertIs ==
    ASSUME SearchTyped, NEW docs \in Documented, Upsert(docs)
    PROVE  /\ index' \in Documented
           /\ \A n \in Notes : index'[n] = IF docs[n] # NoDocument THEN docs[n] ELSE index[n]
  BY DEF Upsert, SearchTyped, Documented

LEMMA RemoveIs ==
    ASSUME SearchTyped, MaxChanges \in Nat, NEW ids, Remove(ids)
    PROVE  /\ index' \in Documented
           /\ \A n \in Notes : index'[n] = IF n \in ids THEN NoDocument ELSE index[n]
  BY DEF Remove, SearchTyped, Documented, NoDocument

LEMMA ReindexIs ==
    ASSUME SearchTyped, NEW pc, NEW docs \in Documented, NEW ids \in SUBSET Notes,
           pc \in {"none", "project", "list", "liveness", "drift", "stale", "recreated",
                  "finish"},
           Reindex(pc, docs, ids)
    PROVE  /\ reindex' \in Reindexes
           /\ reindex'.pc = pc /\ reindex'.read = docs /\ reindex'.ids = ids
           /\ reindex'.quiet = reindex.quiet
  BY DEF Reindex, SearchTyped, Reindexes

\* The rebuild goes on: it writes the page it has read, lists the index, looks what is
\* gone and what has changed since, and repairs both.
LEMMA RebuildStepKeepsSearch ==
    ASSUME SearchIInv, HandledIsAccepted', MaxChanges \in Nat, ReindexStep
    PROVE  SearchOK'
  <1> DEFINE stage == reindex.pc
  <1>1. RebuildOnly /\ overlapped' = overlapped
    BY DEF ReindexStep, reindexProject, reindexList, reindexLiveness, reindexDrift,
           reindexStale, reindexRecreated, reindexFinish, Elsewhere, Unread, jobVars, RebuildOnly
  <1>2. SearchTyped /\ reindex.read \in Documented /\ reindex.ids \in SUBSET Notes
        /\ index \in Documented
    BY DEF SearchIInv, SearchOK, SearchTyped, Reindexes
  <1>3. Blank \in Documented /\ \A n \in Notes : Blank[n] = NoDocument
    BY DEF Blank, Documented, NoDocument
  <1>4. \A n \in Notes : stateOf'[n] = stateOf[n]
    BY <1>1 DEF RebuildOnly
  <1> DEFINE Goes(pc, docs, ids) == reindex' \in Reindexes /\ reindex'.pc = pc
                                   /\ reindex'.read = docs /\ reindex'.ids = ids
                                   /\ reindex'.quiet = reindex.quiet
  <1>5. CASE reindexProject
    <2>1. stage = "project" /\ Goes("list", Blank, {})
      BY <1>2, <1>3, <1>5, ReindexIs DEF reindexProject, Reindexing
    <2>2. index' \in Documented
          /\ \A n \in Notes : index'[n] = IF reindex.read[n] # NoDocument THEN reindex.read[n]
                                          ELSE index[n]
      BY <1>2, <1>5, UpsertIs DEF reindexProject
    <2>3. \A n \in Notes : Untouched(n) => Untouched(n)'
      BY <2>1, <2>2, <1>3, <1>4 DEF Untouched
    <2>4. \A n \in Notes : RepairOf(n) => RepairOf(n)'
      BY <2>1, <2>2, <1>3, <1>4 DEF RepairOf
    <2> QED
      BY <2>1, <2>2, <2>3, <2>4, <1>1, StageKeepsSearch DEF BetweenRebuilds
  <1>6. CASE reindexList
    <2>1. stage = "list" /\ Goes("liveness", Blank, Present(index)) /\ index' = index
      BY <1>2, <1>3, <1>6, ReindexIs DEF reindexList, Reindexing, Present
    <2>2. \A n \in Notes : Untouched(n) => Untouched(n)'
      BY <2>1, <1>3, <1>4 DEF Untouched
    <2>3. \A n \in Notes : RepairOf(n) => RepairOf(n)'
      BY <2>1, <1>3, <1>4 DEF RepairOf, Present
    <2> QED
      BY <2>1, <2>2, <2>3, <1>1, <1>2, StageKeepsSearch DEF BetweenRebuilds
  <1>7. CASE reindexLiveness
    <2> DEFINE later == {n \in LiveNotes(reindex.ids) : stateOf[n] > reindex.boundary}
    <2> DEFINE docs == Documents(stateOf, later)
    <2> DEFINE stale == reindex.ids \ LiveNotes(reindex.ids)
    <2>1. docs \in Documented /\ stale \in SUBSET Notes
      BY <1>2, DocumentsRead
    <2>2. \A n \in Notes : docs[n] \in {NoDocument, stateOf[n]}
      BY DEF Documents
    <2>3. \A n \in Notes : n \in stale <=> n \in reindex.ids /\ stateOf[n] = NoDocument
      BY DEF LiveNotes
    <2>4. Reindex("drift", docs, stale) /\ stage = "liveness" /\ index' = index
      BY <1>7 DEF reindexLiveness, Reindexing
    <2> HIDE DEF docs, stale
    <2>5. Goes("drift", docs, stale)
      BY <2>1, <2>4, <1>2, ReindexIs
    <2>6. \A n \in Notes : Untouched(n) => Untouched(n)'
      BY <2>2, <2>3, <2>4, <2>5, <1>4 DEF Untouched
    <2>7. \A n \in Notes : RepairOf(n) => RepairOf(n)'
      BY <2>2, <2>3, <2>4, <2>5, <1>4 DEF RepairOf
    <2> QED
      BY <2>4, <2>5, <2>6, <2>7, <1>1, <1>2, StageKeepsSearch DEF BetweenRebuilds
  <1>8. CASE reindexDrift
    <2>1. stage = "drift" /\ Goes("stale", Blank, reindex.ids)
      BY <1>2, <1>3, <1>8, ReindexIs DEF reindexDrift, Reindexing
    <2>2. index' \in Documented
          /\ \A n \in Notes : index'[n] = IF reindex.read[n] # NoDocument THEN reindex.read[n]
                                          ELSE index[n]
      BY <1>2, <1>8, UpsertIs DEF reindexDrift
    <2>3. \A n \in Notes : Untouched(n) => Untouched(n)'
      BY <2>1, <2>2, <1>3, <1>4 DEF Untouched
    <2>4. \A n \in Notes : RepairOf(n) => RepairOf(n)'
      BY <2>1, <2>2, <1>3, <1>4 DEF RepairOf
    <2> QED
      BY <2>1, <2>2, <2>3, <2>4, <1>1, StageKeepsSearch DEF BetweenRebuilds
  <1>9. CASE reindexStale
    <2>1. stage = "stale" /\ Goes("recreated", Blank, reindex.ids)
      BY <1>2, <1>3, <1>9, ReindexIs DEF reindexStale, Reindexing
    <2>2. index' \in Documented
          /\ \A n \in Notes : index'[n] = IF n \in reindex.ids THEN NoDocument ELSE index[n]
      BY <1>2, <1>9, RemoveIs DEF reindexStale
    <2>3. \A n \in Notes : Untouched(n) => Untouched(n)'
      BY <2>1, <2>2, <1>3, <1>4 DEF Untouched
    <2>4. \A n \in Notes : RepairOf(n) => RepairOf(n)'
      BY <2>1, <2>2, <1>3, <1>4 DEF RepairOf
    <2> QED
      BY <2>1, <2>2, <2>3, <2>4, <1>1, StageKeepsSearch DEF BetweenRebuilds
  <1>10. CASE reindexRecreated
    <2> DEFINE docs == Documents(stateOf, reindex.ids)
    <2>1. docs \in Documented /\ \A n \in Notes : docs[n] \in {NoDocument, stateOf[n]}
      BY <1>2, DocumentsRead DEF Documents
    <2>2. Reindex("finish", docs, {}) /\ stage = "recreated" /\ index' = index
      BY <1>10 DEF reindexRecreated, Reindexing
    <2> HIDE DEF docs
    <2>3. Goes("finish", docs, {})
      BY <2>1, <2>2, <1>2, ReindexIs
    <2>4. \A n \in Notes : Untouched(n) => Untouched(n)'
      BY <2>1, <2>2, <2>3, <1>4 DEF Untouched
    <2>5. \A n \in Notes : RepairOf(n) => RepairOf(n)'
      BY <2>1, <2>2, <2>3, <1>4 DEF RepairOf
    <2> QED
      BY <2>2, <2>3, <2>4, <2>5, <1>1, <1>2, StageKeepsSearch DEF BetweenRebuilds
  <1>11. CASE reindexFinish
    <2>1. stage = "finish" /\ Goes("none", Blank, {})
      BY <1>2, <1>3, <1>11, ReindexIs DEF reindexFinish, Reindexing
    <2>2. index' \in Documented
          /\ \A n \in Notes : index'[n] = IF reindex.read[n] # NoDocument THEN reindex.read[n]
                                          ELSE index[n]
      BY <1>2, <1>11, UpsertIs DEF reindexFinish
    <2>3. \A n \in Notes : Untouched(n) => Untouched(n)'
      BY <2>1, <2>2, <1>3, <1>4 DEF Untouched
    <2>4. Blank' = Blank
      BY DEF Blank, NoDocument
    <2> QED
      BY <2>1, <2>2, <2>3, <2>4, <1>1, StageKeepsSearch DEF BetweenRebuilds
  <1> QED
    BY <1>5, <1>6, <1>7, <1>8, <1>9, <1>10, <1>11 DEF ReindexStep

LEMMA SearchNextKeeps ==
    ASSUME MaxChanges \in Nat, SearchIInv, [SearchNext]_searchVars
    PROVE  SearchIInv'
  <1>1. ConsumerInv'
    BY SearchStepIsJobStep, JobStepKeepsInv, RestKeepsConsumerInv DEF SearchIInv
  <1>2. HandledIsAccepted'
    BY SearchStepIsJobStep, HandledStaysAccepted DEF SearchIInv, SearchOK
  <1>3. SearchOK'
    BY <1>2, ChangeKeepsSearch, ReadKeepsSearch, UpsertKeepsSearch, DeleteKeepsSearch,
       FailsKeepsSearch, AroundKeepsSearch, PageKeepsSearch, RebuildStepKeepsSearch
       DEF SearchNext, Handling
  <1> QED  BY <1>1, <1>3 DEF SearchIInv

\* A document that is not the current state of its note has an open intent, an overlap of
\* two writers or a fault to blame, whatever a rebuild does meanwhile
\* (note-index-job-handler.service.ts, note-reindex.service.ts).
THEOREM IndexIsExplained == SearchSpec => []IndexInv
  <1>1. SearchInit => SearchIInv
    BY SearchInitHolds, SearchAssumption
  <1>2. SearchIInv /\ [SearchNext]_searchVars => SearchIInv'
    BY SearchNextKeeps, SearchAssumption
  <1> QED
    BY <1>1, <1>2, IndexInvHolds, PTL DEF SearchSpec

LEMMA FinishRepairs ==
  ASSUME SearchIInv, SearchNext, Reindexing("finish"), reindex.quiet, reindex'.pc = "none"
  PROVE  index' = stateOf
  <1>1. SearchTyped /\ reindex.pc = "finish" /\ reindex.read \in Documented
    BY DEF SearchIInv, SearchOK, SearchTyped, Reindexes, Reindexing
  <1>2. reindexFinish
    BY <1>1
       DEF SearchNext, change, handleRead, Handling, handleUpsert, handleDelete, handleFails,
           around, reindexPage, ReindexStep, reindexProject, reindexList, reindexLiveness,
           reindexDrift, reindexStale, reindexRecreated, Reindexing, SearchTyped, Reindexes
  <1>3. \A n \in Notes : index[n] = stateOf[n] /\ reindex.read[n] \in {NoDocument, stateOf[n]}
    BY <1>1 DEF SearchIInv, SearchOK, RepairIsUndisturbed, RepairOf
  <1>4. index' \in Documented /\ \A n \in Notes : index'[n] = stateOf[n]
    BY <1>1, <1>2, <1>3, UpsertIs DEF reindexFinish
  <1> QED
    BY <1>1, <1>4 DEF SearchTyped, Documented

\* A rebuild that nothing disturbed leaves the index as the notes are, whatever was wrong
\* with it before (note-reindex.service.ts).
THEOREM RebuildsRepair == SearchSpec => RebuildRepairs
  <1>1. SearchInit => SearchIInv
    BY SearchInitHolds, SearchAssumption
  <1>2. SearchIInv /\ [SearchNext]_searchVars => SearchIInv'
    BY SearchNextKeeps, SearchAssumption
  <1>3. SearchIInv /\ [SearchNext]_searchVars =>
           [Reindexing("finish") /\ reindex.quiet /\ reindex'.pc = "none" =>
               index' = stateOf]_searchVars
    BY FinishRepairs
  <1> QED
    BY <1>1, <1>2, <1>3, PTL DEF SearchSpec, RebuildRepairs

\* The intents of the syncs behave as JobPromise says, whatever the writers of the index do
\* (note-index-job-handler.service.ts).
THEOREM SyncsKeepPromise == SearchSpec => IntentsKeepPromise
  <1>1. SearchInit => ConsumerInv /\ Promise!Init
    BY JobInitConsumerInv, JobInitIsPromised DEF SearchInit
  <1>2. ConsumerInv /\ [SearchNext]_searchVars => ConsumerInv' /\ [Promise!Next]_phase
    BY SearchStepIsJobStep, JobStepKeepsInv, JobStepIsPromised, RestKeepsConsumerInv
       DEF IntentsRest
  <1> QED
    BY <1>1, <1>2, PTL DEF SearchSpec, IntentsKeepPromise, Promise!Spec

----------------------------------------------------------------------------
(* Mentions: the invariant.                                                *)

Turns == {"idle", "authorize", "read", "mail", "emit", "return"}

MentionTyped ==
    /\ access \in [Jobs -> {"reader", "member", "stranger"}]
    /\ notifying \in [Workers -> Turns]
    /\ told \in [Jobs -> Nat] /\ withheld \in [Jobs -> Nat]
    /\ notices \in [Jobs -> Nat] /\ unheard \in [Jobs -> Nat]
    /\ retries \in [Jobs -> Nat]

\* The invocations that may yet insert a notification for j.
Pending(j) == {w \in Workers : handling[w] = j /\ notifying[w] \notin {"idle", "return"}}
Expected(j) == IF phase[j] \in {"absent", "accepted"} THEN 1 ELSE 0

\* The notifications that are there, under way and still to be asked for.
NoticesCount(j) ==
    /\ IsFiniteSet(Pending(j))
    /\ notices[j] + Cardinality(Pending(j)) + Expected(j) <= 1 + retries[j] + unheard[j]

\* What is remembered is what was the case since the mention.
PastIsKnown(j) ==
    phase[j] # "absent" => /\ access[j] = "reader" => j \in readerOnce
                           /\ ~Fit(j, access, trashed) => j \in unfit

MentionedOK(j) ==
    /\ PastIsKnown(j)
    /\ j \notin readerOnce => told[j] = 0 /\ withheld[j] = 0 /\ notices[j] = 0
    /\ notices[j] > 0 => told[j] > 0 \/ withheld[j] > 0
    /\ told[j] <= 1
    /\ phase[j] = "done" /\ j \notin unfit => notices[j] > 0
    /\ NoticesCount(j)

\* What an invocation has established, it may rely on.
NotifierOK(w) ==
    /\ Doing(w, "idle") <=> handling[w] = NoJob
    /\ handling[w] # NoJob => phase[handling[w]] # "absent"
    /\ notifying[w] \in {"read", "mail", "emit", "return"} => handling[w] \in readerOnce
    /\ notifying[w] \in {"emit", "return"} => told[handling[w]] > 0 \/ withheld[handling[w]] > 0
    /\ Doing(w, "return") => notices[handling[w]] > 0

MentionIInv ==
    /\ ConsumerInv /\ MentionTyped
    /\ \A j \in Jobs : MentionedOK(j)
    /\ \A w \in Workers : NotifierOK(w)

LEMMA MentionIInvImplies == MentionIInv => MentionInv
  <1> SUFFICES ASSUME MentionIInv PROVE MentionInv
    OBVIOUS
  <1>1. ASSUME NEW j \in Jobs
        PROVE  /\ j \notin readerOnce => told[j] + withheld[j] + notices[j] = 0
               /\ notices[j] <= 1 + retries[j] + unheard[j]
               /\ notices[j] > 0 => told[j] + withheld[j] > 0
               /\ told[j] <= 1
               /\ phase[j] = "done" /\ j \notin unfit => notices[j] > 0
    <2>1. /\ told[j] \in Nat /\ withheld[j] \in Nat /\ notices[j] \in Nat
          /\ unheard[j] \in Nat /\ retries[j] \in Nat /\ MentionedOK(j)
      BY DEF MentionIInv, MentionTyped
    <2>2. IsFiniteSet(Pending(j)) /\ Cardinality(Pending(j)) \in Nat /\ Expected(j) \in {0, 1}
      BY <2>1, FS_CardinalityType DEF MentionedOK, NoticesCount, Expected
    <2>3. notices[j] + Cardinality(Pending(j)) + Expected(j) <= 1 + retries[j] + unheard[j]
      BY <2>1 DEF MentionedOK, NoticesCount
    <2>4. notices[j] <= 1 + retries[j] + unheard[j]
      BY <2>1, <2>2, <2>3
    <2> QED
      BY <2>1, <2>4 DEF MentionedOK
  <1> QED
    BY <1>1 DEF MentionInv, NothingToOutsiders, NoticesAreNotRepeated, MailComesFirst,
                DoneIsNotified

LEMMA InitMention == JobInit /\ MentionInit => MentionIInv
  <1> SUFFICES ASSUME JobInit, MentionInit PROVE MentionIInv
    OBVIOUS
  <1>1. ConsumerInv
    BY JobInitConsumerInv
  <1>2. MentionTyped
    BY DEF JobInit, MentionInit, MentionTyped, Zero, Turns
  <1>3. ASSUME NEW j \in Jobs
        PROVE  MentionedOK(j)
    <2>1. Pending(j) = {}
      BY JobAssumption DEF JobInit, Pending
    <2>2. IsFiniteSet(Pending(j)) /\ Cardinality(Pending(j)) = 0
      BY <2>1, FS_EmptySet
    <2> QED
      BY <2>2 DEF JobInit, MentionInit, MentionedOK, NoticesCount, PastIsKnown, Expected, Zero
  <1>4. ASSUME NEW w \in Workers
        PROVE  NotifierOK(w)
    BY DEF JobInit, MentionInit, NotifierOK, Doing
  <1> QED
    BY <1>1, <1>2, <1>3, <1>4 DEF MentionIInv

----------------------------------------------------------------------------
(* Mentions: what a step does to the intents, and to what it is not about. *)

LEMMA MentionEndsAreEnds ==
  ASSUME NEW w \in Workers, Returns(w) \/ Fails(w) \/ Dies(w)
  PROVE  \E outcome \in {"done", "dead", AfterThrow(w)} : End(w, outcome)
  BY DEF Returns, Fails, Dies

LEMMA MentionStepsOnIntents == [MentionNext]_mentionVars => JobStep \/ IntentsRest
  <1>1. ASSUME NEW w \in Workers, notify(w) \/ handlerFails(w)
        PROVE  JobStep \/ IntentsRest
    <2>1. Returns(w) \/ Fails(w) \/ Dies(w) \/ UNCHANGED jobVars
      BY <1>1 DEF notify, handlerFails, authorizeUserJob, readNote, queueMail, emit, return
    <2> QED
      BY <2>1, MentionEndsAreEnds DEF JobStep, IntentsRest, jobVars
  <1>2. ASSUME NEW w \in Workers, NEW j \in Jobs, handleMention(w, j)
        PROVE  JobStep
    BY <1>2 DEF handleMention, JobStep
  <1>3. save => JobStep \/ IntentsRest
    BY DEF save, JobStep, IntentsRest, jobVars
  <1>4. \A j \in Jobs : changeAccess(j) \/ setMailPreference(j) => IntentsRest
    BY DEF changeAccess, setMailPreference, IntentsRest, jobVars
  <1>5. changeTrash \/ UNCHANGED mentionVars => IntentsRest
    BY DEF changeTrash, mentionVars, jobVars, IntentsRest
  <1>6. Around => JobStep
    BY DEF JobStep
  <1> QED
    BY <1>1, <1>2, <1>3, <1>4, <1>5, <1>6 DEF MentionNext

LEMMA MentionKeepsConsumer ==
  ASSUME ConsumerInv, [MentionNext]_mentionVars
  PROVE  ConsumerInv' /\ [Promise!Next]_phase
  <1>1. CASE JobStep
    BY <1>1, JobStepKeepsInv, JobStepIsPromised
  <1>2. CASE IntentsRest
    BY <1>2, RestKeepsConsumerInv DEF IntentsRest
  <1> QED
    BY <1>1, <1>2, MentionStepsOnIntents

\* Nothing is counted back, and an intent that is there stays there.
Onwards ==
    /\ readerOnce \subseteq readerOnce' /\ unfit \subseteq unfit'
    /\ \A j \in Jobs : /\ told'[j] >= told[j] /\ withheld'[j] >= withheld[j]
                       /\ notices'[j] >= notices[j]
                       /\ phase[j] # "absent" => phase'[j] # "absent"

LEMMA NotifierRests ==
  ASSUME MentionIInv, ConsumerInv', MentionTyped', Onwards, NEW w \in Workers,
         handling'[w] = handling[w], notifying'[w] = notifying[w]
  PROVE  NotifierOK(w)'
  <1>1. NotifierOK(w) /\ handling[w] \in Jobs \cup {NoJob} /\ MentionTyped
    BY DEF MentionIInv, ConsumerInv, ConsumerTypeOK
  <1>2. CASE handling[w] = NoJob
    BY <1>1, <1>2 DEF NotifierOK, Doing
  <1>3. CASE handling[w] # NoJob
    <2> DEFINE j == handling[w]
    <2>1. j \in Jobs
      BY <1>1, <1>3
    <2>2. /\ told[j] \in Nat /\ withheld[j] \in Nat /\ notices[j] \in Nat
          /\ told'[j] \in Nat /\ withheld'[j] \in Nat /\ notices'[j] \in Nat
      BY <2>1, <1>1 DEF MentionTyped
    <2>3. /\ told'[j] >= told[j] /\ withheld'[j] >= withheld[j] /\ notices'[j] >= notices[j]
          /\ phase[j] # "absent" => phase'[j] # "absent"
      BY <2>1 DEF Onwards
    <2>4. /\ told[j] > 0 => told'[j] > 0
          /\ withheld[j] > 0 => withheld'[j] > 0
          /\ notices[j] > 0 => notices'[j] > 0
      BY <2>2, <2>3
    <2> HIDE DEF j
    <2> QED
      BY <1>1, <1>3, <2>3, <2>4 DEF NotifierOK, Doing, Onwards, j
  <1> QED
    BY <1>2, <1>3

\* A mention that a step is not about.
SameMention(j) ==
    /\ phase'[j] = phase[j] /\ retries'[j] = retries[j]
    /\ told'[j] = told[j] /\ withheld'[j] = withheld[j]
    /\ notices'[j] = notices[j] /\ unheard'[j] = unheard[j]
    /\ Pending(j)' = Pending(j)

LEMMA MentionRests ==
  ASSUME NEW j \in Jobs, MentionedOK(j), SameMention(j), UNCHANGED <<mentionFacts, mentionPast>>
  PROVE  MentionedOK(j)'
  BY DEF MentionedOK, SameMention, mentionFacts, mentionPast, PastIsKnown, Fit, NoticesCount,
         Expected

\* A handler's step is about its invocation and its intent.
LEMMA TurnKeeps ==
  ASSUME MentionIInv, ConsumerInv', MentionTyped', NEW w \in Workers, NEW j \in Jobs,
         j = handling[w], UNCHANGED <<mentionFacts, mentionPast>>,
         handling'[w] \in {j, NoJob},
         \A v \in Workers : v # w => handling'[v] = handling[v] /\ notifying'[v] = notifying[v],
         \A k \in Jobs : k # j =>
             /\ phase'[k] = phase[k] /\ retries'[k] = retries[k]
             /\ told'[k] = told[k] /\ withheld'[k] = withheld[k]
             /\ notices'[k] = notices[k] /\ unheard'[k] = unheard[k],
         told'[j] >= told[j], withheld'[j] >= withheld[j], notices'[j] >= notices[j],
         phase'[j] # "absent",
         MentionedOK(j)', NotifierOK(w)'
  PROVE  MentionIInv'
  <1>1. ASSUME NEW k \in Jobs, k # j
        PROVE  MentionedOK(k)'
    <2>1. Pending(k)' = Pending(k)
      BY <1>1, JobAssumption DEF Pending
    <2> QED
      BY <2>1, <1>1, MentionRests DEF SameMention, MentionIInv
  <1>2. Onwards
    <2>1. \A k \in Jobs : told[k] \in Nat /\ withheld[k] \in Nat /\ notices[k] \in Nat
      BY DEF MentionIInv, MentionTyped
    <2> QED
      BY <2>1 DEF Onwards, mentionPast
  <1>3. \A v \in Workers : v # w => NotifierOK(v)'
    BY <1>2, NotifierRests
  <1> QED
    BY <1>1, <1>3 DEF MentionIInv

\* One invocation less that may insert a notification.
LEMMA PendingLeaves ==
  ASSUME NEW w \in Workers, NEW j \in Jobs, IsFiniteSet(Pending(j)), w \in Pending(j),
         \A v \in Workers : v # w => handling'[v] = handling[v] /\ notifying'[v] = notifying[v],
         w \notin Pending(j)'
  PROVE  /\ IsFiniteSet(Pending(j)')
         /\ Cardinality(Pending(j)) \in Nat /\ Cardinality(Pending(j)') \in Nat
         /\ Cardinality(Pending(j)') = Cardinality(Pending(j)) - 1
  <1>1. Pending(j)' = Pending(j) \ {w}
    BY DEF Pending
  <1> QED
    BY <1>1, FS_RemoveElement, FS_CardinalityType

----------------------------------------------------------------------------
(* Mentions: the steps outside the handler.                                *)

\* What is remembered is what the step has left behind.
LEMMA RememberKnows ==
  ASSUME NEW reads, NEW inTrash, access' = reads, trashed' = inTrash, Remember(reads, inTrash),
         NEW j \in Jobs
  PROVE  PastIsKnown(j)' /\ readerOnce \subseteq readerOnce' /\ unfit \subseteq unfit'
  BY DEF PastIsKnown, Remember, Fit

\* A step that leaves the handlers where they are, and accepts intents or none.
LEMMA OutsideKeeps ==
  ASSUME MentionIInv, ConsumerInv', MentionTyped',
         UNCHANGED <<handling, notifying, mentionRows, retries>>,
         readerOnce \subseteq readerOnce', unfit \subseteq unfit',
         \A j \in Jobs : PastIsKnown(j)',
         \A j \in Jobs : phase'[j] # phase[j] => phase[j] = "absent" /\ phase'[j] = "accepted"
  PROVE  MentionIInv'
  <1>1. ASSUME NEW j \in Jobs
        PROVE  MentionedOK(j)'
    <2>1. MentionedOK(j)
      BY DEF MentionIInv
    <2>2. Pending(j)' = Pending(j) /\ Expected(j)' = Expected(j)
      BY DEF Pending, Expected
    <2>3. NoticesCount(j)'
      BY <2>1, <2>2 DEF MentionedOK, NoticesCount, mentionRows
    <2>4. PastIsKnown(j)' /\ (phase'[j] = "done" => phase[j] = "done")
      OBVIOUS
    <2> QED
      BY <2>1, <2>3, <2>4 DEF MentionedOK, mentionRows
  <1>2. Onwards
    BY DEF Onwards, mentionRows, MentionIInv, MentionTyped
  <1>3. \A w \in Workers : NotifierOK(w)'
    BY <1>2, NotifierRests
  <1> QED
    BY <1>1, <1>3 DEF MentionIInv

LEMMA SaveKeeps ==
  ASSUME MentionIInv, ConsumerInv', save
  PROVE  MentionIInv'
  <1>1. /\ UNCHANGED <<handling, notifying, mentionRows, retries, access, trashed>>
        /\ Remember(access, trashed)
    BY DEF save, Accept, jobVars
  <1>2. \A j \in Jobs : PastIsKnown(j)' /\ readerOnce \subseteq readerOnce' /\ unfit \subseteq unfit'
    BY <1>1, RememberKnows
  <1>3. \A j \in Jobs : phase'[j] # phase[j] => phase[j] = "absent" /\ phase'[j] = "accepted"
    BY DEF save, Accept, jobVars, MentionIInv, ConsumerInv, ConsumerTypeOK
  <1>4. MentionTyped'
    BY <1>1 DEF MentionIInv, MentionTyped, mentionRows
  <1>5. readerOnce \subseteq readerOnce' /\ unfit \subseteq unfit'
    BY <1>1 DEF Remember
  <1> QED
    BY <1>1, <1>2, <1>3, <1>4, <1>5, OutsideKeeps

LEMMA ChangesKeep ==
  ASSUME MentionIInv, ConsumerInv', changeTrash \/ \E j \in Jobs : changeAccess(j)
  PROVE  MentionIInv'
  <1>1. /\ UNCHANGED <<handling, notifying, mentionRows, retries, phase>>
        /\ Remember(access', trashed')
    BY DEF changeTrash, changeAccess, jobVars
  <1>2. \A j \in Jobs : PastIsKnown(j)'
    BY <1>1, RememberKnows
  <1>3. MentionTyped'
    BY <1>1 DEF MentionIInv, MentionTyped, mentionRows, changeTrash, changeAccess
  <1>4. readerOnce \subseteq readerOnce' /\ unfit \subseteq unfit'
    BY <1>1 DEF Remember
  <1> QED
    BY <1>1, <1>2, <1>3, <1>4, OutsideKeeps

LEMMA PreferencesKeep ==
  ASSUME MentionIInv, ConsumerInv',
         (\E j \in Jobs : setMailPreference(j)) \/ UNCHANGED mentionVars
  PROVE  MentionIInv'
  <1>1. /\ UNCHANGED <<handling, notifying, mentionRows, retries, phase>>
        /\ UNCHANGED <<access, trashed, mentionPast>>
    BY DEF setMailPreference, mentionVars, mentionFacts, jobVars
  <1>2. \A j \in Jobs : PastIsKnown(j)'
    BY <1>1 DEF MentionIInv, MentionedOK, PastIsKnown, Fit, mentionPast
  <1>3. MentionTyped'
    BY <1>1 DEF MentionIInv, MentionTyped, mentionRows
  <1> QED
    BY <1>1, <1>2, <1>3, OutsideKeeps DEF mentionPast

\* An invocation given up on goes on by itself; a retry makes room for one notification.
LEMMA MentionAroundKeeps ==
  ASSUME MentionIInv, ConsumerInv', Around,
         UNCHANGED <<mentionFacts, notifying, mentionRows, mentionPast>>
  PROVE  MentionIInv'
  <1>1. PICK j \in Jobs :
          /\ UNCHANGED handling
          /\ phase[j] # "absent"
          /\ phase' \in {[phase EXCEPT ![j] = "dead"], [phase EXCEPT ![j] = "accepted"]}
          /\ \/ retries' = retries /\ phase'[j] = "dead"
             \/ retries' = [retries EXCEPT ![j] = @ + 1] /\ phase[j] = "dead"
    <2>1. ASSUME NEW w \in Workers, TimesOut(w)
          PROVE  /\ handling[w] \in Jobs /\ UNCHANGED <<handling, retries>>
                 /\ phase[handling[w]] # "absent"
                 /\ phase' = [phase EXCEPT ![handling[w]] = "dead"]
      BY <2>1 DEF TimesOut, MentionIInv, NotifierOK, ConsumerInv, ConsumerTypeOK
    <2>2. ASSUME NEW w \in Workers, TimesOut(w)
          PROVE  phase'[handling[w]] = "dead"
      BY <2>1, <2>2 DEF MentionIInv, ConsumerInv, ConsumerTypeOK
    <2> QED
      BY <2>1, <2>2 DEF Around, Refused, OperatorRetry, MentionIInv, ConsumerInv, ConsumerTypeOK
  <1>2. phase \in [Jobs -> Promise!Phases] /\ retries \in [Jobs -> Nat] /\ MentionTyped
    BY DEF MentionIInv, MentionTyped, ConsumerInv, ConsumerTypeOK
  <1>3. MentionTyped'
    BY <1>1, <1>2 DEF MentionTyped, mentionFacts, mentionRows
  <1>4. \A k \in Jobs : k # j => MentionedOK(k)'
    BY <1>1, <1>2, MentionRests
       DEF MentionIInv, SameMention, Pending, mentionRows, mentionFacts, mentionPast
  <1>5. MentionedOK(j)'
    <2>1. MentionedOK(j) /\ Pending(j)' = Pending(j)
      BY <1>1 DEF MentionIInv, Pending
    <2>2. IsFiniteSet(Pending(j)) /\ Cardinality(Pending(j)) \in Nat
      BY <2>1, FS_CardinalityType DEF MentionedOK, NoticesCount
    <2>3. /\ retries[j] \in Nat /\ notices[j] \in Nat /\ unheard[j] \in Nat
          /\ notices' = notices /\ unheard' = unheard
      BY <1>2 DEF MentionTyped, mentionRows
    <2>4. notices[j] + Cardinality(Pending(j)) + Expected(j) <= 1 + retries[j] + unheard[j]
      BY <2>1 DEF MentionedOK, NoticesCount
    <2>5. \/ Expected(j)' = 0 /\ Expected(j) \in {0, 1} /\ retries'[j] = retries[j]
          \/ Expected(j)' = 1 /\ Expected(j) = 0 /\ retries'[j] = retries[j] + 1
          \/ Expected(j)' = 0 /\ Expected(j) = 0 /\ retries'[j] = retries[j] + 1
      BY <1>1, <1>2 DEF Expected
    <2>6. NoticesCount(j)'
      <3> DEFINE c == Cardinality(Pending(j))
      <3>1. notices[j] + c + Expected(j)' <= 1 + retries'[j] + unheard[j]
        BY <2>2, <2>3, <2>4, <2>5
      <3> QED
        BY <3>1, <2>1, <2>2, <2>3 DEF NoticesCount
    <2>7. phase'[j] \in {"dead", "accepted"}
      BY <1>1, <1>2
    <2> QED
      BY <2>1, <2>6, <2>7, <1>1
         DEF MentionedOK, PastIsKnown, Fit, mentionFacts, mentionPast, mentionRows
  <1>6. Onwards
    BY <1>1, <1>2 DEF Onwards, mentionRows, mentionPast, MentionTyped
  <1>7. \A w \in Workers : NotifierOK(w)'
    BY <1>1, <1>3, <1>6, NotifierRests
  <1> QED
    BY <1>3, <1>4, <1>5, <1>7 DEF MentionIInv

----------------------------------------------------------------------------
(* Mentions: the handler.                                                  *)

LEMMA MentionUnderWay ==
  ASSUME MentionIInv, NEW w \in Workers, ~Doing(w, "idle")
  PROVE  \E j \in Jobs :
            /\ j = handling[w] /\ j # NoJob /\ phase[j] # "absent"
            /\ MentionedOK(j) /\ NotifierOK(w)
            /\ told[j] \in Nat /\ withheld[j] \in Nat /\ notices[j] \in Nat
            /\ unheard[j] \in Nat /\ retries[j] \in Nat
            /\ IsFiniteSet(Pending(j)) /\ Cardinality(Pending(j)) \in Nat
            /\ notices[j] + Cardinality(Pending(j)) + Expected(j) <= 1 + retries[j] + unheard[j]
  <1>1. handling[w] \in Jobs /\ handling[w] # NoJob /\ NotifierOK(w)
    BY DEF MentionIInv, NotifierOK, ConsumerInv, ConsumerTypeOK
  <1>2. MentionedOK(handling[w]) /\ MentionTyped
    BY <1>1 DEF MentionIInv
  <1>3. IsFiniteSet(Pending(handling[w]))
    BY <1>2 DEF MentionedOK, NoticesCount
  <1>4. Cardinality(Pending(handling[w])) \in Nat
    BY <1>3, FS_CardinalityType
  <1> QED
    BY <1>1, <1>2, <1>3, <1>4 DEF NotifierOK, MentionedOK, NoticesCount, MentionTyped

LEMMA MentionBegins ==
  ASSUME MentionIInv, ConsumerInv', NEW w \in Workers, NEW j \in Jobs, handleMention(w, j)
  PROVE  MentionIInv'
  <1>1. /\ handling[w] = NoJob /\ phase[j] = "accepted" /\ j # NoJob
        /\ handling' = [handling EXCEPT ![w] = j] /\ phase' = [phase EXCEPT ![j] = "executing"]
        /\ notifying' = [notifying EXCEPT ![w] = "authorize"]
        /\ UNCHANGED <<retries, mentionFacts, mentionRows, mentionPast>>
    BY JobAssumption DEF handleMention, Begin, Proceeds
  <1>2. /\ phase \in [Jobs -> Promise!Phases] /\ handling \in [Workers -> Jobs \cup {NoJob}]
        /\ MentionTyped
    BY DEF MentionIInv, ConsumerInv, ConsumerTypeOK
  <1>3. MentionTyped'
    BY <1>1, <1>2 DEF MentionTyped, mentionFacts, mentionRows, Turns
  <1>4. /\ handling'[w] = j /\ notifying'[w] = "authorize"
        /\ \A v \in Workers : v # w => handling'[v] = handling[v] /\ notifying'[v] = notifying[v]
        /\ phase'[j] = "executing" /\ \A k \in Jobs : k # j => phase'[k] = phase[k]
    BY <1>1, <1>2 DEF MentionTyped
  <1>5. ASSUME NEW k \in Jobs, k # j
        PROVE  MentionedOK(k)'
    <2>1. Pending(k)' = Pending(k)
      BY <1>1, <1>4, <1>5, JobAssumption DEF Pending
    <2>2. SameMention(k)
      BY <2>1, <1>1, <1>4, <1>5 DEF SameMention, mentionRows
    <2> QED
      BY <2>2, <1>1, MentionRests DEF MentionIInv
  <1>6. MentionedOK(j)'
    <2>1. MentionedOK(j) /\ Expected(j) = 1 /\ Expected(j)' = 0
      BY <1>1, <1>4 DEF MentionIInv, Expected
    <2>2. Pending(j)' = Pending(j) \cup {w} /\ w \notin Pending(j)
      BY <1>1, <1>4 DEF Pending
    <2>3. /\ IsFiniteSet(Pending(j)') /\ Cardinality(Pending(j)) \in Nat
          /\ Cardinality(Pending(j)') = Cardinality(Pending(j)) + 1
      BY <2>1, <2>2, FS_AddElement, FS_CardinalityType DEF MentionedOK, NoticesCount
    <2>4. /\ notices[j] \in Nat /\ retries[j] \in Nat /\ unheard[j] \in Nat
          /\ notices'[j] = notices[j] /\ retries'[j] = retries[j] /\ unheard'[j] = unheard[j]
      BY <1>1, <1>2 DEF MentionTyped, mentionRows
    <2>5. NoticesCount(j)'
      BY <2>1, <2>3, <2>4 DEF MentionedOK, NoticesCount
    <2> QED
      BY <2>1, <2>5, <1>1, <1>4
         DEF MentionedOK, PastIsKnown, Fit, mentionFacts, mentionPast, mentionRows
  <1>7. Onwards
    BY <1>1, <1>2, <1>4 DEF Onwards, mentionRows, mentionPast, MentionTyped
  <1>8. \A v \in Workers : v # w => NotifierOK(v)'
    BY <1>3, <1>4, <1>7, NotifierRests
  <1>9. NotifierOK(w)'
    BY <1>1, <1>4 DEF NotifierOK, Doing
  <1> QED
    BY <1>3, <1>5, <1>6, <1>8, <1>9 DEF MentionIInv

\* An invocation ends; what it has inserted at last, nobody has heard of.
LEMMA MentionEnds ==
  ASSUME MentionIInv, ConsumerInv', NEW w \in Workers, ~Doing(w, "idle"), Proceeds(w, "idle"),
         NEW outcome \in {"done", "dead", "accepted"}, End(w, outcome),
         UNCHANGED <<mentionFacts, mentionPast, told, withheld>>,
         \/ UNCHANGED <<notices, unheard>>
         \/ Doing(w, "emit") /\ notices' = Count(notices, w) /\ unheard' = Count(unheard, w),
         outcome = "accepted" => ~Doing(w, "return"),
         outcome = "done" => handling[w] \in unfit \/ notices[handling[w]] > 0
  PROVE  MentionIInv'
  <1>1. PICK j \in Jobs :
            /\ j = handling[w] /\ j # NoJob /\ phase[j] # "absent"
            /\ MentionedOK(j) /\ NotifierOK(w)
            /\ told[j] \in Nat /\ withheld[j] \in Nat /\ notices[j] \in Nat
            /\ unheard[j] \in Nat /\ retries[j] \in Nat
            /\ IsFiniteSet(Pending(j)) /\ Cardinality(Pending(j)) \in Nat
            /\ notices[j] + Cardinality(Pending(j)) + Expected(j) <= 1 + retries[j] + unheard[j]
    BY MentionUnderWay
  <1>2. MentionTyped /\ phase \in [Jobs -> Promise!Phases]
        /\ handling \in [Workers -> Jobs \cup {NoJob}]
    BY DEF MentionIInv, ConsumerInv, ConsumerTypeOK
  <1>3. /\ handling'[w] = NoJob /\ notifying'[w] = "idle" /\ retries' = retries
        /\ \A v \in Workers : v # w => handling'[v] = handling[v] /\ notifying'[v] = notifying[v]
        /\ phase'[j] \in {phase[j], outcome}
        /\ \A k \in Jobs : k # j => phase'[k] = phase[k]
    BY <1>1, <1>2 DEF End, Proceeds, MentionTyped
  <1>4. /\ \/ notices'[j] = notices[j] /\ unheard'[j] = unheard[j]
           \/ /\ Doing(w, "emit")
              /\ notices'[j] = notices[j] + 1 /\ unheard'[j] = unheard[j] + 1
        /\ \A k \in Jobs : k # j => notices'[k] = notices[k] /\ unheard'[k] = unheard[k]
    BY <1>1, <1>2 DEF Count, MentionTyped
  <1>5. MentionTyped'
    BY <1>1, <1>2, <1>3 DEF MentionTyped, Proceeds, Count, Turns, mentionFacts
  <1>6. NotifierOK(w)'
    BY <1>3 DEF NotifierOK, Doing
  <1>7. NoticesCount(j)'
    <2>1. Expected(j) \in {0, 1} /\ Expected(j)' \in {0, 1}
      BY DEF Expected
    <2>2. CASE w \in Pending(j)
      <3>1. /\ IsFiniteSet(Pending(j)') /\ Cardinality(Pending(j)') \in Nat
            /\ Cardinality(Pending(j)') = Cardinality(Pending(j)) - 1
        BY <2>2, <1>1, <1>3, PendingLeaves DEF Pending
      <3>2. notices'[j] + Cardinality(Pending(j)') + Expected(j)' <= 1 + retries'[j] + unheard'[j]
        BY <3>1, <2>1, <1>1, <1>3, <1>4
      <3> QED
        BY <3>1, <3>2 DEF NoticesCount
    <2>3. CASE w \notin Pending(j)
      <3>1. Doing(w, "return")
        BY <2>3, <1>1, <1>2 DEF Pending, Doing
      <3>2. Pending(j)' = Pending(j)
        BY <2>3, <1>3, JobAssumption DEF Pending
      <3>3. notices'[j] = notices[j] /\ unheard'[j] = unheard[j]
        BY <3>1, <1>4 DEF Doing
      <3>4. Expected(j)' <= Expected(j)
        BY <3>1, <1>1, <1>3 DEF Expected
      <3>5. notices'[j] + Cardinality(Pending(j)') + Expected(j)' <= 1 + retries'[j] + unheard'[j]
        BY <3>2, <3>3, <3>4, <2>1, <1>1, <1>3
      <3> QED
        BY <3>2, <3>5, <1>1 DEF NoticesCount
    <2> QED
      BY <2>2, <2>3
  <1>8. MentionedOK(j)'
    <2>1. PastIsKnown(j)'
      BY <1>1 DEF MentionedOK, PastIsKnown, Fit, mentionFacts, mentionPast
    <2>2. readerOnce' = readerOnce /\ unfit' = unfit /\ told'[j] = told[j]
          /\ withheld'[j] = withheld[j]
      BY DEF mentionPast
    <2>3. /\ j \notin readerOnce => told[j] = 0 /\ withheld[j] = 0 /\ notices'[j] = 0
          /\ notices'[j] > 0 => told[j] > 0 \/ withheld[j] > 0
      BY <1>1, <1>4 DEF MentionedOK, NotifierOK, Doing
    <2>4. phase'[j] = "done" /\ j \notin unfit => notices'[j] > 0
      BY <1>1, <1>3, <1>4 DEF MentionedOK
    <2> QED
      BY <2>1, <2>2, <2>3, <2>4, <1>1, <1>7 DEF MentionedOK
  <1> QED
    BY <1>1, <1>3, <1>4, <1>5, <1>6, <1>8, TurnKeeps

\* The invocation goes on to its next step.
LEMMA MentionProceeds ==
  ASSUME MentionIInv, ConsumerInv', NEW w \in Workers, ~Doing(w, "idle"),
         NEW pc \in {"read", "mail", "emit"}, Proceeds(w, pc),
         ~Doing(w, "return"),
         UNCHANGED <<jobVars, mentionFacts, mentionPast, notices, unheard>>,
         \/ UNCHANGED <<told, withheld>>
         \/ withheld' = Count(withheld, w) /\ UNCHANGED told
         \/ told' = Count(told, w) /\ UNCHANGED withheld /\ told[handling[w]] = 0,
         handling[w] \in readerOnce,
         pc = "emit" => told'[handling[w]] > 0 \/ withheld'[handling[w]] > 0
  PROVE  MentionIInv'
  <1>1. PICK j \in Jobs :
            /\ j = handling[w] /\ j # NoJob /\ phase[j] # "absent"
            /\ MentionedOK(j) /\ NotifierOK(w)
            /\ told[j] \in Nat /\ withheld[j] \in Nat /\ notices[j] \in Nat
            /\ unheard[j] \in Nat /\ retries[j] \in Nat
            /\ IsFiniteSet(Pending(j)) /\ Cardinality(Pending(j)) \in Nat
            /\ notices[j] + Cardinality(Pending(j)) + Expected(j) <= 1 + retries[j] + unheard[j]
    BY MentionUnderWay
  <1>2. MentionTyped
    BY DEF MentionIInv
  <1>3. /\ UNCHANGED <<phase, handling, retries, notices, unheard>>
        /\ notifying'[w] = pc
        /\ \A v \in Workers : v # w => notifying'[v] = notifying[v]
    BY <1>2 DEF jobVars, Proceeds, MentionTyped
  <1>4. /\ told'[j] \in Nat /\ withheld'[j] \in Nat
        /\ told'[j] >= told[j] /\ withheld'[j] >= withheld[j]
        /\ told'[j] <= 1
        /\ \A k \in Jobs : k # j => told'[k] = told[k] /\ withheld'[k] = withheld[k]
    BY <1>1, <1>2 DEF Count, MentionTyped, MentionedOK
  <1>5. MentionTyped'
    BY <1>1, <1>2, <1>3 DEF MentionTyped, Proceeds, Count, Turns, mentionFacts
  <1>6. NotifierOK(w)'
    BY <1>1, <1>3 DEF NotifierOK, Doing, mentionPast
  <1>7. Pending(j)' = Pending(j) /\ Expected(j)' = Expected(j)
    BY <1>1, <1>3 DEF Pending, Expected, Doing
  <1>8. NoticesCount(j)'
    BY <1>1, <1>3, <1>7 DEF NoticesCount
  <1>9. MentionedOK(j)'
    <2>1. PastIsKnown(j)' /\ readerOnce' = readerOnce /\ unfit' = unfit
      BY <1>1, <1>3 DEF MentionedOK, PastIsKnown, Fit, mentionFacts, mentionPast
    <2> QED
      BY <2>1, <1>1, <1>3, <1>4, <1>8 DEF MentionedOK
  <1> QED
    BY <1>1, <1>3, <1>4, <1>5, <1>6, <1>9, TurnKeeps

LEMMA EmitKeeps ==
  ASSUME MentionIInv, ConsumerInv', NEW w \in Workers, emit(w)
  PROVE  MentionIInv'
  <1>1. PICK j \in Jobs :
            /\ j = handling[w] /\ j # NoJob /\ phase[j] # "absent"
            /\ MentionedOK(j) /\ NotifierOK(w)
            /\ told[j] \in Nat /\ withheld[j] \in Nat /\ notices[j] \in Nat
            /\ unheard[j] \in Nat /\ retries[j] \in Nat
            /\ IsFiniteSet(Pending(j)) /\ Cardinality(Pending(j)) \in Nat
            /\ notices[j] + Cardinality(Pending(j)) + Expected(j) <= 1 + retries[j] + unheard[j]
    BY MentionUnderWay DEF emit, Doing
  <1>2. MentionTyped
    BY DEF MentionIInv
  <1>3. /\ UNCHANGED <<phase, handling, retries, told, withheld, unheard>>
        /\ UNCHANGED <<mentionFacts, mentionPast>>
        /\ Doing(w, "emit") /\ notifying'[w] = "return"
        /\ notices'[j] = notices[j] + 1
        /\ \A v \in Workers : v # w => notifying'[v] = notifying[v]
        /\ \A k \in Jobs : k # j => notices'[k] = notices[k]
    BY <1>1, <1>2 DEF emit, jobVars, Proceeds, MentionTyped, Count, still
  <1>4. MentionTyped'
    BY <1>1, <1>2, <1>3 DEF emit, MentionTyped, Proceeds, Count, Turns, mentionFacts
  <1>5. NotifierOK(w)'
    BY <1>1, <1>3 DEF NotifierOK, Doing, mentionPast
  <1>6. NoticesCount(j)'
    <2>1. /\ IsFiniteSet(Pending(j)') /\ Cardinality(Pending(j)') \in Nat
          /\ Cardinality(Pending(j)') = Cardinality(Pending(j)) - 1
      BY <1>1, <1>3, PendingLeaves DEF Pending, Doing
    <2>2. Expected(j)' = Expected(j) /\ Expected(j) \in {0, 1}
      BY <1>3 DEF Expected
    <2> QED
      BY <2>1, <2>2, <1>1, <1>3 DEF NoticesCount
  <1>7. MentionedOK(j)'
    <2>1. PastIsKnown(j)' /\ readerOnce' = readerOnce /\ unfit' = unfit
      BY <1>1, <1>3 DEF MentionedOK, PastIsKnown, Fit, mentionFacts, mentionPast
    <2> QED
      BY <2>1, <1>1, <1>3, <1>6 DEF MentionedOK, NotifierOK, Doing
  <1> QED
    BY <1>1, <1>3, <1>4, <1>5, <1>7, TurnKeeps

LEMMA NotifyKeeps ==
  ASSUME MentionIInv, ConsumerInv', NEW w \in Workers, notify(w)
  PROVE  MentionIInv'
  <1>1. ASSUME ~Doing(w, "idle")
        PROVE  \E j \in Jobs : /\ j = handling[w] /\ phase[j] # "absent"
                               /\ MentionedOK(j) /\ NotifierOK(w) /\ told[j] \in Nat
    BY <1>1, MentionUnderWay
  <1>2. CASE authorizeUserJob(w)
    <2>1. Doing(w, "authorize") /\ ~Doing(w, "idle") /\ ~Doing(w, "return")
      BY <1>2 DEF authorizeUserJob, Doing
    <2>2. UNCHANGED <<mentionFacts, mentionPast, mentionRows>>
      BY <1>2 DEF authorizeUserJob, still
    <2>3. CASE access[handling[w]] = "reader"
      <3>1. handling[w] \in readerOnce
        BY <2>3, <2>1, <1>1 DEF MentionedOK, PastIsKnown
      <3> QED
        BY <1>2, <2>1, <2>2, <2>3, <3>1, MentionProceeds DEF authorizeUserJob, mentionRows
    <2>4. CASE access[handling[w]] # "reader"
      <3>1. handling[w] \in unfit
        BY <2>4, <2>1, <1>1 DEF MentionedOK, PastIsKnown, Fit
      <3> QED
        BY <1>2, <2>1, <2>2, <2>4, <3>1, MentionEnds DEF authorizeUserJob, Returns, mentionRows
    <2> QED
      BY <2>3, <2>4
  <1>3. CASE readNote(w)
    <2>1. Doing(w, "read") /\ ~Doing(w, "idle") /\ ~Doing(w, "return")
      BY <1>3 DEF readNote, Doing
    <2>2. UNCHANGED <<mentionFacts, mentionPast, mentionRows>>
      BY <1>3 DEF readNote, still
    <2>3. CASE ~trashed
      <3>1. handling[w] \in readerOnce
        BY <2>1, <1>1 DEF NotifierOK, Doing
      <3> QED
        BY <1>3, <2>1, <2>2, <2>3, <3>1, MentionProceeds DEF readNote, mentionRows
    <2>4. CASE trashed
      <3>1. handling[w] \in unfit
        BY <2>4, <2>1, <1>1 DEF MentionedOK, PastIsKnown, Fit
      <3> QED
        BY <1>3, <2>1, <2>2, <2>4, <3>1, MentionEnds DEF readNote, Returns, mentionRows
    <2> QED
      BY <2>3, <2>4
  <1>4. CASE queueMail(w)
    <2>1. Doing(w, "mail") /\ ~Doing(w, "idle") /\ ~Doing(w, "return")
      BY <1>4 DEF queueMail, Doing
    <2>2. /\ Proceeds(w, "emit")
          /\ UNCHANGED <<jobVars, mentionFacts, mentionPast, notices, unheard>>
      BY <1>4 DEF queueMail, still
    <2>3. handling[w] \in Jobs /\ handling[w] \in readerOnce /\ told[handling[w]] \in Nat
      BY <2>1, <1>1 DEF NotifierOK, Doing
    <2>4. withheld \in [Jobs -> Nat] /\ told \in [Jobs -> Nat]
      BY DEF MentionIInv, MentionTyped
    <2>5. CASE withheld' = Count(withheld, w) /\ UNCHANGED told
      <3>1. withheld'[handling[w]] > 0
        BY <2>3, <2>4, <2>5 DEF Count
      <3> QED
        BY <2>1, <2>2, <2>3, <2>5, <3>1, MentionProceeds
    <2>6. CASE UNCHANGED withheld /\ told[handling[w]] = 0 /\ told' = Count(told, w)
      <3>1. told'[handling[w]] > 0
        BY <2>3, <2>4, <2>6 DEF Count
      <3> QED
        BY <2>1, <2>2, <2>3, <2>6, <3>1, MentionProceeds
    <2>7. CASE UNCHANGED withheld /\ told[handling[w]] # 0 /\ told' = told
      <3>1. told'[handling[w]] > 0
        BY <2>3, <2>7
      <3> QED
        BY <2>1, <2>2, <2>3, <2>7, <3>1, MentionProceeds
    <2> QED
      BY <1>4, <2>5, <2>6, <2>7 DEF queueMail
  <1>5. CASE return(w)
    <2>1. Doing(w, "return") /\ ~Doing(w, "idle")
      BY <1>5 DEF return, Doing
    <2>2. notices[handling[w]] > 0
      BY <2>1, <1>1 DEF NotifierOK
    <2>3. UNCHANGED <<mentionFacts, mentionPast, mentionRows>>
      BY <1>5 DEF return, still
    <2> QED
      BY <1>5, <2>1, <2>2, <2>3, MentionEnds DEF return, Returns, mentionRows
  <1> QED
    BY <1>2, <1>3, <1>4, <1>5, EmitKeeps DEF notify

LEMMA HandlerFailsKeeps ==
  ASSUME MentionIInv, ConsumerInv', NEW w \in Workers, handlerFails(w)
  PROVE  MentionIInv'
  <1>1. ~Doing(w, "idle") /\ Proceeds(w, "idle") /\ UNCHANGED <<mentionFacts, mentionPast>>
    BY DEF handlerFails, still
  <1>2. AfterThrow(w) \in {"accepted", "dead"}
    BY DEF AfterThrow
  <1>3. CASE Dies(w) /\ UNCHANGED mentionRows
    BY <1>1, <1>3, MentionEnds DEF Dies, mentionRows
  <1>4. CASE ~Doing(w, "return") /\ Fails(w) /\ UNCHANGED mentionRows
    BY <1>1, <1>2, <1>4, MentionEnds DEF Fails, mentionRows
  <1>5. CASE /\ Doing(w, "emit") /\ Fails(w)
             /\ notices' = Count(notices, w)
             /\ unheard' = Count(unheard, w)
             /\ UNCHANGED <<told, withheld>>
    <2>1. ~Doing(w, "return")
      BY <1>5 DEF Doing
    <2> QED
      BY <1>1, <1>2, <1>5, <2>1, MentionEnds DEF Fails
  <1> QED
    BY <1>3, <1>4, <1>5 DEF handlerFails

LEMMA NextMention == MentionIInv /\ [MentionNext]_mentionVars => MentionIInv'
  <1> SUFFICES ASSUME MentionIInv, [MentionNext]_mentionVars PROVE MentionIInv'
    OBVIOUS
  <1>1. ConsumerInv'
    BY MentionKeepsConsumer DEF MentionIInv
  <1> QED
    BY <1>1, SaveKeeps, ChangesKeep, PreferencesKeep, MentionBegins, NotifyKeeps,
       HandlerFailsKeeps, MentionAroundKeeps DEF MentionNext

----------------------------------------------------------------------------

\* Whoever hears of a note could read it at some time since the mention, nobody is mailed
\* twice, a notification comes after its mail and once per attempt that an operator or an
\* unheard answer asked for, and an intent that is done has told whoever could read the
\* note all along (mention-notification.worker.service.ts, handle).
THEOREM MentionsAreTrue == MentionSpec => []MentionInv
  BY InitMention, NextMention, MentionIInvImplies, PTL DEF MentionSpec

\* The intents of mentions keep the promise of the pipeline.
THEOREM MentionsKeepPromise == MentionSpec => IntentsKeepPromise
  <1>1. JobInit /\ MentionInit => ConsumerInv /\ Promise!Init
    BY JobInitConsumerInv, JobInitIsPromised
  <1>2. ConsumerInv /\ [MentionNext]_mentionVars => ConsumerInv' /\ [Promise!Next]_phase
    BY MentionKeepsConsumer
  <1> QED
    BY <1>1, <1>2, PTL DEF MentionSpec, IntentsKeepPromise, Promise!Spec

----------------------------------------------------------------------------
(* The theorems about what MCHandlers composes: each handler under the     *)
(* specification that draws one of them, whichever it is.  The others rest *)
(* as they began.                                                          *)

\* The index is empty, and so are the notes, while no sync or rebuild is looked at.
IndexRests ==
    /\ stateOf = Blank /\ index = Blank
    /\ syncing = [w \in Workers |-> Idle]

HandlersIInv ==
    /\ ConsumerInv
    /\ Is("webhooks") \/ Is("replays") => HookIInv
    /\ Is("mails") => MailIInv
    /\ Is("mentions") => MentionIInv
    /\ IF Is("search") THEN SearchIInv ELSE IndexRests

LEMMA HandlersInit == MCInit => HandlersIInv
  <1> SUFFICES ASSUME MCInit PROVE HandlersIInv
    OBVIOUS
  <1>1. JobInit /\ SearchInit /\ EndpointInit /\ MailInit /\ MentionInit /\ IndexInit
    BY DEF MCInit, SearchInit
  <1>2. SearchIInv
    BY <1>1, SearchInitHolds, SearchAssumption
  <1>3. IndexRests
    BY <1>1 DEF IndexInit, IndexRests
  <1> QED
    BY <1>1, <1>2, <1>3, JobInitConsumerInv, InitHook, InitMail, InitMention
       DEF HandlersIInv, WebhookInit, EmailInit

\* A step is one of the handler that is looked at, and leaves the variables of the others.
LEMMA HandlersSteps ==
  ASSUME [MCNext]_mcVars
  PROVE  /\ UNCHANGED subject
         /\ Is("webhooks") \/ Is("replays") => [WebhookNext]_webhookVars
         /\ Is("mails") => [EmailNext]_emailVars
         /\ Is("search") => [SearchNext]_searchVars
         /\ Is("mentions") => [MentionNext]_mentionVars
         /\ Is("webhooks") \/ Is("replays") \/ UNCHANGED webhooks
         /\ Is("mails") \/ UNCHANGED mails
         /\ Is("search") \/ UNCHANGED indexed
         /\ \/ Is("webhooks") \/ Is("replays") \/ Is("mails") \/ Is("search") \/ Is("mentions")
            \/ UNCHANGED jobVars
  <1>1. CASE MCNext
    BY <1>1 DEF MCNext, Is
  <1>2. CASE UNCHANGED mcVars
    <2>1. UNCHANGED <<subject, jobVars, webhooks, mails, indexed, mentions>>
      BY <1>2 DEF mcVars
    <2>2. /\ UNCHANGED webhookVars /\ UNCHANGED emailVars /\ UNCHANGED searchVars
          /\ UNCHANGED mentionVars
      BY <2>1 DEF webhooks, mails, indexed, mentions, webhookVars, emailVars, searchVars,
                  mentionVars, emailRows
    <2> QED
      BY <2>1, <2>2
  <1> QED
    BY <1>1, <1>2

LEMMA HandlersNext ==
  ASSUME HandlersIInv, [MCNext]_mcVars
  PROVE  HandlersIInv' /\ [Promise!Next]_phase
  <1>1. ConsumerInv' /\ [Promise!Next]_phase
    <2>1. CASE Is("webhooks") \/ Is("replays")
      BY <2>1, HandlersSteps, HookKeepsConsumer DEF HandlersIInv
    <2>2. CASE Is("mails")
      BY <2>2, HandlersSteps, StepKeepsConsumer DEF HandlersIInv
    <2>3. CASE Is("mentions")
      BY <2>3, HandlersSteps, MentionKeepsConsumer DEF HandlersIInv
    <2>4. CASE Is("search")
      BY <2>4, HandlersSteps, SearchStepIsJobStep, JobStepKeepsInv, JobStepIsPromised,
         RestKeepsConsumerInv DEF IntentsRest, HandlersIInv
    <2>5. CASE UNCHANGED jobVars
      BY <2>5, RestKeepsConsumerInv DEF IntentsRest, jobVars, HandlersIInv
    <2> QED
      BY <2>1, <2>2, <2>3, <2>4, <2>5, HandlersSteps
  <1>2. Is("webhooks") \/ Is("replays") => HookIInv'
    BY HandlersSteps, NextHook DEF HandlersIInv
  <1>3. Is("mails") => MailIInv'
    BY HandlersSteps, NextMail DEF HandlersIInv
  <1>4. Is("mentions") => MentionIInv'
    BY HandlersSteps, NextMention DEF HandlersIInv
  <1>5. CASE Is("search")
    <2>1. SearchIInv'
      BY <1>5, HandlersSteps, SearchNextKeeps, SearchAssumption DEF HandlersIInv
    <2> QED
      BY <2>1, <1>1, <1>2, <1>3, <1>4, <1>5, HandlersSteps DEF HandlersIInv, Is
  <1>6. CASE ~Is("search")
    <2>1. IndexRests'
      BY <1>6, HandlersSteps DEF HandlersIInv, IndexRests, indexed, Blank, Idle
    <2> QED
      BY <2>1, <1>1, <1>2, <1>3, <1>4, <1>6, HandlersSteps DEF HandlersIInv, Is
  <1> QED
    BY <1>5, <1>6

\* What an operator reads about an event is true, whether it is an event or a replay
\* (webhook-delivery.worker.service.ts).
THEOREM EventsAlwaysTold == MCSpec => []EventsAreTold
  <1>1. HandlersIInv => EventsAreTold
    BY HookIInvImplies DEF HandlersIInv, EventsAreTold
  <1> QED
    BY <1>1, HandlersInit, HandlersNext, PTL DEF MCSpec

\* The mailbox and the delivery row agree and nothing is mailed twice; a mention reaches
\* those who may read the note, once unless an operator or an unheard answer asks for more
\* (email-delivery.worker.service.ts, mention-notification.worker.service.ts).
THEOREM MessagesAlwaysTrue == MCSpec => []MessagesAreTrue
  <1>1. HandlersIInv => MessagesAreTrue
    BY MailIInvImplies, MentionIInvImplies DEF HandlersIInv, MessagesAreTrue
  <1> QED
    BY <1>1, HandlersInit, HandlersNext, PTL DEF MCSpec

\* The index is explained at every moment; it is empty while nothing writes it
\* (note-index-job-handler.service.ts).
THEOREM IndexAlwaysExplained == MCSpec => []IndexInv
  <1>1. HandlersIInv => IndexInv
    <2> SUFFICES ASSUME HandlersIInv PROVE IndexInv
      OBVIOUS
    <2>1. CASE Is("search")
      BY <2>1, IndexInvHolds DEF HandlersIInv
    <2>2. CASE ~Is("search")
      <3>1. IndexRests
        BY <2>2 DEF HandlersIInv
      <3>2. Blank \in [Notes -> 0..MaxChanges] /\ Idle.pc = "idle"
        BY SearchAssumption DEF Blank, NoDocument, Idle
      <3> QED
        BY <3>1, <3>2 DEF IndexRests, IndexInv, SearchTypeOK, DriftIsExplained
    <2> QED
      BY <2>1, <2>2
  <1> QED
    BY <1>1, HandlersInit, HandlersNext, PTL DEF MCSpec

\* Nothing is sent that the endpoint or its creator may not have, nothing settled changes,
\* and a rebuild that nothing disturbs repairs the index, under the composed specification.
THEOREM HandlersStaySound ==
    MCSpec => SendsOnlyIfEntitled /\ SettledMailStays /\ RebuildRepairs
  <1>1. HandlersIInv /\ [MCNext]_mcVars =>
           [\A w \in Workers :
               Sends(w) => barred \cap ({w} \X {"endpoint", "access"}) = {}]_webhookVars
    <2> SUFFICES ASSUME HandlersIInv, [MCNext]_mcVars, NEW w \in Workers, Sends(w)
                 PROVE  barred \cap ({w} \X {"endpoint", "access"}) = {}
      OBVIOUS
    <2>1. CASE Is("webhooks") \/ Is("replays")
      BY <2>1, BarredSendsNothing DEF HandlersIInv
    <2>2. CASE UNCHANGED webhooks
      BY <2>2 DEF webhooks, run, Sends, At
    <2> QED
      BY <2>1, <2>2, HandlersSteps
  <1>2. HandlersIInv /\ [MCNext]_mcVars =>
           [\A j \in Jobs :
               delivery[j] \in Settled /\ kind[j] # "invitation" => delivery'[j] = delivery[j]
           ]_emailVars
    <2> SUFFICES ASSUME HandlersIInv, [MCNext]_mcVars, NEW j \in Jobs,
                        delivery[j] \in Settled, kind[j] # "invitation"
                 PROVE  delivery'[j] = delivery[j]
      OBVIOUS
    <2>1. CASE Is("mails")
      BY <2>1, HandlersSteps, SettledStays DEF HandlersIInv
    <2>2. CASE UNCHANGED mails
      BY <2>2 DEF mails, emailRows
    <2> QED
      BY <2>1, <2>2, HandlersSteps
  <1>3. HandlersIInv /\ [MCNext]_mcVars =>
           [Reindexing("finish") /\ reindex.quiet /\ reindex'.pc = "none" =>
               index' = stateOf]_searchVars
    <2> SUFFICES ASSUME HandlersIInv, [MCNext]_mcVars, Reindexing("finish"), reindex.quiet,
                        reindex'.pc = "none"
                 PROVE  index' = stateOf
      OBVIOUS
    <2>1. reindex' # reindex
      BY DEF Reindexing
    <2>2. Is("search") /\ SearchNext
      BY <2>1, HandlersSteps DEF indexed, searchVars
    <2> QED
      BY <2>2, FinishRepairs DEF HandlersIInv
  <1> QED
    BY <1>1, <1>2, <1>3, HandlersInit, HandlersNext, PTL
       DEF MCSpec, SendsOnlyIfEntitled, SettledMailStays, RebuildRepairs

\* Whatever handler is looked at, its intents behave as JobPromise says.
THEOREM HandlersKeepPromise == MCSpec => IntentsKeepPromise
  <1>1. MCInit => Promise!Init
    BY JobInitIsPromised DEF MCInit, SearchInit
  <1> QED
    BY <1>1, HandlersInit, HandlersNext, PTL DEF MCSpec, IntentsKeepPromise, Promise!Spec
=============================================================================
