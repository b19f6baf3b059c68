------------------------- MODULE JobConsumer_proofs -------------------------
(***************************************************************************)
(* The handlers of a job type implement JobPromise.  The argument rests on *)
(* one invariant: an invocation the pipeline still waits for executes its  *)
(* intent, and no other such invocation does.  A module that adds to each  *)
(* of these steps what its handler does cites JobStepKeepsInv and          *)
(* JobStepIsPromised.                                                      *)
(***************************************************************************)
EXTENDS JobConsumer, TLAPS

\* The invocations the pipeline still waits for.
Attended(w) == handling[w] # NoJob /\ w \notin abandoned

ConsumerTypeOK ==
    /\ phase \in [Jobs -> Promise!Phases]
    /\ attempts \in [Jobs -> 0..MaxAttempts]
    /\ handling \in [Workers -> Jobs \cup {NoJob}]
    /\ abandoned \subseteq Workers

\* An intent waits for its next attempt with attempts left.
AttemptsLeft ==
    \A j \in Jobs : phase[j] \in {"absent", "accepted"} => attempts[j] < MaxAttempts

AttendedExecutes ==
    \A w \in Workers : Attended(w) => phase[handling[w]] = "executing"

OneAttends ==
    \A v, w \in Workers : Attended(v) /\ Attended(w) /\ handling[v] = handling[w] => v = w

AbandonedHandles == \A w \in abandoned : handling[w] # NoJob

ConsumerInv ==
    /\ ConsumerTypeOK
    /\ AttemptsLeft
    /\ AttendedExecutes
    /\ OneAttends
    /\ AbandonedHandles

LEMMA JobInitConsumerInv == JobInit => ConsumerInv
  BY JobAssumption
     DEF JobInit, ConsumerInv, ConsumerTypeOK, AttemptsLeft, AttendedExecutes, OneAttends,
         AbandonedHandles, Attended, Promise!Phases

\* The end of an invocation settles its intent if the pipeline still waits for it.
LEMMA EndKeepsInv ==
    ASSUME ConsumerInv, NEW w \in Workers, NEW outcome \in {"done", "dead", AfterThrow(w)},
           End(w, outcome)
    PROVE  ConsumerInv'
  <1> DEFINE j == handling[w]
  <1>1. j \in Jobs /\ j # NoJob /\ attempts[j] \in 0..MaxAttempts
    BY DEF ConsumerInv, ConsumerTypeOK, End
  <1>2. outcome \in {"done", "accepted", "dead"}
        /\ (outcome = "accepted" => attempts[j] < MaxAttempts)
    BY DEF AfterThrow
  <1>3. handling' = [handling EXCEPT ![w] = NoJob] /\ abandoned' = abandoned \ {w}
        /\ attempts' = attempts
    BY DEF End
  <1>4. \A v \in Workers : Attended(v)' => v # w /\ Attended(v) /\ handling'[v] = handling[v]
    BY <1>3 DEF Attended, ConsumerInv, ConsumerTypeOK
  <1>5. phase' \in [Jobs -> Promise!Phases]
    BY <1>1, <1>2 DEF End, ConsumerInv, ConsumerTypeOK, Promise!Phases
  <1>6. ConsumerTypeOK'
    BY <1>1, <1>3, <1>5 DEF ConsumerInv, ConsumerTypeOK
  <1>7. AttemptsLeft'
    BY <1>1, <1>2, <1>3 DEF End, AttemptsLeft, ConsumerInv, ConsumerTypeOK
  <1>8. ASSUME NEW v \in Workers, Attended(v)'
        PROVE  phase'[handling'[v]] = "executing"
    <2>1. v # w /\ Attended(v) /\ handling'[v] = handling[v] /\ phase[handling[v]] = "executing"
      BY <1>4, <1>8 DEF ConsumerInv, AttendedExecutes
    <2>2. handling[v] \in Jobs
      BY <2>1 DEF Attended, ConsumerInv, ConsumerTypeOK
    <2>3. CASE w \in abandoned
      BY <2>1, <2>3 DEF End
    <2>4. CASE w \notin abandoned
      <3>1. handling[v] # j
        BY <2>1, <2>4, <1>1 DEF ConsumerInv, OneAttends, Attended
      <3>2. QED  BY <3>1, <2>1, <2>2, <2>4 DEF End, ConsumerInv, ConsumerTypeOK
    <2>5. QED  BY <2>3, <2>4
  <1>9. OneAttends'
    BY <1>4 DEF OneAttends, ConsumerInv
  <1>10. AbandonedHandles'
    BY <1>3 DEF AbandonedHandles, ConsumerInv, ConsumerTypeOK
  <1>11. QED  BY <1>6, <1>7, <1>8, <1>9, <1>10 DEF ConsumerInv, AttendedExecutes

\* Each step of the consumer keeps the invariant.
LEMMA JobStepKeepsInv ==
    ASSUME ConsumerInv, JobStep
    PROVE  ConsumerInv'
  <1> USE JobAssumption
  <1>1. ASSUME NEW j \in Jobs, Accept(j)
        PROVE  ConsumerInv'
    <2>1. \A w \in Workers : Attended(w) => handling[w] # j
      BY <1>1 DEF Accept, ConsumerInv, AttendedExecutes
    <2>2. QED
      BY <1>1, <2>1 DEF Accept, ConsumerInv, ConsumerTypeOK, AttemptsLeft, AttendedExecutes,
            OneAttends, AbandonedHandles, Attended, Promise!Phases
  <1>2. ASSUME NEW w \in Workers, NEW j \in Jobs, Begin(w, j)
        PROVE  ConsumerInv'
    <2>1. \A v \in Workers : Attended(v) => handling[v] # j
      BY <1>2 DEF Begin, ConsumerInv, AttendedExecutes
    <2>2. w \notin abandoned /\ j # NoJob
      BY <1>2 DEF Begin, ConsumerInv, AbandonedHandles
    <2>3. ConsumerTypeOK'
      BY <1>2 DEF Begin, ConsumerInv, ConsumerTypeOK, AttemptsLeft, Promise!Phases
    <2>4. AttemptsLeft'
      BY <1>2 DEF Begin, ConsumerInv, ConsumerTypeOK, AttemptsLeft
    <2>5. \A v \in Workers : Attended(v)' => v = w \/ (Attended(v) /\ v # w)
      BY <1>2 DEF Begin, Attended, ConsumerInv, ConsumerTypeOK
    <2>6. handling' = [handling EXCEPT ![w] = j] /\ handling'[w] = j
      BY <1>2 DEF Begin, ConsumerInv, ConsumerTypeOK
    <2>7. AttendedExecutes'
      BY <1>2, <2>1, <2>2, <2>5, <2>6
         DEF Begin, ConsumerInv, ConsumerTypeOK, AttendedExecutes, Attended
    <2>8. OneAttends'
      BY <2>1, <2>5, <2>6 DEF ConsumerInv, ConsumerTypeOK, OneAttends
    <2>9. AbandonedHandles'
      BY <1>2, <2>2 DEF Begin, ConsumerInv, ConsumerTypeOK, AbandonedHandles
    <2>10. QED  BY <2>3, <2>4, <2>7, <2>8, <2>9 DEF ConsumerInv
  <1>3. ASSUME NEW w \in Workers, NEW outcome \in {"done", "dead", AfterThrow(w)},
               End(w, outcome)
        PROVE  ConsumerInv'
    BY <1>3, EndKeepsInv
  <1>4. ASSUME NEW w \in Workers, TimesOut(w)
        PROVE  ConsumerInv'
    <2>1. Attended(w) /\ handling[w] \in Jobs
      BY <1>4 DEF TimesOut, Attended, ConsumerInv, ConsumerTypeOK
    <2>2. \A v \in Workers : Attended(v)' => v # w /\ Attended(v) /\ handling[v] # handling[w]
      BY <1>4, <2>1 DEF TimesOut, Attended, ConsumerInv, OneAttends
    <2>3. QED
      BY <1>4, <2>1, <2>2 DEF TimesOut, ConsumerInv, ConsumerTypeOK, AttemptsLeft,
            AttendedExecutes, OneAttends, AbandonedHandles, Attended, Promise!Phases
  <1>5. ASSUME NEW j \in Jobs, Refused(j) \/ OperatorRetry(j)
        PROVE  ConsumerInv'
    <2>1. \A w \in Workers : Attended(w) => handling[w] # j
      BY <1>5 DEF Refused, OperatorRetry, ConsumerInv, AttendedExecutes
    <2>2. QED
      BY <1>5, <2>1 DEF Refused, OperatorRetry, ConsumerInv, ConsumerTypeOK, AttemptsLeft,
            AttendedExecutes, OneAttends, AbandonedHandles, Attended, Promise!Phases
  <1>6. QED  BY <1>1, <1>2, <1>3, <1>4, <1>5 DEF JobStep, Around

\* Each step of the consumer is a step of JobPromise, or leaves the intents alone.
LEMMA JobStepIsPromised ==
    ASSUME ConsumerInv, JobStep
    PROVE  [Promise!Next]_phase
  <1> USE DEF Promise!Next, Promise!Move
  <1>1. ASSUME NEW j \in Jobs, Accept(j)
        PROVE  Promise!Next
    BY <1>1 DEF Accept, Promise!Accept
  <1>2. ASSUME NEW w \in Workers, NEW j \in Jobs, Begin(w, j)
        PROVE  Promise!Next
    BY <1>2 DEF Begin, Promise!Start
  <1>3. ASSUME NEW w \in Workers, NEW outcome \in {"done", "dead", AfterThrow(w)},
               End(w, outcome)
        PROVE  [Promise!Next]_phase
    <2>1. CASE w \in abandoned
      BY <1>3, <2>1 DEF End
    <2>2. CASE w \notin abandoned
      <3>1. handling[w] \in Jobs /\ phase[handling[w]] = "executing"
        BY <1>3, <2>2 DEF End, Attended, ConsumerInv, ConsumerTypeOK, AttendedExecutes
      <3>2. phase' = [phase EXCEPT ![handling[w]] = outcome]
        BY <1>3, <2>2 DEF End
      <3>3. outcome \in {"done", "dead", "accepted"}
        BY DEF AfterThrow
      <3>4. QED
        BY <3>1, <3>2, <3>3 DEF Promise!Finish, Promise!Bury, Promise!GiveBack
    <2>3. QED  BY <2>1, <2>2
  <1>4. ASSUME NEW w \in Workers, TimesOut(w)
        PROVE  Promise!Next
    <2>1. handling[w] \in Jobs /\ phase[handling[w]] = "executing"
      BY <1>4 DEF TimesOut, Attended, ConsumerInv, ConsumerTypeOK, AttendedExecutes
    <2>2. QED  BY <1>4, <2>1 DEF TimesOut, Promise!Bury
  <1>5. ASSUME NEW j \in Jobs, Refused(j) \/ OperatorRetry(j)
        PROVE  Promise!Next
    BY <1>5 DEF Refused, OperatorRetry, Promise!Bury, Promise!Revive
  <1>6. QED  BY <1>1, <1>2, <1>3, <1>4, <1>5 DEF JobStep, Around

\* A step that leaves the intents alone, whatever it counts as a fault.
IntentsRest == UNCHANGED <<phase, attempts, handling, abandoned>>

LEMMA RestKeepsConsumerInv ==
    ASSUME ConsumerInv, IntentsRest
    PROVE  ConsumerInv'
  BY DEF IntentsRest, ConsumerInv, ConsumerTypeOK, AttemptsLeft, AttendedExecutes, OneAttends,
         AbandonedHandles, Attended

LEMMA JobInitIsPromised == JobInit => Promise!Init
  BY DEF JobInit, Promise!Init

\* The intents of any handler behave as JobPromise says, whatever times out, dies, is
\* refused or ends late (queue-worker-processor.service.ts).
THEOREM ConsumerImplementsPromise == JobSpec => IntentsKeepPromise
  <1>1. ConsumerInv /\ [JobStep]_jobVars => ConsumerInv'
    BY JobStepKeepsInv, RestKeepsConsumerInv DEF jobVars, IntentsRest
  <1>2. ConsumerInv /\ [JobStep]_jobVars => [Promise!Next]_phase
    BY JobStepIsPromised DEF jobVars
  <1>3. QED
    BY <1>1, <1>2, JobInitConsumerInv, JobInitIsPromised, PTL
       DEF JobSpec, IntentsKeepPromise, Promise!Spec
=============================================================================
