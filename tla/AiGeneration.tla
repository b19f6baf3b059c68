---------------------------- MODULE AiGeneration ----------------------------
(***************************************************************************)
(* One workspace's AI requests: the checks of ai-governance.service.ts     *)
(* that admit them, and the generation of ai-stream.service.ts, streamed   *)
(* to a reader (run) or collected (complete), up to its row in ai_usage.   *)
(*                                                                         *)
(* Text is counted in characters that are one token each.  A minute is the *)
(* burst window, which may end while a request is between two checks: each *)
(* await has a timeout of its own.  Everything happens within one day.     *)
(***************************************************************************)
EXTENDS Naturals, FiniteSets

CONSTANTS
    Requests,
    Readers,        \* the requests that are streamed; the others are collected
    Quota,          \* dailyTokenQuota
    Limit,          \* rateLimitPerMinute
    MaxOutput,      \* maxOutputChars of a prompt
    Prompt,         \* tokens of a prompt
    Patience,       \* windows that may end between the answer of the quota and the burst check
    Timeout,        \* windows that may end between the burst check and the row: requestTimeoutMs
    LastMinute      \* bound: minutes considered

Tokens == Prompt + MaxOutput

VARIABLES
    used,           \* tokens in the rows of today
    rows,           \* rows written for each request
    minute,
    window,         \* count of the workspace's burst window
    generation,     \* the state of each request
    frames          \* the terminal frames sent to each reader

aiVars == <<used, rows, minute, window, generation, frames>>

Fresh == [pc |-> "new", saw |-> FALSE, chars |-> 0, usage |-> FALSE, cancelled |-> FALSE,
          timedOut |-> FALSE, aborted |-> FALSE, error |-> "none", since |-> 0]

AiInit ==
    /\ used = 0
    /\ rows = [r \in Requests |-> 0]
    /\ minute = 0
    /\ window = 0
    /\ generation = [r \in Requests |-> Fresh]
    /\ frames = [r \in Requests |-> {}]

----------------------------------------------------------------------------
(* AiGovernanceService.acquire.                                            *)

At(r, pc) == generation[r].pc = pc
Becomes(r, s) == generation' = [generation EXCEPT ![r] = s]
Goes(r, pc) == Becomes(r, [generation[r] EXCEPT !.pc = pc])
Metered == UNCHANGED <<used, rows>>
NoFrame == UNCHANGED frames

\* A refusal is a usage event without tokens.
recordRefusal(r) == rows' = [rows EXCEPT ![r] = @ + 1] /\ UNCHANGED used

\* AI is on, set up and consented to at this moment, or it is not.
loadConfig(r) ==
    /\ At(r, "new")
    /\ Goes(r, "quota") \/ Goes(r, "refused")
    /\ Metered /\ NoFrame /\ UNCHANGED <<minute, window>>

tokensUsedToday(r) ==
    /\ At(r, "quota")
    /\ \/ /\ used >= Quota
          /\ Goes(r, "refused")
          /\ recordRefusal(r)
       \/ /\ used < Quota
          /\ Becomes(r, [generation[r] EXCEPT !.pc = "burst", !.since = minute])
          /\ Metered
       \/ Goes(r, "refused") /\ Metered      \* the quota cannot be read
    /\ NoFrame /\ UNCHANGED <<minute, window>>

\* The provider's allowance, the credential, the provider: then the deadline starts.
admit(r) ==
    \/ Goes(r, "refused") /\ recordRefusal(r)
    \/ Goes(r, "refused") /\ Metered         \* a credential that cannot be decrypted
    \/ Becomes(r, [generation[r] EXCEPT !.pc = "stream", !.since = minute]) /\ Metered

\* Counted even if it is refused; Redis may be away.
withinWorkspaceWindow(r) ==
    /\ At(r, "burst")
    /\ \/ /\ window' = IF window > Limit THEN window ELSE window + 1
          /\ IF window' <= Limit THEN admit(r)
             ELSE Goes(r, "refused") /\ recordRefusal(r)
       \/ UNCHANGED window /\ Goes(r, "refused") /\ recordRefusal(r)
    /\ NoFrame /\ UNCHANGED minute

----------------------------------------------------------------------------
(* AiStreamService.                                                        *)

Streaming(r) == At(r, "stream") /\ ~generation[r].aborted
\* The deadline is cleared; what a collected request ended with is its caller's.
Ends(r, s) ==
    Becomes(r, [s EXCEPT !.pc = "end", !.aborted = FALSE, !.timedOut = FALSE,
                         !.error = IF r \in Readers THEN @ ELSE "none"])
Unmetered == Metered /\ UNCHANGED <<minute, window>>

\* send: a frame reaches a reader that has not closed the response.
Sends(r, frame) ==
    frames' = IF r \in Readers /\ ~generation[r].cancelled
              THEN [frames EXCEPT ![r] = @ \cup {frame}] ELSE frames

\* A delta past the ceiling is dropped, and the reader is told before the loop is left.
delta(r, blank) ==
    LET s == generation[r]
    IN  /\ Streaming(r)
        /\ IF s.chars + 1 > MaxOutput
           THEN /\ Becomes(r, [s EXCEPT !.error = "truncated", !.aborted = TRUE])
                /\ Sends(r, "error")
           ELSE /\ Becomes(r, [s EXCEPT !.chars = @ + 1, !.saw = (@ \/ (r \in Readers /\ ~blank))])
                /\ NoFrame
        /\ Unmetered

usageEvent(r) ==
    /\ Streaming(r) /\ ~generation[r].usage
    /\ Becomes(r, [generation[r] EXCEPT !.usage = TRUE])
    /\ NoFrame /\ Unmetered

\* The reader closes the response; a collected one has none.
onClose(r) ==
    /\ r \in Readers /\ At(r, "stream") /\ ~generation[r].cancelled
    /\ Becomes(r, [generation[r] EXCEPT !.cancelled = TRUE, !.aborted = TRUE])
    /\ NoFrame /\ Unmetered

onDeadline(r) ==
    /\ At(r, "stream") /\ ~generation[r].timedOut
    /\ Becomes(r, [generation[r] EXCEPT !.timedOut = TRUE, !.aborted = TRUE])
    /\ NoFrame /\ Unmetered

\* Mutant: a reader who was told of the truncation is told again.
ToldIfGone(s) == s.cancelled

\* The reader knows already, or has gone.
Told(s) == s.cancelled \/ s.error = "truncated"

\* The provider's iterator ends, by itself or because it was aborted.
finishes(r) ==
    LET s == generation[r]
    IN  /\ At(r, "stream")
        /\ IF Told(s) THEN Ends(r, s) /\ NoFrame
           ELSE IF s.timedOut
           THEN Ends(r, [s EXCEPT !.error = "timeout"]) /\ Sends(r, "error")
           ELSE IF r \in Readers /\ ~s.saw
           THEN Ends(r, [s EXCEPT !.error = "empty"]) /\ Sends(r, "error")
           ELSE Ends(r, s) /\ Sends(r, "done")
        /\ Unmetered

\* The iterator throws: the provider failed, or the abort surfaces.
throws(r) ==
    LET s == generation[r]
    IN  /\ At(r, "stream")
        /\ IF Told(s) THEN Ends(r, s) /\ NoFrame
           ELSE /\ Ends(r, [s EXCEPT !.error = IF s.timedOut THEN "timeout" ELSE "provider"])
                /\ Sends(r, "error")
        /\ Unmetered

\* Mutant: the provider's total is added to the parts it is the sum of.
outcomeAndTotal(s) ==
    IF s.usage THEN 2 * (Prompt + s.chars) ELSE IF s.cancelled THEN s.chars ELSE 0

\* The tokens of a row: what the provider said, or an estimate for a reader who left.
outcome(s) ==
    IF s.usage THEN Prompt + s.chars ELSE IF s.cancelled THEN s.chars ELSE 0

\* What the frames told a reader is compared with how the request ended; the rest is gone.
Returns(r, pc) ==
    LET s == generation[r]
    IN  Becomes(r, IF r \in Readers
                   THEN [Fresh EXCEPT !.pc = pc, !.saw = s.saw, !.error = s.error,
                                      !.cancelled = s.cancelled]
                   ELSE [Fresh EXCEPT !.pc = pc])

\* The finally block, which calls recordUsage whatever happened; the insert may fail.
recordUsage(r) ==
    /\ At(r, "end")
    /\ \/ /\ rows' = [rows EXCEPT ![r] = @ + 1]
          /\ used' = used + outcome(generation[r])
          /\ Returns(r, "recorded")
       \/ Metered /\ Returns(r, "lost")
    /\ NoFrame /\ UNCHANGED <<minute, window>>

----------------------------------------------------------------------------

\* The burst window expires, wherever the requests are: a command to Redis is given up
\* before Patience windows have passed, a generation before Timeout have.
tick ==
    /\ minute < LastMinute
    /\ \A r \in Requests :
          /\ At(r, "burst") => minute < generation[r].since + Patience
          /\ generation[r].pc \in {"stream", "end"} => minute < generation[r].since + Timeout
    /\ minute' = minute + 1
    /\ window' = 0
    /\ NoFrame /\ UNCHANGED <<used, rows, generation>>

Generating(r) == finishes(r) \/ throws(r)
Admitting(r) == loadConfig(r) \/ tokensUsedToday(r) \/ withinWorkspaceWindow(r)

AiNext ==
    \/ \E r \in Requests :
          \/ Admitting(r)
          \/ \E blank \in BOOLEAN : delta(r, blank)
          \/ usageEvent(r) \/ onClose(r) \/ onDeadline(r)
          \/ Generating(r) \/ recordUsage(r)
    \/ tick

AiSpec == AiInit /\ [][AiNext]_aiVars

\* Awaited calls return; the deadline fires, and an aborted provider gives up.
AiFairness ==
    \A r \in Requests :
        /\ WF_aiVars(Admitting(r))
        /\ WF_aiVars(onDeadline(r))
        /\ WF_aiVars(generation[r].aborted /\ Generating(r))
        /\ WF_aiVars(recordUsage(r))

----------------------------------------------------------------------------
(* Properties.                                                             *)

\* The variables keep their types.
AiTypeOK ==
    /\ minute \in 0..LastMinute /\ window \in 0..(Limit + 1)
    /\ used \in 0..(Cardinality(Requests) * Tokens)
    /\ \A r \in Requests : generation[r].chars \in 0..MaxOutput /\ rows[r] \in Nat

\* Every request that ends has exactly one row, unless it was never metered or the
\* insert failed.
OneUsageRow ==
    \A r \in Requests :
        IF generation[r].pc = "refused" THEN rows[r] <= 1
        ELSE rows[r] = IF generation[r].pc = "recorded" THEN 1 ELSE 0

\* Concurrent requests overshoot the quota, by the generations of the burst windows that
\* reach from a timeout before it was used up to the last check that did not know.
OvershootIsBounded == used < Quota + (Timeout + 1 + Patience) * Limit * Tokens

\* A reader who stays is told once how the generation ended.
OneTerminalFrame ==
    \A r \in Readers :
        /\ Cardinality(frames[r]) <= 1
        /\ generation[r].pc \in {"end", "recorded", "lost"} /\ ~generation[r].cancelled
              => Cardinality(frames[r]) = 1

\* A generation that is reported done was not cut short.
DoneIsWhole ==
    \A r \in Readers :
        frames[r] = {"done"} => generation[r].error = "none" /\ generation[r].saw

\* The books of the gateway and what its readers are told agree with what happened.
MeteringInv ==
    AiTypeOK /\ OneUsageRow /\ OvershootIsBounded /\ OneTerminalFrame /\ DoneIsWhole

\* Every request comes to its end.
RequestsConclude ==
    \A r \in Requests : <>(generation[r].pc \in {"refused", "recorded", "lost"})
=============================================================================
