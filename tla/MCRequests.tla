---------------------------- MODULE MCRequests ----------------------------
(***************************************************************************)
(* What one person asks for and waits for: an export, the saving of what   *)
(* is typed, a shared document, an answer of the AI gateway, a domain of   *)
(* one's own, a tag or a status of a given name.  The subject of a         *)
(* behaviour is drawn at its start, and the variables of the others keep   *)
(* their first values.                                                     *)
(*                                                                         *)
(* Exports share nothing but workers and sweeps, which take every export   *)
(* on its own: one export with two handler invocations has every race.     *)
(***************************************************************************)
EXTENDS ExportJob, Autosave

CONSTANTS
    \* the collaboration client of a tab
    MaxHandshakes, MaxFlushes, MaxSynced, MaxRebuilds, MaxLost,
    \* the requests of the AI gateway
    Requests, Readers, Quota, Limit, MaxOutput, Prompt, Patience, Timeout, LastMinute,
    \* the domains of workspaces
    Tenants, Hosts, Watched, Calls, Nobody, MaxClaims, MaxCalls,
    \* tags and statuses
    Asking, Seed, Keys, Names, Ceiling, Tries

\* A workspace may have a tag; Nobody is no record, and no view of the tables.
ASSUME NamesAssumption ==
    /\ Ceiling \in Nat \ {0}
    /\ Seed \notin Asking
    /\ Nobody \notin Asking \cup {Seed} \cup Keys \cup Names
    /\ Nobody \notin [id : Asking, name : Names]
    /\ Nobody \notin [rows : SUBSET [id : Asking \cup {Seed}, name : Names, order : Nat],
                      records : [Keys -> [id : Asking, name : Names] \cup {Nobody}]]
    /\ Asking \cap {"reused", "missing", "taken", "full", "failed", "done"} = {}

VARIABLES
    subject,
    server, client, calls, frames, lost,
    used, rowsOf, minute, window, generation, told,
    claims, minted, mirror, proved, unmirrored, call, begun, cache, lookup,
    kind, named, records, asking

Client == INSTANCE CollabClient
                WITH MaxEdits <- MaxSynced, MaxFaults <- MaxLost, spent <- lost
Ai == INSTANCE AiGeneration WITH frames <- told, rows <- rowsOf

Domains == INSTANCE DomainBinding
Naming == INSTANCE NamedCreation WITH Nil <- Nobody, rows <- named

synced == <<server, client, calls, frames, lost>>
ai == <<used, rowsOf, minute, window, generation, told>>
domains == <<claims, minted, mirror, proved, unmirrored, call, begun, cache, lookup>>
naming == <<kind, named, records, asking>>
mcVars == <<subject, vars, tabVars, synced, ai, domains, naming>>

Is(s) == subject = s

MCInit ==
    /\ subject \in {"exports", "autosave", "collaboration", "ai", "domains", "names"}
    /\ Init /\ TabInit /\ Client!ClientInit /\ Ai!AiInit
    /\ Is("autosave") \/ ~room
    /\ Domains!DomainInit
    /\ claims = {} \/ (Is("domains") /\ mirror[CHOOSE t \in Tenants : TRUE] = Watched)
    /\ Naming!CreationInit
    /\ \E a \in named : a.name = CHOOSE n \in Names : TRUE
    /\ Is("names") \/ kind = "tags"

MCNext ==
    /\ UNCHANGED subject
    /\ \/ Is("exports") /\ Next /\ UNCHANGED <<tabVars, synced, ai, domains, naming>>
       \/ Is("autosave") /\ TabNext /\ UNCHANGED <<vars, synced, ai, domains, naming>>
       \/ Is("collaboration") /\ Client!ClientNext
          /\ UNCHANGED <<vars, tabVars, ai, domains, naming>>
       \/ Is("ai") /\ Ai!AiNext /\ UNCHANGED <<vars, tabVars, synced, domains, naming>>
       \/ Is("domains") /\ Domains!DomainNext /\ UNCHANGED <<vars, tabVars, synced, ai, naming>>
       \/ Is("names") /\ Naming!CreationNext /\ UNCHANGED <<vars, tabVars, synced, ai, domains>>

\* The fairness of each component, as its module states it.
MCSpec ==
    /\ MCInit
    /\ [][MCNext]_mcVars
    /\ \A e \in Exports :
          /\ WF_vars(Is("exports") /\ \E w \in Workers : Deliver(w, e))
          /\ WF_vars(Is("exports") /\ RetentionElapses(e))
          /\ WF_vars(Is("exports") /\ GrowOld(e))
    /\ \A w \in Workers : WF_vars(Is("exports") /\ HandlerStep(w))
    /\ WF_vars(Is("exports") /\ SweepStep)
    /\ \A timer \in {"debounce", "retry"} : WF_tabVars(Is("autosave") /\ Elapse(timer))
    /\ WF_tabVars(Is("autosave") /\ Answered)
    /\ WF_synced(Is("collaboration") /\ Client!handleServerReady)
    /\ WF_synced(Is("collaboration") /\ Client!flushUpdates)
    /\ WF_synced(Is("collaboration") /\ Client!handshakeRetry)
    /\ WF_synced(Is("collaboration") /\ Client!cooldownRetry)
    /\ WF_synced(Is("collaboration")
                    /\ \E q \in calls : Client!Acknowledged(q) \/ Client!Served(q))
    /\ WF_synced(Is("collaboration") /\ \E f \in frames : Client!Received(f))
    /\ \A r \in Requests :
          /\ WF_ai(Is("ai") /\ Ai!Admitting(r))
          /\ WF_ai(Is("ai") /\ Ai!onDeadline(r))
          /\ WF_ai(Is("ai") /\ generation[r].aborted /\ Ai!Generating(r))
          /\ WF_ai(Is("ai") /\ Ai!recordUsage(r))
    /\ WF_domains(Is("domains") /\ Domains!Expire)
    /\ \A r \in Asking : WF_naming(Is("names") /\ Naming!Serving(r))

----------------------------------------------------------------------------
(* The properties of the components, each where its subject is looked at;  *)
(* those of ExportJob and Autosave are here by EXTENDS.                              *)

\* What is typed into a shared document is not forgotten (note-collaboration-provider.ts).
ClientInv == Is("collaboration") => Client!ClientInv

\* A domain is verified for who proved it and distrusted where it was released; a key
\* creates once, and two rows have two names (domains.service.ts, api-idempotency.ts,
\* tags.service.ts, task-statuses.service.ts).
ClaimsInv ==
    /\ Is("domains") => Domains!DomainInv
    /\ Is("names") => Naming!NamesInv

\* Every request comes to an end: an export settles and its bytes are reclaimed, a save
\* is answered, an edit is saved or seen not to be, a synced edit arrives and what
\* others wrote is shown, an AI request is refused, recorded or lost and its reader told
\* how, a released domain is distrusted everywhere, and a creation is answered.
RequestsConclude ==
    /\ SettlesUnlessStruck /\ ArtefactsReclaimed
    /\ Is("autosave") => SavesSettle /\ EditsSettle
    /\ Is("collaboration") => Client!TabKeepsUp /\ Client!EditsArrive
    /\ Is("ai") => Ai!RequestsConclude /\ []Ai!MeteringInv
    /\ Is("domains") => Domains!ReleaseSpreads
    /\ Is("names") => Naming!AnswersCome
=============================================================================
