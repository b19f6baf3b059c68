---------------------------- MODULE DomainBinding ----------------------------
(***************************************************************************)
(* Custom domains.  A workspace claims a hostname, proves in the DNS that  *)
(* it holds it, and gives it back; the verified hostname is copied into    *)
(* the row of the workspace, and every replica of the API keeps a cache of *)
(* the hosts it may answer for.  The entries of the caches share nothing:  *)
(* the entry of one host on one replica is followed, and a call is made    *)
(* there or elsewhere.  A process that dies forgets what it remembers,     *)
(* like an entry that expires, and a call that is rolled back leaves       *)
(* nothing behind.                                                         *)
(*                                                                         *)
(* A claim is named by its id, which stands for its token too.             *)
(***************************************************************************)
EXTENDS Naturals, FiniteSets

CONSTANTS
    Tenants,       \* workspaces
    Hosts,
    Watched,       \* the host whose cache entry is followed, on one replica
    Calls,         \* calls of the service that can be under way together
    Nobody,        \* no claim, no host
    MaxClaims,     \* bound: claims ever minted
    MaxCalls       \* bound: calls begun

VARIABLES
    claims,        \* workspace_domains
    minted,        \* ids given out
    mirror,        \* workspaces.domain
    proved,        \* claims whose two records a verification has seen in the DNS
    unmirrored,    \* claims whose mirror was cleared by the removal of an older one
    call,
    begun,
    cache,         \* the entry: unknown, trusted, late (out of date), refused
    lookup         \* the lookup under way: none, yes, late, no

domainVars == <<claims, minted, mirror, proved, unmirrored, call, begun,
                cache, lookup>>

Free == [op |-> "none", pc |-> "idle", tenant |-> Nobody, host |-> Nobody,
         row |-> Nobody, ok |-> FALSE]

Claim(id, t, h, status) == [id |-> id, tenant |-> t, host |-> h, status |-> status]
Verified(h) == \E c \in claims : c.host = h /\ c.status = "verified"
Present(row) == \E c \in claims : c.id = row.id
Without(row) == IF row = Nobody THEN claims ELSE {c \in claims : c.id # row.id}

\* A deployment starts with no claim, or with one that was verified.
DomainInit ==
    /\ \/ claims = {} /\ mirror = [t \in Tenants |-> Nobody]
       \/ \E t \in Tenants, h \in Hosts :
             /\ claims = {Claim(1, t, h, "verified")}
             /\ mirror = [u \in Tenants |-> IF u = t THEN h ELSE Nobody]
    /\ minted = Cardinality(claims)
    /\ proved = {c.id : c \in claims}
    /\ unmirrored = {}
    /\ call = [c \in Calls |-> Free]
    /\ begun = 0
    /\ cache = "unknown" /\ lookup = "none"

----------------------------------------------------------------------------
(* The database.                                                           *)

At(c, op, pc) == call[c].op = op /\ call[c].pc = pc
Goes(c, pc) == call' = [call EXCEPT ![c].pc = pc]
Ends(c) == call' = [call EXCEPT ![c] = Free]

\* Every write of a workspace's claim ends in its row of workspaces, which stays locked
\* until the commit.
Unlocked(t) == \A c \in Calls : At(c, "set", "commit") => call[c].tenant # t

\* The index of hostnames makes an insert wait for a commit that takes or frees its host.
Undecided(h) ==
    \E c \in Calls : At(c, "set", "commit")
        /\ (call[c].host = h \/ (call[c].row # Nobody /\ call[c].row.host = h))

\* What is remembered of a host, or about to be, is out of date from now on; a replica
\* that is going to forget it does so in a moment.
Outdates(h, here) ==
    /\ cache' = IF h = Watched /\ ~here /\ cache = "trusted" THEN "late" ELSE cache
    /\ lookup' = IF h = Watched /\ lookup = "yes" THEN "late" ELSE lookup

Forget(h) == cache' = IF h = Watched THEN "unknown" ELSE cache

\* The call goes on to forget the host if it was made here and its process lives on.
GoesOn(c, here) == IF here THEN Goes(c, "invalidate") ELSE Ends(c)

----------------------------------------------------------------------------
(* DomainsService.                                                         *)

\* A call reads the claim of the workspace, which is all it has to do if the claim is
\* that of the hostname already, or if there is none to verify or to remove.  Calls
\* are alike: any that is free will do.
Begin(c, op, t, h, row) ==
    /\ call[c] = Free /\ c = CHOOSE d \in Calls : call[d] = Free
    /\ begun < MaxCalls
    /\ IF row = Nobody THEN \A d \in claims : d.tenant # t ELSE row.tenant = t
    /\ IF op = "set" THEN row # Nobody => row.host # h ELSE row # Nobody
    /\ begun' = begun + 1
    /\ call' = [call EXCEPT ![c] =
                   [op |-> op, pc |-> IF op = "verify" THEN "dns" ELSE "write",
                    tenant |-> t, host |-> h, row |-> row, ok |-> FALSE]]
    /\ UNCHANGED <<claims, minted, mirror, proved, unmirrored, cache, lookup>>

load(c) ==
    \E t \in Tenants, row \in claims \cup {Nobody} :
        \/ \E h \in Hosts : Begin(c, "set", t, h, row)
        \/ \E op \in {"verify", "remove"} : Begin(c, op, t, Nobody, row)

\* The rows are written and the replica forgets the old host, before the commit; a
\* unique index may refuse the claim.
set(c) ==
    LET t == call[c].tenant
        row == call[c].row
        taken == \E d \in Without(row) : d.tenant = t \/ d.host = call[c].host
    IN /\ At(c, "set", "write")
       /\ Unlocked(t) /\ ~Undecided(call[c].host)
       /\ minted < MaxClaims
       /\ IF taken THEN Ends(c) /\ UNCHANGED cache
          ELSE /\ Goes(c, "commit")
               /\ UNCHANGED cache \/ (row # Nobody /\ Forget(row.host))
       /\ UNCHANGED <<claims, minted, mirror, proved, unmirrored, begun, lookup>>

setCommit(c) ==
    /\ At(c, "set", "commit")
    /\ minted' = minted + 1
    /\ claims' = Without(call[c].row)
                    \cup {Claim(minted + 1, call[c].tenant, call[c].host, "pending")}
    /\ mirror' = [mirror EXCEPT ![call[c].tenant] = Nobody]
    /\ IF call[c].row = Nobody THEN UNCHANGED <<cache, lookup>>
       ELSE Outdates(call[c].row.host, FALSE)
    /\ Ends(c)
    /\ UNCHANGED <<proved, unmirrored, begun>>

\* verifyDomain: the zone's administrator has published the records and they are seen,
\* or they are not there or not heard of in time.
verifyDomain(c) ==
    /\ At(c, "verify", "dns")
    /\ \E ok \in BOOLEAN :
          /\ call' = [call EXCEPT ![c].ok = ok, ![c].pc = "write"]
          /\ proved' = IF ok THEN proved \cup {call[c].row.id} ELSE proved
    /\ UNCHANGED <<claims, minted, mirror, unmirrored, begun, cache, lookup>>

\* Mutant: the verdict is written to whatever claim the workspace has by now.
verifyByTenant(c) ==
    LET row == call[c].row
        now == {d \in claims : d.tenant = call[c].tenant}
        status == IF call[c].ok THEN "verified" ELSE "error"
    IN /\ At(c, "verify", "write")
       /\ Unlocked(row.tenant)
       /\ claims' = (claims \ now) \cup {[d EXCEPT !.status = status] : d \in now}
       /\ mirror' = [mirror EXCEPT ![row.tenant] = IF call[c].ok THEN row.host ELSE Nobody]
       /\ Goes(c, "invalidate")
       /\ UNCHANGED <<minted, proved, unmirrored, begun, cache, lookup>>

\* The verdict goes to the row that was checked; if it is gone nothing is written.
verify(c) ==
    LET row == call[c].row
        now == {d \in claims : d.id = row.id}
        status == IF call[c].ok THEN "verified" ELSE "error"
    IN /\ At(c, "verify", "write")
       /\ Unlocked(row.tenant)
       /\ IF now = {} THEN Ends(c) /\ UNCHANGED <<claims, mirror, unmirrored, cache, lookup>>
          ELSE /\ claims' = (claims \ now) \cup {[d EXCEPT !.status = status] : d \in now}
               /\ mirror' = [mirror EXCEPT
                                ![row.tenant] = IF call[c].ok THEN row.host ELSE Nobody]
               /\ unmirrored' = unmirrored \ {row.id}
               /\ \E here \in BOOLEAN :
                     /\ GoesOn(c, here)
                     /\ IF call[c].ok THEN UNCHANGED <<cache, lookup>>
                        ELSE Outdates(row.host, here)
       /\ UNCHANGED <<minted, proved, begun>>

\* The row that was read is deleted, whether or not it is there; the mirror is cleared,
\* whatever it holds.
remove(c) ==
    LET row == call[c].row
    IN /\ At(c, "remove", "write")
       /\ Unlocked(row.tenant)
       /\ claims' = Without(row)
       /\ mirror' = [mirror EXCEPT ![row.tenant] = Nobody]
       /\ unmirrored' = unmirrored \cup
                          {d.id : d \in {e \in claims : /\ e.tenant = row.tenant
                                                        /\ e.id # row.id
                                                        /\ e.status = "verified"}}
       /\ \E here \in BOOLEAN :
             /\ GoesOn(c, here)
             /\ IF Present(row) THEN Outdates(row.host, here) ELSE UNCHANGED <<cache, lookup>>
       /\ UNCHANGED <<minted, proved, begun>>

\* Mutant: what is remembered of the host stays.
keepCached(c) ==
    /\ call[c].pc = "invalidate"
    /\ Ends(c)
    /\ UNCHANGED <<claims, minted, mirror, proved, unmirrored, begun, cache, lookup>>

invalidate(c) ==
    /\ call[c].pc = "invalidate"
    /\ Forget(call[c].row.host)
    /\ Ends(c)
    /\ UNCHANGED <<claims, minted, mirror, proved, unmirrored, begun, lookup>>

----------------------------------------------------------------------------
(* VerifiedHostsService.                                                   *)

elsewhere == UNCHANGED <<claims, minted, mirror, proved, unmirrored, call, begun>>

\* isVerifiedTenantHost, its read: a fresh entry would have answered at once.
isVerifiedTenantHost ==
    /\ cache = "unknown" /\ lookup = "none"
    /\ lookup' = IF Verified(Watched) THEN "yes" ELSE "no"
    /\ elsewhere /\ UNCHANGED cache

\* Its end: the answer is remembered, or the read failed and nothing is.
remembers ==
    /\ lookup # "none"
    /\ lookup' = "none"
    /\ \/ cache' = CASE lookup = "yes" -> "trusted"
                      [] lookup = "no" -> "refused"
                      [] OTHER -> "late"
       \/ lookup = "no" /\ UNCHANGED cache
    /\ elsewhere

\* The minute, or the ten seconds, of an entry are over.
Expire ==
    /\ cache # "unknown"
    /\ cache' = "unknown"
    /\ elsewhere /\ UNCHANGED lookup

DomainNext ==
    \/ \E c \in Calls : \/ load(c) \/ set(c) \/ setCommit(c) \/ verifyDomain(c)
                        \/ verify(c) \/ remove(c) \/ invalidate(c)
    \/ isVerifiedTenantHost \/ remembers \/ Expire

DomainSpec == DomainInit /\ [][DomainNext]_domainVars

----------------------------------------------------------------------------
(* Properties.                                                             *)

\* One claim per workspace and per host (domains.service.ts, workspace-domains.ts).
OneClaimEach ==
    \A c, d \in claims : c # d => c.id # d.id /\ c.tenant # d.tenant /\ c.host # d.host

\* Only a claim whose own token was seen in the DNS is ever verified, whatever replaced
\* it while the DNS was asked (domains.service.ts, verify).
VerifiedIsProved == \A c \in claims : c.status = "verified" => c.id \in proved

\* The row of a workspace names a host it holds verified, and it names it unless the
\* removal of an older claim came late (domains.service.ts, remove).
MirrorHolds ==
    \A t \in Tenants :
        /\ mirror[t] # Nobody =>
              \E c \in claims : c.tenant = t /\ c.host = mirror[t] /\ c.status = "verified"
        /\ \A c \in claims :
              c.tenant = t /\ c.status = "verified" /\ c.id \notin unmirrored
                  => mirror[t] = c.host

\* A replica trusts no host that it has itself seen released, unless a lookup was under
\* way meanwhile (verified-hosts.service.ts, invalidate).
ReleaseIsSeen ==
    cache = "trusted" =>
        \/ Verified(Watched)
        \/ \E c \in Calls : call[c].pc = "invalidate" /\ call[c].row.host = Watched

DomainInv == OneClaimEach /\ VerifiedIsProved /\ MirrorHolds /\ ReleaseIsSeen

\* A host that stays released is distrusted everywhere in the end
\* (verified-hosts.service.ts, isVerifiedTenantHost).
ReleaseSpreads == <>[]~Verified(Watched) => <>[](cache \notin {"trusted", "late"})

\* An entry is not read after its time.
DomainFairness == WF_domainVars(Expire)
=============================================================================
