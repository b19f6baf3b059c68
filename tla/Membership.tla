----------------------------- MODULE Membership -----------------------------
(***************************************************************************)
(* The members of one workspace: invitations, acceptance, role changes,    *)
(* removal and leaving, and the share that makes a member's grants.        *)
(*                                                                         *)
(* Every operation is a READ COMMITTED transaction: it takes advisory and  *)
(* row locks one at a time, reads what has been committed when each        *)
(* statement runs, and its writes appear when it commits.  The policy      *)
(* decides before the transaction starts, from a membership that may have  *)
(* changed when the transaction runs.                                      *)
(***************************************************************************)
EXTENDS Naturals, Sequences, FiniteSets

CONSTANTS
    Users,            \* people, which are also the addresses invited
    Founders,         \* the owners to begin with
    Invitations,
    NoUser,
    NoInvitation,
    Sessions,         \* transactions that can be open at the same time
    MaxTransactions   \* bound

ASSUME MembershipAssumption ==
    /\ Founders \subseteq Users /\ Founders # {}
    /\ NoUser \notin Users
    /\ NoInvitation \notin Invitations

VARIABLES
    member,        \* workspace_members.role
    invitation,    \* invitations
    granted,       \* who holds a note_shares row
    open,          \* the transaction of each session
    begun          \* transactions begun so far

memberVars == <<member, invitation, granted, open, begun>>

Roles == {"owner", "admin", "editor"}
IsMember(u) == member[u] # "none"
Managers == {"owner", "admin"}
Owners == {u \in Users : member[u] = "owner"}

\* Lock keys, and the row locks of SELECT ... FOR UPDATE.
OwnersKey == <<"owners", NoUser>>
InvitationKey(i) == <<"invitation-id", i>>
AddressKey(u) == <<"invitation", u>>
MemberRow(u) == <<"member", u>>

NoTx == [op |-> "none", actor |-> NoUser, target |-> NoUser, role |-> "none",
         inv |-> NoInvitation, wants |-> <<>>, holds |-> {}, pc |-> "idle",
         clears |-> FALSE, exists |-> FALSE]

MemberInit ==
    /\ member = [u \in Users |-> IF u \in Founders THEN "owner" ELSE "none"]
    /\ invitation = [i \in Invitations |->
                        [status |-> "unused", email |-> NoUser, role |-> "none"]]
    /\ granted = {}
    /\ open = [s \in Sessions |-> NoTx]
    /\ begun = 0

----------------------------------------------------------------------------
(* Beginning: what the policy allows, and the locks each operation takes.  *)

Begin(s, op, actor, target, role, inv, wants) ==
    /\ open[s] = NoTx
    /\ begun < MaxTransactions
    /\ begun' = begun + 1
    /\ open' = [open EXCEPT ![s] =
                   [NoTx EXCEPT !.op = op, !.actor = actor, !.target = target,
                                !.role = role, !.inv = inv, !.wants = wants,
                                !.pc = "lock"]]
    /\ UNCHANGED <<member, invitation, granted>>

Pending(i) == invitation[i].status = "pending"
Unsettled(i) == invitation[i].status \in {"pending", "expired"}

invite(s, actor, email, role) ==
    /\ member[actor] \in Managers
    /\ Begin(s, "invite", actor, email, role, NoInvitation,
             <<AddressKey(email), MemberRow(actor)>>)

\* An expired invitation can be sent again; the address is read under the first lock.
resend(s, actor, i) ==
    /\ member[actor] \in Managers
    /\ invitation[i].status # "unused"
    /\ Begin(s, "resend", actor, invitation[i].email, invitation[i].role, i,
             <<InvitationKey(i), AddressKey(invitation[i].email), MemberRow(actor)>>)

revoke(s, actor, i) ==
    /\ member[actor] \in Managers
    /\ invitation[i].status # "unused"
    /\ Begin(s, "revoke", actor, NoUser, "none", i, <<InvitationKey(i)>>)

\* Whoever holds the token and the address of an invitation may accept it.
accept(s, i) ==
    /\ invitation[i].status # "unused"
    /\ Begin(s, "accept", invitation[i].email, invitation[i].email,
             invitation[i].role, i, <<InvitationKey(i)>>)

MayManage(actor, target, role) ==
    /\ member[actor] \in Managers
    /\ member[actor] = "admin" => member[target] # "owner" /\ role # "owner"

\* Mutant: the actor's own row is not locked.
changeRoleTrusting(s, actor, target, role) ==
    /\ IsMember(target)
    /\ MayManage(actor, target, "none")
    /\ Begin(s, "changeRole", actor, target, role, NoInvitation,
             <<MemberRow(target)>>)

changeRole(s, actor, target, role) ==
    /\ IsMember(target)
    /\ MayManage(actor, target, "none")
    /\ Begin(s, "changeRole", actor, target, role, NoInvitation,
             <<OwnersKey, MemberRow(actor), MemberRow(target)>>)

remove(s, actor, target) ==
    /\ IsMember(target)
    /\ MayManage(actor, target, "none")
    /\ Begin(s, "remove", actor, target, "none", NoInvitation,
             <<OwnersKey, MemberRow(actor), MemberRow(target)>>)

\* Mutant: an owner leaves without the lock of the owners.
leaveAtOnce(s, actor) ==
    /\ IsMember(actor)
    /\ Begin(s, "leave", actor, actor, "none", NoInvitation, <<MemberRow(actor)>>)

leave(s, actor) ==
    /\ IsMember(actor)
    /\ Begin(s, "leave", actor, actor, "none", NoInvitation,
             <<OwnersKey, MemberRow(actor)>>)

\* Mutant: the row that is locked is the sharer's, not the target's.
shareLockingActor(s, actor, target) ==
    /\ IsMember(actor) /\ IsMember(target) /\ actor # target
    /\ Begin(s, "share", actor, target, "none", NoInvitation, <<MemberRow(actor)>>)

\* A note is shared with another member (note-shares.service.ts).
share(s, actor, target) ==
    /\ IsMember(actor) /\ IsMember(target) /\ actor # target
    /\ Begin(s, "share", actor, target, "none", NoInvitation, <<MemberRow(target)>>)

unshare(u) ==
    /\ u \in granted
    /\ granted' = granted \ {u}
    /\ UNCHANGED <<member, invitation, open, begun>>

\* An unanswered invitation expires.
expire(i) ==
    /\ Pending(i)
    /\ invitation' = [invitation EXCEPT ![i].status = "expired"]
    /\ UNCHANGED <<member, granted, open, begun>>

----------------------------------------------------------------------------
(* Inside a transaction.                                                   *)

Rollback(s) == open' = [open EXCEPT ![s] = NoTx]
Held(s, lock) == \E other \in Sessions \ {s} : lock \in open[other].holds

Waits(s) == open[s].pc = "lock" /\ open[s].wants # <<>>

\* A row lock finds no row when the member is gone, and the operation is refused.
acquire(s) ==
    LET t == open[s]
        lock == Head(t.wants)
    IN  /\ Waits(s)
        /\ ~Held(s, lock)
        /\ IF lock[1] = "member" /\ ~IsMember(lock[2]) THEN Rollback(s)
           ELSE open' = [open EXCEPT
                            ![s].wants = Tail(@),
                            ![s].holds = @ \cup {lock},
                            ![s].pc = IF Len(t.wants) = 1 THEN "check" ELSE "lock"]
        /\ UNCHANGED <<member, invitation, granted, begun>>

MayGrant(actor, role) ==
    /\ member[actor] \in Managers
    /\ role = "owner" => member[actor] = "owner"

OwnerRemains(target) == member[target] = "owner" => Cardinality(Owners) > 1

\* The decisive reads of each operation, under its locks.
Permitted(t) ==
    CASE t.op = "invite" -> MayGrant(t.actor, t.role) /\ ~IsMember(t.target)
      [] t.op = "resend" ->
            /\ Unsettled(t.inv)
            /\ MayGrant(t.actor, t.role)
            /\ ~IsMember(t.target)
      [] t.op = "revoke" -> Unsettled(t.inv)
      [] t.op = "accept" -> Pending(t.inv)
      [] t.op = "changeRole" ->
            /\ MayManage(t.actor, t.target, t.role)
            /\ t.actor = t.target => ~(t.role = "owner" /\ member[t.actor] # "owner")
            /\ member[t.target] # t.role
            /\ t.role # "owner" => OwnerRemains(t.target)
      [] t.op = "remove" ->
            /\ t.target # t.actor
            /\ MayManage(t.actor, t.target, "none")
            /\ OwnerRemains(t.target)
      [] t.op = "leave" -> OwnerRemains(t.target)
      [] OTHER -> IsMember(t.target)

\* The checks run; a departure also deletes the grants that are there to be seen.
check(s) ==
    LET t == open[s]
    IN  /\ t.pc = "check"
        /\ IF ~Permitted(t) THEN Rollback(s)
           ELSE open' = [open EXCEPT
                            ![s].pc = "write",
                            ![s].clears = t.op \in {"remove", "leave"} /\ t.target \in granted,
                            ![s].exists = t.op = "accept" /\ IsMember(t.target)]
        /\ UNCHANGED <<member, invitation, granted, begun>>

NoPendingFor(u, but) ==
    \A i \in Invitations \ {but} : ~(Pending(i) /\ invitation[i].email = u)

\* The first invitation that is still unused.
createInvitation(t, revoked) ==
    \E i \in Invitations :
        /\ invitation[i].status = "unused"
        /\ invitation' =
              [k \in Invitations |->
                  IF k = i THEN [status |-> "pending", email |-> t.target, role |-> t.role]
                  ELSE IF k = revoked THEN [invitation[k] EXCEPT !.status = "revoked"]
                  ELSE invitation[k]]

Set(u, role) == member' = [member EXCEPT ![u] = role]
Settle(i, status) == invitation' = [invitation EXCEPT ![i].status = status]

\* The writes of each operation and its commit.
Write(t) ==
    \/ /\ t.op = "invite"
       /\ NoPendingFor(t.target, NoInvitation)
       /\ createInvitation(t, NoInvitation)
       /\ UNCHANGED <<member, granted>>
    \/ /\ t.op = "resend"
       /\ NoPendingFor(t.target, t.inv)
       /\ createInvitation(t, t.inv)
       /\ UNCHANGED <<member, granted>>
    \/ t.op = "revoke" /\ Settle(t.inv, "revoked") /\ UNCHANGED <<member, granted>>
    \/ /\ t.op = "accept"
       /\ Pending(t.inv)
       /\ Settle(t.inv, "accepted")
       /\ IF t.exists \/ IsMember(t.target) THEN UNCHANGED member
          ELSE Set(t.target, t.role)
       /\ UNCHANGED granted
    \/ /\ t.op = "changeRole"
       /\ Set(t.target, t.role)
       /\ UNCHANGED <<invitation, granted>>
    \/ /\ t.op \in {"remove", "leave"}
       /\ Set(t.target, "none")
       /\ granted' = IF t.clears THEN granted \ {t.target} ELSE granted
       /\ UNCHANGED invitation
    \/ /\ t.op = "share"
       /\ granted' = granted \cup {t.target}
       /\ UNCHANGED <<member, invitation>>

commit(s) ==
    /\ open[s].pc = "write"
    /\ Write(open[s])
    /\ Rollback(s)
    /\ UNCHANGED begun

\* A refused write, a lost connection, a deadlock victim: nothing happened.
abort(s) ==
    /\ open[s].pc # "idle"
    /\ Rollback(s)
    /\ UNCHANGED <<member, invitation, granted, begun>>

----------------------------------------------------------------------------
Operation(s) ==
    \/ \E a \in Users :
          \/ leave(s, a)
          \/ \E u \in Users, r \in Roles : invite(s, a, u, r) \/ changeRole(s, a, u, r)
          \/ \E u \in Users : remove(s, a, u) \/ share(s, a, u)
          \/ \E i \in Invitations : resend(s, a, i) \/ revoke(s, a, i)
    \/ \E i \in Invitations : accept(s, i)

MemberNext ==
    \/ \E s \in Sessions :
          Operation(s) \/ acquire(s) \/ check(s) \/ commit(s) \/ abort(s)
    \/ \E u \in Users : unshare(u)
    \/ \E i \in Invitations : expire(i)

MemberSpec == MemberInit /\ [][MemberNext]_memberVars

----------------------------------------------------------------------------
(* Properties.                                                             *)

\* The variables keep their types, and no lock is held twice.
MemberTypeOK ==
    /\ member \in [Users -> Roles \cup {"none"}]
    /\ \A i \in Invitations :
          /\ invitation[i].status \in {"unused", "pending", "expired", "accepted", "revoked"}
          /\ invitation[i].email \in Users \cup {NoUser}
          /\ invitation[i].role \in Roles \cup {"none"}
    /\ granted \subseteq Users
    /\ \A s, o \in Sessions : s # o => open[s].holds \cap open[o].holds = {}

\* "The workspace must retain at least one owner", whichever owners leave, are removed
\* or demote one another at the same time.
AlwaysAnOwner == Owners # {}

\* Grants are cleared "before remove/leave can permit a rejoin": nobody who is not a
\* member holds a share, however a share and a departure cross each other.
GrantsBelongToMembers == granted \subseteq {u \in Users : IsMember(u)}

\* An address has at most one invitation that can be accepted.
OnePendingPerAddress ==
    \A i, k \in Invitations :
        Pending(i) /\ Pending(k) /\ invitation[i].email = invitation[k].email => i = k

\* No two transactions wait for a lock the other one holds.
NoLockCycle ==
    \A s, o \in Sessions :
        s # o => ~(/\ Waits(s) /\ Head(open[s].wants) \in open[o].holds
                   /\ Waits(o) /\ Head(open[o].wants) \in open[s].holds)

\* The workspace is in order at every commit, and its transactions do not deadlock.
MembersInv ==
    MemberTypeOK /\ AlwaysAnOwner /\ GrantsBelongToMembers /\ OnePendingPerAddress /\ NoLockCycle

\* Authority is current when it is used: a role is only given, changed or taken, and an
\* invitation only made, while its author manages the workspace -- and is an owner
\* where an owner's role is concerned -- even if demoted since the request began.
Commits(s) == open[s].pc = "write" /\ open'[s] = NoTx /\ <<member, invitation>>' # <<member, invitation>>

AuthorityIsCurrent ==
    [][\A s \in Sessions :
          LET t == open[s]
          IN  Commits(s) /\ t.op \in {"invite", "resend", "changeRole", "remove"} =>
                 /\ member[t.actor] \in Managers
                 /\ "owner" \in {t.role} \cup
                       (IF t.op \in {"changeRole", "remove"} THEN {member[t.target]} ELSE {})
                    => member[t.actor] = "owner"]_memberVars

\* People join by an invitation of theirs that is pending until they do, with its role,
\* and an invitation that was accepted or revoked stays so.
JoinsByInvitation ==
    [][/\ \A u \in Users : member[u] = "none" /\ member'[u] # "none" =>
             \E i \in Invitations :
                /\ Pending(i) /\ invitation'[i].status = "accepted"
                /\ invitation[i].email = u /\ invitation[i].role = member'[u]
       /\ \A i \in Invitations :
             invitation[i].status \in {"accepted", "revoked"} =>
                invitation'[i] = invitation[i]]_memberVars

\* Every change of the members is somebody's right when it is made.
RolesAreGranted == AuthorityIsCurrent /\ JoinsByInvitation
=============================================================================
