------------------------- MODULE Workspace_proofs --------------------------
(***************************************************************************)
(* Proofs about what the members of a workspace do at the same time, for   *)
(* any number of people, invitations, transactions and AI requests, any    *)
(* matrix of verbs, any calendar and any quota.                            *)
(*                                                                         *)
(* Members.  The locks each operation takes are enough for what it         *)
(* decides, although it decides in statements of its own; and they are     *)
(* taken in one order, so nobody waits in a circle.                        *)
(*                                                                         *)
(* The policy.  Requests keep their shape, and what is agreed upon is      *)
(* agreed upon by every request of that shape: the matrix is nested, and   *)
(* each step that is not a share leaves less to decide in favour.          *)
(*                                                                         *)
(* Notes.  What one deletion took hangs from one note, along notes that    *)
(* were in the trash already or came with it; only that note has no parent *)
(* in the trash, so it is the one that can be restored, and everything the *)
(* deletion took is found below it.                                        *)
(*                                                                         *)
(* Tasks.  The dates of a recipe follow one another in the calendar, month *)
(* after month, so the loop that stops at the first one ahead misses none; *)
(* every update puts the date off by no more than a horizon, which is what *)
(* keeps the dates in the calendar.                                        *)
(*                                                                         *)
(* AI requests.  A request and the generations that have begun since a     *)
(* given minute are counted by the burst windows passed since; nothing is  *)
(* let in once the quota is reached, so what is open by then bounds the    *)
(* tokens that can still come.                                             *)
(***************************************************************************)
EXTENDS MCWorkspace, FiniteSetTheorems, SequenceTheorems, WellFoundedInduction, TLAPS

----------------------------------------------------------------------------
(* Members: what a transaction is.                                         *)


Locks == {"owners", "invitation-id", "invitation", "member"}
            \X (Users \cup Invitations \cup {NoUser})
Ops == {"none", "invite", "resend", "revoke", "accept", "changeRole", "remove", "leave",
        "share"}
Tx == [op : Ops, actor : Users \cup {NoUser}, target : Users \cup {NoUser},
       role : Roles \cup {"none"}, inv : Invitations \cup {NoInvitation},
       wants : Seq(Locks), holds : SUBSET Locks,
       pc : {"idle", "lock", "check", "write"}, clears : BOOLEAN, exists : BOOLEAN]
Invitation == [status : {"unused", "pending", "expired", "accepted", "revoked"},
               email : Users \cup {NoUser}, role : Roles \cup {"none"}]

Typed ==
    /\ member \in [Users -> Roles \cup {"none"}]
    /\ invitation \in [Invitations -> Invitation]
    /\ granted \subseteq Users
    /\ open \in [Sessions -> Tx]

\* The locks of an operation, in the order in which it takes them.
Plan(t) ==
    IF t.op = "invite" THEN <<AddressKey(t.target), MemberRow(t.actor)>>
    ELSE IF t.op = "resend"
         THEN <<InvitationKey(t.inv), AddressKey(t.target), MemberRow(t.actor)>>
    ELSE IF t.op \in {"revoke", "accept"} THEN <<InvitationKey(t.inv)>>
    ELSE IF t.op \in {"changeRole", "remove"}
         THEN <<OwnersKey, MemberRow(t.actor), MemberRow(t.target)>>
    ELSE IF t.op = "leave" THEN <<OwnersKey, MemberRow(t.actor)>>
    ELSE <<MemberRow(t.target)>>

\* A transaction holds the first n of its locks and wants the others.
Reached(t, locks, n) ==
    /\ t.wants = SubSeq(locks, n + 1, Len(locks))
    /\ t.holds = {locks[k] : k \in 1..n}
    /\ IF n = Len(locks) THEN t.pc \in {"check", "write"} ELSE t.pc = "lock"

Along(t, locks) == \E n \in 0..Len(locks) : Reached(t, locks, n)

\* Who asks for what.
Asked(t) ==
    /\ t.op # "none" /\ t.actor \in Users
    /\ t.op # "revoke" => t.target \in Users
    /\ t.op \in {"invite", "resend", "accept", "changeRole"} => t.role \in Roles
    /\ t.op \in {"remove", "leave", "share"} => t.role = "none"
    /\ t.op \in {"resend", "revoke", "accept"} => t.inv \in Invitations
    /\ t.op = "leave" => t.actor = t.target

\* The invitation a request names is one that was sent.
Known(t) ==
    /\ t.op \in {"resend", "revoke", "accept"} => invitation[t.inv].status # "unused"
    /\ t.op \in {"resend", "accept"} =>
          invitation[t.inv].email = t.target /\ invitation[t.inv].role = t.role

Departs(t) == t.op \in {"remove", "leave"} \/ (t.op = "changeRole" /\ t.role # "owner")

\* What the checks found, and what is still so when the writes are made.
Decided(t) ==
    t.pc = "write" =>
       /\ Departs(t) => \E o \in Owners : o # t.target
       /\ t.op \in {"remove", "leave"} /\ ~t.clears => t.target \notin granted
       /\ t.op \in {"invite", "resend"} => MayGrant(t.actor, t.role)
       /\ t.op \in {"changeRole", "remove"} => MayManage(t.actor, t.target, t.role)
       /\ t.op \in {"resend", "revoke"} => Unsettled(t.inv)

InOrder(t) == t = NoTx \/ (Asked(t) /\ Along(t, Plan(t)) /\ Known(t) /\ Decided(t))

\* No lock is held twice.
Exclusive == \A s, o \in Sessions : s # o => open[s].holds \cap open[o].holds = {}

\* A locked row is there.
RowsHeld == \A s \in Sessions, u \in Users : MemberRow(u) \in open[s].holds => IsMember(u)

\* An invitation that was sent has an address and a role.
Sent ==
    \A i \in Invitations :
        invitation[i].status # "unused" =>
            invitation[i].email \in Users /\ invitation[i].role \in Roles

MembersIInv ==
    /\ Typed /\ Exclusive /\ RowsHeld /\ Sent
    /\ \A s \in Sessions : InOrder(open[s])
    /\ AlwaysAnOwner /\ GrantsBelongToMembers /\ OnePendingPerAddress

----------------------------------------------------------------------------
(* Plans.                                                                   *)

\* Every plan is a short sequence of locks.
LEMMA PlanType ==
  ASSUME NEW t \in Tx, Asked(t)
  PROVE  Plan(t) \in Seq(Locks) /\ Len(Plan(t)) \in 1..3
  <1>1. /\ OwnersKey \in Locks
        /\ MemberRow(t.actor) \in Locks
        /\ t.op # "revoke" => MemberRow(t.target) \in Locks /\ AddressKey(t.target) \in Locks
        /\ t.op \in {"resend", "revoke", "accept"} => InvitationKey(t.inv) \in Locks
    BY DEF Asked, Locks, AddressKey, MemberRow, InvitationKey, OwnersKey
  <1>2. CASE t.op = "invite"
    BY <1>1, <1>2 DEF Plan
  <1>3. CASE t.op = "resend"
    BY <1>1, <1>3 DEF Plan
  <1>4. CASE t.op \in {"revoke", "accept"}
    BY <1>1, <1>4 DEF Plan
  <1>5. CASE t.op \in {"changeRole", "remove"}
    BY <1>1, <1>5 DEF Plan
  <1>6. CASE t.op = "leave"
    BY <1>1, <1>6 DEF Plan
  <1>7. CASE t.op = "share"
    BY <1>1, <1>7 DEF Plan
  <1> QED
    BY <1>2, <1>3, <1>4, <1>5, <1>6, <1>7 DEF Asked, Tx, Ops

\* A transaction starts with nothing.
LEMMA PlanStart ==
  ASSUME NEW locks \in Seq(Locks), Len(locks) > 0, NEW t, t.wants = locks, t.holds = {},
         t.pc = "lock"
  PROVE  Reached(t, locks, 0)
  <1>1. SubSeq(locks, 1, Len(locks)) = locks
    OBVIOUS
  <1> QED
    BY <1>1 DEF Reached

\* It takes the next lock.
LEMMA PlanNext ==
  ASSUME NEW locks \in Seq(Locks), NEW n \in 0..Len(locks), NEW t, Reached(t, locks, n),
         t.pc = "lock"
  PROVE  /\ n < Len(locks) /\ t.wants # <<>> /\ Head(t.wants) = locks[n + 1]
         /\ Tail(t.wants) = SubSeq(locks, n + 2, Len(locks))
         /\ Len(t.wants) = 1 <=> n + 1 = Len(locks)
         /\ t.holds \cup {locks[n + 1]} = {locks[k] : k \in 1..(n + 1)}
  <1>1. n < Len(locks) /\ t.wants = SubSeq(locks, n + 1, Len(locks))
    BY DEF Reached
  <1>2. Len(t.wants) = Len(locks) - n
    BY <1>1
  <1>3. Head(t.wants) = locks[n + 1]
    BY <1>1
  <1>4. Tail(t.wants) = SubSeq(locks, n + 2, Len(locks))
    <2>1. n + 1 \in 1..Len(locks) /\ Len(locks) \in (n + 1)..Len(locks) /\ (n + 1) + 1 = n + 2
      BY <1>1
    <2>2. Tail(SubSeq(locks, n + 1, Len(locks))) = SubSeq(locks, (n + 1) + 1, Len(locks))
      BY <2>1, HeadTailOfSubSeq
    <2> QED
      BY <1>1, <2>1, <2>2
  <1>5. t.holds \cup {locks[n + 1]} = {locks[k] : k \in 1..(n + 1)}
    BY DEF Reached
  <1>6. Len(t.wants) > 0 /\ (Len(t.wants) = 1 <=> n + 1 = Len(locks))
    BY <1>1, <1>2
  <1>7. t.wants # <<>>
    BY <1>6
  <1> QED
    BY <1>1, <1>3, <1>4, <1>5, <1>6, <1>7

\* Once it checks it has them all.
LEMMA PlanDone ==
  ASSUME NEW locks \in Seq(Locks), NEW t, Along(t, locks), t.pc \in {"check", "write"}
  PROVE  Reached(t, locks, Len(locks)) /\ \A k \in 1..Len(locks) : locks[k] \in t.holds
  BY DEF Along, Reached

\* The locks under which an operation checks and writes.
LEMMA PlanHolds ==
  ASSUME NEW t \in Tx, Asked(t), Along(t, Plan(t)), t.pc \in {"check", "write"}
  PROVE  /\ t.op \in {"invite", "resend", "changeRole", "remove", "leave"} =>
               MemberRow(t.actor) \in t.holds
         /\ t.op \in {"changeRole", "remove", "leave", "share"} =>
               MemberRow(t.target) \in t.holds
         /\ t.op \in {"changeRole", "remove", "leave"} => OwnersKey \in t.holds
         /\ t.op \in {"resend", "revoke", "accept"} => InvitationKey(t.inv) \in t.holds
  <1>1. \A k \in 1..Len(Plan(t)) : Plan(t)[k] \in t.holds
    BY PlanType, PlanDone
  <1>2. t.op \in {"changeRole", "remove"} =>
           OwnersKey \in t.holds /\ MemberRow(t.actor) \in t.holds /\ MemberRow(t.target) \in t.holds
    BY <1>1 DEF Plan
  <1>3. t.op = "leave" => OwnersKey \in t.holds /\ MemberRow(t.actor) \in t.holds
    BY <1>1 DEF Plan
  <1>4. t.op = "share" => MemberRow(t.target) \in t.holds
    BY <1>1 DEF Plan
  <1>5. t.op = "invite" => MemberRow(t.actor) \in t.holds
    BY <1>1 DEF Plan
  <1>6. t.op = "resend" => MemberRow(t.actor) \in t.holds /\ InvitationKey(t.inv) \in t.holds
    BY <1>1 DEF Plan
  <1>7. t.op \in {"revoke", "accept"} => InvitationKey(t.inv) \in t.holds
    BY <1>1 DEF Plan
  <1> QED
    BY <1>2, <1>3, <1>4, <1>5, <1>6, <1>7 DEF Asked

----------------------------------------------------------------------------
(* What a step does to its transaction, and to nobody else's.               *)

Alone(s) == \A o \in Sessions : o # s => open'[o] = open[o]

\* A request begins with all of its locks to take.
LEMMA Begins ==
  ASSUME Typed, NEW s \in Sessions,
         NEW op \in Ops, NEW actor \in Users, NEW target \in Users \cup {NoUser},
         NEW role \in Roles \cup {"none"}, NEW inv \in Invitations \cup {NoInvitation},
         NEW wants \in Seq(Locks), Begin(s, op, actor, target, role, inv, wants)
  PROVE  /\ open' \in [Sessions -> Tx] /\ Alone(s) /\ UNCHANGED <<member, invitation, granted>>
         /\ open'[s].op = op /\ open'[s].actor = actor /\ open'[s].target = target
         /\ open'[s].role = role /\ open'[s].inv = inv /\ open'[s].wants = wants
         /\ open'[s].holds = {} /\ open'[s].pc = "lock"
  <1> DEFINE t == [NoTx EXCEPT !.op = op, !.actor = actor, !.target = target, !.role = role,
                               !.inv = inv, !.wants = wants, !.pc = "lock"]
  <1>1. /\ t \in Tx /\ t.op = op /\ t.actor = actor /\ t.target = target /\ t.role = role
        /\ t.inv = inv /\ t.wants = wants /\ t.holds = {} /\ t.pc = "lock"
    BY DEF NoTx, Tx
  <1>2. open' = [open EXCEPT ![s] = t] /\ UNCHANGED <<member, invitation, granted>>
    BY DEF Begin
  <1> HIDE DEF t
  <1> QED
    BY <1>1, <1>2 DEF Typed, Alone

\* Where a new transaction stands.
Started(s) ==
    /\ open' \in [Sessions -> Tx] /\ Alone(s) /\ UNCHANGED <<member, invitation, granted>>
    /\ Asked(open'[s]) /\ Known(open'[s]) /\ open'[s].wants = Plan(open'[s])
    /\ open'[s].holds = {} /\ open'[s].pc = "lock"

\* A request for which these are the parameters and the locks.
Plans(op, actor, target, role, inv, wants) ==
    \A t \in Tx :
        /\ t.op = op /\ t.actor = actor /\ t.target = target /\ t.role = role /\ t.inv = inv
        => Asked(t) /\ Known(t) /\ wants = Plan(t)

\* A request that asks for what it may, and lists its locks, has started.
LEMMA BeginPlan ==
  ASSUME Typed, NEW s \in Sessions,
         NEW op \in Ops, NEW actor \in Users, NEW target \in Users \cup {NoUser},
         NEW role \in Roles \cup {"none"}, NEW inv \in Invitations \cup {NoInvitation},
         NEW wants \in Seq(Locks), Begin(s, op, actor, target, role, inv, wants),
         Plans(op, actor, target, role, inv, wants)
  PROVE  Started(s)
  <1>1. open'[s] \in Tx
    BY Begins
  <1> QED
    BY <1>1, Begins DEF Started, Plans

LEMMA OperationBegins ==
  ASSUME Typed, Sent, NEW s \in Sessions, Operation(s)
  PROVE  Started(s)
  <1>0. /\ \A a \in Users : MemberRow(a) \in Locks /\ AddressKey(a) \in Locks
        /\ \A i \in Invitations : InvitationKey(i) \in Locks
        /\ OwnersKey \in Locks /\ NoUser \in Users \cup {NoUser}
        /\ NoInvitation \in Invitations \cup {NoInvitation}
    BY DEF Locks, AddressKey, MemberRow, InvitationKey, OwnersKey
  <1>1. ASSUME NEW a \in Users, leave(s, a) PROVE Started(s)
    <2>1. <<OwnersKey, MemberRow(a)>> \in Seq(Locks)
      BY <1>0
    <2>2. Begin(s, "leave", a, a, "none", NoInvitation, <<OwnersKey, MemberRow(a)>>)
      BY <1>1 DEF leave
    <2>3. Plans("leave", a, a, "none", NoInvitation,
               <<OwnersKey, MemberRow(a)>>)
      BY <1>1 DEF leave, Plans, Asked, Known, Plan
    <2> QED
      BY <1>0, <2>1, <2>2, <2>3, BeginPlan DEF Ops
  <1>2. ASSUME NEW a \in Users, NEW u \in Users, NEW r \in Roles, invite(s, a, u, r)
        PROVE  Started(s)
    <2>1. <<AddressKey(u), MemberRow(a)>> \in Seq(Locks)
      BY <1>0
    <2>2. Begin(s, "invite", a, u, r, NoInvitation, <<AddressKey(u), MemberRow(a)>>)
      BY <1>2 DEF invite
    <2>3. Plans("invite", a, u, r, NoInvitation,
               <<AddressKey(u), MemberRow(a)>>)
      BY <1>2 DEF invite, Plans, Asked, Known, Plan
    <2> QED
      BY <1>0, <2>1, <2>2, <2>3, BeginPlan DEF Ops
  <1>3. ASSUME NEW a \in Users, NEW u \in Users, NEW r \in Roles, changeRole(s, a, u, r)
        PROVE  Started(s)
    <2>1. <<OwnersKey, MemberRow(a), MemberRow(u)>> \in Seq(Locks)
      BY <1>0
    <2>2. Begin(s, "changeRole", a, u, r, NoInvitation, <<OwnersKey, MemberRow(a), MemberRow(u)>>)
      BY <1>3 DEF changeRole
    <2>3. Plans("changeRole", a, u, r, NoInvitation,
               <<OwnersKey, MemberRow(a), MemberRow(u)>>)
      BY <1>3 DEF changeRole, Plans, Asked, Known, Plan
    <2> QED
      BY <1>0, <2>1, <2>2, <2>3, BeginPlan DEF Ops
  <1>4. ASSUME NEW a \in Users, NEW u \in Users, remove(s, a, u)
        PROVE  Started(s)
    <2>1. <<OwnersKey, MemberRow(a), MemberRow(u)>> \in Seq(Locks)
      BY <1>0
    <2>2. Begin(s, "remove", a, u, "none", NoInvitation, <<OwnersKey, MemberRow(a), MemberRow(u)>>)
      BY <1>4 DEF remove
    <2>3. Plans("remove", a, u, "none", NoInvitation,
               <<OwnersKey, MemberRow(a), MemberRow(u)>>)
      BY <1>4 DEF remove, Plans, Asked, Known, Plan
    <2> QED
      BY <1>0, <2>1, <2>2, <2>3, BeginPlan DEF Ops
  <1>5. ASSUME NEW a \in Users, NEW u \in Users, share(s, a, u)
        PROVE  Started(s)
    <2>1. <<MemberRow(u)>> \in Seq(Locks)
      BY <1>0
    <2>2. Begin(s, "share", a, u, "none", NoInvitation, <<MemberRow(u)>>)
      BY <1>5 DEF share
    <2>3. Plans("share", a, u, "none", NoInvitation,
               <<MemberRow(u)>>)
      BY <1>5 DEF share, Plans, Asked, Known, Plan
    <2> QED
      BY <1>0, <2>1, <2>2, <2>3, BeginPlan DEF Ops
  <1>6. ASSUME NEW i \in Invitations, invitation[i].status # "unused"
        PROVE  invitation[i].email \in Users /\ invitation[i].role \in Roles
    BY <1>6 DEF Sent
  <1>7. ASSUME NEW a \in Users, NEW i \in Invitations, resend(s, a, i)
        PROVE  Started(s)
    <2>1. /\ invitation[i].email \in Users /\ invitation[i].role \in Roles
          /\ invitation[i].status # "unused"
      BY <1>6, <1>7 DEF resend
    <2>2. <<InvitationKey(i), AddressKey(invitation[i].email), MemberRow(a)>> \in Seq(Locks)
      BY <1>0, <2>1
    <2>3. Begin(s, "resend", a, invitation[i].email, invitation[i].role, i, <<InvitationKey(i), AddressKey(invitation[i].email), MemberRow(a)>>)
      BY <1>7 DEF resend
    <2>4. Plans("resend", a, invitation[i].email, invitation[i].role, i,
               <<InvitationKey(i), AddressKey(invitation[i].email), MemberRow(a)>>)
      BY <1>7, <2>1 DEF resend, Plans, Asked, Known, Plan
    <2> QED
      BY <1>0, <2>1, <2>2, <2>3, <2>4, BeginPlan DEF Ops
  <1>8. ASSUME NEW a \in Users, NEW i \in Invitations, revoke(s, a, i)
        PROVE  Started(s)
    <2>1. <<InvitationKey(i)>> \in Seq(Locks)
      BY <1>0
    <2>2. Begin(s, "revoke", a, NoUser, "none", i, <<InvitationKey(i)>>)
      BY <1>8 DEF revoke
    <2>3. Plans("revoke", a, NoUser, "none", i,
               <<InvitationKey(i)>>)
      BY <1>8 DEF revoke, Plans, Asked, Known, Plan
    <2> QED
      BY <1>0, <2>1, <2>2, <2>3, BeginPlan DEF Ops
  <1>9. ASSUME NEW i \in Invitations, accept(s, i)
        PROVE  Started(s)
    <2>1. /\ invitation[i].email \in Users /\ invitation[i].role \in Roles
          /\ invitation[i].status # "unused"
      BY <1>6, <1>9 DEF accept
    <2>2. <<InvitationKey(i)>> \in Seq(Locks)
      BY <1>0, <2>1
    <2>3. Begin(s, "accept", invitation[i].email, invitation[i].email, invitation[i].role, i, <<InvitationKey(i)>>)
      BY <1>9 DEF accept
    <2>4. Plans("accept", invitation[i].email, invitation[i].email, invitation[i].role, i,
               <<InvitationKey(i)>>)
      BY <1>9, <2>1 DEF accept, Plans, Asked, Known, Plan
    <2> QED
      BY <1>0, <2>1, <2>2, <2>3, <2>4, BeginPlan DEF Ops
  <1> QED
    BY <1>1, <1>2, <1>3, <1>4, <1>5, <1>7, <1>8, <1>9 DEF Operation

\* A transaction that is over is nobody's.
LEMMA Rolls ==
  ASSUME Typed, NEW s \in Sessions, Rollback(s)
  PROVE  open' \in [Sessions -> Tx] /\ Alone(s) /\ open'[s] = NoTx
  <1>1. NoTx \in Tx
    BY DEF NoTx, Tx, Ops
  <1> QED
    BY <1>1 DEF Typed, Rollback, Alone

\* The request itself stays what it was.
SameRequest(s) ==
    /\ open'[s].op = open[s].op /\ open'[s].actor = open[s].actor
    /\ open'[s].target = open[s].target /\ open'[s].role = open[s].role
    /\ open'[s].inv = open[s].inv

LEMMA SamePlan ==
  ASSUME NEW s \in Sessions, SameRequest(s)
  PROVE  /\ Plan(open'[s]) = Plan(open[s])
         /\ Asked(open[s]) => Asked(open'[s])
         /\ Known(open[s]) => Known(open'[s])
  BY DEF SameRequest, Plan, Asked, Known

\* The next lock is one nobody else holds, and a member row is there to be locked.
Acquired(s) ==
    /\ SameRequest(s)
    /\ open'[s].wants = Tail(open[s].wants)
    /\ open'[s].holds = open[s].holds \cup {Head(open[s].wants)}
    /\ open'[s].pc = IF Len(open[s].wants) = 1 THEN "check" ELSE "lock"
    /\ ~Held(s, Head(open[s].wants))
    /\ \A u \in Users : Head(open[s].wants) = MemberRow(u) => IsMember(u)

LEMMA AcquireMoves ==
  ASSUME Typed, NEW s \in Sessions, acquire(s), NEW n \in Nat,
         Plan(open[s]) \in Seq(Locks), n \in 0..Len(Plan(open[s])),
         Reached(open[s], Plan(open[s]), n)
  PROVE  /\ open' \in [Sessions -> Tx] /\ Alone(s) /\ UNCHANGED <<member, invitation, granted>>
         /\ \/ open'[s] = NoTx
            \/ Acquired(s) /\ Reached(open'[s], Plan(open[s]), n + 1) /\ n + 1 <= Len(Plan(open[s]))
  <1> DEFINE t == open[s]
             lock == Head(t.wants)
  <1>0. t \in Tx /\ open \in [Sessions -> Tx]
    BY DEF Typed
  <1>1. t.pc = "lock" /\ ~Held(s, lock) /\ UNCHANGED <<member, invitation, granted>>
    BY DEF acquire, Waits
  <1>2. /\ n < Len(Plan(t)) /\ t.wants # <<>> /\ lock = Plan(t)[n + 1]
        /\ Tail(t.wants) = SubSeq(Plan(t), n + 2, Len(Plan(t)))
        /\ Len(t.wants) = 1 <=> n + 1 = Len(Plan(t))
        /\ t.holds \cup {Plan(t)[n + 1]} = {Plan(t)[k] : k \in 1..(n + 1)}
    BY <1>1, PlanNext
  <1>3. lock \in Locks /\ Tail(t.wants) \in Seq(Locks)
    BY <1>0, <1>2, HeadTailProperties DEF Tx
  <1>4. CASE Rollback(s)
    BY <1>1, <1>4, Rolls
  <1>5. CASE ~Rollback(s)
    <2> DEFINE pc == IF Len(t.wants) = 1 THEN "check" ELSE "lock"
    <2>1. /\ open' = [open EXCEPT ![s].wants = Tail(@), ![s].holds = @ \cup {lock}, ![s].pc = pc]
          /\ ~(lock[1] = "member" /\ ~IsMember(lock[2]))
      BY <1>5 DEF acquire
    <2>8. ASSUME NEW u \in Users, lock = MemberRow(u) PROVE IsMember(u)
      <3>1. lock[1] = "member" /\ lock[2] = u
        BY <2>8 DEF MemberRow
      <3> QED
        BY <2>1, <3>1
    <2> HIDE DEF pc, lock
    <2>2. open' = [open EXCEPT ![s] = [open[s] EXCEPT !.wants = Tail(@), !.holds = @ \cup {lock},
                                                      !.pc = pc]]
      BY <1>0, <2>1
    <2>3. pc \in {"check", "lock"}
      BY DEF pc
    <2>4. /\ open'[s].wants = Tail(open[s].wants) /\ open'[s].holds = open[s].holds \cup {lock}
          /\ open'[s].pc = pc /\ SameRequest(s) /\ Alone(s)
      BY <1>0, <2>2 DEF Tx, SameRequest, Alone
    <2>5. open' \in [Sessions -> Tx]
      BY <1>0, <1>3, <2>2, <2>3 DEF Tx
    <2>6. Acquired(s)
      BY <1>1, <2>4, <2>8 DEF Acquired, lock, pc
    <2>7. Reached(open'[s], Plan(open[s]), n + 1)
      <3>1. (n + 1) + 1 = n + 2
        OBVIOUS
      <3> QED
        BY <1>2, <2>4, <3>1 DEF Reached, lock, pc
    <2> QED
      BY <1>1, <1>2, <2>4, <2>5, <2>6, <2>7
  <1> QED
    BY <1>4, <1>5

\* What the checks of an operation find.
Found(t) ==
    /\ t.op \in {"remove", "leave"} => OwnerRemains(t.target)
    /\ t.op = "changeRole" /\ t.role # "owner" => OwnerRemains(t.target)
    /\ t.op \in {"invite", "resend"} => MayGrant(t.actor, t.role)
    /\ t.op = "changeRole" => MayManage(t.actor, t.target, t.role)
    /\ t.op = "remove" => MayManage(t.actor, t.target, "none")
    /\ t.op \in {"resend", "revoke"} => Unsettled(t.inv)

LEMMA PermittedFinds == ASSUME NEW t, Permitted(t) PROVE Found(t)
  BY DEF Permitted, Found

\* The checks leave the locks alone.
Checked(s) ==
    /\ SameRequest(s) /\ open'[s].wants = open[s].wants /\ open'[s].holds = open[s].holds
    /\ open'[s].pc = "write" /\ Found(open[s])
    /\ open[s].op \in {"remove", "leave"} /\ ~open'[s].clears => open[s].target \notin granted

LEMMA CheckMoves ==
  ASSUME Typed, NEW s \in Sessions, check(s)
  PROVE  /\ open' \in [Sessions -> Tx] /\ Alone(s) /\ UNCHANGED <<member, invitation, granted>>
         /\ open[s].pc = "check" /\ (open'[s] = NoTx \/ Checked(s))
  <1> DEFINE t == open[s]
  <1>0. t \in Tx /\ open \in [Sessions -> Tx]
    BY DEF Typed
  <1>1. t.pc = "check" /\ UNCHANGED <<member, invitation, granted>>
    BY DEF check
  <1>2. CASE ~Permitted(t)
    BY <1>1, <1>2, Rolls DEF check
  <1>3. CASE Permitted(t)
    <2> DEFINE clears == t.op \in {"remove", "leave"} /\ t.target \in granted
               exists == t.op = "accept" /\ IsMember(t.target)
    <2>1. open' = [open EXCEPT ![s].pc = "write", ![s].clears = clears, ![s].exists = exists]
      BY <1>3 DEF check
    <2>2. clears \in BOOLEAN /\ exists \in BOOLEAN
      OBVIOUS
    <2>3. ~clears /\ t.op \in {"remove", "leave"} => t.target \notin granted
      OBVIOUS
    <2> HIDE DEF clears, exists
    <2>4. open' = [open EXCEPT ![s] = [open[s] EXCEPT !.pc = "write", !.clears = clears,
                                                      !.exists = exists]]
      BY <1>0, <2>1
    <2>5. /\ SameRequest(s) /\ Alone(s) /\ open'[s].wants = open[s].wants
          /\ open'[s].holds = open[s].holds /\ open'[s].pc = "write" /\ open'[s].clears = clears
      BY <1>0, <2>4 DEF Tx, SameRequest, Alone
    <2>6. open' \in [Sessions -> Tx]
      BY <1>0, <2>2, <2>4 DEF Tx
    <2> QED
      BY <1>1, <1>3, <2>3, <2>5, <2>6, PermittedFinds DEF Checked
  <1> QED
    BY <1>2, <1>3

----------------------------------------------------------------------------
(* Steps that write nothing.                                                *)

\* What such a step leaves of its transaction.
Quiet(s) ==
    /\ open' \in [Sessions -> Tx] /\ Alone(s) /\ UNCHANGED <<member, invitation, granted>>
    /\ InOrder(open[s])'
    /\ \/ open'[s].holds \subseteq open[s].holds
       \/ Acquired(s)

LEMMA NoTxQuiet ==
  ASSUME Typed, NEW s \in Sessions, open' \in [Sessions -> Tx], Alone(s),
         UNCHANGED <<member, invitation, granted>>, open'[s] = NoTx
  PROVE  Quiet(s)
  BY DEF Quiet, InOrder, NoTx

LEMMA StartQuiet ==
  ASSUME Typed, NEW s \in Sessions, Started(s)
  PROVE  Quiet(s)
  <1>1. open'[s] \in Tx /\ Asked(open'[s])
    BY DEF Started
  <1>2. Plan(open'[s]) \in Seq(Locks) /\ Len(Plan(open'[s])) \in 1..3
    BY <1>1, PlanType
  <1>3. Reached(open'[s], Plan(open'[s]), 0)
    <2> DEFINE t == open'[s]
               locks == Plan(t)
    <2>1. locks \in Seq(Locks) /\ Len(locks) \in 1..3
      BY <1>2
    <2>2. t.wants = locks /\ t.holds = {} /\ t.pc = "lock"
      BY DEF Started
    <2> HIDE DEF locks, t
    <2>3. Len(locks) > 0
      <3>1. \A k \in 1..3 : k > 0
        OBVIOUS
      <3> QED
        BY <2>1, <3>1, Zenon
    <2>4. Reached(t, locks, 0)
      BY <2>1, <2>2, <2>3, PlanStart
    <2> QED
      BY <2>4 DEF locks, t
  <1>4. Along(open'[s], Plan(open'[s]))
    BY <1>2, <1>3 DEF Along
  <1>5. Known(open[s])'
    BY DEF Started, Known
  <1>6. Decided(open[s])'
    BY DEF Started, Decided
  <1>7. InOrder(open[s])'
    BY <1>1, <1>4, <1>5, <1>6 DEF InOrder, Asked, Along, Plan, Reached
  <1>8. open'[s].holds \subseteq open[s].holds
    BY DEF Started
  <1> QED
    BY <1>7, <1>8 DEF Started, Quiet

LEMMA AcquireQuiet ==
  ASSUME MembersIInv, NEW s \in Sessions, acquire(s)
  PROVE  Quiet(s)
  <1>0. Typed /\ open[s] \in Tx
    BY DEF MembersIInv, Typed
  <1>1. /\ Asked(open[s]) /\ Along(open[s], Plan(open[s])) /\ Known(open[s])
    BY DEF MembersIInv, InOrder, acquire, Waits, NoTx
  <1>2. Plan(open[s]) \in Seq(Locks) /\ Len(Plan(open[s])) \in 1..3
    BY <1>0, <1>1, PlanType
  <1>3. PICK n \in 0..Len(Plan(open[s])) : Reached(open[s], Plan(open[s]), n)
    BY <1>1 DEF Along
  <1>4. /\ open' \in [Sessions -> Tx] /\ Alone(s) /\ UNCHANGED <<member, invitation, granted>>
        /\ \/ open'[s] = NoTx
           \/ Acquired(s) /\ Reached(open'[s], Plan(open[s]), n + 1) /\ n + 1 <= Len(Plan(open[s]))
    BY <1>0, <1>2, <1>3, AcquireMoves
  <1>5. CASE open'[s] = NoTx
    BY <1>0, <1>4, <1>5, NoTxQuiet
  <1>6. CASE open'[s] # NoTx
    <2>1. /\ Acquired(s) /\ Reached(open'[s], Plan(open[s]), n + 1)
          /\ n + 1 \in 0..Len(Plan(open[s])) /\ SameRequest(s)
      BY <1>2, <1>4, <1>6 DEF Acquired
    <2>2. /\ Plan(open'[s]) = Plan(open[s]) /\ Asked(open'[s]) /\ Known(open'[s])
      BY <1>1, <2>1, SamePlan
    <2>3. Along(open'[s], Plan(open'[s]))
      BY <2>1, <2>2 DEF Along
    <2>4. open'[s].pc # "write"
      BY <2>1 DEF Acquired
    <2>5. Known(open[s])'
      BY <1>4, <2>2 DEF Known
    <2>6. Decided(open[s])'
      BY <2>4 DEF Decided
    <2>7. Asked(open[s])' /\ Along(open[s], Plan(open[s]))'
      BY <2>2, <2>3
    <2>8. InOrder(open[s])'
      BY <2>5, <2>6, <2>7 DEF InOrder
    <2> QED
      BY <1>4, <2>1, <2>8 DEF Quiet
  <1> QED
    BY <1>5, <1>6

\* While an owner remains beside the target, there is another one.
LEMMA AnotherOwner ==
  ASSUME AlwaysAnOwner, NEW u, OwnerRemains(u)
  PROVE  \E o \in Owners : o # u
  <1>1. CASE \A o \in Owners : o = u
    <2>1. Owners = {u} /\ member[u] = "owner"
      BY <1>1 DEF AlwaysAnOwner, Owners
    <2>2. Cardinality({u}) = 1
      BY FS_Singleton
    <2> QED
      BY <2>1, <2>2 DEF OwnerRemains
  <1> QED
    BY <1>1

LEMMA CheckQuiet ==
  ASSUME MembersIInv, NEW s \in Sessions, check(s)
  PROVE  Quiet(s)
  <1>0. Typed /\ open[s] \in Tx /\ AlwaysAnOwner
    BY DEF MembersIInv, Typed
  <1>1. /\ open' \in [Sessions -> Tx] /\ Alone(s) /\ UNCHANGED <<member, invitation, granted>>
        /\ open[s].pc = "check" /\ (open'[s] = NoTx \/ Checked(s))
    BY <1>0, CheckMoves
  <1>2. Asked(open[s]) /\ Along(open[s], Plan(open[s])) /\ Known(open[s])
    BY <1>1 DEF MembersIInv, InOrder, NoTx
  <1>3. CASE open'[s] = NoTx
    BY <1>0, <1>1, <1>3, NoTxQuiet
  <1>4. CASE Checked(s)
    <2>1. Plan(open'[s]) = Plan(open[s]) /\ Asked(open'[s]) /\ Known(open'[s])
      BY <1>2, <1>4, SamePlan DEF Checked
    <2>2. Plan(open[s]) \in Seq(Locks)
      BY <1>0, <1>2, PlanType
    <2>3. Reached(open[s], Plan(open[s]), Len(Plan(open[s])))
      BY <1>1, <1>2, <2>2, PlanDone
    <2>4. Reached(open'[s], Plan(open'[s]), Len(Plan(open'[s])))
      BY <1>4, <2>1, <2>3 DEF Reached, Checked
    <2>5. Along(open'[s], Plan(open'[s]))
      BY <2>1, <2>2, <2>4 DEF Along
    <2>6. Decided(open'[s])
      <3>1. Departs(open'[s]) => OwnerRemains(open'[s].target)
        BY <1>4 DEF Checked, Found, SameRequest, Departs
      <3>2. Departs(open'[s]) => \E o \in Owners : o # open'[s].target
        BY <1>0, <3>1, AnotherOwner
      <3>3. open'[s].op = "remove" => open'[s].role = "none"
        BY <2>1 DEF Asked
      <3> QED
        BY <1>4, <3>2, <3>3 DEF Checked, Found, SameRequest, Decided
    <2>7. Known(open[s])' /\ Decided(open[s])'
      BY <1>1, <2>1, <2>6
         DEF Known, Decided, Owners, MayGrant, MayManage, Unsettled
    <2>8. Asked(open[s])' /\ Along(open[s], Plan(open[s]))'
      BY <2>1, <2>5
    <2>9. InOrder(open[s])'
      BY <2>7, <2>8 DEF InOrder
    <2> QED
      BY <1>1, <1>4, <2>9 DEF Quiet, Checked
  <1> QED
    BY <1>1, <1>3, <1>4

\* Whose transaction stays the same keeps its place in its plan.
LEMMA PlanStays ==
  ASSUME NEW o \in Sessions, open'[o] = open[o], Asked(open[o]), Along(open[o], Plan(open[o]))
  PROVE  Asked(open[o])' /\ Along(open[o], Plan(open[o]))'
  <1>1. Asked(open'[o]) /\ Along(open'[o], Plan(open'[o]))
    OBVIOUS
  <1> QED
    BY <1>1

LEMMA QuietKeeps ==
  ASSUME MembersIInv, NEW s \in Sessions, Quiet(s)
  PROVE  MembersIInv'
  <1>0. Typed /\ Exclusive /\ RowsHeld
    BY DEF MembersIInv
  <1>1. Typed' /\ Sent' /\ AlwaysAnOwner' /\ GrantsBelongToMembers' /\ OnePendingPerAddress'
    BY DEF Quiet, MembersIInv, Typed, Sent, AlwaysAnOwner, Owners, GrantsBelongToMembers,
          IsMember, OnePendingPerAddress, Pending
  <1>2. ASSUME NEW o \in Sessions PROVE InOrder(open[o])'
    <2>1. CASE o = s
      BY <2>1 DEF Quiet
    <2>2. CASE o # s
      <3>1. open'[o] = open[o] /\ InOrder(open[o])
        BY <2>2 DEF Quiet, Alone, MembersIInv
      <3>2. Known(open[o]) => Known(open[o])'
        BY <3>1 DEF Quiet, Known
      <3>3. Decided(open[o]) => Decided(open[o])'
        BY <3>1 DEF Quiet, Decided, Owners, MayGrant, MayManage, Unsettled
      <3>4. CASE open[o] = NoTx
        BY <3>1, <3>4 DEF InOrder
      <3>5. CASE Asked(open[o]) /\ Along(open[o], Plan(open[o])) /\ Known(open[o]) /\ Decided(open[o])
        BY <3>1, <3>2, <3>3, <3>5, PlanStays DEF InOrder
      <3> QED
        BY <3>1, <3>4, <3>5 DEF InOrder
    <2> QED
      BY <2>1, <2>2
  <1>3. Exclusive'
    BY <1>0 DEF Quiet, Exclusive, Alone, Acquired, Held
  <1>4. RowsHeld'
    BY <1>0 DEF Quiet, RowsHeld, Alone, Acquired, IsMember
  <1> QED
    BY <1>1, <1>2, <1>3, <1>4 DEF MembersIInv

----------------------------------------------------------------------------
(* Steps that write.                                                        *)

\* A transaction that commits has asked, taken its locks, and decided.
LEMMA CommitsInOrder ==
  ASSUME MembersIInv, NEW s \in Sessions, commit(s)
  PROVE  /\ open[s] \in Tx /\ Asked(open[s]) /\ Known(open[s]) /\ Decided(open[s])
         /\ open[s].pc = "write" /\ Write(open[s])
         /\ open' \in [Sessions -> Tx] /\ Alone(s) /\ open'[s] = NoTx
         /\ open[s].op \in {"invite", "resend", "changeRole", "remove", "leave"} =>
               MemberRow(open[s].actor) \in open[s].holds
         /\ open[s].op \in {"changeRole", "remove", "leave", "share"} =>
               MemberRow(open[s].target) \in open[s].holds
         /\ open[s].op \in {"changeRole", "remove", "leave"} => OwnersKey \in open[s].holds
         /\ open[s].op \in {"resend", "revoke", "accept"} =>
               InvitationKey(open[s].inv) \in open[s].holds
  <1>0. Typed /\ open[s] \in Tx /\ open[s].pc = "write" /\ Write(open[s])
    BY DEF MembersIInv, Typed, commit
  <1>1. Asked(open[s]) /\ Known(open[s]) /\ Decided(open[s]) /\ Along(open[s], Plan(open[s]))
    BY <1>0 DEF MembersIInv, InOrder, NoTx
  <1>2. open' \in [Sessions -> Tx] /\ Alone(s) /\ open'[s] = NoTx
    BY <1>0, Rolls DEF commit
  <1> QED
    BY <1>0, <1>1, <1>2, PlanHolds

\* A role changes for whoever joins, or under the locks of the owners and of the row.
LEMMA RolesChange ==
  ASSUME MembersIInv, NEW s \in Sessions, commit(s), NEW u \in Users
  PROVE  \/ member'[u] = member[u]
         \/ /\ open[s].op = "accept" /\ u = open[s].target /\ member[u] = "none"
            /\ member'[u] = open[s].role
         \/ /\ open[s].op \in {"changeRole", "remove", "leave"} /\ u = open[s].target
            /\ OwnersKey \in open[s].holds /\ MemberRow(u) \in open[s].holds
            /\ member'[u] = open[s].role
  <1>0. member \in [Users -> Roles \cup {"none"}] /\ Write(open[s]) /\ Asked(open[s])
    BY CommitsInOrder DEF MembersIInv, Typed
  <1>1. CASE open[s].op \in {"changeRole", "remove", "leave"}
    <2>1. \/ Set(open[s].target, open[s].role)
      BY <1>0, <1>1 DEF Write, Asked
    <2> QED
      BY <1>0, <1>1, <2>1, CommitsInOrder DEF Set
  <1>2. CASE open[s].op = "accept"
    BY <1>0, <1>2 DEF Write, Set, IsMember
  <1>3. CASE open[s].op \notin {"changeRole", "remove", "leave", "accept"}
    BY <1>0, <1>3 DEF Write
  <1> QED
    BY <1>1, <1>2, <1>3

\* An invitation is made of an unused one, or changes status under its lock.
LEMMA InvitationsChange ==
  ASSUME MembersIInv, NEW s \in Sessions, commit(s), NEW i \in Invitations
  PROVE  \/ invitation'[i] = invitation[i]
         \/ /\ open[s].op \in {"invite", "resend"} /\ invitation[i].status = "unused"
            /\ invitation'[i] = [status |-> "pending", email |-> open[s].target,
                                 role |-> open[s].role]
         \/ /\ open[s].op \in {"resend", "revoke", "accept"}
            /\ i = open[s].inv /\ InvitationKey(i) \in open[s].holds
            /\ invitation'[i] = [invitation[i] EXCEPT !.status =
                                   IF open[s].op = "accept" THEN "accepted" ELSE "revoked"]
  <1>0. /\ invitation \in [Invitations -> Invitation] /\ Write(open[s]) /\ Asked(open[s])
        /\ i # NoInvitation
    BY CommitsInOrder, MembershipAssumption DEF MembersIInv, Typed
  <1>1. CASE open[s].op = "invite"
    <2>1. createInvitation(open[s], NoInvitation)
      BY <1>0, <1>1 DEF Write
    <2> QED
      BY <1>0, <1>1, <2>1 DEF createInvitation
  <1>2. CASE open[s].op = "resend"
    <2>1. createInvitation(open[s], open[s].inv)
      BY <1>0, <1>2 DEF Write
    <2> QED
      BY <1>0, <1>2, <2>1, CommitsInOrder DEF createInvitation
  <1>3. CASE open[s].op = "revoke"
    <2>1. Settle(open[s].inv, "revoked")
      BY <1>0, <1>3 DEF Write
    <2> QED
      BY <1>0, <1>3, <2>1, CommitsInOrder DEF Settle
  <1>4. CASE open[s].op = "accept"
    <2>1. Settle(open[s].inv, "accepted")
      BY <1>0, <1>4 DEF Write
    <2> QED
      BY <1>0, <1>4, <2>1, CommitsInOrder DEF Settle
  <1>5. CASE open[s].op \notin {"invite", "resend", "revoke", "accept"}
    BY <1>0, <1>5 DEF Write
  <1> QED
    BY <1>1, <1>2, <1>3, <1>4, <1>5

\* A share is made under the lock of the row of whom it is made with.
LEMMA GrantsChange ==
  ASSUME MembersIInv, NEW s \in Sessions, commit(s), NEW u \in granted', u \notin granted
  PROVE  u = open[s].target /\ open[s].op = "share" /\ MemberRow(u) \in open[s].holds
  BY CommitsInOrder DEF Write

\* What a transaction has locked, no other one changes.
LEMMA LockedStays ==
  ASSUME MembersIInv, NEW s \in Sessions, commit(s), NEW o \in Sessions, o # s
  PROVE  /\ \A u \in Users : MemberRow(u) \in open[o].holds => member'[u] = member[u]
         /\ \A u \in Users : MemberRow(u) \in open[o].holds /\ u \notin granted => u \notin granted'
         /\ OwnersKey \in open[o].holds => Owners \subseteq Owners'
         /\ \A i \in Invitations : InvitationKey(i) \in open[o].holds /\ Unsettled(i)
                                      => invitation'[i] = invitation[i]
  <1>0. open[s].holds \cap open[o].holds = {} /\ RowsHeld
    BY DEF MembersIInv, Exclusive
  <1>1. ASSUME NEW u \in Users, MemberRow(u) \in open[o].holds PROVE member'[u] = member[u]
    <2>1. IsMember(u) /\ MemberRow(u) \notin open[s].holds
      BY <1>0, <1>1 DEF RowsHeld
    <2> QED
      BY <2>1, RolesChange DEF IsMember
  <1>2. ASSUME NEW u \in Users, MemberRow(u) \in open[o].holds, u \notin granted
        PROVE  u \notin granted'
    BY <1>0, <1>2, GrantsChange
  <1>3. ASSUME OwnersKey \in open[o].holds, NEW u \in Owners PROVE u \in Owners'
    <2>1. OwnersKey \notin open[s].holds /\ u \in Users /\ member[u] = "owner"
      BY <1>0, <1>3 DEF Owners
    <2>2. member'[u] = member[u]
      BY <2>1, RolesChange
    <2> QED
      BY <2>1, <2>2 DEF Owners
  <1>4. ASSUME NEW i \in Invitations, InvitationKey(i) \in open[o].holds, Unsettled(i)
        PROVE  invitation'[i] = invitation[i]
    <2>1. InvitationKey(i) \notin open[s].holds /\ invitation[i].status # "unused"
      BY <1>0, <1>4 DEF Unsettled
    <2> QED
      BY <2>1, InvitationsChange
  <1> QED
    BY <1>1, <1>2, <1>3, <1>4

\* What an invitation was sent with, it keeps.
LEMMA SentStays ==
  ASSUME MembersIInv, NEW s \in Sessions, commit(s), NEW i \in Invitations,
         invitation[i].status # "unused"
  PROVE  /\ invitation'[i].status # "unused" /\ invitation'[i].email = invitation[i].email
         /\ invitation'[i].role = invitation[i].role
  <1>1. invitation[i] \in Invitation
    BY DEF MembersIInv, Typed
  <1>2. CASE \E status \in {"accepted", "revoked"} :
               invitation'[i] = [invitation[i] EXCEPT !.status = status]
    BY <1>1, <1>2 DEF Invitation
  <1>3. \/ invitation'[i] = invitation[i]
        \/ \E status \in {"accepted", "revoked"} :
               invitation'[i] = [invitation[i] EXCEPT !.status = status]
    BY InvitationsChange
  <1> QED
    BY <1>2, <1>3

\* A commit leaves what the others know and have decided.
LEMMA OthersStay ==
  ASSUME MembersIInv, NEW s \in Sessions, commit(s), NEW o \in Sessions, o # s
  PROVE  InOrder(open[o])'
  <1>0. /\ Typed /\ open[o] \in Tx /\ open'[o] = open[o] /\ InOrder(open[o])
    BY CommitsInOrder DEF MembersIInv, Typed, Alone
  <1>1. CASE open[o] = NoTx
    BY <1>0, <1>1 DEF InOrder
  <1>2. CASE open[o] # NoTx
    <2>1. Asked(open[o]) /\ Known(open[o]) /\ Decided(open[o]) /\ Along(open[o], Plan(open[o]))
      BY <1>0, <1>2 DEF InOrder
    <2>2. Known(open[o])'
      BY <1>0, <2>1, SentStays DEF Known, Asked
    <2>3. ASSUME open[o].pc = "write" PROVE Decided(open[o])'
      <3>1. /\ open[o].op \in {"invite", "resend", "changeRole", "remove", "leave"} =>
                  MemberRow(open[o].actor) \in open[o].holds
            /\ open[o].op \in {"changeRole", "remove", "leave", "share"} =>
                  MemberRow(open[o].target) \in open[o].holds
            /\ open[o].op \in {"changeRole", "remove", "leave"} => OwnersKey \in open[o].holds
            /\ open[o].op \in {"resend", "revoke", "accept"} =>
                  InvitationKey(open[o].inv) \in open[o].holds
        BY <1>0, <2>1, <2>3, PlanHolds
      <3>2. /\ open[o].op \in {"invite", "resend", "changeRole", "remove", "leave"} =>
                  member'[open[o].actor] = member[open[o].actor]
            /\ open[o].op \in {"changeRole", "remove", "leave"} =>
                  member'[open[o].target] = member[open[o].target]
        BY <2>1, <3>1, LockedStays DEF Asked
      <3>3. Departs(open[o]) => \E w \in Owners' : w # open[o].target
        <4>1. Departs(open[o]) => OwnersKey \in open[o].holds
          BY <3>1 DEF Departs
        <4>2. Departs(open[o]) => \E w \in Owners : w # open[o].target
          BY <2>1, <2>3 DEF Decided
        <4> QED
          BY <4>1, <4>2, LockedStays
      <3>4. open[o].op \in {"remove", "leave"} /\ ~open[o].clears => open[o].target \notin granted'
        BY <2>1, <2>3, <3>1, LockedStays DEF Decided, Asked
      <3>5. open[o].op \in {"resend", "revoke"} => Unsettled(open[o].inv)'
        <4>1. open[o].op \in {"resend", "revoke"} =>
                 Unsettled(open[o].inv) /\ open[o].inv \in Invitations
          BY <2>1, <2>3 DEF Decided, Asked
        <4> QED
          BY <1>0, <3>1, <4>1, LockedStays DEF Unsettled
      <3>6. /\ open[o].op \in {"invite", "resend"} => MayGrant(open[o].actor, open[o].role)
            /\ open[o].op \in {"changeRole", "remove"} =>
                  MayManage(open[o].actor, open[o].target, open[o].role)
        BY <2>1, <2>3 DEF Decided
      <3>7. /\ open[o].op \in {"invite", "resend"} => MayGrant(open[o].actor, open[o].role)'
            /\ open[o].op \in {"changeRole", "remove"} =>
                  MayManage(open[o].actor, open[o].target, open[o].role)'
        BY <1>0, <3>2, <3>6 DEF MayGrant, MayManage
      <3> QED
        BY <1>0, <3>3, <3>4, <3>5, <3>7 DEF Decided, Departs, Owners
    <2>4. Decided(open[o])'
      BY <1>0, <2>3 DEF Decided
    <2>5. open'[o] = open[o]
      BY <1>0
    <2>6. Asked(open[o])' /\ Along(open[o], Plan(open[o]))'
      BY <2>1, <2>5, PlanStays
    <2> QED
      BY <2>2, <2>4, <2>6 DEF InOrder
  <1> QED
    BY <1>1, <1>2

\* A commit leaves the workspace in order.
LEMMA CommitKeeps ==
  ASSUME MembersIInv, NEW s \in Sessions, commit(s)
  PROVE  MembersIInv'
  <1> DEFINE t == open[s]
  <1>0. /\ Typed /\ Exclusive /\ RowsHeld /\ Sent /\ t \in Tx /\ Asked(t) /\ Known(t)
        /\ Decided(t) /\ t.pc = "write" /\ Write(t) /\ open' \in [Sessions -> Tx]
        /\ Alone(s) /\ open'[s] = NoTx
    BY CommitsInOrder DEF MembersIInv
  <1>1. member' \in [Users -> Roles \cup {"none"}]
    <2>1. t.target \in Users => t.role \in Roles \cup {"none"}
      BY <1>0 DEF Tx
    <2> QED
      BY <1>0, <2>1 DEF Write, Set, Typed
  <1>2. invitation' \in [Invitations -> Invitation]
    <2>1. \A i \in Invitations : invitation'[i] \in Invitation
      <3> SUFFICES ASSUME NEW i \in Invitations PROVE invitation'[i] \in Invitation
        OBVIOUS
      <3>1. invitation[i] \in Invitation
        BY <1>0 DEF Typed
      <3>2. t.op \in {"invite", "resend"} =>
               [status |-> "pending", email |-> t.target, role |-> t.role] \in Invitation
        BY <1>0 DEF Asked, Invitation
      <3>3. \A status \in {"accepted", "revoked"} :
               [invitation[i] EXCEPT !.status = status] \in Invitation
        BY <3>1 DEF Invitation
      <3> QED
        BY <3>1, <3>2, <3>3, InvitationsChange
    <2>2. \E f : invitation' = [i \in Invitations |-> f[i]]
      BY <1>0 DEF Write, createInvitation, Settle, Typed
    <2> QED
      BY <2>1, <2>2
  <1>3. granted' \subseteq Users
    BY <1>0 DEF Write, Asked, Typed
  <1>4. Exclusive' /\ RowsHeld'
    <2>1. Exclusive'
      BY <1>0 DEF Exclusive, Alone, NoTx
    <2>2. RowsHeld'
      BY <1>0, LockedStays DEF RowsHeld, Alone, NoTx, IsMember
    <2> QED
      BY <2>1, <2>2
  <1>5. Sent'
    <2> SUFFICES ASSUME NEW i \in Invitations, invitation'[i].status # "unused"
                 PROVE  invitation'[i].email \in Users /\ invitation'[i].role \in Roles
      BY DEF Sent
    <2>1. CASE invitation[i].status # "unused"
      BY <1>0, <2>1, SentStays DEF Sent
    <2>2. CASE invitation[i].status = "unused"
      <3>1. t.op \in {"resend", "revoke", "accept"} => i # t.inv
        BY <1>0, <2>2 DEF Known
      <3>2. /\ t.op \in {"invite", "resend"}
            /\ invitation'[i] = [status |-> "pending", email |-> t.target, role |-> t.role]
        BY <2>2, <3>1, InvitationsChange
      <3> QED
        BY <1>0, <3>2 DEF Asked
    <2> QED
      BY <2>1, <2>2
  <1>6. \A o \in Sessions : InOrder(open[o])'
    <2>1. InOrder(open[s])'
      BY <1>0 DEF InOrder
    <2> QED
      BY <2>1, OthersStay
  <1>7. AlwaysAnOwner'
    <2>1. CASE Departs(t)
      <3>1. PICK o \in Owners : o # t.target
        BY <1>0, <2>1 DEF Decided
      <3>2. o \in Users /\ member'[o] = member[o]
        BY <3>1, RolesChange DEF Owners
      <3> QED
        BY <3>1, <3>2 DEF AlwaysAnOwner, Owners
    <2>2. CASE t.op = "changeRole" /\ ~Departs(t)
      <3>1. Set(t.target, "owner") /\ t.target \in Users
        BY <1>0, <2>2 DEF Departs, Write, Asked
      <3> QED
        BY <1>0, <3>1 DEF Set, AlwaysAnOwner, Owners, Typed
    <2>3. CASE t.op \notin {"changeRole", "remove", "leave"}
      <3>1. PICK o \in Owners : TRUE
        BY DEF MembersIInv, AlwaysAnOwner
      <3>2. o \in Users /\ member[o] = "owner"
        BY DEF Owners
      <3>3. member'[o] = "owner"
        BY <2>3, <3>2, RolesChange
      <3> QED
        BY <3>2, <3>3 DEF AlwaysAnOwner, Owners
    <2> QED
      BY <2>1, <2>2, <2>3 DEF Departs
  <1>8. GrantsBelongToMembers'
    <2> SUFFICES ASSUME NEW u \in granted' PROVE member'[u] # "none"
      BY <1>3 DEF GrantsBelongToMembers, IsMember
    <2>1. CASE u \in granted
      <3>1. u \in Users /\ member[u] # "none"
        BY <2>1 DEF MembersIInv, GrantsBelongToMembers, IsMember
      <3>2. CASE t.op \in {"remove", "leave"} /\ u = t.target
        <4>1. t.clears => u \notin granted'
          BY <1>0, <3>2 DEF Write
        <4> QED
          BY <1>0, <2>1, <3>2, <4>1 DEF Decided
      <3>3. CASE t.op = "changeRole" /\ u = t.target
        BY <1>0, <3>1, <3>3, RolesChange DEF Asked, Roles
      <3> QED
        BY <3>1, <3>2, <3>3, RolesChange
    <2>2. CASE u \notin granted
      <3>1. u \in Users /\ MemberRow(u) \in t.holds /\ t.op = "share"
        BY <1>3, <2>2, GrantsChange
      <3> QED
        BY <1>0, <3>1, RolesChange DEF RowsHeld, IsMember
    <2> QED
      BY <2>1, <2>2
  <1>9. OnePendingPerAddress'
    <2> SUFFICES ASSUME NEW i \in Invitations, NEW k \in Invitations, i # k,
                        invitation'[i].status = "pending", invitation'[k].status = "pending",
                        invitation'[i].email = invitation'[k].email
                 PROVE  FALSE
      BY DEF OnePendingPerAddress, Pending
    <2>1. \A j \in Invitations : invitation[j] \in Invitation
      BY <1>0 DEF Typed
    <2>2. ASSUME t.op \notin {"invite", "resend"}, NEW j \in Invitations,
                 invitation'[j].status = "pending"
          PROVE  invitation'[j] = invitation[j]
      <3> DEFINE status == IF t.op = "accept" THEN "accepted" ELSE "revoked"
      <3>1. [invitation[j] EXCEPT !.status = status].status = status
        BY <2>1 DEF Invitation
      <3>2. status # "pending"
        OBVIOUS
      <3>3. \/ invitation'[j] = invitation[j]
            \/ invitation'[j] = [invitation[j] EXCEPT !.status = status]
        BY <2>2, InvitationsChange
      <3> HIDE DEF status
      <3> QED
        BY <2>2, <3>1, <3>2, <3>3
    <2>3. CASE t.op \notin {"invite", "resend"}
      BY <2>2, <2>3 DEF MembersIInv, OnePendingPerAddress, Pending
    <2>4. ASSUME NEW but, NoPendingFor(t.target, but), createInvitation(t, but)
          PROVE  FALSE
      <3>1. PICK new \in Invitations :
               /\ invitation'[new] = [status |-> "pending", email |-> t.target, role |-> t.role]
               /\ \A j \in Invitations \ {new, but} : invitation'[j] = invitation[j]
               /\ but # new /\ but \in Invitations => invitation'[but].status = "revoked"
        <4>1. PICK new \in Invitations :
                 invitation' =
                    [j \in Invitations |->
                       IF j = new
                       THEN [status |-> "pending", email |-> t.target, role |-> t.role]
                       ELSE IF j = but THEN [invitation[j] EXCEPT !.status = "revoked"]
                       ELSE invitation[j]]
          BY <2>4 DEF createInvitation
        <4>2. \A j \in Invitations : [invitation[j] EXCEPT !.status = "revoked"].status = "revoked"
          BY <2>1 DEF Invitation
        <4>3. /\ invitation'[new] = [status |-> "pending", email |-> t.target, role |-> t.role]
              /\ \A j \in Invitations \ {new, but} : invitation'[j] = invitation[j]
          BY <4>1
        <4>4. but # new /\ but \in Invitations => invitation'[but].status = "revoked"
          BY <4>1, <4>2
        <4> QED
          BY <4>3, <4>4
      <3>2. \A j \in Invitations \ {new} :
               invitation'[j].status = "pending" =>
                  j # but /\ invitation'[j] = invitation[j] /\ invitation[j].email # t.target
        BY <2>4, <3>1 DEF NoPendingFor, Pending
      <3> QED
        BY <3>1, <3>2 DEF MembersIInv, OnePendingPerAddress, Pending
    <2> QED
      BY <1>0, <2>3, <2>4 DEF Write
  <1> QED
    BY <1>0, <1>1, <1>2, <1>3, <1>4, <1>5, <1>6, <1>7, <1>8, <1>9 DEF MembersIInv, Typed

\* What happens outside transactions: shares end, and invitations expire.
Fades ==
    /\ UNCHANGED <<member, open>>
    /\ granted' \subseteq granted
    /\ invitation' \in [Invitations -> Invitation]
    /\ \A i \in Invitations :
          \/ invitation'[i] = invitation[i]
          \/ /\ invitation'[i].email = invitation[i].email
             /\ invitation'[i].role = invitation[i].role
             /\ invitation[i].status = "pending" /\ invitation'[i].status = "expired"

LEMMA EndingsFade ==
  ASSUME Typed,
         \/ \E u \in Users : unshare(u)
         \/ \E i \in Invitations : expire(i)
         \/ UNCHANGED memberVars
  PROVE  Fades
  <1>0. invitation \in [Invitations -> Invitation]
    BY DEF Typed
  <1>1. ASSUME NEW i \in Invitations, expire(i) PROVE Fades
    <2>1. invitation' = [invitation EXCEPT ![i] = [invitation[i] EXCEPT !.status = "expired"]]
      BY <1>0, <1>1 DEF expire
    <2>2. /\ [invitation[i] EXCEPT !.status = "expired"] \in Invitation
          /\ [invitation[i] EXCEPT !.status = "expired"].email = invitation[i].email
          /\ [invitation[i] EXCEPT !.status = "expired"].role = invitation[i].role
          /\ [invitation[i] EXCEPT !.status = "expired"].status = "expired"
      BY <1>0 DEF Invitation
    <2> QED
      BY <1>0, <1>1, <2>1, <2>2 DEF Fades, expire, Pending
  <1>2. CASE UNCHANGED invitation
    BY <1>0, <1>2 DEF Fades, unshare, expire, memberVars
  <1> QED
    BY <1>1, <1>2 DEF unshare, memberVars

LEMMA FadesKeep ==
  ASSUME MembersIInv, Fades
  PROVE  MembersIInv'
  <1>0. Typed /\ member' = member /\ open' = open /\ granted' \subseteq granted
    BY DEF MembersIInv, Fades
  <1>1. Typed'
    BY <1>0 DEF Typed, Fades
  <1>2. Exclusive' /\ RowsHeld' /\ AlwaysAnOwner' /\ GrantsBelongToMembers'
    BY <1>0 DEF MembersIInv, Exclusive, RowsHeld, AlwaysAnOwner, Owners,
          GrantsBelongToMembers, IsMember
  <1>3. Sent'
    BY DEF MembersIInv, Sent, Fades
  <1>4. OnePendingPerAddress'
    BY DEF MembersIInv, OnePendingPerAddress, Fades, Pending
  <1>5. ASSUME NEW o \in Sessions PROVE InOrder(open[o])'
    <2>1. InOrder(open[o]) /\ open'[o] = open[o] /\ Owners' = Owners
      BY <1>0 DEF MembersIInv, Owners
    <2>2. Asked(open[o]) /\ Known(open[o]) => Known(open[o])'
      BY <2>1 DEF Known, Fades, Asked
    <2>3. Asked(open[o]) /\ Decided(open[o]) => Decided(open[o])'
      <3>1. Asked(open[o]) /\ open[o].op \in {"resend", "revoke"} /\ Unsettled(open[o].inv)
               => Unsettled(open[o].inv)'
        BY <2>1 DEF Asked, Unsettled, Fades
      <3> QED
        BY <1>0, <2>1, <3>1 DEF Decided, MayGrant, MayManage
    <2>4. CASE open[o] = NoTx
      BY <2>1, <2>4 DEF InOrder
    <2>5. CASE open[o] # NoTx
      <3>1. Asked(open[o]) /\ Along(open[o], Plan(open[o])) /\ Known(open[o]) /\ Decided(open[o])
        BY <2>1, <2>5 DEF InOrder
      <3>2. Asked(open[o])' /\ Along(open[o], Plan(open[o]))'
        BY <2>1, <3>1, PlanStays
      <3> QED
        BY <2>2, <2>3, <3>1, <3>2 DEF InOrder
    <2> QED
      BY <2>4, <2>5
  <1> QED
    BY <1>1, <1>2, <1>3, <1>4, <1>5 DEF MembersIInv

----------------------------------------------------------------------------
(* The invariant and what follows from it.                                  *)

\* A step writes in one transaction, or writes nothing, or ends a share or an invitation.
LEMMA StepKinds ==
  ASSUME MembersIInv, [MemberNext]_memberVars
  PROVE  \/ \E s \in Sessions : Quiet(s) \/ commit(s)
         \/ Fades
  <1>0. Typed /\ Sent
    BY DEF MembersIInv
  <1>1. ASSUME NEW s \in Sessions, Operation(s) PROVE Quiet(s)
    BY <1>0, <1>1, OperationBegins, StartQuiet
  <1>2. ASSUME NEW s \in Sessions, abort(s) PROVE Quiet(s)
    BY <1>0, <1>2, Rolls, NoTxQuiet DEF abort
  <1> QED
    BY <1>0, <1>1, <1>2, AcquireQuiet, CheckQuiet, EndingsFade DEF MemberNext

LEMMA InitMembers == MemberInit => MembersIInv
  <1> SUFFICES ASSUME MemberInit PROVE MembersIInv
    OBVIOUS
  <1>0. NoTx \in Tx
    BY DEF NoTx, Tx, Ops
  <1>1. Typed
    BY <1>0, MembershipAssumption DEF MemberInit, Typed, Roles, Invitation
  <1>2. Exclusive /\ RowsHeld
    BY DEF MemberInit, Exclusive, RowsHeld, NoTx
  <1>3. Sent /\ OnePendingPerAddress /\ GrantsBelongToMembers
    BY DEF MemberInit, Sent, OnePendingPerAddress, Pending, GrantsBelongToMembers
  <1>4. AlwaysAnOwner
    BY MembershipAssumption DEF MemberInit, AlwaysAnOwner, Owners
  <1>5. \A s \in Sessions : InOrder(open[s])
    BY DEF MemberInit, InOrder
  <1> QED
    BY <1>1, <1>2, <1>3, <1>4, <1>5 DEF MembersIInv

LEMMA NextMembers ==
  ASSUME MembersIInv, [MemberNext]_memberVars
  PROVE  MembersIInv'
  BY StepKinds, QuietKeeps, CommitKeeps, FadesKeep

\* Locks are taken in one order: of the owners or an invitation, of an address, of a row;
\* and two rows only under the lock of the owners.
Rank(lock) == IF lock[1] = "member" THEN 3 ELSE IF lock[1] = "invitation" THEN 2 ELSE 1

LEMMA PlanOrder ==
  ASSUME NEW t \in Tx, Asked(t), NEW j \in 1..Len(Plan(t)), NEW k \in 1..Len(Plan(t)), j < k
  PROVE  \/ Rank(Plan(t)[j]) < Rank(Plan(t)[k])
         \/ Rank(Plan(t)[j]) = Rank(Plan(t)[k]) /\ j > 1 /\ Plan(t)[1] = OwnersKey
  <1>1. CASE t.op = "invite"
    BY <1>1 DEF Plan, Rank, AddressKey, MemberRow
  <1>2. CASE t.op = "resend"
    BY <1>2 DEF Plan, Rank, AddressKey, MemberRow, InvitationKey
  <1>3. CASE t.op \in {"revoke", "accept", "share"}
    BY <1>3 DEF Plan
  <1>4. CASE t.op \in {"changeRole", "remove"}
    BY <1>4 DEF Plan, Rank, MemberRow, OwnersKey
  <1>5. CASE t.op = "leave"
    BY <1>5 DEF Plan, Rank, MemberRow, OwnersKey
  <1> QED
    BY <1>1, <1>2, <1>3, <1>4, <1>5 DEF Asked, Tx, Ops

LEMMA WaitsInOrder ==
  ASSUME MembersIInv, NEW s \in Sessions, Waits(s), NEW lock \in open[s].holds
  PROVE  \/ Rank(lock) < Rank(Head(open[s].wants))
         \/ Rank(lock) = Rank(Head(open[s].wants)) /\ OwnersKey \in open[s].holds
  <1>1. /\ open[s] \in Tx /\ Asked(open[s]) /\ Along(open[s], Plan(open[s]))
        /\ open[s].pc = "lock"
    BY DEF MembersIInv, Typed, InOrder, Waits, NoTx
  <1>2. Plan(open[s]) \in Seq(Locks)
    BY <1>1, PlanType
  <1>3. PICK n \in 0..Len(Plan(open[s])) : Reached(open[s], Plan(open[s]), n)
    BY <1>1 DEF Along
  <1>4. n < Len(Plan(open[s])) /\ Head(open[s].wants) = Plan(open[s])[n + 1]
    BY <1>1, <1>2, <1>3, PlanNext
  <1>5. PICK k \in 1..n : lock = Plan(open[s])[k]
    BY <1>3 DEF Reached
  <1>6. k \in 1..Len(Plan(open[s])) /\ n + 1 \in 1..Len(Plan(open[s])) /\ k < n + 1
    BY <1>2, <1>4
  <1>7. k > 1 => Plan(open[s])[1] \in open[s].holds
    BY <1>3, <1>5 DEF Reached
  <1> QED
    BY <1>1, <1>4, <1>5, <1>6, <1>7, PlanOrder

LEMMA NobodyWaitsInCycles == MembersIInv => NoLockCycle
  <1> SUFFICES ASSUME MembersIInv, NEW s \in Sessions, NEW o \in Sessions, s # o,
                      Waits(s), Head(open[s].wants) \in open[o].holds,
                      Waits(o), Head(open[o].wants) \in open[s].holds
               PROVE  FALSE
    BY DEF NoLockCycle
  <1>1. Rank(Head(open[s].wants)) \in Nat /\ Rank(Head(open[o].wants)) \in Nat
    BY DEF Rank
  <1>2. OwnersKey \in open[s].holds /\ OwnersKey \in open[o].holds
    BY <1>1, WaitsInOrder
  <1> QED
    BY <1>2 DEF MembersIInv, Exclusive

\* The workspace is in order at every commit: there is an owner, shares belong to members,
\* an address has one pending invitation, and no two transactions wait for each other.
\* For any number of members, invitations and open transactions, each of which reads and
\* writes in statements of its own (memberships.service.ts).
THEOREM MembersAlways == MemberSpec => []MembersInv
  <1>1. MembersIInv => MembersInv
    <2>1. MembersIInv => MemberTypeOK
      BY DEF MembersIInv, Typed, Exclusive, MemberTypeOK, Invitation
    <2> QED
      BY <2>1, NobodyWaitsInCycles DEF MembersIInv, MembersInv
  <1> QED
    BY <1>1, InitMembers, NextMembers, PTL DEF MemberSpec

\* Whoever joins does so by a pending invitation of theirs, and what is settled stays.
LEMMA StepJoins ==
  ASSUME MembersIInv, [MemberNext]_memberVars
  PROVE  /\ \A u \in Users : member[u] = "none" /\ member'[u] # "none" =>
               \E i \in Invitations :
                  /\ Pending(i) /\ invitation'[i].status = "accepted"
                  /\ invitation[i].email = u /\ invitation[i].role = member'[u]
         /\ \A i \in Invitations :
               invitation[i].status \in {"accepted", "revoked"} =>
                  invitation'[i] = invitation[i]
  <1>1. ASSUME NEW s \in Sessions, commit(s), NEW u \in Users,
               member[u] = "none", member'[u] # "none"
        PROVE  \E i \in Invitations :
                  /\ Pending(i) /\ invitation'[i].status = "accepted"
                  /\ invitation[i].email = u /\ invitation[i].role = member'[u]
    <2>1. MemberRow(u) \notin open[s].holds
      BY <1>1 DEF MembersIInv, RowsHeld, IsMember
    <2>2. open[s].op = "accept" /\ u = open[s].target /\ member'[u] = open[s].role
      BY <1>1, <2>1, RolesChange
    <2>3. /\ open[s].inv \in Invitations /\ invitation[open[s].inv].email = u
          /\ invitation[open[s].inv].role = member'[u]
      BY <1>1, <2>2, CommitsInOrder DEF Known, Asked
    <2>4. Pending(open[s].inv) /\ Settle(open[s].inv, "accepted")
      BY <1>1, <2>2, CommitsInOrder DEF Write
    <2>5. invitation'[open[s].inv].status = "accepted"
      BY <2>3, <2>4 DEF Settle, MembersIInv, Typed, Invitation
    <2> QED
      BY <2>3, <2>4, <2>5
  <1>2. ASSUME NEW s \in Sessions, commit(s), NEW i \in Invitations,
               invitation[i].status \in {"accepted", "revoked"}
        PROVE  invitation'[i] = invitation[i]
    <2>1. open[s].op \in {"resend", "revoke"} => i # open[s].inv
      BY <1>1, <1>2, CommitsInOrder DEF Decided, Unsettled
    <2>2. open[s].op = "accept" => i # open[s].inv
      BY <1>2, CommitsInOrder DEF Write, Pending
    <2> QED
      BY <1>2, <2>1, <2>2, InvitationsChange
  <1> QED
    BY <1>1, <1>2, StepKinds DEF Quiet, Fades

\* Authority is current when it is used, and people join by invitations of theirs: what a
\* transaction decided under its locks is still so when it commits, however many others
\* demote, remove or invite meanwhile (memberships.service.ts).
THEOREM RolesAreGrantedAlways == MemberSpec => RolesAreGranted
  <1>1. MembersIInv /\ [MemberNext]_memberVars =>
           [\A s \in Sessions :
              LET t == open[s]
              IN  Commits(s) /\ t.op \in {"invite", "resend", "changeRole", "remove"} =>
                     /\ member[t.actor] \in Managers
                     /\ "owner" \in {t.role} \cup
                           (IF t.op \in {"changeRole", "remove"} THEN {member[t.target]} ELSE {})
                        => member[t.actor] = "owner"]_memberVars
    <2> SUFFICES ASSUME MembersIInv, NEW s \in Sessions, Commits(s),
                        open[s].op \in {"invite", "resend", "changeRole", "remove"}
                 PROVE  /\ member[open[s].actor] \in Managers
                        /\ "owner" \in {open[s].role} \cup
                              (IF open[s].op \in {"changeRole", "remove"}
                               THEN {member[open[s].target]} ELSE {})
                           => member[open[s].actor] = "owner"
      OBVIOUS
    <2>1. Decided(open[s]) /\ open[s].pc = "write"
      BY DEF Commits, MembersIInv, InOrder, NoTx
    <2> QED
      BY <2>1 DEF Decided, MayGrant, MayManage, Managers
  <1>2. MembersIInv /\ [MemberNext]_memberVars =>
           [/\ \A u \in Users : member[u] = "none" /\ member'[u] # "none" =>
                  \E i \in Invitations :
                     /\ Pending(i) /\ invitation'[i].status = "accepted"
                     /\ invitation[i].email = u /\ invitation[i].role = member'[u]
            /\ \A i \in Invitations :
                  invitation[i].status \in {"accepted", "revoked"} =>
                     invitation'[i] = invitation[i]]_memberVars
    BY StepJoins
  <1> QED
    BY <1>1, <1>2, InitMembers, NextMembers, PTL
       DEF MemberSpec, RolesAreGranted, AuthorityIsCurrent, JoinsByInvitation

\* Whatever the subject, the members behave as Membership says: the others leave them alone.
LEMMA MembersBehave == MCSpec => MemberSpec
  <1>1. MCInit => MemberInit
    BY DEF MCInit
  <1>2. [MCNext]_mcVars => [MemberNext]_memberVars
    BY DEF MCNext, mcVars, memberVars
  <1> QED
    BY <1>1, <1>2, PTL DEF MCSpec, MemberSpec

\* So their workspace is in order beside everything else that goes on (memberships.service.ts).
THEOREM WorkspaceMembers == MCSpec => []MembersInv /\ RolesAreGranted
  BY MembersBehave, MembersAlways, RolesAreGrantedAlways

----------------------------------------------------------------------------
(* The policy: the decisions about one request, looked at together.        *)

\* Two actions are the same if their areas and their verbs are.
LEMMA SameAction ==
  ASSUME NEW a, NEW b, NEW c, NEW d
  PROVE  <<a, b>> = <<c, d>> <=> a = c /\ b = d
  OBVIOUS

LEMMA ExportKind ==
  ASSUME NEW a, a \in {<<"export", "download">>, <<"export", "cancel">>}
  PROVE  Policy!Kinds(a) = {"export"}
  BY DEF Policy!Kinds, Policy!WorkspaceActions

LEMMA KindIs ==
  ASSUME NEW area, NEW verb, NEW k \in {"project", "note", "comment", "file", "task"},
         k \in Policy!Kinds(<<area, verb>>)
  PROVE  \/ <<area, verb>> \in {<<"note", "create">>, <<"export", "create">>, <<"task", "create">>,
                                 <<"comment", "create">>, <<"file", "upload">>}
         \/ area = k
  BY SameAction DEF Policy!Kinds, Policy!WorkspaceActions

\* What a member needs of a request for a decision.
Loaded(r) == r.kind \in Policy!Kinds(r.action)

LEMMA ViewersAreEditors ==
  ASSUME NEW r, Loaded(r), Policy!viewerAllowed(r)
  PROVE  Policy!editorAllowed(r)
  <1> DEFINE a == r.action
  <1>1. ~Policy!AdminOnly(a) /\ a # <<"ai", "configure">>
    BY DEF Policy!viewerAllowed
  <1>2. a = <<"export", "download">> /\ Policy!OwnExport(r) => Policy!ReadAllowed(r)
    BY ExportKind DEF Loaded, Policy!ReadAllowed
  <1> HIDE DEF a
  <1>3. QED
    BY <1>1, <1>2 DEF Policy!viewerAllowed, Policy!editorAllowed, a

LEMMA EditorsAreAdmins ==
  ASSUME NEW r, r.action \in Policy!Actions, Policy!editorAllowed(r)
  PROVE  Policy!decideUser(r, "admin")
  BY DEF Policy!editorAllowed, Policy!decideUser, Policy!AdminOnly, Policy!Actions

LEMMA Nested ==
  ASSUME NEW r, Loaded(r), r.action \in Policy!Actions, NEW fresh \in BOOLEAN, NEW k \in 1..3,
         Policy!UserMay(r, Policy!Roles[k], fresh)
  PROVE  Policy!UserMay(r, Policy!Roles[k + 1], fresh)
  <1>1. Policy!decideUser(r, "viewer") => Policy!decideUser(r, "editor")
    BY ViewersAreEditors DEF Policy!decideUser
  <1>2. Policy!decideUser(r, "editor") => Policy!decideUser(r, "admin")
    BY EditorsAreAdmins DEF Policy!decideUser
  <1>3. Policy!decideUser(r, "owner")
    BY DEF Policy!decideUser
  <1>4. \/ k = 1 /\ Policy!Roles[k] = "viewer" /\ Policy!Roles[k + 1] = "editor"
        \/ k = 2 /\ Policy!Roles[k] = "editor" /\ Policy!Roles[k + 1] = "admin"
        \/ k = 3 /\ Policy!Roles[k] = "admin" /\ Policy!Roles[k + 1] = "owner"
    BY DEF Policy!Roles
  <1>5. QED
    BY <1>1, <1>2, <1>3, <1>4 DEF Policy!UserMay

\* Nobody below an admin passes a restricted project without a grant.
Closed(r) ==
    /\ Policy!Restricted(r) /\ r.project.access = "none"
    /\ r.kind \in {"project", "note", "comment", "file", "task"}

LEMMA ClosedIsClosed ==
  ASSUME NEW r, Closed(r)
  PROVE  /\ ~Policy!projectCanRead(r) /\ ~Policy!projectCanEdit(r) /\ ~Policy!projectCanAdmin(r)
         /\ ~Policy!projectCanManage(r) /\ ~Policy!noteCanEdit(r) /\ ~Policy!noteCanComment(r)
         /\ ~Policy!resourceCanRead(r) /\ ~Policy!ReadAllowed(r)
         /\ ~Policy!exportSourceReadable(r)
         /\ ~Policy!editorDelegationAllowed(r)
  BY DEF Closed, Policy!projectCanRead, Policy!projectCanEdit, Policy!projectCanAdmin,
     Policy!projectCanManage, Policy!noteCanEdit, Policy!noteCanComment, Policy!resourceCanRead,
     Policy!ReadAllowed, Policy!exportSourceReadable, Policy!editorDelegationAllowed,
     Policy!Restricted, Policy!InProject, Policy!Access

LEMMA EditorsStayOut ==
  ASSUME NEW r, Closed(r), Loaded(r), r.action \in Policy!Actions, Policy!editorAllowed(r)
  PROVE  r.mine /\ r.action \in {<<"comment", "update">>, <<"comment", "delete">>}
  <1>1. PICK area, verb : r.action = <<area, verb>>
    BY DEF Policy!Actions
  <1>2. \/ <<area, verb>> \in {<<"note", "create">>, <<"export", "create">>, <<"task", "create">>,
                                <<"comment", "create">>, <<"file", "upload">>}
        \/ area = r.kind
    BY <1>1, KindIs DEF Loaded, Closed
  <1>3. r.kind \in {"project", "note", "comment", "file", "task"}
    BY DEF Closed
  <1>4. /\ ~Policy!projectCanRead(r) /\ ~Policy!projectCanEdit(r) /\ ~Policy!projectCanAdmin(r)
        /\ ~Policy!projectCanManage(r) /\ ~Policy!noteCanEdit(r) /\ ~Policy!noteCanComment(r)
        /\ ~Policy!resourceCanRead(r) /\ ~Policy!ReadAllowed(r)
        /\ ~Policy!exportSourceReadable(r)
        /\ ~Policy!editorDelegationAllowed(r)
    BY ClosedIsClosed
  <1>5. QED
    BY <1>1, <1>2, <1>3, <1>4, SameAction
    DEF Policy!editorAllowed, Policy!Always, Policy!Shared, Policy!OwnExport

LEMMA KeysStayOut ==
  ASSUME NEW r, Closed(r), NEW scopes
  PROVE  ~Policy!KeyMay(r, scopes)
  BY ClosedIsClosed DEF Policy!KeyMay, Policy!decideApiKey

LEMMA SessionKind ==
  ASSUME NEW a, a \in Policy!Actions, a[1] = "session"
  PROVE  Policy!Kinds(a) = {"session"}
  <1>1. PICK verb : a = <<"session", verb>>
    BY DEF Policy!Actions
  <1>2. QED
    BY <1>1, SameAction DEF Policy!Kinds, Policy!WorkspaceActions

LEMMA StaysClosed ==
  ASSUME Policy!PolicyTypeOK
  PROVE  Policy!RestrictedStaysClosed
  <1> SUFFICES ASSUME Closed(request)
               PROVE  /\ \A fresh \in BOOLEAN, role \in {"editor", "viewer"} :
                            Policy!UserMay(request, role, fresh) =>
                              /\ request.mine
                              /\ request.action \in {<<"comment", "update">>, <<"comment", "delete">>}
                      /\ \A scopes \in SUBSET {"read", "write", "admin"} :
                            ~Policy!KeyMay(request, scopes)
    BY DEF Policy!RestrictedStaysClosed, Closed
  <1>1. Loaded(request) /\ request.action \in Policy!Actions
    BY DEF Policy!PolicyTypeOK, Loaded
  <1>2. request.action[1] # "session"
    BY <1>1, SessionKind DEF Closed, Loaded
  <1>3. ASSUME NEW fresh \in BOOLEAN, NEW role \in {"editor", "viewer"},
               Policy!UserMay(request, role, fresh)
        PROVE  /\ request.mine
               /\ request.action \in {<<"comment", "update">>, <<"comment", "delete">>}
    <2>1. Policy!editorAllowed(request)
      BY <1>1, <1>2, <1>3, ViewersAreEditors DEF Policy!UserMay, Policy!decideUser
    <2>2. QED  BY <1>1, <2>1, EditorsStayOut
  <1>4. QED  BY <1>3, KeysStayOut

LEMMA ProjectIs ==
  ASSUME Policy!PolicyTypeOK
  PROVE  /\ request.kind \in Policy!Kinds(request.action)
         /\ request.project = NoProject \/ request.project \in
                [restricted : BOOLEAN, access : {"none", "viewer", "editor", "admin"}]
  BY DEF Policy!PolicyTypeOK, Policy!Facts, Policy!Projects, Policy!Accesses

LEMMA SearchAgrees ==
  ASSUME Policy!PolicyTypeOK
  PROVE  Policy!SearchAgreesWithPolicy
  <1> SUFFICES ASSUME request.action = <<"note", "read">>, Policy!Admissible(request),
                      NEW k \in DOMAIN Policy!Roles
               PROVE  Policy!UserMay(request, Policy!Roles[k], FALSE)
                        = Policy!canReadNote(Policy!Roles[k], request.project)
    BY DEF Policy!SearchAgreesWithPolicy
  <1>1. request.kind = "note"
    BY SameAction DEF Policy!PolicyTypeOK, Policy!Kinds, Policy!WorkspaceActions
  <1>2. Policy!resourceCanRead(request) <=>
           request.project = NoProject \/ ~request.project.restricted
             \/ request.project.access # "none"
    BY <1>1, ProjectIs DEF Policy!resourceCanRead, Policy!projectCanRead, Policy!Restricted,
       Policy!InProject, Policy!Access
  <1>3. Policy!ReadAllowed(request) <=> Policy!resourceCanRead(request)
    BY <1>1 DEF Policy!ReadAllowed
  <1>4. request.action \notin Policy!HighRisk /\ request.action[1] = "note"
        /\ request.action[2] = "read"
    BY SameAction DEF Policy!HighRisk
  <1>5. Policy!editorAllowed(request) <=> Policy!ReadAllowed(request)
    BY <1>4, SameAction DEF Policy!editorAllowed, Policy!AdminOnly, Policy!Always, Policy!IsRead,
       Policy!Shared
  <1>6. Policy!viewerAllowed(request) <=> Policy!ReadAllowed(request)
    BY <1>4, SameAction DEF Policy!viewerAllowed, Policy!AdminOnly, Policy!Always, Policy!IsRead
  <1>7. Policy!Roles[k] \in {"viewer", "editor", "admin", "owner"}
    BY DEF Policy!Roles
  <1>8. Policy!decideUser(request, "admin")
    BY SameAction DEF Policy!decideUser
  <1>9. Policy!decideUser(request, Policy!Roles[k]) <=>
           Policy!Roles[k] \in {"owner", "admin"} \/ Policy!resourceCanRead(request)
    BY <1>3, <1>5, <1>6, <1>7, <1>8 DEF Policy!decideUser
  <1>10. Policy!UserMay(request, Policy!Roles[k], FALSE) <=>
            Policy!canReadNote(Policy!Roles[k], request.project)
    BY <1>2, <1>4, <1>9 DEF Policy!UserMay, Policy!canReadNote
  <1>11. QED  BY <1>10 DEF Policy!UserMay, Policy!canReadNote

LEMMA PolicyTypeImplies ==
  ASSUME Policy!PolicyTypeOK
  PROVE  Policy!PolicyInv
  <1>1. Loaded(request) /\ request.action \in Policy!Actions
    BY DEF Policy!PolicyTypeOK, Loaded
  <1>2. Policy!RolesAreNested
    BY <1>1, Nested DEF Policy!RolesAreNested
  <1>3. QED
    BY <1>2, StaysClosed, SearchAgrees DEF Policy!PolicyInv

LEMMA PolicyInitTyped == Policy!PolicyInit => Policy!PolicyTypeOK
  <1> SUFFICES ASSUME Policy!PolicyInit PROVE Policy!PolicyTypeOK
    OBVIOUS
  <1>1. PICK a \in Policy!Actions : \E k \in Policy!Kinds(a) : request \in Policy!Facts(a, k)
    BY DEF Policy!PolicyInit
  <1>2. PICK k \in Policy!Kinds(a) : request \in Policy!Facts(a, k)
    BY <1>1
  <1>3. request.action = a /\ request.kind = k
    BY <1>2 DEF Policy!Facts
  <1>4. QED  BY <1>2, <1>3 DEF Policy!PolicyTypeOK

\* A change of sharing, of restriction or of a grant leaves the rest of the facts alone.
Refacted(r, s) ==
    /\ s.action = r.action /\ s.kind = r.kind /\ s.valid = r.valid /\ s.current = r.current
    /\ s.mine = r.mine /\ s.noteMine = r.noteMine /\ s.target = r.target
    /\ s.readable = r.readable /\ s.status = r.status /\ s.delegation = r.delegation

LEMMA SharedIs ==
  ASSUME Policy!PolicyTypeOK, NEW permission \in Policy!Shares, Policy!shareNote(permission)
  PROVE  /\ Policy!PolicyTypeOK' /\ Refacted(request, request')
         /\ request'.project = request.project
  BY DEF Policy!PolicyTypeOK, Policy!Facts, Policy!shareNote, Refacted, Policy!HasNote

\* The facts of a request with another project.
LEMMA ProjectSet ==
  ASSUME Policy!PolicyTypeOK, Policy!InProject(request),
         NEW p \in [restricted : BOOLEAN, access : {"none", "viewer", "editor", "admin"}],
         request' = [request EXCEPT !.project = p]
  PROVE  /\ Policy!PolicyTypeOK' /\ Refacted(request, request') /\ request'.share = request.share
         /\ Policy!InProject(request') /\ request'.project = p
  <1>1. request.kind \in {"project", "note", "comment", "file", "task", "export"}
    BY DEF Policy!PolicyTypeOK, Policy!Facts, Policy!InProject
  <1>2. p \in Policy!Projects
    BY DEF Policy!Projects, Policy!Accesses
  <1>3. /\ request'.project = p /\ Refacted(request, request') /\ request'.share = request.share
        /\ request' \in Policy!Facts(request.action, request.kind)
    BY <1>1, <1>2 DEF Policy!PolicyTypeOK, Policy!Facts, Refacted
  <1>4. Policy!PolicyTypeOK'
    BY <1>3 DEF Policy!PolicyTypeOK, Refacted
  <1>5. QED
    BY <1>3, <1>4, ProjectAssumption DEF Policy!InProject

LEMMA RestrictIs ==
  ASSUME Policy!PolicyTypeOK, Policy!restrictProject
  PROVE  /\ Policy!PolicyTypeOK' /\ Refacted(request, request') /\ request'.share = request.share
         /\ Policy!InProject(request) /\ Policy!InProject(request')
         /\ request'.project.restricted = TRUE /\ request'.project.access = request.project.access
  <1> DEFINE p == [request.project EXCEPT !.restricted = TRUE]
  <1>1. Policy!InProject(request) /\ request' = [request EXCEPT !.project = p]
    BY DEF Policy!restrictProject
  <1>2. request.project \in [restricted : BOOLEAN, access : {"none", "viewer", "editor", "admin"}]
    BY <1>1, ProjectIs DEF Policy!InProject
  <1>3. /\ p \in [restricted : BOOLEAN, access : {"none", "viewer", "editor", "admin"}]
        /\ p.restricted = TRUE /\ p.access = request.project.access
    BY <1>2
  <1> HIDE DEF p
  <1>4. QED  BY <1>1, <1>3, ProjectSet

LEMMA RevokeIs ==
  ASSUME Policy!PolicyTypeOK, Policy!revokeAccess
  PROVE  /\ Policy!PolicyTypeOK' /\ Refacted(request, request') /\ request'.share = request.share
         /\ Policy!InProject(request) /\ Policy!InProject(request')
         /\ request'.project.restricted = request.project.restricted
         /\ request'.project.access = "none"
  <1> DEFINE p == [request.project EXCEPT !.access = "none"]
  <1>1. Policy!InProject(request) /\ request' = [request EXCEPT !.project = p]
    BY DEF Policy!revokeAccess
  <1>2. request.project \in [restricted : BOOLEAN, access : {"none", "viewer", "editor", "admin"}]
    BY <1>1, ProjectIs DEF Policy!InProject
  <1>3. /\ p \in [restricted : BOOLEAN, access : {"none", "viewer", "editor", "admin"}]
        /\ p.restricted = request.project.restricted /\ p.access = "none"
    BY <1>2
  <1> HIDE DEF p
  <1>4. QED  BY <1>1, <1>3, ProjectSet

\* What is allowed with a project restricted, or a grant revoked, was allowed before.
Tighter(r, s) ==
    /\ Refacted(r, s) /\ s.share = r.share
    /\ Policy!projectCanRead(s) => Policy!projectCanRead(r)
    /\ Policy!projectCanEdit(s) => Policy!projectCanEdit(r)
    /\ Policy!projectCanAdmin(s) => Policy!projectCanAdmin(r)
    /\ Policy!projectCanManage(s) => Policy!projectCanManage(r)
    /\ Policy!Restricted(r) => Policy!Restricted(s)

LEMMA RestrictTightens ==
  ASSUME Policy!PolicyTypeOK, Policy!restrictProject \/ Policy!revokeAccess
  PROVE  Tighter(request, request')
  BY RestrictIs, RevokeIs, ProjectIs DEF Tighter, Policy!projectCanRead, Policy!projectCanEdit, Policy!projectCanAdmin,
     Policy!projectCanManage, Policy!Restricted, Policy!InProject, Policy!Access

LEMMA TighterOpensNothing ==
  ASSUME NEW r, NEW s, Tighter(r, s), NEW role \in {"editor", "viewer"}, NEW fresh \in BOOLEAN,
         Policy!UserMay(s, role, fresh)
  PROVE  Policy!UserMay(r, role, fresh)
  <1>1. /\ Policy!noteCanEdit(s) => Policy!noteCanEdit(r)
        /\ Policy!noteCanComment(s) => Policy!noteCanComment(r)
        /\ Policy!resourceCanRead(s) => Policy!resourceCanRead(r)
        /\ Policy!OwnExport(s) => Policy!OwnExport(r)
    BY DEF Tighter, Refacted, Policy!noteCanEdit, Policy!noteCanComment, Policy!resourceCanRead,
       Policy!OwnExport, Policy!exportSourceReadable, Policy!HasNote, Policy!IsNoteMine
  <1>2. /\ Policy!ReadAllowed(s) => Policy!ReadAllowed(r)
        /\ Policy!NoteCapped(s) => Policy!NoteCapped(r)
    BY <1>1 DEF Tighter, Refacted, Policy!ReadAllowed, Policy!NoteCapped
  <1>3. /\ Policy!delegationIsValid(s) => Policy!delegationIsValid(r)
        /\ Policy!editorDelegationAllowed(s) => Policy!editorDelegationAllowed(r)
    BY <1>1, <1>2 DEF Tighter, Refacted, Policy!delegationIsValid, Policy!editorDelegationAllowed
  <1>4. Policy!Admissible(s) => Policy!Admissible(r)
    BY <1>3 DEF Tighter, Refacted, Policy!Admissible
  <1>5. Policy!editorAllowed(s) => Policy!editorAllowed(r)
    BY <1>1, <1>2, <1>3 DEF Tighter, Refacted, Policy!editorAllowed
  <1>6. Policy!viewerAllowed(s) => Policy!viewerAllowed(r)
    BY <1>1, <1>2 DEF Tighter, Refacted, Policy!viewerAllowed
  <1>7. QED
    BY <1>4, <1>5, <1>6 DEF Tighter, Refacted, Policy!UserMay, Policy!decideUser

\* What a share opens needs the right to edit in the project.
LEMMA ShareOpensInsideOnly ==
  ASSUME Policy!PolicyTypeOK, NEW permission \in Policy!Shares, Policy!shareNote(permission),
         NEW role \in {"editor", "viewer"}, NEW fresh \in BOOLEAN,
         Policy!UserMay(request', role, fresh), ~Policy!UserMay(request, role, fresh)
  PROVE  request'.share # request.share /\ Policy!projectCanEdit(request)
  <1> DEFINE r == request
             s == request'
  <1>1. Refacted(r, s) /\ s.project = r.project
    BY SharedIs
  <1>2. \A q, t : q.project = t.project =>
           /\ Policy!projectCanRead(q) <=> Policy!projectCanRead(t)
           /\ Policy!projectCanEdit(q) <=> Policy!projectCanEdit(t)
           /\ Policy!projectCanAdmin(q) <=> Policy!projectCanAdmin(t)
           /\ Policy!projectCanManage(q) <=> Policy!projectCanManage(t)
           /\ Policy!Restricted(q) <=> Policy!Restricted(t)
    BY DEF Policy!projectCanRead, Policy!projectCanEdit, Policy!projectCanAdmin,
       Policy!projectCanManage, Policy!Restricted, Policy!InProject, Policy!Access
  <1>3. ASSUME s.share = r.share \/ ~Policy!projectCanEdit(r) PROVE FALSE
    <2> HIDE DEF r, s
    <2>1. /\ Policy!noteCanEdit(s) => Policy!noteCanEdit(r)
          /\ Policy!noteCanComment(s) => Policy!noteCanComment(r)
          /\ Policy!resourceCanRead(s) => Policy!resourceCanRead(r)
          /\ Policy!OwnExport(s) => Policy!OwnExport(r)
      BY <1>1, <1>2, <1>3 DEF Refacted, Policy!noteCanEdit, Policy!noteCanComment, Policy!resourceCanRead,
         Policy!OwnExport, Policy!exportSourceReadable, Policy!HasNote, Policy!IsNoteMine
    <2>2. /\ Policy!ReadAllowed(s) => Policy!ReadAllowed(r)
          /\ Policy!NoteCapped(s) => Policy!NoteCapped(r)
      BY <1>1, <1>2, <2>1 DEF Refacted, Policy!ReadAllowed, Policy!NoteCapped
    <2>3. /\ Policy!delegationIsValid(s) => Policy!delegationIsValid(r)
          /\ Policy!editorDelegationAllowed(s) => Policy!editorDelegationAllowed(r)
      BY <1>1, <1>2, <2>1, <2>2 DEF Refacted, Policy!delegationIsValid, Policy!editorDelegationAllowed
    <2>4. Policy!Admissible(s) => Policy!Admissible(r)
      BY <1>1, <2>3 DEF Refacted, Policy!Admissible
    <2>5. Policy!editorAllowed(s) => Policy!editorAllowed(r)
      BY <1>1, <1>2, <2>1, <2>2, <2>3 DEF Refacted, Policy!editorAllowed
    <2>6. Policy!viewerAllowed(s) => Policy!viewerAllowed(r)
      BY <1>1, <2>1, <2>2 DEF Refacted, Policy!viewerAllowed
    <2>7. Policy!UserMay(s, role, fresh) => Policy!UserMay(r, role, fresh)
      BY <1>1, <2>4, <2>5, <2>6 DEF Refacted, Policy!UserMay, Policy!decideUser
    <2>8. QED  BY <2>7 DEF r, s
  <1>4. QED  BY <1>3

PolicyTyped == Is("policy") => Policy!PolicyTypeOK

LEMMA PolicyStep ==
  PolicyTyped /\ [MCNext]_mcVars =>
     PolicyTyped' /\ (UNCHANGED request \/ (Policy!PolicyTypeOK /\ Policy!PolicyNext))
  <1> SUFFICES ASSUME PolicyTyped, [MCNext]_mcVars
               PROVE  /\ PolicyTyped'
                      /\ UNCHANGED request \/ (Policy!PolicyTypeOK /\ Policy!PolicyNext)
    OBVIOUS
  <1>1. subject' = subject /\ (UNCHANGED request \/ (Is("policy") /\ Policy!PolicyNext))
    BY DEF MCNext, mcVars
  <1>2. CASE UNCHANGED request
    BY <1>1, <1>2 DEF PolicyTyped, Is, Policy!PolicyTypeOK
  <1>3. CASE Is("policy") /\ Policy!PolicyNext
    <2>1. Policy!PolicyTypeOK
      BY <1>3 DEF PolicyTyped
    <2>2. Policy!PolicyTypeOK'
      BY <1>3, <2>1, SharedIs, RestrictIs, RevokeIs DEF Policy!PolicyNext
    <2>3. QED  BY <1>3, <2>1, <2>2 DEF PolicyTyped
  <1>4. QED  BY <1>1, <1>2, <1>3

\* Whatever a member is asked to decide about, the decisions agree: a role may what a lesser
\* one may, nobody passes a restricted project without a grant, a key may what its scope and
\* its owner may, and search shows what reading allows; for every matrix of verbs
\* (authorization-policy.service.ts).
THEOREM PolicyAgrees == MCSpec => []PolicyInv
  <1>1. MCInit => PolicyTyped
    BY PolicyInitTyped DEF MCInit, PolicyTyped
  <1>2. PolicyTyped /\ [MCNext]_mcVars => PolicyTyped'
    BY PolicyStep
  <1>3. PolicyTyped => PolicyInv
    BY PolicyTypeImplies DEF PolicyTyped, PolicyInv
  <1> QED  BY <1>1, <1>2, <1>3, PTL DEF MCSpec

\* Restricting a project or revoking a grant lets nobody do what he could not do before: only
\* a share does, and only inside a project its maker can edit (authorization-policy.service.ts).
THEOREM ClosingOpensNothing == MCSpec => NothingOpensByClosing
  <1> DEFINE Opening == 
        request' # request => \A fresh \in BOOLEAN, role \in {"editor", "viewer"} :
          /\ Policy!UserMay(request', role, fresh)
          /\ ~Policy!UserMay(request, role, fresh)
          => request'.share # request.share /\ Policy!projectCanEdit(request)
  <1>1. MCInit => PolicyTyped
    BY PolicyInitTyped DEF MCInit, PolicyTyped
  <1>2. PolicyTyped /\ [MCNext]_mcVars => PolicyTyped'
    BY PolicyStep
  <1>3. PolicyTyped /\ [MCNext]_mcVars => [Opening]_request
    <2> SUFFICES ASSUME Policy!PolicyTypeOK, Policy!PolicyNext,
                        NEW fresh \in BOOLEAN, NEW role \in {"editor", "viewer"},
                        Policy!UserMay(request', role, fresh), ~Policy!UserMay(request, role, fresh)
                 PROVE  request'.share # request.share /\ Policy!projectCanEdit(request)
      BY PolicyStep
    <2>1. CASE \E permission \in Policy!Shares \ {"none"} : Policy!shareNote(permission)
      BY <2>1, ShareOpensInsideOnly
    <2>2. CASE Policy!restrictProject \/ Policy!revokeAccess
      BY <2>2, RestrictTightens, TighterOpensNothing
    <2>3. QED  BY <2>1, <2>2 DEF Policy!PolicyNext
  <1> HIDE DEF Opening
  <1>4. [][Opening]_request => NothingOpensByClosing
    BY DEF NothingOpensByClosing, Policy!NothingOpensByClosing, Opening
  <1> QED  BY <1>1, <1>2, <1>3, <1>4, PTL DEF MCSpec

----------------------------------------------------------------------------
(* Notes: what is below a note, and what is above it.                      *)

\* A set of numbers has a least one.
LEMMA LeastElement ==
  ASSUME NEW T \in SUBSET Nat, T # {}
  PROVE  \E x \in T : \A y \in T : x <= y
  <1>1. \E x \in T : \A y \in T : ~(<<y, x>> \in OpToRel(<, Nat))
    BY WFMin, NatLessThanWellFounded, Zenon
  <1>2. PICK x \in T : \A y \in T : ~(<<y, x>> \in OpToRel(<, Nat))
    BY <1>1
  <1>3. ASSUME NEW y \in T PROVE x <= y
    <2>1. x \in Nat /\ y \in Nat
      OBVIOUS
    <2>2. ~(y < x)
      BY <1>2, <2>1 DEF OpToRel
    <2> QED  BY <2>1, <2>2
  <1> QED  BY <1>3

Under(ids) == {m \in Hierarchy!Rows : note[m].parent \in ids}
Spread(ids) ==
    {m \in Notes : \A S \in SUBSET Notes : ids \subseteq S /\ Under(S) \subseteq S => m \in S}

LEMMA SpreadIs ==
  ASSUME NEW ids \in SUBSET Notes
  PROVE  /\ ids \subseteq Spread(ids) /\ Spread(ids) \subseteq Notes
         /\ Under(Spread(ids)) \subseteq Spread(ids)
         /\ Under(ids) \subseteq ids => Spread(ids) = ids
         /\ ids \cup Under(ids) \in SUBSET Notes /\ Spread(ids \cup Under(ids)) = Spread(ids)
  <1>1. ids \subseteq Spread(ids) /\ Spread(ids) \subseteq Notes
    BY DEF Spread
  <1>2. \A S \in SUBSET Notes : Under(S) \subseteq Notes
    BY DEF Under, Hierarchy!Rows
  <1>3. \A S, T : S \subseteq T => Under(S) \subseteq Under(T)
    BY DEF Under
  <1>4. Under(Spread(ids)) \subseteq Spread(ids)
    <2>1. ASSUME NEW m \in Under(Spread(ids)), NEW S \in SUBSET Notes, ids \subseteq S, Under(S) \subseteq S
          PROVE  m \in S
      <3>1. Spread(ids) \subseteq S
        BY <2>1 DEF Spread
      <3> QED  BY <1>3, <2>1, <3>1
    <2>2. Under(Spread(ids)) \subseteq Notes
      BY <1>1, <1>2
    <2> QED  BY <2>1, <2>2 DEF Spread
  <1>5. ASSUME Under(ids) \subseteq ids PROVE Spread(ids) = ids
    BY <1>1, <1>5 DEF Spread
  <1>6. ids \cup Under(ids) \in SUBSET Notes
    BY <1>2
  <1>7. \A S \in SUBSET Notes : Under(S) \subseteq S =>
           (ids \subseteq S <=> ids \cup Under(ids) \subseteq S)
    BY <1>3
  <1>8. Spread(ids \cup Under(ids)) = Spread(ids)
    BY <1>7 DEF Spread
  <1> QED  BY <1>1, <1>4, <1>5, <1>6, <1>8

\* Of some sets of notes, one is in no other.
LEMMA GreatestSet ==
  ASSUME NEW Sets \in SUBSET (SUBSET Notes), Sets # {}
  PROVE  \E ids \in Sets : \A more \in Sets : ids \subseteq more => ids = more
  <1> DEFINE Size(ids) == Cardinality(Notes \ ids)
             sizes == {Size(ids) : ids \in Sets}
  <1>1. \A ids \in SUBSET Notes : Size(ids) \in Nat
    BY FS_Difference, FS_CardinalityType, HierarchyAssumption
  <1>2. \A ids \in SUBSET Notes, more \in SUBSET Notes :
           ids \subseteq more /\ ids # more => Size(more) < Size(ids)
    <2> SUFFICES ASSUME NEW ids \in SUBSET Notes, NEW more \in SUBSET Notes,
                        ids \subseteq more, ids # more
                 PROVE  Size(more) < Size(ids)
      OBVIOUS
    <2>1. IsFiniteSet(Notes \ ids) /\ Notes \ more \subseteq Notes \ ids /\ Notes \ more # Notes \ ids
      BY FS_Difference, HierarchyAssumption
    <2>2. Size(more) <= Size(ids) /\ Size(more) # Size(ids)
      BY <2>1, FS_Subset
    <2>3. \A a, b \in Nat : a <= b /\ a # b => a < b
      OBVIOUS
    <2> HIDE DEF Size
    <2> QED  BY <1>1, <2>2, <2>3
  <1> HIDE DEF Size
  <1>3. sizes \in SUBSET Nat /\ sizes # {}
    BY <1>1
  <1>4. PICK least \in sizes : \A y \in sizes : least <= y
    <2> HIDE DEF sizes
    <2> QED  BY <1>3, LeastElement
  <1>5. PICK ids \in Sets : least = Size(ids)
    BY <1>4
  <1>6. ASSUME NEW more \in Sets, ids \subseteq more, ids # more PROVE FALSE
    <2>1. Size(more) \in sizes /\ Size(more) < least /\ Size(more) \in Nat /\ least \in Nat
      BY <1>1, <1>2, <1>5, <1>6
    <2> QED  BY <1>4, <2>1
  <1> QED  BY <1>6

LEMMA SubtreeIs ==
  ASSUME NEW n \in Notes
  PROVE  Hierarchy!noteSubtree(n) = Spread({n})
  <1> DEFINE Step(f) == [ids \in SUBSET Notes |->
                            IF Under(ids) \subseteq ids THEN ids ELSE f[ids \cup Under(ids)]]
             below == CHOOSE f : f = Step(f)
             whole == [ids \in SUBSET Notes |-> Spread(ids)]
  <1>1. Hierarchy!noteSubtree(n) = below[{n}]
    BY DEF Hierarchy!noteSubtree, Under
  <1>2. whole = Step(whole)
    <2>1. ASSUME NEW ids \in SUBSET Notes
          PROVE  Spread(ids) = IF Under(ids) \subseteq ids THEN ids ELSE whole[ids \cup Under(ids)]
      <3>1. ids \cup Under(ids) \in SUBSET Notes /\ Spread(ids \cup Under(ids)) = Spread(ids)
            /\ (Under(ids) \subseteq ids => Spread(ids) = ids)
        BY SpreadIs
      <3> QED  BY <3>1
    <2> QED  BY <2>1
  <1>3. below = Step(below)
    <2> HIDE DEF whole, Step
    <2>1. \E f : f = Step(f)
      BY <1>2
    <2> QED  BY <2>1
  <1> HIDE DEF below
  <1>4. ASSUME NEW ids \in SUBSET Notes
        PROVE  below[ids] = IF Under(ids) \subseteq ids THEN ids ELSE below[ids \cup Under(ids)]
    BY <1>3
  <1> DEFINE Wrong == {ids \in SUBSET Notes : below[ids] # Spread(ids)}
  <1>5. Wrong = {}
    <2> SUFFICES ASSUME Wrong # {} PROVE FALSE
      OBVIOUS
    <2>1. PICK ids \in Wrong : \A more \in Wrong : ids \subseteq more => ids = more
      <3> HIDE DEF Wrong
      <3>1. Wrong \in SUBSET (SUBSET Notes)
        BY DEF Wrong
      <3> QED  BY <3>1, GreatestSet
    <2>2. ids \in SUBSET Notes /\ below[ids] # Spread(ids)
      BY <2>1
    <2>3. /\ Under(ids) \subseteq ids => Spread(ids) = ids
          /\ ids \cup Under(ids) \in SUBSET Notes /\ Spread(ids \cup Under(ids)) = Spread(ids)
      BY <2>2, SpreadIs
    <2> QED  BY <1>4, <2>1, <2>2, <2>3
  <1> QED  BY <1>1, <1>5

Parented == \A n \in Notes : note[n].parent \in Notes \cup {Top}
Above(ids) == {note[m].parent : m \in ids} \ {Top}

\* The walk upwards begins with the note itself.
LEMMA AncestorsBegin ==
  ASSUME Parented, NEW n \in Notes
  PROVE  n \in Hierarchy!Ancestors(n)
  <1> DEFINE Step(f) == [ids \in SUBSET Notes |->
                            IF Above(ids) \subseteq ids THEN ids ELSE f[ids \cup Above(ids)]]
             above == CHOOSE f : f = Step(f)
             Complete(ids) == {S \in SUBSET Notes : ids \subseteq S /\ Above(S) \subseteq S}
             Reachable(ids) == {m \in Notes : \A S \in Complete(ids) : m \in S}
             whole == [ids \in SUBSET Notes |-> Reachable(ids)]
  <1>0. /\ \A S \in SUBSET Notes : Above(S) \in SUBSET Notes
        /\ \A S, T : S \subseteq T => Above(S) \subseteq Above(T)
    BY DEF Above, Parented
  <1>1. Hierarchy!Ancestors(n) = above[{n}]
    <2>1. {n} \ {Top} = {n}
      BY HierarchyAssumption
    <2>2. Hierarchy!Ancestors(n) = above[{n} \ {Top}]
      BY DEF Hierarchy!Ancestors, Above
    <2> HIDE DEF above
    <2> QED  BY <2>1, <2>2
  <1>2. ASSUME NEW ids \in SUBSET Notes
        PROVE  /\ Above(ids) \subseteq ids => Reachable(ids) = ids
               /\ ids \cup Above(ids) \in SUBSET Notes
               /\ Reachable(ids \cup Above(ids)) = Reachable(ids)
               /\ ids \subseteq Reachable(ids)
    <2>1. Complete(ids) = Complete(ids \cup Above(ids))
      BY <1>0
    <2>2. Above(ids) \subseteq ids => ids \in Complete(ids)
      OBVIOUS
    <2>3. \A S \in Complete(ids) : ids \subseteq S
      OBVIOUS
    <2> HIDE DEF Complete
    <2> QED  BY <1>0, <2>1, <2>2, <2>3
  <1> HIDE DEF Reachable
  <1>3. whole = Step(whole)
    <2>1. ASSUME NEW ids \in SUBSET Notes
          PROVE  Reachable(ids) = IF Above(ids) \subseteq ids THEN ids ELSE whole[ids \cup Above(ids)]
      BY <1>2
    <2> QED  BY <2>1
  <1>4. above = Step(above)
    <2> HIDE DEF whole, Step
    <2>1. \E f : f = Step(f)
      BY <1>3
    <2> QED  BY <2>1
  <1> HIDE DEF above
  <1>5. ASSUME NEW ids \in SUBSET Notes
        PROVE  above[ids] = IF Above(ids) \subseteq ids THEN ids ELSE above[ids \cup Above(ids)]
    BY <1>4
  <1> DEFINE Wrong == {ids \in SUBSET Notes : above[ids] # Reachable(ids)}
  <1>6. Wrong = {}
    <2> SUFFICES ASSUME Wrong # {} PROVE FALSE
      OBVIOUS
    <2>1. PICK ids \in Wrong : \A more \in Wrong : ids \subseteq more => ids = more
      <3> HIDE DEF Wrong
      <3>1. Wrong \in SUBSET (SUBSET Notes)
        BY DEF Wrong
      <3> QED  BY <3>1, GreatestSet
    <2>2. ids \in SUBSET Notes /\ above[ids] # Reachable(ids)
      BY <2>1
    <2>3. /\ Above(ids) \subseteq ids => Reachable(ids) = ids
          /\ ids \cup Above(ids) \in SUBSET Notes /\ Reachable(ids \cup Above(ids)) = Reachable(ids)
      BY <1>2, <2>2
    <2>4. above[ids] = IF Above(ids) \subseteq ids THEN ids ELSE above[ids \cup Above(ids)]
      BY <1>5, <2>2
    <2>5. ~(Above(ids) \subseteq ids)
      BY <2>2, <2>3, <2>4
    <2>6. ids \cup Above(ids) \in Wrong /\ ids \cup Above(ids) # ids
      BY <2>2, <2>3, <2>4, <2>5
    <2> QED  BY <2>1, <2>6
  <1>7. above[{n}] = Reachable({n}) /\ n \in Reachable({n})
    BY <1>2, <1>6
  <1> QED  BY <1>1, <1>7

----------------------------------------------------------------------------
(* Notes: what one deletion took, in a table of the notes.                 *)

Note == [row : {"unused", "kept", "purged"}, parent : Notes \cup {Top},
         folder : Folders \cup {Unfiled}, batch : 0..MaxAsked]

Trashed(tab, m) == tab[m].row = "kept" /\ tab[m].batch # 0
Alive(tab, m) == tab[m].row = "kept" /\ tab[m].batch = 0
Batch(tab, b) == {m \in Notes : Trashed(tab, m) /\ tab[m].batch = b}

\* Below a note, along notes that were in the trash when the batch was taken, or came with it.
Lines(tab, b) ==
    {S \in SUBSET Notes : \A m \in Notes :
        Trashed(tab, m) /\ tab[m].batch <= b /\ tab[m].parent \in S => m \in S}
Stem(tab, b, r) == {m \in Notes : \A S \in Lines(tab, b) : r \in S => m \in S}

\* What a deletion took hangs from one note.
Rooted(tab, b) ==
    Batch(tab, b) # {} => \E r \in Batch(tab, b) : Batch(tab, b) \subseteq Stem(tab, b, r)

LEMMA NotesAre ==
  ASSUME NEW tab \in [Notes -> Note], NEW m \in Notes
  PROVE  tab[m] \in Note /\ tab[m].batch \in Nat /\ tab[m].parent \in Notes \cup {Top}
  <1>1. tab[m] \in Note
    OBVIOUS
  <1>2. tab[m].batch \in 0..MaxAsked /\ tab[m].parent \in Notes \cup {Top}
    BY <1>1 DEF Note
  <1> QED  BY <1>1, <1>2, HierarchyAssumption

\* What hangs from a note is within every line of it.
LEMMA StemWithin ==
  ASSUME NEW tab, NEW b, NEW r, NEW below, below \subseteq Stem(tab, b, r),
         NEW line \in Lines(tab, b), r \in line
  PROVE  below \subseteq line
  BY DEF Stem

LEMMA StemIs ==
  ASSUME NEW tab \in [Notes -> Note], NEW b \in Nat, NEW r \in Notes
  PROVE  /\ r \in Stem(tab, b, r) /\ Stem(tab, b, r) \in Lines(tab, b)
         /\ \A m \in Stem(tab, b, r) \ {r} :
               Trashed(tab, m) /\ tab[m].batch <= b /\ tab[m].parent \in Stem(tab, b, r)
  <1> DEFINE stem == Stem(tab, b, r)
  <1>1. r \in stem /\ stem \in SUBSET Notes
    BY DEF Stem
  <1>2. stem \in Lines(tab, b)
    <2>1. ASSUME NEW m \in Notes, Trashed(tab, m), tab[m].batch <= b, tab[m].parent \in stem,
                 NEW S \in Lines(tab, b), r \in S
          PROVE  m \in S
      <3>1. tab[m].parent \in S
        BY <2>1 DEF Stem
      <3> QED  BY <2>1, <3>1 DEF Lines
    <2>2. \A m \in Notes : Trashed(tab, m) /\ tab[m].batch <= b /\ tab[m].parent \in stem => m \in stem
      BY <2>1 DEF Stem
    <2> QED  BY <1>1, <2>2 DEF Lines
  <1>3. ASSUME NEW m \in stem \ {r}
        PROVE  Trashed(tab, m) /\ tab[m].batch <= b /\ tab[m].parent \in stem
    <2> SUFFICES ASSUME ~(Trashed(tab, m) /\ tab[m].batch <= b /\ tab[m].parent \in stem) PROVE FALSE
      OBVIOUS
    <2>1. \A k \in Notes : Trashed(tab, k) /\ tab[k].batch <= b /\ tab[k].parent \in stem => k \in stem
      BY <1>2 DEF Lines
    <2> HIDE DEF stem
    <2>2. \A k \in Notes : Trashed(tab, k) /\ tab[k].batch <= b /\ tab[k].parent \in stem \ {m} =>
             k \in stem \ {m}
      BY <2>1
    <2>3. stem \ {m} \in Lines(tab, b)
      BY <1>1, <2>2 DEF Lines
    <2>4. r \in stem \ {m}
      BY <1>1, <1>3
    <2>5. m \in stem \ {m}
      BY <1>3, <2>3, <2>4 DEF stem, Stem
    <2> QED  BY <2>5
  <1> QED  BY <1>1, <1>2, <1>3

\* Whatever else a deletion took lies below something in the trash.
LEMMA BatchIsBelow ==
  ASSUME NEW tab \in [Notes -> Note], NEW b \in Nat, NEW r \in Batch(tab, b),
         NEW m \in Batch(tab, b), Batch(tab, b) \subseteq Stem(tab, b, r), m # r
  PROVE  tab[m].parent \in Notes /\ Trashed(tab, tab[m].parent)
  <1>1. r \in Notes /\ m \in Stem(tab, b, r) \ {r} /\ Trashed(tab, r)
    BY DEF Batch
  <1>2. tab[m].parent \in Stem(tab, b, r)
    BY <1>1, StemIs
  <1>3. tab[m].parent = r \/ Trashed(tab, tab[m].parent)
    BY <1>1, <1>2, StemIs
  <1> QED  BY <1>1, <1>2, <1>3 DEF Stem

\* Steps that leave the trash as it is leave the batches hanging as they hang.
LEMMA RootedKept ==
  ASSUME NEW tab \in [Notes -> Note], NEW new \in [Notes -> Note], NEW b \in Nat, Rooted(tab, b),
         \A m \in Notes : /\ Trashed(tab, m) <=> Trashed(new, m)
                          /\ Trashed(tab, m) => /\ new[m].batch = tab[m].batch
                                                /\ new[m].parent = tab[m].parent
  PROVE  Rooted(new, b)
  <1>1. Batch(new, b) = Batch(tab, b)
    BY DEF Batch
  <1>2. Lines(new, b) = Lines(tab, b)
    BY DEF Lines
  <1> QED  BY <1>1, <1>2 DEF Rooted, Stem

\* A deletion takes notes that hang from one of them.
Hangs(tab, ids, id) ==
    \A S \in SUBSET Notes : id \in S /\ (\A m \in ids : tab[m].parent \in S => m \in S) => ids \subseteq S

LEMMA RootedByTrash ==
  ASSUME NEW tab \in [Notes -> Note], NEW a \in Nat \ {0}, a <= MaxAsked, NEW b \in Nat, Rooted(tab, b),
         \A m \in Notes : tab[m].row = "kept" => tab[m].batch < a,
         NEW ids \in SUBSET Notes, NEW id \in ids, Alive(tab, id), Hangs(tab, ids, id),
         \A m \in ids : tab[m].row = "kept",
         NEW new, new = [n \in Notes |-> IF n \in ids /\ Alive(tab, n)
                                          THEN [tab[n] EXCEPT !.batch = a] ELSE tab[n]]
  PROVE  Rooted(new, b)
  <1>1. \A m \in Notes : tab[m] \in Note /\ tab[m].batch \in Nat
    BY NotesAre
  <1>2. \A m \in Notes : /\ new[m].parent = tab[m].parent /\ new[m].row = tab[m].row
                         /\ new[m].batch = IF m \in ids /\ Alive(tab, m) THEN a ELSE tab[m].batch
    BY <1>1 DEF Note
  <1>3. CASE b < a
    <2>1. \A m \in Notes : Trashed(tab, m) /\ tab[m].batch <= b <=> Trashed(new, m) /\ new[m].batch <= b
      BY <1>1, <1>2, <1>3 DEF Trashed, Alive
    <2>2. Lines(new, b) = Lines(tab, b)
      BY <1>2, <2>1 DEF Lines
    <2>3. Batch(new, b) = Batch(tab, b)
      BY <1>1, <1>2, <1>3 DEF Batch, Trashed, Alive
    <2> QED  BY <2>2, <2>3 DEF Rooted, Stem
  <1>4. CASE b = a
    <2>1. Batch(new, b) = {m \in ids : Alive(tab, m)}
      BY <1>1, <1>2, <1>4 DEF Batch, Trashed, Alive
    <2>2. ASSUME NEW S \in Lines(new, b), id \in S PROVE ids \subseteq S
      <3>1. \A m \in ids : Trashed(new, m) /\ new[m].batch <= b
        BY <1>1, <1>2, <1>4 DEF Trashed, Alive
      <3>2. \A m \in ids : tab[m].parent \in S => m \in S
        BY <1>2, <2>2, <3>1 DEF Lines
      <3>3. S \in SUBSET Notes
        BY DEF Lines
      <3> QED  BY <2>2, <3>2, <3>3 DEF Hangs
    <2>3. id \in Batch(new, b) /\ Batch(new, b) \subseteq Stem(new, b, id)
      BY <2>1, <2>2 DEF Stem
    <2> QED  BY <2>3 DEF Rooted
  <1>5. CASE b > a
    <2>1. Batch(new, b) = {}
      BY <1>1, <1>2, <1>5 DEF Batch, Trashed
    <2> QED  BY <2>1 DEF Rooted
  <1> QED  BY <1>3, <1>4, <1>5

\* A restoration takes a whole batch, whose root is below nothing in the trash, so that none of
\* the others hangs from it.
LEMMA RootedByRestore ==
  ASSUME NEW tab \in [Notes -> Note], NEW b \in Nat \ {0}, NEW c \in Nat, Rooted(tab, c),
         NEW r \in Batch(tab, b), Batch(tab, b) \subseteq Stem(tab, b, r),
         tab[r].parent \in Notes => ~Trashed(tab, tab[r].parent),
         NEW new, new = [n \in Notes |-> IF n \in Batch(tab, b) THEN [tab[n] EXCEPT !.batch = 0]
                                                                 ELSE tab[n]]
  PROVE  Rooted(new, c)
  <1>1. \A m \in Notes : tab[m] \in Note /\ tab[m].batch \in Nat
    BY NotesAre
  <1>2. \A m \in Notes : /\ new[m].parent = tab[m].parent /\ new[m].row = tab[m].row
                         /\ new[m].batch = IF m \in Batch(tab, b) THEN 0 ELSE tab[m].batch
    BY <1>1 DEF Note
  <1>3. \A m \in Notes : Trashed(new, m) <=> Trashed(tab, m) /\ tab[m].batch # b
    BY <1>2 DEF Trashed, Batch
  <1>4. \A m \in Notes : Trashed(new, m) => new[m].batch = tab[m].batch
    BY <1>2, <1>3 DEF Batch
  <1>5. CASE c = b
    <2>1. Batch(new, c) = {}
      BY <1>3, <1>4, <1>5 DEF Batch
    <2> QED  BY <2>1 DEF Rooted
  <1>6. CASE c # b
    <2>1. Batch(new, c) = Batch(tab, c)
      BY <1>3, <1>4, <1>6 DEF Batch
    <2> SUFFICES ASSUME Batch(tab, c) # {}
                 PROVE  \E q \in Batch(tab, c) : Batch(tab, c) \subseteq Stem(new, c, q)
      BY <2>1 DEF Rooted
    <2>2. PICK q \in Batch(tab, c) : Batch(tab, c) \subseteq Stem(tab, c, q)
      BY DEF Rooted
    <2>3. ASSUME NEW S \in Lines(new, c), q \in S PROVE Batch(tab, c) \subseteq S
      <3>1. CASE c < b
        <4>1. S \in Lines(tab, c)
          <5>1. ASSUME NEW m \in Notes, Trashed(tab, m), tab[m].batch <= c, tab[m].parent \in S
                PROVE  m \in S
            <6>1. tab[m].batch \in Nat
              BY <1>1
            <6>2. tab[m].batch # b
              BY <3>1, <5>1, <6>1
            <6>3. Trashed(new, m) /\ new[m].batch = tab[m].batch /\ new[m].parent = tab[m].parent
              BY <1>2, <1>3, <1>4, <5>1, <6>2
            <6> QED  BY <2>3, <5>1, <6>3 DEF Lines
          <5>2. S \in SUBSET Notes
            BY DEF Lines
          <5> QED  BY <5>1, <5>2 DEF Lines
        <4> QED  BY <2>2, <2>3, <4>1, StemWithin
      <3>2. CASE c > b
        <4> DEFINE stem == Stem(tab, b, r)
                   rest == {x \in S : Trashed(tab, x) /\ tab[x].batch <= c /\ x \notin stem}
        <4>1. r \in Notes /\ tab[r].batch = b /\ q \in Notes /\ Trashed(tab, q) /\ tab[q].batch = c
          BY DEF Batch
        <4>2. /\ stem \in Lines(tab, b) /\ r \in stem
              /\ \A m \in stem \ {r} : Trashed(tab, m) /\ tab[m].batch <= b /\ tab[m].parent \in stem
          BY <4>1, StemIs
        <4>3. q \notin stem
          BY <3>2, <4>1, <4>2
        <4>4. q \in rest
          BY <2>3, <4>1, <4>3
        <4>5. ASSUME NEW m \in Notes, Trashed(tab, m), tab[m].batch <= c, tab[m].parent \in rest
              PROVE  m \in rest
          <5>1. m \notin stem
            <6>1. m # r
              <7>1. tab[m].parent \in Notes /\ Trashed(tab, tab[m].parent)
                BY <4>5 DEF Lines
              <7> QED  BY <7>1
            <6>2. tab[m].parent \notin stem
              BY <4>5
            <6> QED  BY <4>2, <6>1, <6>2
          <5>2. tab[m].batch # b
            BY <4>5, <5>1 DEF Batch
          <5>3. m \in S
            BY <1>2, <1>3, <1>4, <2>3, <4>5, <5>2 DEF Lines
          <5> QED  BY <4>5, <5>1, <5>3
        <4>6. rest \in Lines(tab, c)
          <5> HIDE DEF stem
          <5>1. rest \in SUBSET Notes
            BY DEF Lines
          <5> HIDE DEF rest
          <5> QED  BY <4>5, <5>1 DEF Lines
        <4>7. Batch(tab, c) \subseteq rest
          <5> HIDE DEF rest
          <5> QED  BY <2>2, <4>4, <4>6, StemWithin
        <4> QED  BY <4>7
      <3> QED  BY <1>6, <3>1, <3>2
    <2>4. Batch(tab, c) \subseteq Stem(new, c, q)
      BY <2>3 DEF Stem, Batch
    <2> QED  BY <2>2, <2>4
  <1> QED  BY <1>5, <1>6

\* A purge takes everything below what it takes.
LEMMA RootedByPurge ==
  ASSUME NEW tab \in [Notes -> Note], NEW c \in Nat, Rooted(tab, c),
         NEW ids \in SUBSET Notes,
         \A m \in Notes : tab[m].row = "kept" /\ tab[m].parent \in ids => m \in ids,
         NEW new, new = [n \in Notes |-> IF n \in ids THEN [tab[n] EXCEPT !.row = "purged", !.parent = Top]
                                                     ELSE tab[n]]
  PROVE  Rooted(new, c)
  <1>1. \A m \in Notes : tab[m] \in Note /\ tab[m].batch \in Nat
    BY NotesAre
  <1>2. /\ \A m \in ids : new[m].row = "purged"
        /\ \A m \in Notes \ ids : new[m] = tab[m]
    BY <1>1 DEF Note
  <1>3. \A m \in Notes : Trashed(new, m) <=> Trashed(tab, m) /\ m \notin ids
    BY <1>2 DEF Trashed
  <1>4. Batch(new, c) = Batch(tab, c) \ ids
    BY <1>2, <1>3 DEF Batch
  <1> SUFFICES ASSUME Batch(tab, c) \ ids # {}
               PROVE  \E r \in Batch(tab, c) \ ids : Batch(tab, c) \ ids \subseteq Stem(new, c, r)
    BY <1>4 DEF Rooted
  <1>5. PICK r \in Batch(tab, c) :
           \A line \in Lines(tab, c) : r \in line => Batch(tab, c) \subseteq line
    <2>1. PICK r \in Batch(tab, c) : Batch(tab, c) \subseteq Stem(tab, c, r)
      BY DEF Rooted
    <2>2. ASSUME NEW line \in Lines(tab, c), r \in line PROVE Batch(tab, c) \subseteq line
      BY <2>1, <2>2 DEF Stem
    <2> QED  BY <2>1, <2>2, Zenon
  <1>6. r \notin ids
    <2> SUFFICES ASSUME r \in ids PROVE FALSE
      OBVIOUS
    <2>1. ids \in Lines(tab, c)
      BY DEF Lines, Trashed
    <2>2. Batch(tab, c) \subseteq ids
      BY <1>5, <2>1, Zenon
    <2> QED  BY <2>2
  <1>7. ASSUME NEW S \in Lines(new, c), r \in S PROVE Batch(tab, c) \ ids \subseteq S
    <2>1. S \cup ids \in Lines(tab, c)
      <3>1. ASSUME NEW m \in Notes, Trashed(tab, m), tab[m].batch <= c, tab[m].parent \in S \cup ids
            PROVE  m \in S \cup ids
        <4> SUFFICES ASSUME m \notin ids PROVE m \in S
          OBVIOUS
        <4>1. tab[m].parent \in S
          BY <3>1 DEF Trashed
        <4>2. Trashed(new, m) /\ new[m] = tab[m]
          BY <1>2, <1>3, <3>1
        <4> QED  BY <1>7, <3>1, <4>1, <4>2 DEF Lines
      <3>2. S \cup ids \in SUBSET Notes
        BY DEF Lines
      <3> QED  BY <3>1, <3>2 DEF Lines
    <2>2. r \in S \cup ids
      BY <1>7
    <2>3. Batch(tab, c) \subseteq S \cup ids
      BY <1>5, <2>1, <2>2, Zenon
    <2> QED  BY <2>3
  <1>8. Batch(tab, c) \ ids \subseteq Stem(new, c, r)
    BY <1>7 DEF Stem, Batch
  <1> QED  BY <1>5, <1>6, <1>8

----------------------------------------------------------------------------
(* Notes: what a transaction may rely on.                                  *)

TreeTx == [op : {"none", "move", "create", "trash", "restore", "purge"},
           id : Notes \cup {Top}, folder : Folders \cup {Unfiled}, parent : Notes \cup {Top},
           ids : SUBSET Notes, wants : SUBSET Hierarchy!Groups, holds : SUBSET Hierarchy!Groups,
           fresh : BOOLEAN, pc : {"idle", "read", "locked"}]
Serial(t) == t.op \in {"trash", "restore", "purge"}

\* A fresh move is of a live note; what a deletion, a restoration or a purge has read is so.
Relies(tab, a, t) ==
    /\ t.op = "move" /\ t.fresh => t.id \in Notes /\ Alive(tab, t.id)
    /\ t.op = "trash" =>
          /\ 0 < a /\ \A m \in Notes : tab[m].row = "kept" => tab[m].batch < a
          /\ t.fresh => /\ t.id \in t.ids /\ Alive(tab, t.id) /\ Hangs(tab, t.ids, t.id)
                        /\ \A m \in t.ids : tab[m].row = "kept"
    /\ t.op = "restore" =>
          /\ t.id \in Notes /\ Trashed(tab, t.id)
          /\ t.ids = Batch(tab, tab[t.id].batch)
          /\ t.ids \subseteq Stem(tab, tab[t.id].batch, t.id)
          /\ tab[t.id].parent \in Notes => ~Trashed(tab, tab[t.id].parent)
    /\ t.op = "purge" =>
          t.id \in Notes /\ \A m \in t.ids : tab[m].row # "unused" /\ ~Alive(tab, m)

TreeIInv ==
    /\ Hierarchy!TreeTypeOK
    /\ \A s, o \in Sessions : Serial(working[s]) /\ Serial(working[o]) => s = o
    /\ \A m \in Notes : note[m].row = "kept" => note[m].batch <= asked
    /\ \A b \in Nat : Rooted(note, b)
    /\ \A s \in Sessions : Relies(note, asked, working[s])

LEMMA TreeTypes ==
  Hierarchy!TreeTypeOK <=>
     /\ note \in [Notes -> Note] /\ folders \subseteq Folders
     /\ working \in [Sessions -> TreeTx] /\ asked \in 0..MaxAsked
  BY DEF Hierarchy!TreeTypeOK, Note, TreeTx

LEMMA TreeTypesNext ==
  Hierarchy!TreeTypeOK' <=>
     /\ note' \in [Notes -> Note] /\ folders' \subseteq Folders
     /\ working' \in [Sessions -> TreeTx] /\ asked' \in 0..MaxAsked
  BY DEF Hierarchy!TreeTypeOK, Note, TreeTx

\* What becomes of a transaction when the rows of `ids` change.
Follows(t, u, ids) ==
    /\ u.op = t.op /\ u.id = t.id /\ u.ids = t.ids
    /\ u.fresh => t.fresh /\ t.id \notin ids /\ (Serial(t) => t.ids \cap ids = {})

LEMMA NoTxIs ==
  /\ Hierarchy!NoTx \in TreeTx /\ Hierarchy!NoTx.op = "none"
  BY DEF Hierarchy!NoTx, TreeTx

LEMMA BumpIs ==
  ASSUME NEW sessions \in [Sessions -> TreeTx], NEW ids \in SUBSET Notes
  PROVE  /\ Hierarchy!Bump(sessions, ids) \in [Sessions -> TreeTx]
         /\ \A o \in Sessions : Follows(sessions[o], Hierarchy!Bump(sessions, ids)[o], ids)
  <1> DEFINE B == Hierarchy!Bump(sessions, ids)
  <1>1. B = [o \in Sessions |->
                IF sessions[o].id \in ids \/ (Serial(sessions[o]) /\ sessions[o].ids \cap ids # {})
                THEN [sessions[o] EXCEPT !.fresh = FALSE] ELSE sessions[o]]
    BY DEF Hierarchy!Bump, Serial
  <1> HIDE DEF B
  <1>2. ASSUME NEW o \in Sessions PROVE B[o] \in TreeTx /\ Follows(sessions[o], B[o], ids)
    <2>1. sessions[o] \in TreeTx
      OBVIOUS
    <2>2. CASE sessions[o].id \in ids \/ (Serial(sessions[o]) /\ sessions[o].ids \cap ids # {})
      <3>1. B[o] = [sessions[o] EXCEPT !.fresh = FALSE]
        BY <1>1, <2>2
      <3> QED  BY <2>1, <3>1 DEF TreeTx, Follows
    <2>3. CASE ~(sessions[o].id \in ids \/ (Serial(sessions[o]) /\ sessions[o].ids \cap ids # {}))
      <3>1. B[o] = sessions[o]
        BY <1>1, <2>3
      <3> QED  BY <2>1, <2>3, <3>1 DEF Follows
    <2> QED  BY <2>2, <2>3
  <1> QED  BY <1>1, <1>2 DEF B

LEMMA CloseIs ==
  ASSUME working \in [Sessions -> TreeTx], NEW s \in Sessions
  PROVE  /\ Hierarchy!Close(s) \in [Sessions -> TreeTx]
         /\ Hierarchy!Close(s)[s] = Hierarchy!NoTx
         /\ \A o \in Sessions \ {s} : Hierarchy!Close(s)[o] = working[o]
  BY NoTxIs DEF Hierarchy!Close

\* Changes to live notes: nothing enters the trash or leaves it.
Gentle(tab, new, ids) ==
    \A m \in Notes :
        /\ Trashed(tab, m) <=> Trashed(new, m)
        /\ Trashed(tab, m) => new[m].batch = tab[m].batch /\ new[m].parent = tab[m].parent
        /\ Alive(tab, m) => Alive(new, m)
        /\ Alive(new, m) => Alive(tab, m) \/ tab[m].row = "unused"
        /\ tab[m].row = "kept" /\ m \notin ids => new[m].parent = tab[m].parent
        /\ new[m].row = "unused" => tab[m].row = "unused"

LEMMA ReliesKept ==
  ASSUME NEW tab \in [Notes -> Note], NEW new \in [Notes -> Note], NEW a \in Nat,
         NEW t \in TreeTx, NEW u \in TreeTx, NEW ids \in SUBSET Notes,
         Relies(tab, a, t), Follows(t, u, ids), Gentle(tab, new, ids)
  PROVE  Relies(new, a, u)
  <1>0. t.ids \in SUBSET Notes /\ \A m \in Notes : tab[m].batch \in Nat
    BY NotesAre DEF TreeTx
  <1>1. ASSUME u.op = "move", u.fresh PROVE u.id \in Notes /\ Alive(new, u.id)
    BY <1>1 DEF Relies, Follows, Gentle
  <1>2. ASSUME u.op = "trash"
        PROVE  /\ 0 < a /\ \A m \in Notes : new[m].row = "kept" => new[m].batch < a
               /\ u.fresh => /\ u.id \in u.ids /\ Alive(new, u.id) /\ Hangs(new, u.ids, u.id)
                             /\ \A m \in u.ids : new[m].row = "kept"
    <2>1. 0 < a /\ \A m \in Notes : tab[m].row = "kept" => tab[m].batch < a
      BY <1>2 DEF Relies, Follows
    <2>2. ASSUME NEW m \in Notes, new[m].row = "kept" PROVE new[m].batch < a
      <3>1. CASE Trashed(tab, m)
        BY <2>1, <3>1 DEF Gentle, Trashed
      <3>2. CASE ~Trashed(tab, m)
        <4>1. ~Trashed(new, m)
          BY <3>2 DEF Gentle
        <4> QED  BY <2>1, <2>2, <4>1 DEF Trashed
      <3> QED  BY <3>1, <3>2
    <2>3. ASSUME u.fresh
          PROVE  /\ u.id \in u.ids /\ Alive(new, u.id) /\ Hangs(new, u.ids, u.id)
                 /\ \A m \in u.ids : new[m].row = "kept"
      <3>1. /\ t.fresh /\ t.ids \cap ids = {} /\ u.ids = t.ids /\ u.id = t.id
            /\ t.id \in t.ids /\ Alive(tab, t.id) /\ Hangs(tab, t.ids, t.id)
            /\ \A m \in t.ids : tab[m].row = "kept"
        BY <1>2, <2>3 DEF Relies, Follows, Serial
      <3>2. \A m \in t.ids : new[m].parent = tab[m].parent /\ new[m].row = "kept"
        BY <1>0, <3>1 DEF Gentle, Trashed, Alive
      <3>3. Hangs(new, t.ids, t.id)
        BY <3>1, <3>2 DEF Hangs
      <3>4. Alive(new, t.id)
        BY <1>0, <3>1 DEF Gentle
      <3> QED  BY <3>1, <3>2, <3>3, <3>4
    <2> QED  BY <2>1, <2>2, <2>3
  <1>3. ASSUME u.op = "restore"
        PROVE  /\ u.id \in Notes /\ Trashed(new, u.id)
               /\ u.ids = Batch(new, new[u.id].batch)
               /\ u.ids \subseteq Stem(new, new[u.id].batch, u.id)
               /\ new[u.id].parent \in Notes => ~Trashed(new, new[u.id].parent)
    <2> DEFINE b == tab[t.id].batch
    <2>1. /\ t.id \in Notes /\ Trashed(tab, t.id) /\ t.ids = Batch(tab, b)
          /\ t.ids \subseteq Stem(tab, b, t.id)
          /\ tab[t.id].parent \in Notes => ~Trashed(tab, tab[t.id].parent)
          /\ u.id = t.id /\ u.ids = t.ids
      BY <1>3 DEF Relies, Follows
    <2>2. new[t.id].batch = b /\ new[t.id].parent = tab[t.id].parent /\ Trashed(new, t.id)
      BY <2>1 DEF Gentle
    <2> HIDE DEF b
    <2>3. Batch(new, b) = Batch(tab, b)
      BY DEF Batch, Gentle
    <2>4. Lines(new, b) = Lines(tab, b)
      BY DEF Lines, Gentle
    <2>5. Stem(new, b, t.id) = Stem(tab, b, t.id)
      BY <2>4 DEF Stem
    <2>6. tab[t.id].parent \in Notes => ~Trashed(new, tab[t.id].parent)
      BY <2>1 DEF Gentle
    <2> QED  BY <2>1, <2>2, <2>3, <2>5, <2>6
  <1>4. ASSUME u.op = "purge", NEW m \in u.ids PROVE new[m].row # "unused" /\ ~Alive(new, m)
    <2>1. m \in Notes /\ tab[m].row # "unused" /\ ~Alive(tab, m)
      BY <1>0, <1>4 DEF Relies, Follows
    <2> QED  BY <2>1 DEF Gentle
  <1>5. ASSUME u.op = "purge" PROVE u.id \in Notes
    BY <1>5 DEF Relies, Follows
  <1> QED  BY <1>1, <1>2, <1>3, <1>4, <1>5 DEF Relies

LEMMA GentleStep ==
  ASSUME TreeIInv, Hierarchy!TreeTypeOK', NEW ids \in SUBSET Notes, Gentle(note, note', ids),
         asked' = asked,
         \A o \in Sessions : \E t \in {working[o], Hierarchy!NoTx} : Follows(t, working'[o], ids)
  PROVE  TreeIInv'
  <1>1. /\ note \in [Notes -> Note] /\ note' \in [Notes -> Note] /\ asked \in Nat
        /\ working \in [Sessions -> TreeTx] /\ working' \in [Sessions -> TreeTx]
    BY TreeTypes, TreeTypesNext, HierarchyAssumption DEF TreeIInv
  <1>2. \A o \in Sessions : Serial(working[o])' => Serial(working[o])
    BY NoTxIs DEF Follows, Serial
  <1>3. ASSUME NEW m \in Notes, note'[m].row = "kept" PROVE note'[m].batch <= asked
    <2>1. note[m].batch \in Nat
      BY <1>1, NotesAre
    <2>2. CASE Trashed(note, m)
      BY <2>2 DEF Gentle, TreeIInv, Trashed
    <2>3. CASE ~Trashed(note, m)
      <3>1. ~Trashed(note', m)
        BY <2>3 DEF Gentle
      <3> QED  BY <1>1, <1>3, <3>1 DEF Trashed
    <2> QED  BY <2>2, <2>3
  <1>4. \A b \in Nat : Rooted(note', b)
    <2>1. ASSUME NEW b \in Nat PROVE Rooted(note', b)
      <3>1. Rooted(note, b)
        BY DEF TreeIInv
      <3>2. \A m \in Notes : /\ Trashed(note, m) <=> Trashed(note', m)
                             /\ Trashed(note, m) => /\ note'[m].batch = note[m].batch
                                                    /\ note'[m].parent = note[m].parent
        BY DEF Gentle
      <3> QED  BY <1>1, <3>1, <3>2, RootedKept
    <2> QED  BY <2>1
  <1>5. ASSUME NEW o \in Sessions PROVE Relies(note', asked, working'[o])
    <2>1. PICK t \in {working[o], Hierarchy!NoTx} : Follows(t, working'[o], ids)
      OBVIOUS
    <2>2. Relies(note, asked, t) /\ t \in TreeTx
      <3>1. Relies(note, asked, Hierarchy!NoTx)
        BY NoTxIs DEF Relies
      <3> QED  BY <1>1, <3>1, NoTxIs DEF TreeIInv
    <2> QED  BY <1>1, <2>1, <2>2, ReliesKept
  <1> QED  BY <1>2, <1>3, <1>4, <1>5 DEF TreeIInv, Serial

LEMMA BeginStep ==
  ASSUME TreeIInv, NEW s \in Sessions, NEW tx \in TreeTx, Hierarchy!Begin(s, tx),
         Serial(tx) => Hierarchy!NoneSerializable, Relies(note, asked + 1, tx)
  PROVE  TreeIInv'
  <1>1. /\ note \in [Notes -> Note] /\ asked \in Nat /\ asked < MaxAsked /\ MaxAsked \in Nat
        /\ working \in [Sessions -> TreeTx] /\ folders \subseteq Folders
    BY TreeTypes, HierarchyAssumption DEF TreeIInv, Hierarchy!Begin
  <1>2. /\ asked' = asked + 1 /\ note' = note /\ folders' = folders
        /\ working' = [working EXCEPT ![s] = tx]
    BY DEF Hierarchy!Begin
  <1>3. Hierarchy!TreeTypeOK'
    BY <1>1, <1>2, TreeTypesNext
  <1>4. \A o \in Sessions : working'[o] = IF o = s THEN tx ELSE working[o]
    BY <1>1, <1>2
  <1>5. Serial(tx) => \A o \in Sessions : ~Serial(working[o])
    BY DEF Hierarchy!NoneSerializable, Serial
  <1>6. ASSUME NEW o \in Sessions PROVE Relies(note, asked + 1, working[o])
    <2>1. Relies(note, asked, working[o]) /\ \A m \in Notes : note[m].batch \in Nat
      BY <1>1, NotesAre DEF TreeIInv
    <2>2. \A x \in Nat : x < asked => x < asked + 1
      BY <1>1
    <2> QED  BY <1>1, <2>1, <2>2 DEF Relies
  <1>7. \A m \in Notes : note[m].row = "kept" => note[m].batch <= asked + 1
    <2>1. \A m \in Notes : note[m].batch \in Nat
      BY <1>1, NotesAre
    <2> QED  BY <1>1, <2>1 DEF TreeIInv
  <1>8. \A o \in Sessions : Relies(note', asked', working'[o])
    BY <1>2, <1>4, <1>6
  <1>9. \A a, o \in Sessions : Serial(working'[a]) /\ Serial(working'[o]) => a = o
    BY <1>4, <1>5 DEF TreeIInv
  <1> QED  BY <1>2, <1>3, <1>7, <1>8, <1>9 DEF TreeIInv, Serial

\* Nobody else works on a subtree, and a move of a row that changes is no longer fresh.
LEMMA SerialStep ==
  ASSUME TreeIInv, Hierarchy!TreeTypeOK', NEW s \in Sessions, Serial(working[s]),
         NEW ids \in SUBSET Notes,
         working' = Hierarchy!Bump(Hierarchy!Close(s), ids),
         \A m \in Notes \ ids : Alive(note, m) => Alive(note', m),
         asked' = asked, \A m \in Notes : note'[m].row = "kept" => note'[m].batch <= asked,
         \A b \in Nat : Rooted(note', b)
  PROVE  TreeIInv'
  <1>1. working \in [Sessions -> TreeTx]
    BY TreeTypes DEF TreeIInv
  <1>2. /\ Follows(Hierarchy!NoTx, working'[s], ids)
        /\ \A o \in Sessions \ {s} : Follows(working[o], working'[o], ids)
    BY <1>1, CloseIs, BumpIs
  <1>3. \A o \in Sessions : ~Serial(working'[o])
    BY <1>2, NoTxIs DEF TreeIInv, Serial, Follows
  <1>4. ASSUME NEW o \in Sessions PROVE Relies(note', asked, working'[o])
    <2>1. CASE o = s
      BY <1>2, <2>1, NoTxIs DEF Relies, Follows
    <2>2. CASE o # s
      <3>1. Follows(working[o], working'[o], ids) /\ Relies(note, asked, working[o])
        BY <1>2, <2>2 DEF TreeIInv
      <3>2. working'[o].op \notin {"trash", "restore", "purge"}
        BY <1>3 DEF Serial
      <3> QED  BY <3>1, <3>2 DEF Relies, Follows
    <2> QED  BY <2>1, <2>2
  <1> QED  BY <1>3, <1>4 DEF TreeIInv, Serial

----------------------------------------------------------------------------
(* Notes: the steps.                                                       *)

LEMMA TreeFacts ==
  ASSUME TreeIInv
  PROVE  /\ note \in [Notes -> Note] /\ folders \subseteq Folders /\ asked \in Nat
         /\ working \in [Sessions -> TreeTx] /\ asked \in 0..MaxAsked /\ MaxAsked \in Nat
         /\ Parented
         /\ \A s \in Sessions : Relies(note, asked, working[s])
         /\ \A m : Hierarchy!IsLive(m) <=> m \in Notes /\ Alive(note, m)
         /\ \A m : m \in Hierarchy!Rows <=> m \in Notes /\ note[m].row = "kept"
  <1>1. /\ note \in [Notes -> Note] /\ folders \subseteq Folders
        /\ working \in [Sessions -> TreeTx] /\ asked \in 0..MaxAsked
    BY TreeTypes DEF TreeIInv
  <1>2. Parented
    BY <1>1, NotesAre DEF Parented
  <1>3. \A m : Hierarchy!IsLive(m) <=> m \in Notes /\ Alive(note, m)
    BY DEF Hierarchy!IsLive, Hierarchy!Live, Hierarchy!Rows, Alive
  <1> QED  BY <1>1, <1>2, <1>3, HierarchyAssumption DEF TreeIInv, Hierarchy!Rows

LEMMA SubtreeOf ==
  ASSUME NEW n \in Hierarchy!Rows
  PROVE  /\ Hierarchy!noteSubtree(n) \in SUBSET Notes /\ n \in Hierarchy!noteSubtree(n)
         /\ Hierarchy!noteSubtree(n) \subseteq Hierarchy!Rows
         /\ \A m \in Notes : note[m].row = "kept" /\ note[m].parent \in Hierarchy!noteSubtree(n)
                              => m \in Hierarchy!noteSubtree(n)
         /\ \A S \in SUBSET Notes : n \in S /\ Under(S) \subseteq S => Hierarchy!noteSubtree(n) \subseteq S
  <1>1. n \in Notes /\ Hierarchy!Rows \subseteq Notes
    BY DEF Hierarchy!Rows
  <1>2. Hierarchy!noteSubtree(n) = Spread({n})
    BY <1>1, SubtreeIs
  <1>3. /\ Spread({n}) \subseteq Notes /\ n \in Spread({n}) /\ Under(Spread({n})) \subseteq Spread({n})
    BY <1>1, SpreadIs
  <1>4. \A S \in SUBSET Notes : n \in S /\ Under(S) \subseteq S => Spread({n}) \subseteq S
    BY DEF Spread
  <1>5. Under(Hierarchy!Rows) \subseteq Hierarchy!Rows
    BY DEF Under
  <1>6. Spread({n}) \subseteq Hierarchy!Rows
    BY <1>1, <1>4, <1>5
  <1>7. \A m \in Notes : note[m].row = "kept" /\ note[m].parent \in Spread({n}) => m \in Spread({n})
    BY <1>3 DEF Under, Hierarchy!Rows
  <1> QED  BY <1>2, <1>3, <1>4, <1>6, <1>7

\* Steps that only take locks or give up.
LEMMA QuietStep ==
  ASSUME TreeIInv, NEW s \in Sessions, UNCHANGED <<note, folders, asked>>,
         NEW u \in TreeTx, working' = [working EXCEPT ![s] = u],
         \/ u = Hierarchy!NoTx
         \/ /\ u.op = working[s].op /\ u.id = working[s].id /\ u.ids = working[s].ids
            /\ u.fresh = working[s].fresh
  PROVE  TreeIInv'
  <1>1. Hierarchy!TreeTypeOK'
    BY TreeFacts, TreeTypesNext
  <1>2. Gentle(note, note', {})
    BY DEF Gentle, Alive, Trashed
  <1>3. \A o \in Sessions : \E t \in {working[o], Hierarchy!NoTx} : Follows(t, working'[o], {})
    BY TreeFacts DEF Follows
  <1> QED  BY <1>1, <1>2, <1>3, GentleStep

LEMMA RefuseStep ==
  ASSUME TreeIInv, NEW s \in Sessions, Hierarchy!Refuse(s)
  PROVE  TreeIInv'
  BY QuietStep, NoTxIs DEF Hierarchy!Refuse, Hierarchy!Close

LEMMA LockStep ==
  ASSUME TreeIInv, NEW s \in Sessions, UNCHANGED <<note, folders, asked>>,
         working' = [working EXCEPT ![s].pc = "locked", ![s].holds = working[s].wants]
  PROVE  TreeIInv'
  <1> DEFINE u == [working[s] EXCEPT !.pc = "locked", !.holds = working[s].wants]
  <1>1. working[s] \in TreeTx
    BY TreeFacts
  <1>2. /\ u \in TreeTx /\ u.op = working[s].op /\ u.id = working[s].id /\ u.ids = working[s].ids
        /\ u.fresh = working[s].fresh
    BY <1>1 DEF TreeTx
  <1>3. working' = [working EXCEPT ![s] = u]
    BY TreeFacts
  <1> QED  BY <1>2, <1>3, QuietStep

LEMMA MoveReadStep ==
  ASSUME TreeIInv, NEW s \in Sessions, NEW n \in Notes, NEW folder \in Folders \cup {Unfiled},
         NEW parent \in Notes \cup {Top}, Hierarchy!moveRead(s, n, folder, parent)
  PROVE  TreeIInv'
  <1> DEFINE ids == Hierarchy!noteSubtree(n)
             tx == [Hierarchy!NoTx EXCEPT
                       !.op = "move", !.id = n, !.folder = folder, !.parent = parent,
                       !.ids = ids, !.pc = "read",
                       !.wants = {<<note[n].folder, note[n].parent>>, <<folder, parent>>}
                                     \cup {<<note[n].folder, m>> : m \in ids}]
  <1>1. Hierarchy!IsLive(n) /\ Hierarchy!Begin(s, tx)
    BY DEF Hierarchy!moveRead
  <1>2. Alive(note, n) /\ n \in Hierarchy!Rows /\ note[n] \in Note
    BY <1>1, TreeFacts DEF Alive
  <1>3. ids \in SUBSET Notes
    BY <1>2, SubtreeOf
  <1> HIDE DEF ids
  <1>4. /\ note[n].folder \in Folders \cup {Unfiled} /\ note[n].parent \in Notes \cup {Top}
    BY <1>2 DEF Note
  <1>5. {<<note[n].folder, note[n].parent>>, <<folder, parent>>} \cup {<<note[n].folder, m>> : m \in ids}
           \subseteq Hierarchy!Groups
    BY <1>3, <1>4 DEF Hierarchy!Groups
  <1>6. tx \in TreeTx /\ tx.op = "move" /\ tx.id = n
    BY <1>3, <1>5 DEF TreeTx, Hierarchy!NoTx
  <1> HIDE DEF tx
  <1>7. Relies(note, asked + 1, tx) /\ ~Serial(tx)
    BY <1>2, <1>6 DEF Relies, Serial
  <1> QED  BY <1>1, <1>6, <1>7, BeginStep

LEMMA CreateReadStep ==
  ASSUME TreeIInv, NEW s \in Sessions, NEW folder \in Folders \cup {Unfiled},
         NEW parent \in Notes \cup {Top}, Hierarchy!createRead(s, folder, parent)
  PROVE  TreeIInv'
  <1> DEFINE tx == [Hierarchy!NoTx EXCEPT !.op = "create", !.folder = folder, !.parent = parent,
                                          !.pc = "read", !.wants = {<<folder, parent>>}]
  <1>1. Hierarchy!Begin(s, tx)
    BY DEF Hierarchy!createRead
  <1>2. tx \in TreeTx /\ tx.op = "create"
    <2>1. {<<folder, parent>>} \subseteq Hierarchy!Groups
      BY DEF Hierarchy!Groups
    <2> QED  BY <2>1 DEF TreeTx, Hierarchy!NoTx
  <1> HIDE DEF tx
  <1>3. Relies(note, asked + 1, tx) /\ ~Serial(tx)
    BY <1>2 DEF Relies, Serial
  <1> QED  BY <1>1, <1>2, <1>3, BeginStep

LEMMA SoftDeleteReadStep ==
  ASSUME TreeIInv, NEW s \in Sessions, NEW n \in Notes, Hierarchy!softDeleteRead(s, n)
  PROVE  TreeIInv'
  <1> DEFINE ids == Hierarchy!noteSubtree(n)
             wants == {<<note[n].folder, m>> : m \in {k \in ids : Hierarchy!IsLive(k)}}
             tx == [Hierarchy!NoTx EXCEPT !.op = "trash", !.id = n, !.pc = "read",
                                          !.ids = ids, !.wants = wants]
  <1>1. Hierarchy!IsLive(n) /\ Hierarchy!Begin(s, tx) /\ Hierarchy!NoneSerializable
    BY DEF Hierarchy!softDeleteRead
  <1>2. Alive(note, n) /\ n \in Hierarchy!Rows /\ note[n] \in Note
    BY <1>1, TreeFacts DEF Alive
  <1>3. /\ ids \in SUBSET Notes /\ n \in ids /\ ids \subseteq Hierarchy!Rows
        /\ \A m \in Notes : note[m].row = "kept" /\ note[m].parent \in ids => m \in ids
        /\ \A S \in SUBSET Notes : n \in S /\ Under(S) \subseteq S => ids \subseteq S
    BY <1>2, SubtreeOf
  <1> HIDE DEF ids
  <1>4. Hangs(note, ids, n)
    <2> SUFFICES ASSUME NEW S \in SUBSET Notes, n \in S, \A m \in ids : note[m].parent \in S => m \in S
                 PROVE  ids \subseteq S
      BY DEF Hangs
    <2>1. Under(S \cap ids) \subseteq S \cap ids
      BY <1>3, TreeFacts DEF Under
    <2> QED  BY <1>3, <2>1
  <1>5. wants \subseteq Hierarchy!Groups
    <2>1. note[n].folder \in Folders \cup {Unfiled}
      BY <1>2 DEF Note
    <2> QED  BY <1>3, <2>1 DEF Hierarchy!Groups
  <1> HIDE DEF wants
  <1>6. tx \in TreeTx /\ tx.op = "trash" /\ tx.id = n /\ tx.ids = ids
    BY <1>3, <1>5 DEF TreeTx, Hierarchy!NoTx
  <1> HIDE DEF tx
  <1>7. 0 < asked + 1 /\ \A m \in Notes : note[m].row = "kept" => note[m].batch < asked + 1
    <2>1. \A m \in Notes : note[m].batch \in Nat
      BY TreeFacts, NotesAre
    <2> QED  BY <2>1, TreeFacts DEF TreeIInv
  <1>8. \A m \in ids : note[m].row = "kept"
    BY <1>3, TreeFacts
  <1>9. Relies(note, asked + 1, tx)
    BY <1>2, <1>3, <1>4, <1>6, <1>7, <1>8 DEF Relies
  <1> QED  BY <1>1, <1>6, <1>9, BeginStep

\* A note of a batch whose ancestors are live is its root, and finds all of it below itself.
LEMMA RestoreReadStep ==
  ASSUME TreeIInv, NEW s \in Sessions, NEW n \in Notes, Hierarchy!restoreRead(s, n)
  PROVE  TreeIInv'
  <1> DEFINE b == note[n].batch
             ids == {m \in Hierarchy!noteSubtree(n) : note[m].batch = b}
             wants == {<<note[n].folder, m>> : m \in ids}
             tx == [Hierarchy!NoTx EXCEPT !.op = "restore", !.id = n, !.pc = "read", !.ids = ids,
                                          !.wants = wants]
  <1>1. /\ n \in Hierarchy!Rows /\ ~Hierarchy!IsLive(n) /\ Hierarchy!Begin(s, tx)
        /\ Hierarchy!NoneSerializable
        /\ \A a \in Hierarchy!Ancestors(note[n].parent) : Hierarchy!IsLive(a)
    BY DEF Hierarchy!restoreRead
  <1>2. /\ Trashed(note, n) /\ note[n] \in Note /\ b \in Nat \ {0} /\ n \in Batch(note, b)
        /\ note \in [Notes -> Note]
    BY <1>1, TreeFacts, NotesAre DEF Trashed, Alive, Batch
  <1>3. note[n].parent \in Notes => ~Trashed(note, note[n].parent)
    BY <1>1, TreeFacts, AncestorsBegin DEF Trashed, Alive
  <1>4. Batch(note, b) \subseteq Stem(note, b, n)
    <2>1. PICK r \in Batch(note, b) : Batch(note, b) \subseteq Stem(note, b, r)
      BY <1>2 DEF TreeIInv, Rooted
    <2>2. n = r
      BY <1>2, <1>3, <2>1, BatchIsBelow
    <2> QED  BY <2>1, <2>2
  <1>5. ids = Batch(note, b)
    <2>1. /\ Hierarchy!noteSubtree(n) \in SUBSET Notes /\ Hierarchy!noteSubtree(n) \subseteq Hierarchy!Rows
          /\ n \in Hierarchy!noteSubtree(n)
          /\ \A m \in Notes : note[m].row = "kept" /\ note[m].parent \in Hierarchy!noteSubtree(n)
                               => m \in Hierarchy!noteSubtree(n)
      BY <1>1, SubtreeOf
    <2>2. Hierarchy!noteSubtree(n) \in Lines(note, b)
      BY <2>1 DEF Lines, Trashed
    <2>3. Batch(note, b) \subseteq Hierarchy!noteSubtree(n)
      BY <1>4, <2>1, <2>2 DEF Stem
    <2>4. ids \subseteq Batch(note, b)
      BY <1>2, <2>1, TreeFacts DEF Batch, Trashed
    <2> QED  BY <2>3, <2>4 DEF Batch
  <1>6. ids \in SUBSET Notes
    BY <1>5 DEF Batch
  <1> HIDE DEF ids
  <1>7. wants \subseteq Hierarchy!Groups
    <2>1. note[n].folder \in Folders \cup {Unfiled}
      BY <1>2 DEF Note
    <2> QED  BY <1>6, <2>1 DEF Hierarchy!Groups
  <1> HIDE DEF wants
  <1>8. tx \in TreeTx /\ tx.op = "restore" /\ tx.id = n /\ tx.ids = ids
    BY <1>6, <1>7 DEF TreeTx, Hierarchy!NoTx
  <1> HIDE DEF tx
  <1>9. Relies(note, asked + 1, tx)
    BY <1>2, <1>3, <1>4, <1>5, <1>8 DEF Relies
  <1> QED  BY <1>1, <1>8, <1>9, BeginStep

LEMMA PermanentDeleteReadStep ==
  ASSUME TreeIInv, NEW s \in Sessions, NEW n \in Notes, Hierarchy!permanentDeleteRead(s, n)
  PROVE  TreeIInv'
  <1> DEFINE ids == Hierarchy!noteSubtree(n)
             tx == [Hierarchy!NoTx EXCEPT !.op = "purge", !.id = n, !.pc = "read", !.ids = ids]
  <1>1. /\ n \in Hierarchy!Rows /\ Hierarchy!Begin(s, tx) /\ Hierarchy!NoneSerializable
        /\ \A m \in ids : ~Hierarchy!IsLive(m)
    BY DEF Hierarchy!permanentDeleteRead
  <1>2. ids \in SUBSET Notes /\ ids \subseteq Hierarchy!Rows
    BY <1>1, SubtreeOf
  <1> HIDE DEF ids
  <1>3. tx \in TreeTx /\ tx.op = "purge" /\ tx.id = n /\ tx.ids = ids
    BY <1>2 DEF TreeTx, Hierarchy!NoTx
  <1> HIDE DEF tx
  <1>4. \A m \in ids : note[m].row # "unused" /\ ~Alive(note, m)
    BY <1>1, <1>2, TreeFacts
  <1>5. Relies(note, asked + 1, tx)
    BY <1>3, <1>4 DEF Relies
  <1> QED  BY <1>1, <1>3, <1>5, BeginStep

LEMMA MoveLockStep ==
  ASSUME TreeIInv, NEW s \in Sessions, Hierarchy!moveLock(s) \/ Hierarchy!createLock(s)
  PROVE  TreeIInv'
  BY LockStep, RefuseStep DEF Hierarchy!moveLock, Hierarchy!createLock

LEMMA MoveCommitStep ==
  ASSUME TreeIInv, NEW s \in Sessions, Hierarchy!moveCommit(s)
  PROVE  TreeIInv'
  <1> DEFINE t == working[s]
             follows == IF note[t.id].folder = t.folder THEN {} ELSE t.ids \cap Hierarchy!Rows
             ids == follows \cup {t.id}
  <1>1. CASE Hierarchy!Refuse(s)
    BY <1>1, RefuseStep
  <1>2. CASE ~Hierarchy!Refuse(s)
    <2>1. /\ t.op = "move" /\ t.fresh /\ Hierarchy!FolderExists(t.folder)
          /\ note' = [n \in Notes |->
                 CASE n = t.id -> [note[n] EXCEPT !.parent = t.parent, !.folder = t.folder]
                   [] n \in follows \ {t.id} -> [note[n] EXCEPT !.folder = t.folder]
                   [] OTHER -> note[n]]
          /\ working' = Hierarchy!Bump(Hierarchy!Close(s), ids) /\ UNCHANGED <<folders, asked>>
      BY <1>2 DEF Hierarchy!moveCommit
    <2>2. t \in TreeTx /\ Relies(note, asked, t) /\ \A m \in Notes : note[m] \in Note
      BY TreeFacts
    <2>3. /\ t.id \in Notes /\ Alive(note, t.id) /\ t.parent \in Notes \cup {Top}
          /\ t.folder \in Folders \cup {Unfiled} /\ ids \in SUBSET Notes /\ follows \in SUBSET Notes
          /\ \A m \in follows : note[m].row = "kept"
      BY <2>1, <2>2, TreeFacts DEF Relies, TreeTx
    <2> HIDE DEF follows, t
    <2>4. \A n \in Notes : /\ n = t.id => note'[n] = [note[n] EXCEPT !.parent = t.parent, !.folder = t.folder]
                           /\ n # t.id /\ n \in follows => note'[n] = [note[n] EXCEPT !.folder = t.folder]
                           /\ n # t.id /\ n \notin follows => note'[n] = note[n]
      BY <2>1
    <2>5. ASSUME NEW n \in Notes
          PROVE  /\ note'[n] \in Note /\ note'[n].row = note[n].row /\ note'[n].batch = note[n].batch
                 /\ n # t.id => note'[n].parent = note[n].parent
      <3>1. note[n] \in Note
        BY <2>2
      <3>2. CASE n = t.id
        <4> DEFINE p == t.parent
                   f == t.folder
                   x == note[n]
                   y == note'[n]
        <4>1. /\ p \in Notes \cup {Top} /\ f \in Folders \cup {Unfiled} /\ x \in Note
              /\ y = [x EXCEPT !.parent = p, !.folder = f]
          BY <2>3, <2>4, <3>1, <3>2
        <4>2. y \in Note /\ y.row = x.row /\ y.batch = x.batch
          <5> HIDE DEF p, f, x, y
          <5> QED  BY <4>1 DEF Note
        <4> QED  BY <3>2, <4>2
      <3>3. CASE n # t.id /\ n \in follows
        BY <2>3, <2>4, <3>1, <3>3 DEF Note
      <3>4. CASE n # t.id /\ n \notin follows
        BY <2>4, <3>1, <3>4
      <3> QED  BY <3>2, <3>3, <3>4
    <2>6. note' \in [Notes -> Note]
      BY <2>1, <2>5
    <2>7. /\ Hierarchy!Close(s) \in [Sessions -> TreeTx] /\ Hierarchy!Close(s)[s] = Hierarchy!NoTx
          /\ \A o \in Sessions \ {s} : Hierarchy!Close(s)[o] = working[o]
      BY CloseIs, TreeFacts
    <2>8. /\ working' \in [Sessions -> TreeTx]
          /\ \A o \in Sessions : \E u \in {working[o], Hierarchy!NoTx} : Follows(u, working'[o], ids)
      BY <2>1, <2>3, <2>7, BumpIs
    <2>9. Gentle(note, note', ids)
      BY <2>3, <2>5 DEF Gentle, Alive, Trashed
    <2>10. Hierarchy!TreeTypeOK'
      BY <2>1, <2>6, <2>8, TreeFacts, TreeTypesNext
    <2> QED  BY <2>1, <2>3, <2>8, <2>9, <2>10, GentleStep
  <1> QED  BY <1>1, <1>2

LEMMA CreateCommitStep ==
  ASSUME TreeIInv, NEW s \in Sessions, Hierarchy!createCommit(s)
  PROVE  TreeIInv'
  <1> DEFINE t == working[s]
  <1>1. CASE Hierarchy!Refuse(s)
    BY <1>1, RefuseStep
  <1>2. CASE ~Hierarchy!Refuse(s)
    <2> DEFINE row == [row |-> "kept", parent |-> t.parent, folder |-> t.folder, batch |-> 0]
    <2>1. PICK n \in Notes :
             /\ note[n].row = "unused" /\ note' = [note EXCEPT ![n] = row]
             /\ working' = Hierarchy!Close(s) /\ UNCHANGED <<folders, asked>>
      BY <1>2 DEF Hierarchy!createCommit, Hierarchy!Live
    <2>2. t \in TreeTx
      BY TreeFacts
    <2>3. row \in Note /\ row.row = "kept" /\ row.batch = 0
      BY <2>2, HierarchyAssumption DEF TreeTx, Note
    <2> HIDE DEF row
    <2>4. note'[n] = row /\ \A m \in Notes \ {n} : note'[m] = note[m]
      BY <2>1, TreeFacts
    <2>5. note' \in [Notes -> Note]
      BY <2>1, <2>3, TreeFacts
    <2>6. /\ working' \in [Sessions -> TreeTx]
          /\ \A o \in Sessions : working'[o] \in {working[o], Hierarchy!NoTx}
      BY <2>1, CloseIs, TreeFacts
    <2>7. \A o \in Sessions : \E u \in {working[o], Hierarchy!NoTx} : Follows(u, working'[o], {})
      BY <2>6 DEF Follows
    <2>8. Gentle(note, note', {})
      BY <2>1, <2>3, <2>4 DEF Gentle, Alive, Trashed
    <2>9. Hierarchy!TreeTypeOK'
      BY <2>1, <2>5, <2>6, TreeFacts, TreeTypesNext
    <2> QED  BY <2>1, <2>7, <2>8, <2>9, GentleStep
  <1> QED  BY <1>1, <1>2

LEMMA DeleteFolderStep ==
  ASSUME TreeIInv, NEW f \in Folders, Hierarchy!deleteFolder(f)
  PROVE  TreeIInv'
  <1> DEFINE filed == {n \in Hierarchy!Rows : note[n].folder = f}
  <1>1. /\ folders' = folders \ {f} /\ asked' = asked
        /\ note' = [n \in Notes |-> IF n \in filed THEN [note[n] EXCEPT !.folder = Unfiled] ELSE note[n]]
        /\ working' = Hierarchy!Bump(working, filed)
    BY DEF Hierarchy!deleteFolder
  <1>2. filed \in SUBSET Notes /\ \A m \in Notes : note[m] \in Note
    BY TreeFacts
  <1> HIDE DEF filed
  <1>3. ASSUME NEW n \in Notes
        PROVE  /\ note'[n] \in Note /\ note'[n].row = note[n].row /\ note'[n].batch = note[n].batch
               /\ note'[n].parent = note[n].parent
    <2>1. note[n] \in Note
      BY <1>2
    <2>2. CASE n \in filed
      BY <1>1, <2>1, <2>2 DEF Note
    <2>3. CASE n \notin filed
      BY <1>1, <2>1, <2>3
    <2> QED  BY <2>2, <2>3
  <1>4. note' \in [Notes -> Note]
    BY <1>1, <1>3
  <1>5. /\ working' \in [Sessions -> TreeTx]
        /\ \A o \in Sessions : Follows(working[o], working'[o], filed)
    BY <1>1, <1>2, BumpIs, TreeFacts
  <1>6. Gentle(note, note', filed)
    BY <1>3 DEF Gentle, Alive, Trashed
  <1>7. Hierarchy!TreeTypeOK'
    BY <1>1, <1>4, <1>5, TreeFacts, TreeTypesNext
  <1> QED  BY <1>1, <1>2, <1>5, <1>6, <1>7, GentleStep

LEMMA SoftDeleteCommitStep ==
  ASSUME TreeIInv, NEW s \in Sessions, Hierarchy!softDeleteCommit(s)
  PROVE  TreeIInv'
  <1> DEFINE t == working[s]
             ids == {n \in t.ids : Hierarchy!IsLive(n)}
  <1>1. CASE Hierarchy!Refuse(s)
    BY <1>1, RefuseStep
  <1>2. CASE ~Hierarchy!Refuse(s)
    <2>1. /\ t.op = "trash" /\ t.fresh
          /\ note' = [n \in Notes |-> IF n \in t.ids /\ Hierarchy!IsLive(n)
                                      THEN [note[n] EXCEPT !.batch = asked] ELSE note[n]]
          /\ working' = Hierarchy!Bump(Hierarchy!Close(s), ids) /\ UNCHANGED <<folders, asked>>
      BY <1>2 DEF Hierarchy!softDeleteCommit
    <2>2. t \in TreeTx /\ Relies(note, asked, t) /\ \A m \in Notes : note[m] \in Note
      BY TreeFacts
    <2>3. /\ asked \in Nat \ {0} /\ \A m \in Notes : note[m].row = "kept" => note[m].batch < asked
          /\ t.ids \in SUBSET Notes /\ t.id \in t.ids /\ Alive(note, t.id) /\ Hangs(note, t.ids, t.id)
          /\ \A m \in t.ids : note[m].row = "kept"
          /\ asked <= MaxAsked
      BY <2>1, <2>2, TreeFacts DEF Relies, TreeTx
    <2>4. note' = [n \in Notes |-> IF n \in t.ids /\ Alive(note, n)
                                   THEN [note[n] EXCEPT !.batch = asked] ELSE note[n]]
      BY <2>1, <2>3, TreeFacts
    <2>5. ids \in SUBSET Notes /\ Serial(t) /\ ids = {n \in t.ids : Alive(note, n)}
      BY <2>1, <2>3, TreeFacts DEF Serial
    <2> HIDE DEF t, ids
    <2>6. \A b \in Nat : Rooted(note', b)
      <3>1. ASSUME NEW b \in Nat PROVE Rooted(note', b)
        <4>1. Rooted(note, b) /\ note \in [Notes -> Note]
          BY TreeFacts DEF TreeIInv
        <4> QED  BY <2>3, <2>4, <4>1, RootedByTrash
      <3> QED  BY <3>1
    <2>7. ASSUME NEW n \in Notes
          PROVE  /\ note'[n] \in Note /\ note'[n].row = note[n].row
                 /\ note'[n].batch = IF n \in ids THEN asked ELSE note[n].batch
      <3>1. note[n] \in Note
        BY <2>2
      <3>2. CASE n \in ids
        BY <2>4, <2>5, <3>1, <3>2, TreeFacts DEF Note
      <3>3. CASE n \notin ids
        BY <2>4, <2>5, <3>1, <3>3
      <3> QED  BY <3>2, <3>3
    <2>8. note' \in [Notes -> Note]
      BY <2>4, <2>7
    <2>9. working' \in [Sessions -> TreeTx]
      BY <2>1, <2>5, BumpIs, CloseIs, TreeFacts
    <2>10. Hierarchy!TreeTypeOK'
      BY <2>1, <2>8, <2>9, TreeFacts, TreeTypesNext
    <2>11. \A m \in Notes \ ids : Alive(note, m) => Alive(note', m)
      BY <2>7 DEF Alive
    <2>12. \A m \in Notes : note'[m].row = "kept" => note'[m].batch <= asked
      BY <2>3, <2>7 DEF TreeIInv
    <2> QED  BY <2>1, <2>5, <2>6, <2>10, <2>11, <2>12, SerialStep DEF t
  <1> QED  BY <1>1, <1>2

LEMMA RestoreCommitStep ==
  ASSUME TreeIInv, NEW s \in Sessions, Hierarchy!restoreCommit(s)
  PROVE  TreeIInv'
  <1> DEFINE t == working[s]
             b == note[t.id].batch
  <1>1. CASE Hierarchy!Refuse(s)
    BY <1>1, RefuseStep
  <1>2. CASE ~Hierarchy!Refuse(s)
    <2>1. /\ t.op = "restore"
          /\ note' = [n \in Notes |-> IF n \in t.ids THEN [note[n] EXCEPT !.batch = 0] ELSE note[n]]
          /\ working' = Hierarchy!Bump(Hierarchy!Close(s), t.ids) /\ UNCHANGED <<folders, asked>>
      BY <1>2 DEF Hierarchy!restoreCommit, Hierarchy!Live
    <2>2. t \in TreeTx /\ Relies(note, asked, t) /\ \A m \in Notes : note[m] \in Note
      BY TreeFacts
    <2>3. /\ t.id \in Notes /\ Trashed(note, t.id) /\ t.ids = Batch(note, b)
          /\ Batch(note, b) \subseteq Stem(note, b, t.id) /\ t.ids \in SUBSET Notes /\ Serial(t)
          /\ note[t.id].parent \in Notes => ~Trashed(note, note[t.id].parent)
      BY <2>1, <2>2 DEF Relies, TreeTx, Serial
    <2>4. b \in Nat \ {0} /\ t.id \in Batch(note, b)
      BY <2>3, NotesAre, TreeFacts DEF Trashed, Batch
    <2> HIDE DEF t, b
    <2>5. \A c \in Nat : Rooted(note', c)
      <3>1. ASSUME NEW c \in Nat PROVE Rooted(note', c)
        <4>1. Rooted(note, c) /\ note \in [Notes -> Note]
          BY TreeFacts DEF TreeIInv
        <4>2. note' = [n \in Notes |-> IF n \in Batch(note, b) THEN [note[n] EXCEPT !.batch = 0] ELSE note[n]]
          BY <2>1, <2>3
        <4> QED  BY <2>3, <2>4, <4>1, <4>2, RootedByRestore
      <3> QED  BY <3>1
    <2>6. ASSUME NEW n \in Notes
          PROVE  /\ note'[n] \in Note /\ note'[n].row = note[n].row
                 /\ note'[n].batch = IF n \in t.ids THEN 0 ELSE note[n].batch
      <3>1. note[n] \in Note
        BY <2>2
      <3>2. CASE n \in t.ids
        BY <2>1, <3>1, <3>2, HierarchyAssumption DEF Note
      <3>3. CASE n \notin t.ids
        BY <2>1, <3>1, <3>3
      <3> QED  BY <3>2, <3>3
    <2>7. note' \in [Notes -> Note]
      BY <2>1, <2>6
    <2>8. working' \in [Sessions -> TreeTx]
      BY <2>1, <2>3, BumpIs, CloseIs, TreeFacts
    <2>9. Hierarchy!TreeTypeOK'
      BY <2>1, <2>7, <2>8, TreeFacts, TreeTypesNext
    <2>10. \A m \in Notes \ t.ids : Alive(note, m) => Alive(note', m)
      BY <2>6 DEF Alive
    <2>11. \A m \in Notes : note'[m].row = "kept" => note'[m].batch <= asked
      BY <2>6, TreeFacts DEF TreeIInv
    <2> QED  BY <2>1, <2>3, <2>5, <2>9, <2>10, <2>11, SerialStep DEF t
  <1> QED  BY <1>1, <1>2

LEMMA PermanentDeleteCommitStep ==
  ASSUME TreeIInv, NEW s \in Sessions, Hierarchy!permanentDeleteCommit(s)
  PROVE  TreeIInv'
  <1> DEFINE t == working[s]
  <1>1. CASE Hierarchy!Refuse(s)
    BY <1>1, RefuseStep
  <1>2. CASE ~Hierarchy!Refuse(s)
    <2>1. /\ t.op = "purge" /\ Hierarchy!noteSubtree(t.id) = t.ids
          /\ note' = [n \in Notes |-> IF n \in t.ids THEN [note[n] EXCEPT !.row = "purged", !.parent = Top]
                                      ELSE note[n]]
          /\ working' = Hierarchy!Bump(Hierarchy!Close(s), t.ids) /\ UNCHANGED <<folders, asked>>
      BY <1>2 DEF Hierarchy!permanentDeleteCommit
    <2>2. t \in TreeTx /\ Relies(note, asked, t) /\ \A m \in Notes : note[m] \in Note
      BY TreeFacts
    <2>3. t.id \in Notes /\ t.ids \in SUBSET Notes /\ Serial(t)
      BY <2>1, <2>2 DEF TreeTx, Serial, Relies
    <2>4. \A m \in Notes : note[m].row = "kept" /\ note[m].parent \in t.ids => m \in t.ids
      <3>1. t.ids = Spread({t.id})
        BY <2>1, <2>3, SubtreeIs
      <3>2. Under(Spread({t.id})) \subseteq Spread({t.id})
        BY <2>3, SpreadIs
      <3> QED  BY <3>1, <3>2 DEF Under, Hierarchy!Rows
    <2> HIDE DEF t
    <2>5. \A c \in Nat : Rooted(note', c)
      <3>1. ASSUME NEW c \in Nat PROVE Rooted(note', c)
        <4>1. Rooted(note, c) /\ note \in [Notes -> Note]
          BY TreeFacts DEF TreeIInv
        <4> QED  BY <2>1, <2>3, <2>4, <4>1, RootedByPurge
      <3> QED  BY <3>1
    <2>6. ASSUME NEW n \in Notes
          PROVE  /\ note'[n] \in Note
                 /\ n \in t.ids => note'[n].row = "purged"
                 /\ n \notin t.ids => note'[n] = note[n]
      <3>1. note[n] \in Note
        BY <2>2
      <3>2. CASE n \in t.ids
        BY <2>1, <3>1, <3>2 DEF Note
      <3>3. CASE n \notin t.ids
        BY <2>1, <3>1, <3>3
      <3> QED  BY <3>2, <3>3
    <2>7. note' \in [Notes -> Note]
      BY <2>1, <2>6
    <2>8. working' \in [Sessions -> TreeTx]
      BY <2>1, <2>3, BumpIs, CloseIs, TreeFacts
    <2>9. Hierarchy!TreeTypeOK'
      BY <2>1, <2>7, <2>8, TreeFacts, TreeTypesNext
    <2>10. \A m \in Notes \ t.ids : Alive(note, m) => Alive(note', m)
      BY <2>6 DEF Alive
    <2>11. \A m \in Notes : note'[m].row = "kept" => note'[m].batch <= asked
      BY <2>6 DEF TreeIInv
    <2> QED  BY <2>1, <2>3, <2>5, <2>9, <2>10, <2>11, SerialStep DEF t
  <1> QED  BY <1>1, <1>2

LEMMA TreeInitHolds ==
  ASSUME Hierarchy!TreeInit
  PROVE  TreeIInv
  <1>1. /\ note = [n \in Notes |->
                     [row |-> IF n \in DOMAIN Tree THEN "kept" ELSE "unused",
                      parent |-> IF n \in DOMAIN Tree THEN Tree[n] ELSE Top,
                      folder |-> Unfiled, batch |-> 0]]
        /\ folders = Folders /\ working = [s \in Sessions |-> Hierarchy!NoTx] /\ asked = 0
    BY DEF Hierarchy!TreeInit, Hierarchy!Live
  <1>2. ASSUME NEW n \in Notes PROVE note[n] \in Note /\ note[n].batch = 0
    <2>1. (IF n \in DOMAIN Tree THEN Tree[n] ELSE Top) \in Notes \cup {Top}
      BY HierarchyAssumption
    <2> QED  BY <1>1, <2>1, HierarchyAssumption DEF Note
  <1>3. Hierarchy!TreeTypeOK
    BY <1>1, <1>2, NoTxIs, TreeTypes, HierarchyAssumption
  <1>4. \A s \in Sessions : working[s].op = "none"
    BY <1>1, NoTxIs
  <1>5. \A b \in Nat : Rooted(note, b)
    BY <1>2 DEF Rooted, Batch, Trashed
  <1>6. \A s \in Sessions : Relies(note, asked, working[s])
    BY <1>4 DEF Relies
  <1> QED  BY <1>1, <1>2, <1>3, <1>4, <1>5, <1>6 DEF TreeIInv, Serial

LEMMA TreeStep ==
  ASSUME TreeIInv, Hierarchy!TreeNext
  PROVE  TreeIInv'
  <1>1. CASE \E f \in Folders : Hierarchy!deleteFolder(f)
    BY <1>1, DeleteFolderStep
  <1>2. CASE \E s \in Sessions :
                \/ \E n \in Notes, f \in Folders \cup {Unfiled}, p \in Notes \cup {Top} :
                      Hierarchy!moveRead(s, n, f, p)
                \/ \E f \in Folders \cup {Unfiled}, p \in Notes \cup {Top} : Hierarchy!createRead(s, f, p)
    BY <1>2, MoveReadStep, CreateReadStep
  <1>3. CASE \E s \in Sessions, n \in Notes :
                \/ Hierarchy!softDeleteRead(s, n) \/ Hierarchy!restoreRead(s, n)
                \/ Hierarchy!permanentDeleteRead(s, n)
    BY <1>3, SoftDeleteReadStep, RestoreReadStep, PermanentDeleteReadStep
  <1>4. CASE \E s \in Sessions :
                \/ Hierarchy!moveLock(s) \/ Hierarchy!moveCommit(s)
                \/ Hierarchy!createLock(s) \/ Hierarchy!createCommit(s)
                \/ Hierarchy!softDeleteCommit(s) \/ Hierarchy!restoreCommit(s)
                \/ Hierarchy!permanentDeleteCommit(s)
    BY <1>4, MoveLockStep, MoveCommitStep, CreateCommitStep, SoftDeleteCommitStep, RestoreCommitStep,
       PermanentDeleteCommitStep
  <1> QED  BY <1>1, <1>2, <1>3, <1>4 DEF Hierarchy!TreeNext

\* What brings a note back to life is a restoration, and it brings back its batch.
LEMMA RestoreStep ==
  ASSUME TreeIInv, Hierarchy!TreeNext, NEW n \in Notes,
         note[n].row = "kept", note[n].batch # 0, note'[n].batch = 0, NEW m \in Hierarchy!Rows,
         note[m].batch # 0
  PROVE  note'[m].batch = 0 <=> note[m].batch = note[n].batch
  <1>0. /\ \A k \in Notes : note[k] \in Note
        /\ m \in Notes /\ Trashed(note, m) /\ Trashed(note, n)
        /\ ~Hierarchy!IsLive(n) /\ note' # note
    BY TreeFacts DEF Trashed, Alive
  <1>1. ASSUME NEW f \in Folders, Hierarchy!deleteFolder(f) PROVE FALSE
    <2>1. note'[n] = note[n] \/ note'[n] = [note[n] EXCEPT !.folder = Unfiled]
      BY <1>1 DEF Hierarchy!deleteFolder
    <2> QED  BY <1>0, <2>1 DEF Note
  <1>2. ASSUME NEW s \in Sessions, Hierarchy!moveCommit(s) PROVE FALSE
    <2> DEFINE t == working[s]
    <2>1. \/ note'[n] = note[n] \/ note'[n] = [note[n] EXCEPT !.folder = t.folder]
          \/ note'[n] = [note[n] EXCEPT !.parent = t.parent, !.folder = t.folder]
      BY <1>0, <1>2 DEF Hierarchy!moveCommit, Hierarchy!Refuse
    <2> HIDE DEF t
    <2> QED  BY <1>0, <2>1 DEF Note
  <1>3. ASSUME NEW s \in Sessions, Hierarchy!createCommit(s) PROVE FALSE
    <2>1. PICK k \in Notes : note[k].row = "unused" /\ \E row : note' = [note EXCEPT ![k] = row]
      BY <1>0, <1>3 DEF Hierarchy!createCommit, Hierarchy!Refuse
    <2> QED  BY <2>1, TreeFacts
  <1>4. ASSUME NEW s \in Sessions, Hierarchy!softDeleteCommit(s) PROVE FALSE
    <2>1. note'[n] = note[n]
      BY <1>0, <1>4 DEF Hierarchy!softDeleteCommit, Hierarchy!Refuse
    <2> QED  BY <2>1
  <1>5. ASSUME NEW s \in Sessions, Hierarchy!permanentDeleteCommit(s) PROVE FALSE
    <2>1. note'[n] = note[n] \/ note'[n] = [note[n] EXCEPT !.row = "purged", !.parent = Top]
      BY <1>0, <1>5 DEF Hierarchy!permanentDeleteCommit, Hierarchy!Refuse
    <2> QED  BY <1>0, <2>1 DEF Note
  <1>6. CASE \E s \in Sessions : Hierarchy!restoreCommit(s)
    <2>1. PICK s \in Sessions : Hierarchy!restoreCommit(s)
      BY <1>6
    <2> DEFINE t == working[s]
    <2>2. /\ t.op = "restore"
          /\ note' = [k \in Notes |-> IF k \in t.ids THEN [note[k] EXCEPT !.batch = 0] ELSE note[k]]
      BY <1>0, <2>1 DEF Hierarchy!restoreCommit, Hierarchy!Refuse, Hierarchy!Live
    <2>3. t.ids = Batch(note, note[t.id].batch)
      <3>1. Relies(note, asked, t)
        BY TreeFacts
      <3> QED  BY <2>2, <3>1 DEF Relies
    <2> HIDE DEF t
    <2>4. \A k \in Notes : k \in t.ids => note'[k].batch = 0
      <3> DEFINE Back(x) == [x EXCEPT !.batch = 0]
      <3>1. \A k \in Notes : k \in t.ids => note'[k] = Back(note[k])
        BY <2>2
      <3>2. \A x \in Note : Back(x).batch = 0
        BY DEF Note
      <3>3. \A k \in Notes : note[k] \in Note
        BY <1>0
      <3> HIDE DEF Back
      <3> QED  BY <3>1, <3>2, <3>3, Zenon
    <2>5. \A k \in Notes : k \notin t.ids => note'[k] = note[k]
      BY <2>2
    <2>6. n \in t.ids
      BY <2>5
    <2>7. m \in t.ids <=> note[m].batch = note[n].batch
      BY <1>0, <2>3, <2>6 DEF Batch
    <2> QED  BY <1>0, <2>4, <2>5, <2>7
  <1>7. ASSUME NEW s \in Sessions, Hierarchy!moveLock(s) \/ Hierarchy!createLock(s) PROVE FALSE
    BY <1>0, <1>7 DEF Hierarchy!moveLock, Hierarchy!createLock, Hierarchy!Refuse
  <1>8. ASSUME NEW s \in Sessions, NEW k \in Notes, NEW f, NEW p,
               \/ Hierarchy!moveRead(s, k, f, p) \/ Hierarchy!createRead(s, f, p)
               \/ Hierarchy!softDeleteRead(s, k) \/ Hierarchy!restoreRead(s, k)
               \/ Hierarchy!permanentDeleteRead(s, k)
        PROVE  FALSE
    BY <1>0, <1>8 DEF Hierarchy!moveRead, Hierarchy!createRead, Hierarchy!softDeleteRead,
                      Hierarchy!restoreRead, Hierarchy!permanentDeleteRead, Hierarchy!Begin
  <1> QED  BY <1>1, <1>2, <1>3, <1>4, <1>5, <1>6, <1>7, <1>8 DEF Hierarchy!TreeNext

\* What removes a note is a permanent deletion, and it removes what was in the trash.
LEMMA PurgeStep ==
  ASSUME TreeIInv, Hierarchy!TreeNext, NEW n \in Notes, Hierarchy!IsLive(n)
  PROVE  note'[n].row = "kept"
  <1>0. /\ \A k \in Notes : note[k] \in Note
        /\ Alive(note, n) /\ note[n].row = "kept"
    BY TreeFacts DEF Alive
  <1> SUFFICES ASSUME note'[n].row # "kept" PROVE FALSE
    OBVIOUS
  <1>1. note' # note
    BY <1>0
  <1>2. ASSUME NEW f \in Folders, Hierarchy!deleteFolder(f) PROVE FALSE
    <2>1. note'[n] = note[n] \/ note'[n] = [note[n] EXCEPT !.folder = Unfiled]
      BY <1>2 DEF Hierarchy!deleteFolder
    <2> QED  BY <1>0, <2>1 DEF Note
  <1>3. ASSUME NEW s \in Sessions, Hierarchy!moveCommit(s) PROVE FALSE
    <2> DEFINE t == working[s]
    <2>1. \/ note'[n] = note[n] \/ note'[n] = [note[n] EXCEPT !.folder = t.folder]
          \/ note'[n] = [note[n] EXCEPT !.parent = t.parent, !.folder = t.folder]
      BY <1>1, <1>3 DEF Hierarchy!moveCommit, Hierarchy!Refuse
    <2> HIDE DEF t
    <2> QED  BY <1>0, <2>1 DEF Note
  <1>4. ASSUME NEW s \in Sessions, Hierarchy!createCommit(s) PROVE FALSE
    <2>1. PICK k \in Notes : note[k].row = "unused" /\ \E row : note' = [note EXCEPT ![k] = row]
      BY <1>1, <1>4 DEF Hierarchy!createCommit, Hierarchy!Refuse
    <2> QED  BY <1>0, <2>1, TreeFacts
  <1>5. ASSUME NEW s \in Sessions, Hierarchy!softDeleteCommit(s) PROVE FALSE
    <2>1. note'[n] = note[n] \/ note'[n] = [note[n] EXCEPT !.batch = asked]
      BY <1>1, <1>5 DEF Hierarchy!softDeleteCommit, Hierarchy!Refuse
    <2> QED  BY <1>0, <2>1 DEF Note
  <1>6. ASSUME NEW s \in Sessions, Hierarchy!restoreCommit(s) PROVE FALSE
    <2>1. note'[n] = note[n] \/ note'[n] = [note[n] EXCEPT !.batch = 0]
      BY <1>1, <1>6 DEF Hierarchy!restoreCommit, Hierarchy!Refuse, Hierarchy!Live
    <2> QED  BY <1>0, <2>1 DEF Note
  <1>7. ASSUME NEW s \in Sessions, Hierarchy!permanentDeleteCommit(s) PROVE FALSE
    <2>1. working[s].op = "purge" /\ n \in working[s].ids
      BY <1>0, <1>1, <1>7 DEF Hierarchy!permanentDeleteCommit, Hierarchy!Refuse
    <2> QED  BY <1>0, <2>1, TreeFacts DEF Relies
  <1>8. ASSUME NEW s \in Sessions, Hierarchy!moveLock(s) \/ Hierarchy!createLock(s) PROVE FALSE
    BY <1>1, <1>8 DEF Hierarchy!moveLock, Hierarchy!createLock, Hierarchy!Refuse
  <1>9. ASSUME NEW s \in Sessions, NEW k \in Notes, NEW f, NEW p,
               \/ Hierarchy!moveRead(s, k, f, p) \/ Hierarchy!createRead(s, f, p)
               \/ Hierarchy!softDeleteRead(s, k) \/ Hierarchy!restoreRead(s, k)
               \/ Hierarchy!permanentDeleteRead(s, k)
        PROVE  FALSE
    BY <1>1, <1>9 DEF Hierarchy!moveRead, Hierarchy!createRead, Hierarchy!softDeleteRead,
                      Hierarchy!restoreRead, Hierarchy!permanentDeleteRead, Hierarchy!Begin
  <1> QED  BY <1>2, <1>3, <1>4, <1>5, <1>6, <1>7, <1>8, <1>9 DEF Hierarchy!TreeNext

\* The hierarchy at work, and at rest beside the other subjects.
TreeHeld == Is("hierarchy") => TreeIInv

LEMMA TreeHeldStep ==
  ASSUME TreeHeld, [MCNext]_mcVars
  PROVE  /\ TreeHeld'
         /\ \/ UNCHANGED <<note, folders, working, asked>>
            \/ TreeIInv /\ Hierarchy!TreeNext
  <1>1. CASE Is("hierarchy") /\ Hierarchy!TreeNext /\ UNCHANGED subject
    BY <1>1, TreeStep DEF TreeHeld, Is
  <1>2. CASE UNCHANGED <<subject, note, folders, working, asked>>
    <2>1. TreeIInv => TreeIInv'
      <3>1. \A b : Rooted(note', b) <=> Rooted(note, b)
        BY <1>2
      <3> QED  BY <1>2, <3>1, TreeTypes, TreeTypesNext DEF TreeIInv
    <2> QED  BY <1>2, <2>1 DEF TreeHeld, Is
  <1> QED  BY <1>1, <1>2 DEF MCNext, mcVars, hierarchy, order, recurrence, ai

LEMMA TreeHeldFirst == MCInit => TreeHeld
  BY TreeInitHolds DEF MCInit, TreeHeld

\* Restoring a note brings back what its deletion took, all of it, and nothing another
\* deletion took, whatever was moved, created or deleted meanwhile (setSubtreeDeleted).
THEOREM RestoresUndoDeletions == MCSpec => Hierarchy!RestoreUndoesDeletion
  <1> DEFINE Restoring ==
        \A n \in Notes :
          note[n].row = "kept" /\ note[n].batch # 0 /\ note'[n].batch = 0 =>
              \A m \in Hierarchy!Rows : note[m].batch # 0 =>
                  (note'[m].batch = 0 <=> note[m].batch = note[n].batch)
  <1>1. TreeHeld /\ [MCNext]_mcVars => TreeHeld' /\ [Restoring]_<<note, folders, working, asked>>
    BY TreeHeldStep, RestoreStep
  <1> HIDE DEF Restoring
  <1>2. [][Restoring]_<<note, folders, working, asked>> => Hierarchy!RestoreUndoesDeletion
    BY DEF Hierarchy!RestoreUndoesDeletion, Restoring, Hierarchy!Live,
           Hierarchy!treeVars
  <1> QED  BY <1>1, <1>2, TreeHeldFirst, PTL DEF MCSpec

\* A permanent deletion removes no note that is not in the trash (permanentDelete).
THEOREM PurgesSpareTheLiving == MCSpec => Hierarchy!PurgeSparesTheLiving
  <1> DEFINE Sparing == \A n \in Notes : Hierarchy!IsLive(n) => note'[n].row = "kept"
  <1>1. TreeHeld /\ [MCNext]_mcVars => TreeHeld' /\ [Sparing]_<<note, folders, working, asked>>
    BY TreeHeldStep, PurgeStep
  <1> HIDE DEF Sparing
  <1>2. [][Sparing]_<<note, folders, working, asked>> => Hierarchy!PurgeSparesTheLiving
    BY DEF Hierarchy!PurgeSparesTheLiving, Sparing, Hierarchy!treeVars
  <1> QED  BY <1>1, <1>2, TreeHeldFirst, PTL DEF MCSpec

\* So the trash can be relied upon, for any tree and any concurrent transactions
\* (notes.service.ts).
THEOREM TrashIsAlwaysSound == MCSpec => TrashIsSound
  BY RestoresUndoDeletions, PurgesSpareTheLiving DEF TrashIsSound

----------------------------------------------------------------------------
(* Tasks: the calendar, and the dates of a recipe.                         *)

\* The months of the horizon, and the month the dates are within reach of after some updates.
Span == YearMonths * HorizonYears
Start == Len(Before) - MaxUpdates * (Span + 1)
Reach(u) == Start + u * (Span + 1)

LEMMA CalendarIs ==
  /\ Len(Before) \in Nat /\ Len(Before) > 1 /\ Before[1] = 0
  /\ \A m \in 1..Len(Before) : Before[m] \in Nat
  /\ \A m, n \in 1..Len(Before) : m < n => Before[m] < Before[n]
  /\ \A m, n \in 1..Len(Before) - 2 : Before[m + 1] - Before[m] <= Before[n + 2] - Before[n]
  /\ Week \in Nat \ {0} /\ Span \in Nat \ {0} /\ LastDay \in Nat \ {0} /\ MaxUpdates \in Nat
  /\ None \notin Nat
  /\ Start \in 1..Len(Before) /\ LastDay <= Before[Start]
  /\ Reach(0) = Start /\ Reach(MaxUpdates) = Len(Before)
  <1>1. /\ Before \in Seq(Nat) /\ Len(Before) > 1 /\ Before[1] = 0
        /\ \A m, n \in 1..Len(Before) : m < n => Before[m] < Before[n]
        /\ \A m, n \in 1..Len(Before) - 2 : Before[m + 1] - Before[m] <= Before[n + 2] - Before[n]
        /\ {Week, YearMonths, HorizonYears, LastDay} \subseteq Nat \ {0} /\ MaxUpdates \in Nat
        /\ None \notin Nat
    BY CalendarAssumption
  <1>2. Len(Before) \in Nat /\ \A m \in 1..Len(Before) : Before[m] \in Nat
    BY <1>1
  <1>3. Span \in Nat \ {0}
    <2>1. \A a, b \in Nat \ {0} : a * b \in Nat \ {0}
      OBVIOUS
    <2> QED  BY <1>1, <2>1 DEF Span
  <1>4. Start \in 1..Len(Before) /\ LastDay <= Before[Start]
    <2>1. PICK start \in 1..Len(Before) : /\ LastDay <= Before[start]
                                          /\ start + MaxUpdates * (Span + 1) = Len(Before)
      BY CalendarAssumption DEF Span
    <2>2. MaxUpdates * (Span + 1) \in Nat
      BY <1>1, <1>3
    <2>3. start = Start
      BY <1>2, <2>1, <2>2 DEF Start
    <2> QED  BY <2>1, <2>3
  <1>5. MaxUpdates * (Span + 1) \in Nat /\ 0 * (Span + 1) = 0
    BY <1>1, <1>3
  <1>6. Reach(0) = Start /\ Reach(MaxUpdates) = Len(Before)
    BY <1>2, <1>4, <1>5 DEF Reach, Start
  <1> QED  BY <1>1, <1>2, <1>3, <1>4, <1>6

LEMMA ReachGrows ==
  ASSUME NEW u \in 0..MaxUpdates
  PROVE  /\ Reach(u) \in 1..Len(Before)
         /\ u < MaxUpdates => Reach(u + 1) = Reach(u) + Span + 1
  <1> DEFINE s == Span + 1
             p == u * s
             q == MaxUpdates * s
  <1>1. \A a, b, c \in Nat : a <= b => a * c <= b * c /\ a * c \in Nat
    OBVIOUS
  <1>2. \A a, b \in Int : (a + 1) * b = a * b + b
    OBVIOUS
  <1>3. u \in Nat /\ s \in Nat /\ u <= MaxUpdates /\ MaxUpdates \in Nat /\ Span \in Nat
    BY CalendarIs
  <1>4. Reach(u) = Start + p /\ Reach(u + 1) = Start + (u + 1) * s /\ Start + q = Reach(MaxUpdates)
    BY DEF Reach
  <1>5. Reach(MaxUpdates) = Len(Before) /\ Start \in 1..Len(Before) /\ Len(Before) \in Nat
    BY CalendarIs
  <1> HIDE DEF s
  <1>6. p \in Nat /\ q \in Nat /\ p <= q
    BY <1>1, <1>3
  <1>7. (u + 1) * s = p + s
    BY <1>2, <1>3
  <1>8. s = Span + 1
    BY DEF s
  <1> HIDE DEF p, q
  <1>9. Reach(u) \in 1..Len(Before)
    BY <1>4, <1>5, <1>6
  <1>10. Reach(u + 1) = Reach(u) + Span + 1
    BY <1>3, <1>4, <1>5, <1>6, <1>7, <1>8
  <1> QED  BY <1>9, <1>10

\* The month of a date, and nothing but its month, holds it.
LEMMA MonthIs ==
  ASSUME NEW n \in 1..Len(Before), NEW d \in 1..Before[n]
  PROVE  /\ Recurrence!MonthOf(d) \in 1..n - 1
         /\ Before[Recurrence!MonthOf(d)] < d /\ d <= Before[Recurrence!MonthOf(d) + 1]
         /\ \A m \in 1..Len(Before) - 1 :
               Before[m] < d /\ d <= Before[m + 1] => m = Recurrence!MonthOf(d)
  <1> DEFINE Holds(m) == Before[m] < d /\ d <= Before[m + 1]
  <1>0. /\ Len(Before) \in Nat /\ n \in Nat /\ d \in Nat /\ d >= 1 /\ Before[1] = 0
        /\ \A m \in 1..Len(Before) : Before[m] \in Nat
        /\ \A m, k \in 1..Len(Before) : m < k => Before[m] < Before[k]
        /\ d <= Before[n]
    BY CalendarIs
  <1>1. \E m \in 1..n - 1 : Holds(m)
    <2> DEFINE T == {k \in 1..n : d <= Before[k]}
    <2>1. T \in SUBSET Nat /\ n \in T
      BY <1>0
    <2>2. PICK k \in T : \A y \in T : k <= y
      BY <2>1, LeastElement
    <2>3. k \in 1..n /\ d <= Before[k] /\ k # 1
      BY <2>2, <1>0
    <2>4. k - 1 \in 1..n - 1 /\ k - 1 \notin T /\ Before[k - 1] \in Nat
      BY <2>2, <2>3, <1>0
    <2>5. Before[k - 1] < d /\ (k - 1) + 1 = k
      BY <2>4, <2>3, <1>0
    <2> QED  BY <2>3, <2>4, <2>5
  <1>2. ASSUME NEW m \in 1..Len(Before) - 1, NEW k \in 1..Len(Before) - 1, Holds(m), Holds(k)
        PROVE  m = k
    <2>1. ASSUME NEW a \in 1..Len(Before) - 1, NEW b \in 1..Len(Before) - 1, a < b,
                 Holds(a), Holds(b)
          PROVE  FALSE
      <3>1. a + 1 \in 1..Len(Before) /\ b \in 1..Len(Before) /\ a + 1 <= b
        BY <2>1, <1>0
      <3>2. Before[a + 1] <= Before[b] /\ Before[a + 1] \in Nat /\ Before[b] \in Nat
        BY <3>1, <1>0
      <3> QED  BY <2>1, <3>2, <1>0
    <2> QED  BY <2>1, <1>0, <1>2
  <1>3. Recurrence!MonthOf(d) \in 1..Len(Before) - 1 /\ Holds(Recurrence!MonthOf(d))
    <2>1. \E m \in 1..Len(Before) - 1 : Holds(m)
      <3>1. 1..n - 1 \subseteq 1..Len(Before) - 1
        BY <1>0
      <3> HIDE DEF Holds
      <3> QED  BY <1>1, <3>1, Zenon
    <2>2. Recurrence!MonthOf(d) = CHOOSE m \in 1..Len(Before) - 1 : Holds(m)
      BY DEF Recurrence!MonthOf, Recurrence!Months
    <2> HIDE DEF Holds
    <2> QED  BY <2>1, <2>2, Zenon
  <1>4. PICK k \in 1..n - 1 : Holds(k)
    BY <1>1
  <1>5. k = Recurrence!MonthOf(d)
    <2>1. k \in 1..Len(Before) - 1
      BY <1>0, <1>4
    <2> HIDE DEF Holds
    <2> QED  BY <1>2, <1>3, <1>4, <2>1, Zenon
  <1> QED  BY <1>2, <1>3, <1>4, <1>5

LEMMA BeforeGrows ==
  ASSUME NEW m \in 1..Len(Before), NEW n \in 1..Len(Before), m <= n
  PROVE  Before[m] \in Nat /\ Before[n] \in Nat /\ Before[m] <= Before[n]
  BY CalendarIs

\* A date within reach of `u` updates, and its horizon, which one update more reaches.
LEMMA DateIs ==
  ASSUME NEW u \in 0..MaxUpdates, u < MaxUpdates, NEW from \in 1..Before[Reach(u)]
  PROVE  LET mo == Recurrence!MonthOf(from)
         IN  /\ mo \in Nat /\ mo >= 1 /\ mo + Span + 2 <= Len(Before) /\ from \in Nat
             /\ Before[mo] < from /\ from <= Before[mo + 1]
             /\ Recurrence!DayOf(from) \in 1..Recurrence!Length(mo)
             /\ Recurrence!Horizon(from) \in Nat /\ Recurrence!Horizon(from) >= 1
             /\ Recurrence!Horizon(from) <= Before[mo + Span + 2]
             /\ Before[mo + Span + 2] \in Nat
             /\ Before[mo + Span + 2] <= Before[Reach(u + 1)]
             /\ Before[Reach(u + 1)] <= Before[Len(Before)] /\ Before[Len(Before)] \in Nat
             /\ u + 1 \in 0..MaxUpdates
  <1> DEFINE mo == Recurrence!MonthOf(from)
  <1>1. /\ Reach(u) \in 1..Len(Before) /\ Reach(u + 1) = Reach(u) + Span + 1
        /\ u + 1 \in 0..MaxUpdates
    BY ReachGrows, CalendarIs
  <1>2. Reach(u + 1) \in 1..Len(Before)
    BY <1>1, ReachGrows
  <1>3. mo \in 1..Reach(u) - 1 /\ Before[mo] < from /\ from <= Before[mo + 1]
    BY <1>1, MonthIs
  <1>4. Len(Before) \in Nat /\ Span \in Nat
    BY CalendarIs
  <1> HIDE DEF mo
  <1>5. /\ mo \in 1..Len(Before) /\ mo + 1 \in 1..Len(Before) /\ mo + Span \in 1..Len(Before)
        /\ mo + Span + 2 \in 1..Len(Before) /\ mo + Span + 2 <= Reach(u + 1)
        /\ mo \in 1..Len(Before) - 2 /\ mo + Span \in 1..Len(Before) - 2
        /\ mo \in Nat /\ mo >= 1 /\ mo + Span + 2 <= Len(Before)
    <2> DEFINE last == Len(Before)
               reach == Reach(u)
               further == Reach(u + 1)
    <2>1. /\ reach \in 1..last /\ further = reach + Span + 1 /\ further \in 1..last
          /\ mo \in 1..reach - 1 /\ last \in Nat /\ Span \in Nat
      BY <1>1, <1>2, <1>3, <1>4
    <2> HIDE DEF last, reach, further
    <2>2. /\ mo \in Nat /\ mo >= 1 /\ reach \in Nat /\ mo < reach
          /\ mo + Span + 2 <= further /\ further <= last
      BY <2>1
    <2>3. /\ mo \in 1..last /\ mo + 1 \in 1..last /\ mo + Span \in 1..last
          /\ mo + Span + 2 \in 1..last /\ mo + Span + 2 <= last
      BY <2>1, <2>2
    <2>4. mo \in 1..last - 2 /\ mo + Span \in 1..last - 2
      BY <2>1, <2>2
    <2> QED
      BY <2>2, <2>3, <2>4 DEF last, further
  <1>6. /\ Before[mo] \in Nat /\ Before[mo + 1] \in Nat /\ Before[mo + Span] \in Nat
        /\ Before[mo + Span + 2] \in Nat /\ Before[Reach(u + 1)] \in Nat
        /\ Before[Len(Before)] \in Nat /\ Before[mo + Span + 2] <= Before[Reach(u + 1)]
        /\ Before[Reach(u + 1)] <= Before[Len(Before)]
    BY <1>2, <1>4, <1>5, BeforeGrows
  <1>7. Before[mo + 1] - Before[mo] <= Before[mo + Span + 2] - Before[mo + Span]
    BY <1>5, CalendarIs
  <1>8. Recurrence!DayOf(from) = from - Before[mo] /\ Recurrence!Length(mo) = Before[mo + 1] - Before[mo]
    BY DEF Recurrence!DayOf, Recurrence!Length, mo
  <1>9. Recurrence!Horizon(from) = Before[mo + Span] + (from - Before[mo])
    BY <1>8 DEF Recurrence!Horizon, Recurrence!Date, mo, Span
  <1>10. from \in Nat
    BY <1>1, CalendarIs
  <1>11. /\ Recurrence!DayOf(from) \in 1..Recurrence!Length(mo)
         /\ Recurrence!Horizon(from) \in Nat /\ Recurrence!Horizon(from) >= 1
         /\ Recurrence!Horizon(from) <= Before[mo + Span + 2]
    <2> DEFINE a == Before[mo]  b == Before[mo + 1]  c == Before[mo + Span]  d == Before[mo + Span + 2]
    <2>1. a \in Nat /\ b \in Nat /\ c \in Nat /\ d \in Nat /\ b - a <= d - c /\ a < from /\ from <= b
      BY <1>3, <1>6, <1>7
    <2>2. /\ Recurrence!DayOf(from) = from - a /\ Recurrence!Length(mo) = b - a
          /\ Recurrence!Horizon(from) = c + (from - a)
      BY <1>8, <1>9
    <2> HIDE DEF a, b, c, d
    <2>3. /\ from - a \in 1..b - a /\ c + (from - a) \in Nat /\ c + (from - a) >= 1 /\ c + (from - a) <= d
      BY <2>1, <1>10
    <2> QED  BY <2>2, <2>3 DEF d
  <1> QED  BY <1>1, <1>3, <1>5, <1>6, <1>10, <1>11 DEF mo

\* The clamped date k months on is in that month, on the same day or on the last one.
LEMMA ClampedIs ==
  ASSUME NEW u \in 0..MaxUpdates, u < MaxUpdates, NEW from \in 1..Before[Reach(u)],
         NEW k \in 1..Span + 1
  PROVE  LET m == Recurrence!MonthOf(from) + k
             c == Recurrence!addMonthsClamped(from, k)
         IN  /\ m \in 1..Len(Before) - 1 /\ c \in Nat
             /\ Before[m] < c /\ c <= Before[m + 1]
             /\ Recurrence!DayOf(from) \in Nat /\ Recurrence!Length(m) \in Nat
             /\ c = Before[m] + (IF Recurrence!DayOf(from) < Recurrence!Length(m)
                                 THEN Recurrence!DayOf(from) ELSE Recurrence!Length(m))
  <1> DEFINE m == Recurrence!MonthOf(from) + k
             c == Recurrence!addMonthsClamped(from, k)
             day == Recurrence!DayOf(from)
             long == Recurrence!Length(m)
  <1>1. /\ Recurrence!MonthOf(from) \in Nat /\ Recurrence!MonthOf(from) >= 1
        /\ Recurrence!MonthOf(from) + Span + 2 <= Len(Before)
        /\ day \in Nat /\ day >= 1
    <2>1. day \in 1..Recurrence!Length(Recurrence!MonthOf(from))
      BY DateIs
    <2> QED  BY <2>1, DateIs
  <1>2. Len(Before) \in Nat /\ Span \in Nat /\ k \in Nat /\ k >= 1 /\ k <= Span + 1
    BY CalendarIs
  <1>3. m \in 1..Len(Before) - 1 /\ m \in 1..Len(Before) /\ m + 1 \in 1..Len(Before) /\ m < m + 1
    BY <1>1, <1>2
  <1>4. Before[m] \in Nat /\ Before[m + 1] \in Nat /\ Before[m] < Before[m + 1]
    BY <1>3, CalendarIs
  <1>5. long = Before[m + 1] - Before[m]
    BY DEF Recurrence!Length
  <1>6. c = Before[m] + (IF day < long THEN day ELSE long)
    BY DEF Recurrence!addMonthsClamped, Recurrence!Date, Recurrence!Least
  <1> HIDE DEF m, c, day, long
  <1>7. long \in Nat /\ c \in Nat /\ Before[m] < c /\ c <= Before[m + 1]
    <2> DEFINE a == Before[m]  b == Before[m + 1]
    <2>1. a \in Nat /\ b \in Nat /\ a < b /\ long = b - a /\ c = a + (IF day < long THEN day ELSE long)
      BY <1>4, <1>5, <1>6
    <2> HIDE DEF a, b
    <2>2. long \in Nat /\ c \in Nat /\ a < c /\ c <= b
      BY <1>1, <2>1
    <2> QED  BY <2>2 DEF a, b
  <1> QED  BY <1>1, <1>3, <1>6, <1>7 DEF m, c, day, long

\* The dates a recipe may name next, and what it means for one to be the first.
Ahead(r, from, at) ==
    {d \in Recurrence!Cadence(r, from) : d > at /\ d <= Recurrence!Horizon(from)}

First(r, from, at, next) ==
    IF Ahead(r, from, at) = {} THEN next = None
    ELSE next \in Ahead(r, from, at) /\ \A d \in Ahead(r, from, at) : next <= d

Cut(from, next) == IF next = None \/ next > Recurrence!Horizon(from) THEN None ELSE next

\* The cut at the horizon keeps what is first, first.
LEMMA CutIsFirst ==
  ASSUME NEW r, NEW from, NEW at, NEW next,
         Recurrence!Horizon(from) \in Nat,
         \A d \in Ahead(r, from, at) : d \in Nat,
         \/ next = None /\ Ahead(r, from, at) = {}
         \/ /\ next \in Nat /\ next > at
            /\ next <= Recurrence!Horizon(from) => next \in Recurrence!Cadence(r, from)
            /\ \A d \in Ahead(r, from, at) : next <= d
  PROVE  First(r, from, at, Cut(from, next))
  <1>0. None \notin Nat
    BY CalendarIs
  <1>1. CASE next = None /\ Ahead(r, from, at) = {}
    BY <1>1 DEF First, Cut
  <1>2. CASE /\ next \in Nat /\ next > at
             /\ next <= Recurrence!Horizon(from) => next \in Recurrence!Cadence(r, from)
             /\ \A d \in Ahead(r, from, at) : next <= d
    <2>1. CASE next <= Recurrence!Horizon(from)
      <3>1. next \in Ahead(r, from, at)
        BY <1>2, <2>1 DEF Ahead
      <3>2. Cut(from, next) = next
        BY <1>0, <1>2, <2>1 DEF Cut
      <3> QED  BY <1>2, <3>1, <3>2 DEF First
    <2>2. CASE next > Recurrence!Horizon(from)
      <3>1. Ahead(r, from, at) = {}
        <4>1. ASSUME NEW d \in Ahead(r, from, at) PROVE FALSE
          <5>1. d \in Nat /\ next <= d /\ d <= Recurrence!Horizon(from)
            BY <1>2, <4>1 DEF Ahead
          <5> QED  BY <1>2, <2>2, <5>1
        <4> QED  BY <4>1
      <3>2. Cut(from, next) = None
        BY <2>2 DEF Cut
      <3> QED  BY <3>1, <3>2 DEF First
    <2> QED  BY <1>2, <2>1, <2>2
  <1> QED  BY <1>1, <1>2

\* The floor is the later of the date and the clock.
LEMMA FloorIs ==
  ASSUME NEW a \in Nat, NEW b \in Nat
  PROVE  /\ Recurrence!Greatest(a, b) \in Nat
         /\ a <= Recurrence!Greatest(a, b) /\ b <= Recurrence!Greatest(a, b)
         /\ \A d \in Nat : d > a /\ d > b <=> d > Recurrence!Greatest(a, b)
  BY DEF Recurrence!Greatest

\* What is known of a division.
LEMMA DivisionIs ==
  ASSUME NEW x \in Nat, NEW y \in Nat, y > 0
  PROVE  /\ x \div y \in Nat
         /\ y * (x \div y) <= x /\ x < y * ((x \div y) + 1)
         /\ x % y = 0 => x = y * (x \div y)
  <1>1. x \div y \in Nat
    OBVIOUS
  <1>2. y * (x \div y) <= x
    OBVIOUS
  <1>3. x < y * ((x \div y) + 1)
    OBVIOUS
  <1>4. ASSUME x % y = 0 PROVE x = y * (x \div y)
    BY <1>4
  <1> QED  BY <1>1, <1>2, <1>3, <1>4

LEMMA ProductsGrow ==
  ASSUME NEW x \in Nat, NEW y \in Nat, NEW z \in Nat
  PROVE  x * y \in Nat /\ (y <= z => x * y <= x * z)
  OBVIOUS

LEMMA MultipleIs ==
  ASSUME NEW x \in Nat, NEW y \in Nat, y > 0
  PROVE  (y * x) % y = 0
  OBVIOUS

\* A fixed interval is counted from the date, past the floor, once at least.
LEMMA FixedIs ==
  ASSUME NEW from \in Nat, NEW w \in Nat \ {0}, NEW floor \in Nat, from <= floor
  PROVE  LET c == Recurrence!advanceFixed(from, w, floor)
         IN  /\ c \in Nat /\ c > floor /\ (c - from) % w = 0
             /\ \A d \in Nat : d > floor /\ (d - from) % w = 0 => c <= d
  <1> DEFINE a == floor - from
             q == a \div w
             t == w * (q + 1)
             c == Recurrence!advanceFixed(from, w, floor)
  <1>1. a \in Nat /\ w \in Nat /\ w > 0
    OBVIOUS
  <1> HIDE DEF a
  <1>2. q \in Nat /\ w * q <= a /\ a < t
    BY <1>1, DivisionIs
  <1>3. c = from + t
    <2>1. Recurrence!Greatest(1, q + 1) = q + 1
      BY <1>2 DEF Recurrence!Greatest
    <2> QED  BY <2>1 DEF Recurrence!advanceFixed, a
  <1> HIDE DEF q, c
  <1>4. t \in Nat /\ t % w = 0
    <2>1. q + 1 \in Nat
      BY <1>2
    <2> QED  BY <1>1, <2>1, ProductsGrow, MultipleIs
  <1>5. c \in Nat /\ c > floor /\ c - from = t
    <2> HIDE DEF t
    <2> QED  BY <1>1, <1>2, <1>3, <1>4 DEF a
  <1>6. ASSUME NEW d \in Nat, d > floor, (d - from) % w = 0
        PROVE  c <= d
    <2> DEFINE e == d - from
               j == e \div w
    <2>1. e \in Nat /\ e > a /\ e % w = 0
      BY <1>1, <1>6 DEF a
    <2> HIDE DEF e
    <2>2. j \in Nat /\ e = w * j
      BY <1>1, <2>1, DivisionIs
    <2> HIDE DEF j
    <2>3. ASSUME j <= q PROVE FALSE
      <3> DEFINE m == w * j  n == w * q
      <3>1. m \in Nat /\ n \in Nat /\ m <= n
        BY <1>1, <1>2, <2>2, <2>3, ProductsGrow
      <3>2. e = m /\ n <= a
        BY <1>2, <2>2
      <3> HIDE DEF m, n
      <3> QED  BY <1>1, <2>1, <3>1, <3>2
    <2>4. q + 1 \in Nat /\ q + 1 <= j
      BY <1>2, <2>2, <2>3
    <2>5. t <= w * j
      BY <1>1, <2>2, <2>4, ProductsGrow
    <2>6. t <= e
      BY <2>2, <2>5
    <2> HIDE DEF t
    <2> QED  BY <1>3, <1>4, <1>6, <2>1, <2>6 DEF e
  <1> QED  BY <1>4, <1>5, <1>6 DEF c

\* A later month gives a later date.
LEMMA ClampedGrows ==
  ASSUME NEW u \in 0..MaxUpdates, u < MaxUpdates, NEW from \in 1..Before[Reach(u)],
         NEW k \in 1..Span + 1, NEW j \in 1..Span + 1, k <= j
  PROVE  Recurrence!addMonthsClamped(from, k) <= Recurrence!addMonthsClamped(from, j)
  <1> DEFINE mo == Recurrence!MonthOf(from)
             c == Recurrence!addMonthsClamped(from, k)
             d == Recurrence!addMonthsClamped(from, j)
  <1>1. CASE k = j
    <2>1. c \in Nat
      BY ClampedIs
    <2> QED  BY <1>1, <2>1
  <1>2. CASE k < j
    <2>1. mo + k \in 1..Len(Before) - 1 /\ c \in Nat /\ c <= Before[mo + k + 1]
      BY ClampedIs
    <2>2. mo + j \in 1..Len(Before) - 1 /\ d \in Nat /\ Before[mo + j] < d
      BY ClampedIs
    <2>3. mo \in Nat /\ Len(Before) \in Nat /\ k \in Nat /\ j \in Nat
      BY DateIs, CalendarIs
    <2> HIDE DEF mo, c, d
    <2>4. mo + k + 1 \in 1..Len(Before) /\ mo + j \in 1..Len(Before) /\ mo + k + 1 <= mo + j
      BY <1>2, <2>1, <2>2, <2>3
    <2>5. /\ Before[mo + k + 1] \in Nat /\ Before[mo + j] \in Nat
          /\ Before[mo + k + 1] <= Before[mo + j]
      BY <2>4, BeforeGrows
    <2>6. c <= d
      BY <2>1, <2>2, <2>5
    <2> QED  BY <2>6 DEF c, d
  <1>3. k \in Int /\ j \in Int
    BY CalendarIs
  <1> QED  BY <1>1, <1>2, <1>3

\* The loop over the months looks at dates of the recipe, and at every one up to the horizon.
LEMMA ClampedIsMonthly ==
  ASSUME NEW u \in 0..MaxUpdates, u < MaxUpdates, NEW from \in 1..Before[Reach(u)]
  PROVE  /\ \A k \in 1..Span + 1 :
               Recurrence!addMonthsClamped(from, k) \in Recurrence!Cadence("monthly", from)
         /\ \A d \in Recurrence!Cadence("monthly", from) :
               d <= Recurrence!Horizon(from) =>
                  \E k \in 1..Span + 1 : d = Recurrence!addMonthsClamped(from, k)
  <1> DEFINE mo == Recurrence!MonthOf(from)
             day == Recurrence!DayOf(from)
             top == Before[Len(Before)]
  <1>0. /\ mo \in Nat /\ mo >= 1 /\ mo + Span + 2 <= Len(Before) /\ Len(Before) \in Nat
        /\ Span \in Nat /\ day \in Nat /\ top \in Nat /\ Len(Before) \in 1..Len(Before)
        /\ Recurrence!Horizon(from) \in Nat
        /\ Recurrence!Horizon(from) <= Before[mo + Span + 2]
    <2>1. /\ day \in 1..Recurrence!Length(mo)
          /\ mo \in Nat /\ mo >= 1 /\ mo + Span + 2 <= Len(Before)
          /\ Recurrence!Horizon(from) \in Nat
          /\ Recurrence!Horizon(from) <= Before[mo + Span + 2] /\ top \in Nat
      BY DateIs
    <2>2. Span \in Nat /\ Len(Before) \in Nat /\ Len(Before) > 1
      BY CalendarIs
    <2> HIDE DEF mo, day, top
    <2>3. day \in Nat /\ Len(Before) \in 1..Len(Before)
      BY <2>1, <2>2
    <2> QED  BY <2>1, <2>2, <2>3
  <1>1. \A d : d \in Recurrence!Cadence("monthly", from) <=>
           /\ d \in 1..top /\ Recurrence!MonthOf(d) > mo
           /\ \/ Recurrence!DayOf(d) = day
              \/ /\ Recurrence!DayOf(d) < day
                 /\ Recurrence!DayOf(d) = Recurrence!Length(Recurrence!MonthOf(d))
    BY DEF Recurrence!Cadence, Recurrence!Dates
  <1>2. ASSUME NEW k \in 1..Span + 1
        PROVE  Recurrence!addMonthsClamped(from, k) \in Recurrence!Cadence("monthly", from)
    <2> DEFINE m == mo + k
               c == Recurrence!addMonthsClamped(from, k)
               long == Recurrence!Length(m)
    <2>1. /\ m \in 1..Len(Before) - 1 /\ c \in Nat /\ Before[m] < c /\ c <= Before[m + 1]
          /\ long \in Nat /\ c = Before[m] + (IF day < long THEN day ELSE long)
      BY ClampedIs
    <2> HIDE DEF mo, day, c, long
    <2>2. m \in 1..Len(Before) /\ m + 1 \in 1..Len(Before) /\ m + 1 <= Len(Before) /\ m > mo
      BY <1>0, <2>1
    <2>3. Before[m] \in Nat /\ Before[m + 1] \in Nat /\ Before[m + 1] <= top
      BY <1>0, <2>2, BeforeGrows
    <2>4. c \in 1..top
      <3>1. \A x, lo, hi, last \in Nat : lo < x /\ x <= hi /\ hi <= last => x \in 1..last
        OBVIOUS
      <3>2. Before[m] < c /\ c <= Before[m + 1] /\ Before[m + 1] <= top
        BY <2>1, <2>3
      <3>3. /\ Before[m] \in Nat /\ Before[m + 1] \in Nat
            /\ top \in Nat /\ c \in Nat
        BY <1>0, <2>1, <2>3
      <3> HIDE DEF m, top
      <3> QED  BY <3>1, <3>2, <3>3
    <2>5. Recurrence!MonthOf(c) = m
      BY <1>0, <2>1, <2>4, MonthIs
    <2>6. Recurrence!DayOf(c) = c - Before[m]
      BY <2>5 DEF Recurrence!DayOf
    <2>7. \A a \in Nat : c = a + (IF day < long THEN day ELSE long) =>
             c - a = day \/ (c - a < day /\ c - a = long)
      <3>1. day \in Nat /\ long \in Nat /\ c \in Nat
        BY <1>0, <2>1
      <3> QED  BY <3>1
    <2>8. \/ Recurrence!DayOf(c) = day
          \/ /\ Recurrence!DayOf(c) < day
             /\ Recurrence!DayOf(c) = Recurrence!Length(Recurrence!MonthOf(c))
      BY <2>1, <2>3, <2>5, <2>6, <2>7 DEF long
    <2> QED  BY <1>1, <2>2, <2>4, <2>5, <2>8 DEF c
  <1>3. ASSUME NEW d \in Recurrence!Cadence("monthly", from), d <= Recurrence!Horizon(from)
        PROVE  \E k \in 1..Span + 1 : d = Recurrence!addMonthsClamped(from, k)
    <2> DEFINE m == Recurrence!MonthOf(d)
               k == m - mo
               long == Recurrence!Length(m)
    <2>1. /\ d \in 1..top /\ m > mo
          /\ Recurrence!DayOf(d) = day \/ (Recurrence!DayOf(d) < day /\ Recurrence!DayOf(d) = long)
      <3> HIDE DEF mo, day, top
      <3>1. d \in Recurrence!Cadence("monthly", from)
        BY <1>3
      <3> QED  BY <1>1, <3>1, Zenon
    <2>2. d \in 1..Before[mo + Span + 2] /\ mo + Span + 2 \in 1..Len(Before)
      <3>1. mo + Span + 2 \in 1..Len(Before)
        BY <1>0
      <3>2. Before[mo + Span + 2] \in Nat
        BY <3>1, CalendarIs
      <3> HIDE DEF mo, top
      <3> QED  BY <1>0, <1>3, <2>1, <3>1, <3>2
    <2>3. m \in 1..mo + Span + 1 /\ Before[m] < d /\ d <= Before[m + 1]
      <3>1. m \in 1..(mo + Span + 2) - 1 /\ Before[m] < d /\ d <= Before[m + 1]
        BY <2>2, MonthIs
      <3> HIDE DEF m, mo
      <3> QED  BY <1>0, <3>1
    <2>4. Recurrence!DayOf(d) = d - Before[m] /\ long = Before[m + 1] - Before[m]
      BY DEF Recurrence!DayOf, Recurrence!Length
    <2> HIDE DEF m, mo, long, day, top
    <2>5. k \in 1..Span + 1 /\ mo + k = m /\ m \in 1..Len(Before) /\ m + 1 \in 1..Len(Before)
      BY <1>0, <2>1, <2>3
    <2> HIDE DEF k
    <2>6. Recurrence!addMonthsClamped(from, k) = Before[m] + (IF day < long THEN day ELSE long)
      BY <2>5, ClampedIs DEF mo, day, long
    <2>7. Before[m] \in Nat /\ Before[m + 1] \in Nat
      BY <2>5, CalendarIs
    <2>8. Before[m] + (IF day < long THEN day ELSE long) = d
      <3> DEFINE a == Before[m]  b == Before[m + 1]
      <3>1. /\ a \in Nat /\ b \in Nat /\ a < d /\ d <= b /\ long = b - a
            /\ d - a = day \/ (d - a < day /\ d - a = long)
        BY <2>1, <2>3, <2>4, <2>7
      <3> HIDE DEF a, b
      <3>2. a + (IF day < long THEN day ELSE long) = d
        BY <1>0, <2>1, <3>1
      <3> QED  BY <3>2 DEF a
    <2> QED  BY <2>5, <2>6, <2>8
  <1> QED  BY <1>2, <1>3

\* The loop stops at the first date of the recipe after the floor, if there is one up to the
\* horizon.
LEMMA MonthlyIs ==
  ASSUME NEW u \in 0..MaxUpdates, u < MaxUpdates, NEW from \in 1..Before[Reach(u)],
         NEW floor \in Nat
  PROVE  LET n == Recurrence!advanceMonthly(from, floor)
             later == {d \in Recurrence!Cadence("monthly", from) :
                          d > floor /\ d <= Recurrence!Horizon(from)}
         IN  \/ n = None /\ later = {}
             \/ /\ n \in Nat /\ n > floor /\ n \in Recurrence!Cadence("monthly", from)
                /\ \A d \in later : n <= d
  <1> DEFINE c(k) == Recurrence!addMonthsClamped(from, k)
             ahead == {k \in 1..Span + 1 : c(k) > floor}
             n == Recurrence!advanceMonthly(from, floor)
             later == {d \in Recurrence!Cadence("monthly", from) :
                          d > floor /\ d <= Recurrence!Horizon(from)}
  <1>1. n = IF ahead = {} THEN None ELSE c(CHOOSE k \in ahead : \A j \in ahead : k <= j)
    BY DEF Recurrence!advanceMonthly, Span
  <1>2. \A d \in later : \E k \in ahead : d = c(k)
    BY ClampedIsMonthly
  <1>3. CASE ahead = {}
    BY <1>1, <1>2, <1>3
  <1>4. CASE ahead # {}
    <2>1. ahead \in SUBSET Nat
      BY CalendarIs
    <2> DEFINE k == CHOOSE k \in ahead : \A j \in ahead : k <= j
    <2>2. k \in ahead /\ \A j \in ahead : k <= j
      <3> HIDE DEF ahead
      <3>1. \E x \in ahead : \A j \in ahead : x <= j
        BY <1>4, <2>1, LeastElement
      <3> QED  BY <3>1
    <2> HIDE DEF k
    <2>3. n = c(k)
      BY <1>1, <1>4 DEF k
    <2>4. k \in 1..Span + 1 /\ c(k) > floor /\ c(k) \in Recurrence!Cadence("monthly", from)
      BY <2>2, ClampedIsMonthly
    <2>5. c(k) \in Nat
      BY <2>4, ClampedIs
    <2>6. \A d \in later : c(k) <= d
      <3>1. ASSUME NEW j \in ahead PROVE c(k) <= c(j)
        <4>1. k <= j /\ j \in 1..Span + 1
          BY <2>2, <3>1
        <4> QED  BY <2>4, <4>1, ClampedGrows
      <3> HIDE DEF c, ahead, later
      <3> QED  BY <1>2, <3>1
    <2> HIDE DEF n, c, later
    <2>7. n \in Nat /\ n > floor /\ n \in Recurrence!Cadence("monthly", from) /\ \A d \in later : n <= d
      BY <2>3, <2>4, <2>5, <2>6
    <2> QED  BY <2>7 DEF n, later
  <1> QED  BY <1>3, <1>4

\* What the service is given for the successor: nothing, or a date ahead, up to the horizon;
\* and, unless the recipe is a cron expression, the first date of the recipe there.
LEMMA NextIs ==
  ASSUME NEW u \in 0..MaxUpdates, u < MaxUpdates, NEW from \in 1..Before[Reach(u)],
         now \in Nat, NEW r \in {"daily", "weekly", "monthly", "custom"},
         NEW next \in Recurrence!nextOccurrence(r, from)
  PROVE  /\ \/ next = None
            \/ /\ next \in 1..Before[Reach(u + 1)] /\ next > now /\ next > from
               /\ next <= Recurrence!Horizon(from)
         /\ r # "custom" => First(r, from, now, next)
  <1> DEFINE floor == Recurrence!Greatest(from, now)
             top == Before[Len(Before)]
             far == Recurrence!Horizon(from)
  <1>1. PICK n \in Recurrence!advance(r, from, floor) : next = Cut(from, n)
    BY DEF Recurrence!nextOccurrence, Cut
  <1>2. /\ from \in Nat /\ far \in Nat /\ far >= 1 /\ far <= Before[Reach(u + 1)]
        /\ Before[Reach(u + 1)] \in Nat /\ far <= top /\ top \in Nat
    <2> DEFINE a == Before[Recurrence!MonthOf(from) + Span + 2]  b == Before[Reach(u + 1)]
    <2>1. /\ from \in Nat /\ far \in Nat /\ far >= 1 /\ far <= a /\ a \in Nat /\ a <= b
          /\ b <= top /\ top \in Nat
      BY DateIs
    <2>2. b \in Nat
      <3>1. Reach(u + 1) \in 1..Len(Before)
        BY DateIs, ReachGrows
      <3> QED  BY <3>1, CalendarIs
    <2> HIDE DEF a, b, far, top
    <2>3. far <= b /\ far <= top
      BY <2>1, <2>2
    <2> QED  BY <2>1, <2>2, <2>3 DEF b
  <1>3. /\ floor \in Nat /\ from <= floor /\ now <= floor
        /\ \A d \in Nat : d > from /\ d > now <=> d > floor
    BY <1>2, FloorIs
  <1>4. None \notin Nat
    BY CalendarIs
  <1> HIDE DEF floor, top, far
  <1>5. \A d \in Ahead(r, from, now) : d \in Recurrence!Cadence(r, from) /\ d > now /\ d <= far
    BY DEF Ahead, far
  <1>6. CASE r = "custom"
    <2>1. n \in {floor + 1, far, far + 1, None} \ 1..floor
      BY <1>6, Zenon DEF Recurrence!advance, far
    <2>2. n = None \/ (n \in Nat /\ n > floor)
      BY <1>2, <1>3, <2>1
    <2> QED  BY <1>1, <1>2, <1>3, <1>4, <1>6, <2>2 DEF Cut, far
  <1>7. CASE r = "monthly"
    <2>1. n = Recurrence!advanceMonthly(from, floor)
      BY <1>7 DEF Recurrence!advance
    <2> DEFINE later == {d \in Recurrence!Cadence("monthly", from) : d > floor /\ d <= far}
    <2>2. \/ n = None /\ later = {}
          \/ /\ n \in Nat /\ n > floor /\ n \in Recurrence!Cadence("monthly", from)
             /\ \A d \in later : n <= d
      BY <1>3, <2>1, MonthlyIs DEF far
    <2>3. \A d \in Ahead(r, from, now) : d \in Nat /\ d > from
      <3>1. ASSUME NEW d \in Recurrence!Cadence("monthly", from), d <= far
            PROVE  d \in Nat /\ d > from
        <4>1. PICK k \in 1..Span + 1 : d = Recurrence!addMonthsClamped(from, k)
          BY <3>1, ClampedIsMonthly DEF far
        <4> DEFINE mo == Recurrence!MonthOf(from)
        <4>2. mo + k \in 1..Len(Before) - 1 /\ d \in Nat /\ Before[mo + k] < d
          BY <4>1, ClampedIs
        <4>3. mo \in Nat /\ mo >= 1 /\ from <= Before[mo + 1] /\ k \in Nat /\ k >= 1 /\ Len(Before) \in Nat
          BY DateIs, CalendarIs
        <4> HIDE DEF mo
        <4>4. mo + 1 \in 1..Len(Before) /\ mo + k \in 1..Len(Before) /\ mo + 1 <= mo + k
          BY <4>2, <4>3
        <4>5. Before[mo + 1] \in Nat /\ Before[mo + k] \in Nat /\ Before[mo + 1] <= Before[mo + k]
          BY <4>4, BeforeGrows
        <4> QED  BY <1>2, <4>2, <4>3, <4>5
      <3> QED  BY <1>5, <1>7, <3>1
    <2>4. Ahead(r, from, now) \subseteq later
      BY <1>3, <1>5, <1>7, <2>3
    <2>5. First(r, from, now, Cut(from, n))
      <3>1. n = None => Ahead(r, from, now) = {}
        BY <1>4, <2>2, <2>4
      <3>2. n # None =>
               /\ n \in Nat /\ n > now /\ n \in Recurrence!Cadence(r, from)
               /\ \A d \in Ahead(r, from, now) : n <= d
        <4> HIDE DEF later
        <4> QED  BY <1>3, <1>7, <2>2, <2>4
      <3> QED  BY <1>2, <2>3, <3>1, <3>2, CutIsFirst DEF far
    <2>6. n = None \/ (n \in Nat /\ n > floor)
      BY <2>2
    <2>7. \/ next = None
          \/ next \in Nat /\ next > floor /\ next <= far
      BY <1>1, <1>2, <2>6 DEF Cut, far
    <2> QED  BY <1>1, <1>2, <1>3, <2>5, <2>7 DEF far
  <1>8. CASE r \in {"daily", "weekly"}
    <2> DEFINE w == IF r = "daily" THEN 1 ELSE Week
    <2>1. w \in Nat \ {0}
      BY CalendarIs
    <2>2. n = Recurrence!advanceFixed(from, w, floor)
      BY <1>8 DEF Recurrence!advance
    <2>3. \A d : d \in Recurrence!Cadence(r, from) <=> d \in 1..top /\ d > from /\ (d - from) % w = 0
      <3>1. CASE r = "daily"
        <4>1. \A d \in Nat : d > from => (d - from) % 1 = 0
          <5>1. \A x \in Nat : x % 1 = 0
            OBVIOUS
          <5> QED  BY <1>2, <5>1
        <4>2. \A d : d \in Recurrence!Cadence(r, from) <=> d \in 1..top /\ d > from
          BY <3>1 DEF Recurrence!Cadence, Recurrence!Dates, top
        <4> QED  BY <1>2, <3>1, <4>1, <4>2
      <3>2. CASE r = "weekly"
        BY <3>2 DEF Recurrence!Cadence, Recurrence!Dates, top
      <3> QED  BY <1>8, <3>1, <3>2
    <2> HIDE DEF w
    <2>4. /\ n \in Nat /\ n > floor /\ (n - from) % w = 0
          /\ \A d \in Nat : d > floor /\ (d - from) % w = 0 => n <= d
      BY <1>2, <1>3, <2>1, <2>2, FixedIs
    <2>5. n > now /\ n > from /\ n >= 1
      BY <1>2, <1>3, <2>4
    <2>6. n <= far => n \in Recurrence!Cadence(r, from)
      <3>1. n <= far => n \in 1..top
        BY <1>2, <2>4, <2>5
      <3> QED  BY <2>3, <2>4, <2>5, <3>1
    <2>7. \A d \in Ahead(r, from, now) : d \in Nat /\ d > floor /\ n <= d
      <3>1. ASSUME NEW d \in Ahead(r, from, now) PROVE d \in Nat /\ d > floor /\ n <= d
        <4>1. d \in 1..top /\ d > from /\ (d - from) % w = 0 /\ d > now
          BY <1>5, <2>3, <3>1
        <4>2. d \in Nat
          BY <1>2, <4>1
        <4>3. d > floor
          BY <1>3, <4>1, <4>2
        <4> QED  BY <2>4, <4>1, <4>2, <4>3
      <3> QED  BY <3>1
    <2>8. First(r, from, now, Cut(from, n))
      BY <1>2, <2>4, <2>5, <2>6, <2>7, CutIsFirst DEF far
    <2>9. \/ next = None
          \/ next \in Nat /\ next > floor /\ next <= far
      BY <1>1, <1>2, <2>4 DEF Cut, far
    <2> QED  BY <1>1, <1>2, <1>3, <2>8, <2>9 DEF far
  <1> QED  BY <1>6, <1>7, <1>8

----------------------------------------------------------------------------
(* Tasks: the clock and the updates.                                       *)

Due(u) == (1..Before[Reach(u)]) \cup {None}
Task(u) == [due : Due(u), status : {"todo", "done"}, recurrence : Recurrence!Recipes]

RecurrenceIInv ==
    /\ now \in Recurrence!Days /\ updates \in 0..MaxUpdates /\ task \in Task(updates)
    /\ Recurrence!SuccessorIsAhead /\ Recurrence!SuccessorIsFirst

LEMMA DueIs ==
  ASSUME NEW u \in 0..MaxUpdates
  PROVE  /\ Recurrence!Days \subseteq 1..Before[Reach(u)] /\ Recurrence!Days \subseteq Nat
         /\ Due(u) \subseteq Recurrence!Dates \cup {None}
         /\ u < MaxUpdates => Due(u) \subseteq Due(u + 1) /\ u + 1 \in 0..MaxUpdates
  <1>1. /\ Reach(u) \in 1..Len(Before) /\ Reach(0) = Start /\ Start \in 1..Len(Before)
        /\ Len(Before) \in Nat /\ LastDay \in Nat /\ LastDay <= Before[Start] /\ MaxUpdates \in Nat
        /\ Span \in Nat
    BY CalendarIs, ReachGrows
  <1>2. Start <= Reach(u) /\ Len(Before) \in 1..Len(Before) /\ Reach(u) <= Len(Before)
    <2>1. Reach(u) = Start + u * (Span + 1)
      BY DEF Reach
    <2>2. u * (Span + 1) \in Nat
      BY <1>1, ProductsGrow
    <2> QED  BY <1>1, <2>1, <2>2
  <1>3. /\ Before[Start] \in Nat /\ Before[Reach(u)] \in Nat /\ Before[Len(Before)] \in Nat
        /\ Before[Start] <= Before[Reach(u)] /\ Before[Reach(u)] <= Before[Len(Before)]
    BY <1>1, <1>2, BeforeGrows
  <1>4. ASSUME u < MaxUpdates PROVE Due(u) \subseteq Due(u + 1) /\ u + 1 \in 0..MaxUpdates
    <2>1. Reach(u + 1) = Reach(u) + Span + 1 /\ u + 1 \in 0..MaxUpdates
      BY <1>1, <1>4, ReachGrows
    <2>2. Reach(u + 1) \in 1..Len(Before)
      BY <2>1, ReachGrows
    <2>3. Reach(u) <= Reach(u + 1)
      BY <1>1, <2>1, <2>2
    <2>4. Before[Reach(u + 1)] \in Nat /\ Before[Reach(u)] <= Before[Reach(u + 1)]
      BY <1>1, <2>2, <2>3, BeforeGrows
    <2> QED  BY <1>3, <2>1, <2>4 DEF Due
  <1> QED  BY <1>1, <1>3, <1>4 DEF Recurrence!Days, Due, Recurrence!Dates

LEMMA RecurrenceInitIInv == Recurrence!RecurrenceInit => RecurrenceIInv
  <1> SUFFICES ASSUME Recurrence!RecurrenceInit PROVE RecurrenceIInv
    OBVIOUS
  <1>1. 0 \in 0..MaxUpdates /\ 1 \in Recurrence!Days
    BY CalendarIs DEF Recurrence!Days
  <1>2. Recurrence!Days \cup {None} \subseteq Due(0)
    BY <1>1, DueIs DEF Due
  <1>3. task \in Task(0)
    BY <1>2 DEF Recurrence!RecurrenceInit, Task
  <1> QED
    BY <1>1, <1>3 DEF Recurrence!RecurrenceInit, RecurrenceIInv, Recurrence!SuccessorIsAhead,
                      Recurrence!SuccessorIsFirst

LEMMA UpdateStep ==
  ASSUME RecurrenceIInv, NEW due \in {task.due, None, now}, NEW status \in {"todo", "done"},
         NEW r \in {task.recurrence, "monthly"}, Recurrence!update(due, status, r)
  PROVE  RecurrenceIInv'
  <1>1. /\ now \in Recurrence!Days /\ updates \in 0..MaxUpdates /\ updates < MaxUpdates
        /\ updates' = updates + 1 /\ now' = now /\ now \in Nat
        /\ now \in 1..Before[Reach(updates)] /\ updates + 1 \in 0..MaxUpdates
    BY DueIs DEF RecurrenceIInv, Recurrence!update, Recurrence!Updates
  <1>2. due \in Due(updates) /\ Due(updates) \subseteq Due(updates + 1) /\ r \in Recurrence!Recipes
    <2>1. task.due \in Due(updates) /\ task.recurrence \in Recurrence!Recipes
      BY DEF RecurrenceIInv, Task
    <2>2. now \in Due(updates) /\ None \in Due(updates) /\ "monthly" \in Recurrence!Recipes
      BY <1>1 DEF Due, Recurrence!Recipes
    <2> QED  BY <1>1, <2>1, <2>2, DueIs
  <1> DEFINE changed == [due |-> due, status |-> status, recurrence |-> r]
             spawning == status = "done" /\ task.status # "done" /\ r # "none" /\ due # None
  <1>3. changed \in Task(updates + 1)
    BY <1>2 DEF Task
  <1>4. CASE ~spawning
    <2>1. task' = changed /\ UNCHANGED spawn
      BY <1>4 DEF Recurrence!update
    <2> QED
      BY <1>1, <1>3, <2>1 DEF RecurrenceIInv, Recurrence!SuccessorIsAhead,
                              Recurrence!SuccessorIsFirst
  <1>5. CASE spawning
    <2>1. PICK next \in Recurrence!nextOccurrence(r, due) :
             /\ spawn' = [recurrence |-> r, from |-> due, at |-> now, next |-> next]
             /\ \/ task' = changed
                \/ /\ next # None
                   /\ task' = [due |-> next, status |-> "todo", recurrence |-> r]
      BY <1>5 DEF Recurrence!update
    <2>2. due \in 1..Before[Reach(updates)] /\ r \in {"daily", "weekly", "monthly", "custom"}
      BY <1>2, <1>5 DEF Due, Recurrence!Recipes
    <2>3. /\ \/ next = None
             \/ /\ next \in 1..Before[Reach(updates + 1)] /\ next > now /\ next > due
                /\ next <= Recurrence!Horizon(due)
          /\ r # "custom" => First(r, due, now, next)
      BY <1>1, <2>2, NextIs
    <2>4. task' \in Task(updates + 1)
      <3>1. next # None => next \in Due(updates + 1)
        BY <2>3 DEF Due
      <3> QED  BY <1>2, <1>3, <2>1, <3>1 DEF Task
    <2>5. /\ spawn'.recurrence = r /\ spawn'.from = due /\ spawn'.at = now /\ spawn'.next = next
      BY <2>1
    <2>6. Recurrence!SuccessorIsAhead'
      BY <2>3, <2>5 DEF Recurrence!SuccessorIsAhead
    <2>7. Recurrence!SuccessorIsFirst'
      <3>1. r # "custom" => First(r, due, now, next)
        BY <2>3
      <3> QED  BY <3>1, <2>5 DEF Recurrence!SuccessorIsFirst, First, Ahead
    <2> QED  BY <1>1, <2>4, <2>6, <2>7 DEF RecurrenceIInv
  <1> QED  BY <1>4, <1>5

LEMMA RecurrenceStep == RecurrenceIInv /\ Recurrence!RecurrenceNext => RecurrenceIInv'
  <1> SUFFICES ASSUME RecurrenceIInv, Recurrence!RecurrenceNext PROVE RecurrenceIInv'
    OBVIOUS
  <1>1. ASSUME NEW due \in {task.due, None, now}, NEW status \in {"todo", "done"},
               NEW r \in {task.recurrence, "monthly"}, Recurrence!update(due, status, r)
        PROVE  RecurrenceIInv'
    BY <1>1, UpdateStep
  <1>2. ASSUME NEW status \in {"todo", "done"}, Recurrence!bulk(status)
        PROVE  RecurrenceIInv'
    <2>1. /\ updates \in 0..MaxUpdates /\ updates' = updates + 1 /\ UNCHANGED <<now, spawn>>
          /\ updates + 1 \in 0..MaxUpdates /\ Due(updates) \subseteq Due(updates + 1)
          /\ task' = [task EXCEPT !.status = status] /\ task \in Task(updates)
      BY <1>2, DueIs DEF RecurrenceIInv, Recurrence!bulk, Recurrence!Updates
    <2>2. task' \in Task(updates + 1)
      BY <2>1 DEF Task
    <2> QED
      BY <2>1, <2>2 DEF RecurrenceIInv, Recurrence!SuccessorIsAhead, Recurrence!SuccessorIsFirst
  <1>3. CASE Recurrence!Tick
    BY <1>3, CalendarIs DEF RecurrenceIInv, Recurrence!Tick, Recurrence!Days,
       Recurrence!SuccessorIsAhead, Recurrence!SuccessorIsFirst
  <1> QED  BY <1>1, <1>2, <1>3 DEF Recurrence!RecurrenceNext

\* For any calendar whose months are long enough, any week and any horizon: a successor is the
\* first date of its recipe that is after the task's own and after the clock, there is one
\* unless that date is beyond the horizon, and none is skipped (task-recurrence.ts).
THEOREM SuccessorsAreFirst == MCSpec => []SuccessorInv
  <1> DEFINE Inv == Is("recurrence") => RecurrenceIInv
  <1>1. MCInit => Inv
    BY RecurrenceInitIInv DEF MCInit
  <1>2. Inv /\ [MCNext]_mcVars => Inv'
    <2> SUFFICES ASSUME Inv, [MCNext]_mcVars PROVE Inv'
      OBVIOUS
    <2>1. subject' = subject /\ (UNCHANGED recurrence \/ (Is("recurrence") /\ Recurrence!RecurrenceNext))
      BY DEF MCNext, mcVars
    <2>2. CASE UNCHANGED recurrence
      <3>1. RecurrenceIInv => RecurrenceIInv'
        BY <2>2 DEF recurrence, RecurrenceIInv, Recurrence!SuccessorIsAhead,
                    Recurrence!SuccessorIsFirst
      <3> QED  BY <2>1, <3>1 DEF Is
    <2>3. CASE Is("recurrence") /\ Recurrence!RecurrenceNext
      BY <2>1, <2>3, RecurrenceStep DEF Is
    <2> QED  BY <2>1, <2>2, <2>3
  <1>3. Inv => SuccessorInv
    <2> SUFFICES ASSUME RecurrenceIInv PROVE Recurrence!SuccessorInv
      BY DEF SuccessorInv
    <2>1. task \in Task(updates) /\ Due(updates) \subseteq Recurrence!Dates \cup {None}
      BY DueIs DEF RecurrenceIInv
    <2>2. Recurrence!RecurrenceTypeOK
      BY <2>1 DEF RecurrenceIInv, Recurrence!RecurrenceTypeOK, Task
    <2> QED  BY <2>2 DEF RecurrenceIInv, Recurrence!SuccessorInv
  <1> QED  BY <1>1, <1>2, <1>3, PTL DEF MCSpec

----------------------------------------------------------------------------
(* AI requests: what a request has been through.                           *)

\* The fields of a generation, the places it can be in, and the records it can be.
GenFields == {"pc", "saw", "chars", "usage", "cancelled", "timedOut", "aborted", "error", "since"}
GenPcs == {"new", "quota", "burst", "stream", "end", "refused", "recorded", "lost"}
Typical(g) ==
    /\ DOMAIN g = GenFields
    /\ g.pc \in GenPcs
    /\ {g.saw, g.usage, g.cancelled, g.timedOut, g.aborted} \subseteq BOOLEAN
    /\ g.chars \in 0..MaxOutput /\ g.since \in Nat
    /\ g.error \in {"none", "truncated", "timeout", "empty", "provider"}

\* What a request has been through, and what its reader has been told of it.
Story(r, g, f) ==
    /\ g.pc \in {"new", "quota", "burst", "refused"} =>
          f = {} /\ g.error = "none" /\ ~g.aborted /\ ~g.cancelled
    /\ g.pc = "stream" =>
          /\ g.cancelled => g.aborted
          /\ \/ g.error = "none" /\ f = {}
             \/ g.error = "truncated" /\ g.aborted /\ (r \in Readers => f = {"error"})
    /\ g.pc \in {"end", "recorded", "lost"} /\ r \in Readers =>
          \/ f = {} /\ g.cancelled
          \/ f = {"error"}
          \/ f = {"done"} /\ g.error = "none" /\ g.saw

\* The rows written for a request.
Row(g, n) ==
    IF g.pc = "refused" THEN n \in {0, 1} ELSE n = IF g.pc = "recorded" THEN 1 ELSE 0

\* All of it, for one request; and the requests there are.
One(r) == Typical(generation[r]) /\ Story(r, generation[r], frames[r]) /\ Row(generation[r], rows[r])

Shape == DOMAIN generation = Requests /\ DOMAIN frames = Requests /\ DOMAIN rows = Requests

\* The requests but one are as they were.
Others(r) == \A q \in Requests \ {r} :
                generation'[q] = generation[q] /\ frames'[q] = frames[q] /\ rows'[q] = rows[q]

\* A step of one request that neither opens nor closes a generation.
Uncounted(r) ==
    \/ {generation[r].pc, generation'[r].pc} \cap {"stream", "end", "recorded"} = {}
    \/ /\ {generation[r].pc, generation'[r].pc} \subseteq {"stream", "end"}
       /\ generation'[r].since = generation[r].since

LEMMA MeteringConstants ==
  /\ IsFiniteSet(Requests) /\ Readers \subseteq Requests
  /\ Quota \in Nat /\ Prompt \in Nat /\ Patience \in Nat /\ Timeout \in Nat
  /\ LastMinute \in Nat
  /\ Limit \in Nat \ {0} /\ MaxOutput \in Nat \ {0}
  /\ Ai!Tokens \in Nat \ {0}
  BY MeteringAssumption DEF Ai!Tokens

LEMMA SetGeneration ==
  ASSUME Shape, NEW r \in Requests, NEW g, Ai!Becomes(r, g)
  PROVE  DOMAIN generation' = Requests /\ generation'[r] = g
         /\ \A q \in Requests \ {r} : generation'[q] = generation[q]
  BY DEF Shape, Ai!Becomes

\* The state of a request before its generation starts, at another place.
LEMMA GoesIs ==
  ASSUME Shape, NEW r \in Requests, Typical(generation[r]), NEW pc \in GenPcs, Ai!Goes(r, pc)
  PROVE  /\ Typical(generation'[r]) /\ DOMAIN generation' = Requests
         /\ generation'[r].pc = pc /\ generation'[r].error = generation[r].error
         /\ generation'[r].aborted = generation[r].aborted
         /\ generation'[r].cancelled = generation[r].cancelled
         /\ \A q \in Requests \ {r} : generation'[q] = generation[q]
  <1> DEFINE g == [generation[r] EXCEPT !.pc = pc]
  <1>1. generation'[r] = g /\ DOMAIN generation' = Requests
        /\ \A q \in Requests \ {r} : generation'[q] = generation[q]
    BY SetGeneration DEF Ai!Goes
  <1>2. Typical(g) /\ g.pc = pc /\ g.error = generation[r].error
        /\ g.aborted = generation[r].aborted /\ g.cancelled = generation[r].cancelled
    BY DEF Typical, GenFields
  <1> QED  BY <1>1, <1>2

\* The same, at a place it enters at this minute.
LEMMA EntersIs ==
  ASSUME Shape, NEW r \in Requests, Typical(generation[r]), NEW pc \in GenPcs, minute \in Nat,
         Ai!Becomes(r, [generation[r] EXCEPT !.pc = pc, !.since = minute])
  PROVE  /\ Typical(generation'[r]) /\ DOMAIN generation' = Requests
         /\ generation'[r].pc = pc /\ generation'[r].since = minute
         /\ generation'[r].error = generation[r].error
         /\ generation'[r].aborted = generation[r].aborted
         /\ generation'[r].cancelled = generation[r].cancelled
         /\ \A q \in Requests \ {r} : generation'[q] = generation[q]
  <1> DEFINE g == [generation[r] EXCEPT !.pc = pc, !.since = minute]
  <1>1. generation'[r] = g /\ DOMAIN generation' = Requests
        /\ \A q \in Requests \ {r} : generation'[q] = generation[q]
    BY SetGeneration
  <1>2. /\ Typical(g) /\ g.pc = pc /\ g.since = minute /\ g.error = generation[r].error
        /\ g.aborted = generation[r].aborted /\ g.cancelled = generation[r].cancelled
    BY DEF Typical, GenFields
  <1> QED  BY <1>1, <1>2

LEMMA LoadConfigIs ==
  ASSUME Shape, NEW r \in Requests, One(r), Ai!loadConfig(r)
  PROVE  Shape' /\ Others(r) /\ One(r)' /\ Uncounted(r) /\ generation'[r].pc # "burst"
  <1>1. PICK pc \in {"quota", "refused"} : Ai!Goes(r, pc)
    BY DEF Ai!loadConfig
  <1>2. generation[r].pc = "new" /\ UNCHANGED <<rows, frames>>
    BY DEF Ai!loadConfig, Ai!At, Ai!Metered, Ai!NoFrame
  <1>3. pc \in GenPcs
    BY DEF GenPcs
  <1> QED  BY <1>1, <1>2, <1>3, GoesIs DEF One, Shape, Others, Uncounted, Story, Row

LEMMA RefusalIs ==
  ASSUME Shape, NEW r \in Requests, One(r), generation[r].pc \in {"quota", "burst"},
         Ai!Goes(r, "refused"), Ai!recordRefusal(r) \/ Ai!Metered, Ai!NoFrame
  PROVE  Shape' /\ Others(r) /\ One(r)' /\ Uncounted(r) /\ generation'[r].pc = "refused"
  <1>1. rows[r] = 0
    BY DEF One, Row
  <1>2. DOMAIN rows' = Requests /\ rows'[r] \in {0, 1} /\ \A q \in Requests \ {r} : rows'[q] = rows[q]
    BY <1>1 DEF Ai!recordRefusal, Ai!Metered, Shape
  <1>3. "refused" \in GenPcs
    BY DEF GenPcs
  <1>4. generation[r].pc \notin {"stream", "end", "recorded"}
    OBVIOUS
  <1>5. frames' = frames
    BY DEF Ai!NoFrame
  <1> QED  BY <1>2, <1>3, <1>4, <1>5, GoesIs DEF One, Shape, Others, Uncounted, Story, Row

LEMMA QuotaIs ==
  ASSUME Shape, NEW r \in Requests, One(r), minute \in Nat, Ai!tokensUsedToday(r)
  PROVE  /\ Shape' /\ Others(r) /\ One(r)' /\ Uncounted(r)
         /\ generation'[r].pc = "burst" => used < Quota /\ generation'[r].since = minute
         /\ UNCHANGED <<used, minute, window>>
  <1>1. generation[r].pc = "quota" /\ Ai!NoFrame /\ UNCHANGED <<used, minute, window>>
    BY DEF Ai!tokensUsedToday, Ai!At, Ai!Metered, Ai!recordRefusal
  <1>2. CASE Ai!Goes(r, "refused") /\ (Ai!recordRefusal(r) \/ Ai!Metered)
    BY <1>1, <1>2, RefusalIs
  <1>3. CASE /\ used < Quota /\ Ai!Metered
             /\ Ai!Becomes(r, [generation[r] EXCEPT !.pc = "burst", !.since = minute])
    <2>1. "burst" \in GenPcs /\ "burst" \notin {"stream", "end", "recorded"}
      BY DEF GenPcs
    <2>2. UNCHANGED <<rows, frames>>
      BY <1>1, <1>3 DEF Ai!Metered, Ai!NoFrame
    <2>3. /\ Typical(generation'[r]) /\ DOMAIN generation' = Requests
          /\ generation'[r].pc = "burst" /\ generation'[r].since = minute
          /\ generation'[r].error = generation[r].error
          /\ generation'[r].aborted = generation[r].aborted
          /\ generation'[r].cancelled = generation[r].cancelled
          /\ \A q \in Requests \ {r} : generation'[q] = generation[q]
      BY <1>3, <2>1, EntersIs DEF One
    <2> QED  BY <1>1, <1>3, <2>1, <2>2, <2>3 DEF One, Shape, Others, Uncounted, Story, Row
  <1> QED  BY <1>2, <1>3 DEF Ai!tokensUsedToday

LEMMA AdmitIs ==
  ASSUME Shape, NEW r \in Requests, One(r), generation[r].pc = "burst", minute \in Nat,
         Ai!Becomes(r, [generation[r] EXCEPT !.pc = "stream", !.since = minute]),
         Ai!Metered, Ai!NoFrame
  PROVE  /\ Shape' /\ Others(r) /\ One(r)'
         /\ generation'[r].pc = "stream" /\ generation'[r].since = minute
  <1>1. "stream" \in GenPcs /\ UNCHANGED <<rows, frames>>
    BY DEF GenPcs, Ai!Metered, Ai!NoFrame
  <1> QED  BY <1>1, EntersIs DEF One, Shape, Others, Story, Row

\* A frame for a reader who is there.
LEMMA SendIs ==
  ASSUME Shape, NEW r \in Requests, NEW frame, Ai!Sends(r, frame)
  PROVE  /\ DOMAIN frames' = Requests
         /\ \A q \in Requests \ {r} : frames'[q] = frames[q]
         /\ frames'[r] = IF r \in Readers /\ ~generation[r].cancelled
                         THEN frames[r] \cup {frame} ELSE frames[r]
  BY DEF Shape, Ai!Sends

LEMMA DeltaIs ==
  ASSUME Shape, NEW r \in Requests, One(r), NEW blank \in BOOLEAN, Ai!delta(r, blank)
  PROVE  Shape' /\ Others(r) /\ One(r)' /\ Uncounted(r)
  <1> DEFINE s == generation[r]
             cut == [s EXCEPT !.error = "truncated", !.aborted = TRUE]
             grown == [s EXCEPT !.chars = @ + 1, !.saw = (@ \/ (r \in Readers /\ ~blank))]
  <1>1. s.pc = "stream" /\ ~s.aborted /\ Typical(s) /\ UNCHANGED rows
    BY DEF Ai!delta, Ai!Streaming, Ai!At, One, Ai!Unmetered, Ai!Metered
  <1>2. ~s.cancelled /\ s.error = "none" /\ frames[r] = {}
    BY <1>1 DEF One, Story
  <1>3. CASE Ai!Becomes(r, cut) /\ Ai!Sends(r, "error")
    <2>1. generation'[r] = cut /\ DOMAIN generation' = Requests
          /\ \A q \in Requests \ {r} : generation'[q] = generation[q]
      BY <1>3, SetGeneration
    <2>2. Typical(cut) /\ cut.pc = "stream" /\ cut.since = s.since /\ cut.error = "truncated"
          /\ cut.aborted
      BY <1>1 DEF Typical, GenFields
    <2>3. r \in Readers => frames'[r] = {"error"}
      BY <1>2, <1>3, SendIs
    <2> HIDE DEF s, cut
    <2>4. generation[r] = s
      BY DEF s
    <2> QED
      BY <1>1, <1>3, <2>1, <2>2, <2>3, <2>4, SendIs DEF One, Shape, Others, Story, Row, Uncounted
  <1>4. CASE Ai!Becomes(r, grown) /\ s.chars + 1 <= MaxOutput /\ Ai!NoFrame
    <2>1. generation'[r] = grown /\ DOMAIN generation' = Requests
          /\ \A q \in Requests \ {r} : generation'[q] = generation[q]
      BY <1>4, SetGeneration
    <2>2. s.chars + 1 \in 0..MaxOutput /\ (s.saw \/ (r \in Readers /\ ~blank)) \in BOOLEAN
      BY <1>1, <1>4, MeteringConstants DEF Typical
    <2>3. Typical(grown) /\ grown.pc = "stream" /\ grown.since = s.since /\ grown.error = s.error
          /\ grown.aborted = s.aborted /\ grown.cancelled = s.cancelled
      BY <1>1, <2>2 DEF Typical, GenFields
    <2>4. frames' = frames
      BY <1>4 DEF Ai!NoFrame
    <2> HIDE DEF s, grown
    <2>5. generation[r] = s
      BY DEF s
    <2> QED
      BY <1>1, <2>1, <2>3, <2>4, <2>5 DEF One, Shape, Others, Story, Row, Uncounted
  <1>5. s.chars + 1 > MaxOutput \/ s.chars + 1 <= MaxOutput
    BY <1>1, MeteringConstants DEF Typical
  <1> QED  BY <1>3, <1>4, <1>5 DEF Ai!delta

LEMMA UsageEventIs ==
  ASSUME Shape, NEW r \in Requests, One(r), Ai!usageEvent(r)
  PROVE  Shape' /\ Others(r) /\ One(r)' /\ Uncounted(r)
  <1> DEFINE s == generation[r]
             g == [s EXCEPT !.usage = TRUE]
  <1>1. s.pc = "stream" /\ Typical(s) /\ UNCHANGED <<rows, frames>>
    BY DEF Ai!usageEvent, Ai!Streaming, Ai!At, One, Ai!Unmetered, Ai!Metered, Ai!NoFrame
  <1>2. generation'[r] = g /\ DOMAIN generation' = Requests
        /\ \A q \in Requests \ {r} : generation'[q] = generation[q]
    BY SetGeneration DEF Ai!usageEvent
  <1>3. Typical(g) /\ g.pc = "stream" /\ g.since = s.since /\ g.error = s.error
        /\ g.aborted = s.aborted /\ g.cancelled = s.cancelled
    BY <1>1 DEF Typical, GenFields
  <1> HIDE DEF s, g
  <1>4. generation[r] = s
    BY DEF s
  <1> QED  BY <1>1, <1>2, <1>3, <1>4 DEF One, Shape, Others, Story, Row, Uncounted

LEMMA OnCloseIs ==
  ASSUME Shape, NEW r \in Requests, One(r), Ai!onClose(r)
  PROVE  Shape' /\ Others(r) /\ One(r)' /\ Uncounted(r)
  <1> DEFINE s == generation[r]
             g == [s EXCEPT !.cancelled = TRUE, !.aborted = TRUE]
  <1>1. s.pc = "stream" /\ Typical(s) /\ UNCHANGED <<rows, frames>>
    BY DEF Ai!onClose, Ai!At, One, Ai!Unmetered, Ai!Metered, Ai!NoFrame
  <1>2. generation'[r] = g /\ DOMAIN generation' = Requests
        /\ \A q \in Requests \ {r} : generation'[q] = generation[q]
    BY SetGeneration DEF Ai!onClose
  <1>3. Typical(g) /\ g.pc = "stream" /\ g.since = s.since /\ g.error = s.error /\ g.aborted
    BY <1>1 DEF Typical, GenFields
  <1> HIDE DEF s, g
  <1>4. generation[r] = s
    BY DEF s
  <1> QED  BY <1>1, <1>2, <1>3, <1>4 DEF One, Shape, Others, Story, Row, Uncounted

LEMMA OnDeadlineIs ==
  ASSUME Shape, NEW r \in Requests, One(r), Ai!onDeadline(r)
  PROVE  Shape' /\ Others(r) /\ One(r)' /\ Uncounted(r)
  <1> DEFINE s == generation[r]
             g == [s EXCEPT !.timedOut = TRUE, !.aborted = TRUE]
  <1>1. s.pc = "stream" /\ Typical(s) /\ UNCHANGED <<rows, frames>>
    BY DEF Ai!onDeadline, Ai!At, One, Ai!Unmetered, Ai!Metered, Ai!NoFrame
  <1>2. generation'[r] = g /\ DOMAIN generation' = Requests
        /\ \A q \in Requests \ {r} : generation'[q] = generation[q]
    BY SetGeneration DEF Ai!onDeadline
  <1>3. Typical(g) /\ g.pc = "stream" /\ g.since = s.since /\ g.error = s.error /\ g.aborted
    BY <1>1 DEF Typical, GenFields
  <1> HIDE DEF s, g
  <1>4. generation[r] = s
    BY DEF s
  <1> QED  BY <1>1, <1>2, <1>3, <1>4 DEF One, Shape, Others, Story, Row, Uncounted

\* A generation ends, and a reader who does not know yet is sent a frame.
LEMMA EndIs ==
  ASSUME Shape, NEW r \in Requests, One(r), generation[r].pc = "stream", UNCHANGED rows,
         NEW h, Typical(h), h.since = generation[r].since, h.saw = generation[r].saw,
         h.cancelled = generation[r].cancelled, Ai!Ends(r, h),
         \/ Ai!Told(generation[r]) /\ Ai!NoFrame
         \/ ~Ai!Told(generation[r]) /\ Ai!Sends(r, "error")
         \/ /\ ~Ai!Told(generation[r]) /\ Ai!Sends(r, "done") /\ h.error = generation[r].error
            /\ r \in Readers => generation[r].saw
  PROVE  Shape' /\ Others(r) /\ One(r)' /\ Uncounted(r)
  <1> DEFINE s == generation[r]
             g == [h EXCEPT !.pc = "end", !.aborted = FALSE, !.timedOut = FALSE,
                            !.error = IF r \in Readers THEN @ ELSE "none"]
  <1>2. generation'[r] = g /\ DOMAIN generation' = Requests
        /\ \A q \in Requests \ {r} : generation'[q] = generation[q]
    BY SetGeneration DEF Ai!Ends
  <1>3. Typical(g) /\ g.pc = "end" /\ g.since = s.since /\ (r \in Readers => g.error = h.error)
        /\ g.cancelled = s.cancelled /\ g.saw = s.saw
    BY DEF Typical, GenFields, GenPcs
  <1>4. DOMAIN frames' = Requests /\ \A q \in Requests \ {r} : frames'[q] = frames[q]
    BY SendIs DEF Ai!NoFrame, Shape
  <1>5. r \in Readers => \/ frames'[r] = {} /\ s.cancelled
                         \/ frames'[r] = {"error"}
                         \/ frames'[r] = {"done"} /\ h.error = "none" /\ s.saw
    BY SendIs DEF Ai!NoFrame, Ai!Told, One, Story
  <1>6. One(r)'
    BY <1>2, <1>3, <1>5 DEF One, Story, Row
  <1> QED  BY <1>2, <1>3, <1>4, <1>6 DEF Shape, Others, Uncounted

\* A generation that fails is what it was, but for its error.
LEMMA ErrorIs ==
  ASSUME NEW s, Typical(s), NEW error \in {"truncated", "timeout", "empty", "provider"}
  PROVE  /\ Typical([s EXCEPT !.error = error])
         /\ [s EXCEPT !.error = error].since = s.since
         /\ [s EXCEPT !.error = error].saw = s.saw
         /\ [s EXCEPT !.error = error].cancelled = s.cancelled
  BY DEF Typical, GenFields

LEMMA FinishesIs ==
  ASSUME Shape, NEW r \in Requests, One(r), Ai!finishes(r)
  PROVE  Shape' /\ Others(r) /\ One(r)' /\ Uncounted(r)
  <1> DEFINE s == generation[r]
  <1>1. s.pc = "stream" /\ Typical(s) /\ UNCHANGED rows
    BY DEF Ai!finishes, Ai!At, One, Ai!Unmetered, Ai!Metered
  <1>2. CASE Ai!Told(s) /\ Ai!Ends(r, s) /\ Ai!NoFrame
    BY <1>1, <1>2, EndIs
  <1>3. ASSUME NEW error \in {"timeout", "empty"}, ~Ai!Told(s),
               Ai!Ends(r, [s EXCEPT !.error = error]), Ai!Sends(r, "error")
        PROVE  Shape' /\ Others(r) /\ One(r)' /\ Uncounted(r)
    BY <1>1, <1>3, ErrorIs, EndIs
  <1>4. CASE ~Ai!Told(s) /\ (r \in Readers => s.saw) /\ Ai!Ends(r, s) /\ Ai!Sends(r, "done")
    BY <1>1, <1>4, EndIs
  <1> QED  BY <1>2, <1>3, <1>4 DEF Ai!finishes

LEMMA ThrowsIs ==
  ASSUME Shape, NEW r \in Requests, One(r), Ai!throws(r)
  PROVE  Shape' /\ Others(r) /\ One(r)' /\ Uncounted(r)
  <1> DEFINE s == generation[r]
             error == IF s.timedOut THEN "timeout" ELSE "provider"
  <1>1. s.pc = "stream" /\ Typical(s) /\ UNCHANGED rows
    BY DEF Ai!throws, Ai!At, One, Ai!Unmetered, Ai!Metered
  <1>2. CASE Ai!Told(s) /\ Ai!Ends(r, s) /\ Ai!NoFrame
    BY <1>1, <1>2, EndIs
  <1>3. CASE ~Ai!Told(s) /\ Ai!Ends(r, [s EXCEPT !.error = error]) /\ Ai!Sends(r, "error")
    <2>1. error \in {"timeout", "provider"}
      OBVIOUS
    <2> HIDE DEF error
    <2> QED  BY <1>1, <1>3, <2>1, ErrorIs, EndIs
  <1> QED  BY <1>2, <1>3 DEF Ai!throws

LEMMA RecordUsageIs ==
  ASSUME Shape, NEW r \in Requests, One(r), Ai!recordUsage(r)
  PROVE  /\ Shape' /\ Others(r) /\ One(r)' /\ generation[r].pc = "end"
         /\ UNCHANGED <<minute, window>>
         /\ \/ generation'[r].pc = "recorded"
               /\ used' = used + Ai!outcome(generation[r])
            \/ generation'[r].pc = "lost" /\ used' = used
  <1> DEFINE s == generation[r]
             Rest(pc) == IF r \in Readers
                         THEN [Ai!Fresh EXCEPT !.pc = pc, !.saw = s.saw, !.error = s.error,
                                               !.cancelled = s.cancelled]
                         ELSE [Ai!Fresh EXCEPT !.pc = pc]
  <1>1. s.pc = "end" /\ Typical(s) /\ UNCHANGED <<frames, minute, window>> /\ rows[r] = 0
    BY DEF Ai!recordUsage, Ai!At, One, Ai!NoFrame, Row
  <1>2. ASSUME NEW pc \in {"recorded", "lost"}
        PROVE  /\ Typical(Rest(pc)) /\ Rest(pc).pc = pc
               /\ r \in Readers => /\ Rest(pc).error = s.error /\ Rest(pc).saw = s.saw
                                   /\ Rest(pc).cancelled = s.cancelled
    <2> DEFINE kept == [Ai!Fresh EXCEPT !.pc = pc, !.saw = s.saw, !.error = s.error,
                                        !.cancelled = s.cancelled]
               blank == [Ai!Fresh EXCEPT !.pc = pc]
    <2>1. Typical(kept) /\ kept.pc = pc /\ kept.error = s.error /\ kept.cancelled = s.cancelled
          /\ kept.saw = s.saw
      BY <1>1, MeteringConstants DEF Typical, GenFields, GenPcs, Ai!Fresh
    <2>2. Typical(blank) /\ blank.pc = pc
      BY MeteringConstants DEF Typical, GenFields, GenPcs, Ai!Fresh
    <2>3. Rest(pc) = IF r \in Readers THEN kept ELSE blank
      OBVIOUS
    <2> HIDE DEF kept, blank, Rest
    <2> QED  BY <2>1, <2>2, <2>3
  <1>3. ASSUME NEW pc \in {"recorded", "lost"}, Ai!Returns(r, pc)
        PROVE  generation'[r] = Rest(pc) /\ DOMAIN generation' = Requests
               /\ \A q \in Requests \ {r} : generation'[q] = generation[q]
    BY <1>3, SetGeneration DEF Ai!Returns
  <1>4. CASE Ai!Returns(r, "recorded") /\ rows' = [rows EXCEPT ![r] = @ + 1]
             /\ used' = used + Ai!outcome(s)
    <2>1. DOMAIN rows' = Requests /\ rows'[r] = 1 /\ \A q \in Requests \ {r} : rows'[q] = rows[q]
      BY <1>1, <1>4 DEF Shape
    <2> HIDE DEF Rest
    <2> QED  BY <1>1, <1>2, <1>3, <1>4, <2>1 DEF One, Shape, Others, Story, Row
  <1>5. CASE Ai!Returns(r, "lost") /\ Ai!Metered
    <2>1. UNCHANGED <<rows, used>>
      BY <1>5 DEF Ai!Metered
    <2> HIDE DEF Rest
    <2> QED  BY <1>1, <1>2, <1>3, <1>5, <2>1 DEF One, Shape, Others, Story, Row
  <1> QED  BY <1>4, <1>5 DEF Ai!recordUsage

\* The generations under way that began at a minute or later, and those recorded.
Open(k) == {r \in Requests : generation[r].pc \in {"stream", "end"} /\ generation[r].since >= k}
Recorded == {r \in Requests : generation[r].pc = "recorded"}
Asking == \E r \in Requests : generation[r].pc = "burst"
Let == IF window > Limit THEN Limit ELSE window

\* For d windows after this one the burst check may still let in who passed the quota check;
\* then nobody waits for it any more, and so many generations have been open since now.
Lasting(d) == \A r \in Requests :
                 generation[r].pc = "burst" => generation[r].since + Patience <= minute + d
Crowd(d) == Cardinality(Open(0)) + IF Asking THEN d * Limit + Limit - Let ELSE 0

\* What the windows of a timeout, of this minute and of a patience let in.
Overshoot == (Timeout + 1 + Patience) * Limit * Ai!Tokens
Ceiling == Quota + Overshoot

\* What is open since a minute was let in by the windows passed since; and once the quota is
\* reached, what can still come is within the bound.
Counted ==
    /\ used \in Nat /\ minute \in 0..LastMinute /\ window \in 0..(Limit + 1)
    /\ \A r \in Open(0) : generation[r].since <= minute /\ minute <= generation[r].since + Timeout
    /\ \A r \in Requests : generation[r].pc = "burst" => generation[r].since <= minute
    /\ used <= Cardinality(Recorded) * Ai!Tokens
    /\ \A k \in 0..minute : Cardinality(Open(k)) <= (minute - k) * Limit + Let
    /\ used >= Quota => \E d \in Nat : Lasting(d) /\ used + Crowd(d) * Ai!Tokens < Ceiling

AiIInv == Shape /\ (\A r \in Requests : One(r)) /\ Counted

LEMMA SameAiCardinality == ASSUME NEW S PROVE Ai!Cardinality(S) = Cardinality(S)
  BY Zenon DEF Ai!Cardinality, Cardinality

LEMMA OpenFinite ==
  ASSUME NEW k
  PROVE  IsFiniteSet(Open(k)) /\ Cardinality(Open(k)) \in Nat
         /\ IsFiniteSet(Recorded) /\ Cardinality(Recorded) \in Nat
  <1>1. Open(k) \in SUBSET Requests /\ Recorded \in SUBSET Requests
    BY DEF Open, Recorded
  <1> QED  BY <1>1, MeteringConstants, FS_Subset, FS_CardinalityType

\* More of a factor makes more of the product.
LEMMA Grows == ASSUME NEW a \in Nat, NEW b \in Nat, NEW n \in Nat, a <= b PROVE a * n <= b * n
  OBVIOUS
LEMMA Spreads == ASSUME NEW a \in Int, NEW b \in Int, NEW n \in Int PROVE (a + b) * n = a * n + b * n
  OBVIOUS

\* All the generations there can be are of those windows.
LEMMA CrowdIsBounded ==
  ASSUME Shape, \A r \in Requests : One(r), Counted
  PROVE  Crowd(Patience) \in Nat /\ Crowd(Patience) <= (Timeout + 1 + Patience) * Limit
  <1>1. Let \in 0..Limit
    BY MeteringConstants DEF Let, Counted
  <1>2. PICK k \in 0..minute : Open(0) = Open(k) /\ minute - k <= Timeout
    <2>1. CASE minute <= Timeout
      BY <2>1, MeteringConstants DEF Counted
    <2>2. CASE minute > Timeout
      <3>1. \A r \in Open(0) : generation[r].since >= minute - Timeout
        BY MeteringConstants DEF Counted, Open, One, Typical
      <3>2. minute - Timeout \in 0..minute
        BY <2>2, MeteringConstants DEF Counted
      <3>3. Open(0) = Open(minute - Timeout)
        BY <3>1, <3>2 DEF Open, One, Typical
      <3> QED  BY <3>2, <3>3, MeteringConstants DEF Counted
    <2> QED  BY <2>1, <2>2, MeteringConstants DEF Counted
  <1>3. Cardinality(Open(0)) <= (minute - k) * Limit + Let
    BY <1>2 DEF Counted
  <1>4. (minute - k) * Limit <= Timeout * Limit
    BY <1>2, MeteringConstants, Grows DEF Counted
  <1>5. Cardinality(Open(0)) \in Nat
    BY OpenFinite
  <1>6. (Timeout + 1 + Patience) * Limit = Timeout * Limit + Limit + Patience * Limit
    <2>1. (Timeout + 1 + Patience) * Limit = (Timeout + 1) * Limit + Patience * Limit
      BY MeteringConstants, Spreads
    <2>2. (Timeout + 1) * Limit = Timeout * Limit + Limit
      BY MeteringConstants, Spreads
    <2> QED  BY <2>1, <2>2
  <1>7. Timeout * Limit \in Nat /\ (minute - k) * Limit \in Nat /\ Patience * Limit \in Nat
    BY <1>2, MeteringConstants DEF Counted
  <1>8. \/ Crowd(Patience) = Cardinality(Open(0)) + Patience * Limit + Limit - Let
        \/ Crowd(Patience) = Cardinality(Open(0))
    BY <1>1, <1>5, <1>7, MeteringConstants DEF Crowd
  <1> QED  BY <1>1, <1>3, <1>4, <1>5, <1>6, <1>7, <1>8, MeteringConstants

\* Among those who passed the quota check, the crowd is a number.
LEMMA CrowdIsNat ==
  ASSUME NEW d \in Nat, Let \in 0..Limit
  PROVE  Crowd(d) \in Nat
  BY OpenFinite, MeteringConstants DEF Crowd

\* What a generation that ends is worth.
LEMMA OutcomeIs ==
  ASSUME NEW s, Typical(s)
  PROVE  Ai!outcome(s) \in 0..Ai!Tokens
  BY MeteringConstants DEF Typical, Ai!outcome, Ai!Tokens

LEMMA ProductBound ==
  ASSUME NEW a \in Nat, NEW b \in Nat, NEW n \in Nat, NEW u \in Nat, NEW top, a <= b,
         u + b * n < top, top \in Nat
  PROVE  u + a * n < top
  BY Grows

LEMMA LimitsAreNat == Overshoot \in Nat /\ Overshoot > 0 /\ Ceiling \in Nat /\ Ceiling > Quota
  <1>1. (Timeout + 1 + Patience) * Limit \in Nat \ {0}
    BY MeteringConstants
  <1>2. \A a, b \in Nat \ {0} : a * b \in Nat \ {0}
    OBVIOUS
  <1> QED  BY <1>1, <1>2, MeteringConstants DEF Overshoot, Ceiling

\* Nothing is counted anew: what is open and what is recorded stay.
LEMMA UncountedKeeps ==
  ASSUME Shape, \A q \in Requests : One(q), Counted, NEW r \in Requests, Others(r), Uncounted(r),
         Shape', One(r)', UNCHANGED <<used, minute>>, window' \in 0..(Limit + 1), window <= window',
         generation'[r].pc = "burst" => used < Quota /\ generation'[r].since = minute
  PROVE  Counted'
  <1>1. \A k \in 0..minute : Open(k)' = Open(k)
    BY MeteringConstants DEF Open, Uncounted, Others, Counted
  <1>2. Recorded' = Recorded
    BY DEF Recorded, Uncounted, Others
  <1>3. Let \in 0..Limit /\ Let' \in 0..Limit /\ Let <= Let'
    BY MeteringConstants DEF Let, Counted
  <1>4. Open(0)' = Open(0)
    BY <1>1 DEF Counted
  <1>5. \A q \in Open(0)' : generation'[q].since = generation[q].since
    BY <1>4 DEF Open, Uncounted, Others
  <1>6. \A k \in 0..minute' : Cardinality(Open(k))' <= (minute' - k) * Limit + Let'
    <2> SUFFICES ASSUME NEW k \in 0..minute
                 PROVE  Cardinality(Open(k))' <= (minute - k) * Limit + Let'
      OBVIOUS
    <2>1. Cardinality(Open(k)) <= (minute - k) * Limit + Let
      BY DEF Counted
    <2>2. Cardinality(Open(k)) \in Nat /\ (minute - k) * Limit \in Nat
      <3>1. minute \in Nat
        BY MeteringConstants DEF Counted
      <3> QED  BY <3>1, OpenFinite, MeteringConstants
    <2> QED  BY <1>1, <1>3, <2>1, <2>2
  <1>7. ASSUME used >= Quota
        PROVE  \E d \in Nat : Lasting(d)' /\ used + Crowd(d)' * Ai!Tokens < Ceiling
    <2>1. generation'[r].pc # "burst"
      BY <1>7, MeteringConstants DEF Counted
    <2>2. PICK d \in Nat : Lasting(d) /\ used + Crowd(d) * Ai!Tokens < Ceiling
      BY <1>7 DEF Counted
    <2>3. Lasting(d)' /\ (Asking' => Asking)
      BY <2>1, <2>2 DEF Lasting, Asking, Others
    <2>4. Crowd(d)' \in Nat /\ Crowd(d) \in Nat /\ Crowd(d)' <= Crowd(d)
      <3>1. d * Limit \in Nat
        BY MeteringConstants
      <3> QED  BY <1>3, <1>4, <2>3, <3>1, OpenFinite, MeteringConstants DEF Crowd
    <2> QED  BY <2>2, <2>3, <2>4, ProductBound, LimitsAreNat, MeteringConstants DEF Counted
  <1>8. \A q \in Requests : generation'[q].pc = "burst" => generation'[q].since <= minute'
    BY DEF Counted, Others
  <1> QED  BY <1>2, <1>3, <1>4, <1>5, <1>6, <1>7, <1>8 DEF Counted

\* A generation is let in by the burst window, which counts it.
LEMMA AdmitKeepsCounted ==
  ASSUME Shape, \A q \in Requests : One(q), Counted, NEW r \in Requests, Others(r),
         Shape', One(r)', UNCHANGED <<used, minute>>, window' = window + 1, window + 1 <= Limit,
         generation[r].pc = "burst", generation'[r].pc = "stream", generation'[r].since = minute
  PROVE  Counted'
  <1>1. ASSUME NEW k \in 0..minute
        PROVE  Open(k)' = Open(k) \cup {r} /\ r \notin Open(k)
    BY MeteringConstants DEF Open, Others, Counted
  <1>2. ASSUME NEW k \in 0..minute
        PROVE  Cardinality(Open(k))' = Cardinality(Open(k)) + 1
    BY <1>1, OpenFinite, FS_AddElement
  <1>3. Recorded' = Recorded
    BY DEF Recorded, Others
  <1>4. Let \in 0..Limit /\ Let' = Let + 1 /\ Let' \in 0..Limit
    BY MeteringConstants DEF Let, Counted
  <1>5. \A q \in Open(0)' : generation'[q].since <= minute /\ minute <= generation'[q].since + Timeout
    BY <1>1, MeteringConstants DEF Open, Others, Counted
  <1>6. \A k \in 0..minute' : Cardinality(Open(k))' <= (minute' - k) * Limit + Let'
    <2> SUFFICES ASSUME NEW k \in 0..minute
                 PROVE  Cardinality(Open(k))' <= (minute - k) * Limit + Let'
      OBVIOUS
    <2>1. Cardinality(Open(k)) <= (minute - k) * Limit + Let
      BY DEF Counted
    <2>2. Cardinality(Open(k)) \in Nat /\ (minute - k) * Limit \in Nat
      BY OpenFinite, MeteringConstants DEF Counted
    <2> QED  BY <1>2, <1>4, <2>1, <2>2
  <1>7. ASSUME used >= Quota
        PROVE  \E d \in Nat : Lasting(d)' /\ used + Crowd(d)' * Ai!Tokens < Ceiling
    <2>1. Asking
      BY DEF Asking
    <2>2. Cardinality(Open(0))' = Cardinality(Open(0)) + 1
      BY <1>2 DEF Counted
    <2>3. PICK d \in Nat : Lasting(d) /\ used + Crowd(d) * Ai!Tokens < Ceiling
      BY <1>7 DEF Counted
    <2>4. Lasting(d)'
      BY <2>3, MeteringConstants DEF Lasting, Others, Counted
    <2>5. Crowd(d)' \in Nat /\ Crowd(d) \in Nat /\ Crowd(d)' <= Crowd(d)
      <3>1. d * Limit \in Nat
        BY MeteringConstants
      <3> QED  BY <1>4, <2>1, <2>2, <3>1, OpenFinite, MeteringConstants DEF Crowd
    <2> QED  BY <2>3, <2>4, <2>5, ProductBound, LimitsAreNat, MeteringConstants DEF Counted
  <1>8. \A q \in Requests : generation'[q].pc = "burst" => generation'[q].since <= minute'
    BY DEF Counted, Others
  <1> QED  BY <1>3, <1>4, <1>5, <1>6, <1>7, <1>8, MeteringConstants DEF Counted

\* A generation that has ended leaves its tokens.
LEMMA RecordKeepsCounted ==
  ASSUME Shape, \A q \in Requests : One(q), Counted, NEW r \in Requests, Others(r),
         Shape', One(r)', UNCHANGED <<minute, window>>, generation[r].pc = "end",
         \/ generation'[r].pc = "recorded" /\ used' = used + Ai!outcome(generation[r])
         \/ generation'[r].pc = "lost" /\ used' = used
  PROVE  Counted'
  <1>1. ASSUME NEW k \in 0..minute
        PROVE  Open(k)' = Open(k) \ {r}
    BY DEF Open, Others, Counted
  <1>2. ASSUME NEW k \in 0..minute
        PROVE  Cardinality(Open(k))' <= Cardinality(Open(k)) /\ Cardinality(Open(k))' \in Nat
    <2>1. IsFiniteSet(Open(k)) /\ Cardinality(Open(k)) \in Nat
      BY OpenFinite
    <2>2. Open(k) \ {r} \in SUBSET Open(k)
      OBVIOUS
    <2>3. /\ Cardinality(Open(k) \ {r}) <= Cardinality(Open(k))
          /\ Cardinality(Open(k) \ {r}) \in Nat
      BY <2>1, <2>2, FS_Subset, FS_CardinalityType
    <2> QED  BY <1>1, <2>3
  <1>3. Cardinality(Open(0))' = Cardinality(Open(0)) - 1
    <2>1. r \in Open(0)
      BY DEF Open, One, Typical
    <2> QED  BY <1>1, <2>1, OpenFinite, FS_RemoveElement DEF Counted
  <1>4. Let' = Let /\ Let \in 0..Limit
    BY MeteringConstants DEF Let, Counted
  <1>5. \A q \in Open(0)' : generation'[q].since <= minute /\ minute <= generation'[q].since + Timeout
    BY DEF Open, Others, Counted
  <1>6. \A k \in 0..minute' : Cardinality(Open(k))' <= (minute' - k) * Limit + Let'
    <2> SUFFICES ASSUME NEW k \in 0..minute
                 PROVE  Cardinality(Open(k))' <= (minute - k) * Limit + Let'
      OBVIOUS
    <2>1. Cardinality(Open(k)) <= (minute - k) * Limit + Let
      BY DEF Counted
    <2>2. Cardinality(Open(k)) \in Nat /\ (minute - k) * Limit \in Nat
      BY OpenFinite, MeteringConstants DEF Counted
    <2> QED  BY <1>2, <1>4, <2>1, <2>2
  <1>7. used' \in used..(used + Ai!Tokens)
    BY OutcomeIs, MeteringConstants DEF One, Counted
  <1>8. ASSUME NEW d \in Nat
        PROVE  /\ Crowd(d) * Ai!Tokens = Crowd(d)' * Ai!Tokens + Ai!Tokens
               /\ Crowd(d)' * Ai!Tokens \in Nat /\ Crowd(d) * Ai!Tokens \in Nat
    <2>1. Asking' <=> Asking
      BY DEF Asking, Others
    <2>2. d * Limit \in Nat
      BY MeteringConstants
    <2>3. (Crowd(d) = Crowd(d)' + 1) /\ Crowd(d) \in Nat /\ Crowd(d)' \in Nat
      BY <1>2, <1>3, <1>4, <2>1, <2>2, OpenFinite, MeteringConstants DEF Crowd, Counted
    <2> QED  BY <2>3, Spreads, MeteringConstants
  <1>9. \A q \in Requests : generation'[q].pc = "burst" =>
                               generation[q].pc = "burst" /\ generation'[q].since = generation[q].since
    BY DEF Others
  <1>10. ASSUME used' >= Quota
         PROVE  \E d \in Nat : Lasting(d)' /\ used' + Crowd(d)' * Ai!Tokens < Ceiling
    <2>1. CASE used >= Quota
      <3>1. PICK d \in Nat : Lasting(d) /\ used + Crowd(d) * Ai!Tokens < Ceiling
        BY <2>1 DEF Counted
      <3>2. Lasting(d)'
        BY <1>9, <3>1 DEF Lasting
      <3> QED  BY <1>7, <1>8, <3>1, <3>2, LimitsAreNat, MeteringConstants DEF Counted
    <2>2. CASE used < Quota
      <3>1. Crowd(Patience) * Ai!Tokens <= Overshoot
        BY CrowdIsBounded, Grows, MeteringConstants DEF Overshoot
      <3>2. Lasting(Patience)'
        BY <1>9, MeteringConstants DEF Lasting, Counted, One, Typical
      <3>3. used' + Crowd(Patience)' * Ai!Tokens < Ceiling
        BY <1>7, <1>8, <2>2, <3>1, LimitsAreNat, MeteringConstants DEF Counted, Ceiling
      <3> QED  BY <3>2, <3>3, MeteringConstants
    <2> QED  BY <2>1, <2>2, MeteringConstants DEF Counted
  <1>11. used' <= Cardinality(Recorded)' * Ai!Tokens
    <2>1. CASE generation'[r].pc = "recorded"
      <3>1. Recorded' = Recorded \cup {r} /\ r \notin Recorded
        BY <2>1 DEF Recorded, Others
      <3>2. Cardinality(Recorded)' = Cardinality(Recorded) + 1
        BY <3>1, OpenFinite, FS_AddElement
      <3>3. Cardinality(Recorded)' * Ai!Tokens = Cardinality(Recorded) * Ai!Tokens + Ai!Tokens
        <4> DEFINE n == Cardinality(Recorded)
        <4>1. n \in Nat
          BY OpenFinite
        <4> HIDE DEF n
        <4>2. (n + 1) * Ai!Tokens = n * Ai!Tokens + Ai!Tokens
          BY <4>1, Spreads, MeteringConstants
        <4> QED  BY <3>2, <4>2 DEF n
      <3>4. Cardinality(Recorded) * Ai!Tokens \in Nat
        BY OpenFinite, MeteringConstants
      <3> QED  BY <1>7, <3>3, <3>4, MeteringConstants DEF Counted
    <2>2. CASE generation'[r].pc = "lost" /\ used' = used
      <3>1. Recorded' = Recorded
        BY <2>2 DEF Recorded, Others
      <3> QED  BY <2>2, <3>1 DEF Counted
    <2> QED  BY <2>1, <2>2
  <1>12. \A q \in Requests : generation'[q].pc = "burst" => generation'[q].since <= minute'
    BY <1>9 DEF Counted
  <1> QED  BY <1>4, <1>5, <1>6, <1>7, <1>10, <1>11, <1>12, MeteringConstants DEF Counted

\* When a window expires, the generations it let in are of the windows before.
LEMMA TickKeepsCounted ==
  ASSUME Shape, \A q \in Requests : One(q), Counted, Ai!tick
  PROVE  Counted'
  <1>1. /\ minute < LastMinute /\ minute' = minute + 1 /\ window' = 0
        /\ UNCHANGED <<used, generation>>
        /\ \A q \in Open(0) : minute < generation[q].since + Timeout
        /\ \A q \in Requests : generation[q].pc = "burst" =>
                                  minute < generation[q].since + Patience
    BY DEF Ai!tick, Ai!At, Open, Ai!NoFrame
  <1>2. Open(0)' = Open(0) /\ Recorded' = Recorded /\ (Asking' <=> Asking)
    BY <1>1 DEF Open, Recorded, Asking
  <1>3. Let' = 0 /\ Let \in 0..Limit
    BY <1>1, MeteringConstants DEF Let, Counted
  <1>4. \A q \in Open(0)' : generation'[q].since <= minute' /\ minute' <= generation'[q].since + Timeout
    BY <1>1, <1>2, MeteringConstants DEF Counted, Open, One, Typical
  <1>5. \A k \in 0..minute' : Cardinality(Open(k))' <= (minute' - k) * Limit + Let'
    <2> SUFFICES ASSUME NEW k \in 0..(minute + 1)
                 PROVE  Cardinality(Open(k))' <= (minute + 1 - k) * Limit
      BY <1>1, <1>3, MeteringConstants DEF Counted
    <2>1. Open(k)' = Open(k)
      BY <1>1 DEF Open
    <2>2. CASE k = minute + 1
      <3>1. Open(k) = {}
        BY <2>2 DEF Open, Counted, One, Typical
      <3>2. (minute + 1 - k) * Limit = 0
        BY <2>2, MeteringConstants DEF Counted
      <3> QED  BY <2>1, <3>1, <3>2, FS_EmptySet
    <2>3. CASE k \in 0..minute
      <3>1. Cardinality(Open(k)) <= (minute - k) * Limit + Let
        BY <2>3 DEF Counted
      <3>2. (minute + 1 - k) * Limit = (minute - k) * Limit + Limit
        BY <2>3, MeteringConstants DEF Counted
      <3>3. (minute - k) * Limit \in Nat
        BY <2>3, MeteringConstants DEF Counted
      <3> QED  BY <1>3, <2>1, <3>1, <3>2, <3>3, OpenFinite, MeteringConstants
    <2> QED  BY <2>2, <2>3 DEF Counted
  <1>6. ASSUME used' >= Quota
        PROVE  \E d \in Nat : Lasting(d)' /\ used' + Crowd(d)' * Ai!Tokens < Ceiling
    <2>1. PICK d \in Nat : Lasting(d) /\ used + Crowd(d) * Ai!Tokens < Ceiling
      BY <1>1, <1>6 DEF Counted
    <2>2. Crowd(d) \in Nat
      BY <1>3, CrowdIsNat
    <2>3. CASE Asking
      <3>1. d - 1 \in Nat /\ Lasting(d - 1)'
        BY <1>1, <2>1, <2>3, MeteringConstants DEF Asking, Lasting, Counted, One, Typical
      <3>2. d * Limit = (d - 1) * Limit + Limit /\ (d - 1) * Limit \in Nat
        BY <3>1, Spreads, MeteringConstants
      <3>3. Crowd(d - 1)' \in Nat /\ Crowd(d - 1)' <= Crowd(d)
        BY <1>2, <1>3, <2>3, <3>2, OpenFinite, MeteringConstants DEF Crowd
      <3>4. used + Crowd(d - 1)' * Ai!Tokens < Ceiling
        BY <2>1, <2>2, <3>3, ProductBound, LimitsAreNat, MeteringConstants DEF Counted
      <3> QED  BY <1>1, <3>1, <3>4
    <2>4. CASE ~Asking
      <3>1. Lasting(d)'
        BY <1>1, <2>4 DEF Lasting, Asking
      <3>2. Crowd(d)' = Crowd(d)
        BY <1>2, <2>4 DEF Crowd
      <3> QED  BY <1>1, <2>1, <3>1, <3>2
    <2> QED  BY <2>3, <2>4
  <1>7. minute' \in 0..LastMinute /\ window' \in 0..(Limit + 1)
    BY <1>1, MeteringConstants DEF Counted
  <1>8. \A q \in Requests : generation'[q].pc = "burst" => generation'[q].since <= minute'
    BY <1>1, MeteringConstants DEF Counted, One, Typical
  <1> QED  BY <1>1, <1>2, <1>4, <1>5, <1>6, <1>7, <1>8 DEF Counted

LEMMA AiInitIInv == Ai!AiInit => AiIInv
  <1> SUFFICES ASSUME Ai!AiInit PROVE AiIInv
    OBVIOUS
  <1>1. \A r \in Requests : generation[r] = Ai!Fresh /\ frames[r] = {} /\ rows[r] = 0
    BY DEF Ai!AiInit
  <1>2. Typical(Ai!Fresh) /\ Ai!Fresh.pc = "new" /\ Ai!Fresh.error = "none" /\ ~Ai!Fresh.aborted
        /\ ~Ai!Fresh.cancelled
    BY MeteringConstants DEF Typical, GenFields, GenPcs, Ai!Fresh
  <1>3. \A r \in Requests : One(r)
    BY <1>1, <1>2 DEF One, Story, Row
  <1>4. Recorded = {} /\ ~Asking /\ \A k \in Nat : Open(k) = {}
    BY <1>1, <1>2 DEF Recorded, Asking, Open
  <1>5. used = 0 /\ minute = 0 /\ window = 0
    BY DEF Ai!AiInit
  <1>6. Crowd(0) = 0 /\ Let = 0 /\ Lasting(0)
    BY <1>4, <1>5, FS_EmptySet, MeteringConstants DEF Crowd, Let, Lasting, Asking
  <1>7. used + Crowd(0) * Ai!Tokens < Ceiling
    BY <1>5, <1>6, LimitsAreNat, MeteringConstants
  <1>8. Counted
    BY <1>1, <1>2, <1>4, <1>5, <1>6, <1>7, FS_EmptySet, MeteringConstants DEF Counted
  <1> QED  BY <1>3, <1>8 DEF AiIInv, Shape, Ai!AiInit

LEMMA BurstKeeps ==
  ASSUME AiIInv, NEW r \in Requests, Ai!withinWorkspaceWindow(r)
  PROVE  Shape' /\ Others(r) /\ One(r)' /\ Counted'
  <1>1. generation[r].pc = "burst" /\ Ai!NoFrame /\ UNCHANGED minute /\ One(r) /\ Shape /\ Counted
    BY DEF Ai!withinWorkspaceWindow, Ai!At, AiIInv
  <1>2. window \in Nat /\ window' \in 0..(Limit + 1) /\ window <= window'
    <2>1. window \in 0..(Limit + 1)
      BY <1>1 DEF Counted
    <2>2. window' \in {window, IF window > Limit THEN window ELSE window + 1}
      BY DEF Ai!withinWorkspaceWindow
    <2> QED  BY <2>1, <2>2, MeteringConstants
  <1>3. CASE Ai!Goes(r, "refused") /\ (Ai!recordRefusal(r) \/ Ai!Metered)
    <2>1. Shape' /\ Others(r) /\ One(r)' /\ Uncounted(r) /\ generation'[r].pc = "refused"
      BY <1>1, <1>3, RefusalIs
    <2>2. used' = used
      BY <1>3 DEF Ai!recordRefusal, Ai!Metered
    <2> QED  BY <1>1, <1>2, <2>1, <2>2, UncountedKeeps DEF AiIInv
  <1>4. CASE /\ Ai!Becomes(r, [generation[r] EXCEPT !.pc = "stream", !.since = minute])
             /\ Ai!Metered /\ window' <= Limit
             /\ window' = IF window > Limit THEN window ELSE window + 1
    <2>4. minute \in Nat
      BY <1>1, MeteringConstants DEF Counted
    <2>1. Shape' /\ Others(r) /\ One(r)'
          /\ generation'[r].pc = "stream" /\ generation'[r].since = minute
      BY <1>1, <1>4, <2>4, AdmitIs
    <2>2. used' = used
      BY <1>4 DEF Ai!Metered
    <2>3. window' = window + 1 /\ window + 1 <= Limit
      BY <1>2, <1>4, MeteringConstants
    <2> QED  BY <1>1, <2>1, <2>2, <2>3, AdmitKeepsCounted DEF AiIInv
  <1> QED  BY <1>3, <1>4 DEF Ai!withinWorkspaceWindow, Ai!admit

LEMMA AiStep == AiIInv /\ Ai!AiNext => AiIInv'
  <1> SUFFICES ASSUME AiIInv, Ai!AiNext PROVE AiIInv'
    OBVIOUS
  <1>1. ASSUME NEW r \in Requests, Shape' /\ Others(r) /\ One(r)', Counted'
        PROVE  AiIInv'
    <2>1. \A q \in Requests \ {r} : One(q)'
      BY <1>1 DEF AiIInv, One, Others
    <2> QED  BY <1>1, <2>1 DEF AiIInv
  <1>2. ASSUME NEW r \in Requests, Shape' /\ Others(r) /\ One(r)' /\ Uncounted(r),
               UNCHANGED <<used, minute, window>>,
               generation'[r].pc = "burst" => used < Quota /\ generation'[r].since = minute
        PROVE  AiIInv'
    <2>1. window' \in 0..(Limit + 1) /\ window <= window'
      BY <1>2, MeteringConstants DEF AiIInv, Counted
    <2> QED  BY <1>1, <1>2, <2>1, UncountedKeeps DEF AiIInv
  <1>3. \A r \in Requests : Shape /\ One(r)
    BY DEF AiIInv
  <1>4. CASE \E r \in Requests : Ai!loadConfig(r)
    BY <1>2, <1>3, <1>4, LoadConfigIs DEF Ai!loadConfig, Ai!Metered
  <1>5. CASE \E r \in Requests : Ai!tokensUsedToday(r)
    BY <1>2, <1>3, <1>5, QuotaIs, MeteringConstants DEF AiIInv, Counted
  <1>6. CASE \E r \in Requests : Ai!withinWorkspaceWindow(r)
    BY <1>1, <1>6, BurstKeeps
  <1>7. ASSUME NEW r \in Requests, Ai!Unmetered, generation[r].pc = "stream",
               Shape' /\ Others(r) /\ One(r)' /\ Uncounted(r)
        PROVE  AiIInv'
    BY <1>2, <1>7 DEF Ai!Unmetered, Ai!Metered, Uncounted
  <1>8. CASE \E r \in Requests, blank \in BOOLEAN : Ai!delta(r, blank)
    BY <1>3, <1>7, <1>8, DeltaIs DEF Ai!delta, Ai!Streaming, Ai!At
  <1>9. CASE \E r \in Requests : Ai!usageEvent(r)
    BY <1>3, <1>7, <1>9, UsageEventIs DEF Ai!usageEvent, Ai!Streaming, Ai!At
  <1>10. CASE \E r \in Requests : Ai!onClose(r)
    BY <1>3, <1>7, <1>10, OnCloseIs DEF Ai!onClose, Ai!At
  <1>11. CASE \E r \in Requests : Ai!onDeadline(r)
    BY <1>3, <1>7, <1>11, OnDeadlineIs DEF Ai!onDeadline, Ai!At
  <1>12. CASE \E r \in Requests : Ai!finishes(r)
    BY <1>3, <1>7, <1>12, FinishesIs DEF Ai!finishes, Ai!At
  <1>13. CASE \E r \in Requests : Ai!throws(r)
    BY <1>3, <1>7, <1>13, ThrowsIs DEF Ai!throws, Ai!At
  <1>14. CASE \E r \in Requests : Ai!recordUsage(r)
    <2>1. PICK r \in Requests : Ai!recordUsage(r)
      BY <1>14
    <2>2. Shape /\ One(r) /\ Counted /\ \A q \in Requests : One(q)
      BY DEF AiIInv
    <2>3. Counted'
      BY <2>1, <2>2, RecordUsageIs, RecordKeepsCounted
    <2> QED  BY <1>1, <2>1, <2>2, <2>3, RecordUsageIs
  <1>15. CASE Ai!tick
    <2>1. Counted'
      BY <1>15, TickKeepsCounted DEF AiIInv
    <2>2. UNCHANGED <<generation, frames, rows>>
      BY <1>15 DEF Ai!tick, Ai!NoFrame
    <2>3. Shape' /\ \A r \in Requests : One(r)'
      BY <2>2 DEF AiIInv, Shape, One
    <2> QED  BY <2>1, <2>3 DEF AiIInv
  <1> QED
    BY <1>4, <1>5, <1>6, <1>8, <1>9, <1>10, <1>11, <1>12, <1>13, <1>14, <1>15
       DEF Ai!AiNext, Ai!Admitting, Ai!Generating

LEMMA AiIInvImplies == AiIInv => Ai!MeteringInv
  <1> SUFFICES ASSUME AiIInv PROVE Ai!MeteringInv
    OBVIOUS
  <1>1. Counted /\ \A r \in Requests : One(r)
    BY DEF AiIInv
  <1>2. Ai!AiTypeOK
    <2>1. Cardinality(Recorded) <= Cardinality(Requests) /\ Cardinality(Requests) \in Nat
      BY MeteringConstants, FS_Subset, FS_CardinalityType DEF Recorded
    <2>2. Cardinality(Recorded) * Ai!Tokens <= Cardinality(Requests) * Ai!Tokens
      BY <2>1, OpenFinite, Grows, MeteringConstants
    <2>3. Cardinality(Recorded) * Ai!Tokens \in Nat /\ Cardinality(Requests) * Ai!Tokens \in Nat
      <3> DEFINE n == Cardinality(Recorded)
      <3>1. n \in Nat
        BY OpenFinite
      <3> HIDE DEF n
      <3>2. n * Ai!Tokens \in Nat /\ Cardinality(Requests) * Ai!Tokens \in Nat
        BY <2>1, <3>1, MeteringConstants
      <3> QED  BY <3>2 DEF n
    <2>4. used \in 0..(Ai!Cardinality(Requests) * Ai!Tokens)
      BY <1>1, <2>2, <2>3, SameAiCardinality DEF Counted
    <2>5. \A r \in Requests : rows[r] \in Nat /\ generation[r].chars \in 0..MaxOutput
      BY <1>1 DEF One, Row, Typical
    <2> QED  BY <1>1, <2>4, <2>5 DEF Ai!AiTypeOK, Counted
  <1>3. Ai!OneUsageRow
    BY <1>1 DEF Ai!OneUsageRow, One, Row
  <1>4. Ai!OvershootIsBounded
    <2>1. used < Ceiling
      <3>1. CASE used >= Quota
        <4>1. PICK d \in Nat : used + Crowd(d) * Ai!Tokens < Ceiling
          BY <1>1, <3>1 DEF Counted
        <4>2. Crowd(d) \in Nat
          BY <1>1, CrowdIsNat, MeteringConstants DEF Let, Counted
        <4>3. Crowd(d) * Ai!Tokens \in Nat
          BY <4>2, MeteringConstants
        <4> QED  BY <1>1, <4>1, <4>3, LimitsAreNat DEF Counted
      <3>2. CASE used < Quota
        BY <1>1, <3>2, LimitsAreNat, MeteringConstants DEF Counted
      <3> QED  BY <1>1, <3>1, <3>2, MeteringConstants DEF Counted
    <2> QED  BY <2>1 DEF Ai!OvershootIsBounded, Ceiling, Overshoot
  <1>5. ASSUME NEW r \in Readers
        PROVE  /\ Cardinality(frames[r]) <= 1
               /\ generation[r].pc \in {"end", "recorded", "lost"} /\ ~generation[r].cancelled
                     => Cardinality(frames[r]) = 1
               /\ frames[r] = {"done"} => generation[r].error = "none" /\ generation[r].saw
    <2>1. Story(r, generation[r], frames[r]) /\ Typical(generation[r])
      BY <1>1, MeteringConstants DEF One
    <2>2. /\ frames[r] \in {{}, {"error"}, {"done"}}
          /\ generation[r].pc \in {"end", "recorded", "lost"} /\ ~generation[r].cancelled
                => frames[r] # {}
          /\ frames[r] = {"done"} => generation[r].error = "none" /\ generation[r].saw
      BY <2>1 DEF Story, Typical, GenPcs
    <2>3. Cardinality({}) = 0 /\ Cardinality({"error"}) = 1 /\ Cardinality({"done"}) = 1
      BY FS_EmptySet, FS_Singleton
    <2> QED  BY <2>2, <2>3
  <1>6. Ai!OneTerminalFrame /\ Ai!DoneIsWhole
    BY <1>5, SameAiCardinality DEF Ai!OneTerminalFrame, Ai!DoneIsWhole
  <1> QED  BY <1>2, <1>3, <1>4, <1>6 DEF Ai!MeteringInv

\* For any number of requests, any quota and any limit: every request that ends has its one row
\* of usage, concurrent ones overshoot the daily quota by no more than the windows of a timeout
\* and those that end before a burst check let in, and a reader is told once, and truly, how the
\* generation ended
\* (ai-governance.service.ts, ai-stream.service.ts).
THEOREM BooksAgree == MCSpec => []MeteringInv
  <1> DEFINE Inv == Is("ai") => AiIInv
  <1>1. MCInit => Inv
    BY AiInitIInv DEF MCInit
  <1>2. Inv /\ [MCNext]_mcVars => Inv'
    <2> SUFFICES ASSUME Inv, [MCNext]_mcVars PROVE Inv'
      OBVIOUS
    <2>1. subject' = subject /\ (UNCHANGED ai \/ (Is("ai") /\ Ai!AiNext))
      BY DEF MCNext, mcVars
    <2>2. CASE UNCHANGED ai
      <3>1. AiIInv => AiIInv'
        BY <2>2 DEF ai, AiIInv, Shape, One, Counted, Crowd, Lasting, Asking, Let, Open, Recorded
      <3> QED  BY <2>1, <3>1 DEF Is
    <2>3. CASE Is("ai") /\ Ai!AiNext
      BY <2>3, AiStep
    <2> QED  BY <2>1, <2>2, <2>3
  <1>3. Inv => MeteringInv
    BY AiIInvImplies DEF MeteringInv
  <1> QED  BY <1>1, <1>2, <1>3, PTL DEF MCSpec
=============================================================================
