---------------------------- MODULE MCWorkspace ----------------------------
(***************************************************************************)
(* What the members of a workspace do at the same time, one component at a *)
(* time: the subject of a behaviour is drawn at its start and the variables *)
(* of the others keep their first values.                                  *)
(***************************************************************************)
EXTENDS Membership, TLC

CONSTANTS
    Notes, Top, Folders, Unfiled, MaxAsked, Tree,
    Items, Lists, Nowhere, Home, Unit, Farthest, Clerks, Initial, MaxPlacements,
    Before, Week, YearMonths, HorizonYears, LastDay, MaxUpdates, None,
    Verbs, NoProject, NoDelegation,
    Requests, Readers, Quota, Limit, MaxOutput, Prompt, Patience, Timeout, LastMinute

VARIABLES
    subject,
    note, folders, working, asked,
    place, snapshot, placements,
    now, task, spawn, updates,
    request,
    used, rows, minute, window, generation, frames

\* No project is no project: a standalone resource is told from one that is in a project.
ASSUME ProjectAssumption ==
    NoProject \notin [restricted : BOOLEAN, access : {"none", "viewer", "editor", "admin"}]

\* A workspace may have no quota left, but its burst limit and a prompt's ceiling are positive.
ASSUME MeteringAssumption ==
    /\ IsFiniteSet(Requests) /\ Readers \subseteq Requests
    /\ {Quota, Prompt, Patience, Timeout, LastMinute} \subseteq Nat
    /\ {Limit, MaxOutput} \subseteq Nat \ {0}

\* A note has another one, or none, for its parent; the transactions are counted.
ASSUME HierarchyAssumption ==
    /\ IsFiniteSet(Notes) /\ Top \notin Notes
    /\ DOMAIN Tree \subseteq Notes /\ \A n \in DOMAIN Tree : Tree[n] \in Notes \cup {Top}
    /\ MaxAsked \in Nat

\* Months come one after another, none is longer than two others together, and there are
\* enough of them for what the updates may put off, from the last day of the clock on.
ASSUME CalendarAssumption ==
    /\ Before \in Seq(Nat) /\ Len(Before) > 1 /\ Before[1] = 0
    /\ \A m, n \in 1..Len(Before) : m < n => Before[m] < Before[n]
    /\ \A m, n \in 1..Len(Before) - 2 : Before[m + 1] - Before[m] <= Before[n + 2] - Before[n]
    /\ {Week, YearMonths, HorizonYears, LastDay} \subseteq Nat \ {0}
    /\ MaxUpdates \in Nat /\ None \notin Nat
    /\ \E start \in 1..Len(Before) :
          /\ LastDay <= Before[start]
          /\ start + MaxUpdates * (YearMonths * HorizonYears + 1) = Len(Before)

Hierarchy == INSTANCE NoteTree
Order == INSTANCE SiblingOrder WITH Sessions <- Clerks, Groups <- Lists
Recurrence == INSTANCE TaskRecurrence
Policy == INSTANCE AuthorizationPolicy
Ai == INSTANCE AiGeneration

hierarchy == <<note, folders, working, asked>>
order == <<place, snapshot, placements>>
recurrence == <<now, task, spawn, updates>>
ai == <<used, rows, minute, window, generation, frames>>
mcVars == <<subject, memberVars, hierarchy, order, recurrence, request, ai>>

Is(s) == subject = s

AnyRequest == [action |-> <<"note", "read">>, kind |-> "note", valid |-> TRUE, current |-> TRUE,
               project |-> NoProject, mine |-> TRUE, noteMine |-> FALSE, share |-> "none",
               target |-> "other", readable |-> TRUE, status |-> "none",
               delegation |-> NoDelegation]

MCInit ==
    /\ subject \in {"members", "hierarchy", "note order", "task order", "recurrence", "policy", "ai"}
    /\ MemberInit /\ Hierarchy!TreeInit /\ Order!OrderInit /\ Ai!AiInit
    /\ IF Is("recurrence") THEN Recurrence!RecurrenceInit
       ELSE now = 1 /\ task = None /\ spawn = None /\ updates = 0
    /\ IF Is("policy") THEN Policy!PolicyInit ELSE request = AnyRequest

MCNext ==
    /\ UNCHANGED subject
    /\ \/ Is("members") /\ MemberNext
          /\ UNCHANGED <<hierarchy, order, recurrence, request, ai>>
       \/ Is("hierarchy") /\ Hierarchy!TreeNext
          /\ UNCHANGED <<memberVars, order, recurrence, request, ai>>
       \/ Is("note order") /\ Order!NoteOrderNext
          /\ UNCHANGED <<memberVars, hierarchy, recurrence, request, ai>>
       \/ Is("task order") /\ Order!TaskOrderNext
          /\ UNCHANGED <<memberVars, hierarchy, recurrence, request, ai>>
       \/ Is("recurrence") /\ Recurrence!RecurrenceNext
          /\ UNCHANGED <<memberVars, hierarchy, order, request, ai>>
       \/ Is("policy") /\ Policy!PolicyNext
          /\ UNCHANGED <<memberVars, hierarchy, order, recurrence, ai>>
       \/ Is("ai") /\ Ai!AiNext
          /\ UNCHANGED <<memberVars, hierarchy, order, recurrence, request>>

MCSpec == MCInit /\ [][MCNext]_mcVars

----------------------------------------------------------------------------
(* The properties of the components; those of Membership are here by       *)
(* EXTENDS.                                                                *)

\* Restoring a note brings back what its deletion took, whole and alone, and a permanent
\* deletion removes nothing that is live (notes.service.ts).
TrashIsSound == Hierarchy!RestoreUndoesDeletion /\ Hierarchy!PurgeSparesTheLiving

\* With the transactions of these bounds the notes are a forest; and a row lands where it
\* was asked for, while the others keep their order (notes.service.ts, fractional-order.ts).
EverythingInPlace ==
    /\ [](Is("hierarchy") => Hierarchy!TreeTypeOK /\ Hierarchy!Acyclic)
    /\ [](Is("note order") \/ Is("task order") => Order!OrderTypeOK)
    /\ Order!PlacedWhereAsked

\* The successor of a task is the first date of its recipe that is ahead
\* (task-recurrence.ts).
SuccessorInv == Is("recurrence") => Recurrence!SuccessorInv

\* The decisions of the policy agree with one another and with the matrix
\* (authorization-policy.service.ts).
PolicyInv == Is("policy") => Policy!PolicyInv

\* Restricting a project or revoking a grant opens nothing.
NothingOpensByClosing == Policy!NothingOpensByClosing

\* The books of the AI gateway, its quota and what its readers are told agree
\* (ai-governance.service.ts, ai-stream.service.ts).
MeteringInv == Is("ai") => Ai!MeteringInv

----------------------------------------------------------------------------
(* Constants.                                                              *)

CONSTANTS x1, x2, y1, spare, FirstTwo, LastTwo

Moves(p) == \E v \in DOMAIN p : p[v] # v

\* The permutations of two pairs at once.
Together(S, T) ==
    {t[1] @@ t[2] : t \in {u \in Permutations(S) \X Permutations(T) : Moves(u[1]) <=> Moves(u[2])}}

\* Nothing but the owners sets its members apart, and nothing the AI requests.  The subjects
\* do not meet in a behaviour, so one permutation may stand for one of each.
WorkspaceSymmetry ==
    Permutations(Sessions) \cup Together(Founders, FirstTwo) \cup Together(Invitations, LastTwo)

MCTree == x1 :> Top @@ x2 :> x1 @@ y1 :> Top

\* Item 4 does not exist yet, item 3 is alone in the container that can be deleted.
MCPlaces == [i \in Items |->
    CASE i = 4 -> [group |-> Nowhere, at |-> 0]
      [] i = 3 -> [group |-> "b", at |-> Unit]
      [] OTHER -> [group |-> Home, at |-> i * Unit]]

\* A year of three months, of three and four days.
MCBefore == <<0, 4, 7, 11, 15, 18, 22, 26, 29, 33, 37, 40, 44>>

MCVerbs == [
    workspace |-> {"read", "delete"}, settings |-> {"read", "update"},
    billing |-> {"read", "update"}, member |-> {"list", "invite", "update", "remove"},
    project |-> {"read", "create", "update", "delete", "share"},
    note |-> {"read", "create", "update", "delete", "share", "tag"},
    comment |-> {"read", "create", "update", "delete", "resolve"},
    export |-> {"create", "read", "download", "cancel"}, apiKey |-> {"list", "create", "revoke"},
    webhook |-> {"list", "create", "update", "delete", "redeliver"},
    file |-> {"read", "upload", "delete"}, folder |-> {"read", "create", "update", "delete"},
    task |-> {"read", "create", "update", "delete", "assign", "tag"},
    tag |-> {"read", "create", "update", "delete"}, session |-> {"list", "revoke"},
    ai |-> {"configure", "use"}, audit |-> {"read", "export"}]
=============================================================================
