------------------------ MODULE AuthorizationPolicy ------------------------
(***************************************************************************)
(* The one authority on who may do what (authorization-policy.service.ts). *)
(*                                                                         *)
(* An action is a pair of an area and a verb.  A request is an action and  *)
(* the facts the repository loaded about its resource; the facts of the    *)
(* note of a comment or a file, and of the source of an export, are those  *)
(* of the resource itself here.  The facts change under the steps of this  *)
(* specification as sharing and restriction change them.                   *)
(***************************************************************************)
EXTENDS Naturals, FiniteSets

CONSTANTS
    Verbs,        \* the verbs of each area: AUTHORIZATION_ACTIONS
    NoProject,    \* the project of a standalone resource
    NoDelegation  \* the delegation of a request that shares nothing

VARIABLE request

----------------------------------------------------------------------------
(* The catalog.                                                            *)

Actions == UNION {{<<area, verb>> : verb \in Verbs[area]} : area \in DOMAIN Verbs}

WorkspaceActions ==
    {<<"member", "list">>, <<"member", "invite">>, <<"project", "create">>, <<"note", "create">>,
     <<"export", "create">>, <<"apiKey", "list">>, <<"apiKey", "create">>, <<"webhook", "list">>,
     <<"webhook", "create">>, <<"folder", "create">>, <<"task", "create">>, <<"tag", "read">>,
     <<"tag", "create">>, <<"ai", "configure">>, <<"ai", "use">>, <<"audit", "read">>,
     <<"audit", "export">>}

\* RESOURCE_KINDS_BY_ACTION: the kind is the area, except for what is created in a parent.
Kinds(action) ==
    CASE action = <<"workspace", "delete">> -> {"workspaceDeletion"}
      [] action \in {<<"note", "create">>, <<"export", "create">>} -> {"workspace", "project", "note"}
      [] action = <<"task", "create">> -> {"workspace", "project", "task"}
      [] action = <<"folder", "create">> -> {"workspace", "folder"}
      [] action = <<"tag", "read">> -> {"workspace", "tag"}
      [] action \in {<<"comment", "create">>, <<"file", "upload">>} -> {"note"}
      [] action \in WorkspaceActions \ {<<"note", "create">>, <<"export", "create">>,
             <<"task", "create">>, <<"folder", "create">>, <<"tag", "read">>} -> {"workspace"}
      [] OTHER -> {action[1]}

HighRisk ==
    {<<"billing", "update">>, <<"workspace", "delete">>, <<"member", "update">>,
     <<"member", "remove">>, <<"apiKey", "create">>, <<"apiKey", "revoke">>,
     <<"webhook", "create">>, <<"webhook", "update">>, <<"webhook", "delete">>,
     <<"session", "revoke">>, <<"ai", "configure">>}

Roles == <<"viewer", "editor", "admin", "owner">>
Accesses == {"none", "viewer", "editor", "admin"}
Projects == {NoProject} \cup [restricted : BOOLEAN, access : Accesses]
Shares == {"none", "view", "comment", "edit"}
Shared(action) == action \in {<<"note", "share">>, <<"project", "share">>}
Permissions(kind) == IF kind = "project" THEN {"viewer", "editor", "admin"}
                                         ELSE {"view", "comment", "edit"}

Delegations(action) ==
    IF Shared(action)
    THEN [requested : Permissions(action[1]), target : Accesses, active : BOOLEAN]
    ELSE {NoDelegation}

Statuses(action) == IF action[1] = "export" THEN {"open", "ready", "closed"} ELSE {"none"}

\* What the repository may have loaded for an action on a kind of resource.
Facts(a, k) ==
    [action : {a}, kind : {k}, valid : BOOLEAN, current : BOOLEAN, mine : BOOLEAN,
     project : IF k \in {"project", "note", "comment", "file", "task", "export"}
               THEN Projects ELSE {NoProject},
     noteMine : IF k \in {"comment", "file"} THEN BOOLEAN ELSE {FALSE},
     share : IF k \in {"note", "comment", "file"} THEN Shares ELSE {"none"},
     target : IF k \in {"member", "task"} THEN {"owner", "other", "left"} ELSE {"other"},
     readable : IF k = "export" THEN BOOLEAN ELSE {TRUE},
     status : Statuses(a),
     delegation : Delegations(a)]

----------------------------------------------------------------------------
(* The predicates on facts.                                                *)

InProject(r) == r.project # NoProject
Restricted(r) == InProject(r) /\ r.project.restricted
Access(r) == IF InProject(r) THEN r.project.access ELSE "none"

projectCanRead(r) == ~Restricted(r) \/ Access(r) # "none"
projectCanEdit(r) == ~Restricted(r) \/ Access(r) \in {"editor", "admin"}
projectCanAdmin(r) == Access(r) = "admin"
projectCanManage(r) == Access(r) \in {"admin", "editor"}

HasNote(r) == r.kind \in {"note", "comment", "file"}
IsNoteMine(r) == IF r.kind = "note" THEN r.mine ELSE r.noteMine
\* Mutant: a share opens a note whatever its project says.
noteShared(r) == HasNote(r) /\ ((projectCanEdit(r) /\ IsNoteMine(r)) \/ r.share = "edit")

noteCanEdit(r) == HasNote(r) /\ projectCanEdit(r) /\ (IsNoteMine(r) \/ r.share = "edit")
noteCanComment(r) == HasNote(r) /\ projectCanRead(r)

\* Mutant: a restricted project hides its notes, and nothing else.
resourceCanReadOthers(r) == r.kind \in {"note", "comment", "file"} => projectCanRead(r)

resourceCanRead(r) ==
    r.kind \in {"note", "comment", "file", "project", "task"} => projectCanRead(r)

exportSourceReadable(r) == r.readable /\ projectCanRead(r)

\* What a target's project access caps a note grant at.
NoteCapped(r) ==
    Restricted(r) =>
        /\ r.delegation.target # "none"
        /\ r.delegation.target = "viewer" => r.delegation.requested # "edit"

delegationIsValid(r) ==
    /\ r.delegation # NoDelegation /\ r.delegation.active
    /\ r.kind # "project" => NoteCapped(r)

editorDelegationAllowed(r) ==
    /\ r.delegation # NoDelegation /\ r.delegation.active
    /\ IF r.kind = "project"
       THEN projectCanAdmin(r) /\ r.delegation.requested # "admin"
       ELSE noteCanEdit(r) /\ NoteCapped(r)

----------------------------------------------------------------------------
(* The decisions.                                                          *)

IsRead(a) == a[2] \in {"read", "list"}
Always == {<<"workspace", "read">>, <<"settings", "read">>, <<"member", "list">>}
AdminOnly(a) ==
    \/ a[1] \in {"billing", "apiKey", "webhook", "audit"}
    \/ a \in {<<"workspace", "delete">>, <<"settings", "update">>}
    \/ a[1] = "member" /\ a[2] # "list"

OwnExport(r) == r.mine /\ exportSourceReadable(r)
ReadAllowed(r) == IF r.kind = "export" THEN OwnExport(r) ELSE resourceCanRead(r)

editorAllowed(r) ==
    LET a == r.action
    IN  /\ ~AdminOnly(a) /\ a # <<"ai", "configure">>
        /\ \/ a \in Always \cup {<<"ai", "use">>}
           \/ (IsRead(a) \/ a = <<"export", "download">>) /\ ReadAllowed(r)
           \/ a = <<"project", "update">> /\ projectCanManage(r)
           \/ Shared(a) /\ editorDelegationAllowed(r)
           \/ a \in {<<"note", "create">>, <<"task", "create">>} /\ projectCanEdit(r)
           \/ a \in {<<"note", "update">>, <<"note", "tag">>, <<"comment", "resolve">>,
                     <<"file", "upload">>} /\ noteCanEdit(r)
           \/ a = <<"comment", "create">> /\ noteCanComment(r)
           \/ a \in {<<"comment", "update">>, <<"comment", "delete">>, <<"folder", "update">>}
                  /\ r.mine
           \/ a = <<"export", "create">> /\ resourceCanRead(r)
           \/ a = <<"export", "cancel">> /\ OwnExport(r)
           \/ a = <<"file", "delete">> /\ r.mine /\ noteCanEdit(r)
           \/ a \in {<<"folder", "create">>, <<"tag", "create">>, <<"tag", "update">>}
           \/ a \in {<<"task", "update">>, <<"task", "tag">>} /\ r.mine /\ projectCanEdit(r)
           \/ a = <<"task", "assign">> /\ projectCanEdit(r) /\ r.target # "left"

viewerAllowed(r) ==
    LET a == r.action
    IN  /\ ~AdminOnly(a) /\ a[1] # "ai"
        /\ \/ a \in Always
           \/ IsRead(a) /\ ReadAllowed(r)
           \/ a = <<"comment", "create">> /\ noteCanComment(r)
           \/ a \in {<<"comment", "update">>, <<"comment", "delete">>} /\ r.mine
           \/ a = <<"export", "create">> /\ resourceCanRead(r)
           \/ a \in {<<"export", "download">>, <<"export", "cancel">>} /\ OwnExport(r)

decideUser(r, role) ==
    CASE role = "owner" -> TRUE
      [] role = "admin" -> /\ r.action \notin {<<"billing", "read">>, <<"billing", "update">>,
                                               <<"workspace", "delete">>}
                           /\ ~(r.action \in {<<"member", "update">>, <<"member", "remove">>}
                                /\ r.target = "owner")
      [] role = "editor" -> editorAllowed(r)
      [] role = "viewer" -> viewerAllowed(r)

decideApiKey(r, scopes) ==
    LET a == r.action
        adminAction == \/ a[1] \in {"member", "settings", "billing", "apiKey", "webhook", "audit"}
                       \/ a = <<"workspace", "delete">>
        needed == IF adminAction THEN {"admin"}
                  ELSE IF IsRead(a) \/ a = <<"export", "download">> THEN {"read", "admin"}
                  ELSE {"write", "admin"}
    IN  a[1] # "ai" /\ scopes \cap needed # {} /\ resourceCanRead(r)

\* What every decision asks first.
Admissible(r) ==
    /\ r.valid /\ r.current
    /\ r.action = <<"export", "download">> => r.status = "ready"
    /\ r.action = <<"export", "cancel">> => r.status = "open"
    /\ Shared(r.action) => delegationIsValid(r)

\* decide, for a member of the workspace whose session is recent or not, and for a key.
UserMay(r, role, fresh) ==
    /\ Admissible(r)
    /\ r.action \in HighRisk => fresh
    /\ r.action[1] # "session" => decideUser(r, role)

KeyMay(r, scopes) ==
    Admissible(r) /\ r.action[1] # "session" /\ decideApiKey(r, scopes)

\* The predicate the search applies to each result.
canReadNote(role, project) ==
    \/ role \in {"owner", "admin"}
    \/ project = NoProject
    \/ ~project.restricted \/ project.access # "none"

----------------------------------------------------------------------------
(* The facts change between requests.                                      *)

PolicyInit ==
    \E a \in Actions : \E k \in Kinds(a) : request \in {r \in Facts(a, k) : r.share = "none"}

\* The note is shared with the actor, or shared again with another permission.
shareNote(permission) ==
    /\ HasNote(request)
    /\ request' = [request EXCEPT !.share = permission]

restrictProject ==
    /\ InProject(request) /\ ~request.project.restricted
    /\ request' = [request EXCEPT !.project.restricted = TRUE]

revokeAccess ==
    /\ InProject(request) /\ request.project.access # "none"
    /\ request' = [request EXCEPT !.project.access = "none"]

PolicyNext ==
    \/ \E permission \in Shares \ {"none"} : shareNote(permission)
    \/ restrictProject
    \/ revokeAccess

PolicySpec == PolicyInit /\ [][PolicyNext]_request

----------------------------------------------------------------------------
(* What the policy promises.                                               *)

\* A request carries the facts its resource has (authorization.contracts.ts).
PolicyTypeOK ==
    /\ request.action \in Actions
    /\ request.kind \in Kinds(request.action)
    /\ request \in Facts(request.action, request.kind)

\* Whatever a role may do, every higher role may do (docs/authorization.md, the matrix).
RolesAreNested ==
    \A fresh \in BOOLEAN, k \in 1..3 :
        UserMay(request, Roles[k], fresh) => UserMay(request, Roles[k + 1], fresh)

\* An editor, a viewer or a key without a grant reads and changes nothing in a restricted
\* project, except a comment of their own (docs/authorization.md, the matrix).
RestrictedStaysClosed ==
    /\ Restricted(request) /\ request.project.access = "none"
    /\ request.kind \in {"project", "note", "comment", "file", "task"}
    => /\ \A fresh \in BOOLEAN, role \in {"editor", "viewer"} :
              UserMay(request, role, fresh) =>
                  request.mine /\ request.action \in {<<"comment", "update">>, <<"comment", "delete">>}
       /\ \A scopes \in SUBSET {"read", "write", "admin"} : ~KeyMay(request, scopes)

\* The search shows a note exactly when reading it is allowed (canReadNote).
SearchAgreesWithPolicy ==
    request.action = <<"note", "read">> /\ Admissible(request) =>
        \A k \in DOMAIN Roles :
            UserMay(request, Roles[k], FALSE) = canReadNote(Roles[k], request.project)

\* The decisions of the policy agree with one another, and with the matrix.
PolicyInv ==
    PolicyTypeOK /\ RolesAreNested /\ RestrictedStaysClosed /\ SearchAgreesWithPolicy

\* Sharing a note opens nothing in a project its reader has no access to, and neither
\* restricting a project nor revoking a grant opens anything.
NothingOpensByClosing ==
    [][request' # request => \A fresh \in BOOLEAN, role \in {"editor", "viewer"} :
          /\ UserMay(request', role, fresh)
          /\ ~UserMay(request, role, fresh)
          => request'.share # request.share /\ projectCanEdit(request)]_request

=============================================================================
