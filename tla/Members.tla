------------------------------- MODULE Members -------------------------------
(***************************************************************************)
(* Who may do what: groups and their members, the roles a project adds,    *)
(* the visibility of both, and the levels that come of them.               *)
(*                                                                         *)
(* A handler authenticates its caller, authorises the call and reads the   *)
(* rows it needs without locking any, then writes and commits: its         *)
(* decision may be old when its writes land.  The accounts are constants.  *)
(***************************************************************************)
EXTENDS AccessRules, FiniteSets

CONSTANTS
  Users, NoUser, (* the active accounts                                    *)
  SystemAdmins,  (* those with is_system_admin                             *)
  Groups,
  Projects, NoProject,
  Creator,     (* the owner a group is created with                        *)
  GroupOf,     (* the group of each project                                *)
  Handlers,    (* bound: requests at the same time                         *)
  RolesGiven,  (* bound: the roles a body names                            *)
  ScopesGiven, (* bound: the sets of scopes of tokens                      *)
  Touched      (* bound: the groups that requests change                   *)

ASSUME MembersAssumption ==
  /\ SystemAdmins \subseteq Users /\ Creator \in Users /\ IsFiniteSet(Users)
  /\ GroupOf \in [Projects -> Groups]
  /\ NoUser \notin Users /\ NoProject \notin Projects
  /\ RolesGiven \subseteq GroupRole /\ Touched \subseteq Groups
  /\ \A scopes \in ScopesGiven : scopes \subseteq Scope

VARIABLES
  group,      (* groups: visibility                                        *)
  project,    (* projects: visibility                                      *)
  member,     (* group_members: at most one row per group and user         *)
  override,   (* project_members: at most one row per project and user     *)
  req,        (* the request of each handler                               *)
  overlapped  (* history: groups of which two handlers that change or      *)
              (* remove members overlapped                                 *)

tables == <<group, project, member, override>>
vars == <<tables, req, overlapped>>

Idle == [op |-> "none", by |-> NoUser, level |-> NONE, on |-> NoProject, who |-> NoUser,
         value |-> NoRole, read |-> NoRole, gone |-> FALSE]

Init ==
  /\ group = [g \in Groups |-> "PRIVATE"]
  /\ project = [p \in Projects |-> "INTERNAL"]
  /\ member = [g \in Groups |-> [u \in Users |-> IF u = Creator THEN "OWNER" ELSE NoRole]]
  /\ override = [p \in Projects |-> [u \in Users |-> NoRole]]
  /\ req = [h \in Handlers |-> Idle]
  /\ overlapped = {}

-----------------------------------------------------------------------------
(* A principal: a session of a user, which has every scope, a personal     *)
(* token, or a token bound to a project, which has no user.                *)
Principal(u, scopes, p) == [user |-> u, scopes |-> scopes, bound |-> p]
Session(u) == Principal(u, Scope, NoProject)
PersonalToken(u, scopes) == Principal(u, expand_scopes(scopes), NoProject)
ServiceToken(p, scopes) == Principal(NoUser, expand_scopes(scopes), p)
Principals ==
  {Session(u) : u \in Users}
    \cup {PersonalToken(u, scopes) : u \in Users, scopes \in ScopesGiven}
    \cup {ServiceToken(p, scopes) : p \in Projects, scopes \in ScopesGiven}

is_admin(pr) == pr.user \in SystemAdmins /\ "admin" \in pr.scopes

(* What the API and the registry ask before they look at a role.           *)
_api_principal(pr, scope) == scope \in pr.scopes
_principal(pr) == "read_package" \in pr.scopes

RoleIn(table, u) == IF u = NoUser THEN NoRole ELSE table[u]
BoundViewer(pr, p) == pr.bound # NoProject /\ GroupOf[pr.bound] = GroupOf[p]

principal_project_level(pr, p) ==
  project_level([is_admin |-> is_admin(pr),
                 group_role |-> RoleIn(member[GroupOf[p]], pr.user),
                 project_role |-> RoleIn(override[p], pr.user),
                 project_visibility |-> project[p],
                 group_visibility |-> group[GroupOf[p]],
                 bound_project_viewer |-> BoundViewer(pr, p)])
principal_group_level(pr, g) == group_level(is_admin(pr), RoleIn(member[g], pr.user), group[g])

(* Mutants: a call needs only to see the group; the lists forget the roles *)
(* of projects.                                                            *)
GroupSeen(pr, g, perm) == principal_group_level(pr, g) >= VIEWER
ListedByGroup(pr) ==
  {p \in Projects :
     \/ is_admin(pr) \/ RoleIn(member[GroupOf[p]], pr.user) # NoRole
     \/ project[p] = "INTERNAL" /\ group[GroupOf[p]] = "INTERNAL"
     \/ pr.bound # NoProject /\ GroupOf[pr.bound] = GroupOf[p]}

require_project(pr, p, perm) ==
  LET level == principal_project_level(pr, p) IN level >= VIEWER /\ can_project(level, perm)
require_group(pr, g, perm) ==
  LET level == principal_group_level(pr, g) IN level >= VIEWER /\ can_group(level, perm)

(* The WHERE of the lists.                                                 *)
visible_projects_filter(pr) ==
  IF is_admin(pr) THEN Projects
  ELSE {p \in Projects :
          \/ project[p] = "INTERNAL" /\ group[GroupOf[p]] = "INTERNAL"
          \/ RoleIn(member[GroupOf[p]], pr.user) # NoRole
          \/ RoleIn(override[p], pr.user) # NoRole
          \/ pr.bound = p
          \/ pr.bound # NoProject /\ GroupOf[pr.bound] = GroupOf[p]}
visible_groups_filter(pr) ==
  IF is_admin(pr) THEN Groups
  ELSE {g \in Groups : group[g] = "INTERNAL" \/ RoleIn(member[g], pr.user) # NoRole}

(* The lists of projects, builds, packages and groups, and the pages that  *)
(* open from them; each project here has built and released one package,   *)
(* under a name of its own.                                                *)
list_projects(pr) == IF _api_principal(pr, "read_api") THEN visible_projects_filter(pr) ELSE {}
get_project(pr, p) == _api_principal(pr, "read_api") /\ require_project(pr, p, "PROJECT_READ")

list_builds(pr) == IF _api_principal(pr, "read_api") THEN visible_projects_filter(pr) ELSE {}
list_project_builds(pr, p) == _api_principal(pr, "read_api") /\ require_project(pr, p, "BUILD_VIEW")

require_package_access(pr, p) == require_project(pr, p, "PACKAGE_READ")
list_packages(pr) == IF _api_principal(pr, "read_api") THEN visible_projects_filter(pr) ELSE {}
get_package(pr, p) == _api_principal(pr, "read_api") /\ require_package_access(pr, p)

list_groups(pr) == IF _api_principal(pr, "read_api") THEN visible_groups_filter(pr) ELSE {}
get_group(pr, g) == _api_principal(pr, "read_api") /\ require_group(pr, g, "READ")

(* The simple index, its page of a package, and the files.                 *)
visible_internal_package_names(pr) == visible_projects_filter(pr)
simple_root(pr) == IF _principal(pr) THEN visible_internal_package_names(pr) ELSE {}
simple_project(pr, p) == _principal(pr) /\ require_package_access(pr, p)
download_internal(pr, p) == _principal(pr) /\ require_package_access(pr, p)

(* The members page of a project: the higher of a user's two roles.        *)
list_project_members(p) ==
  [u \in Users |-> IF ROLE_LEVEL[override[p][u]] > ROLE_LEVEL[member[GroupOf[p]][u]]
                   THEN override[p][u] ELSE member[GroupOf[p]][u]]

-----------------------------------------------------------------------------
(* A body that changes nothing writes nothing; it is left out.             *)
MemberOps == {"update_member", "remove_member"}

Open(h, r) ==
  /\ req' = [req EXCEPT ![h] = r]
  /\ overlapped' = IF r.op \in MemberOps /\ \E q \in Handlers : req[q].op \in MemberOps /\ req[q].on = r.on
                   THEN overlapped \cup {r.on} ELSE overlapped
  /\ UNCHANGED tables

Request(op, pr, level, on, who, value, read) ==
  [op |-> op, by |-> pr.user, level |-> level, on |-> on, who |-> who, value |-> value,
   read |-> read, gone |-> FALSE]

_owner_count(g) == Cardinality({u \in Users : member[g][u] = "OWNER"})
(* Mutants: the count is off by one; a member need not be one.             *)
LastOwnerOffByOne(g, u) == member[g][u] = "OWNER" /\ _owner_count(g) < 1
Anyone(table, u) == TRUE

(* _get_member, and its counterpart for the roles of a project.            *)
IsMember(table, u) == table[u] # NoRole
LastOwner(g, u) == member[g][u] = "OWNER" /\ _owner_count(g) <= 1

AddMember(h, pr, g, u, role) ==
  /\ require_group(pr, g, "MANAGE")
  /\ Open(h, Request("add_member", pr, principal_group_level(pr, g), g, u, role, NoRole))

UpdateMember(h, pr, g, u, role) ==
  /\ require_group(pr, g, "MANAGE")
  /\ IsMember(member[g], u) /\ role # member[g][u]
  /\ ~LastOwner(g, u)
  /\ Open(h, Request("update_member", pr, principal_group_level(pr, g), g, u, role, member[g][u]))

(* A member may leave; anyone else needs MANAGE.                           *)
RemoveMember(h, pr, g, u) ==
  /\ \/ pr.user = u /\ principal_group_level(pr, g) >= VIEWER
     \/ require_group(pr, g, "MANAGE")
  /\ IsMember(member[g], u)
  /\ ~LastOwner(g, u)
  /\ Open(h, Request("remove_member", pr, principal_group_level(pr, g), g, u, NoRole, member[g][u]))

UpdateGroup(h, pr, g, visibility) ==
  /\ require_group(pr, g, "MANAGE")
  /\ visibility # group[g]
  /\ Open(h, Request("update_group", pr, principal_group_level(pr, g), g, NoUser, visibility, group[g]))

UpdateProject(h, pr, p, visibility) ==
  /\ require_project(pr, p, "PROJECT_UPDATE")
  /\ visibility # project[p]
  /\ Open(h, Request("update_project", pr, principal_project_level(pr, p), p, NoUser, visibility, project[p]))

AddProjectMember(h, pr, p, u, role) ==
  /\ require_project(pr, p, "PROJECT_MEMBERS")
  /\ ROLE_LEVEL[role] <= max_grantable_project_role(principal_project_level(pr, p))
  /\ role # override[p][u]
  /\ Open(h, Request("add_project_member", pr, principal_project_level(pr, p), p, u, role, override[p][u]))

RemoveProjectMember(h, pr, p, u) ==
  /\ require_project(pr, p, "PROJECT_MEMBERS")
  /\ IsMember(override[p], u)
  /\ Open(h, Request("remove_project_member", pr, principal_project_level(pr, p), p, u, NoRole, override[p][u]))

-----------------------------------------------------------------------------
(* The commits.  A column is written when its value is not the one read.   *)
(* Rows are found by their key: an UPDATE of a row that is gone fails, a   *)
(* DELETE of one does nothing, an INSERT of one that is there fails.       *)
Close(h) == req' = [req EXCEPT ![h] = Idle]

(* Whoever has read the row holds the key of one that is gone.             *)
CloseRemoving(h, ops) ==
  req' = [q \in Handlers |->
            IF q = h THEN Idle
            ELSE IF req[q].op \in ops /\ req[q].on = req[h].on /\ req[q].who = req[h].who
                    /\ req[q].read # NoRole
                 THEN [req[q] EXCEPT !.gone = TRUE] ELSE req[q]]

Written(row, r) == IF r.gone THEN row ELSE r.value

CommitMember(h) ==
  LET r == req[h] IN
  /\ \/ /\ r.op = "add_member"
        /\ member' = IF member[r.on][r.who] # NoRole THEN member
                     ELSE [member EXCEPT ![r.on][r.who] = r.value]
        /\ Close(h)
     \/ /\ r.op = "update_member"
        /\ member' = [member EXCEPT ![r.on][r.who] = Written(@, r)]
        /\ Close(h)
     \/ /\ r.op = "remove_member"
        /\ member' = IF r.gone THEN member ELSE [member EXCEPT ![r.on][r.who] = NoRole]
        /\ IF r.gone THEN Close(h) ELSE CloseRemoving(h, MemberOps)
  /\ UNCHANGED <<group, project, override, overlapped>>

CommitOverride(h) ==
  LET r == req[h] IN
  /\ \/ /\ r.op = "add_project_member"
        /\ override' = IF r.read = NoRole /\ override[r.on][r.who] # NoRole THEN override
                       ELSE [override EXCEPT ![r.on][r.who] = Written(@, r)]
        /\ Close(h)
     \/ /\ r.op = "remove_project_member"
        /\ override' = IF r.gone THEN override ELSE [override EXCEPT ![r.on][r.who] = NoRole]
        /\ IF r.gone THEN Close(h)
           ELSE CloseRemoving(h, {"add_project_member", "remove_project_member"})
  /\ UNCHANGED <<group, project, member, overlapped>>

CommitVisibility(h) ==
  LET r == req[h] IN
  /\ \/ /\ r.op = "update_group" /\ group' = [group EXCEPT ![r.on] = Written(@, r)]
        /\ UNCHANGED project
     \/ /\ r.op = "update_project" /\ project' = [project EXCEPT ![r.on] = Written(@, r)]
        /\ UNCHANGED group
  /\ Close(h)
  /\ UNCHANGED <<member, override, overlapped>>

-----------------------------------------------------------------------------
TouchedProjects == {p \in Projects : GroupOf[p] \in Touched}

Begin(h, pr) ==
  /\ req[h] = Idle
  /\ \/ \E g \in Touched, u \in Users :
          \/ \E role \in RolesGiven : AddMember(h, pr, g, u, role) \/ UpdateMember(h, pr, g, u, role)
          \/ RemoveMember(h, pr, g, u)
     \/ \E p \in TouchedProjects, u \in Users :
          \/ \E role \in RolesGiven \cap ProjectRole : AddProjectMember(h, pr, p, u, role)
          \/ RemoveProjectMember(h, pr, p, u)
     \/ \E g \in Touched, v \in Visibility : UpdateGroup(h, pr, g, v)
     \/ \E p \in TouchedProjects, v \in Visibility : UpdateProject(h, pr, p, v)

Commit(h) == CommitMember(h) \/ CommitOverride(h) \/ CommitVisibility(h)

Next ==
  \/ \E h \in Handlers : \E pr \in Principals : _api_principal(pr, "write_api") /\ Begin(h, pr)
  \/ \E h \in Handlers : Commit(h)

Spec == Init /\ [][Next]_vars

-----------------------------------------------------------------------------
(* Types of the tables and of the requests.                                *)
TypeOK ==
  /\ group \in [Groups -> Visibility]
  /\ project \in [Projects -> Visibility]
  /\ member \in [Groups -> [Users -> GroupRole \cup {NoRole}]]
  /\ override \in [Projects -> [Users -> ProjectRole \cup {NoRole}]]
  /\ \A h \in Handlers :
       /\ req[h].by \in Users \cup {NoUser} /\ req[h].level \in Levels
       /\ req[h].op \in MemberOps \cup {"remove_project_member"} => req[h].read \in GroupRole
  /\ overlapped \subseteq Groups

(* A group never loses its last owner (the LAST_OWNER rule of              *)
(* groups.py:143 and 161), unless two handlers that change or remove       *)
(* members of the group overlapped: the rule counts without a lock.        *)
OwnersKept ==
  \A g \in Groups : g \in overlapped \/ \E u \in Users : member[g][u] = "OWNER"

(* A project, its builds, its package or a group is in a principal's lists *)
(* exactly when its page opens (visible_projects_filter and                *)
(* visible_groups_filter against project_level and group_level, two        *)
(* codings of one rule).                                                   *)
ListedIsReadable ==
  \A pr \in Principals :
    /\ list_projects(pr) = {p \in Projects : get_project(pr, p)}
    /\ list_builds(pr) = {p \in Projects : list_project_builds(pr, p)}
    /\ list_packages(pr) = {p \in Projects : get_package(pr, p)}
    /\ simple_root(pr) = {p \in Projects : simple_project(pr, p)}
    /\ simple_root(pr) = {p \in Projects : download_internal(pr, p)}
    /\ list_groups(pr) = {g \in Groups : get_group(pr, g)}

(* The role the members page shows of a member is the level the member     *)
(* has, whatever the visibilities (projects.py:153-167 against             *)
(* project_level), system administrators apart.                            *)
ShownRoleIsLevel ==
  \A p \in Projects, u \in Users :
    list_project_members(p)[u] # NoRole
    => ROLE_LEVEL[list_project_members(p)[u]] = principal_project_level(PersonalToken(u, {"read_api"}), p)

(* What a user is shown - lists, and the roles of members - is what the    *)
(* levels allow, after any order of grants, removals and changes of        *)
(* visibility (access_service.py:98-120, projects.py:153-167).             *)
ShownAsGranted == ListedIsReadable /\ ShownRoleIsLevel

(* No request lifts its own caller above the level it was authorised with, *)
(* however old its decision is when it commits.                            *)
NoSelfPromotion ==
  [][\A h \in Handlers, u \in Users, p \in Projects :
       req[h].by = u /\ req[h].op # "none" /\ req'[h].op = "none"
       => principal_project_level(Session(u), p)'
            <= Higher(principal_project_level(Session(u), p), req[h].level)]_vars
=============================================================================
