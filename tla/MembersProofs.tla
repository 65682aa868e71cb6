---------------------------- MODULE MembersProofs ----------------------------
(***************************************************************************)
(* What Members guarantees for any accounts, groups, projects and requests *)
(* at the same time.                                                       *)
(***************************************************************************)
EXTENDS Members, FiniteSetTheorems, TLAPS

GroupOps == {"add_member", "update_member", "remove_member"}
OverrideOps == {"add_project_member", "remove_project_member"}

(* What a request was authorised for: it names rows that exist, and it     *)
(* grants no role above the level of its caller.                           *)
Fits(r) ==
  /\ r.by \in Users \cup {NoUser} /\ r.level \in Levels /\ r.gone \in BOOLEAN
  /\ r.op \in {"none", "update_group", "update_project"} \cup GroupOps \cup OverrideOps
  /\ r.op \in GroupOps => r.on \in Groups /\ r.who \in Users
  /\ r.op \in {"add_member", "update_member"} => r.value \in GroupRole /\ r.level >= OWNER
  /\ r.op \in OverrideOps => r.on \in Projects /\ r.who \in Users
  /\ r.op = "add_project_member" => r.value \in ProjectRole /\ ROLE_LEVEL[r.value] <= r.level
  /\ r.op \in MemberOps \cup {"remove_project_member"} => r.read \in GroupRole
  /\ r.op = "update_group" => r.on \in Groups /\ r.value \in Visibility /\ r.level >= VIEWER
  /\ r.op = "update_project" => r.on \in Projects /\ r.value \in Visibility /\ r.level >= VIEWER

RequestsFit == DOMAIN req = Handlers /\ \A h \in Handlers : Fits(req[h])

(* Members of a group are changed by one handler at a time, unless it is   *)
(* in overlapped, and that handler leaves an owner besides the member it   *)
(* changes.                                                                *)
OneAtATime ==
  \A h, k \in Handlers :
    /\ req[h].op \in MemberOps /\ req[k].op \in MemberOps
    /\ req[h].on = req[k].on /\ req[h].on \notin overlapped
    => h = k

Owns(g, u) == member[g][u] = "OWNER"
OtherOwner ==
  \A h \in Handlers :
    req[h].op \in MemberOps /\ req[h].on \notin overlapped
    => \E u \in Users \ {req[h].who} : Owns(req[h].on, u)

IInv == TypeOK /\ RequestsFit /\ OneAtATime /\ OwnersKept /\ OtherOwner
-----------------------------------------------------------------------------
(* A member who is not the last owner leaves another.                      *)
LEMMA AnotherOwner ==
  ASSUME TypeOK, NEW g \in Groups, NEW u \in Users, ~LastOwner(g, u), NEW v \in Users, Owns(g, v)
  PROVE  \E w \in Users \ {u} : Owns(g, w)
<1> DEFINE owners == {w \in Users : member[g][w] = "OWNER"}
<1>1. CASE owners \subseteq {u}
  <2>1. owners = {u}
    BY <1>1 DEF Owns
  <2>2. Cardinality({u}) = 1
    BY FS_Singleton
  <2> QED
    BY <2>1, <2>2 DEF LastOwner, _owner_count
<1>2. CASE ~(owners \subseteq {u})
  BY <1>2 DEF Owns
<1> QED
  BY <1>1, <1>2

LEMMA InitHolds == Init => IInv
<1> SUFFICES ASSUME Init PROVE IInv
  OBVIOUS
<1> USE MembersAssumption DEF Init
<1>1. \A h \in Handlers : req[h] = Idle
  OBVIOUS
<1>2. RequestsFit
  BY <1>1 DEF RequestsFit, Fits, Idle, GroupOps, OverrideOps, MemberOps, Levels
<1>3. TypeOK
  BY <1>1 DEF TypeOK, Idle, GroupRole, MemberOps, Visibility, Levels
<1>4. OwnersKept /\ OneAtATime /\ OtherOwner
  BY <1>1 DEF OwnersKept, OneAtATime, OtherOwner, Idle, MemberOps
<1> QED
  BY <1>2, <1>3, <1>4 DEF IInv
-----------------------------------------------------------------------------
(* A request that is authorised.                                           *)
LEMMA OpenKeeps ==
  ASSUME IInv, NEW h \in Handlers, NEW r, req[h] = Idle, Open(h, r), Fits(r),
         r.op \in MemberOps => IsMember(member[r.on], r.who) /\ ~LastOwner(r.on, r.who)
  PROVE  IInv'
<1> USE DEF IInv
<1>1. /\ UNCHANGED <<group, project, member, override>>
      /\ req' = [req EXCEPT ![h] = r] /\ overlapped \subseteq overlapped'
      /\ overlapped' \subseteq overlapped \cup {r.on}
      /\ overlapped' # overlapped => r.op \in MemberOps
      /\ r.op \in MemberOps /\ (\E q \in Handlers : req[q].op \in MemberOps /\ req[q].on = r.on)
           => r.on \in overlapped'
  BY DEF Open, tables
<1>2. req'[h] = r /\ \A k \in Handlers : k # h => req'[k] = req[k]
  BY <1>1 DEF RequestsFit
<1>3. r.op \in MemberOps => r.on \in Groups /\ r.who \in Users
  BY DEF Fits, MemberOps, GroupOps
<1>4. RequestsFit'
  BY <1>1, <1>2 DEF RequestsFit, Fits
<1>5. TypeOK'
  BY <1>1, <1>2, <1>3, <1>4 DEF TypeOK, RequestsFit, Fits
<1>6. OneAtATime'
  BY <1>1, <1>2 DEF OneAtATime
<1>7. OwnersKept'
  BY <1>1 DEF OwnersKept
<1>8. OtherOwner'
  <2> SUFFICES ASSUME NEW k \in Handlers, req'[k].op \in MemberOps, req'[k].on \notin overlapped'
               PROVE  \E u \in Users \ {req'[k].who} : Owns(req'[k].on, u)
    BY <1>1 DEF OtherOwner, Owns
  <2>1. CASE k = h
    <3>1. r.on \notin overlapped /\ r.on \in Groups /\ r.who \in Users
      BY <1>1, <1>2, <1>3, <2>1
    <3>2. PICK v \in Users : Owns(r.on, v)
      BY <3>1 DEF OwnersKept, Owns
    <3> QED
      BY <1>2, <2>1, <3>1, <3>2, AnotherOwner
  <2>2. CASE k # h
    BY <1>1, <1>2, <2>2 DEF OtherOwner
  <2> QED
    BY <2>1, <2>2
<1> QED
  BY <1>4, <1>5, <1>6, <1>7, <1>8

(* The levels of roles, and of a principal.                                *)
LEMMA RoleLevels ==
  /\ ROLE_LEVEL[NoRole] = 0 /\ ROLE_LEVEL["VIEWER"] = 10 /\ ROLE_LEVEL["DEVELOPER"] = 20
  /\ ROLE_LEVEL["MAINTAINER"] = 30 /\ ROLE_LEVEL["OWNER"] = 40
  /\ \A role \in GroupRole \cup {NoRole} : ROLE_LEVEL[role] \in {0, 10, 20, 30, 40}
<1>1. /\ ROLE_LEVEL[NoRole] = 0 /\ ROLE_LEVEL["VIEWER"] = 10 /\ ROLE_LEVEL["DEVELOPER"] = 20
      /\ ROLE_LEVEL["MAINTAINER"] = 30 /\ ROLE_LEVEL["OWNER"] = 40
  BY DEF ROLE_LEVEL, NoRole, NONE, VIEWER, DEVELOPER, MAINTAINER, OWNER
<1> QED
  BY <1>1 DEF GroupRole

LEMMA RolesRead ==
  ASSUME TypeOK, NEW u \in Users \cup {NoUser}
  PROVE  /\ \A g \in Groups : RoleIn(member[g], u) \in GroupRole \cup {NoRole}
         /\ \A p \in Projects : RoleIn(override[p], u) \in ProjectRole \cup {NoRole}
BY DEF TypeOK, RoleIn

LEMMA PrincipalLevels ==
  ASSUME TypeOK, NEW pr, pr.user \in Users \cup {NoUser}
  PROVE  /\ \A g \in Groups : principal_group_level(pr, g) \in Levels
         /\ \A p \in Projects : principal_project_level(pr, p) \in Levels
<1>1. ASSUME NEW a \in {0, 10, 20, 30, 40}, NEW b \in {0, 10, 20, 30, 40}
      PROVE  Higher(a, b) \in {0, 10, 20, 30, 40}
  BY DEF Higher
<1>2. {0, 10, 20, 30, 40, 100} = Levels
  BY DEF Levels, NONE, VIEWER, DEVELOPER, MAINTAINER, OWNER, ADMIN
<1>3. ASSUME NEW g \in Groups PROVE principal_group_level(pr, g) \in Levels
  <2>1. ROLE_LEVEL[RoleIn(member[g], pr.user)] \in {0, 10, 20, 30, 40}
    BY RolesRead, RoleLevels
  <2> QED
    BY <1>1, <1>2, <2>1 DEF principal_group_level, group_level, ADMIN, VIEWER, NONE
<1>4. ASSUME NEW p \in Projects PROVE principal_project_level(pr, p) \in Levels
  <2>1. GroupOf[p] \in Groups
    BY MembersAssumption
  <2>2. /\ ROLE_LEVEL[RoleIn(member[GroupOf[p]], pr.user)] \in {0, 10, 20, 30, 40}
        /\ ROLE_LEVEL[RoleIn(override[p], pr.user)] \in {0, 10, 20, 30, 40}
    BY <2>1, RolesRead, RoleLevels DEF ProjectRole, GroupRole
  <2> QED
    BY <1>1, <1>2, <2>2 DEF principal_project_level, project_level, ADMIN, VIEWER, NONE
<1> QED
  BY <1>3, <1>4

LEMMA BeginKeeps ==
  ASSUME IInv, NEW h \in Handlers, NEW pr \in Principals, Begin(h, pr)
  PROVE  IInv'
<1> USE MembersAssumption DEF NoRole, NONE, VIEWER, DEVELOPER, MAINTAINER, OWNER, ADMIN,
        GroupRole, ProjectRole, Visibility, GroupOps, OverrideOps, MemberOps
<1>1. req[h] = Idle /\ TypeOK
  BY DEF Begin, IInv
<1>2. pr.user \in Users \cup {NoUser}
  BY DEF Principals, Principal, Session, PersonalToken, ServiceToken
<1>3. \A g \in Groups : principal_group_level(pr, g) \in Levels
  BY <1>1, <1>2, PrincipalLevels
<1>4. \A p \in Projects : principal_project_level(pr, p) \in Levels
  BY <1>1, <1>2, PrincipalLevels
<1>6. ASSUME NEW g \in Touched, NEW u \in Users, NEW role \in RolesGiven, AddMember(h, pr, g, u, role)
      PROVE  IInv'
  <2> DEFINE r == Request("add_member", pr, principal_group_level(pr, g), g, u, role, NoRole)
  <2>1. g \in Groups /\ role \in GroupRole /\ principal_group_level(pr, g) >= OWNER
    BY <1>6 DEF AddMember, require_group, can_group, GROUP_PERM_LEVEL
  <2>2. Fits(r) /\ r.op \notin MemberOps
    BY <1>2, <1>3, <2>1 DEF Fits, Request
  <2> QED
    BY <1>1, <1>6, <2>2, OpenKeeps DEF AddMember
<1>7. ASSUME NEW g \in Touched, NEW u \in Users, NEW role \in RolesGiven, UpdateMember(h, pr, g, u, role)
      PROVE  IInv'
  <2> DEFINE r == Request("update_member", pr, principal_group_level(pr, g), g, u, role, member[g][u])
  <2>1. g \in Groups /\ role \in GroupRole /\ principal_group_level(pr, g) >= OWNER
        /\ member[g][u] \in GroupRole
    BY <1>1, <1>7 DEF UpdateMember, require_group, can_group, GROUP_PERM_LEVEL, IsMember, TypeOK
  <2>2. Fits(r) /\ r.on = g /\ r.who = u
    BY <1>2, <1>3, <2>1 DEF Fits, Request
  <2>3. Open(h, r) /\ IsMember(member[g], u) /\ ~LastOwner(g, u)
    BY <1>7 DEF UpdateMember
  <2> QED
    BY <1>1, <2>2, <2>3, OpenKeeps
<1>8. ASSUME NEW g \in Touched, NEW u \in Users, RemoveMember(h, pr, g, u)
      PROVE  IInv'
  <2> DEFINE r == Request("remove_member", pr, principal_group_level(pr, g), g, u, NoRole, member[g][u])
  <2>1. g \in Groups /\ member[g][u] \in GroupRole
    BY <1>1, <1>8 DEF RemoveMember, IsMember, TypeOK
  <2>2. Fits(r) /\ r.on = g /\ r.who = u
    BY <1>2, <1>3, <2>1 DEF Fits, Request
  <2>3. Open(h, r) /\ IsMember(member[g], u) /\ ~LastOwner(g, u)
    BY <1>8 DEF RemoveMember
  <2> QED
    BY <1>1, <2>2, <2>3, OpenKeeps
<1>9. ASSUME NEW p \in TouchedProjects, NEW u \in Users, NEW role \in RolesGiven \cap ProjectRole,
             AddProjectMember(h, pr, p, u, role)
      PROVE  IInv'
  <2> DEFINE r == Request("add_project_member", pr, principal_project_level(pr, p), p, u, role, override[p][u])
  <2>1. p \in Projects /\ principal_project_level(pr, p) \in Levels
    BY <1>4 DEF TouchedProjects
  <2>2. ROLE_LEVEL[role] <= principal_project_level(pr, p)
    <3>1. ROLE_LEVEL[role] <= Lower(principal_project_level(pr, p), MAINTAINER)
      BY <1>9 DEF AddProjectMember, max_grantable_project_role
    <3>2. principal_project_level(pr, p) \in Nat /\ ROLE_LEVEL[role] \in Nat
      BY <2>1 DEF Levels, ROLE_LEVEL
    <3> QED
      BY <3>1, <3>2 DEF Lower
  <2>3. Fits(r) /\ r.op \notin MemberOps
    BY <1>2, <2>1, <2>2 DEF Fits, Request
  <2> QED
    BY <1>1, <1>9, <2>3, OpenKeeps DEF AddProjectMember
<1>10. ASSUME NEW p \in TouchedProjects, NEW u \in Users, RemoveProjectMember(h, pr, p, u)
       PROVE  IInv'
  <2> DEFINE r == Request("remove_project_member", pr, principal_project_level(pr, p), p, u, NoRole, override[p][u])
  <2>1. p \in Projects /\ principal_project_level(pr, p) \in Levels /\ override[p][u] \in GroupRole
    BY <1>1, <1>4, <1>10 DEF TouchedProjects, RemoveProjectMember, IsMember, TypeOK
  <2>2. Fits(r) /\ r.op \notin MemberOps
    BY <1>2, <2>1 DEF Fits, Request
  <2> QED
    BY <1>1, <1>10, <2>2, OpenKeeps DEF RemoveProjectMember
<1>11. ASSUME NEW g \in Touched, NEW v \in Visibility, UpdateGroup(h, pr, g, v)
       PROVE  IInv'
  <2> DEFINE r == Request("update_group", pr, principal_group_level(pr, g), g, NoUser, v, group[g])
  <2>1. g \in Groups /\ principal_group_level(pr, g) >= VIEWER
    BY <1>11 DEF UpdateGroup, require_group
  <2>2. Fits(r) /\ r.op \notin MemberOps
    BY <1>2, <1>3, <2>1 DEF Fits, Request
  <2> QED
    BY <1>1, <1>11, <2>2, OpenKeeps DEF UpdateGroup
<1>12. ASSUME NEW p \in TouchedProjects, NEW v \in Visibility, UpdateProject(h, pr, p, v)
       PROVE  IInv'
  <2> DEFINE r == Request("update_project", pr, principal_project_level(pr, p), p, NoUser, v, project[p])
  <2>1. p \in Projects /\ principal_project_level(pr, p) \in Levels /\ principal_project_level(pr, p) >= VIEWER
    BY <1>4, <1>12 DEF TouchedProjects, UpdateProject, require_project
  <2>2. Fits(r) /\ r.op \notin MemberOps
    BY <1>2, <2>1 DEF Fits, Request
  <2> QED
    BY <1>1, <1>12, <2>2, OpenKeeps DEF UpdateProject
<1> QED
  BY <1>6, <1>7, <1>8, <1>9, <1>10, <1>11, <1>12 DEF Begin
-----------------------------------------------------------------------------
(* A request that ends; those that have read a row it removes find it gone. *)
Ended(h) ==
  /\ DOMAIN req' = Handlers /\ req'[h] = Idle
  /\ \A k \in Handlers : k # h =>
       /\ req'[k].op = req[k].op /\ req'[k].by = req[k].by /\ req'[k].level = req[k].level
       /\ req'[k].on = req[k].on /\ req'[k].who = req[k].who /\ req'[k].value = req[k].value
       /\ req'[k].read = req[k].read /\ req'[k].gone \in BOOLEAN

LEMMA CloseEnds ==
  ASSUME RequestsFit, NEW h \in Handlers, NEW ops, Close(h) \/ CloseRemoving(h, ops)
  PROVE  Ended(h)
<1>1. CASE Close(h)
  BY <1>1 DEF Close, RequestsFit, Ended, Fits
<1>2. CASE CloseRemoving(h, ops)
  <2>1. DOMAIN req' = Handlers /\ req'[h] = Idle
    BY <1>2 DEF CloseRemoving
  <2>2. ASSUME NEW k \in Handlers, k # h
        PROVE  req'[k] = req[k] \/ req'[k] = [req[k] EXCEPT !.gone = TRUE]
    BY <1>2, <2>2 DEF CloseRemoving
  <2>3. ASSUME NEW k \in Handlers, NEW r, r = [req[k] EXCEPT !.gone = TRUE], Fits(req[k])
        PROVE  /\ r.op = req[k].op /\ r.by = req[k].by /\ r.level = req[k].level
               /\ r.on = req[k].on /\ r.who = req[k].who /\ r.value = req[k].value
               /\ r.read = req[k].read /\ r.gone \in BOOLEAN
    BY <2>3
  <2> QED
    BY <2>1, <2>2, <2>3 DEF RequestsFit, Ended, Fits
<1> QED
  BY <1>1, <1>2

LEMMA EndFits ==
  ASSUME RequestsFit, NEW h \in Handlers, Ended(h)
  PROVE  RequestsFit'
<1>1. Fits(Idle)
  BY DEF Fits, Idle, GroupOps, OverrideOps, MemberOps, Levels
<1>2. ASSUME NEW k \in Handlers, k # h PROVE Fits(req'[k])
  BY <1>2 DEF RequestsFit, Ended, Fits
<1> QED
  BY <1>1, <1>2 DEF RequestsFit, Ended, Fits
-----------------------------------------------------------------------------
(* What a commit writes: one row, its own, with the value it was opened    *)
(* with or none.                                                           *)
MembersTable == [Groups -> [Users -> GroupRole \cup {NoRole}]]
OverridesTable == [Projects -> [Users -> ProjectRole \cup {NoRole}]]

Writes(h) ==
  LET r == req[h] IN
  /\ Ended(h) /\ r.op # "none" /\ overlapped' = overlapped
  /\ member' \in MembersTable /\ override' \in OverridesTable
  /\ group' \in [Groups -> Visibility] /\ project' \in [Projects -> Visibility]
  /\ \A g \in Groups, u \in Users :
       \/ member'[g][u] = member[g][u]
       \/ r.op \in MemberOps /\ r.on = g /\ r.who = u /\ member'[g][u] = NoRole
       \/ r.op = "update_member" /\ r.on = g /\ r.who = u /\ member'[g][u] = r.value
       \/ r.op = "add_member" /\ r.on = g /\ r.who = u /\ member'[g][u] = r.value /\ member[g][u] = NoRole
  /\ \A p \in Projects, u \in Users :
       \/ override'[p][u] = override[p][u] \/ override'[p][u] = NoRole
       \/ r.op = "add_project_member" /\ override'[p][u] = r.value
  /\ group' = group \/ r.op = "update_group"
  /\ project' = project \/ r.op = "update_project"

LEMMA CommitWrites ==
  ASSUME IInv, NEW h \in Handlers, Commit(h)
  PROVE  Writes(h)
<1> DEFINE r == req[h]
<1>1. /\ RequestsFit /\ Fits(r)
      /\ member \in MembersTable /\ override \in OverridesTable
      /\ group \in [Groups -> Visibility] /\ project \in [Projects -> Visibility]
  BY DEF IInv, RequestsFit, TypeOK, MembersTable, OverridesTable
<1>2. CASE CommitMember(h)
  <2>1. /\ r.op \in GroupOps /\ r.on \in Groups /\ r.who \in Users
        /\ UNCHANGED <<group, project, override, overlapped>>
    BY <1>1, <1>2 DEF CommitMember, Fits, GroupOps
  <2>2. Ended(h)
    BY <1>1, <1>2, CloseEnds DEF CommitMember
  <2>3. ASSUME NEW role \in GroupRole \cup {NoRole}, member' = [member EXCEPT ![r.on][r.who] = role]
        PROVE  /\ member' \in MembersTable /\ member'[r.on][r.who] = role
               /\ \A g \in Groups, u \in Users : g # r.on \/ u # r.who => member'[g][u] = member[g][u]
    BY <1>1, <2>1, <2>3 DEF MembersTable
  <2>4. \/ member' = member
        \/ r.op \in MemberOps /\ member' = [member EXCEPT ![r.on][r.who] = NoRole]
        \/ r.op = "update_member" /\ r.value \in GroupRole /\ member' = [member EXCEPT ![r.on][r.who] = r.value]
        \/ r.op = "add_member" /\ r.value \in GroupRole /\ member[r.on][r.who] = NoRole
           /\ member' = [member EXCEPT ![r.on][r.who] = r.value]
    <3>1. CASE r.op = "add_member"
      BY <1>1, <1>2, <3>1 DEF CommitMember, Fits
    <3>2. CASE r.op = "update_member"
      <4>1. CASE r.gone
        <5>1. member' = [member EXCEPT ![r.on][r.who] = member[r.on][r.who]]
          BY <1>2, <3>2, <4>1 DEF CommitMember, Written
        <5> QED
          BY <1>1, <2>1, <5>1 DEF MembersTable
      <4>2. CASE ~r.gone
        BY <1>1, <1>2, <3>2, <4>2 DEF CommitMember, Written, Fits
      <4> QED
        BY <4>1, <4>2
    <3>3. CASE r.op = "remove_member"
      BY <1>2, <3>3 DEF CommitMember, MemberOps
    <3> QED
      BY <2>1, <3>1, <3>2, <3>3 DEF GroupOps
  <2>5. CASE member' = member
    BY <1>1, <2>1, <2>2, <2>5 DEF Writes, GroupOps
  <2>6. CASE r.op \in MemberOps /\ member' = [member EXCEPT ![r.on][r.who] = NoRole]
    BY <1>1, <2>1, <2>2, <2>3, <2>6 DEF Writes, GroupOps
  <2>7. CASE r.op = "update_member" /\ r.value \in GroupRole /\ member' = [member EXCEPT ![r.on][r.who] = r.value]
    BY <1>1, <2>1, <2>2, <2>3, <2>7 DEF Writes, GroupOps
  <2>8. CASE r.op = "add_member" /\ r.value \in GroupRole /\ member[r.on][r.who] = NoRole
             /\ member' = [member EXCEPT ![r.on][r.who] = r.value]
    BY <1>1, <2>1, <2>2, <2>3, <2>8 DEF Writes, GroupOps
  <2> QED
    BY <2>4, <2>5, <2>6, <2>7, <2>8
<1>3. CASE CommitOverride(h)
  <2>1. /\ r.op \in OverrideOps /\ r.on \in Projects /\ r.who \in Users
        /\ UNCHANGED <<group, project, member, overlapped>>
    BY <1>1, <1>3 DEF CommitOverride, Fits, OverrideOps
  <2>2. Ended(h)
    BY <1>1, <1>3, CloseEnds DEF CommitOverride
  <2>3. ASSUME NEW role \in ProjectRole \cup {NoRole}, override' = [override EXCEPT ![r.on][r.who] = role]
        PROVE  /\ override' \in OverridesTable /\ override'[r.on][r.who] = role
               /\ \A p \in Projects, u \in Users : p # r.on \/ u # r.who => override'[p][u] = override[p][u]
    BY <1>1, <2>1, <2>3 DEF OverridesTable
  <2>4. \/ override' = override
        \/ override' = [override EXCEPT ![r.on][r.who] = NoRole]
        \/ r.op = "add_project_member" /\ r.value \in ProjectRole
           /\ override' = [override EXCEPT ![r.on][r.who] = r.value]
    <3>1. CASE r.op = "add_project_member"
      <4>1. CASE r.gone /\ override' = [override EXCEPT ![r.on][r.who] = Written(@, r)]
        <5>1. override' = [override EXCEPT ![r.on][r.who] = override[r.on][r.who]]
          BY <4>1 DEF Written
        <5> QED
          BY <1>1, <2>1, <5>1 DEF OverridesTable
      <4>2. CASE ~r.gone /\ override' = [override EXCEPT ![r.on][r.who] = Written(@, r)]
        BY <1>1, <3>1, <4>2 DEF Written, Fits
      <4> QED
        BY <1>3, <3>1, <4>1, <4>2 DEF CommitOverride
    <3>2. CASE r.op = "remove_project_member"
      BY <1>3, <3>2 DEF CommitOverride
    <3> QED
      BY <2>1, <3>1, <3>2 DEF OverrideOps
  <2>5. CASE override' = override
    BY <1>1, <2>1, <2>2, <2>5 DEF Writes, OverrideOps
  <2>6. CASE override' = [override EXCEPT ![r.on][r.who] = NoRole]
    BY <1>1, <2>1, <2>2, <2>3, <2>6 DEF Writes, OverrideOps
  <2>7. CASE r.op = "add_project_member" /\ r.value \in ProjectRole
             /\ override' = [override EXCEPT ![r.on][r.who] = r.value]
    BY <1>1, <2>1, <2>2, <2>3, <2>7 DEF Writes, OverrideOps
  <2> QED
    BY <2>4, <2>5, <2>6, <2>7
<1>4. CASE CommitVisibility(h)
  <2>1. UNCHANGED <<member, override, overlapped>> /\ Ended(h)
    BY <1>1, <1>4, CloseEnds DEF CommitVisibility
  <2>2. CASE r.op = "update_group" /\ group' = [group EXCEPT ![r.on] = Written(@, r)] /\ project' = project
    <3>1. r.value \in Visibility
      BY <1>1, <2>2 DEF Fits
    <3>2. group' \in [Groups -> Visibility]
      BY <1>1, <2>2, <3>1 DEF Written
    <3> QED
      BY <1>1, <2>1, <2>2, <3>2 DEF Writes
  <2>3. CASE r.op = "update_project" /\ project' = [project EXCEPT ![r.on] = Written(@, r)] /\ group' = group
    <3>1. r.value \in Visibility
      BY <1>1, <2>3 DEF Fits
    <3>2. project' \in [Projects -> Visibility]
      BY <1>1, <2>3, <3>1 DEF Written
    <3> QED
      BY <1>1, <2>1, <2>3, <3>2 DEF Writes
  <2> QED
    BY <1>4, <2>2, <2>3 DEF CommitVisibility
<1> QED
  BY <1>2, <1>3, <1>4 DEF Commit

LEMMA CommitKeeps ==
  ASSUME IInv, NEW h \in Handlers, Commit(h)
  PROVE  IInv'
<1> DEFINE r == req[h]
<1>1. Writes(h) /\ Ended(h) /\ overlapped' = overlapped
  BY CommitWrites DEF Writes
<1>2. TypeOK /\ RequestsFit /\ OneAtATime /\ OwnersKept /\ OtherOwner
  BY DEF IInv
<1>3. RequestsFit'
  BY <1>1, <1>2, EndFits
<1>4. TypeOK'
  <2>1. \A k \in Handlers : Fits(req'[k])
    BY <1>3 DEF RequestsFit, Fits
  <2>2. \A k \in Handlers :
          /\ req'[k].by \in Users \cup {NoUser} /\ req'[k].level \in Levels
          /\ req'[k].op \in MemberOps \cup {"remove_project_member"} => req'[k].read \in GroupRole
    BY <2>1 DEF Fits
  <2>3. overlapped' \subseteq Groups
    BY <1>1, <1>2 DEF TypeOK
  <2> QED
    BY <1>1, <2>2, <2>3 DEF TypeOK, Writes, MembersTable, OverridesTable
(* The other requests are as they were.                                    *)
<1>5. \A k \in Handlers : req'[k].op \in MemberOps =>
        k # h /\ req[k].op \in MemberOps /\ req'[k].on = req[k].on /\ req'[k].who = req[k].who
  BY <1>1 DEF Ended, Idle, MemberOps
<1>6. OneAtATime'
  BY <1>1, <1>2, <1>5 DEF OneAtATime
(* An owner loses the role only to the handler that changes it.            *)
<1>7. \A g \in Groups, u \in Users :
        Owns(g, u) => Owns(g, u)' \/ (r.op \in MemberOps /\ r.on = g /\ r.who = u)
  BY <1>1 DEF Writes, Owns, NoRole, MemberOps
<1>8. ASSUME NEW g \in Groups, g \notin overlapped PROVE \E u \in Users : Owns(g, u)'
  <2>1. CASE r.op \in MemberOps /\ r.on = g
    <3>1. PICK u \in Users \ {r.who} : Owns(g, u)
      BY <1>2, <1>8, <2>1 DEF OtherOwner
    <3> QED
      BY <1>7, <3>1
  <2>2. CASE ~(r.op \in MemberOps /\ r.on = g)
    <3>1. PICK u \in Users : Owns(g, u)
      BY <1>2, <1>8 DEF OwnersKept, Owns
    <3> QED
      BY <1>7, <2>2, <3>1
  <2> QED
    BY <2>1, <2>2
<1>9. OwnersKept'
  BY <1>1, <1>8 DEF OwnersKept, Owns
<1>10. OtherOwner'
  <2> SUFFICES ASSUME NEW k \in Handlers, req'[k].op \in MemberOps, req'[k].on \notin overlapped'
               PROVE  \E u \in Users \ {req'[k].who} : member'[req'[k].on][u] = "OWNER"
    BY DEF OtherOwner, Owns
  <2>1. k # h /\ req[k].op \in MemberOps /\ req'[k].on = req[k].on /\ req'[k].who = req[k].who
        /\ req[k].on \notin overlapped
    BY <1>1, <1>5
  <2>2. ~(r.op \in MemberOps /\ r.on = req[k].on)
    BY <1>2, <2>1 DEF OneAtATime
  <2>3. PICK u \in Users \ {req[k].who} : Owns(req[k].on, u)
    BY <1>2, <2>1 DEF OtherOwner
  <2>4. req[k].on \in Groups
    BY <1>2, <2>1 DEF RequestsFit, Fits, MemberOps, GroupOps
  <2>5. member'[req[k].on][u] = "OWNER"
    BY <1>7, <2>2, <2>3, <2>4 DEF Owns
  <2> QED
    BY <2>1, <2>3, <2>5
<1> QED
  BY <1>3, <1>4, <1>6, <1>9, <1>10 DEF IInv

LEMMA NextKeeps == IInv /\ [Next]_vars => IInv'
<1> SUFFICES ASSUME IInv, [Next]_vars PROVE IInv'
  OBVIOUS
<1>1. CASE Next
  BY <1>1, BeginKeeps, CommitKeeps DEF Next
<1>2. CASE UNCHANGED vars
  BY <1>2 DEF vars, tables, IInv, TypeOK, RequestsFit, Fits, OneAtATime, OwnersKept, OtherOwner, Owns
<1> QED
  BY <1>1, <1>2

(* The inductive invariant: requests name rows that exist and grant within *)
(* their level; the members of a group that is not in overlapped change in *)
(* one handler at a time, which leaves another owner.                      *)
THEOREM MembersInvariant == Spec => []IInv
BY InitHolds, NextKeeps, PTL DEF Spec

(* The tables and requests have their types.                               *)
THEOREM TypesHold == Spec => []TypeOK
<1>1. IInv => TypeOK
  BY DEF IInv
<1> QED
  BY <1>1, MembersInvariant, PTL

(* A group whose members no two handlers changed at the same time never    *)
(* loses its last owner, however many groups, users and requests there are *)
(* (the LAST_OWNER rule of groups.py:143 and 161).                         *)
THEOREM LastOwnerStays == Spec => []OwnersKept
<1>1. IInv => OwnersKept
  BY DEF IInv
<1> QED
  BY <1>1, MembersInvariant, PTL
-----------------------------------------------------------------------------
(* Lists against pages, for any tables that have their types.              *)
LEMMA HigherReaches ==
  ASSUME NEW a \in {0, 10, 20, 30, 40}, NEW b \in {0, 10, 20, 30, 40}
  PROVE  /\ Higher(a, b) \in {0, 10, 20, 30, 40}
         /\ Higher(a, b) >= 10 <=> a # 0 \/ b # 0
BY DEF Higher

LEMMA RoleReaches ==
  ASSUME NEW role \in GroupRole \cup {NoRole}
  PROVE  ROLE_LEVEL[role] \in {0, 10, 20, 30, 40} /\ (ROLE_LEVEL[role] # 0 <=> role # NoRole)
BY RoleLevels DEF GroupRole

LEMMA ProjectsSeen ==
  ASSUME TypeOK, NEW pr \in Principals, NEW p \in Projects
  PROVE  p \in visible_projects_filter(pr) <=> principal_project_level(pr, p) >= VIEWER
<1> DEFINE g == GroupOf[p]
           in_group == RoleIn(member[g], pr.user)
           in_project == RoleIn(override[p], pr.user)
           open == project[p] = "INTERNAL" /\ group[g] = "INTERNAL"
           seen == IF BoundViewer(pr, p) \/ open THEN 10 ELSE 0
           level == Higher(seen, Higher(ROLE_LEVEL[in_group], ROLE_LEVEL[in_project]))
<1>1. g \in Groups /\ pr.user \in Users \cup {NoUser} /\ NoProject \notin Projects
  BY MembersAssumption DEF Principals, Principal, Session, PersonalToken, ServiceToken
<1>2. in_group \in GroupRole \cup {NoRole} /\ in_project \in GroupRole \cup {NoRole}
  BY <1>1, RolesRead DEF GroupRole, ProjectRole
<1>3. principal_project_level(pr, p) = IF is_admin(pr) THEN 100 ELSE level
  BY DEF principal_project_level, project_level, ADMIN, VIEWER, NONE
<1>4. p \in visible_projects_filter(pr) <=>
        is_admin(pr) \/ open \/ in_group # NoRole \/ in_project # NoRole \/ BoundViewer(pr, p)
  BY <1>1 DEF visible_projects_filter, BoundViewer
<1>5. level >= 10 <=> open \/ in_group # NoRole \/ in_project # NoRole \/ BoundViewer(pr, p)
  <2> DEFINE a == ROLE_LEVEL[in_group]
             b == ROLE_LEVEL[in_project]
  <2>1. /\ a \in {0, 10, 20, 30, 40} /\ (a # 0 <=> in_group # NoRole)
        /\ b \in {0, 10, 20, 30, 40} /\ (b # 0 <=> in_project # NoRole)
    BY <1>2, RoleReaches
  <2>2. seen \in {0, 10, 20, 30, 40} /\ (seen # 0 <=> open \/ BoundViewer(pr, p))
    OBVIOUS
  <2> HIDE DEF a, b, seen, open, in_group, in_project
  <2>3. Higher(a, b) \in {0, 10, 20, 30, 40} /\ (Higher(a, b) # 0 <=> a # 0 \/ b # 0)
    BY <2>1 DEF Higher
  <2>4. Higher(seen, Higher(a, b)) >= 10 <=> seen # 0 \/ Higher(a, b) # 0
    BY <2>2, <2>3, HigherReaches
  <2> QED
    BY <2>1, <2>2, <2>3, <2>4 DEF a, b
<1> QED
  <2> HIDE DEF level, open, in_group, in_project
  <2> QED
    BY <1>3, <1>4, <1>5 DEF VIEWER

LEMMA GroupsSeen ==
  ASSUME TypeOK, NEW pr \in Principals, NEW g \in Groups
  PROVE  g \in visible_groups_filter(pr) <=> principal_group_level(pr, g) >= VIEWER
<1> DEFINE role == RoleIn(member[g], pr.user)
           seen == IF group[g] = "INTERNAL" THEN 10 ELSE 0
<1>1. pr.user \in Users \cup {NoUser}
  BY DEF Principals, Principal, Session, PersonalToken, ServiceToken
<1>2. ROLE_LEVEL[role] \in {0, 10, 20, 30, 40} /\ (ROLE_LEVEL[role] # 0 <=> role # NoRole)
  BY <1>1, RolesRead, RoleReaches
<1>3. principal_group_level(pr, g) = IF is_admin(pr) THEN 100 ELSE Higher(ROLE_LEVEL[role], seen)
  BY DEF principal_group_level, group_level, ADMIN, VIEWER, NONE
<1>4. Higher(ROLE_LEVEL[role], seen) >= 10 <=> role # NoRole \/ group[g] = "INTERNAL"
  BY <1>2, HigherReaches
<1> QED
  BY <1>3, <1>4 DEF visible_groups_filter, VIEWER

LEMMA ShownFromTypes == TypeOK => ShownAsGranted
<1> SUFFICES ASSUME TypeOK PROVE ShownAsGranted
  OBVIOUS
<1>1. ListedIsReadable
  <2> SUFFICES ASSUME NEW pr \in Principals
               PROVE  /\ list_projects(pr) = {p \in Projects : get_project(pr, p)}
                      /\ list_builds(pr) = {p \in Projects : list_project_builds(pr, p)}
                      /\ list_packages(pr) = {p \in Projects : get_package(pr, p)}
                      /\ simple_root(pr) = {p \in Projects : simple_project(pr, p)}
                      /\ simple_root(pr) = {p \in Projects : download_internal(pr, p)}
                      /\ list_groups(pr) = {g \in Groups : get_group(pr, g)}
    BY DEF ListedIsReadable
  <2>1. visible_projects_filter(pr) \subseteq Projects /\ visible_groups_filter(pr) \subseteq Groups
    BY DEF visible_projects_filter, visible_groups_filter
  <2>2. ASSUME NEW p \in Projects, NEW perm \in {"PROJECT_READ", "BUILD_VIEW", "PACKAGE_READ"}
        PROVE  require_project(pr, p, perm) <=> p \in visible_projects_filter(pr)
    <3>1. PROJECT_PERM_LEVEL[perm] = VIEWER
      BY DEF PROJECT_PERM_LEVEL
    <3> QED
      BY <3>1, ProjectsSeen DEF require_project, can_project
  <2>3. ASSUME NEW g \in Groups PROVE require_group(pr, g, "READ") <=> g \in visible_groups_filter(pr)
    <3>1. GROUP_PERM_LEVEL["READ"] = VIEWER
      BY DEF GROUP_PERM_LEVEL
    <3> QED
      BY <3>1, GroupsSeen DEF require_group, can_group
  <2>4. list_projects(pr) = {p \in Projects : get_project(pr, p)}
    BY <2>1, <2>2 DEF list_projects, get_project
  <2>5. list_builds(pr) = {p \in Projects : list_project_builds(pr, p)}
    BY <2>1, <2>2 DEF list_builds, list_project_builds
  <2>6. list_packages(pr) = {p \in Projects : get_package(pr, p)}
    BY <2>1, <2>2 DEF list_packages, get_package, require_package_access
  <2>7. /\ simple_root(pr) = {p \in Projects : simple_project(pr, p)}
        /\ simple_root(pr) = {p \in Projects : download_internal(pr, p)}
    BY <2>1, <2>2 DEF simple_root, visible_internal_package_names, simple_project, download_internal,
                      require_package_access
  <2>8. list_groups(pr) = {g \in Groups : get_group(pr, g)}
    BY <2>1, <2>3 DEF list_groups, get_group
  <2> QED
    BY <2>4, <2>5, <2>6, <2>7, <2>8
<1>2. ShownRoleIsLevel
  <2> SUFFICES ASSUME NEW p \in Projects, NEW u \in Users, list_project_members(p)[u] # NoRole
               PROVE  ROLE_LEVEL[list_project_members(p)[u]]
                        = principal_project_level(PersonalToken(u, {"read_api"}), p)
    BY DEF ShownRoleIsLevel
  <2> DEFINE pr == PersonalToken(u, {"read_api"})
             a == ROLE_LEVEL[member[GroupOf[p]][u]]
             b == ROLE_LEVEL[override[p][u]]
             seen == IF project[p] = "INTERNAL" /\ group[GroupOf[p]] = "INTERNAL" THEN 10 ELSE 0
  <2>1. expand_scopes({"read_api"}) = {"read_api"}
    BY DEF expand_scopes, IMPLIES
  <2>2. pr.user = u /\ pr.bound = NoProject /\ "admin" \notin pr.scopes
    BY <2>1 DEF PersonalToken, Principal
  <2>3. ~is_admin(pr) /\ ~BoundViewer(pr, p) /\ u # NoUser /\ GroupOf[p] \in Groups
    BY <2>2, MembersAssumption DEF is_admin, BoundViewer
  <2>4. principal_project_level(pr, p) = Higher(seen, Higher(a, b))
    BY <2>2, <2>3 DEF principal_project_level, project_level, RoleIn, VIEWER, NONE
  <2>5. /\ a \in {0, 10, 20, 30, 40} /\ b \in {0, 10, 20, 30, 40}
        /\ (a # 0 <=> member[GroupOf[p]][u] # NoRole) /\ (b # 0 <=> override[p][u] # NoRole)
    BY <2>3, RoleReaches DEF TypeOK, GroupRole, ProjectRole
  <2>6. list_project_members(p)[u] = IF b > a THEN override[p][u] ELSE member[GroupOf[p]][u]
    BY DEF list_project_members
  <2>7. ROLE_LEVEL[list_project_members(p)[u]] = IF b > a THEN b ELSE a
    BY <2>6
  <2>8. IF b > a THEN b # 0 ELSE a # 0
    BY <2>5, <2>6
  <2>9. ASSUME NEW x \in {0, 10, 20, 30, 40}, NEW y \in {0, 10, 20, 30, 40}, NEW z \in {0, 10},
               IF y > x THEN y # 0 ELSE x # 0
        PROVE  (IF y > x THEN y ELSE x) = Higher(z, Higher(x, y))
    BY <2>9 DEF Higher
  <2>10. seen \in {0, 10}
    OBVIOUS
  <2> HIDE DEF a, b, seen, pr
  <2>11. (IF b > a THEN b ELSE a) = Higher(seen, Higher(a, b))
    BY <2>5, <2>8, <2>9, <2>10
  <2> QED
    BY <2>4, <2>7, <2>11 DEF pr
<1> QED
  BY <1>1, <1>2 DEF ShownAsGranted

(* Lists, the simple index and the members page of a project show each     *)
(* principal what the levels grant it (access_service.py:98-120,           *)
(* projects.py:153-167): two codings of one rule agree in every state.     *)
THEOREM ShownIsGranted == Spec => []ShownAsGranted
BY TypesHold, ShownFromTypes, PTL
-----------------------------------------------------------------------------
(* A level is the highest of three parts; each, after a commit, is at most *)
(* what it was or the level of the caller.                                 *)
LEMMA HigherBounded ==
  ASSUME NEW x \in Nat, NEW y \in Nat, NEW z \in Nat, NEW x1 \in Nat, NEW y1 \in Nat, NEW z1 \in Nat,
         NEW most \in Nat, x1 <= x \/ x1 <= most, y1 <= y \/ y1 <= most, z1 <= z \/ z1 <= most
  PROVE  Higher(x1, Higher(y1, z1)) <= Higher(Higher(x, Higher(y, z)), most)
BY DEF Higher

LEMMA CommitLiftsNobody ==
  ASSUME IInv, NEW h \in Handlers, Commit(h), NEW u \in Users, NEW p \in Projects, req[h].by = u
  PROVE  principal_project_level(Session(u), p)'
           <= Higher(principal_project_level(Session(u), p), req[h].level)
<1> DEFINE g == GroupOf[p]
           r == req[h]
           shown(vp, vg) == IF vp = "INTERNAL" /\ vg = "INTERNAL" THEN 10 ELSE 0
           a == ROLE_LEVEL[member[g][u]]
           a1 == ROLE_LEVEL[member'[g][u]]
           b == ROLE_LEVEL[override[p][u]]
           b1 == ROLE_LEVEL[override'[p][u]]
           s == shown(project[p], group[g])
           s1 == shown(project'[p], group'[g])
<1>1. Writes(h) /\ TypeOK /\ Fits(r)
  BY CommitWrites DEF IInv, RequestsFit
<1>2. g \in Groups /\ u # NoUser /\ NoProject \notin Projects
  BY MembersAssumption
<1>3. r.level \in Nat
  BY <1>1 DEF Fits, Levels, NONE, VIEWER, DEVELOPER, MAINTAINER, OWNER, ADMIN
<1>4. Session(u).user = u /\ Session(u).bound = NoProject
  BY DEF Session, Principal
<1>5. CASE u \in SystemAdmins
  <2>1. is_admin(Session(u))
    BY <1>5 DEF is_admin, Session, Principal, Scope
  <2>2. principal_project_level(Session(u), p)' = 100 /\ principal_project_level(Session(u), p) = 100
    BY <2>1 DEF principal_project_level, project_level, ADMIN
  <2> QED
    BY <1>3, <2>2 DEF Higher
<1>6. CASE u \notin SystemAdmins
  <2>1. ~is_admin(Session(u)) /\ ~BoundViewer(Session(u), p)
    BY <1>4, <1>6 DEF is_admin, BoundViewer
  <2>2. principal_project_level(Session(u), p) = Higher(s, Higher(a, b))
    BY <1>2, <1>4, <2>1 DEF principal_project_level, project_level, RoleIn, VIEWER, NONE
  <2>3. principal_project_level(Session(u), p)' = Higher(s1, Higher(a1, b1))
    BY <1>2, <1>4, <2>1 DEF principal_project_level, project_level, RoleIn, VIEWER, NONE
  <2>4. a \in Nat /\ b \in Nat /\ a1 \in Nat /\ b1 \in Nat
    <3>1. /\ member[g][u] \in GroupRole \cup {NoRole} /\ member'[g][u] \in GroupRole \cup {NoRole}
          /\ override[p][u] \in GroupRole \cup {NoRole} /\ override'[p][u] \in GroupRole \cup {NoRole}
      BY <1>1, <1>2 DEF TypeOK, Writes, MembersTable, OverridesTable, GroupRole, ProjectRole
    <3> QED
      BY <3>1, RoleLevels
  <2>5. s \in Nat /\ s1 \in Nat
    OBVIOUS
  <2>6. a1 <= a \/ a1 <= r.level
    <3>1. \/ member'[g][u] = member[g][u] \/ member'[g][u] = NoRole
          \/ r.op \in {"add_member", "update_member"} /\ member'[g][u] = r.value
      BY <1>1, <1>2 DEF Writes
    <3>2. CASE member'[g][u] = member[g][u]
      BY <2>4, <3>2
    <3>3. CASE member'[g][u] = NoRole
      BY <1>3, <3>3, RoleLevels
    <3>4. CASE r.op \in {"add_member", "update_member"} /\ member'[g][u] = r.value
      <4>1. r.value \in GroupRole /\ r.level >= 40
        BY <1>1, <3>4 DEF Fits, OWNER
      <4>2. a1 \in {0, 10, 20, 30, 40}
        BY <3>4, <4>1, RoleLevels
      <4> QED
        BY <1>3, <4>1, <4>2
    <3> QED
      BY <3>1, <3>2, <3>3, <3>4
  <2>7. b1 <= b \/ b1 <= r.level
    <3>1. \/ override'[p][u] = override[p][u] \/ override'[p][u] = NoRole
          \/ r.op = "add_project_member" /\ override'[p][u] = r.value
      BY <1>1 DEF Writes
    <3>2. CASE override'[p][u] = override[p][u]
      BY <2>4, <3>2
    <3>3. CASE override'[p][u] = NoRole
      BY <1>3, <3>3, RoleLevels
    <3>4. CASE r.op = "add_project_member" /\ override'[p][u] = r.value
      BY <1>1, <3>4 DEF Fits
    <3> QED
      BY <3>1, <3>2, <3>3, <3>4
  <2>8. s1 <= s \/ s1 <= r.level
    <3>1. (group' = group /\ project' = project) \/ r.op \in {"update_group", "update_project"}
      BY <1>1 DEF Writes
    <3>2. CASE group' = group /\ project' = project
      BY <3>2
    <3>3. CASE r.op \in {"update_group", "update_project"}
      <4>1. r.level >= 10
        BY <1>1, <3>3 DEF Fits, VIEWER
      <4> QED
        BY <1>3, <4>1
    <3> QED
      BY <3>1, <3>2, <3>3
  <2> HIDE DEF a, a1, b, b1, s, s1
  <2>9. Higher(s1, Higher(a1, b1)) <= Higher(Higher(s, Higher(a, b)), r.level)
    BY <1>3, <2>4, <2>5, <2>6, <2>7, <2>8, HigherBounded
  <2> QED
    BY <2>2, <2>3, <2>9
<1> QED
  BY <1>5, <1>6

(* A request ends in its commit alone.                                     *)
LEMMA OnlyCommitEnds ==
  ASSUME IInv, Next, NEW h \in Handlers, req[h].op # "none", req'[h].op = "none"
  PROVE  Commit(h)
<1>1. ASSUME NEW k \in Handlers, NEW pr \in Principals, Begin(k, pr) PROVE FALSE
  <2>1. PICK r : req' = [req EXCEPT ![k] = r]
    BY <1>1 DEF Begin, AddMember, UpdateMember, RemoveMember, AddProjectMember, RemoveProjectMember,
                UpdateGroup, UpdateProject, Open
  <2>2. req[k].op = "none"
    BY <1>1 DEF Begin, Idle
  <2> QED
    BY <2>1, <2>2 DEF IInv, RequestsFit
<1>2. ASSUME NEW k \in Handlers, Commit(k) PROVE h = k
  BY <1>2, CommitWrites DEF Writes, Ended
<1> QED
  BY <1>1, <1>2 DEF Next

(* No request lifts its own caller above the level it was authorised with, *)
(* however many requests commit between its decision and its writes        *)
(* (routers' require_* against the commit of the handler).                 *)
THEOREM NobodyPromotesThemselves == Spec => NoSelfPromotion
<1> DEFINE Kept ==
      \A h \in Handlers, u \in Users, p \in Projects :
        req[h].by = u /\ req[h].op # "none" /\ req'[h].op = "none"
        => principal_project_level(Session(u), p)'
             <= Higher(principal_project_level(Session(u), p), req[h].level)
<1>1. IInv /\ [Next]_vars => [Kept]_vars
  BY OnlyCommitEnds, CommitLiftsNobody
<1> QED
  BY <1>1, MembersInvariant, PTL DEF Spec, NoSelfPromotion
=============================================================================
