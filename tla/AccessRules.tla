----------------------------- MODULE AccessRules -----------------------------
(***************************************************************************)
(* core/permissions.py: levels, roles, what each permission needs, and the *)
(* rules that give a principal its level on a group or a project.  Nothing *)
(* here reads the database: a Membership is what the callers have read.    *)
(***************************************************************************)
EXTENDS Naturals

NONE == 0
VIEWER == 10
DEVELOPER == 20
MAINTAINER == 30
OWNER == 40
ADMIN == 100
Levels == {NONE, VIEWER, DEVELOPER, MAINTAINER, OWNER, ADMIN}

NoRole == "none"
GroupRole == {"VIEWER", "DEVELOPER", "MAINTAINER", "OWNER"}
ProjectRole == {"VIEWER", "DEVELOPER", "MAINTAINER"}
Visibility == {"PRIVATE", "INTERNAL"}

(* No role counts as no level.                                             *)
ROLE_LEVEL == [none |-> NONE, VIEWER |-> VIEWER, DEVELOPER |-> DEVELOPER,
               MAINTAINER |-> MAINTAINER, OWNER |-> OWNER]

PROJECT_PERM_LEVEL ==
  [PROJECT_READ |-> VIEWER, REPO_READ |-> VIEWER, PACKAGE_READ |-> VIEWER,
   BUILD_VIEW |-> VIEWER, BUILD_LOG |-> DEVELOPER, REPO_WRITE |-> DEVELOPER,
   BUILD_RUN |-> DEVELOPER, PUSH_TAG |-> MAINTAINER, BUILD_CANCEL |-> MAINTAINER,
   PACKAGE_YANK |-> MAINTAINER, PROJECT_UPDATE |-> MAINTAINER,
   PROJECT_MEMBERS |-> MAINTAINER, PROJECT_TOKENS |-> MAINTAINER,
   PROJECT_ARCHIVE |-> OWNER, PROJECT_DELETE |-> ADMIN]

GROUP_PERM_LEVEL == [READ |-> VIEWER, MANAGE |-> OWNER, CREATE_PROJECT |-> OWNER]

(* The scopes of a token, and those a scope brings with it.                *)
Scope == {"read_api", "write_api", "read_repository", "write_repository",
          "read_package", "write_package", "admin"}
IMPLIES == [write_api |-> {"read_api"}, write_repository |-> {"read_repository"},
            write_package |-> {"read_package"}, admin |-> Scope]
expand_scopes(scopes) == scopes \cup UNION {IMPLIES[s] : s \in scopes \cap DOMAIN IMPLIES}

Higher(a, b) == IF a >= b THEN a ELSE b
Lower(a, b) == IF a <= b THEN a ELSE b

(* A membership m has the principal's is_admin, its two roles, the two     *)
(* visibilities and whether its token is bound to a project of the group.  *)
project_level(m) ==
  LET seen == IF \/ m.bound_project_viewer
                 \/ m.project_visibility = "INTERNAL" /\ m.group_visibility = "INTERNAL"
              THEN VIEWER ELSE NONE
  IN IF m.is_admin THEN ADMIN
     ELSE Higher(seen, Higher(ROLE_LEVEL[m.group_role], ROLE_LEVEL[m.project_role]))

group_level(is_admin, group_role, group_visibility) ==
  IF is_admin THEN ADMIN
  ELSE Higher(ROLE_LEVEL[group_role], IF group_visibility = "INTERNAL" THEN VIEWER ELSE NONE)

can_project(level, perm) == level >= PROJECT_PERM_LEVEL[perm]
can_group(level, perm) == level >= GROUP_PERM_LEVEL[perm]

(* A ref is a tag, a branch or something else.                             *)
can_push_ref(level, ref, default_branch, protect_default_branch) ==
  /\ level >= DEVELOPER
  /\ \/ ref.kind = "tag" /\ level >= MAINTAINER
     \/ /\ ref.kind = "branch"
        /\ (ref.name = default_branch /\ protect_default_branch) => level >= MAINTAINER

max_grantable_project_role(level) == Lower(level, MAINTAINER)
=============================================================================
