------------------------------- MODULE GitPush -------------------------------
(***************************************************************************)
(* A push over SSH, from the key to the refs.                              *)
(*                                                                         *)
(* sshd asks which key a fingerprint is (toolhub-keys), the forced command *)
(* whether its user may write to the repository (toolhub-git-auth), and    *)
(* git, before it moves any ref, whether each update is allowed            *)
(* (pre-receive).  The three answers come from three reads of the          *)
(* database; git checks old values and HEAD itself when it moves a ref.    *)
(* Keys, roles, the project and its versions change at any time between.   *)
(***************************************************************************)
EXTENDS AccessRules, FiniteSets

CONSTANTS
  Users, NoUser,
  Fingerprints,
  Connections,   (* bound: pushes at the same time                         *)
  Tags, Branches, Main,
  Commits, Zero, (* Zero: the sha of no commit                             *)
  Roles,         (* bound: levels a role change gives                      *)
  MaxKeys,       (* bound: rows of ssh_keys                                *)
  MaxPushes,     (* bound: connections made                                *)
  MaxChanges     (* bound: changes of keys, users and the project          *)

ASSUME GitPushAssumption ==
  /\ Main \in Branches /\ Zero \notin Commits /\ NoUser \notin Users
  /\ Roles \subseteq Levels /\ MaxKeys \in Nat \ {0} /\ MaxPushes \in Nat /\ MaxChanges \in Nat

Tag(t) == [kind |-> "tag", name |-> t]
Branch(b) == [kind |-> "branch", name |-> b]
Refs == {Tag(t) : t \in Tags} \cup {Branch(b) : b \in Branches}
Shas == Commits \cup {Zero}
Rows == 1 .. MaxKeys
NoRow == 0

VARIABLES
  keys,     (* ssh_keys: fingerprint, user, not revoked                    *)
  active, level,  (* users.is_active; user_project_level of the project    *)
  project,  (* archived, protect_default_branch, default_branch            *)
  head,     (* HEAD of the repository                                      *)
  moving,   (* update_project between HEAD and its commit: the branches    *)
  refs,     (* the refs of the repository                                  *)
  built,    (* commits a tag was pushed at: they are built                 *)
  release,  (* package_versions: git_tag and commit_sha                    *)
  conn,     (* the pushes                                                  *)
  loosened, (* history: tags moved by a push cleared before their version  *)
            (* was published, or published when no longer at its commit    *)
  pushes, changes

admin == <<keys, active, level, project, head, moving>>
git == <<refs, built, loosened>>
vars == <<admin, git, release, conn, pushes, changes>>

(* early: refs that were guarded only after the push was cleared; opened:  *)
(* the project was archived after the connection was authorised.           *)
Idle == [stage |-> "idle", key |-> NoRow, user |-> NoUser, rank |-> NONE,
         updates |-> {}, early |-> {}, opened |-> FALSE]

NoKey == [print |-> "none", user |-> NoUser, live |-> FALSE]

Init ==
  /\ \E u \in Users, f \in Fingerprints :
       keys = [k \in Rows |-> IF k = 1 THEN [print |-> f, user |-> u, live |-> TRUE] ELSE NoKey]
  /\ active = [u \in Users |-> TRUE]
  /\ level \in [Users -> Roles]
  /\ project = [archived |-> FALSE, protected |-> TRUE, default |-> Main]
  /\ head = Main /\ moving = {}
  /\ refs = [r \in Refs |-> Zero]
  /\ built = [t \in Tags |-> {}]
  /\ release = [t \in Tags |-> Zero]
  /\ conn = [c \in Connections |-> Idle]
  /\ loosened = {} /\ pushes = 0 /\ changes = 0

Go(c, r) == conn' = [conn EXCEPT ![c] = r]
Close(c) == Go(c, Idle)

-----------------------------------------------------------------------------
(* Mutants: a revoked key passes; a published tag passes; protection is    *)
(* not looked at.                                                          *)
NotDisabled(k) == active[keys[k].user]
AnyTag(upd) == FALSE
AnyRank(rank, ref) == rank >= DEVELOPER

Usable(k) == keys[k].live /\ active[keys[k].user]
MayWrite(u) == ~project.archived /\ can_project(level[u], "REPO_WRITE")
MayPush(rank, ref) == can_push_ref(rank, ref, project.default, project.protected)
MovesRelease(upd) == upd.old # Zero /\ upd.ref.kind = "tag" /\ release[upd.ref.name] # Zero
DropsDefault(upd) == upd.new = Zero /\ upd.ref = Branch(project.default)

(* lookup_ssh_key: the row of a fingerprint is offered to sshd while it is *)
(* live and its user active; the connection goes on with the row's id.     *)
Offered(k) == keys[k].live /\ active[keys[k].user]

Connect(c, k) ==
  /\ conn[c] = Idle
  /\ pushes < MaxPushes /\ pushes' = pushes + 1
  /\ Offered(k)
  /\ Go(c, [Idle EXCEPT !.stage = "keyed", !.key = k])
  /\ UNCHANGED <<admin, git, release, changes>>

(* git_authorize for git-receive-pack; refused, or unanswered, git is not  *)
(* started.                                                                *)
Authorize(c) ==
  LET k == conn[c].key u == keys[k].user IN
  /\ conn[c].stage = "keyed"
  /\ IF Usable(k) /\ MayWrite(u)
     THEN Go(c, [conn[c] EXCEPT !.stage = "serving", !.user = u])
     ELSE Close(c)
  /\ UNCHANGED <<admin, git, release, pushes, changes>>

(* The client's updates start from the refs it was told.                   *)
Send(c, upds) ==
  /\ conn[c].stage = "serving"
  /\ \A upd \in upds : upd.old = refs[upd.ref] /\ upd.old # upd.new
  /\ Go(c, [conn[c] EXCEPT !.stage = "asking", !.updates = upds])
  /\ UNCHANGED <<admin, git, release, pushes, changes>>

(* git_authorize_push: one refused update refuses the push.                *)
Judge(c) ==
  LET u == conn[c].user IN
  /\ conn[c].stage = "asking"
  /\ IF /\ active[u]
        /\ \A upd \in conn[c].updates :
             MayPush(level[u], upd.ref) /\ ~MovesRelease(upd) /\ ~DropsDefault(upd)
     THEN Go(c, [conn[c] EXCEPT !.stage = "cleared", !.rank = level[u]])
     ELSE Close(c)
  /\ UNCHANGED <<admin, git, release, pushes, changes>>

(* The API does not answer, at either question: nothing is pushed.         *)
Unanswered(c) ==
  /\ conn[c].stage \in {"keyed", "asking"}
  /\ Close(c)
  /\ UNCHANGED <<admin, git, release, pushes, changes>>

(* git moves the refs one by one: one that is not at the old value, or is  *)
(* the branch of HEAD and would go, is refused (receive.denyDeleteCurrent).*)
Accepts(upd) == refs[upd.ref] = upd.old /\ ~(upd.new = Zero /\ upd.ref = Branch(head))

Land(c, upd) ==
  LET rest == conn[c].updates \ {upd} t == upd.ref.name IN
  /\ conn[c].stage = "cleared"
  /\ IF rest = {} THEN Close(c) ELSE Go(c, [conn[c] EXCEPT !.updates = rest])
  /\ IF Accepts(upd)
     THEN /\ refs' = [refs EXCEPT ![upd.ref] = upd.new]
          /\ built' = IF upd.ref.kind = "tag" /\ upd.new # Zero
                      THEN [built EXCEPT ![t] = @ \cup {upd.new}] ELSE built
          /\ loosened' = IF upd.ref \in conn[c].early /\ upd.ref.kind = "tag"
                         THEN loosened \cup {t} ELSE loosened
     ELSE UNCHANGED git
  /\ UNCHANGED <<admin, release, pushes, changes>>

-----------------------------------------------------------------------------
(* What changes meanwhile.                                                 *)
Guarded(guarded) ==
  conn' = [c \in Connections |->
             IF conn[c].stage = "cleared" THEN [conn[c] EXCEPT !.early = @ \cup guarded] ELSE conn[c]]

(* The build of a tag publishes, whenever it ends, once.                   *)
Publish(t, sha) ==
  /\ release[t] = Zero /\ sha \in built[t]
  /\ release' = [release EXCEPT ![t] = sha]
  /\ loosened' = IF refs[Tag(t)] # sha THEN loosened \cup {t} ELSE loosened
  /\ Guarded({Tag(t)})
  /\ UNCHANGED <<admin, refs, built, pushes, changes>>

Change == changes < MaxChanges /\ changes' = changes + 1 /\ UNCHANGED <<git, release, pushes>>

(* add_ssh_key: fingerprints of live keys are unique; remove_ssh_key.      *)
(* Mutant: without the unique index.                                       *)
AnyPrint(f) == TRUE
PrintFree(f) == \A k \in Rows : keys[k].live => keys[k].print # f

AddKey(k, u, f) ==
  /\ Change
  /\ keys[k].user = NoUser /\ PrintFree(f) /\ active[u]
  /\ keys' = [keys EXCEPT ![k] = [print |-> f, user |-> u, live |-> TRUE]]
  /\ UNCHANGED <<active, level, project, head, moving, conn>>

RemoveKey(k) ==
  /\ Change
  /\ keys[k].live /\ active[keys[k].user]
  /\ keys' = [keys EXCEPT ![k].live = FALSE]
  /\ UNCHANGED <<active, level, project, head, moving, conn>>

(* Users: disabled, enabled, given another role.                           *)
ChangeUser(u) ==
  /\ Change
  /\ \/ active' = [active EXCEPT ![u] = ~@] /\ UNCHANGED level
     \/ \E l \in Roles \ {level[u]} : level' = [level EXCEPT ![u] = l] /\ UNCHANGED active
  /\ UNCHANGED <<keys, project, head, moving, conn>>

Archive ==
  /\ Change
  /\ ~project.archived
  /\ project' = [project EXCEPT !.archived = TRUE]
  /\ conn' = [c \in Connections |->
                IF conn[c].stage \in {"idle", "keyed"} THEN conn[c] ELSE [conn[c] EXCEPT !.opened = TRUE]]
  /\ UNCHANGED <<keys, active, level, head, moving>>

Unarchive ==
  /\ Change
  /\ project.archived
  /\ project' = [project EXCEPT !.archived = FALSE]
  /\ UNCHANGED <<keys, active, level, head, moving, conn>>

(* update_project: protect_default_branch; default_branch, whose HEAD is   *)
(* moved before the commit, which may fail.                                *)
Protect(v) ==
  /\ Change
  /\ ~project.archived /\ project.protected # v
  /\ project' = [project EXCEPT !.protected = v]
  /\ IF v THEN Guarded({Branch(project.default)}) ELSE UNCHANGED conn
  /\ UNCHANGED <<keys, active, level, head, moving>>

MoveHead(b) ==
  /\ Change
  /\ ~project.archived /\ moving = {} /\ b # project.default
  /\ head' = b /\ moving' = {b}
  /\ UNCHANGED <<keys, active, level, project, conn>>

CommitDefault(b) ==
  /\ b \in moving
  /\ moving' = {}
  /\ \/ project' = [project EXCEPT !.default = b] /\ Guarded({Branch(b)})
     \/ UNCHANGED <<project, conn>>
  /\ UNCHANGED <<keys, active, level, head, git, release, pushes, changes>>

-----------------------------------------------------------------------------
Updates == [ref : Refs, old : Shas, new : Shas]
SentBy(c) == {upd \in Updates : upd.old = refs[upd.ref] /\ upd.old # upd.new}

Next ==
  \/ \E c \in Connections :
       \/ \E k \in Rows : Connect(c, k)
       \/ \E a, b \in SentBy(c) : (a.ref = b.ref => a = b) /\ Send(c, {a, b})
       \/ Authorize(c) \/ Judge(c) \/ Unanswered(c)
       \/ \E upd \in conn[c].updates : Land(c, upd)
  \/ \E t \in Tags, sha \in Commits : Publish(t, sha)
  \/ \E k \in Rows, u \in Users, f \in Fingerprints : AddKey(k, u, f)
  \/ \E k \in Rows : RemoveKey(k)
  \/ \E u \in Users : ChangeUser(u)
  \/ \E b \in Branches : MoveHead(b) \/ CommitDefault(b)
  \/ \E v \in BOOLEAN : Protect(v)
  \/ Archive \/ Unarchive

Spec == Init /\ [][Next]_vars

-----------------------------------------------------------------------------
(* Types; a connection that serves has its user, a fingerprint one live    *)
(* key.                                                                    *)
TypeOK ==
  /\ keys \in [Rows -> [print : Fingerprints \cup {"none"}, user : Users \cup {NoUser}, live : BOOLEAN]]
  /\ \A j, k \in Rows : keys[j].live /\ keys[k].live /\ keys[j].print = keys[k].print => j = k
  /\ active \in [Users -> BOOLEAN] /\ level \in [Users -> Roles]
  /\ project \in [archived : BOOLEAN, protected : BOOLEAN, default : Branches]
  /\ head \in Branches /\ moving \subseteq Branches
  /\ refs \in [Refs -> Shas] /\ release \in [Tags -> Shas]
  /\ \A c \in Connections :
       /\ conn[c].updates \subseteq Updates /\ conn[c].early \subseteq Refs
       /\ conn[c].stage \in {"serving", "asking", "cleared"} => conn[c].user \in Users
       /\ conn[c].stage = "cleared" => can_project(conn[c].rank, "REPO_WRITE")
  /\ pushes \in 0 .. MaxPushes /\ changes \in 0 .. MaxChanges

(* The user a push is made for holds the fingerprint that was presented at *)
(* the moment the push is authorised, however the key changed hands since  *)
(* sshd looked it up (internal.py:55-62 and 67-69, models ux_ssh_keys).    *)
ActsAsHolder ==
  [][\A c \in Connections, k \in Rows :
       conn[c].key = k /\ conn[c].stage = "keyed" /\ conn'[c].stage = "serving"
       => {u \in Users : \E j \in Rows : keys[j].live /\ keys[j].print = keys[k].print /\ keys[j].user = u}
            = {conn'[c].user}]_vars

(* The tag of a published version stays at the commit it was built from,   *)
(* unless a push cleared before the publication moved it, or it was no     *)
(* longer there when the version was published (internal.py:110-115).      *)
ReleaseTagKept ==
  \A t \in Tags : release[t] # Zero /\ t \notin loosened => refs[Tag(t)] = release[t]

Lands(c, r) == refs'[r] # refs[r] /\ conn'[c] # conn[c]

(* A protected default branch moves only by a push of a maintainer, or   *)
(* one cleared before it was protected or the default.                     *)
ByMaintainer(c) ==
  Lands(c, Branch(project.default)) /\ project.protected
  => conn[c].rank >= MAINTAINER \/ Branch(project.default) \in conn[c].early

(* It is never deleted while HEAD names it, and while HEAD is elsewhere -  *)
(* an update under way, or failed - only by a push cleared before it was   *)
(* the default (internal.py:116, git_service.py:98).                       *)
NotDeleted(c) ==
  LET b == Branch(project.default) IN
  Lands(c, b) /\ refs'[b] = Zero => head # project.default /\ b \in conn[c].early

(* An archived repository changes only by a connection that was authorised *)
(* before it was archived: the later questions do not ask again.           *)
NotArchived(c) == \A r \in Refs : Lands(c, r) /\ project.archived => conn[c].opened

(* However roles, protection, default branch and archive change between    *)
(* the questions and the moment the refs move, a guarded ref moves only by *)
(* a push that was let through before it was guarded (git_authorize,       *)
(* git_authorize_push, receive-pack).                                      *)
GuardedRefsKept ==
  [][\A c \in Connections : ByMaintainer(c) /\ NotDeleted(c) /\ NotArchived(c)]_vars

(* What pre-receive says of itself (hooks/pre-receive:3): a published tag  *)
(* cannot be changed - here, by a push that is judged after it is.         *)
PublishedTagNeverMoves ==
  [][\A c \in Connections, t \in Tags :
       Lands(c, Tag(t)) /\ release[t] # Zero => Tag(t) \in conn[c].early]_vars
=============================================================================
