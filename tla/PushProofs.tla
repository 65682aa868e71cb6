----------------------------- MODULE PushProofs -----------------------------
(***************************************************************************)
(* What a push guarantees, first until the refs move (GitPush): for any    *)
(* keys, users, refs, connections and changes between the questions and    *)
(* that moment; then from there to its builds (PushEvents): for any set of *)
(* pushes and requests and any number of faults.                           *)
(***************************************************************************)
EXTENDS GitPush, PushEvents, Sequences, WellFoundedInduction, TLAPS

(* A connection: it has a key once sshd has one and a user once it is      *)
(* served, it asks about some update, and its rank lets it write.          *)
ServedStages == {"serving", "asking", "cleared"}
Connection == [stage : {"idle", "keyed"} \cup ServedStages, key : Rows \cup {NoRow},
               user : Users \cup {NoUser}, rank : Levels, updates : SUBSET Updates,
               early : SUBSET Refs, opened : BOOLEAN]
Fit(r) ==
  /\ r \in Connection
  /\ r.stage = "keyed" => r.key \in Rows
  /\ r.stage \in ServedStages => r.user \in Users
  /\ r.stage \in {"asking", "cleared"} => r.updates # {}
  /\ r.stage = "cleared" => can_project(r.rank, "REPO_WRITE")

ConnectionsFit == DOMAIN conn = Connections /\ \A c \in Connections : Fit(conn[c])

KeysHeld == \A k \in Rows : keys[k].live => keys[k].user \in Users

(* Whoever is being served while the project is archived was let in before *)
(* it was.                                                                 *)
Opened(r) == project.archived /\ r.stage \in ServedStages => r.opened
OpenedBefore == \A c \in Connections : Opened(conn[c])

(* What is still known, when the refs move, of an update that was cleared: *)
(* every rule it would break now began to hold after it was.               *)
StillAllowed(r, upd) ==
  /\ \A t \in Tags : upd.ref = Tag(t) /\ release[t] # Zero => upd.old = Zero \/ upd.ref \in r.early
  /\ upd.ref = Branch(project.default) /\ project.protected => r.rank >= MAINTAINER \/ upd.ref \in r.early
  /\ upd.ref = Branch(project.default) /\ upd.new = Zero => upd.ref \in r.early
Cleared(r) == r.stage = "cleared" => \A upd \in r.updates : StillAllowed(r, upd)
ClearedKnown == \A c \in Connections : Cleared(conn[c])

(* The tables and refs, without the connections.                           *)
TablesFit ==
  /\ keys \in [Rows -> [print : Fingerprints \cup {"none"}, user : Users \cup {NoUser}, live : BOOLEAN]]
  /\ \A j, k \in Rows : keys[j].live /\ keys[k].live /\ keys[j].print = keys[k].print => j = k
  /\ active \in [Users -> BOOLEAN] /\ level \in [Users -> Roles]
  /\ project \in [archived : BOOLEAN, protected : BOOLEAN, default : Branches]
  /\ head \in Branches /\ moving \subseteq Branches
  /\ refs \in [Refs -> Shas] /\ release \in [Tags -> Shas]
  /\ pushes \in 0 .. MaxPushes /\ changes \in 0 .. MaxChanges

PushInv ==
  TablesFit /\ ConnectionsFit /\ KeysHeld /\ OpenedBefore /\ ClearedKnown /\ ReleaseTagKept
-----------------------------------------------------------------------------
LEMMA TypesFollow == TablesFit /\ ConnectionsFit => TypeOK
BY DEF TablesFit, ConnectionsFit, TypeOK, Fit, Connection, ServedStages

LEMMA IdleFits == Fit(Idle) /\ Opened(Idle) /\ Cleared(Idle) /\ Idle.stage = "idle"
BY DEF Fit, Opened, Cleared, Idle, Connection, ServedStages, Levels, NoRow

LEMMA RefsDiffer ==
  /\ \A s, t : Tag(s) = Tag(t) => s = t
  /\ \A b, c : Branch(b) = Branch(c) => b = c
  /\ \A t, b : Tag(t) # Branch(b)
  /\ \A t : Tag(t).kind = "tag" /\ Tag(t).name = t
  /\ \A b : Branch(b).kind = "branch" /\ Branch(b).name = b
  /\ \A t \in Tags : Tag(t) \in Refs
  /\ \A b \in Branches : Branch(b) \in Refs
<1>1. /\ \A t : Tag(t).kind = "tag" /\ Tag(t).name = t
      /\ \A b : Branch(b).kind = "branch" /\ Branch(b).name = b
  BY DEF Tag, Branch
<1>2. /\ \A s, t : Tag(s) = Tag(t) => s = t
      /\ \A b, c : Branch(b) = Branch(c) => b = c
      /\ \A t, b : Tag(t) # Branch(b)
  BY <1>1
<1> QED
  BY <1>1, <1>2 DEF Refs

LEMMA PushInitHolds == Init => PushInv
<1> SUFFICES ASSUME Init PROVE PushInv
  OBVIOUS
<1> USE GitPushAssumption
<1>1. \A c \in Connections : conn[c] = Idle
  BY DEF Init
<1>2. ConnectionsFit /\ OpenedBefore /\ ClearedKnown
  BY <1>1, IdleFits DEF Init, ConnectionsFit, OpenedBefore, ClearedKnown
<1>3. PICK u \in Users, f \in Fingerprints :
        keys = [k \in Rows |-> IF k = 1 THEN [print |-> f, user |-> u, live |-> TRUE] ELSE NoKey]
  BY DEF Init
<1>4. KeysHeld
  BY <1>3 DEF KeysHeld, NoKey
<1>5. TablesFit
  <2>1. keys \in [Rows -> [print : Fingerprints \cup {"none"}, user : Users \cup {NoUser}, live : BOOLEAN]]
    BY <1>3 DEF NoKey
  <2>2. \A j, k \in Rows : keys[j].live /\ keys[k].live /\ keys[j].print = keys[k].print => j = k
    BY <1>3 DEF NoKey
  <2> QED
    BY <2>1, <2>2 DEF Init, TablesFit, Shas
<1>6. ReleaseTagKept
  BY DEF Init, ReleaseTagKept
<1> QED
  BY <1>2, <1>4, <1>5, <1>6 DEF PushInv
-----------------------------------------------------------------------------
(* A connection that goes on, while tables and refs stay.                  *)
LEMMA GoKeeps ==
  ASSUME PushInv, NEW c \in Connections, NEW r, Go(c, r), Fit(r), Opened(r), Cleared(r),
         UNCHANGED <<project, release>>
  PROVE  ConnectionsFit' /\ OpenedBefore' /\ ClearedKnown'
<1>1. /\ DOMAIN conn' = Connections /\ conn'[c] = r
      /\ \A d \in Connections : d # c => conn'[d] = conn[d]
  BY DEF PushInv, ConnectionsFit, Go
<1>2. ConnectionsFit'
  BY <1>1 DEF PushInv, ConnectionsFit
<1>3. OpenedBefore'
  BY <1>1 DEF PushInv, OpenedBefore, Opened
<1>4. ClearedKnown'
  BY <1>1 DEF PushInv, ClearedKnown, Cleared, StillAllowed
<1> QED
  BY <1>2, <1>3, <1>4

(* Tables that stay as they are.                                           *)
LEMMA TablesStay ==
  ASSUME PushInv, UNCHANGED <<admin, git, release, changes>>, pushes' \in 0 .. MaxPushes
  PROVE  TablesFit' /\ KeysHeld' /\ ReleaseTagKept'
BY DEF PushInv, TablesFit, KeysHeld, ReleaseTagKept, admin, git

LEMMA StepKeeps ==
  ASSUME PushInv, NEW c \in Connections, NEW r, Go(c, r), Fit(r), Opened(r), Cleared(r),
         UNCHANGED <<admin, git, release, changes>>, pushes' \in 0 .. MaxPushes
  PROVE  PushInv'
BY GoKeeps, TablesStay DEF PushInv, admin

LEMMA CloseKeeps ==
  ASSUME PushInv, NEW c \in Connections, Close(c), UNCHANGED <<admin, git, release, pushes, changes>>
  PROVE  PushInv'
<1>1. pushes' \in 0 .. MaxPushes
  BY DEF PushInv, TablesFit
<1> QED
  BY <1>1, IdleFits, StepKeeps DEF Close

LEMMA ConnectKeeps ==
  ASSUME PushInv, NEW c \in Connections, NEW k \in Rows, Connect(c, k)
  PROVE  PushInv'
<1> DEFINE r == [Idle EXCEPT !.stage = "keyed", !.key = k]
<1>1. Idle \in Connection
  BY IdleFits DEF Fit
<1>2. r \in Connection /\ r.stage = "keyed" /\ r.key = k
  BY <1>1 DEF Connection
<1>3. Fit(r) /\ Opened(r) /\ Cleared(r)
  BY <1>2 DEF Fit, Opened, Cleared, ServedStages
<1>4. pushes' \in 0 .. MaxPushes
  BY GitPushAssumption DEF Connect, PushInv, TablesFit
<1> QED
  BY <1>3, <1>4, StepKeeps DEF Connect

LEMMA AuthorizeKeeps ==
  ASSUME PushInv, NEW c \in Connections, Authorize(c)
  PROVE  PushInv'
<1> DEFINE r == [conn[c] EXCEPT !.stage = "serving", !.user = keys[conn[c].key].user]
<1>1. CASE Close(c)
  BY <1>1, CloseKeeps DEF Authorize
<1>2. CASE Go(c, r) /\ Usable(conn[c].key) /\ MayWrite(keys[conn[c].key].user)
  <2>1. Fit(conn[c]) /\ conn[c].key \in Rows
    BY DEF PushInv, ConnectionsFit, Fit, Authorize
  <2>2. keys[conn[c].key].user \in Users
    BY <1>2, <2>1 DEF Usable, PushInv, KeysHeld
  <2>3. /\ r \in Connection /\ r.stage = "serving" /\ r.user \in Users
    BY <2>1, <2>2 DEF Fit, Connection, ServedStages
  <2>4. ~project.archived
    BY <1>2 DEF MayWrite
  <2>5. Fit(r) /\ Opened(r) /\ Cleared(r)
    BY <2>3, <2>4 DEF Fit, Opened, Cleared
  <2>6. pushes' \in 0 .. MaxPushes
    BY DEF Authorize, PushInv, TablesFit
  <2> QED
    BY <1>2, <2>5, <2>6, StepKeeps DEF Authorize
<1> QED
  BY <1>1, <1>2 DEF Authorize

LEMMA SendKeeps ==
  ASSUME PushInv, NEW c \in Connections, NEW a \in SentBy(c), NEW b \in SentBy(c), Send(c, {a, b})
  PROVE  PushInv'
<1> DEFINE r == [conn[c] EXCEPT !.stage = "asking", !.updates = {a, b}]
<1>1. Fit(conn[c]) /\ conn[c].stage = "serving" /\ Opened(conn[c])
  BY DEF PushInv, ConnectionsFit, OpenedBefore, Send
<1>2. a \in Updates /\ b \in Updates
  BY DEF SentBy
<1>3. /\ r \in Connection /\ r.stage = "asking" /\ r.user = conn[c].user /\ r.updates = {a, b}
      /\ r.opened = conn[c].opened
  BY <1>1, <1>2 DEF Fit, Connection, ServedStages
<1>4. Fit(r) /\ Opened(r) /\ Cleared(r)
  BY <1>1, <1>3 DEF Fit, Opened, Cleared, ServedStages
<1>5. pushes' \in 0 .. MaxPushes
  BY DEF Send, PushInv, TablesFit
<1> QED
  BY <1>4, <1>5, StepKeeps DEF Send

LEMMA JudgeKeeps ==
  ASSUME PushInv, NEW c \in Connections, Judge(c)
  PROVE  PushInv'
<1> DEFINE u == conn[c].user
           r == [conn[c] EXCEPT !.stage = "cleared", !.rank = level[u]]
<1>1. CASE Close(c)
  BY <1>1, CloseKeeps DEF Judge
<1>2. CASE /\ Go(c, r)
           /\ \A upd \in conn[c].updates :
                MayPush(level[u], upd.ref) /\ ~MovesRelease(upd) /\ ~DropsDefault(upd)
  <2>1. Fit(conn[c]) /\ conn[c].stage = "asking" /\ Opened(conn[c])
    BY DEF PushInv, ConnectionsFit, OpenedBefore, Judge
  <2>2. u \in Users /\ level[u] \in Levels
    BY <2>1, GitPushAssumption DEF Fit, ServedStages, PushInv, TablesFit
  <2>3. /\ r \in Connection /\ r.stage = "cleared" /\ r.user = u /\ r.updates = conn[c].updates
        /\ r.opened = conn[c].opened /\ r.rank = level[u] /\ r.early = conn[c].early
    BY <2>1, <2>2 DEF Fit, Connection, ServedStages
  <2>4. level[u] >= DEVELOPER
    <3>1. PICK upd \in conn[c].updates : TRUE
      BY <2>1 DEF Fit
    <3> QED
      BY <1>2, <3>1 DEF MayPush, can_push_ref
  <2>5. Fit(r)
    BY <2>1, <2>3, <2>4 DEF Fit, ServedStages, can_project, PROJECT_PERM_LEVEL
  <2>6. Opened(r)
    BY <2>1, <2>3 DEF Opened, ServedStages
  <2>7. ASSUME NEW upd \in r.updates PROVE StillAllowed(r, upd)
    <3>1. MayPush(level[u], upd.ref) /\ ~MovesRelease(upd) /\ ~DropsDefault(upd)
      BY <1>2, <2>3, <2>7
    <3>2. \A t \in Tags : upd.ref = Tag(t) /\ release[t] # Zero => upd.old = Zero
      BY <3>1, RefsDiffer DEF MovesRelease
    <3>3. upd.ref = Branch(project.default) /\ project.protected => level[u] >= MAINTAINER
      BY <3>1, RefsDiffer DEF MayPush, can_push_ref
    <3>4. ~(upd.new = Zero /\ upd.ref = Branch(project.default))
      BY <3>1 DEF DropsDefault
    <3> QED
      BY <2>3, <3>2, <3>3, <3>4 DEF StillAllowed
  <2>8. Cleared(r)
    BY <2>7 DEF Cleared
  <2>9. pushes' \in 0 .. MaxPushes
    BY DEF Judge, PushInv, TablesFit
  <2> QED
    BY <1>2, <2>5, <2>6, <2>8, <2>9, StepKeeps DEF Judge
<1> QED
  BY <1>1, <1>2 DEF Judge

LEMMA LandKeeps ==
  ASSUME PushInv, NEW c \in Connections, NEW upd \in conn[c].updates, Land(c, upd)
  PROVE  PushInv'
<1> DEFINE rest == conn[c].updates \ {upd}
           r == [conn[c] EXCEPT !.updates = rest]
<1>1. /\ Fit(conn[c]) /\ conn[c].stage = "cleared" /\ Opened(conn[c])
      /\ \A a \in conn[c].updates : StillAllowed(conn[c], a)
  BY DEF PushInv, ConnectionsFit, OpenedBefore, ClearedKnown, Cleared, Land
<1>2. /\ UNCHANGED <<keys, active, level, project, head, moving, release, pushes, changes>>
      /\ upd \in Updates
  BY <1>1 DEF Land, admin, Fit, Connection
<1>3. ConnectionsFit' /\ OpenedBefore' /\ ClearedKnown'
  <2>1. CASE Close(c)
    BY <1>2, <2>1, IdleFits, GoKeeps DEF Close
  <2>2. CASE rest # {} /\ Go(c, r)
    <3>1. /\ r \in Connection /\ r.stage = "cleared" /\ r.updates = rest /\ r.rank = conn[c].rank
          /\ r.early = conn[c].early /\ r.opened = conn[c].opened /\ r.user = conn[c].user
      BY <1>1 DEF Fit, Connection
    <3>2. Fit(r) /\ Opened(r)
      BY <1>1, <2>2, <3>1 DEF Fit, Opened
    <3>3. Cleared(r)
      BY <1>1, <3>1 DEF Cleared, StillAllowed
    <3> QED
      BY <1>2, <2>2, <3>2, <3>3, GoKeeps
  <2> QED
    BY <2>1, <2>2 DEF Land
<1>4. CASE UNCHANGED git
  BY <1>2, <1>3, <1>4 DEF git, PushInv, TablesFit, KeysHeld, ReleaseTagKept
<1>5. CASE /\ Accepts(upd) /\ refs' = [refs EXCEPT ![upd.ref] = upd.new]
           /\ loosened' = IF upd.ref \in conn[c].early /\ upd.ref.kind = "tag"
                          THEN loosened \cup {upd.ref.name} ELSE loosened
  <2>1. refs' \in [Refs -> Shas]
    BY <1>2, <1>5 DEF PushInv, TablesFit, Updates
  <2>2. TablesFit' /\ KeysHeld'
    BY <1>2, <2>1 DEF PushInv, TablesFit, KeysHeld
  <2>3. ASSUME NEW t \in Tags, release[t] # Zero, t \notin loosened' PROVE refs'[Tag(t)] = release[t]
    <3>1. t \notin loosened /\ refs[Tag(t)] = release[t] /\ Tag(t) \in Refs
      BY <1>5, <2>3, RefsDiffer DEF PushInv, ReleaseTagKept
    <3>2. upd.ref # Tag(t)
      BY <1>1, <1>5, <2>3, <3>1, RefsDiffer DEF StillAllowed, Accepts
    <3> QED
      BY <1>5, <3>1, <3>2 DEF PushInv, TablesFit
  <2>4. ReleaseTagKept'
    BY <1>2, <2>3 DEF ReleaseTagKept
  <2> QED
    BY <1>3, <2>2, <2>4 DEF PushInv
<1> QED
  BY <1>4, <1>5 DEF Land
-----------------------------------------------------------------------------
(* A guard that rises marks the refs of every push already cleared.        *)
LEMMA GuardMarks ==
  ASSUME ConnectionsFit, NEW guarded \in SUBSET Refs, Guarded(guarded)
  PROVE  /\ ConnectionsFit'
         /\ \A c \in Connections :
              /\ conn'[c].stage = conn[c].stage /\ conn'[c].updates = conn[c].updates
              /\ conn'[c].rank = conn[c].rank /\ conn'[c].opened = conn[c].opened
              /\ conn[c].early \subseteq conn'[c].early
              /\ conn[c].stage = "cleared" => guarded \subseteq conn'[c].early
<1>1. ASSUME NEW c \in Connections
      PROVE  /\ Fit(conn'[c])
             /\ conn'[c].stage = conn[c].stage /\ conn'[c].updates = conn[c].updates
             /\ conn'[c].rank = conn[c].rank /\ conn'[c].opened = conn[c].opened
             /\ conn[c].early \subseteq conn'[c].early
             /\ conn[c].stage = "cleared" => guarded \subseteq conn'[c].early
  <2>1. Fit(conn[c])
    BY DEF ConnectionsFit
  <2>2. CASE conn[c].stage = "cleared"
    <3> DEFINE r == [conn[c] EXCEPT !.early = @ \cup guarded]
    <3>1. conn'[c] = r
      BY <2>2 DEF Guarded
    <3>2. /\ r \in Connection /\ r.stage = conn[c].stage /\ r.updates = conn[c].updates /\ r.key = conn[c].key
          /\ r.rank = conn[c].rank /\ r.opened = conn[c].opened /\ r.early = conn[c].early \cup guarded
          /\ r.user = conn[c].user
      BY <2>1 DEF Fit, Connection
    <3>3. Fit(r)
      BY <2>1, <3>2 DEF Fit
    <3> QED
      BY <3>1, <3>2, <3>3
  <2>3. CASE conn[c].stage # "cleared"
    BY <2>1, <2>3 DEF Guarded
  <2> QED
    BY <2>2, <2>3
<1>2. DOMAIN conn' = Connections
  BY DEF Guarded
<1> QED
  BY <1>1, <1>2 DEF ConnectionsFit

LEMMA PublishKeeps ==
  ASSUME PushInv, NEW t \in Tags, NEW sha \in Commits, Publish(t, sha)
  PROVE  PushInv'
<1>1. /\ UNCHANGED <<keys, active, level, project, head, moving, refs, pushes, changes>>
      /\ release[t] = Zero /\ release' = [release EXCEPT ![t] = sha] /\ Guarded({Tag(t)})
      /\ loosened' = IF refs[Tag(t)] # sha THEN loosened \cup {t} ELSE loosened
  BY DEF Publish, admin
<1>2. release' \in [Tags -> Shas]
  BY <1>1 DEF PushInv, TablesFit, Shas
<1>3. TablesFit' /\ KeysHeld'
  BY <1>1, <1>2 DEF PushInv, TablesFit, KeysHeld
<1>4. /\ ConnectionsFit'
      /\ \A c \in Connections :
           /\ conn'[c].stage = conn[c].stage /\ conn'[c].updates = conn[c].updates
           /\ conn'[c].rank = conn[c].rank /\ conn'[c].opened = conn[c].opened
           /\ conn[c].early \subseteq conn'[c].early
           /\ conn[c].stage = "cleared" => {Tag(t)} \subseteq conn'[c].early
  <2>1. {Tag(t)} \in SUBSET Refs
    BY RefsDiffer
  <2> QED
    BY <1>1, <2>1, GuardMarks DEF PushInv
<1>5. OpenedBefore'
  BY <1>1, <1>4 DEF PushInv, OpenedBefore, Opened
<1>6. ClearedKnown'
  <2> SUFFICES ASSUME NEW c \in Connections, conn'[c].stage = "cleared", NEW upd \in conn'[c].updates
               PROVE  StillAllowed(conn[c], upd)'
    BY DEF ClearedKnown, Cleared
  <2>1. StillAllowed(conn[c], upd) /\ conn[c].stage = "cleared"
    BY <1>4 DEF PushInv, ClearedKnown, Cleared
  <2>2. ASSUME NEW s \in Tags, upd.ref = Tag(s), release'[s] # Zero
        PROVE  upd.old = Zero \/ upd.ref \in conn'[c].early
    <3>1. CASE s = t
      BY <1>4, <2>1, <2>2, <3>1
    <3>2. CASE s # t
      BY <1>1, <1>4, <2>1, <2>2, <3>2 DEF StillAllowed, PushInv, TablesFit
    <3> QED
      BY <3>1, <3>2
  <2> QED
    BY <1>1, <1>4, <2>1, <2>2 DEF StillAllowed
<1>7. ReleaseTagKept'
  BY <1>1 DEF PushInv, ReleaseTagKept, TablesFit
<1> QED
  BY <1>3, <1>4, <1>5, <1>6, <1>7 DEF PushInv

(* Changes of keys and users, and of HEAD: no connection notices.          *)
LEMMA UnnoticedKeeps ==
  ASSUME PushInv, TablesFit', KeysHeld', UNCHANGED <<conn, git, release>>,
         project' = project \/ (project' = [project EXCEPT !.archived = FALSE])
                            \/ (project' = [project EXCEPT !.protected = FALSE])
  PROVE  PushInv'
<1>1. UNCHANGED <<conn, refs, loosened, release>>
  BY DEF git
<1>2. /\ project'.archived => project.archived
      /\ project'.protected => project.protected
      /\ project'.default = project.default
  BY DEF PushInv, TablesFit
<1>3. ConnectionsFit' /\ ReleaseTagKept'
  BY <1>1 DEF PushInv, ConnectionsFit, ReleaseTagKept
<1>4. OpenedBefore'
  BY <1>1, <1>2 DEF PushInv, OpenedBefore, Opened
<1>5. ClearedKnown'
  BY <1>1, <1>2 DEF PushInv, ClearedKnown, Cleared, StillAllowed
<1> QED
  BY <1>3, <1>4, <1>5 DEF PushInv

LEMMA KeyChangesKeep ==
  ASSUME PushInv, NEW k \in Rows,
         RemoveKey(k) \/ \E u \in Users, f \in Fingerprints : AddKey(k, u, f)
  PROVE  PushInv'
<1>1. /\ UNCHANGED <<active, level, project, head, moving, conn, refs, built, loosened, release, pushes>>
      /\ changes' \in 0 .. MaxChanges
  BY GitPushAssumption DEF RemoveKey, AddKey, Change, git, PushInv, TablesFit
<1>2. CASE RemoveKey(k)
  <2>1. keys' = [keys EXCEPT ![k].live = FALSE]
    BY <1>2 DEF RemoveKey
  <2>2. /\ keys' \in [Rows -> [print : Fingerprints \cup {"none"}, user : Users \cup {NoUser}, live : BOOLEAN]]
        /\ \A j \in Rows : /\ keys'[j].print = keys[j].print /\ keys'[j].user = keys[j].user
                           /\ keys'[j].live => keys[j].live
    BY <2>1 DEF PushInv, TablesFit
  <2>3. TablesFit' /\ KeysHeld'
    BY <1>1, <2>2 DEF PushInv, TablesFit, KeysHeld
  <2> QED
    BY <1>1, <2>3, UnnoticedKeeps DEF git
<1>3. ASSUME NEW u \in Users, NEW f \in Fingerprints, AddKey(k, u, f) PROVE PushInv'
  <2>1. /\ keys' = [keys EXCEPT ![k] = [print |-> f, user |-> u, live |-> TRUE]]
        /\ \A j \in Rows : keys[j].live => keys[j].print # f
    BY <1>3 DEF AddKey, PrintFree
  <2>2. keys' \in [Rows -> [print : Fingerprints \cup {"none"}, user : Users \cup {NoUser}, live : BOOLEAN]]
    BY <2>1 DEF PushInv, TablesFit
  <2>3. /\ keys'[k].print = f /\ keys'[k].user = u
        /\ \A j \in Rows : j # k => keys'[j] = keys[j]
    BY <2>1 DEF PushInv, TablesFit
  <2>4. \A i, j \in Rows : keys'[i].live /\ keys'[j].live /\ keys'[i].print = keys'[j].print => i = j
    BY <2>1, <2>3 DEF PushInv, TablesFit
  <2>5. TablesFit' /\ KeysHeld'
    BY <1>1, <2>2, <2>3, <2>4 DEF PushInv, TablesFit, KeysHeld
  <2> QED
    BY <1>1, <2>5, UnnoticedKeeps DEF git
<1> QED
  BY <1>2, <1>3

LEMMA UserAndHeadChangesKeep ==
  ASSUME PushInv,
         \/ \E u \in Users : ChangeUser(u)
         \/ \E b \in Branches : MoveHead(b)
         \/ Unarchive \/ Protect(FALSE)
  PROVE  PushInv'
<1>1. UNCHANGED <<keys, conn, git, refs, release, pushes>> /\ changes' \in 0 .. MaxChanges
  <2>1. Change /\ UNCHANGED <<keys, conn>>
    BY DEF ChangeUser, MoveHead, Unarchive, Protect
  <2> QED
    BY <2>1, GitPushAssumption DEF Change, git, PushInv, TablesFit
<1>2. KeysHeld'
  BY <1>1 DEF PushInv, KeysHeld
<1>3. ASSUME NEW u \in Users, ChangeUser(u) PROVE PushInv'
  <2>1. /\ UNCHANGED <<project, head, moving>>
        /\ active' \in [Users -> BOOLEAN] /\ level' \in [Users -> Roles]
    BY <1>3 DEF ChangeUser, PushInv, TablesFit
  <2>2. TablesFit'
    BY <1>1, <2>1 DEF PushInv, TablesFit
  <2> QED
    BY <1>1, <1>2, <2>1, <2>2, UnnoticedKeeps
<1>4. ASSUME NEW b \in Branches, MoveHead(b) PROVE PushInv'
  <2>1. UNCHANGED <<active, level, project>> /\ head' \in Branches /\ moving' \subseteq Branches
    BY <1>4 DEF MoveHead
  <2>2. TablesFit'
    BY <1>1, <2>1 DEF PushInv, TablesFit
  <2> QED
    BY <1>1, <1>2, <2>1, <2>2, UnnoticedKeeps
<1>5. CASE Unarchive \/ Protect(FALSE)
  <2>1. /\ UNCHANGED <<active, level, head, moving>>
        /\ \/ project' = [project EXCEPT !.archived = FALSE]
           \/ project' = [project EXCEPT !.protected = FALSE]
    BY <1>5 DEF Unarchive, Protect
  <2>2. project' \in [archived : BOOLEAN, protected : BOOLEAN, default : Branches]
    BY <2>1 DEF PushInv, TablesFit
  <2>3. TablesFit'
    BY <1>1, <2>1, <2>2 DEF PushInv, TablesFit
  <2> QED
    BY <1>1, <1>2, <2>1, <2>3, UnnoticedKeeps
<1> QED
  BY <1>3, <1>4, <1>5

LEMMA ArchiveKeeps ==
  ASSUME PushInv, Archive
  PROVE  PushInv'
<1>1. /\ UNCHANGED <<keys, active, level, head, moving, refs, built, loosened, release, pushes>>
      /\ changes' \in 0 .. MaxChanges /\ project' = [project EXCEPT !.archived = TRUE]
  BY GitPushAssumption DEF Archive, Change, git, PushInv, TablesFit
<1>2. /\ project' \in [archived : BOOLEAN, protected : BOOLEAN, default : Branches]
      /\ project'.protected = project.protected /\ project'.default = project.default
  BY <1>1 DEF PushInv, TablesFit
<1>3. TablesFit' /\ KeysHeld' /\ ReleaseTagKept'
  BY <1>1, <1>2 DEF PushInv, TablesFit, KeysHeld, ReleaseTagKept
<1>4. ASSUME NEW c \in Connections
      PROVE  /\ Fit(conn'[c]) /\ (conn'[c].stage \in ServedStages => conn'[c].opened)
             /\ conn'[c].stage = conn[c].stage /\ conn'[c].updates = conn[c].updates
             /\ conn'[c].rank = conn[c].rank /\ conn'[c].early = conn[c].early
  <2>1. Fit(conn[c])
    BY DEF PushInv, ConnectionsFit
  <2>2. CASE conn[c].stage \in {"idle", "keyed"}
    BY <2>1, <2>2 DEF Archive, ServedStages
  <2>3. CASE conn[c].stage \notin {"idle", "keyed"}
    <3> DEFINE r == [conn[c] EXCEPT !.opened = TRUE]
    <3>1. conn'[c] = r
      BY <2>3 DEF Archive
    <3>2. /\ r \in Connection /\ r.stage = conn[c].stage /\ r.updates = conn[c].updates /\ r.key = conn[c].key
          /\ r.rank = conn[c].rank /\ r.early = conn[c].early /\ r.user = conn[c].user /\ r.opened
      BY <2>1 DEF Fit, Connection
    <3>3. Fit(r)
      BY <2>1, <3>2 DEF Fit
    <3> QED
      BY <3>1, <3>2, <3>3
  <2> QED
    BY <2>2, <2>3
<1>5. DOMAIN conn' = Connections
  BY DEF Archive
<1>6. ConnectionsFit' /\ OpenedBefore'
  BY <1>4, <1>5 DEF ConnectionsFit, OpenedBefore, Opened
<1>7. ClearedKnown'
  BY <1>1, <1>2, <1>4 DEF PushInv, ClearedKnown, Cleared, StillAllowed
<1> QED
  BY <1>3, <1>6, <1>7 DEF PushInv

(* The default branch is protected, or another one is the default.         *)
LEMMA GuardKeeps ==
  ASSUME PushInv, NEW b \in Branches, Guarded({Branch(b)}), project' \in
           [archived : BOOLEAN, protected : BOOLEAN, default : Branches],
         project'.archived = project.archived, project'.default = b,
         UNCHANGED <<keys, active, level, head, refs, loosened, release, pushes>>,
         moving' \subseteq Branches, changes' \in 0 .. MaxChanges
  PROVE  PushInv'
<1>1. /\ ConnectionsFit'
      /\ \A c \in Connections :
           /\ conn'[c].stage = conn[c].stage /\ conn'[c].updates = conn[c].updates
           /\ conn'[c].rank = conn[c].rank /\ conn'[c].opened = conn[c].opened
           /\ conn[c].early \subseteq conn'[c].early
           /\ conn[c].stage = "cleared" => {Branch(b)} \subseteq conn'[c].early
  <2>1. {Branch(b)} \in SUBSET Refs
    BY RefsDiffer
  <2> QED
    BY <2>1, GuardMarks DEF PushInv
<1>2. TablesFit' /\ KeysHeld' /\ ReleaseTagKept'
  BY DEF PushInv, TablesFit, KeysHeld, ReleaseTagKept
<1>3. OpenedBefore'
  BY <1>1 DEF PushInv, OpenedBefore, Opened
<1>4. ClearedKnown'
  <2> SUFFICES ASSUME NEW c \in Connections, conn'[c].stage = "cleared", NEW upd \in conn'[c].updates
               PROVE  StillAllowed(conn[c], upd)'
    BY DEF ClearedKnown, Cleared
  <2>1. StillAllowed(conn[c], upd) /\ conn[c].stage = "cleared"
    BY <1>1 DEF PushInv, ClearedKnown, Cleared
  <2> QED
    BY <1>1, <2>1 DEF StillAllowed
<1> QED
  BY <1>1, <1>2, <1>3, <1>4 DEF PushInv

LEMMA ProtectKeeps ==
  ASSUME PushInv, Protect(TRUE)
  PROVE  PushInv'
<1>1. /\ project' = [project EXCEPT !.protected = TRUE] /\ Guarded({Branch(project.default)})
      /\ UNCHANGED <<keys, active, level, head, moving, refs, loosened, release, pushes>>
      /\ changes' \in 0 .. MaxChanges
  BY GitPushAssumption DEF Protect, Change, git, PushInv, TablesFit
<1>2. /\ project' \in [archived : BOOLEAN, protected : BOOLEAN, default : Branches]
      /\ project'.archived = project.archived /\ project'.default = project.default
      /\ project.default \in Branches /\ moving \subseteq Branches
  BY <1>1 DEF PushInv, TablesFit
<1> QED
  BY <1>1, <1>2, GuardKeeps

LEMMA CommitDefaultKeeps ==
  ASSUME PushInv, NEW b \in Branches, CommitDefault(b)
  PROVE  PushInv'
<1>1. /\ UNCHANGED <<keys, active, level, head, git, refs, loosened, release, pushes, changes>> /\ moving' = {}
  BY DEF CommitDefault, git
<1>2. CASE project' = [project EXCEPT !.default = b] /\ Guarded({Branch(b)})
  <2>1. /\ project' \in [archived : BOOLEAN, protected : BOOLEAN, default : Branches]
        /\ project'.archived = project.archived /\ project'.default = b
        /\ changes' \in 0 .. MaxChanges
    BY <1>1, <1>2 DEF PushInv, TablesFit
  <2> QED
    BY <1>1, <1>2, <2>1, GuardKeeps
<1>3. CASE UNCHANGED <<project, conn>>
  <2>1. TablesFit' /\ KeysHeld'
    BY <1>1, <1>3 DEF PushInv, TablesFit, KeysHeld
  <2> QED
    BY <1>1, <1>3, <2>1, UnnoticedKeeps
<1> QED
  BY <1>2, <1>3 DEF CommitDefault
-----------------------------------------------------------------------------
LEMMA PushNextKeeps == PushInv /\ [Next]_vars => PushInv'
<1> SUFFICES ASSUME PushInv, [Next]_vars PROVE PushInv'
  OBVIOUS
<1>1. ASSUME NEW c \in Connections, Unanswered(c) PROVE PushInv'
  BY <1>1, CloseKeeps DEF Unanswered
<1>2. ASSUME NEW v \in BOOLEAN, Protect(v) PROVE PushInv'
  BY <1>2, ProtectKeeps, UserAndHeadChangesKeep
<1>3. CASE UNCHANGED vars
  BY <1>3 DEF vars, admin, git, PushInv, TablesFit, ConnectionsFit, KeysHeld, OpenedBefore, Opened, ClearedKnown,
              Cleared, StillAllowed, ReleaseTagKept
<1> QED
  BY <1>1, <1>2, <1>3, ConnectKeeps, SendKeeps, AuthorizeKeeps, JudgeKeeps, LandKeeps, PublishKeeps,
     KeyChangesKeep, UserAndHeadChangesKeep, ArchiveKeeps, CommitDefaultKeeps DEF Next

(* The inductive invariant: tables, connections and refs have their types, *)
(* a live key has a user, a served connection of an archived project was   *)
(* let in before, and what Judge knew of every update it cleared holds, or *)
(* was marked when it ceased to.                                           *)
THEOREM GitPushInvariant == Spec => []PushInv
BY PushInitHolds, PushNextKeeps, PTL DEF Spec

(* Types; one live key a fingerprint; who is served is known.              *)
THEOREM PushTypesHold == Spec => []TypeOK
<1>1. PushInv => TypeOK
  BY TypesFollow DEF PushInv
<1> QED
  BY <1>1, GitPushInvariant, PTL

(* The tag of a published version stays at the commit that was published,  *)
(* the two cases apart that loosened names (internal.py:110-115).          *)
THEOREM PublishedTagStays == Spec => []ReleaseTagKept
<1>1. PushInv => ReleaseTagKept
  BY DEF PushInv
<1> QED
  BY <1>1, GitPushInvariant, PTL
-----------------------------------------------------------------------------
(* What a step of a connection changes, and what every other step leaves.  *)
Moves(c) ==
  \/ \E k \in Rows : Connect(c, k)
  \/ \E a, b \in SentBy(c) : Send(c, {a, b})
  \/ Authorize(c) \/ Judge(c) \/ Unanswered(c)
  \/ \E upd \in conn[c].updates : Land(c, upd)

LEMMA OthersStay ==
  ASSUME PushInv, NEW c \in Connections, Moves(c), NEW d \in Connections, d # c
  PROVE  conn'[d] = conn[d]
<1>1. PICK r : conn' = [conn EXCEPT ![c] = r]
  BY DEF Moves, Connect, Send, Authorize, Judge, Unanswered, Land, Go, Close
<1> QED
  BY <1>1 DEF PushInv, ConnectionsFit

LEMMA StagesStay ==
  ASSUME PushInv, Next, \A c \in Connections : ~Moves(c)
  PROVE  refs' = refs /\ \A d \in Connections : conn'[d].stage = conn[d].stage
<1>1. ASSUME NEW guarded \in SUBSET Refs, Guarded(guarded)
      PROVE  \A d \in Connections : conn'[d].stage = conn[d].stage
  BY <1>1, GuardMarks DEF PushInv
<1>2. ASSUME NEW t \in Tags, NEW sha \in Commits, Publish(t, sha)
      PROVE  refs' = refs /\ \A d \in Connections : conn'[d].stage = conn[d].stage
  <2>1. {Tag(t)} \in SUBSET Refs
    BY RefsDiffer
  <2> QED
    BY <1>1, <1>2, <2>1 DEF Publish
<1>3. ASSUME \/ \E k \in Rows, u \in Users, f \in Fingerprints : AddKey(k, u, f)
             \/ \E k \in Rows : RemoveKey(k)
             \/ \E u \in Users : ChangeUser(u)
             \/ \E b \in Branches : MoveHead(b)
             \/ Unarchive
      PROVE  refs' = refs /\ conn' = conn
  BY <1>3 DEF AddKey, RemoveKey, ChangeUser, MoveHead, Unarchive, Change, git
<1>4. ASSUME NEW b \in Branches, CommitDefault(b)
      PROVE  refs' = refs /\ \A d \in Connections : conn'[d].stage = conn[d].stage
  <2>1. {Branch(b)} \in SUBSET Refs
    BY RefsDiffer
  <2> QED
    BY <1>1, <1>4, <2>1 DEF CommitDefault, git
<1>5. ASSUME NEW v \in BOOLEAN, Protect(v)
      PROVE  refs' = refs /\ \A d \in Connections : conn'[d].stage = conn[d].stage
  <2>1. {Branch(project.default)} \in SUBSET Refs
    BY RefsDiffer DEF PushInv, TablesFit
  <2> QED
    BY <1>1, <1>5, <2>1 DEF Protect, Change, git
<1>6. ASSUME Archive
      PROVE  refs' = refs /\ \A d \in Connections : conn'[d].stage = conn[d].stage
  <2>1. refs' = refs
    BY <1>6 DEF Archive, Change, git
  <2>2. ASSUME NEW d \in Connections PROVE conn'[d].stage = conn[d].stage
    <3>1. conn'[d] = conn[d] \/ conn'[d] = [conn[d] EXCEPT !.opened = TRUE]
      BY <1>6 DEF Archive
    <3>2. conn[d] \in Connection
      BY DEF PushInv, ConnectionsFit, Fit
    <3> QED
      BY <3>1, <3>2 DEF Connection
  <2> QED
    BY <2>1, <2>2
<1> QED
  BY <1>2, <1>3, <1>4, <1>5, <1>6 DEF Next, Moves

LEMMA OnlyAuthorizeServes ==
  ASSUME PushInv, Next, NEW c \in Connections, conn[c].stage = "keyed", conn'[c].stage = "serving"
  PROVE  Authorize(c)
<1>1. PICK d \in Connections : Moves(d)
  BY StagesStay
<1>2. d = c
  BY <1>1, OthersStay
<1>3. ~Unanswered(c) \/ Authorize(c)
  BY IdleFits DEF Unanswered, Close, Go, PushInv, ConnectionsFit
<1>4. /\ \A k \in Rows : ~Connect(c, k)
      /\ \A a, b \in SentBy(c) : ~Send(c, {a, b})
      /\ ~Judge(c) /\ \A upd \in conn[c].updates : ~Land(c, upd)
  BY IdleFits DEF Connect, Send, Judge, Land
<1> QED
  BY <1>1, <1>2, <1>3, <1>4 DEF Moves

LEMMA AuthorizeActsAsHolder ==
  ASSUME PushInv, NEW c \in Connections, NEW k \in Rows, conn[c].key = k, Authorize(c), conn'[c].stage = "serving"
  PROVE  {u \in Users : \E j \in Rows : keys[j].live /\ keys[j].print = keys[k].print /\ keys[j].user = u}
           = {conn'[c].user}
<1> DEFINE r == [conn[c] EXCEPT !.stage = "serving", !.user = keys[k].user]
<1>1. Fit(conn[c]) /\ DOMAIN conn = Connections
  BY DEF PushInv, ConnectionsFit
<1>2. ~Close(c)
  BY <1>1, IdleFits DEF Close, Go
<1>3. Usable(k) /\ conn'[c] = r
  BY <1>1, <1>2 DEF Authorize, Go
<1>4. r.user = keys[k].user
  BY <1>1 DEF Fit, Connection
<1>5. keys[k].live /\ keys[k].user \in Users
  BY <1>3 DEF Usable, PushInv, KeysHeld
<1>6. \A j \in Rows : keys[j].live /\ keys[j].print = keys[k].print => j = k
  BY <1>5 DEF PushInv, TablesFit
<1> QED
  BY <1>3, <1>4, <1>5, <1>6

(* A push is made in the name of who holds the presented fingerprint when  *)
(* it is authorised, however keys changed hands since sshd looked it up    *)
(* (internal.py:55-62 and 67-69).                                          *)
THEOREM PushActsAsHolder == Spec => ActsAsHolder
<1> DEFINE Holder ==
      \A c \in Connections, k \in Rows :
        conn[c].key = k /\ conn[c].stage = "keyed" /\ conn'[c].stage = "serving"
        => {u \in Users : \E j \in Rows : keys[j].live /\ keys[j].print = keys[k].print /\ keys[j].user = u}
             = {conn'[c].user}
<1>1. PushInv /\ [Next]_vars => [Holder]_vars
  BY OnlyAuthorizeServes, AuthorizeActsAsHolder
<1> QED
  BY <1>1, GitPushInvariant, PTL DEF Spec, ActsAsHolder

LEMMA LandKeepsGuards ==
  ASSUME PushInv, NEW c \in Connections, NEW upd \in conn[c].updates, Land(c, upd)
  PROVE  ByMaintainer(c) /\ NotDeleted(c) /\ NotArchived(c)
<1>1. conn[c].stage = "cleared" /\ StillAllowed(conn[c], upd) /\ Opened(conn[c])
  BY DEF PushInv, ClearedKnown, Cleared, OpenedBefore, Land
<1>2. NotArchived(c)
  BY <1>1 DEF NotArchived, Opened, ServedStages
<1>3. ASSUME NEW r \in Refs, refs'[r] # refs[r]
      PROVE  r = upd.ref /\ refs'[r] = upd.new /\ Accepts(upd)
  BY <1>3 DEF Land, git, PushInv, TablesFit
<1>4. Branch(project.default) \in Refs
  BY RefsDiffer DEF PushInv, TablesFit
<1>5. ByMaintainer(c)
  BY <1>1, <1>3, <1>4 DEF ByMaintainer, Lands, StillAllowed
<1>6. NotDeleted(c)
  BY <1>1, <1>3, <1>4 DEF NotDeleted, Lands, StillAllowed, Accepts
<1> QED
  BY <1>2, <1>5, <1>6

(* A protected default branch, a default branch about to go and the refs   *)
(* of an archived repository move only by a push that was let through      *)
(* before they were guarded, whatever changes between the questions and    *)
(* the refs (git_authorize, git_authorize_push, receive-pack).             *)
THEOREM GuardsHold == Spec => GuardedRefsKept
<1> DEFINE Kept == \A c \in Connections : ByMaintainer(c) /\ NotDeleted(c) /\ NotArchived(c)
<1>1. ASSUME PushInv, Next, NEW c \in Connections
      PROVE  ByMaintainer(c) /\ NotDeleted(c) /\ NotArchived(c)
  <2>1. CASE \E upd \in conn[c].updates : Land(c, upd)
    BY <1>1, <2>1, LandKeepsGuards
  <2>2. CASE ~\E upd \in conn[c].updates : Land(c, upd)
    <3>1. refs' = refs \/ conn'[c] = conn[c]
      <4>1. CASE \E d \in Connections : Moves(d)
        BY <1>1, <2>2, <4>1, OthersStay DEF Moves, Connect, Send, Authorize, Judge, Unanswered, git
      <4>2. CASE \A d \in Connections : ~Moves(d)
        BY <1>1, <4>2, StagesStay
      <4> QED
        BY <4>1, <4>2
    <3> QED
      BY <3>1 DEF ByMaintainer, NotDeleted, NotArchived, Lands
  <2> QED
    BY <2>1, <2>2
<1>2. PushInv /\ [Next]_vars => [Kept]_vars
  BY <1>1
<1> QED
  BY <1>2, GitPushInvariant, PTL DEF Spec, GuardedRefsKept

-----------------------------------------------------------------------------
(* From the refs to the builds.                                            *)

(* The flusher's choice exists: a set of ids that is not empty has a least. *)
LEMMA MinIsMember ==
  ASSUME NEW S, S \subseteq Nat, S # {}
  PROVE  Min(S) \in S
<1> DEFINE Less == {p \in Nat \X Nat : p[1] < p[2]}
<1>1. IsWellFoundedOn(Less, Nat)
  BY NatLessThanWellFounded DEF OpToRel
<1>. HIDE DEF Less
<1>2. PICK x \in S : \A y \in S : ~(<<y, x>> \in Less)
  BY <1>1, WFMin
<1>3. ASSUME NEW y \in S PROVE x =< y
  <2>1. y < x => <<y, x>> \in Less
    BY DEF Less
  <2>2. x \in Nat /\ y \in Nat
    OBVIOUS
  <2> QED
    BY <1>2, <2>1, <2>2
<1> QED
  BY <1>3 DEF Min

-----------------------------------------------------------------------------
(* A request belongs to its caller.                                        *)
CallerFits ==
  \A h \in Handlers :
    /\ serving[h].caller \in {"hook", "flush"} => serving[h].source \in Events
    /\ serving[h].caller = "user" => serving[h].source \in Manual
    /\ serving[h].pc # "free" => serving[h].source \in Sources

Requests == [pc : {"free", "new", "loaded"}, source : Sources \cup {Nobody},
           caller : Callers, seen : Nat]

EdgeTypes ==
  /\ hook \in [Events -> HookPlaces]
  /\ spool \subseteq Events
  /\ flusher \in [pc : {"idle", "listed", "waiting"}, todo : SUBSET Events]
  /\ manual \in [Manual -> {"none", "waiting", "done", "failed"}]
  /\ serving \in [Handlers -> Requests]

DbTypes ==
  /\ recorded \subseteq Events
  /\ builds \subseteq [number : Nat, source : Sources]
  /\ counter \in Nat
  /\ latest \in Events \cup {Nobody}
  /\ tip \in Events \cup {Nobody}

LEMMA TypeOKParts == EventsTypeOK <=> EdgeTypes /\ DbTypes /\ faults \in Nat
BY DEF EventsTypeOK, EdgeTypes, DbTypes, Requests

EventsInv == EdgeTypes /\ DbTypes /\ faults \in Nat /\ CallerFits /\ SpooledUntilRecorded

(* The ways a request enters and leaves the API keep the types.            *)
LEMMA ArriveKeeps ==
  ASSUME EdgeTypes, CallerFits, NEW h \in Handlers, NEW s \in Sources,
         NEW c \in Callers, Arrive(h, s, c),
         c \in {"hook", "flush"} => s \in Events, c = "user" => s \in Manual
  PROVE  serving' \in [Handlers -> Requests] /\ CallerFits'
<1>1. [pc |-> "new", source |-> s, caller |-> c, seen |-> 0] \in Requests
  BY DEF Requests
<1> QED
  BY <1>1 DEF EdgeTypes, CallerFits, Arrive

LEMMA AbandonKeeps ==
  ASSUME EdgeTypes, CallerFits, NEW s, NEW c, Abandon(s, c)
  PROVE  serving' \in [Handlers -> Requests] /\ CallerFits'
<1>1. ASSUME NEW h \in Handlers
      PROVE  /\ serving'[h] \in Requests
             /\ serving'[h].source = serving[h].source
             /\ serving'[h].pc = serving[h].pc
             /\ serving'[h].caller \in {serving[h].caller, "gone"}
  BY DEF EdgeTypes, Requests, Callers, Abandon
<1> QED
  BY <1>1 DEF CallerFits, Abandon

LEMMA ReplyKeeps ==
  ASSUME EdgeTypes, CallerFits, NEW h \in Handlers, NEW ok \in BOOLEAN, Reply(h, ok),
         serving[h].pc # "free"
  PROVE  EdgeTypes' /\ CallerFits'
<1>1. Free \in Requests
  BY DEF Free, Requests, Callers
<1>2. serving' \in [Handlers -> Requests] /\ CallerFits'
  BY <1>1 DEF EdgeTypes, CallerFits, Reply, Free
<1>3. HookAnswer(ok) \in {"done", "failed"}
  BY DEF HookAnswer
<1>4. hook' \in [Events -> HookPlaces]
  BY <1>3 DEF EdgeTypes, CallerFits, Reply, HookPlaces
<1>5. manual' \in [Manual -> {"none", "waiting", "done", "failed"}]
  BY <1>3 DEF EdgeTypes, CallerFits, Reply
<1>6. /\ spool' \subseteq Events
      /\ flusher' \in [pc : {"idle", "listed", "waiting"}, todo : SUBSET Events]
  BY DEF EdgeTypes, Reply, FlushAnswer
<1> QED
  BY <1>2, <1>4, <1>5, <1>6 DEF EdgeTypes

(* A positive answer about an event that is recorded, or any negative      *)
(* answer, loses no event.                                                 *)
LEMMA ReplyLosesNothing ==
  ASSUME EdgeTypes, CallerFits, SpooledUntilRecorded, NEW h \in Handlers, NEW ok \in BOOLEAN,
         Reply(h, ok), recorded \subseteq recorded',
         ok /\ serving[h].source \in Events => serving[h].source \in recorded'
  PROVE  SpooledUntilRecorded'
<1> SUFFICES ASSUME NEW e \in Events, hook'[e] = "done"
             PROVE  e \in recorded' \cup spool'
  BY DEF SpooledUntilRecorded
<1>1. hook[e] = "done" => e \in recorded' \cup spool'
  <2>1. \A x \in spool : x \in spool' \/ x \in recorded'
    BY DEF Reply, FlushAnswer, CallerFits
  <2> QED
    BY <2>1 DEF SpooledUntilRecorded
<1>2. hook[e] # "done" => ok /\ serving[h].source = e
  BY DEF Reply, HookAnswer, EdgeTypes
<1> QED
  BY <1>1, <1>2

-----------------------------------------------------------------------------
(* The steps.                                                              *)

LEMMA HookStepsKeep ==
  ASSUME EventsInv, NEW e \in Events,
         Push(e) \/ HookStep(e) \/ HookFails(e) \/ HookLoses(e)
  PROVE  EventsInv'
<1> USE DEF EventsInv
<1>1. CASE Push(e)
  BY <1>1 DEF Push, EdgeTypes, DbTypes, dbVars, CallerFits, SpooledUntilRecorded, HookPlaces
<1>2. CASE HookSpools(e)
  BY <1>2 DEF HookSpools, EdgeTypes, DbTypes, dbVars, CallerFits, SpooledUntilRecorded, HookPlaces
<1>3. CASE \E h \in Handlers : HookSend(e, h)
  <2>1. PICK h \in Handlers : HookSend(e, h)
    BY <1>3
  <2>2. serving' \in [Handlers -> Requests] /\ CallerFits'
    BY <2>1, ArriveKeeps DEF HookSend, Sources, Callers
  <2> QED
    BY <2>1, <2>2 DEF HookSend, EdgeTypes, DbTypes, dbVars, SpooledUntilRecorded, HookPlaces
<1>4. CASE HookFails(e)
  <2>1. serving' \in [Handlers -> Requests] /\ CallerFits'
    BY <1>4, AbandonKeeps DEF HookFails
  <2> QED
    BY <1>4, <2>1 DEF HookFails, Spend, EdgeTypes, DbTypes, dbVars, SpooledUntilRecorded, HookPlaces
<1>5. CASE HookLoses(e)
  <2>1. serving' \in [Handlers -> Requests] /\ CallerFits'
    BY <1>5, AbandonKeeps DEF HookLoses
  <2> QED
    BY <1>5, <2>1 DEF HookLoses, Spend, EdgeTypes, DbTypes, dbVars, SpooledUntilRecorded, HookPlaces
<1> QED
  BY <1>1, <1>2, <1>3, <1>4, <1>5 DEF HookStep

LEMMA FlushStepsKeep ==
  ASSUME EventsInv, FlushStep \/ FlushFails
  PROVE  EventsInv'
<1> USE DEF EventsInv
<1>1. CASE FlushList
  BY <1>1 DEF FlushList, EdgeTypes, DbTypes, dbVars, CallerFits, SpooledUntilRecorded
<1>2. CASE FlushEnds
  BY <1>2 DEF FlushEnds, EdgeTypes, DbTypes, dbVars, CallerFits, SpooledUntilRecorded
<1>3. CASE \E h \in Handlers : FlushSend(h)
  <2>1. PICK h \in Handlers : FlushSend(h)
    BY <1>3
  <2>2. Min(flusher.todo) \in Events
    BY <2>1, MinIsMember, PushAssumption DEF FlushSend, EdgeTypes
  <2>3. serving' \in [Handlers -> Requests] /\ CallerFits'
    BY <2>1, <2>2, ArriveKeeps DEF FlushSend, Sources, Callers
  <2> QED
    BY <2>1, <2>3 DEF FlushSend, EdgeTypes, DbTypes, dbVars, SpooledUntilRecorded
<1>4. CASE FlushFails
  <2>1. serving' \in [Handlers -> Requests] /\ CallerFits'
    BY <1>4, AbandonKeeps DEF FlushFails
  <2> QED
    BY <1>4, <2>1 DEF FlushFails, Spend, EdgeTypes, DbTypes, dbVars, SpooledUntilRecorded
<1> QED
  BY <1>1, <1>2, <1>3, <1>4 DEF FlushStep

LEMMA ManualAskKeeps ==
  ASSUME EventsInv, NEW m \in Manual, NEW h \in Handlers, ManualAsk(m, h)
  PROVE  EventsInv'
<1> USE DEF EventsInv
<1>1. serving' \in [Handlers -> Requests] /\ CallerFits'
  BY ArriveKeeps DEF ManualAsk, Sources, Callers
<1> QED
  BY <1>1 DEF ManualAsk, gitVars, dbVars, EdgeTypes, DbTypes, SpooledUntilRecorded

(* The rows a request commits.                                             *)
LEMMA CreateWrites ==
  ASSUME EventsInv, NEW h \in Handlers, Create(h)
  PROVE  /\ DbTypes'
         /\ recorded \subseteq recorded'
         /\ serving[h].source \in Events => serving[h].source \in recorded'
<1>1. serving[h].source \in Sources /\ serving[h].seen \in Nat
  BY DEF EventsInv, Create, CallerFits, EdgeTypes, Requests
<1>2. Size[serving[h].source] \in Nat
  BY <1>1, PushAssumption
<1>3. First(h)..Last(h) \subseteq Nat /\ Last(h) \in Nat
  BY <1>1, <1>2 DEF First, Last
<1>4. builds' \subseteq [number : Nat, source : Sources]
  BY <1>1, <1>3 DEF Create, EventsInv, DbTypes
<1>5. counter' \in Nat
  BY <1>3 DEF Create, EventsInv, DbTypes
<1>6. latest' \in Events \cup {Nobody}
  BY PushAssumption DEF Create, EventsInv, DbTypes
<1> QED
  BY <1>4, <1>5, <1>6 DEF Create, Recorded, EventsInv, DbTypes

LEMMA RequestStepsKeep ==
  ASSUME EventsInv, NEW h \in Handlers, RequestStep(h) \/ RequestDies(h)
  PROVE  EventsInv'
<1> USE DEF EventsInv
<1>1. CASE Known(h)
  <2>1. EdgeTypes' /\ CallerFits'
    BY <1>1, ReplyKeeps DEF Known
  <2>2. SpooledUntilRecorded'
    BY <1>1, ReplyLosesNothing DEF Known, dbVars
  <2> QED
    BY <1>1, <2>1, <2>2 DEF Known, dbVars, DbTypes
<1>2. CASE Load(h)
  <2>1. serving' \in [Handlers -> Requests] /\ CallerFits'
    BY <1>2 DEF Load, EdgeTypes, DbTypes, CallerFits, Requests
  <2> QED
    BY <1>2, <2>1 DEF Load, gitVars, dbVars, EdgeTypes, DbTypes, SpooledUntilRecorded
<1>3. CASE Create(h)
  <2>1. EdgeTypes' /\ CallerFits'
    BY <1>3, ReplyKeeps DEF Create
  <2>2. SpooledUntilRecorded'
    BY <1>3, ReplyLosesNothing, CreateWrites DEF Create
  <2> QED
    BY <1>3, <2>1, <2>2, CreateWrites DEF Create
<1>4. CASE CreateFails(h)
  <2>1. EdgeTypes' /\ CallerFits'
    BY <1>4, ReplyKeeps DEF CreateFails
  <2>2. SpooledUntilRecorded'
    BY <1>4, ReplyLosesNothing DEF CreateFails, dbVars
  <2> QED
    BY <1>4, <2>1, <2>2 DEF CreateFails, dbVars, DbTypes
<1>5. CASE RequestDies(h)
  <2>1. EdgeTypes' /\ CallerFits'
    BY <1>5, ReplyKeeps DEF RequestDies
  <2>2. SpooledUntilRecorded'
    BY <1>5, ReplyLosesNothing DEF RequestDies, dbVars
  <2> QED
    BY <1>5, <2>1, <2>2 DEF RequestDies, Spend, dbVars, DbTypes
<1> QED
  BY <1>1, <1>2, <1>3, <1>4, <1>5 DEF RequestStep

LEMMA EventsInvInit == EventsInit => EventsInv
BY DEF EventsInit, EventsInv, EdgeTypes, DbTypes, CallerFits, SpooledUntilRecorded, Requests, Free,
       HookPlaces, Callers

LEMMA EventsInvNext == EventsInv /\ [EventsNext]_eventVars => EventsInv'
<1> SUFFICES ASSUME EventsInv, [EventsNext]_eventVars PROVE EventsInv'
  OBVIOUS
<1>1. CASE UNCHANGED eventVars
  BY <1>1 DEF eventVars, gitVars, dbVars, EventsInv, EdgeTypes, DbTypes, CallerFits, SpooledUntilRecorded
<1>2. CASE EventsNext
  BY <1>2, HookStepsKeep, FlushStepsKeep, ManualAskKeeps, RequestStepsKeep DEF EventsNext
<1> QED
  BY <1>1, <1>2

LEMMA EventsInductive == EventsSpec => []EventsInv
BY EventsInvInit, EventsInvNext, PTL DEF EventsSpec

(* Every reachable state of the pushes, the spool, the flusher and the     *)
(* requests is well typed.                                                 *)
THEOREM EventsTypeCorrect == EventsSpec => []EventsTypeOK
<1>1. EventsInv => EventsTypeOK
  BY TypeOKParts DEF EventsInv
<1> QED
  BY EventsInductive, <1>1, PTL

(* No time-out, crash, late answer or duplicate loses the event of a push  *)
(* whose hook came to its end: it is recorded, or its file is in the spool. *)
THEOREM NoEventLost == EventsSpec => []SpooledUntilRecorded
<1>1. EventsInv => SpooledUntilRecorded
  BY DEF EventsInv
<1> QED
  BY EventsInductive, <1>1, PTL

-----------------------------------------------------------------------------
(* The builds of the project are a ledger.                                 *)

(* The numbers in use are those up to the counter, each used once.         *)
Numbered ==
  /\ Numbers = 1..counter
  /\ \A b, c \in builds : b.number = c.number => b = c

(* A request has read a counter that was true once.                        *)
SeenBehind == \A h \in Handlers : serving[h].seen =< counter

(* A manual request is served once, and one that has its build is over.    *)
ManualOnce ==
  \A h \in Handlers :
    serving[h].pc # "free" /\ serving[h].source \in Manual =>
      /\ manual[serving[h].source] # "none"
      /\ \A b \in builds : b.source # serving[h].source
      /\ \A g \in Handlers : serving[g].pc # "free" /\ serving[g].source = serving[h].source => g = h

(* What has builds has been recorded, or asked for.                        *)
BuildsAsked ==
  \A b \in builds : /\ b.source \in Events => b.source \in recorded
                    /\ b.source \in Manual => manual[b.source] # "none"

LInv == Numbered /\ SeenBehind /\ ManualOnce /\ BuildsAsked

(* Every step but Create leaves the rows alone, and serves nothing new     *)
(* except by Arrive.                                                       *)
ServesNoMore ==
  \A h \in Handlers :
    serving'[h].pc # "free" => /\ serving[h].pc # "free"
                               /\ serving'[h].source = serving[h].source

Asked == \A m \in Manual : manual[m] # "none" => manual'[m] # "none"

LEMMA QuietStep ==
  ASSUME EventsInv, LInv, UNCHANGED <<builds, counter>>, recorded \subseteq recorded',
         Asked, ServesNoMore,
         \A h \in Handlers : serving'[h].seen \in {serving[h].seen, counter, 0}
  PROVE  LInv'
<1>1. Numbered'
  BY DEF LInv, Numbered, Numbers
<1>2. SeenBehind'
  BY DEF LInv, SeenBehind, EventsInv, DbTypes, EdgeTypes, Requests
<1>3. ManualOnce'
  BY DEF LInv, ManualOnce, Asked, ServesNoMore
<1>4. BuildsAsked'
  BY DEF LInv, BuildsAsked, Asked
<1> QED
  BY <1>1, <1>2, <1>3, <1>4 DEF LInv

LEMMA ReplyQuiet ==
  ASSUME EventsInv, NEW h \in Handlers, NEW ok \in BOOLEAN, Reply(h, ok)
  PROVE  /\ Asked /\ ServesNoMore
         /\ \A g \in Handlers : serving'[g].seen \in {serving[g].seen, 0}
<1>1. HookAnswer(ok) # "none"
  BY DEF HookAnswer
<1> QED
  BY <1>1 DEF Reply, Asked, ServesNoMore, Free, EventsInv, EdgeTypes

LEMMA AbandonQuiet ==
  ASSUME EventsInv, NEW s, NEW c, Abandon(s, c)
  PROVE  /\ ServesNoMore
         /\ \A g \in Handlers : serving'[g].seen = serving[g].seen
<1>1. ASSUME NEW h \in Handlers
      PROVE  /\ serving'[h].source = serving[h].source
             /\ serving'[h].pc = serving[h].pc
             /\ serving'[h].seen = serving[h].seen
  BY DEF EdgeTypes, Requests, Callers, Abandon, EventsInv
<1> QED
  BY <1>1 DEF ServesNoMore

(* An event that comes in: only requests of manual builds are counted.     *)
LEMMA EventArrives ==
  ASSUME EventsInv, LInv, NEW h \in Handlers, NEW e \in Events, NEW c, Arrive(h, e, c),
         UNCHANGED <<dbVars, manual>>
  PROVE  LInv'
<1>1. Numbered' /\ BuildsAsked'
  BY DEF LInv, Numbered, Numbers, BuildsAsked, dbVars
<1>2. SeenBehind'
  BY DEF LInv, SeenBehind, Arrive, EventsInv, DbTypes, EdgeTypes, dbVars
<1>3. ManualOnce'
  BY PushAssumption DEF LInv, ManualOnce, Arrive, dbVars, EventsInv, EdgeTypes
<1> QED
  BY <1>1, <1>2, <1>3 DEF LInv

LEMMA ManualArrives ==
  ASSUME EventsInv, LInv, NEW m \in Manual, NEW h \in Handlers, ManualAsk(m, h)
  PROVE  LInv'
<1>1. Numbered'
  BY DEF LInv, Numbered, Numbers, ManualAsk, dbVars
<1>2. SeenBehind'
  BY DEF LInv, SeenBehind, ManualAsk, Arrive, EventsInv, DbTypes, EdgeTypes, dbVars
<1>3. BuildsAsked'
  BY DEF LInv, BuildsAsked, ManualAsk, dbVars, EventsInv, EdgeTypes
<1>4. ManualOnce'
  BY DEF LInv, ManualOnce, BuildsAsked, ManualAsk, Arrive, dbVars, EventsInv, EdgeTypes
<1> QED
  BY <1>1, <1>2, <1>3, <1>4 DEF LInv

(* What a request may insert continues the numbers.                        *)
LEMMA CreateContinues ==
  ASSUME EventsInv, LInv, NEW h \in Handlers, Create(h)
  PROVE  /\ serving[h].source \in Sources
         /\ Size[serving[h].source] \in Nat
         /\ serving[h].seen \in Nat /\ counter \in Nat
         /\ Size[serving[h].source] > 0 => serving[h].seen = counter
<1>1. serving[h].source \in Sources /\ serving[h].seen \in Nat
  BY DEF EventsInv, Create, CallerFits, EdgeTypes, Requests
<1>2. Size[serving[h].source] \in Nat
  BY <1>1, PushAssumption
<1>3. counter \in Nat
  BY DEF EventsInv, DbTypes
<1>4. ASSUME Size[serving[h].source] > 0 PROVE serving[h].seen = counter
  <2>1. First(h) \notin Numbers
    BY <1>1, <1>2, <1>4 DEF Create, Insertable, First, Last
  <2>2. First(h) > counter
    BY <1>1, <1>3, <2>1 DEF LInv, Numbered, First
  <2> QED
    BY <1>1, <1>3, <2>2 DEF LInv, SeenBehind, First
<1> QED
  BY <1>1, <1>2, <1>3, <1>4

(* The builds of a request that creates none and of one that does.         *)
LEMMA CreateRows ==
  ASSUME EventsInv, LInv, NEW h \in Handlers, Create(h)
  PROVE  LET s == serving[h].source IN
         /\ counter' = counter + Size[s]
         /\ builds' = builds \cup [number : (counter + 1)..(counter + Size[s]), source : {s}]
<1> DEFINE s == serving[h].source
<1>1. CASE Size[s] > 0
  BY <1>1, CreateContinues DEF Create, First, Last
<1>2. CASE Size[s] = 0
  <2>1. First(h)..Last(h) = {} /\ (counter + 1)..(counter + Size[s]) = {}
    BY <1>2, CreateContinues DEF First, Last
  <2>2. [number : First(h)..Last(h), source : {s}]
          = [number : (counter + 1)..(counter + Size[s]), source : {s}]
    BY <2>1
  <2>3. builds' = builds \cup [number : (counter + 1)..(counter + Size[s]), source : {s}]
    BY <2>2, Zenon DEF Create
  <2>4. counter' = counter + Size[s]
    <3>1. ~(Size[s] > 0)
      BY <1>2
    <3>2. counter' = counter
      BY <3>1, Zenon DEF Create
    <3> QED
      BY <1>2, <3>2, CreateContinues
  <2> QED
    BY <2>3, <2>4
<1> QED
  BY <1>1, <1>2, CreateContinues

(* A source that creates builds has none so far.                           *)
LEMMA CreateOnce ==
  ASSUME EventsInv, LInv, NEW h \in Handlers, Create(h)
  PROVE  \A b \in builds : b.source # serving[h].source
<1>1. CASE serving[h].source \in Events
  BY <1>1 DEF LInv, BuildsAsked, Create, Insertable
<1>2. CASE serving[h].source \in Manual
  BY <1>2 DEF LInv, ManualOnce, Create
<1> QED
  BY <1>1, <1>2, CreateContinues DEF Sources

LEMMA CreateKeepsLInv ==
  ASSUME EventsInv, LInv, NEW h \in Handlers, Create(h)
  PROVE  LInv'
<1> DEFINE s == serving[h].source
           N == Size[s]
<1>1. s \in Sources /\ N \in Nat /\ counter \in Nat
  BY CreateContinues
<1>2. counter' = counter + N
  BY CreateRows
<1>3. ASSUME NEW b \in builds'
      PROVE  b \in builds \/ (b.number \in (counter + 1)..(counter + N) /\ b.source = s)
  BY CreateRows
<1>4. \A n \in (counter + 1)..(counter + N) : [number |-> n, source |-> s] \in builds'
  BY CreateRows
<1>5. builds \subseteq builds'
  BY CreateRows
<1>6. Asked /\ ServesNoMore
                      /\ \A g \in Handlers : serving'[g].seen \in {serving[g].seen, 0}
  BY ReplyQuiet DEF Create
<1>7. Numbers' = 1..counter'
  <2>1. Numbers' \subseteq 1..counter'
    BY <1>1, <1>2, <1>3 DEF LInv, Numbered, Numbers
  <2>2. ASSUME NEW n \in 1..counter' PROVE n \in Numbers'
    <3>1. CASE n \in 1..counter
      BY <3>1, <1>5 DEF LInv, Numbered, Numbers
    <3>2. CASE n \in (counter + 1)..(counter + N)
      <4>1. [number |-> n, source |-> s] \in builds'
        BY <3>2, <1>4
      <4> QED
        BY <4>1 DEF Numbers
    <3> QED
      BY <3>1, <3>2, <1>1, <1>2
  <2> QED
    BY <2>1, <2>2
<1>8. ASSUME NEW b \in builds', NEW c \in builds', b.number = c.number PROVE b = c
  <2>1. \A d \in builds : d.number \in 1..counter
    BY DEF LInv, Numbered, Numbers
  <2>2. b \in builds' /\ b \notin builds => b \in [number : (counter + 1)..(counter + N), source : {s}]
    BY CreateRows
  <2>3. c \in builds' /\ c \notin builds => c \in [number : (counter + 1)..(counter + N), source : {s}]
    BY CreateRows
  <2> QED
    BY <1>1, <1>8, <2>1, <2>2, <2>3 DEF LInv, Numbered
<1>9. SeenBehind'
  BY <1>1, <1>2, <1>6 DEF LInv, SeenBehind, EventsInv, EdgeTypes, Requests
<1>10. ManualOnce'
  <2> SUFFICES ASSUME NEW g \in Handlers, serving'[g].pc # "free", serving'[g].source \in Manual
               PROVE  /\ manual'[serving'[g].source] # "none"
                      /\ \A b \in builds' : b.source # serving'[g].source
                      /\ \A f \in Handlers : serving'[f].pc # "free" /\ serving'[f].source = serving'[g].source
                                              => f = g
    BY DEF ManualOnce
  <2>1. serving[g].pc # "free" /\ serving'[g].source = serving[g].source
    BY <1>6 DEF ServesNoMore
  <2>2. g # h
    BY DEF Create, Reply, Free, EventsInv, EdgeTypes
  <2>3. serving[g].source # s
    BY <2>1, <2>2 DEF LInv, ManualOnce, Create
  <2> QED
    BY <1>3, <1>6, <2>1, <2>3 DEF LInv, ManualOnce, ServesNoMore, Asked
<1>11. BuildsAsked'
  <2>1. \A b \in builds : /\ b.source \in Events => b.source \in recorded'
                          /\ b.source \in Manual => manual'[b.source] # "none"
    BY <1>6, CreateWrites DEF LInv, BuildsAsked, Asked
  <2>2. s \in Events => s \in recorded'
    BY CreateWrites
  <2>3. s \in Manual => manual'[s] # "none"
    BY <1>6 DEF LInv, ManualOnce, Create, Asked
  <2> QED
    BY <1>3, <2>1, <2>2, <2>3 DEF BuildsAsked
<1> QED
  BY <1>7, <1>8, <1>9, <1>10, <1>11 DEF LInv, Numbered

(* Steps other than Create.                                                *)
LEMMA OtherStepsKeepLInv ==
  ASSUME EventsInv, LInv, EventsNext, \A h \in Handlers : ~Create(h)
  PROVE  LInv' /\ UNCHANGED <<builds, counter>>
<1> DEFINE Quiet == /\ UNCHANGED dbVars
                    /\ Asked /\ ServesNoMore
                    /\ \A h \in Handlers : serving'[h].seen \in {serving[h].seen, counter, 0}
<1>1. ASSUME Quiet PROVE LInv' /\ UNCHANGED <<builds, counter>>
  BY <1>1, QuietStep DEF dbVars
<1>2. ASSUME NEW e \in Events, Push(e) \/ HookSpools(e) PROVE Quiet
  BY <1>2 DEF Push, HookSpools, Asked, ServesNoMore
<1>3. ASSUME NEW e \in Events, HookFails(e) \/ HookLoses(e) PROVE Quiet
  BY <1>3, AbandonQuiet DEF HookFails, HookLoses, Asked
<1>4. ASSUME NEW e \in Events, NEW h \in Handlers, HookSend(e, h)
      PROVE  LInv' /\ UNCHANGED <<builds, counter>>
  BY <1>4, EventArrives DEF HookSend, dbVars
<1>5. ASSUME FlushList \/ FlushEnds PROVE Quiet
  BY <1>5 DEF FlushList, FlushEnds, Asked, ServesNoMore
<1>6. ASSUME FlushFails PROVE Quiet
  BY <1>6, AbandonQuiet DEF FlushFails, Asked
<1>7. ASSUME NEW h \in Handlers, FlushSend(h)
      PROVE  LInv' /\ UNCHANGED <<builds, counter>>
  <2>1. Min(flusher.todo) \in Events
    BY <1>7, MinIsMember, PushAssumption DEF FlushSend, EventsInv, EdgeTypes
  <2> QED
    BY <1>7, <2>1, EventArrives DEF FlushSend, dbVars
<1>8. ASSUME NEW m \in Manual, NEW h \in Handlers, ManualAsk(m, h)
      PROVE  LInv' /\ UNCHANGED <<builds, counter>>
  BY <1>8, ManualArrives DEF ManualAsk, dbVars
<1>9. ASSUME NEW h \in Handlers, Load(h) PROVE Quiet
  BY <1>9 DEF Load, Asked, ServesNoMore, EventsInv, EdgeTypes
<1>10. ASSUME NEW h \in Handlers, Known(h) \/ CreateFails(h) \/ RequestDies(h) PROVE Quiet
  BY <1>10, ReplyQuiet DEF Known, CreateFails, RequestDies
<1> QED
  BY <1>1, <1>2, <1>3, <1>4, <1>5, <1>6, <1>7, <1>8, <1>9, <1>10
  DEF EventsNext, HookStep, FlushStep, RequestStep

LEMMA InitLInv == EventsInit => LInv
<1> SUFFICES ASSUME EventsInit PROVE LInv
  OBVIOUS
<1>1. Numbers = {} /\ 1..counter = {}
  BY DEF EventsInit, Numbers
<1> QED
  BY <1>1 DEF EventsInit, LInv, Numbered, SeenBehind, ManualOnce, BuildsAsked, Free

LEMMA NextLInv == EventsInv /\ LInv /\ [EventsNext]_eventVars => LInv'
<1> SUFFICES ASSUME EventsInv, LInv, [EventsNext]_eventVars PROVE LInv'
  OBVIOUS
<1>1. CASE UNCHANGED eventVars
  BY <1>1 DEF eventVars, dbVars, LInv, Numbered, Numbers, SeenBehind, ManualOnce, BuildsAsked
<1>2. CASE EventsNext
  BY <1>2, CreateKeepsLInv, OtherStepsKeepLInv
<1> QED
  BY <1>1, <1>2

(* The source of a number is that of the one build that has it.            *)
LEMMA SourceOfBuild ==
  ASSUME EventsInv, LInv, NEW b \in builds
  PROVE  SourceOf(b.number) = b.source
<1>1. PICK c \in builds : c.number = b.number /\ SourceOf(b.number) = c.source
  BY DEF SourceOf
<1> QED
  BY <1>1 DEF LInv, Numbered

LEMMA NumberHasBuild ==
  ASSUME EventsInv, LInv, NEW n \in 1..counter
  PROVE  \E b \in builds : b.number = n /\ SourceOf(n) = b.source
<1>1. PICK b \in builds : b.number = n
  BY DEF LInv, Numbered, Numbers
<1> QED
  BY <1>1, SourceOfBuild

LedgerOf == [n \in 1..counter |-> SourceOf(n)]

LEMMA CreateRecords ==
  ASSUME EventsInv, LInv, EventsInv', LInv', NEW h \in Handlers, Create(h)
  PROVE  Ledger!Record(serving[h].source)
<1> DEFINE s == serving[h].source
           N == Size[s]
           More == [n \in 1..N |-> s]
<1>1. s \in Sources /\ N \in Nat /\ counter \in Nat /\ counter' = counter + N
  BY CreateContinues, CreateRows
<1>2. \A n \in 1..counter : LedgerOf[n] # s
  BY NumberHasBuild, CreateOnce DEF LedgerOf
<1>3. ASSUME NEW n \in 1..counter PROVE SourceOf(n)' = SourceOf(n)
  <2>1. PICK b \in builds : b.number = n /\ SourceOf(n) = b.source
    BY NumberHasBuild
  <2>2. b \in builds'
    BY CreateRows
  <2>3. SourceOf(b.number)' = b.source
    <3>1. PICK c \in builds' : c.number = b.number /\ SourceOf(b.number)' = c.source
      BY <2>2 DEF SourceOf
    <3> QED
      BY <3>1, <2>2 DEF LInv, Numbered
  <2> QED
    BY <2>1, <2>3
<1>4. ASSUME NEW n \in (counter + 1)..(counter + N) PROVE SourceOf(n)' = s
  <2>1. [number |-> n, source |-> s] \in builds'
    BY <1>4, CreateRows
  <2>2. PICK c \in builds' : c.number = n /\ SourceOf(n)' = c.source
    BY <2>1 DEF SourceOf
  <2> QED
    BY <2>1, <2>2 DEF LInv, Numbered
<1>5. LedgerOf' = LedgerOf \o More
  <2>1. LedgerOf' = [n \in 1..(counter + N) |-> SourceOf(n)']
    BY <1>1 DEF LedgerOf
  <2>2. LedgerOf \o More = [n \in 1..(counter + N) |-> IF n =< counter THEN LedgerOf[n] ELSE More[n - counter]]
    BY <1>1 DEF LedgerOf
  <2>3. ASSUME NEW n \in 1..(counter + N)
        PROVE  SourceOf(n)' = IF n =< counter THEN LedgerOf[n] ELSE More[n - counter]
    BY <1>1, <1>3, <1>4 DEF LedgerOf
  <2> QED
    BY <2>1, <2>2, <2>3
<1> QED
  BY <1>2, <1>5 DEF Ledger!Record, LedgerOf

(* The builds of the project are a ledger: numbered from 1 without a gap,  *)
(* never renumbered, the builds of one event or request in a row, and      *)
(* created once, although every request works with a counter it read       *)
(* before it had the lock and events are sent as often as needed.          *)
THEOREM RefinesLedger == EventsSpec => LedgerSpec
<1>1. EventsInit => Ledger!Init
  BY DEF EventsInit, Ledger!Init
<1>2. EventsInv /\ LInv /\ EventsInv' /\ LInv' /\ [EventsNext]_eventVars => [Ledger!Next]_LedgerOf
  <2> SUFFICES ASSUME EventsInv, LInv, EventsInv', LInv', [EventsNext]_eventVars
               PROVE  Ledger!Next \/ LedgerOf' = LedgerOf
    OBVIOUS
  <2>1. ASSUME UNCHANGED <<builds, counter>> PROVE LedgerOf' = LedgerOf
    BY <2>1 DEF LedgerOf, SourceOf
  <2>2. ASSUME NEW h \in Handlers, Create(h) PROVE Ledger!Next
    BY <2>2, CreateRecords, CreateContinues DEF Ledger!Next
  <2>3. CASE UNCHANGED eventVars
    BY <2>1, <2>3 DEF eventVars, dbVars
  <2>4. CASE EventsNext
    BY <2>1, <2>2, <2>4, OtherStepsKeepLInv
  <2> QED
    BY <2>3, <2>4
<1> QED
  BY <1>1, <1>2, EventsInvInit, EventsInvNext, InitLInv, NextLInv, PTL
  DEF EventsSpec, LedgerSpec, Ledger!Spec, LedgerOf
=============================================================================
