----------------------------- MODULE ProjectLife -----------------------------
(***************************************************************************)
(* The life of projects: creation, the default branch, archiving,          *)
(* deletion, and the package name a project releases under.                *)
(*                                                                         *)
(* A project is a row in PostgreSQL and a bare repository on disk, and no  *)
(* transaction spans the two: the repository is made, pointed at another   *)
(* branch or moved away before the row is committed.  A handler may fail   *)
(* or die between any two of these steps.                                  *)
(***************************************************************************)
EXTENDS Naturals, FiniteSets

CONSTANTS
  Handlers,    (* bound: requests at the same time                         *)
  Paths,       (* group/slug                                               *)
  Names,       (* package names                                            *)
  Branches, Main,
  MaxProjects, (* bound: projects created                                  *)
  MaxFaults    (* bound: commits and git commands that fail, crashes       *)

ASSUME ProjectLifeAssumption ==
  /\ Main \in Branches /\ IsFiniteSet(Handlers)
  /\ MaxProjects \in Nat /\ MaxFaults \in Nat

Ids == 1 .. MaxProjects
Nobody == 0
NoPath == "none"
NoName == "none"

VARIABLES
  created,  (* projects whose row was inserted, committed or not           *)
  row,      (* projects, as committed                                      *)
  disk,     (* the repository of each path: toolhub.projectid and HEAD     *)
  building, (* projects with a release build in progress                   *)
  released, (* package_versions: names and the project that released them  *)
  req,      (* the request of each handler                                 *)
  shared,   (* history: names of a project that had released nothing and   *)
            (* was archived, when or while another was created under it    *)
  stale,    (* history: projects updated twice at once, by an update that  *)
            (* failed after it moved HEAD, or whose HEAD was moved by an   *)
            (* update of the deleted project that was at its path          *)
  stray,    (* history: paths where a step that failed, or a second        *)
            (* deletion of the same project, left disk and row apart       *)
  faults

vars == <<created, row, disk, building, released, req, shared, stale, stray, faults>>

NoRow == [state |-> "none", path |-> NoPath, name |-> NoName, branch |-> Main, archived |-> FALSE]
NoRepository == [id |-> Nobody, head |-> Main]
Idle == [stage |-> "idle", id |-> Nobody, path |-> NoPath, name |-> NoName,
         branch |-> Main, old |-> Main]

Init ==
  /\ created = 0
  /\ row = [i \in Ids |-> NoRow]
  /\ disk = [p \in Paths |-> NoRepository]
  /\ building = {} /\ released = {}
  /\ req = [h \in Handlers |-> Idle]
  /\ shared = {} /\ stale = {} /\ stray = {}
  /\ faults = 0

Spend == faults < MaxFaults /\ faults' = faults + 1
Go(h, r) == req' = [req EXCEPT ![h] = r]
Close(h) == Go(h, Idle)

Rows == {i \in Ids : row[i].state = "live"}
Active == {i \in Rows : ~row[i].archived}
Owners(n) == {i \in Ids : <<n, i>> \in released}

(* Rows inserted and not committed hold their unique keys.                 *)
Inserting == {h \in Handlers : req[h].stage \in {"inserted", "made"}}

(* The request of h is an update of project i.                             *)
Updates(h, i) == req[h].stage \in {"updating", "moved"} /\ req[h].id = i

-----------------------------------------------------------------------------
(* create_project.                                                         *)
(* Mutants: the name is not looked up; an existing directory is reused.    *)
AnyName(n) == TRUE
Reused(p) == TRUE

NameFree(n) == (\A i \in Active : row[i].name # n) /\ Owners(n) = {}

Create(h, p, n) ==
  /\ req[h] = Idle
  /\ created + Cardinality({g \in Handlers : req[g].stage = "checked"}) < MaxProjects
  /\ NameFree(n)
  /\ Go(h, [Idle EXCEPT !.stage = "checked", !.path = p, !.name = n])
  /\ shared' = IF \E i \in Rows \ Owners(n) : row[i].name = n THEN shared \cup {n} ELSE shared
  /\ UNCHANGED <<created, row, disk, building, released, stale, stray, faults>>

(* uq_projects_group_slug and ux_projects_package_name_active.             *)
KeysFree(p, n) ==
  /\ \A i \in Rows : row[i].path # p
  /\ \A i \in Active : row[i].name # n

(* The insert waits for another of the same key; a taken key refuses it.   *)
Insert(h) ==
  LET p == req[h].path n == req[h].name IN
  /\ req[h].stage = "checked"
  /\ \A g \in Inserting : req[g].path # p /\ req[g].name # n
  /\ IF KeysFree(p, n)
     THEN created' = created + 1 /\ Go(h, [req[h] EXCEPT !.stage = "inserted", !.id = created'])
     ELSE Close(h) /\ UNCHANGED created
  /\ UNCHANGED <<row, disk, building, released, shared, stale, stray, faults>>

(* REPOSITORY_EXISTS: whatever is on disk is not touched.                  *)
PathClear(p) == disk[p].id = Nobody

MakeRepository(h) ==
  LET p == req[h].path IN
  /\ req[h].stage = "inserted"
  /\ IF PathClear(p)
     THEN /\ disk' = [disk EXCEPT ![p] = [id |-> IF @.id = Nobody THEN req[h].id ELSE @.id, head |-> Main]]
          /\ Go(h, [req[h] EXCEPT !.stage = "made"])
     ELSE Close(h) /\ UNCHANGED disk
  /\ UNCHANGED <<created, row, building, released, shared, stale, stray, faults>>

(* git init or git config fails, outside the try: what it left stays.      *)
MakeFails(h) ==
  LET p == req[h].path IN
  /\ req[h].stage = "inserted"
  /\ PathClear(p)
  /\ Spend
  /\ disk' = [disk EXCEPT ![p].id = req[h].id]
  /\ stray' = stray \cup {p}
  /\ Close(h)
  /\ UNCHANGED <<created, row, building, released, shared, stale>>

CommitCreate(h) ==
  LET r == req[h] IN
  /\ r.stage = "made"
  /\ row' = [row EXCEPT ![r.id] = [state |-> "live", path |-> r.path, name |-> r.name,
                                   branch |-> Main, archived |-> FALSE]]
  /\ Close(h)
  /\ UNCHANGED <<created, disk, building, released, shared, stale, stray, faults>>

(* The commit fails: the row is rolled back, and its keys are free, before *)
(* the repository is removed.                                              *)
CreateFails(h) ==
  /\ req[h].stage = "made"
  /\ Spend
  /\ Go(h, [req[h] EXCEPT !.stage = "removing"])
  /\ UNCHANGED <<created, row, disk, building, released, shared, stale, stray>>

RemoveRepository(h) ==
  /\ req[h].stage = "removing"
  /\ disk' = [disk EXCEPT ![req[h].path] = NoRepository]
  /\ Close(h)
  /\ UNCHANGED <<created, row, building, released, shared, stale, stray, faults>>

-----------------------------------------------------------------------------
(* update_project with a default_branch, the one the row has included: the *)
(* row is read, HEAD moves, the row is written, and other requests commit  *)
(* in between.  Two updates of a project at once may leave row and HEAD    *)
(* apart.                                                                  *)
Update(h, i, b) ==
  /\ req[h] = Idle
  /\ i \in Active
  /\ Go(h, [stage |-> "updating", id |-> i, path |-> row[i].path, name |-> NoName,
            branch |-> b, old |-> row[i].branch])
  /\ stale' = IF \E g \in Handlers : Updates(g, i) THEN stale \cup {i} ELSE stale
  /\ UNCHANGED <<created, row, disk, building, released, shared, stray, faults>>

(* git symbolic-ref on whatever repository is at the path by now; without  *)
(* a directory the request fails.                                          *)
MoveHead(h) ==
  LET r == req[h] found == disk[r.path].id IN
  /\ r.stage = "updating"
  /\ IF found = Nobody
     THEN Close(h) /\ UNCHANGED <<disk, stale>>
     ELSE /\ disk' = [disk EXCEPT ![r.path].head = r.branch]
          /\ Go(h, [r EXCEPT !.stage = "moved"])
          /\ stale' = IF found = r.id THEN stale ELSE stale \cup {found}
  /\ UNCHANGED <<created, row, building, released, shared, stray, faults>>

(* The session writes the column only if it differs from what was read; a  *)
(* row deleted meanwhile is not written.                                   *)
CommitUpdate(h) ==
  LET r == req[h] IN
  /\ r.stage = "moved"
  /\ row' = IF r.id \in Rows /\ r.branch # r.old
            THEN [row EXCEPT ![r.id].branch = r.branch] ELSE row
  /\ Close(h)
  /\ UNCHANGED <<created, disk, building, released, shared, stale, stray, faults>>

(* archive_project, unarchive_project: one column, one commit; the insert  *)
(* of a project of the same name is waited for.                            *)
Archive(i) ==
  /\ i \in Active
  /\ row' = [row EXCEPT ![i].archived = TRUE]
  /\ shared' = IF \E h \in Handlers : req[h].stage = "checked" /\ req[h].name = row[i].name
               THEN shared \cup {row[i].name} ELSE shared
  /\ UNCHANGED <<created, disk, building, released, req, stale, stray, faults>>

Unarchive(i) ==
  /\ i \in Rows \ Active
  /\ \A j \in Active : row[j].name # row[i].name
  /\ \A g \in Inserting : req[g].name # row[i].name
  /\ row' = [row EXCEPT ![i].archived = FALSE]
  /\ UNCHANGED <<created, disk, building, released, req, shared, stale, stray, faults>>

-----------------------------------------------------------------------------
(* delete_project: an archived project that released nothing.              *)
(* Mutant: the foreign key lets the project go.                            *)
SetsNull(i) == FALSE
Restricts(i) == \E n \in Names : i \in Owners(n)
Deletable(i) == row[i].archived /\ \A n \in Names : i \notin Owners(n)

Delete(h, i) ==
  /\ req[h] = Idle
  /\ i \in Rows
  /\ Deletable(i)
  /\ Go(h, [Idle EXCEPT !.stage = "deleting", !.id = i, !.path = row[i].path])
  /\ stray' = IF \E g \in Handlers : req[g].stage \in {"deleting", "trashed"} /\ req[g].id = i
              THEN stray \cup {row[i].path} ELSE stray
  /\ UNCHANGED <<created, row, disk, building, released, shared, stale, faults>>

MoveToTrash(h) ==
  /\ req[h].stage = "deleting"
  /\ disk' = [disk EXCEPT ![req[h].path] = NoRepository]
  /\ Go(h, [req[h] EXCEPT !.stage = "trashed"])
  /\ UNCHANGED <<created, row, building, released, shared, stale, stray, faults>>

(* Builds go with the project; a version released meanwhile forbids it     *)
(* (ondelete RESTRICT), and the repository stays in the trash.             *)
CommitDelete(h) ==
  LET i == req[h].id IN
  /\ req[h].stage = "trashed"
  /\ ~Restricts(i)
  /\ row' = [row EXCEPT ![i].state = "deleted"]
  /\ building' = building \ {i}
  /\ Close(h)
  /\ UNCHANGED <<created, disk, released, shared, stale, stray, faults>>

DeleteRefused(h) ==
  LET i == req[h].id IN
  /\ req[h].stage = "trashed"
  /\ Restricts(i)
  /\ stray' = stray \cup {row[i].path}
  /\ Close(h)
  /\ UNCHANGED <<created, row, disk, building, released, shared, stale, faults>>

-----------------------------------------------------------------------------
(* The rest of the system, as far as it matters here: a release build      *)
(* starts while its project is active and publishes whenever it ends.      *)
StartBuild(i) ==
  /\ i \in Active \ building
  /\ building' = building \cup {i}
  /\ UNCHANGED <<created, row, disk, released, req, shared, stale, stray, faults>>

Release(i) ==
  /\ i \in building
  /\ released' = released \cup {<<row[i].name, i>>}
  /\ building' = building \ {i}
  /\ UNCHANGED <<created, row, disk, req, shared, stale, stray, faults>>

(* A handler dies, or its commit fails where nothing is undone.            *)
Die(h) ==
  LET r == req[h] IN
  /\ r.stage \in {"made", "removing", "updating", "moved", "trashed"}
  /\ Spend
  /\ Close(h)
  /\ stale' = IF r.stage = "moved" THEN stale \cup {r.id} ELSE stale
  /\ stray' = IF r.stage \in {"updating", "moved"} THEN stray ELSE stray \cup {r.path}
  /\ UNCHANGED <<created, row, disk, building, released, shared>>

Next ==
  \/ \E h \in Handlers :
       \/ \E p \in Paths, n \in Names : Create(h, p, n)
       \/ Insert(h) \/ MakeRepository(h) \/ MakeFails(h) \/ CommitCreate(h) \/ CreateFails(h)
       \/ RemoveRepository(h) \/ MoveHead(h) \/ CommitUpdate(h) \/ MoveToTrash(h) \/ CommitDelete(h)
       \/ DeleteRefused(h) \/ Die(h)
  \/ \E h \in Handlers, i \in Ids : Delete(h, i) \/ \E b \in Branches : Update(h, i, b)
  \/ \E i \in Ids : Archive(i) \/ Unarchive(i) \/ StartBuild(i) \/ Release(i)

Spec == Init /\ [][Next]_vars

-----------------------------------------------------------------------------
(* The project whose permission a package page asks: one that released     *)
(* under the name, whichever comes first, or else one named so, an active  *)
(* one before an archived one.                                             *)
project_for_package(n) ==
  LET named == {i \in Rows : row[i].name = n} IN
  IF Owners(n) # {} THEN Owners(n)
  ELSE IF named \cap Active # {} THEN named \cap Active ELSE named

(* Types; a committed project was created, a build in progress has its     *)
(* project.                                                                *)
TypeOK ==
  /\ created \in 0 .. MaxProjects
  /\ row \in [Ids -> [state : {"none", "live", "deleted"}, path : Paths \cup {NoPath},
                      name : Names \cup {NoName}, branch : Branches, archived : BOOLEAN]]
  /\ disk \in [Paths -> [id : Ids \cup {Nobody}, head : Branches]]
  /\ building \subseteq Rows
  /\ released \subseteq Names \X Rows
  /\ \A h \in Handlers : req[h].id \in 0 .. created
  /\ shared \subseteq Names /\ stale \subseteq Ids /\ stray \subseteq Paths
  /\ faults \in 0 .. MaxFaults

Busy == {req[h].path : h \in Handlers}

(* No project ever works in the repository of another, whatever failed: a  *)
(* path is refused while a directory is there (git_service.py:89-90).      *)
NoneShared == \A i \in Rows : disk[row[i].path].id \in {i, Nobody}

(* Between requests every project has its repository and every repository  *)
(* its project, unless a step between disk and database failed there or a  *)
(* project was deleted twice at once: the later deletion moves away what   *)
(* was created at the path meanwhile (project_service.py:82-88,            *)
(* projects.py:67-76 and 144-148).                                         *)
NoneAlone ==
  \A p \in Paths \ (Busy \cup stray) :
    {i \in Rows : row[i].path = p} = {disk[p].id} \ {Nobody}

(* HEAD of the repository is the default branch of the row, unless two     *)
(* updates overlapped, one failed after it moved HEAD, or one that had     *)
(* read a project since deleted moved the HEAD of its successor at the     *)
(* path (projects.py:95-106).                                              *)
HeadsAgree ==
  \A i \in Rows \ stale :
    (row[i].path \notin Busy \cup stray) => disk[row[i].path].head = row[i].branch

(* Rows and repositories belong together, whatever requests overlap, fail  *)
(* or die, in these three ways (create, update and delete of a project).   *)
RepositoriesMatch == NoneShared /\ NoneAlone /\ HeadsAgree

(* A package is read with the permission of one project, the one that      *)
(* releases it, unless a second project was created beside an archived     *)
(* project of the name that had not released: the two lookups of           *)
(* create_project, the index on active names and unarchive leave no other  *)
(* way to two candidates, of which the page takes any                      *)
(* (package_service.py:185-193, project_service.py:65-71,                  *)
(* db/models/__init__.py:139, projects.py:124-129).                        *)
OneProjectUnlessShared ==
  \A n \in Names \ shared : Cardinality(project_for_package(n)) <= 1
=============================================================================
