-------------------------- MODULE ProjectLifeProofs --------------------------
(***************************************************************************)
(* What ProjectLife guarantees for any number of requests, paths, names    *)
(* and projects, and any number of failures.                               *)
(***************************************************************************)
EXTENDS ProjectLife, FiniteSetTheorems, TLAPS

Creating == {"inserted", "made", "removing"}
Deleting == {"deleting", "trashed"}
Stages == {"idle", "checked", "updating", "moved"} \cup Creating \cup Deleting
Request == [stage : Stages, id : 0 .. MaxProjects, path : Paths \cup {NoPath},
            name : Names \cup {NoName}, branch : Branches, old : Branches]

(* A request has what its stage needs: a new project has no row yet, one   *)
(* that is updated or deleted has, or had, the row it was read from.       *)
Fit(r) ==
  /\ r \in Request
  /\ r.stage # "idle" => r.path \in Paths
  /\ r.stage \in {"checked", "inserted", "made"} => r.name \in Names
  /\ r.stage \in Creating \cup Deleting \cup {"updating", "moved"} => r.id \in 1 .. created
  /\ r.stage \in Creating => row[r.id].state = "none"
  /\ r.stage \in Deleting \cup {"updating", "moved"} =>
       row[r.id].state \in {"live", "deleted"} /\ row[r.id].path = r.path
  /\ r.stage \in {"idle", "checked"} => r.id = Nobody
RequestsFit == req \in [Handlers -> Request] /\ \A h \in Handlers : Fit(req[h])

Row == [state : {"none", "live", "deleted"}, path : Paths \cup {NoPath},
        name : Names \cup {NoName}, branch : Branches, archived : BOOLEAN]
TablesFit ==
  /\ created \in 0 .. MaxProjects
  /\ row \in [Ids -> Row]
  /\ \A i \in Ids : row[i].state # "none" => i <= created /\ row[i].path \in Paths /\ row[i].name \in Names
  /\ disk \in [Paths -> [id : Ids \cup {Nobody}, head : Branches]]
  /\ building \subseteq Rows
  /\ released \subseteq Names \X Rows
  /\ \A n \in Names, i \in Ids : <<n, i>> \in released => row[i].name = n
  /\ shared \subseteq Names /\ stale \subseteq Ids /\ stray \subseteq Paths
  /\ faults \in 0 .. MaxFaults

Checked == {h \in Handlers : req[h].stage = "checked"}
Room == created + Cardinality(Checked) <= MaxProjects

(* The unique keys of rows, committed or not.                              *)
KeysDiffer ==
  /\ \A h, k \in Handlers : req[h].stage \in Creating /\ req[k].stage \in Creating /\ req[h].id = req[k].id => h = k
  /\ \A h, k \in Inserting : req[h].path = req[k].path \/ req[h].name = req[k].name => h = k
  /\ \A h \in Inserting, i \in Rows :
       row[i].path # req[h].path /\ (~row[i].archived => row[i].name # req[h].name)
  /\ \A i, j \in Rows : row[i].path = row[j].path => i = j
  /\ \A i, j \in Active : row[i].name = row[j].name => i = j

(* A repository that was made belongs to the project at the path.          *)
MadeOwn == \A h \in Handlers : req[h].stage = "made" => disk[req[h].path].id \in {req[h].id, Nobody}

LiveAt(p) == {i \in Rows : row[i].path = p}
At(h, stages, p) == req[h].stage \in stages /\ req[h].path = p

(* A path without failures: what disk and database hold there, given the   *)
(* requests at work.                                                       *)
PathOrderly(p) ==
  /\ (\A h \in Handlers : ~At(h, {"made", "removing", "trashed"}, p)) => LiveAt(p) = {disk[p].id} \ {Nobody}
  /\ \A h \in Handlers :
       /\ At(h, {"made", "removing"}, p) => disk[p].id = req[h].id /\ LiveAt(p) = {}
       /\ At(h, {"made"}, p) /\ req[h].id \notin stale => disk[p].head = Main
       /\ At(h, {"trashed"}, p) => disk[p].id = Nobody
       /\ At(h, Deleting, p) => row[req[h].id].state = "live"
       /\ \A k \in Handlers : At(h, Deleting, p) /\ At(k, Deleting, p) => h = k
Orderly == \A p \in Paths \ stray : PathOrderly(p)

(* HEAD is the branch of the row, as its only update under way read it, or *)
(* the one that update brings.                                             *)
Moved(h, i) == Updates(h, i) /\ req[h].stage = "moved"
HeadFits(i) ==
  /\ \A h, k \in Handlers : Updates(h, i) /\ Updates(k, i) => h = k
  /\ \A h \in Handlers : Updates(h, i) => req[h].old = row[i].branch
  /\ \A h \in Handlers : Moved(h, i) => disk[row[i].path].head = req[h].branch
  /\ (\A h \in Handlers : ~Moved(h, i)) => disk[row[i].path].head = row[i].branch
HeadsFit == \A i \in Rows \ stale :
  (row[i].path \notin stray /\ disk[row[i].path].id = i) => HeadFits(i)

(* A name that is not shared: one project at most, and none while another  *)
(* is checked to be created beside it, unless it is active.                *)
NameSingle(n) ==
  /\ \A i, j \in Rows : row[i].name = n /\ row[j].name = n => i = j
  /\ \A h \in Inserting, i \in Rows : req[h].name = n => row[i].name # n
  /\ \A h \in Checked, i \in Rows : req[h].name = n /\ row[i].name = n => ~row[i].archived
NamesSingle == \A n \in Names \ shared : NameSingle(n)

IInv == TablesFit /\ RequestsFit /\ Room /\ KeysDiffer /\ MadeOwn /\ NoneShared /\ Orderly /\ HeadsFit /\ NamesSingle
-----------------------------------------------------------------------------
LEMMA IdleFits == Idle \in Request /\ Fit(Idle) /\ Idle.stage = "idle"
<1>1. Idle \in Request /\ Idle.stage = "idle" /\ Idle.id = Nobody
  BY ProjectLifeAssumption DEF Idle, Request, Stages, Nobody
<1> QED
  BY <1>1 DEF Fit, Creating, Deleting

LEMMA InitHolds == Init => IInv
<1> SUFFICES ASSUME Init PROVE IInv
  OBVIOUS
<1>1. /\ \A h \in Handlers : req[h] = Idle
      /\ \A i \in Ids : row[i] = NoRow
      /\ \A p \in Paths : disk[p] = NoRepository
  BY DEF Init
<1>2. Rows = {} /\ Active = {} /\ Inserting = {} /\ Checked = {}
  BY <1>1 DEF Rows, Active, Inserting, Checked, NoRow, Idle
<1>3. Idle.stage = "idle" /\ NoRow.state = "none" /\ NoRepository.id = Nobody
  BY DEF Idle, NoRow, NoRepository
<1>4. RequestsFit
  <2>1. created = 0
    BY DEF Init
  <2>2. Fit(Idle)
    BY <2>1, IdleFits DEF Fit, Creating, Deleting
  <2> QED
    BY <1>1, <2>2, IdleFits DEF RequestsFit, Init
<1>5. TablesFit
  <2>1. NoRow \in Row /\ NoRepository \in [id : Ids \cup {Nobody}, head : Branches]
    BY ProjectLifeAssumption DEF NoRow, Row, NoRepository
  <2>2. row \in [Ids -> Row] /\ disk \in [Paths -> [id : Ids \cup {Nobody}, head : Branches]]
    BY <2>1 DEF Init
  <2> QED
    BY <1>1, <1>3, <2>2, ProjectLifeAssumption DEF Init, TablesFit
<1>6. Room
  BY <1>2, FS_EmptySet, ProjectLifeAssumption DEF Room, Init
<1>7. KeysDiffer /\ MadeOwn /\ NoneShared /\ HeadsFit /\ NamesSingle
  BY <1>1, <1>2, <1>3 DEF KeysDiffer, MadeOwn, NoneShared, HeadsFit, NamesSingle, NameSingle, Creating
<1>8. Orderly
  BY <1>1, <1>2, <1>3 DEF Orderly, PathOrderly, At, LiveAt, Deleting
<1> QED
  BY <1>4, <1>5, <1>6, <1>7, <1>8 DEF IInv
-----------------------------------------------------------------------------
(* The requests that are checked, counted.                                 *)
LEMMA CheckedCount ==
  /\ IsFiniteSet(Checked) /\ Cardinality(Checked) \in Nat
<1>1. Checked \subseteq Handlers
  BY DEF Checked
<1> QED
  BY <1>1, ProjectLifeAssumption, FS_Subset, FS_CardinalityType

LEMMA CountShrinks ==
  ASSUME Room, created \in Nat, created' = created, Checked' \subseteq Checked
  PROVE  Room'
<1>1. Cardinality(Checked') <= Cardinality(Checked) /\ IsFiniteSet(Checked')
  BY CheckedCount, FS_Subset
<1>2. Cardinality(Checked') \in Nat
  BY <1>1, FS_CardinalityType
<1> QED
  BY <1>1, <1>2, CheckedCount, ProjectLifeAssumption DEF Room

(* A request that ends, with whatever its end leaves on record.            *)
LEMMA CloseKeeps ==
  ASSUME IInv, NEW h \in Handlers, Close(h),
         UNCHANGED <<created, row, disk, building, released, shared>>, faults' \in 0 .. MaxFaults,
         stray \subseteq stray', stray' \subseteq Paths, stale \subseteq stale', stale' \subseteq Ids,
         req[h].stage \in {"made", "removing", "trashed"} => req[h].path \in stray',
         req[h].stage = "moved" => req[h].id \in stale'
  PROVE  IInv'
<1>1. req'[h] = Idle /\ req' \in [Handlers -> Request] /\ \A k \in Handlers : k # h => req'[k] = req[k]
  BY IdleFits DEF Close, Go, IInv, RequestsFit
<1>2. TablesFit' /\ NoneShared'
  BY DEF IInv, TablesFit, NoneShared, Rows
<1>3. RequestsFit'
  <2>1. \A k \in Handlers : req'[k] = Idle \/ req'[k] = req[k]
    BY <1>1
  <2>2. Fit(Idle)'
    BY IdleFits DEF Fit
  <2>3. ASSUME NEW k \in Handlers PROVE Fit(req[k]) /\ Fit(Idle)
    BY IdleFits DEF IInv, RequestsFit
  <2> QED
    BY <1>1, <2>1, <2>2, <2>3 DEF RequestsFit, Fit
<1>4. Room'
  <2>1. Checked' \subseteq Checked
    BY <1>1, IdleFits DEF Checked
  <2> QED
    BY <2>1, CountShrinks DEF IInv, TablesFit
<1>5. KeysDiffer' /\ MadeOwn'
  BY <1>1, IdleFits DEF IInv, KeysDiffer, MadeOwn, Inserting, Rows, Active, Creating
<1>6. NamesSingle'
  BY <1>1, IdleFits DEF IInv, NamesSingle, NameSingle, Inserting, Checked, Rows
<1>7. Orderly'
  <2> SUFFICES ASSUME NEW p \in Paths \ stray' PROVE PathOrderly(p)'
    BY DEF Orderly
  <2>1. PathOrderly(p) /\ ~At(h, {"made", "removing", "trashed"}, p)
    BY DEF IInv, Orderly, At
  <2> QED
    BY <1>1, <2>1, IdleFits DEF PathOrderly, At, LiveAt, Rows, Deleting
<1>8. HeadsFit'
  <2> SUFFICES ASSUME NEW i \in Rows \ stale', row[i].path \notin stray', disk[row[i].path].id = i
               PROVE  HeadFits(i)'
    BY DEF HeadsFit, Rows
  <2>1. HeadFits(i) /\ ~Moved(h, i)
    BY DEF IInv, HeadsFit, Moved, Updates
  <2> QED
    BY <1>1, <2>1, IdleFits DEF HeadFits, Moved, Updates
<1> QED
  BY <1>2, <1>3, <1>4, <1>5, <1>6, <1>7, <1>8 DEF IInv
-----------------------------------------------------------------------------
LEMMA CreateKeeps ==
  ASSUME IInv, NEW h \in Handlers, NEW p \in Paths, NEW n \in Names, Create(h, p, n)
  PROVE  IInv'
<1> DEFINE r == [Idle EXCEPT !.stage = "checked", !.path = p, !.name = n]
<1>1. /\ UNCHANGED <<created, row, disk, building, released, stale, stray, faults>>
      /\ req[h].stage = "idle" /\ req' = [req EXCEPT ![h] = r]
      /\ shared \subseteq shared' /\ shared' \subseteq shared \cup {n}
  BY IdleFits DEF Create, Go
<1>2. r \in Request /\ r.stage = "checked" /\ r.path = p /\ r.name = n /\ r.id = Nobody
  BY IdleFits DEF Request, Stages, Fit
<1> HIDE DEF r
<1>3. req'[h] = r /\ \A k \in Handlers : k # h => req'[k] = req[k]
  BY <1>1 DEF IInv, RequestsFit
<1>4. TablesFit' /\ NoneShared'
  BY <1>1 DEF IInv, TablesFit, NoneShared, Rows
<1>5. RequestsFit'
  BY <1>1, <1>2, <1>3 DEF IInv, RequestsFit, Fit, Creating, Deleting
<1>6. Room'
  <2>1. Checked' = Checked \cup {h} /\ h \notin Checked
    BY <1>1, <1>2, <1>3 DEF Checked
  <2>2. Cardinality(Checked') = Cardinality(Checked) + 1
    BY <2>1, CheckedCount, FS_AddElement
  <2>3. created + Cardinality(Checked) < MaxProjects
    BY DEF Create, Checked
  <2> QED
    BY <1>1, <2>2, <2>3, CheckedCount, ProjectLifeAssumption DEF Room, IInv, TablesFit
<1>7. KeysDiffer' /\ MadeOwn'
  BY <1>1, <1>2, <1>3 DEF IInv, KeysDiffer, MadeOwn, Inserting, Rows, Active, Creating
<1>8. Orderly'
  BY <1>1, <1>2, <1>3 DEF IInv, Orderly, PathOrderly, At, LiveAt, Rows, Deleting
<1>9. HeadsFit'
  BY <1>1, <1>2, <1>3 DEF IInv, HeadsFit, HeadFits, Moved, Updates, Rows
<1>10. NamesSingle'
  <2> SUFFICES ASSUME NEW m \in Names \ shared' PROVE NameSingle(m)'
    BY DEF NamesSingle
  <2>1. NameSingle(m)
    BY <1>1 DEF IInv, NamesSingle
  <2>2. m = n => ~\E i \in Rows : row[i].name = m
    BY DEF Create, NameFree, Owners
  <2> QED
    BY <1>1, <1>2, <1>3, <2>1, <2>2 DEF NameSingle, Inserting, Checked, Rows
<1> QED
  BY <1>4, <1>5, <1>6, <1>7, <1>8, <1>9, <1>10 DEF IInv

LEMMA InsertKeeps ==
  ASSUME IInv, NEW h \in Handlers, Insert(h)
  PROVE  IInv'
<1> DEFINE p == req[h].path
           n == req[h].name
           r == [req[h] EXCEPT !.stage = "inserted", !.id = created']
<1>1. /\ UNCHANGED <<row, disk, building, released, shared, stale, stray, faults>>
      /\ req[h].stage = "checked" /\ Fit(req[h]) /\ req[h] \in Request
      /\ \A g \in Inserting : req[g].path # p /\ req[g].name # n
  BY DEF Insert, IInv, RequestsFit
<1>2. CASE Close(h) /\ created' = created
  BY <1>1, <1>2, CloseKeeps DEF IInv, TablesFit
<1>3. CASE KeysFree(p, n) /\ created' = created + 1 /\ req' = [req EXCEPT ![h] = r]
  <2>1. /\ created + 1 <= MaxProjects /\ created \in Nat /\ created' \in Ids
        /\ Cardinality(Checked) = Cardinality(Checked \ {h}) + 1 /\ Cardinality(Checked \ {h}) \in Nat
    <3>1. h \in Checked
      BY <1>1 DEF Checked
    <3>2. Cardinality(Checked \ {h}) = Cardinality(Checked) - 1 /\ IsFiniteSet(Checked \ {h})
      BY <3>1, CheckedCount, FS_RemoveElement
    <3>3. Cardinality(Checked \ {h}) \in Nat
      BY <3>2, FS_CardinalityType
    <3>4. created \in Nat /\ created + Cardinality(Checked) <= MaxProjects
      BY ProjectLifeAssumption DEF IInv, TablesFit, Room
    <3>5. Cardinality(Checked) = Cardinality(Checked \ {h}) + 1
      BY <3>2, <3>3, CheckedCount
    <3> QED
      BY <1>3, <3>3, <3>4, <3>5, ProjectLifeAssumption DEF Ids
  <2>2. r \in Request /\ r.stage = "inserted" /\ r.path = p /\ r.name = n /\ r.id = created'
    <3>1. created' \in 0 .. MaxProjects /\ "inserted" \in Stages
      BY <2>1 DEF Ids, Stages, Creating
    <3> QED
      BY <1>1, <3>1 DEF Request
  <2> HIDE DEF r
  <2>3. req'[h] = r /\ \A k \in Handlers : k # h => req'[k] = req[k]
    BY <1>3 DEF IInv, RequestsFit
  <2>4. TablesFit' /\ NoneShared'
    BY <1>1, <1>3, <2>1, ProjectLifeAssumption DEF IInv, TablesFit, NoneShared, Rows, Ids
  <2>5. row[created'].state = "none"
    BY <1>3, <2>1 DEF IInv, TablesFit, Row, Ids
  <2>6. RequestsFit'
    <3>1. ASSUME NEW k \in Handlers, k # h PROVE Fit(req[k])'
      <4>1. Fit(req[k]) /\ req'[k] = req[k]
        BY <2>3, <3>1 DEF IInv, RequestsFit
      <4>2. req[k].id \in 1 .. created => req[k].id \in 1 .. created'
        BY <1>3, <2>1
      <4> QED
        BY <1>1, <4>1, <4>2 DEF Fit
    <3>2. Fit(req[h])'
      BY <1>1, <2>1, <2>2, <2>3, <2>5 DEF Fit, Creating, Deleting, Ids
    <3> QED
      BY <1>3, <2>2, <3>1, <3>2 DEF IInv, RequestsFit
  <2>7. Room'
    <3>1. Checked' = Checked \ {h}
      BY <2>2, <2>3 DEF Checked
    <3> QED
      BY <1>3, <2>1, <3>1, ProjectLifeAssumption DEF Room, IInv
  <2>8. \A k \in Handlers : req[k].stage \in Creating => req[k].id # created'
    BY <1>3, <2>1 DEF IInv, RequestsFit, Fit, Ids
  <2>9. KeysDiffer' /\ MadeOwn'
    <3>1. \A i \in Rows : row[i].path # p /\ (~row[i].archived => row[i].name # n)
      BY <1>3 DEF KeysFree, Active
    <3>2. Inserting' = Inserting \cup {h} /\ h \notin Inserting
      BY <1>1, <2>2, <2>3 DEF Inserting
    <3>3. \A a, b \in Handlers :
            req'[a].stage \in Creating /\ req'[b].stage \in Creating /\ req'[a].id = req'[b].id => a = b
      BY <2>2, <2>3, <2>8 DEF IInv, KeysDiffer
    <3>4. KeysDiffer'
      BY <1>1, <2>2, <2>3, <3>1, <3>2, <3>3 DEF IInv, KeysDiffer, Rows, Active, Inserting
    <3> QED
      BY <1>1, <2>2, <2>3, <3>4 DEF IInv, MadeOwn
  <2>10. Orderly'
    BY <1>1, <2>2, <2>3 DEF IInv, Orderly, PathOrderly, At, LiveAt, Rows, Deleting
  <2>11. HeadsFit'
    BY <1>1, <2>2, <2>3 DEF IInv, HeadsFit, HeadFits, Moved, Updates, Rows
  <2>12. NamesSingle'
    <3> SUFFICES ASSUME NEW m \in Names \ shared PROVE NameSingle(m)'
      BY <1>1 DEF NamesSingle
    <3>1. NameSingle(m)
      BY DEF IInv, NamesSingle
    <3>2. m = n => ~\E i \in Rows : row[i].name = m
      BY <1>1, <1>3, <3>1 DEF KeysFree, Active, NameSingle, Checked
    <3>3. Rows' = Rows
      BY <1>1 DEF Rows
    <3> QED
      BY <1>1, <2>2, <2>3, <3>1, <3>2, <3>3 DEF NameSingle, Inserting, Checked
  <2> QED
    BY <2>4, <2>6, <2>7, <2>9, <2>10, <2>11, <2>12 DEF IInv
<1> QED
  BY <1>2, <1>3 DEF Insert, Go

Repository == [id : Ids \cup {Nobody}, head : Branches]

(* The repository of a new project is made at a path nobody else has.      *)
LEMMA MakeRepositoryKeeps ==
  ASSUME IInv, NEW h \in Handlers, MakeRepository(h)
  PROVE  IInv'
<1> DEFINE p == req[h].path
           i == req[h].id
           r == [req[h] EXCEPT !.stage = "made"]
           d == [id |-> IF disk[p].id = Nobody THEN i ELSE disk[p].id, head |-> Main]
<1>1. /\ UNCHANGED <<created, row, building, released, shared, stale, stray, faults>>
      /\ req[h].stage = "inserted" /\ Fit(req[h]) /\ req[h] \in Request
      /\ p \in Paths /\ i \in 1 .. created /\ row[i].state = "none" /\ created \in 0 .. MaxProjects
  BY DEF MakeRepository, IInv, RequestsFit, Fit, Creating, TablesFit
<1>2. CASE Close(h) /\ disk' = disk
  BY <1>1, <1>2, CloseKeeps DEF IInv, TablesFit
<1>3. CASE PathClear(p) /\ disk' = [disk EXCEPT ![p] = d] /\ req' = [req EXCEPT ![h] = r]
  <2>1. r \in Request /\ r.stage = "made" /\ r.path = p /\ r.id = i /\ r.name = req[h].name
    <3>1. "made" \in Stages
      BY DEF Stages, Creating
    <3> QED
      BY <1>1, <3>1 DEF Request
  <2> HIDE DEF r
  <2>2. req'[h] = r /\ \A k \in Handlers : k # h => req'[k] = req[k]
    BY <1>3 DEF IInv, RequestsFit
  <2>3. /\ disk[p].id = Nobody /\ disk'[p].id = i /\ disk'[p].head = Main
        /\ \A q \in Paths : q # p => disk'[q] = disk[q]
        /\ i \in Ids /\ i # Nobody
    BY <1>1, <1>3, ProjectLifeAssumption DEF PathClear, IInv, TablesFit, Ids, Nobody
  <2>4. disk' \in [Paths -> Repository]
    <3>1. d \in Repository
      BY <2>3, ProjectLifeAssumption DEF Repository
    <3> QED
      BY <1>3, <3>1 DEF IInv, TablesFit, Repository
  <2>5. \A j \in Rows : row[j].path # p
    BY <1>1 DEF IInv, KeysDiffer, Inserting
  <2>6. Rows' = Rows /\ Active' = Active /\ Checked' = Checked /\ Inserting' = Inserting
    BY <1>1, <2>1, <2>2 DEF Rows, Active, Checked, Inserting
  <2>7. TablesFit' /\ NoneShared' /\ Room'
    BY <1>1, <2>3, <2>4, <2>5, <2>6 DEF IInv, TablesFit, NoneShared, Room, Repository, Rows
  <2>8. RequestsFit'
    BY <1>1, <1>3, <2>1, <2>2 DEF IInv, RequestsFit, Fit, Creating, Deleting
  <2> DEFINE same == \A k \in Handlers :
               /\ req'[k].id = req[k].id /\ req'[k].path = req[k].path /\ req'[k].name = req[k].name
               /\ req'[k].stage \in Creating <=> req[k].stage \in Creating
  <2>same. same /\ Inserting \subseteq Handlers /\ Checked \subseteq Handlers
    BY <1>1, <2>1, <2>2 DEF Creating, Inserting, Checked
  <2>9. KeysDiffer'
    BY <1>1, <2>6, <2>same DEF IInv, KeysDiffer
  <2>10. MadeOwn'
    <3> SUFFICES ASSUME NEW k \in Handlers, req'[k].stage = "made"
                 PROVE  disk'[req'[k].path].id \in {req'[k].id, Nobody}
      BY DEF MadeOwn
    <3>1. CASE k = h
      BY <2>1, <2>2, <2>3, <3>1
    <3>2. CASE k # h
      <4>1. req[k].path # p
        BY <1>1, <2>2, <3>2 DEF IInv, KeysDiffer, Inserting
      <4> QED
        BY <2>2, <2>3, <3>2, <4>1 DEF IInv, MadeOwn, RequestsFit, Fit
    <3> QED
      BY <3>1, <3>2
  <2>11. Orderly'
    <3> SUFFICES ASSUME NEW q \in Paths \ stray PROVE PathOrderly(q)'
      BY <1>1 DEF Orderly
    <3>1. PathOrderly(q) /\ LiveAt(q)' = LiveAt(q)
      BY <1>1, <2>6 DEF IInv, Orderly, LiveAt
    <3>2. CASE q # p
      <4>1. disk'[q] = disk[q]
        BY <2>3, <3>2
      <4> QED
        BY <1>1, <2>1, <2>2, <3>1, <3>2, <4>1 DEF PathOrderly, At
    <3>3. CASE q = p
      <4>1. LiveAt(p) = {}
        BY <2>5 DEF LiveAt
      <4>2. \A k \in Handlers : k # h => ~At(k, {"made", "removing"}, p)
        BY <2>3, <3>1, <3>3 DEF PathOrderly, At, IInv, RequestsFit, Fit, Creating, Nobody
      <4>3. \A k \in Handlers : ~At(k, Deleting, p)
        <5> SUFFICES ASSUME NEW k \in Handlers, At(k, Deleting, p) PROVE FALSE
          OBVIOUS
        <5>1. row[req[k].id].state = "live" /\ row[req[k].id].path = p /\ req[k].id \in Ids
          BY <1>1, <3>1, <3>3, ProjectLifeAssumption DEF PathOrderly, At, IInv, RequestsFit, Fit, Deleting, Ids
        <5> QED
          BY <2>5, <5>1 DEF Rows
      <4> QED
        BY <2>1, <2>2, <2>3, <3>1, <3>3, <4>1, <4>2, <4>3 DEF PathOrderly, At, Deleting
    <3> QED
      BY <3>2, <3>3
  <2>12. HeadsFit'
    <3> SUFFICES ASSUME NEW j \in Rows \ stale, row[j].path \notin stray, disk'[row[j].path].id = j
                 PROVE  HeadFits(j)'
      BY <1>1, <2>6 DEF HeadsFit
    <3>1. row[j].path \in Paths \ {p}
      BY <2>5 DEF IInv, TablesFit, Rows
    <3>2. HeadFits(j) /\ disk'[row[j].path] = disk[row[j].path]
      BY <2>3, <3>1 DEF IInv, HeadsFit
    <3> QED
      BY <1>1, <2>1, <2>2, <3>2 DEF HeadFits, Moved, Updates
  <2>13. NamesSingle'
    BY <1>1, <2>6, <2>same DEF IInv, NamesSingle, NameSingle
  <2> QED
    BY <2>7, <2>8, <2>9, <2>10, <2>11, <2>12, <2>13 DEF IInv
<1> QED
  BY <1>2, <1>3 DEF MakeRepository, Go

(* git init or git config fails: the path is on record.                    *)
LEMMA MakeFailsKeeps ==
  ASSUME IInv, NEW h \in Handlers, MakeFails(h)
  PROVE  IInv'
<1> DEFINE p == req[h].path
           i == req[h].id
<1>1. /\ UNCHANGED <<created, row, building, released, shared, stale>>
      /\ req[h].stage = "inserted" /\ disk[p].id = Nobody /\ disk' = [disk EXCEPT ![p].id = i]
      /\ stray' = stray \cup {p} /\ req' = [req EXCEPT ![h] = Idle] /\ faults' \in 0 .. MaxFaults
      /\ p \in Paths /\ i \in Ids
  BY ProjectLifeAssumption DEF MakeFails, PathClear, Spend, Close, Go, IInv, RequestsFit, Fit, TablesFit,
                               Creating, Ids
<1>2. /\ disk' \in [Paths -> [id : Ids \cup {Nobody}, head : Branches]]
      /\ \A q \in Paths : q # p => disk'[q] = disk[q]
  BY <1>1 DEF IInv, TablesFit
<1>3. req'[h] = Idle /\ req' \in [Handlers -> Request] /\ \A k \in Handlers : k # h => req'[k] = req[k]
  BY <1>1, IdleFits DEF IInv, RequestsFit
<1>4. /\ Rows' = Rows /\ Active' = Active /\ Checked' \subseteq Checked /\ Inserting' \subseteq Inserting \ {h}
      /\ Checked \subseteq Handlers /\ Inserting \subseteq Handlers
  BY <1>1, <1>3, IdleFits DEF Rows, Active, Checked, Inserting
<1>5. (\A j \in Rows : row[j].path # p) /\ (\A k \in Inserting : k # h => req[k].path # p)
  BY <1>1 DEF IInv, KeysDiffer, Inserting
<1>6. TablesFit' /\ NoneShared'
  BY <1>1, <1>2, <1>4, <1>5 DEF IInv, TablesFit, NoneShared, Rows
<1>7. RequestsFit'
  <2>1. ASSUME NEW k \in Handlers PROVE Fit(req[k])'
    BY <1>1, <1>3, IdleFits DEF IInv, RequestsFit, Fit, Creating, Deleting
  <2> QED
    BY <1>3, <2>1 DEF RequestsFit
<1>8. Room'
  BY <1>1, <1>4, CountShrinks DEF IInv, TablesFit
<1>9. KeysDiffer'
  BY <1>1, <1>3, <1>4, IdleFits DEF IInv, KeysDiffer, Creating
<1>10. MadeOwn'
  <2> SUFFICES ASSUME NEW k \in Handlers, req'[k].stage = "made"
               PROVE  disk'[req'[k].path].id \in {req'[k].id, Nobody}
    BY DEF MadeOwn
  <2>1. k # h /\ req'[k] = req[k] /\ k \in Inserting /\ req[k].path \in Paths
    BY <1>3, IdleFits DEF Inserting, IInv, RequestsFit, Fit
  <2> QED
    BY <1>2, <1>5, <2>1 DEF IInv, MadeOwn, Inserting
<1>11. Orderly'
  <2> SUFFICES ASSUME NEW q \in Paths \ stray' PROVE PathOrderly(q)'
    BY DEF Orderly
  <2>1. PathOrderly(q) /\ LiveAt(q)' = LiveAt(q) /\ q # p /\ disk'[q] = disk[q]
    BY <1>1, <1>2, <1>4 DEF IInv, Orderly, LiveAt
  <2> QED
    BY <1>1, <1>3, <2>1, IdleFits DEF PathOrderly, At, Deleting
<1>12. HeadsFit'
  <2> SUFFICES ASSUME NEW j \in Rows \ stale, row[j].path \notin stray, disk'[row[j].path].id = j
               PROVE  HeadFits(j)'
    BY <1>1, <1>4 DEF HeadsFit
  <2>1. row[j].path \in Paths \ {p}
    BY <1>5 DEF IInv, TablesFit, Rows
  <2>2. HeadFits(j) /\ disk'[row[j].path] = disk[row[j].path]
    BY <1>2, <2>1 DEF IInv, HeadsFit
  <2> QED
    BY <1>1, <1>3, <2>2, IdleFits DEF HeadFits, Moved, Updates
<1>13. NamesSingle'
  <2> SUFFICES ASSUME NEW m \in Names \ shared PROVE NameSingle(m)'
    BY <1>1 DEF NamesSingle
  <2>1. NameSingle(m) /\ \A k \in Inserting' \cup Checked' : k # h /\ k \in Handlers /\ req'[k] = req[k]
    BY <1>3, <1>4, IdleFits DEF IInv, NamesSingle, Inserting, Checked
  <2> QED
    BY <1>1, <1>4, <2>1 DEF NameSingle
<1> QED
  BY <1>6, <1>7, <1>8, <1>9, <1>10, <1>11, <1>12, <1>13 DEF IInv

(* The row appears, with the keys it held while it was not committed.      *)
LEMMA CommitCreateKeeps ==
  ASSUME IInv, NEW h \in Handlers, CommitCreate(h)
  PROVE  IInv'
<1> DEFINE p == req[h].path
           n == req[h].name
           i == req[h].id
           new == [state |-> "live", path |-> p, name |-> n, branch |-> Main, archived |-> FALSE]
<1>1. /\ UNCHANGED <<created, disk, building, released, shared, stale, stray, faults>>
      /\ req[h].stage = "made" /\ row' = [row EXCEPT ![i] = new] /\ req' = [req EXCEPT ![h] = Idle]
      /\ p \in Paths /\ n \in Names /\ i \in Ids /\ i <= created /\ row[i].state = "none"
  BY ProjectLifeAssumption DEF CommitCreate, Close, Go, IInv, RequestsFit, Fit, TablesFit, Creating, Ids
<1>2. req'[h] = Idle /\ req' \in [Handlers -> Request] /\ \A k \in Handlers : k # h => req'[k] = req[k]
  BY <1>1, IdleFits DEF IInv, RequestsFit
<1>3. row'[i] = new /\ row' \in [Ids -> Row] /\ \A j \in Ids : j # i => row'[j] = row[j]
  <2>1. new \in Row
    BY <1>1, ProjectLifeAssumption DEF Row
  <2> QED
    BY <1>1, <2>1 DEF IInv, TablesFit
<1>4. /\ Rows' = Rows \cup {i} /\ Active' = Active \cup {i} /\ i \notin Rows
      /\ Checked' = Checked /\ Inserting' = Inserting \ {h} /\ h \in Inserting
      /\ Checked \subseteq Handlers /\ Inserting \subseteq Handlers
  BY <1>1, <1>2, <1>3, IdleFits DEF Rows, Active, Checked, Inserting
<1>5. /\ \A j \in Rows : row[j].path # p /\ (~row[j].archived => row[j].name # n)
      /\ \A k \in Inserting : k # h => req[k].path # p /\ req[k].name # n
  BY <1>4 DEF IInv, KeysDiffer
<1>6. TablesFit'
  BY <1>1, <1>3, <1>4 DEF IInv, TablesFit, Rows
<1>7. NoneShared'
  BY <1>1, <1>3, <1>4 DEF IInv, NoneShared, MadeOwn, Rows
<1>8. RequestsFit'
  <2>1. ASSUME NEW k \in Handlers, k # h PROVE Fit(req[k])'
    <3>1. Fit(req[k]) /\ req'[k] = req[k]
      BY <1>2, <2>1 DEF IInv, RequestsFit
    <3>2. req[k].stage \in Creating => req[k].id # i
      BY <1>1, <2>1 DEF IInv, KeysDiffer, Creating
    <3>3. req[k].stage \in Deleting \cup {"updating", "moved"} => req[k].id # i
      BY <1>1, <3>1 DEF Fit
    <3>4. req[k].id \in 1 .. created => req[k].id \in Ids
      BY ProjectLifeAssumption DEF IInv, TablesFit, Ids
    <3> QED
      BY <1>1, <1>3, <3>1, <3>2, <3>3, <3>4 DEF Fit
  <2>2. Fit(req[h])'
    BY <1>2, IdleFits DEF Fit, Creating, Deleting
  <2> QED
    BY <1>2, <2>1, <2>2 DEF RequestsFit
<1>9. Room'
  BY <1>1, <1>4 DEF IInv, Room
<1>10. KeysDiffer'
  <2>1. \A a, b \in Handlers :
          req'[a].stage \in Creating /\ req'[b].stage \in Creating /\ req'[a].id = req'[b].id => a = b
    BY <1>2, IdleFits DEF IInv, KeysDiffer, Creating
  <2>2. \A a, b \in Inserting' : req'[a].path = req'[b].path \/ req'[a].name = req'[b].name => a = b
    BY <1>2, <1>4 DEF IInv, KeysDiffer
  <2>3. \A a \in Inserting', j \in Rows' :
          row'[j].path # req'[a].path /\ (~row'[j].archived => row'[j].name # req'[a].name)
    BY <1>2, <1>3, <1>4, <1>5 DEF IInv, KeysDiffer, Rows
  <2>4. \A j, k \in Rows' : row'[j].path = row'[k].path => j = k
    BY <1>3, <1>4, <1>5 DEF IInv, KeysDiffer, Rows
  <2>5. \A j, k \in Active' : row'[j].name = row'[k].name => j = k
    BY <1>3, <1>4, <1>5 DEF IInv, KeysDiffer, Rows, Active
  <2> QED
    BY <2>1, <2>2, <2>3, <2>4, <2>5 DEF KeysDiffer
<1>11. MadeOwn'
  BY <1>1, <1>2, IdleFits DEF IInv, MadeOwn
<1>12. Orderly'
  <2> SUFFICES ASSUME NEW q \in Paths \ stray PROVE PathOrderly(q)'
    BY <1>1 DEF Orderly
  <2>1. PathOrderly(q)
    BY DEF IInv, Orderly
  <2>2. \A k \in Handlers : req[k].stage \in Deleting => req[k].id # i /\ req[k].id \in Ids
    <3> SUFFICES ASSUME NEW k \in Handlers, req[k].stage \in Deleting PROVE req[k].id # i /\ req[k].id \in Ids
      OBVIOUS
    <3>1. Fit(req[k])
      BY DEF IInv, RequestsFit
    <3>2. req[k].id \in 1 .. created /\ created \in 0 .. MaxProjects
      BY <3>1 DEF Fit, IInv, TablesFit
    <3> QED
      BY <1>1, <3>1, <3>2, ProjectLifeAssumption DEF Fit, Ids
  <2>3. CASE q # p
    <3>1. LiveAt(q)' = LiveAt(q)
      BY <1>3, <1>4, <2>3 DEF LiveAt, Rows
    <3> QED
      BY <1>1, <1>2, <1>3, <2>1, <2>2, <2>3, <3>1, IdleFits DEF PathOrderly, At, Deleting
  <2>4. CASE q = p
    <3>1. LiveAt(q)' = {i}
      <4>1. /\ \A j \in Rows : j \in Ids /\ j # i /\ row'[j] = row[j] /\ row[j].path # p
            /\ row'[i].path = p
        BY <1>3, <1>4, <1>5 DEF Rows
      <4> QED
        BY <1>4, <2>4, <4>1 DEF LiveAt
    <3>2. disk[p].id = i /\ i # Nobody
      BY <1>1, <2>1, <2>4 DEF PathOrderly, At, Ids, Nobody
    <3>3. \A k \in Handlers : k # h => ~At(k, {"made", "removing"}, p)
      BY <1>1, <2>1, <2>4, <3>2 DEF PathOrderly, At, IInv, KeysDiffer, Creating
    <3>4. \A k \in Handlers : ~At(k, Deleting, p)
      <4> SUFFICES ASSUME NEW k \in Handlers, At(k, Deleting, p) PROVE FALSE
        OBVIOUS
      <4>1. row[req[k].id].state = "live" /\ row[req[k].id].path = p /\ req[k].id \in Ids
        BY <2>1, <2>2, <2>4 DEF PathOrderly, At, IInv, RequestsFit, Fit
      <4> QED
        BY <1>5, <4>1 DEF Rows
    <3> QED
      <4>1. \A k \in Handlers : ~At(k, {"made", "removing"} \cup Deleting, q)'
        BY <1>2, <2>4, <3>3, <3>4, IdleFits DEF At, Deleting
      <4> QED
        BY <1>1, <2>4, <3>1, <3>2, <4>1 DEF PathOrderly, At, Deleting
  <2> QED
    BY <2>3, <2>4
<1>13. HeadsFit'
  <2> SUFFICES ASSUME NEW j \in Rows \cup {i}, j \notin stale, row'[j].path \notin stray,
                      disk[row'[j].path].id = j
               PROVE  HeadFits(j)'
    BY <1>1, <1>4 DEF HeadsFit
  <2>1. CASE j = i
    <3>1. \A k \in Handlers : ~Updates(k, i)
      BY <1>1 DEF Updates, IInv, RequestsFit, Fit
    <3>2. disk[p].head = Main
      BY <1>1, <1>3, <2>1 DEF IInv, Orderly, PathOrderly, At
    <3> QED
      BY <1>1, <1>2, <1>3, <2>1, <3>1, <3>2, IdleFits DEF HeadFits, Moved, Updates
  <2>2. CASE j # i
    BY <1>1, <1>2, <1>3, <2>2, IdleFits DEF IInv, HeadsFit, HeadFits, Moved, Updates, Rows
  <2> QED
    BY <2>1, <2>2
<1>14. NamesSingle'
  <2> SUFFICES ASSUME NEW m \in Names \ shared PROVE NameSingle(m)'
    BY <1>1 DEF NamesSingle
  <2>1. NameSingle(m)
    BY DEF IInv, NamesSingle
  <2>2. m = n => \A j \in Rows : row[j].name # m
    BY <1>4, <2>1 DEF NameSingle
  <2> QED
    <3>1. /\ \A j \in Rows : j # i /\ row'[j] = row[j]
          /\ row'[i].name = n /\ row'[i].archived = FALSE
          /\ \A k \in Inserting' \cup Checked' : k # h /\ k \in Handlers /\ req'[k] = req[k]
      BY <1>1, <1>2, <1>3, <1>4 DEF Rows, Inserting, Checked
    <3>2. \A j, l \in Rows' : row'[j].name = m /\ row'[l].name = m => j = l
      BY <1>4, <2>1, <2>2, <3>1 DEF NameSingle
    <3>3. \A k \in Inserting', j \in Rows' : req'[k].name = m => row'[j].name # m
      BY <1>4, <1>5, <2>1, <3>1 DEF NameSingle
    <3>4. \A k \in Checked', j \in Rows' : req'[k].name = m /\ row'[j].name = m => ~row'[j].archived
      BY <1>4, <2>1, <3>1 DEF NameSingle
    <3> QED
      BY <3>2, <3>3, <3>4 DEF NameSingle
<1> QED
  BY <1>6, <1>7, <1>8, <1>9, <1>10, <1>11, <1>12, <1>13, <1>14 DEF IInv

(* The row is rolled back; the repository is still there.                  *)
LEMMA CreateFailsKeeps ==
  ASSUME IInv, NEW h \in Handlers, CreateFails(h)
  PROVE  IInv'
<1> DEFINE r == [req[h] EXCEPT !.stage = "removing"]
<1>1. /\ UNCHANGED <<created, row, disk, building, released, shared, stale, stray>>
      /\ req[h].stage = "made" /\ req' = [req EXCEPT ![h] = r] /\ faults' \in 0 .. MaxFaults
      /\ Fit(req[h]) /\ req[h] \in Request
  BY ProjectLifeAssumption DEF CreateFails, Spend, Go, IInv, RequestsFit, TablesFit
<1>2. /\ r \in Request /\ r.stage = "removing" /\ r.path = req[h].path /\ r.id = req[h].id
      /\ r.name = req[h].name
  <2>1. "removing" \in Stages
    BY DEF Stages, Creating
  <2> QED
    BY <1>1, <2>1 DEF Request
<1> HIDE DEF r
<1>3. req'[h] = r /\ \A k \in Handlers : k # h => req'[k] = req[k]
  BY <1>1 DEF IInv, RequestsFit
<1>4. /\ Rows' = Rows /\ Active' = Active /\ Checked' = Checked /\ Inserting' = Inserting \ {h}
      /\ Checked \subseteq Handlers /\ Inserting \subseteq Handlers
  BY <1>1, <1>2, <1>3 DEF Rows, Active, Checked, Inserting
<1>5. TablesFit' /\ NoneShared' /\ Room'
  BY <1>1, <1>4 DEF IInv, TablesFit, NoneShared, Room
<1>6. RequestsFit'
  BY <1>1, <1>2, <1>3 DEF IInv, RequestsFit, Fit, Creating, Deleting
<1>7. KeysDiffer' /\ MadeOwn'
  <2>1. MadeOwn'
    BY <1>1, <1>2, <1>3 DEF IInv, MadeOwn
  <2>2. KeysDiffer'
    BY <1>1, <1>2, <1>3, <1>4 DEF IInv, KeysDiffer, Creating
  <2> QED
    BY <2>1, <2>2
<1>8. Orderly'
  BY <1>1, <1>2, <1>3 DEF IInv, Orderly, PathOrderly, At, LiveAt, Rows, Deleting
<1>9. HeadsFit'
  BY <1>1, <1>2, <1>3 DEF IInv, HeadsFit, HeadFits, Moved, Updates, Rows
<1>10. NamesSingle'
  <2> SUFFICES ASSUME NEW m \in Names \ shared PROVE NameSingle(m)'
    BY <1>1 DEF NamesSingle
  <2>1. NameSingle(m) /\ \A k \in Inserting' \cup Checked' : k \in Handlers /\ req'[k] = req[k]
    BY <1>1, <1>3, <1>4 DEF IInv, NamesSingle, Inserting, Checked
  <2> QED
    BY <1>1, <1>4, <2>1 DEF NameSingle
<1> QED
  BY <1>5, <1>6, <1>7, <1>8, <1>9, <1>10 DEF IInv

(* A repository that is gone leaves no HEAD to agree with.                 *)
LEMMA GoneHeads ==
  ASSUME IInv, NEW p \in Paths, disk' = [disk EXCEPT ![p] = NoRepository], UNCHANGED <<row, stale, stray>>,
         \A k \in Handlers, i \in Ids : Updates(k, i)' <=> Updates(k, i),
         \A k \in Handlers, i \in Ids : Updates(k, i) => req'[k] = req[k]
  PROVE  HeadsFit' /\ disk' \in [Paths -> Repository] /\ disk'[p] = NoRepository
         /\ \A q \in Paths : q # p => disk'[q] = disk[q]
<1>1. /\ disk' \in [Paths -> Repository] /\ disk'[p] = NoRepository
      /\ \A q \in Paths : q # p => disk'[q] = disk[q]
  <2>1. NoRepository \in Repository
    BY ProjectLifeAssumption DEF Repository, NoRepository
  <2> QED
    BY <2>1 DEF IInv, TablesFit, Repository
<1>2. Rows' = Rows /\ Rows \subseteq Ids
  BY DEF Rows
<1>3. HeadsFit'
  <2> SUFFICES ASSUME NEW j \in Rows \ stale, row[j].path \notin stray, disk'[row[j].path].id = j
               PROVE  HeadFits(j)'
    BY <1>2 DEF HeadsFit
  <2>1. row[j].path \in Paths /\ j # Nobody
    BY <1>2 DEF IInv, TablesFit, Rows, Ids, Nobody
  <2>2. row[j].path # p
    BY <1>1, <2>1 DEF NoRepository
  <2>3. HeadFits(j) /\ disk'[row[j].path] = disk[row[j].path]
    BY <1>1, <2>1, <2>2 DEF IInv, HeadsFit
  <2>4. \A k \in Handlers : /\ Updates(k, j)' <=> Updates(k, j)
                            /\ Moved(k, j)' <=> Moved(k, j)
                            /\ Updates(k, j) => req'[k] = req[k]
    BY <1>2 DEF Moved
  <2> QED
    BY <2>3, <2>4 DEF HeadFits, Moved
<1> QED
  BY <1>1, <1>3

(* The repository of a project that was not committed is removed.          *)
LEMMA RemoveRepositoryKeeps ==
  ASSUME IInv, NEW h \in Handlers, RemoveRepository(h)
  PROVE  IInv'
<1> DEFINE p == req[h].path
           i == req[h].id
<1>1. /\ UNCHANGED <<created, row, building, released, shared, stale, stray, faults>>
      /\ req[h].stage = "removing" /\ disk' = [disk EXCEPT ![p] = NoRepository]
      /\ req' = [req EXCEPT ![h] = Idle] /\ p \in Paths
  BY DEF RemoveRepository, Close, Go, IInv, RequestsFit, Fit
<1>2. req'[h] = Idle /\ req' \in [Handlers -> Request] /\ \A k \in Handlers : k # h => req'[k] = req[k]
  BY <1>1, IdleFits DEF IInv, RequestsFit
<1>3. /\ HeadsFit' /\ disk' \in [Paths -> Repository] /\ disk'[p] = NoRepository
      /\ \A q \in Paths : q # p => disk'[q] = disk[q]
  <2>1. \A k \in Handlers, j \in Ids : Updates(k, j)' <=> Updates(k, j)
    BY <1>1, <1>2, IdleFits DEF Updates
  <2>2. \A k \in Handlers, j \in Ids : Updates(k, j) => req'[k] = req[k]
    BY <1>1, <1>2 DEF Updates
  <2>3. ASSUME NEW q, q = p PROVE
          /\ HeadsFit' /\ disk' \in [Paths -> Repository] /\ disk'[q] = NoRepository
          /\ \A g \in Paths : g # q => disk'[g] = disk[g]
    BY <1>1, <2>1, <2>2, <2>3, GoneHeads
  <2> QED
    BY <2>3
<1>4. /\ Rows' = Rows /\ Active' = Active /\ Checked' = Checked /\ Inserting' = Inserting
      /\ Checked \subseteq Handlers /\ Inserting \subseteq Handlers \ {h}
  BY <1>1, <1>2, IdleFits DEF Rows, Active, Checked, Inserting
<1>5. TablesFit' /\ Room'
  BY <1>1, <1>3, <1>4 DEF IInv, TablesFit, Room, Repository
<1>6. NoneShared'
  BY <1>1, <1>3, <1>4 DEF IInv, NoneShared, NoRepository, TablesFit, Rows
<1>7. RequestsFit'
  <2>1. ASSUME NEW k \in Handlers PROVE Fit(req[k])'
    BY <1>1, <1>2, IdleFits DEF IInv, RequestsFit, Fit, Creating, Deleting
  <2> QED
    BY <1>2, <2>1 DEF RequestsFit
<1>8. KeysDiffer'
  BY <1>1, <1>2, <1>4, IdleFits DEF IInv, KeysDiffer, Creating
<1>9. MadeOwn'
  <2> SUFFICES ASSUME NEW k \in Handlers, req'[k].stage = "made"
               PROVE  disk'[req'[k].path].id \in {req'[k].id, Nobody}
    BY DEF MadeOwn
  <2>1. req'[k] = req[k] /\ req[k].path \in Paths
    BY <1>2, IdleFits DEF IInv, RequestsFit, Fit
  <2> QED
    BY <1>3, <2>1 DEF IInv, MadeOwn, NoRepository
<1>10. Orderly'
  <2> SUFFICES ASSUME NEW q \in Paths \ stray PROVE PathOrderly(q)'
    BY <1>1 DEF Orderly
  <2>1. PathOrderly(q) /\ LiveAt(q)' = LiveAt(q)
    BY <1>1, <1>4 DEF IInv, Orderly, LiveAt
  <2>2. CASE q # p
    BY <1>1, <1>2, <1>3, <2>1, <2>2, IdleFits DEF PathOrderly, At, Deleting
  <2>3. CASE q = p
    <3>1. LiveAt(q) = {} /\ disk[q].id = i
      BY <1>1, <2>1, <2>3 DEF PathOrderly, At
    <3>2. \A k \in Handlers : k # h => ~At(k, {"made", "removing"}, q)
      BY <1>1, <2>1, <3>1 DEF PathOrderly, At, IInv, KeysDiffer, Creating
    <3>3. \A k \in Handlers : ~At(k, Deleting, q)
      <4> SUFFICES ASSUME NEW k \in Handlers, At(k, Deleting, q) PROVE FALSE
        OBVIOUS
      <4>1. Fit(req[k]) /\ req[k].path = q /\ req[k].stage \in Deleting /\ created \in 0 .. MaxProjects
        BY DEF At, IInv, RequestsFit, TablesFit
      <4>2. row[req[k].id].state = "live" /\ row[req[k].id].path = q /\ req[k].id \in Ids
        BY <2>1, <4>1, ProjectLifeAssumption DEF PathOrderly, Fit, Ids
      <4> QED
        BY <3>1, <4>2 DEF LiveAt, Rows
    <3>4. \A k \in Handlers : ~At(k, {"made", "removing"} \cup Deleting, q)'
      BY <1>2, <3>2, <3>3, IdleFits DEF At, Deleting
    <3> QED
      BY <1>1, <1>3, <2>1, <2>3, <3>1, <3>4 DEF PathOrderly, At, Deleting, NoRepository
  <2> QED
    BY <2>2, <2>3
<1>11. NamesSingle'
  <2> SUFFICES ASSUME NEW m \in Names \ shared PROVE NameSingle(m)'
    BY <1>1 DEF NamesSingle
  <2>1. NameSingle(m) /\ \A k \in Inserting' \cup Checked' : k \in Handlers /\ req'[k] = req[k]
    BY <1>2, <1>4, IdleFits DEF IInv, NamesSingle, Inserting, Checked
  <2> QED
    BY <1>1, <1>4, <2>1 DEF NameSingle
<1> QED
  BY <1>3, <1>5, <1>6, <1>7, <1>8, <1>9, <1>10, <1>11 DEF IInv
-----------------------------------------------------------------------------
(* The row is read; a second update of the project is on record.           *)
LEMMA UpdateKeeps ==
  ASSUME IInv, NEW h \in Handlers, NEW i \in Ids, NEW b \in Branches, Update(h, i, b)
  PROVE  IInv'
<1> DEFINE p == row[i].path
           r == [stage |-> "updating", id |-> i, path |-> p, name |-> NoName, branch |-> b, old |-> row[i].branch]
<1>1. /\ UNCHANGED <<created, row, disk, building, released, shared, stray, faults>>
      /\ req[h].stage = "idle" /\ req' = [req EXCEPT ![h] = r]
      /\ i \in Rows /\ p \in Paths /\ i <= created /\ row[i].branch \in Branches
      /\ stale' = IF \E g \in Handlers : Updates(g, i) THEN stale \cup {i} ELSE stale
  BY IdleFits DEF Update, Go, Active, Rows, IInv, TablesFit, Row
<1>2. /\ r \in Request /\ r.stage = "updating" /\ r.path = p /\ r.id = i /\ r.branch = b
      /\ r.old = row[i].branch
  <2>1. "updating" \in Stages /\ i \in 0 .. MaxProjects
    BY ProjectLifeAssumption DEF Stages, Ids
  <2> QED
    BY <1>1, <2>1 DEF Request
<1> HIDE DEF r
<1>3. req'[h] = r /\ req' \in [Handlers -> Request] /\ \A k \in Handlers : k # h => req'[k] = req[k]
  BY <1>1, <1>2 DEF IInv, RequestsFit
<1>4. /\ Rows' = Rows /\ Active' = Active /\ Checked' = Checked /\ Inserting' = Inserting
      /\ Checked \subseteq Handlers \ {h} /\ Inserting \subseteq Handlers \ {h}
      /\ stale \subseteq stale'
  BY <1>1, <1>2, <1>3 DEF Rows, Active, Checked, Inserting
<1>5. TablesFit' /\ Room' /\ NoneShared' /\ MadeOwn'
  <2>1. TablesFit' /\ Room' /\ NoneShared'
    BY <1>1, <1>4 DEF IInv, TablesFit, Room, NoneShared
  <2>2. MadeOwn'
    BY <1>1, <1>2, <1>3 DEF IInv, MadeOwn
  <2> QED
    BY <2>1, <2>2
<1>6. RequestsFit'
  <2>1. ASSUME NEW k \in Handlers, k # h PROVE Fit(req[k])'
    BY <1>1, <1>3, <2>1 DEF IInv, RequestsFit, Fit
  <2>2. Fit(req[h])'
    <3>1. row[i].state = "live" /\ i \in 1 .. created
      BY <1>1 DEF Rows, Ids, IInv, TablesFit
    <3> QED
      BY <1>1, <1>2, <1>3, <3>1 DEF Fit, Creating, Deleting
  <2> QED
    BY <1>3, <2>1, <2>2 DEF RequestsFit
<1>7. KeysDiffer'
  BY <1>1, <1>2, <1>3, <1>4 DEF IInv, KeysDiffer, Creating
<1>8. Orderly'
  <2> SUFFICES ASSUME NEW q \in Paths \ stray PROVE PathOrderly(q)'
    BY <1>1 DEF Orderly
  <2>1. PathOrderly(q) /\ LiveAt(q)' = LiveAt(q)
    BY <1>1, <1>4 DEF IInv, Orderly, LiveAt
  <2> QED
    BY <1>1, <1>2, <1>3, <1>4, <2>1 DEF PathOrderly, At, Deleting
<1>9. HeadsFit'
  <2> SUFFICES ASSUME NEW j \in Rows \ stale', row[j].path \notin stray, disk[row[j].path].id = j
               PROVE  HeadFits(j)'
    BY <1>1, <1>4 DEF HeadsFit
  <2>1. HeadFits(j) /\ (j = i => \A g \in Handlers : ~Updates(g, i))
    BY <1>1, <1>4 DEF IInv, HeadsFit
  <2>2. CASE j = i
    BY <1>1, <1>2, <1>3, <2>1, <2>2 DEF HeadFits, Moved, Updates
  <2>3. CASE j # i
    BY <1>1, <1>2, <1>3, <2>1, <2>3 DEF HeadFits, Moved, Updates
  <2> QED
    BY <2>2, <2>3
<1>10. NamesSingle'
  <2> SUFFICES ASSUME NEW m \in Names \ shared PROVE NameSingle(m)'
    BY <1>1 DEF NamesSingle
  <2>1. NameSingle(m) /\ \A k \in Inserting' \cup Checked' : k \in Handlers /\ req'[k] = req[k]
    BY <1>3, <1>4 DEF IInv, NamesSingle
  <2> QED
    BY <1>1, <1>4, <2>1 DEF NameSingle
<1> QED
  BY <1>5, <1>6, <1>7, <1>8, <1>9, <1>10 DEF IInv

(* HEAD moves to the branch that the row is about to name, or that of      *)
(* another project, which is on record.                                    *)
LEMMA MoveHeadKeeps ==
  ASSUME IInv, NEW h \in Handlers, MoveHead(h)
  PROVE  IInv'
<1> DEFINE p == req[h].path
           i == req[h].id
           b == req[h].branch
           r == [req[h] EXCEPT !.stage = "moved"]
<1>1. /\ UNCHANGED <<created, row, building, released, shared, stray, faults>>
      /\ req[h].stage = "updating" /\ req[h] \in Request /\ Fit(req[h]) /\ b \in Branches
      /\ p \in Paths /\ row[i].path = p
  BY DEF MoveHead, IInv, RequestsFit, Fit, Request
<1>2. CASE Close(h) /\ disk' = disk /\ stale' = stale
  BY <1>1, <1>2, CloseKeeps DEF IInv, TablesFit
<1>3. CASE /\ disk[p].id # Nobody /\ disk' = [disk EXCEPT ![p].head = b] /\ req' = [req EXCEPT ![h] = r]
           /\ stale' = IF disk[p].id = i THEN stale ELSE stale \cup {disk[p].id}
  <2>1. r \in Request /\ r.stage = "moved" /\ r.path = p /\ r.id = i /\ r.branch = b /\ r.old = req[h].old
    <3>1. "moved" \in Stages
      BY DEF Stages
    <3> QED
      BY <1>1, <3>1 DEF Request
  <2> HIDE DEF r
  <2>2. req'[h] = r /\ req' \in [Handlers -> Request] /\ \A k \in Handlers : k # h => req'[k] = req[k]
    BY <1>3, <2>1 DEF IInv, RequestsFit
  <2>3. /\ Rows' = Rows /\ Active' = Active /\ Checked' = Checked /\ Inserting' = Inserting
        /\ Checked \subseteq Handlers \ {h} /\ Inserting \subseteq Handlers \ {h} /\ Rows \subseteq Ids
        /\ stale \subseteq stale'
    BY <1>1, <1>3, <2>1, <2>2 DEF Rows, Active, Checked, Inserting
  <2>4. /\ disk' \in [Paths -> Repository]
        /\ \A q \in Paths : q # p => disk'[q] = disk[q]
        /\ \A q \in Paths : disk'[q].id = disk[q].id
        /\ disk'[p].head = b /\ disk[p].id \in Ids
    BY <1>1, <1>3 DEF IInv, TablesFit, Repository
  <2>5. TablesFit' /\ Room'
    BY <1>1, <1>3, <2>3, <2>4 DEF IInv, TablesFit, Room, Repository
  <2>6. NoneShared' /\ MadeOwn'
    <3>1. NoneShared'
      BY <1>1, <2>3, <2>4 DEF IInv, NoneShared, TablesFit, Rows
    <3>2. MadeOwn'
      <4> SUFFICES ASSUME NEW k \in Handlers, req'[k].stage = "made"
                   PROVE  disk'[req'[k].path].id \in {req'[k].id, Nobody}
        BY DEF MadeOwn
      <4>1. req'[k] = req[k] /\ req[k].path \in Paths
        BY <2>1, <2>2 DEF IInv, RequestsFit, Fit
      <4> QED
        BY <2>4, <4>1 DEF IInv, MadeOwn
    <3> QED
      BY <3>1, <3>2
  <2>7. RequestsFit'
    <3>1. ASSUME NEW k \in Handlers, k # h PROVE Fit(req[k])'
      BY <1>1, <2>2, <3>1 DEF IInv, RequestsFit, Fit
    <3>2. Fit(req[h])'
      BY <1>1, <2>1, <2>2 DEF Fit, Creating, Deleting
    <3> QED
      BY <2>2, <3>1, <3>2 DEF RequestsFit
  <2>8. KeysDiffer'
    BY <1>1, <2>1, <2>2, <2>3 DEF IInv, KeysDiffer, Creating
  <2>9. Orderly'
    <3> SUFFICES ASSUME NEW q \in Paths \ stray PROVE PathOrderly(q)'
      BY <1>1 DEF Orderly
    <3>1. PathOrderly(q) /\ LiveAt(q)' = LiveAt(q) /\ disk'[q].id = disk[q].id
      BY <1>1, <2>3, <2>4 DEF IInv, Orderly, LiveAt
    <3>2. \A k \in Handlers : At(k, {"made"}, q) /\ req[k].id \notin stale' => disk'[q] = disk[q]
      <4> SUFFICES ASSUME q = p, NEW k \in Handlers, At(k, {"made"}, p), req[k].id \notin stale' PROVE FALSE
        BY <2>4
      <4>1. disk[p].id = req[k].id
        BY <3>1 DEF PathOrderly, At
      <4>2. req[k].id # i
        BY <1>1 DEF At, IInv, RequestsFit, Fit, Creating
      <4> QED
        BY <1>3, <4>1, <4>2
    <3> QED
      BY <1>1, <2>1, <2>2, <2>3, <3>1, <3>2 DEF PathOrderly, At, Deleting
  <2>10. HeadsFit'
    <3> SUFFICES ASSUME NEW j \in Rows \ stale', row[j].path \notin stray, disk'[row[j].path].id = j
                 PROVE  HeadFits(j)'
      BY <1>1, <2>3 DEF HeadsFit
    <3>1. row[j].path \in Paths /\ HeadFits(j) /\ disk[row[j].path].id = j
      BY <2>3, <2>4 DEF IInv, TablesFit, HeadsFit, Rows
    <3>2. CASE j = i
      <4>1. Moved(h, j)' /\ \A k \in Handlers : Updates(k, j)' <=> Updates(k, j)
        BY <1>1, <2>1, <2>2, <3>2 DEF Moved, Updates
      <4>2. \A k \in Handlers : Updates(k, j) => k = h
        BY <1>1, <3>1, <3>2 DEF HeadFits, Updates
      <4>3. req'[h].old = row[j].branch
        BY <1>1, <2>1, <2>2, <3>1, <3>2 DEF HeadFits, Updates
      <4>4. disk'[row'[j].path].head = req'[h].branch /\ row' = row
        BY <1>1, <2>1, <2>2, <2>4, <3>2
      <4> QED
        BY <4>1, <4>2, <4>3, <4>4 DEF HeadFits, Moved
    <3>3. CASE j # i
      <4>1. row[j].path # p
        BY <1>3, <3>1, <3>3
      <4> QED
        BY <1>1, <2>1, <2>2, <2>4, <3>1, <3>3, <4>1 DEF HeadFits, Moved, Updates
    <3> QED
      BY <3>2, <3>3
  <2>11. NamesSingle'
    <3> SUFFICES ASSUME NEW m \in Names \ shared PROVE NameSingle(m)'
      BY <1>1 DEF NamesSingle
    <3>1. NameSingle(m) /\ \A k \in Inserting' \cup Checked' : k \in Handlers /\ req'[k] = req[k]
      BY <2>2, <2>3 DEF IInv, NamesSingle
    <3> QED
      BY <1>1, <2>3, <3>1 DEF NameSingle
  <2> QED
    BY <2>5, <2>6, <2>7, <2>8, <2>9, <2>10, <2>11 DEF IInv
<1> QED
  BY <1>2, <1>3 DEF MoveHead, Go

(* The row takes the branch, if it is another than was read and the        *)
(* project is still there.                                                 *)
LEMMA CommitUpdateKeeps ==
  ASSUME IInv, NEW h \in Handlers, CommitUpdate(h)
  PROVE  IInv'
<1> DEFINE i == req[h].id
           b == req[h].branch
<1>1. /\ UNCHANGED <<created, disk, building, released, shared, stale, stray, faults>>
      /\ req[h].stage = "moved" /\ req' = [req EXCEPT ![h] = Idle]
      /\ row' = IF i \in Rows /\ b # req[h].old THEN [row EXCEPT ![i].branch = b] ELSE row
      /\ b \in Branches
  BY DEF CommitUpdate, Close, Go, IInv, RequestsFit, Request
<1>2. req'[h] = Idle /\ req' \in [Handlers -> Request] /\ \A k \in Handlers : k # h => req'[k] = req[k]
  BY <1>1, IdleFits DEF IInv, RequestsFit
<1>3. /\ row' \in [Ids -> Row]
      /\ \A j \in Ids : /\ row'[j].state = row[j].state /\ row'[j].path = row[j].path
                        /\ row'[j].name = row[j].name /\ row'[j].archived = row[j].archived
      /\ \A j \in Rows : row'[j].branch = IF j = i /\ b # req[h].old THEN b ELSE row[j].branch
  BY <1>1 DEF IInv, TablesFit, Row, Rows
<1>4. /\ Rows' = Rows /\ Active' = Active /\ Checked' = Checked /\ Inserting' = Inserting
      /\ Checked \subseteq Handlers \ {h} /\ Inserting \subseteq Handlers \ {h} /\ Rows \subseteq Ids
      /\ Active \subseteq Rows
  BY <1>1, <1>2, <1>3, IdleFits DEF Rows, Active, Checked, Inserting
<1>5. TablesFit' /\ Room'
  BY <1>1, <1>3, <1>4 DEF IInv, TablesFit, Room
<1>6. NoneShared' /\ MadeOwn'
  <2>1. NoneShared'
    BY <1>1, <1>3, <1>4 DEF IInv, NoneShared
  <2>2. MadeOwn'
    BY <1>1, <1>2, IdleFits DEF IInv, MadeOwn
  <2> QED
    BY <2>1, <2>2
<1>7. RequestsFit'
  <2>1. ASSUME NEW k \in Handlers, k # h PROVE Fit(req[k])'
    <3>1. Fit(req[k]) /\ req'[k] = req[k] /\ (req[k].id \in 1 .. created => req[k].id \in Ids)
      BY <1>2, <2>1, ProjectLifeAssumption DEF IInv, RequestsFit, TablesFit, Ids
    <3> QED
      BY <1>1, <1>3, <3>1 DEF Fit
  <2>2. Fit(req[h])'
    BY <1>2, IdleFits DEF Fit, Creating, Deleting
  <2> QED
    BY <1>2, <2>1, <2>2 DEF RequestsFit
<1>8. KeysDiffer'
  BY <1>1, <1>2, <1>3, <1>4, IdleFits DEF IInv, KeysDiffer, Creating
<1>9. Orderly'
  <2> SUFFICES ASSUME NEW q \in Paths \ stray PROVE PathOrderly(q)'
    BY <1>1 DEF Orderly
  <2>1. PathOrderly(q)
    BY DEF IInv, Orderly
  <2>2. LiveAt(q)' = LiveAt(q)
    BY <1>3, <1>4 DEF LiveAt
  <2>3. \A k \in Handlers : req[k].stage \in Deleting => req[k].id \in Ids
    <3> SUFFICES ASSUME NEW k \in Handlers, req[k].stage \in Deleting PROVE req[k].id \in Ids
      OBVIOUS
    <3>1. Fit(req[k]) /\ created \in 0 .. MaxProjects
      BY DEF IInv, RequestsFit, TablesFit
    <3> QED
      BY <3>1, ProjectLifeAssumption DEF Fit, Ids
  <2> QED
    BY <1>1, <1>2, <1>3, <2>1, <2>2, <2>3, IdleFits DEF PathOrderly, At, Deleting
<1>10. HeadsFit'
  <2> SUFFICES ASSUME NEW j \in Rows \ stale, row[j].path \notin stray, disk[row[j].path].id = j
               PROVE  HeadFits(j)'
    BY <1>1, <1>3, <1>4 DEF HeadsFit
  <2>1. HeadFits(j) /\ row'[j].path = row[j].path /\ disk'[row[j].path] = disk[row[j].path]
    BY <1>1, <1>3, <1>4 DEF IInv, HeadsFit
  <2>2. CASE j = i
    BY <1>1, <1>2, <1>3, <2>1, <2>2, IdleFits DEF HeadFits, Moved, Updates
  <2>3. CASE j # i
    BY <1>1, <1>2, <1>3, <2>1, <2>3, IdleFits DEF HeadFits, Moved, Updates
  <2> QED
    BY <2>2, <2>3
<1>11. NamesSingle'
  <2> SUFFICES ASSUME NEW m \in Names \ shared PROVE NameSingle(m)'
    BY <1>1 DEF NamesSingle
  <2>1. NameSingle(m) /\ \A k \in Inserting' \cup Checked' : k \in Handlers /\ req'[k] = req[k]
    BY <1>2, <1>4 DEF IInv, NamesSingle
  <2> QED
    BY <1>1, <1>3, <1>4, <2>1 DEF NameSingle
<1> QED
  BY <1>5, <1>6, <1>7, <1>8, <1>9, <1>10, <1>11 DEF IInv

(* A project is archived, or active again: only its name is concerned.     *)
LEMMA ArchivingKeeps ==
  ASSUME IInv, NEW i \in Rows, NEW a \in BOOLEAN, row' = [row EXCEPT ![i].archived = a],
         UNCHANGED <<created, disk, building, released, req, stale, stray, faults>>,
         shared \subseteq shared', shared' \subseteq Names,
         a => \A h \in Checked : req[h].name = row[i].name => row[i].name \in shared',
         ~a => /\ \A j \in Active : row[j].name # row[i].name
               /\ \A g \in Inserting : req[g].name # row[i].name
  PROVE  IInv'
<1>1. /\ row' \in [Ids -> Row] /\ i \in Ids
      /\ \A j \in Ids : /\ row'[j].state = row[j].state /\ row'[j].path = row[j].path
                        /\ row'[j].name = row[j].name /\ row'[j].branch = row[j].branch
      /\ \A j \in Ids : j # i => row'[j].archived = row[j].archived
      /\ row'[i].archived = a
  BY DEF IInv, TablesFit, Row, Rows
<1>2. /\ Rows' = Rows /\ Checked' = Checked /\ Inserting' = Inserting /\ Rows \subseteq Ids
      /\ Active' \subseteq Active \cup {i} /\ (a => i \notin Active') /\ Active \subseteq Rows
  BY <1>1 DEF Rows, Active, Checked, Inserting
<1>3. TablesFit' /\ Room'
  BY <1>1, <1>2 DEF IInv, TablesFit, Room
<1>4. NoneShared' /\ MadeOwn'
  BY <1>1, <1>2 DEF IInv, NoneShared, MadeOwn
<1>5. \A k \in Handlers : Fit(req[k]) /\ (req[k].id \in 1 .. created => req[k].id \in Ids)
  BY ProjectLifeAssumption DEF IInv, RequestsFit, TablesFit, Ids
<1>6. RequestsFit'
  <2>1. ASSUME NEW k \in Handlers PROVE Fit(req[k])'
    BY <1>1, <1>5 DEF Fit
  <2> QED
    BY <2>1 DEF IInv, RequestsFit
<1>7. KeysDiffer'
  <2>1. \A h \in Inserting, j \in Rows :
          row'[j].path # req[h].path /\ (~row'[j].archived => row'[j].name # req[h].name)
    BY <1>1, <1>2 DEF IInv, KeysDiffer
  <2>2. \A j, k \in Active' : row'[j].name = row'[k].name => j = k
    BY <1>1, <1>2 DEF IInv, KeysDiffer
  <2> QED
    BY <1>1, <1>2, <2>1, <2>2 DEF IInv, KeysDiffer
<1>8. Orderly'
  <2> SUFFICES ASSUME NEW q \in Paths \ stray PROVE PathOrderly(q)'
    BY DEF Orderly
  <2>1. PathOrderly(q) /\ \A k \in Handlers : At(k, Deleting, q) => req[k].id \in Ids
    BY <1>5 DEF IInv, Orderly, At, Fit
  <2>2. LiveAt(q)' = LiveAt(q)
    BY <1>1, <1>2 DEF LiveAt
  <2> QED
    BY <1>1, <2>1, <2>2 DEF PathOrderly, At
<1>9. HeadsFit'
  BY <1>1, <1>2 DEF IInv, HeadsFit, HeadFits, Moved, Updates
<1>10. NamesSingle'
  <2> SUFFICES ASSUME NEW m \in Names \ shared' PROVE NameSingle(m)'
    BY DEF NamesSingle
  <2>1. NameSingle(m)
    BY DEF IInv, NamesSingle
  <2> QED
    BY <1>1, <1>2, <2>1 DEF NameSingle
<1> QED
  BY <1>3, <1>4, <1>6, <1>7, <1>8, <1>9, <1>10 DEF IInv

LEMMA ArchiveKeeps ==
  ASSUME IInv, NEW i \in Ids, Archive(i)
  PROVE  IInv'
<1>1. /\ i \in Rows /\ row[i].name \in Names /\ row' = [row EXCEPT ![i].archived = TRUE]
      /\ UNCHANGED <<created, disk, building, released, req, stale, stray, faults>>
  BY DEF Archive, Active, IInv, TablesFit, Rows
<1>2. /\ shared \subseteq shared' /\ shared' \subseteq Names
      /\ \A h \in Checked : req[h].name = row[i].name => row[i].name \in shared'
  BY <1>1 DEF Archive, Checked, IInv, TablesFit
<1> QED
  BY <1>1, <1>2, ArchivingKeeps

LEMMA UnarchiveKeeps ==
  ASSUME IInv, NEW i \in Ids, Unarchive(i)
  PROVE  IInv'
<1>1. /\ i \in Rows /\ row' = [row EXCEPT ![i].archived = FALSE] /\ shared' = shared /\ shared \subseteq Names
      /\ UNCHANGED <<created, disk, building, released, req, stale, stray, faults>>
      /\ \A j \in Active : row[j].name # row[i].name
      /\ \A g \in Inserting : req[g].name # row[i].name
  BY DEF Unarchive, IInv, TablesFit
<1> QED
  BY <1>1, ArchivingKeeps
-----------------------------------------------------------------------------
(* A deletion begins; a second one of the project is on record.            *)
LEMMA DeleteKeeps ==
  ASSUME IInv, NEW h \in Handlers, NEW i \in Ids, Delete(h, i)
  PROVE  IInv'
<1> DEFINE p == row[i].path
           r == [Idle EXCEPT !.stage = "deleting", !.id = i, !.path = p]
<1>1. /\ UNCHANGED <<created, row, disk, building, released, shared, stale, faults>>
      /\ req[h].stage = "idle" /\ req' = [req EXCEPT ![h] = r]
      /\ i \in Rows /\ p \in Paths /\ i <= created
      /\ stray' = IF \E g \in Handlers : req[g].stage \in Deleting /\ req[g].id = i
                  THEN stray \cup {p} ELSE stray
  BY IdleFits DEF Delete, Go, Rows, IInv, TablesFit, Deleting
<1>2. r \in Request /\ r.stage = "deleting" /\ r.path = p /\ r.id = i
  <2>1. "deleting" \in Stages /\ i \in 0 .. MaxProjects
    BY ProjectLifeAssumption DEF Stages, Deleting, Ids
  <2> QED
    BY <1>1, <2>1, IdleFits DEF Request, Idle
<1> HIDE DEF r
<1>3. req'[h] = r /\ req' \in [Handlers -> Request] /\ \A k \in Handlers : k # h => req'[k] = req[k]
  BY <1>1, <1>2 DEF IInv, RequestsFit
<1>4. /\ Rows' = Rows /\ Active' = Active /\ Checked' = Checked /\ Inserting' = Inserting
      /\ Checked \subseteq Handlers \ {h} /\ Inserting \subseteq Handlers \ {h}
      /\ stray \subseteq stray'
  BY <1>1, <1>2, <1>3 DEF Rows, Active, Checked, Inserting
<1>5. TablesFit' /\ Room' /\ NoneShared' /\ MadeOwn'
  <2>1. TablesFit' /\ Room' /\ NoneShared'
    BY <1>1, <1>4 DEF IInv, TablesFit, Room, NoneShared
  <2>2. MadeOwn'
    BY <1>1, <1>2, <1>3 DEF IInv, MadeOwn
  <2> QED
    BY <2>1, <2>2
<1>6. RequestsFit'
  <2>1. ASSUME NEW k \in Handlers, k # h PROVE Fit(req[k])'
    BY <1>1, <1>3, <2>1 DEF IInv, RequestsFit, Fit
  <2>2. Fit(req[h])'
    <3>1. row[i].state = "live" /\ i \in 1 .. created
      BY <1>1 DEF Rows, Ids, IInv, TablesFit
    <3> QED
      BY <1>1, <1>2, <1>3, <3>1 DEF Fit, Creating, Deleting
  <2> QED
    BY <1>3, <2>1, <2>2 DEF RequestsFit
<1>7. KeysDiffer'
  BY <1>1, <1>2, <1>3, <1>4 DEF IInv, KeysDiffer, Creating
<1>8. Orderly'
  <2> SUFFICES ASSUME NEW q \in Paths \ stray' PROVE PathOrderly(q)'
    BY DEF Orderly
  <2>1. PathOrderly(q) /\ LiveAt(q)' = LiveAt(q)
    BY <1>1, <1>4 DEF IInv, Orderly, LiveAt
  <2>2. q = p => \A k \in Handlers : ~At(k, Deleting, q)
    <3> SUFFICES ASSUME q = p, NEW k \in Handlers, At(k, Deleting, q) PROVE FALSE
      OBVIOUS
    <3>1. Fit(req[k]) /\ req[k].path = q /\ req[k].stage \in Deleting /\ created \in 0 .. MaxProjects
      BY DEF At, IInv, RequestsFit, TablesFit
    <3>2. row[req[k].id].state = "live" /\ row[req[k].id].path = q /\ req[k].id \in Ids
      BY <2>1, <3>1, ProjectLifeAssumption DEF PathOrderly, Fit, Ids
    <3>3. req[k].id = i
      BY <1>1, <3>2 DEF IInv, KeysDiffer, Rows
    <3> QED
      BY <1>1, <3>1, <3>3
  <2>3. row[i].state = "live"
    BY <1>1 DEF Rows
  <2> QED
    BY <1>1, <1>2, <1>3, <2>1, <2>2, <2>3 DEF PathOrderly, At, Deleting
<1>9. HeadsFit'
  BY <1>1, <1>2, <1>3, <1>4 DEF IInv, HeadsFit, HeadFits, Moved, Updates
<1>10. NamesSingle'
  <2> SUFFICES ASSUME NEW m \in Names \ shared PROVE NameSingle(m)'
    BY <1>1 DEF NamesSingle
  <2>1. NameSingle(m) /\ \A k \in Inserting' \cup Checked' : k \in Handlers /\ req'[k] = req[k]
    BY <1>3, <1>4 DEF IInv, NamesSingle
  <2> QED
    BY <1>1, <1>4, <2>1 DEF NameSingle
<1> QED
  BY <1>5, <1>6, <1>7, <1>8, <1>9, <1>10 DEF IInv

(* The repository goes first: nothing else is at the path.                 *)
LEMMA MoveToTrashKeeps ==
  ASSUME IInv, NEW h \in Handlers, MoveToTrash(h)
  PROVE  IInv'
<1> DEFINE p == req[h].path
           i == req[h].id
           r == [req[h] EXCEPT !.stage = "trashed"]
<1>1. /\ UNCHANGED <<created, row, building, released, shared, stale, stray, faults>>
      /\ req[h].stage = "deleting" /\ disk' = [disk EXCEPT ![p] = NoRepository]
      /\ req' = [req EXCEPT ![h] = r] /\ p \in Paths /\ Fit(req[h]) /\ req[h] \in Request
      /\ i \in Ids /\ row[i].path = p
  <2>1. Fit(req[h]) /\ created \in 0 .. MaxProjects
    BY DEF IInv, RequestsFit, TablesFit
  <2> QED
    BY <2>1, ProjectLifeAssumption DEF MoveToTrash, Go, Fit, Deleting, Ids
<1>2. r \in Request /\ r.stage = "trashed" /\ r.path = p /\ r.id = i /\ r.name = req[h].name
  <2>1. "trashed" \in Stages
    BY DEF Stages, Deleting
  <2> QED
    BY <1>1, <2>1 DEF Request
<1> HIDE DEF r
<1>3. req'[h] = r /\ req' \in [Handlers -> Request] /\ \A k \in Handlers : k # h => req'[k] = req[k]
  BY <1>1, <1>2 DEF IInv, RequestsFit
<1>4. /\ HeadsFit' /\ disk' \in [Paths -> Repository] /\ disk'[p] = NoRepository
      /\ \A q \in Paths : q # p => disk'[q] = disk[q]
  <2>1. \A k \in Handlers, j \in Ids : Updates(k, j)' <=> Updates(k, j)
    BY <1>1, <1>2, <1>3 DEF Updates
  <2>2. \A k \in Handlers, j \in Ids : Updates(k, j) => req'[k] = req[k]
    BY <1>1, <1>3 DEF Updates
  <2>3. ASSUME NEW q, q = p PROVE
          /\ HeadsFit' /\ disk' \in [Paths -> Repository] /\ disk'[q] = NoRepository
          /\ \A g \in Paths : g # q => disk'[g] = disk[g]
    BY <1>1, <2>1, <2>2, <2>3, GoneHeads
  <2> QED
    BY <2>3
<1>5. /\ Rows' = Rows /\ Active' = Active /\ Checked' = Checked /\ Inserting' = Inserting
      /\ Checked \subseteq Handlers \ {h} /\ Inserting \subseteq Handlers \ {h}
  BY <1>1, <1>2, <1>3 DEF Rows, Active, Checked, Inserting
<1>6. TablesFit' /\ Room' /\ NoneShared'
  <2>1. TablesFit' /\ Room'
    BY <1>1, <1>4, <1>5 DEF IInv, TablesFit, Room, Repository
  <2>2. NoneShared'
    BY <1>1, <1>4, <1>5 DEF IInv, NoneShared, NoRepository, TablesFit, Rows
  <2> QED
    BY <2>1, <2>2
<1>7. RequestsFit'
  <2>1. ASSUME NEW k \in Handlers PROVE Fit(req[k])'
    BY <1>1, <1>2, <1>3 DEF IInv, RequestsFit, Fit, Creating, Deleting
  <2> QED
    BY <1>3, <2>1 DEF RequestsFit
<1>8. KeysDiffer'
  BY <1>1, <1>2, <1>3, <1>5 DEF IInv, KeysDiffer, Creating
<1>9. MadeOwn'
  <2> SUFFICES ASSUME NEW k \in Handlers, req'[k].stage = "made"
               PROVE  disk'[req'[k].path].id \in {req'[k].id, Nobody}
    BY DEF MadeOwn
  <2>1. req'[k] = req[k] /\ req[k].path \in Paths
    BY <1>2, <1>3 DEF IInv, RequestsFit, Fit
  <2> QED
    BY <1>4, <2>1 DEF IInv, MadeOwn, NoRepository
<1>10. Orderly'
  <2> SUFFICES ASSUME NEW q \in Paths \ stray PROVE PathOrderly(q)'
    BY <1>1 DEF Orderly
  <2>1. PathOrderly(q) /\ LiveAt(q)' = LiveAt(q)
    BY <1>1, <1>5 DEF IInv, Orderly, LiveAt
  <2>2. CASE q # p
    BY <1>1, <1>2, <1>3, <1>4, <2>1, <2>2 DEF PathOrderly, At, Deleting
  <2>3. CASE q = p
    <3>1. row[i].state = "live"
      BY <1>1, <2>1, <2>3 DEF PathOrderly, At, Deleting
    <3>2. LiveAt(q) # {}
      BY <1>1, <2>3, <3>1 DEF LiveAt, Rows
    <3>3. \A k \in Handlers : ~At(k, {"made", "removing"}, q)
      BY <2>1, <3>2 DEF PathOrderly, At
    <3>4. \A k \in Handlers : ~At(k, {"made", "removing"}, q)'
      BY <1>2, <1>3, <3>3 DEF At
    <3>5. \A k \in Handlers : At(k, Deleting, q) => k = h
      BY <1>1, <2>1, <2>3 DEF PathOrderly, At, Deleting
    <3>6. \A k \in Handlers : At(k, Deleting, q)' => k = h
      BY <1>3, <3>5 DEF At
    <3>7. disk'[q].id = Nobody
      BY <1>4, <2>3 DEF NoRepository
    <3>8. At(h, {"made", "removing", "trashed"}, q)'
      BY <1>2, <1>3, <2>3 DEF At
    <3>9. \A k \in Handlers : ~At(k, {"made"}, q)'
      BY <3>4 DEF At
    <3> QED
      BY <1>1, <1>2, <1>3, <3>1, <3>4, <3>6, <3>7, <3>8, <3>9 DEF PathOrderly
  <2> QED
    BY <2>2, <2>3
<1>11. NamesSingle'
  <2> SUFFICES ASSUME NEW m \in Names \ shared PROVE NameSingle(m)'
    BY <1>1 DEF NamesSingle
  <2>1. NameSingle(m) /\ \A k \in Inserting' \cup Checked' : k \in Handlers /\ req'[k] = req[k]
    BY <1>3, <1>5 DEF IInv, NamesSingle
  <2> QED
    BY <1>1, <1>5, <2>1 DEF NameSingle
<1> QED
  BY <1>4, <1>6, <1>7, <1>8, <1>9, <1>10, <1>11 DEF IInv

(* The row goes, and nothing was released that would lose its project.     *)
LEMMA CommitDeleteKeeps ==
  ASSUME IInv, NEW h \in Handlers, CommitDelete(h)
  PROVE  IInv'
<1> DEFINE p == req[h].path
           i == req[h].id
<1>1. /\ UNCHANGED <<created, disk, released, shared, stale, stray, faults>>
      /\ req[h].stage = "trashed" /\ ~Restricts(i) /\ building' = building \ {i}
      /\ row' = [row EXCEPT ![i].state = "deleted"] /\ req' = [req EXCEPT ![h] = Idle]
      /\ i \in Ids /\ p \in Paths /\ row[i].path = p /\ row[i].state \in {"live", "deleted"}
  <2>1. Fit(req[h]) /\ created \in 0 .. MaxProjects
    BY DEF IInv, RequestsFit, TablesFit
  <2> QED
    BY <2>1, ProjectLifeAssumption DEF CommitDelete, Close, Go, Fit, Deleting, Ids
<1>2. req'[h] = Idle /\ req' \in [Handlers -> Request] /\ \A k \in Handlers : k # h => req'[k] = req[k]
  BY <1>1, IdleFits DEF IInv, RequestsFit
<1>3. /\ row' \in [Ids -> Row] /\ row'[i].state = "deleted"
      /\ \A j \in Ids : /\ row'[j].path = row[j].path /\ row'[j].name = row[j].name
                        /\ row'[j].archived = row[j].archived /\ row'[j].branch = row[j].branch
      /\ \A j \in Ids : j # i => row'[j] = row[j]
  BY <1>1 DEF IInv, TablesFit, Row
<1>4. /\ Rows' = Rows \ {i} /\ Active' = Active \ {i} /\ Checked' = Checked /\ Inserting' = Inserting
      /\ Rows \subseteq Ids /\ Active \subseteq Rows
      /\ Checked \subseteq Handlers \ {h} /\ Inserting \subseteq Handlers \ {h}
  BY <1>1, <1>2, <1>3, IdleFits DEF Rows, Active, Checked, Inserting
<1>5. TablesFit' /\ Room'
  <2>1. released \subseteq Names \X (Rows \ {i})
    <3> SUFFICES ASSUME NEW x \in released PROVE x \in Names \X (Rows \ {i})
      OBVIOUS
    <3>1. PICK n \in Names, j \in Rows : x = <<n, j>>
      BY DEF IInv, TablesFit
    <3>2. j # i
      BY <1>1, <3>1 DEF Restricts, Owners
    <3> QED
      BY <3>1, <3>2
  <2>2. \A j \in Ids : row'[j].state # "none" => row[j].state # "none"
    BY <1>1, <1>3
  <2> QED
    BY <1>1, <1>3, <1>4, <2>1, <2>2 DEF IInv, TablesFit, Room
<1>6. NoneShared' /\ MadeOwn'
  <2>1. NoneShared'
    BY <1>1, <1>3, <1>4 DEF IInv, NoneShared
  <2>2. MadeOwn'
    BY <1>1, <1>2, IdleFits DEF IInv, MadeOwn
  <2> QED
    BY <2>1, <2>2
<1>7. \A k \in Handlers : Fit(req[k]) /\ (req[k].id \in 1 .. created => req[k].id \in Ids)
  BY ProjectLifeAssumption DEF IInv, RequestsFit, TablesFit, Ids
<1>8. RequestsFit'
  <2>1. ASSUME NEW k \in Handlers, k # h PROVE Fit(req[k])'
    <3>1. Fit(req[k]) /\ req'[k] = req[k] /\ (req[k].id \in 1 .. created => req[k].id \in Ids)
      BY <1>2, <1>7, <2>1
    <3>2. req[k].stage \in Creating => req[k].id # i
      BY <1>1, <3>1 DEF Fit
    <3> QED
      BY <1>1, <1>3, <3>1, <3>2 DEF Fit
  <2>2. Fit(req[h])'
    BY <1>2, IdleFits DEF Fit, Creating, Deleting
  <2> QED
    BY <1>2, <2>1, <2>2 DEF RequestsFit
<1>9. KeysDiffer'
  BY <1>1, <1>2, <1>3, <1>4, IdleFits DEF IInv, KeysDiffer, Creating
<1>10. Orderly'
  <2> SUFFICES ASSUME NEW q \in Paths \ stray PROVE PathOrderly(q)'
    BY <1>1 DEF Orderly
  <2>1. PathOrderly(q)
    BY DEF IInv, Orderly
  <2>2. LiveAt(q)' = LiveAt(q) \ {i}
    BY <1>3, <1>4 DEF LiveAt
  <2>3. CASE q # p
    <3>1. LiveAt(q)' = LiveAt(q)
      BY <1>1, <2>2, <2>3 DEF LiveAt
    <3>2. \A k \in Handlers : At(k, Deleting, q) => req[k].id \in Ids \ {i}
      BY <1>1, <1>7, <2>3 DEF At, Fit
    <3> QED
      BY <1>1, <1>2, <1>3, <2>1, <2>3, <3>1, <3>2, IdleFits DEF PathOrderly, At, Deleting
  <2>4. CASE q = p
    <3>1. disk[q].id = Nobody /\ row[i].state = "live"
      BY <1>1, <2>1, <2>4 DEF PathOrderly, At, Deleting
    <3>2. i \in LiveAt(q) /\ LiveAt(q)' = {}
      <4>1. i \in LiveAt(q) /\ \A j \in LiveAt(q) : j = i
        BY <1>1, <2>4, <3>1 DEF LiveAt, Rows, IInv, KeysDiffer
      <4> QED
        BY <2>2, <4>1
    <3>3. \A k \in Handlers : ~At(k, {"made", "removing"}, q)
      BY <2>1, <3>2 DEF PathOrderly, At
    <3>4. \A k \in Handlers : At(k, Deleting, q) => k = h
      BY <1>1, <2>1, <2>4 DEF PathOrderly, At, Deleting
    <3>5. \A k \in Handlers : ~At(k, {"made", "removing"} \cup Deleting, q)'
      BY <1>2, <3>3, <3>4, IdleFits DEF At, Deleting
    <3> QED
      BY <1>1, <3>1, <3>2, <3>5 DEF PathOrderly, At, Deleting
  <2> QED
    BY <2>3, <2>4
<1>11. HeadsFit'
  <2> SUFFICES ASSUME NEW j \in Rows \ stale, j # i, row[j].path \notin stray, disk[row[j].path].id = j
               PROVE  HeadFits(j)'
    BY <1>1, <1>3, <1>4 DEF HeadsFit
  <2>1. HeadFits(j) /\ row'[j] = row[j]
    BY <1>3, <1>4 DEF IInv, HeadsFit
  <2> QED
    BY <1>1, <1>2, <2>1, IdleFits DEF HeadFits, Moved, Updates
<1>12. NamesSingle'
  <2> SUFFICES ASSUME NEW m \in Names \ shared PROVE NameSingle(m)'
    BY <1>1 DEF NamesSingle
  <2>1. NameSingle(m) /\ \A k \in Inserting' \cup Checked' : k \in Handlers /\ req'[k] = req[k]
    BY <1>2, <1>4 DEF IInv, NamesSingle
  <2> QED
    BY <1>1, <1>3, <1>4, <2>1 DEF NameSingle
<1> QED
  BY <1>5, <1>6, <1>8, <1>9, <1>10, <1>11, <1>12 DEF IInv

LEMMA DeleteRefusedKeeps ==
  ASSUME IInv, NEW h \in Handlers, DeleteRefused(h)
  PROVE  IInv'
<1>1. Fit(req[h]) /\ created \in 0 .. MaxProjects
  BY DEF IInv, RequestsFit, TablesFit
<1>2. /\ Close(h) /\ UNCHANGED <<created, row, disk, building, released, shared, stale, faults>>
      /\ req[h].stage = "trashed" /\ req[h].path \in Paths /\ stray' = stray \cup {req[h].path}
  BY <1>1 DEF DeleteRefused, Fit, Deleting
<1> QED
  BY <1>2, CloseKeeps DEF IInv, TablesFit

LEMMA DieKeeps ==
  ASSUME IInv, NEW h \in Handlers, Die(h)
  PROVE  IInv'
<1>1. Fit(req[h]) /\ created \in 0 .. MaxProjects
  BY DEF IInv, RequestsFit, TablesFit
<1>2. /\ Close(h) /\ UNCHANGED <<created, row, disk, building, released, shared>>
      /\ faults' \in 0 .. MaxFaults
      /\ req[h].stage \in {"made", "removing", "updating", "moved", "trashed"}
  BY ProjectLifeAssumption DEF Die, Spend, IInv, TablesFit
<1>3. CASE req[h].stage = "moved"
  <2>1. stale' = stale \cup {req[h].id} /\ stray' = stray /\ req[h].id \in Ids
    BY <1>1, <1>3, ProjectLifeAssumption DEF Die, Fit, Ids
  <2> QED
    BY <1>2, <1>3, <2>1, CloseKeeps DEF IInv, TablesFit
<1>4. CASE req[h].stage = "updating"
  <2>1. stale' = stale /\ stray' = stray
    BY <1>4 DEF Die
  <2> QED
    BY <1>2, <1>4, <2>1, CloseKeeps DEF IInv, TablesFit
<1>5. CASE req[h].stage \in {"made", "removing", "trashed"}
  <2>1. stray' = stray \cup {req[h].path} /\ stale' = stale /\ req[h].path \in Paths
    BY <1>1, <1>5 DEF Die, Fit
  <2> QED
    BY <1>2, <1>5, <2>1, CloseKeeps DEF IInv, TablesFit
<1> QED
  BY <1>2, <1>3, <1>4, <1>5

(* Builds and releases touch neither rows nor repositories.                *)
LEMMA BuildsKeep ==
  ASSUME IInv, UNCHANGED <<created, row, disk, req, shared, stale, stray, faults>>,
         building' \subseteq Rows, released' \subseteq Names \X Rows,
         \A n \in Names, j \in Ids : <<n, j>> \in released' => row[j].name = n
  PROVE  IInv'
<1>1. Rows' = Rows /\ Active' = Active /\ Checked' = Checked /\ Inserting' = Inserting
  BY DEF Rows, Active, Checked, Inserting
<1>2. TablesFit' /\ Room' /\ NoneShared' /\ MadeOwn'
  BY <1>1 DEF IInv, TablesFit, Room, NoneShared, MadeOwn
<1>3. RequestsFit' /\ KeysDiffer' /\ NamesSingle'
  BY <1>1 DEF IInv, RequestsFit, Fit, KeysDiffer, NamesSingle, NameSingle
<1>4. Orderly' /\ HeadsFit'
  BY <1>1 DEF IInv, Orderly, PathOrderly, At, LiveAt, HeadsFit, HeadFits, Moved, Updates
<1> QED
  BY <1>2, <1>3, <1>4 DEF IInv

LEMMA StartBuildKeeps ==
  ASSUME IInv, NEW i \in Ids, StartBuild(i)
  PROVE  IInv'
<1>1. building' \subseteq Rows
  BY DEF StartBuild, Active, IInv, TablesFit
<1> QED
  BY <1>1, BuildsKeep DEF StartBuild, IInv, TablesFit

LEMMA ReleaseKeeps ==
  ASSUME IInv, NEW i \in Ids, Release(i)
  PROVE  IInv'
<1>1. i \in Rows /\ row[i].name \in Names
  BY DEF Release, IInv, TablesFit, Rows
<1>2. /\ building' \subseteq Rows /\ released' \subseteq Names \X Rows
      /\ \A n \in Names, j \in Ids : <<n, j>> \in released' => row[j].name = n
  BY <1>1 DEF Release, IInv, TablesFit
<1> QED
  BY <1>2, BuildsKeep DEF Release
-----------------------------------------------------------------------------
LEMMA NextKeeps == IInv /\ [Next]_vars => IInv'
<1> SUFFICES ASSUME IInv, [Next]_vars PROVE IInv'
  OBVIOUS
<1>1. CASE UNCHANGED vars
  BY <1>1, BuildsKeep DEF vars, IInv, TablesFit
<1>2. CASE \E h \in Handlers :
       \/ \E p \in Paths, n \in Names : Create(h, p, n)
       \/ Insert(h) \/ MakeRepository(h) \/ MakeFails(h) \/ CommitCreate(h) \/ CreateFails(h)
       \/ RemoveRepository(h) \/ MoveHead(h) \/ CommitUpdate(h) \/ MoveToTrash(h) \/ CommitDelete(h)
       \/ DeleteRefused(h) \/ Die(h)
  BY <1>2, CreateKeeps, InsertKeeps, MakeRepositoryKeeps, MakeFailsKeeps, CommitCreateKeeps,
     CreateFailsKeeps, RemoveRepositoryKeeps, MoveHeadKeeps, CommitUpdateKeeps, MoveToTrashKeeps, CommitDeleteKeeps,
     DeleteRefusedKeeps, DieKeeps
<1>3. CASE \E h \in Handlers, i \in Ids : Delete(h, i) \/ \E b \in Branches : Update(h, i, b)
  BY <1>3, DeleteKeeps, UpdateKeeps
<1>4. CASE \E i \in Ids : Archive(i) \/ Unarchive(i) \/ StartBuild(i) \/ Release(i)
  BY <1>4, ArchiveKeeps, UnarchiveKeeps, StartBuildKeeps, ReleaseKeeps
<1> QED
  BY <1>1, <1>2, <1>3, <1>4 DEF Next

(* The inductive invariant: what rows, repositories, names and requests    *)
(* have to do with each other at every moment, faults included.            *)
THEOREM ProjectLifeInvariant == Spec => []IInv
  BY InitHolds, NextKeeps, PTL DEF Spec

(* The tables, repositories and requests are of their types; a build and a *)
(* release have their project.                                             *)
THEOREM TypesHold == Spec => []TypeOK
<1>1. IInv => TypeOK
  <2> SUFFICES ASSUME IInv PROVE TypeOK
    OBVIOUS
  <2>1. \A h \in Handlers : req[h].id \in 0 .. created
    <3> SUFFICES ASSUME NEW h \in Handlers PROVE req[h].id \in 0 .. created
      OBVIOUS
    <3>1. Fit(req[h]) /\ req[h].stage \in Stages /\ created \in 0 .. MaxProjects
      BY DEF IInv, RequestsFit, TablesFit, Request
    <3>2. CASE req[h].stage \in {"idle", "checked"}
      BY <3>1, <3>2, ProjectLifeAssumption DEF Fit, Nobody
    <3>3. CASE req[h].stage \in Creating \cup Deleting \cup {"updating", "moved"}
      BY <3>1, <3>3, ProjectLifeAssumption DEF Fit
    <3> QED
      BY <3>1, <3>2, <3>3 DEF Stages
  <2> QED
    BY <2>1 DEF IInv, TablesFit, Row, TypeOK
<1> QED
  BY <1>1, ProjectLifeInvariant, PTL

(* No two projects share a repository; where no step between disk and      *)
(* database failed and nothing was deleted twice at once, every project    *)
(* has its repository, every repository its project, and HEAD is the       *)
(* default branch.                                                         *)
THEOREM RepositoriesStayMatched == Spec => []RepositoriesMatch
<1>1. IInv => RepositoriesMatch
  <2> SUFFICES ASSUME IInv PROVE NoneAlone /\ HeadsAgree
    BY DEF RepositoriesMatch, IInv
  <2>1. NoneAlone
    <3> SUFFICES ASSUME NEW p \in Paths \ (Busy \cup stray) PROVE LiveAt(p) = {disk[p].id} \ {Nobody}
      BY DEF NoneAlone, LiveAt
    <3>1. \A h \in Handlers : req[h].path # p
      BY DEF Busy
    <3> QED
      BY <3>1 DEF IInv, Orderly, PathOrderly, At
  <2>2. HeadsAgree
    <3> SUFFICES ASSUME NEW i \in Rows \ stale, row[i].path \notin Busy \cup stray
                 PROVE  disk[row[i].path].head = row[i].branch
      BY DEF HeadsAgree
    <3>1. row[i].path \in Paths /\ i \in {j \in Rows : row[j].path = row[i].path}
      BY DEF IInv, TablesFit, Rows
    <3>2. disk[row[i].path].id = i
      BY <2>1, <3>1 DEF NoneAlone
    <3>3. \A h \in Handlers : ~Updates(h, i)
      BY DEF Updates, IInv, RequestsFit, Fit, Busy
    <3> QED
      BY <3>2, <3>3 DEF IInv, HeadsFit, HeadFits, Moved
  <2> QED
    BY <2>1, <2>2
<1> QED
  BY <1>1, ProjectLifeInvariant, PTL

(* A name that was not given twice, to a project that had released nothing *)
(* and was archived and to another, has one project whose permission is    *)
(* asked.                                                                  *)
THEOREM OneProjectAPackage == Spec => []OneProjectUnlessShared
<1>1. IInv => OneProjectUnlessShared
  <2> SUFFICES ASSUME IInv, NEW n \in Names \ shared PROVE Cardinality(project_for_package(n)) <= 1
    BY DEF OneProjectUnlessShared
  <2>1. project_for_package(n) \subseteq {i \in Rows : row[i].name = n}
    BY DEF project_for_package, Owners, IInv, TablesFit
  <2>2. \A i, j \in project_for_package(n) : i = j
    BY <2>1 DEF IInv, NamesSingle, NameSingle
  <2>3. CASE project_for_package(n) = {}
    BY <2>3, FS_EmptySet
  <2>4. CASE project_for_package(n) # {}
    <3>1. PICK i : i \in project_for_package(n)
      BY <2>4
    <3>2. project_for_package(n) = {i}
      BY <2>2, <3>1
    <3> QED
      BY <3>2, FS_Singleton
  <2> QED
    BY <2>3, <2>4
<1> QED
  BY <1>1, ProjectLifeInvariant, PTL
=============================================================================
