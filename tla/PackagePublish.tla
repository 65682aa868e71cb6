--------------------------- MODULE PackagePublish ---------------------------
(***************************************************************************)
(* package_service.publish, run by several release builds of one project   *)
(* at the same time.                                                       *)
(*                                                                         *)
(* A publish holds the row lock of its own build only.  It reads the       *)
(* project, checks that the version is free, uploads the files to MinIO    *)
(* under keys made of the package, the version and the file name, inserts  *)
(* the package_versions row, and commits it together with the project's    *)
(* latest release.  Between these steps other publishes go on; the unique  *)
(* constraint on the version is what decides between two of them, after    *)
(* both may have written their files.                                      *)
(***************************************************************************)
EXTENDS Naturals, FiniteSets

CONSTANTS
  Builds,     (* release builds that publish, once each                    *)
  VersionOf,  (* the version each one publishes: its rank, from 1 up       *)
  Files,      (* the files of a release                                    *)
  NoBuild,
  MaxFaults   (* bound: errors of MinIO, crashes of the API                *)

ASSUME PublishAssumption ==
  /\ VersionOf \in [Builds -> Nat \ {0}]
  /\ NoBuild \notin Builds
  /\ MaxFaults \in Nat

VARIABLES
  pc,        (* progress of each publish                                   *)
  uploaded,  (* its list of keys it has put                                *)
  seen,      (* projects.latest_release_version as it read it; 0 is NULL   *)
  objects,   (* MinIO: whose bytes are stored under (version, file)        *)
  inserted,  (* the version's row not yet committed, by build              *)
  released,  (* package_versions: the build of each committed version      *)
  latest,    (* projects.latest_release_version and latest_release_build_id *)
  below,     (* history: versions released when the publish read the project *)
  passed,    (* history: versions left above the latest release            *)
  raced,     (* history: versions two publishes were uploading at once     *)
  faults

storeVars == <<objects, uploaded>>
dbVars    == <<inserted, released, latest>>
vars == <<pc, seen, storeVars, dbVars, below, passed, raced, faults>>

Versions == {VersionOf[b] : b \in Builds}
Keys == Versions \X Files
Places == {"idle", "loaded", "uploading", "inserted", "cleaning", "over"}

Init ==
  /\ pc = [b \in Builds |-> "idle"]
  /\ uploaded = [b \in Builds |-> {}]
  /\ seen = [b \in Builds |-> 0]
  /\ objects = [k \in Keys |-> NoBuild]
  /\ inserted = [v \in Versions |-> NoBuild]
  /\ released = [v \in Versions |-> NoBuild]
  /\ latest = [version |-> 0, build |-> NoBuild]
  /\ below = [b \in Builds |-> {}]
  /\ passed = {}
  /\ raced = {}
  /\ faults = 0

Spend == faults < MaxFaults /\ faults' = faults + 1

Go(b, place) == pc' = [pc EXCEPT ![b] = place]
Key(b, f) == <<VersionOf[b], f>>

Released == {v \in Versions : released[v] # NoBuild}

(* Builds whose publish of the same version is past its check.             *)
Rivals(b) == {x \in Builds \ {b} :
                VersionOf[x] = VersionOf[b] /\ pc[x] \in {"uploading", "inserted", "cleaning"}}

-----------------------------------------------------------------------------
(* The build row is locked and the project comes with it, not locked.      *)
Load(b) ==
  /\ pc[b] = "idle"
  /\ Go(b, "loaded")
  /\ seen' = [seen EXCEPT ![b] = latest.version]
  /\ below' = [below EXCEPT ![b] = Released]
  /\ UNCHANGED <<storeVars, dbVars, passed, raced, faults>>

(* Mutant: the version may be taken already.                               *)
FreeAlways(v) == TRUE
Free(v) == released[v] = NoBuild

(* The checks for a taken version, before and after the files were read:   *)
(* 409 PACKAGE_VERSION_EXISTS.  The files may be refused too.              *)
Refused(b) ==
  /\ pc[b] = "loaded"
  /\ Go(b, "over")
  /\ UNCHANGED <<seen, storeVars, dbVars, below, passed, raced, faults>>

Checked(b) ==
  /\ pc[b] = "loaded"
  /\ Free(VersionOf[b])
  /\ Go(b, "uploading")
  /\ raced' = IF Rivals(b) = {} THEN raced ELSE raced \cup {VersionOf[b]}
  /\ UNCHANGED <<seen, storeVars, dbVars, below, passed, faults>>

(* Mutant: the list holds keys where the clean-up expects file names.      *)
UploadListsKey(b, f) ==
  /\ pc[b] = "uploading"
  /\ f \notin uploaded[b]
  /\ objects' = [objects EXCEPT ![Key(b, f)] = b]
  /\ uploaded' = [uploaded EXCEPT ![b] = @ \cup {Key(b, f)}]
  /\ UNCHANGED <<pc, seen, dbVars, below, passed, raced, faults>>

Upload(b, f) ==
  /\ pc[b] = "uploading"
  /\ f \notin uploaded[b]
  /\ objects' = [objects EXCEPT ![Key(b, f)] = b]
  /\ uploaded' = [uploaded EXCEPT ![b] = @ \cup {f}]
  /\ UNCHANGED <<pc, seen, dbVars, below, passed, raced, faults>>

(* put_object raises; the object may be stored all the same, but its key   *)
(* is not in the list.                                                     *)
UploadFails(b, f) ==
  /\ pc[b] = "uploading"
  /\ f \notin uploaded[b]
  /\ Spend
  /\ objects' \in {objects, [objects EXCEPT ![Key(b, f)] = b]}
  /\ Go(b, "cleaning")
  /\ UNCHANGED <<seen, uploaded, dbVars, below, passed, raced>>

(* Mutant: an insert of a released version is taken for a wait.            *)
InsertWaits(b) ==
  /\ pc[b] = "uploading"
  /\ uploaded[b] = Files
  /\ inserted[VersionOf[b]] = NoBuild
  /\ Free(VersionOf[b])
  /\ Go(b, "inserted") /\ inserted' = [inserted EXCEPT ![VersionOf[b]] = b]
  /\ UNCHANGED <<seen, storeVars, released, latest, below, passed, raced, faults>>

(* The insert waits while another transaction has the same version         *)
(* inserted; once that is committed it raises IntegrityError.              *)
Insert(b) ==
  /\ pc[b] = "uploading"
  /\ uploaded[b] = Files
  /\ inserted[VersionOf[b]] = NoBuild
  /\ IF Free(VersionOf[b])
     THEN Go(b, "inserted") /\ inserted' = [inserted EXCEPT ![VersionOf[b]] = b]
     ELSE Go(b, "cleaning") /\ UNCHANGED inserted
  /\ UNCHANGED <<seen, storeVars, released, latest, below, passed, raced, faults>>

(* Mutant: the latest release follows the order of publishing.             *)
NewestLatest(b) == [version |-> VersionOf[b], build |-> b]

(* Mutant: the build of the latest release is forgotten.                   *)
LatestVersionOnly(b) == IF VersionOf[b] > seen[b] THEN [latest EXCEPT !.version = VersionOf[b]]
                                                  ELSE latest

(* The project is written if the version is above the one read by Load.    *)
HighestLatest(b) ==
  IF VersionOf[b] > seen[b] THEN [version |-> VersionOf[b], build |-> b] ELSE latest

(* Released versions that a commit leaves above the latest release: some   *)
(* released since it read the project, and its own if the latest release   *)
(* was moved meanwhile.                                                    *)
Overtaken(b) ==
  {v \in (Released \ below[b]) \cup (IF seen[b] = latest.version THEN {} ELSE {VersionOf[b]}) :
     v > HighestLatest(b).version}

Commit(b) ==
  /\ pc[b] = "inserted"
  /\ Go(b, "over")
  /\ inserted' = [inserted EXCEPT ![VersionOf[b]] = NoBuild]
  /\ released' = [released EXCEPT ![VersionOf[b]] = b]
  /\ latest' = HighestLatest(b)
  /\ passed' = passed \cup Overtaken(b)
  /\ UNCHANGED <<seen, storeVars, below, raced, faults>>

(* _cleanup removes the keys of the list, whoever wrote them last; an      *)
(* error is logged and the key skipped.                                    *)
Clean(b, f) ==
  /\ pc[b] = "cleaning"
  /\ f \in uploaded[b]
  /\ \/ objects' = [objects EXCEPT ![Key(b, f)] = NoBuild] /\ UNCHANGED faults
     \/ Spend /\ UNCHANGED objects
  /\ uploaded' = [uploaded EXCEPT ![b] = @ \ {f}]
  /\ UNCHANGED <<pc, seen, dbVars, below, passed, raced>>

Cleaned(b) ==
  /\ pc[b] = "cleaning"
  /\ uploaded[b] = {}
  /\ Go(b, "over")
  /\ UNCHANGED <<seen, storeVars, dbVars, below, passed, raced, faults>>

(* The API dies or the commit fails: the transaction is rolled back and    *)
(* what was uploaded stays.                                                *)
Crash(b) ==
  /\ pc[b] \in {"loaded", "uploading", "inserted", "cleaning"}
  /\ Spend
  /\ Go(b, "over")
  /\ inserted' = [v \in Versions |-> IF inserted[v] = b THEN NoBuild ELSE inserted[v]]
  /\ UNCHANGED <<seen, storeVars, released, latest, below, passed, raced>>

Step(b) ==
  \/ Load(b) \/ Refused(b) \/ Checked(b) \/ Insert(b) \/ Commit(b) \/ Cleaned(b)
  \/ \E f \in Files : Upload(b, f) \/ UploadFails(b, f) \/ Clean(b, f)

Next == \E b \in Builds : Step(b) \/ Crash(b)

Spec == Init /\ [][Next]_vars

(* A request that was accepted is carried on with while the API lives.     *)
FairSpec == Spec /\ \A b \in Builds : WF_vars(Step(b))

-----------------------------------------------------------------------------
(* Properties.                                                             *)

TypeOK ==
  /\ pc \in [Builds -> Places]
  /\ uploaded \in [Builds -> SUBSET Files]
  /\ seen \in [Builds -> Nat]
  /\ objects \in [Keys -> Builds \cup {NoBuild}]
  /\ inserted \in [Versions -> Builds \cup {NoBuild}]
  /\ released \in [Versions -> Builds \cup {NoBuild}]
  /\ latest \in [version : Nat, build : Builds \cup {NoBuild}]
  /\ below \in [Builds -> SUBSET Versions]
  /\ passed \subseteq Versions /\ raced \subseteq Versions
  /\ faults \in Nat

(* A released version whose publish met no other one of the same version   *)
(* is intact: every file is in the store with the bytes that were          *)
(* recorded, whatever publishes failed or died on that version before, and *)
(* whatever was refused after.                                             *)
UnracedIntact ==
  \A v \in Versions, f \in Files :
    released[v] # NoBuild /\ v \notin raced => objects[<<v, f>>] = released[v]

(* The project's latest release is a release, by the build it names.       *)
LatestReleased ==
  latest.version # 0 => released[latest.version] = latest.build /\ latest.build # NoBuild

(* The latest release is the highest one, but for versions that a publish  *)
(* overtook which was under way while they were released: the project is   *)
(* compared as it was before the upload, and not locked                    *)
(* (package_service.py:157-160).                                           *)
HighestUnlessOvertaken == \A v \in Released \ passed : v <= latest.version

(* Every publish comes to an end: none waits for ever on the insert of     *)
(* another.                                                                *)
EveryPublishEnds == \A b \in Builds : pc[b] # "idle" ~> pc[b] = "over"
=============================================================================
