------------------------- MODULE PackagePublishProofs -------------------------
(***************************************************************************)
(* What PackagePublish guarantees for any number of builds, versions and   *)
(* files, and any number of faults.                                        *)
(***************************************************************************)
EXTENDS PackagePublish, TLAPS

Active(b) == pc[b] \in {"uploading", "inserted", "cleaning"}

(* A publish that has put nothing has no keys to clean; a row that is      *)
(* inserted and not committed belongs to one publish, which has put every  *)
(* file and finds its version free.                                        *)
Fresh == \A b \in Builds : pc[b] \in {"idle", "loaded"} => uploaded[b] = {}
Held ==
  /\ \A v \in Versions : inserted[v] # NoBuild =>
       inserted[v] \in Builds /\ pc[inserted[v]] = "inserted" /\ VersionOf[inserted[v]] = v
  /\ \A b \in Builds : pc[b] = "inserted" =>
       inserted[VersionOf[b]] = b /\ released[VersionOf[b]] = NoBuild /\ uploaded[b] = Files

(* A version that was not raced for has one publish past its check at      *)
(* most, before the release only, and its files are the ones it has put.   *)
Alone(v) ==
  /\ \A b, c \in Builds : Active(b) /\ Active(c) /\ VersionOf[b] = v /\ VersionOf[c] = v => b = c
  /\ \A b \in Builds : Active(b) /\ VersionOf[b] = v => released[v] = NoBuild
  /\ \A b \in Builds : pc[b] \in {"uploading", "inserted"} /\ VersionOf[b] = v =>
       \A f \in uploaded[b] : objects[<<v, f>>] = b
  /\ released[v] # NoBuild => \A f \in Files : objects[<<v, f>>] = released[v]
Unraced == \A v \in Versions \ raced : Alone(v)

(* What a publish saw as the latest release was the highest.               *)
SawHighest == \A b \in Builds : \A v \in below[b] \ passed : v <= seen[b]

IInv ==
  TypeOK /\ Fresh /\ Held /\ Unraced /\ SawHighest /\ LatestReleased /\ HighestUnlessOvertaken
-----------------------------------------------------------------------------
LEMMA VersionsAre == \A b \in Builds : VersionOf[b] \in Versions /\ VersionOf[b] \in Nat /\ VersionOf[b] # 0
  BY PublishAssumption DEF Versions

LEMMA VersionsNat == Versions \subseteq Nat /\ 0 \notin Versions
  BY PublishAssumption DEF Versions

LEMMA InitHolds == Init => IInv
<1> SUFFICES ASSUME Init PROVE IInv
  OBVIOUS
<1>1. TypeOK
  BY DEF Init, TypeOK, Places
<1>2. Fresh /\ Held /\ SawHighest /\ LatestReleased /\ HighestUnlessOvertaken
  BY DEF Init, Fresh, Held, SawHighest, LatestReleased, HighestUnlessOvertaken, Released
<1>3. Unraced
  BY DEF Init, Unraced, Alone, Active
<1> QED
  BY <1>1, <1>2, <1>3 DEF IInv

(* Steps that only end a publish, or lead it on where nothing is stored.   *)
LEMMA LeavesKeep ==
  ASSUME IInv, NEW b \in Builds, NEW place \in {"loaded", "over", "cleaning"}, Go(b, place),
         pc[b] # "inserted", place = "loaded" => pc[b] = "idle", place = "cleaning" => Active(b),
         UNCHANGED <<storeVars, dbVars, passed, raced>>, faults' \in Nat,
         seen' \in [Builds -> Nat], below' \in [Builds -> SUBSET Versions], SawHighest'
  PROVE  IInv'
<1>1. pc' \in [Builds -> Places] /\ pc'[b] = place /\ \A c \in Builds \ {b} : pc'[c] = pc[c]
  BY DEF Go, IInv, TypeOK, Places
<1>2. TypeOK'
  BY <1>1 DEF IInv, TypeOK, storeVars, dbVars
<1>3. Fresh' /\ Held'
  BY <1>1 DEF IInv, Fresh, Held, storeVars, dbVars
<1>4. LatestReleased' /\ HighestUnlessOvertaken'
  BY DEF IInv, LatestReleased, HighestUnlessOvertaken, Released, dbVars
<1>5. Unraced'
  <2> SUFFICES ASSUME NEW v \in Versions \ raced PROVE Alone(v)'
    BY DEF Unraced
  <2>1. Alone(v) /\ \A c \in Builds : Active(c)' => Active(c)
    BY <1>1 DEF IInv, Unraced, Active
  <2> QED
    BY <1>1, <2>1 DEF Alone, storeVars, dbVars
<1> QED
  BY <1>2, <1>3, <1>4, <1>5 DEF IInv

LEMMA LoadKeeps ==
  ASSUME IInv, NEW b \in Builds, Load(b)
  PROVE  IInv'
<1>1. /\ seen' = [seen EXCEPT ![b] = latest.version] /\ below' = [below EXCEPT ![b] = Released]
      /\ latest.version \in Nat /\ Released \subseteq Versions
  BY DEF Load, IInv, TypeOK, Released
<1>2. seen' \in [Builds -> Nat] /\ below' \in [Builds -> SUBSET Versions]
  BY <1>1 DEF IInv, TypeOK
<1>3. SawHighest'
  BY <1>1 DEF Load, IInv, TypeOK, SawHighest, HighestUnlessOvertaken
<1> QED
  BY <1>2, <1>3, LeavesKeep DEF Load, IInv, TypeOK

LEMMA RefusedKeeps ==
  ASSUME IInv, NEW b \in Builds, Refused(b) \/ Cleaned(b)
  PROVE  IInv'
<1>1. SawHighest'
  BY DEF Refused, Cleaned, IInv, SawHighest
<1> QED
  BY <1>1, LeavesKeep DEF Refused, Cleaned, IInv, TypeOK

(* The first past the check is alone; the second makes it a race.          *)
LEMMA CheckedKeeps ==
  ASSUME IInv, NEW b \in Builds, Checked(b)
  PROVE  IInv'
<1>1. /\ UNCHANGED <<seen, storeVars, dbVars, below, passed, faults>>
      /\ pc[b] = "loaded" /\ released[VersionOf[b]] = NoBuild /\ uploaded[b] = {}
      /\ pc' \in [Builds -> Places] /\ pc'[b] = "uploading" /\ \A c \in Builds \ {b} : pc'[c] = pc[c]
  BY DEF Checked, Go, Free, IInv, TypeOK, Places, Fresh
<1>2. raced \subseteq raced' /\ raced' \subseteq Versions
  BY VersionsAre DEF Checked, IInv, TypeOK
<1>3. TypeOK' /\ Fresh' /\ Held' /\ SawHighest'
  BY <1>1, <1>2 DEF IInv, TypeOK, Fresh, Held, SawHighest, storeVars, dbVars
<1>4. LatestReleased' /\ HighestUnlessOvertaken'
  BY <1>1 DEF IInv, LatestReleased, HighestUnlessOvertaken, Released, dbVars
<1>5. Unraced'
  <2> SUFFICES ASSUME NEW v \in Versions \ raced' PROVE Alone(v)'
    BY DEF Unraced
  <2>1. Alone(v)
    BY <1>2 DEF IInv, Unraced
  <2>2. v = VersionOf[b] => \A c \in Builds \ {b} : VersionOf[c] = v => ~Active(c)
    BY DEF Checked, Rivals, Active
  <2>3. \A c \in Builds \ {b} : Active(c)' <=> Active(c)
    BY <1>1 DEF Active
  <2>4. \A c, d \in Builds : Active(c)' /\ Active(d)' /\ VersionOf[c] = v /\ VersionOf[d] = v => c = d
    BY <2>1, <2>2, <2>3 DEF Alone
  <2>5. \A c \in Builds : Active(c)' /\ VersionOf[c] = v => released[v] = NoBuild
    BY <1>1, <2>1, <2>3 DEF Alone
  <2> QED
    BY <1>1, <2>1, <2>4, <2>5 DEF Alone, storeVars, dbVars
<1> QED
  BY <1>3, <1>4, <1>5 DEF IInv

(* An object is written, by a publish that is past its check.              *)
LEMMA UploadKeeps ==
  ASSUME IInv, NEW b \in Builds, NEW f \in Files, pc[b] = "uploading", f \notin uploaded[b],
         objects' \in {objects, [objects EXCEPT ![Key(b, f)] = b]},
         \/ pc' = pc /\ uploaded' = [uploaded EXCEPT ![b] = @ \cup {f}]
            /\ objects' = [objects EXCEPT ![Key(b, f)] = b]
         \/ Go(b, "cleaning") /\ uploaded' = uploaded,
         UNCHANGED <<seen, dbVars, below, passed, raced>>, faults' \in Nat
  PROVE  IInv'
<1>1. /\ pc' \in [Builds -> Places] /\ \A c \in Builds \ {b} : pc'[c] = pc[c]
      /\ pc'[b] = "cleaning" \/ pc'[b] = "uploading"
  BY DEF Go, IInv, TypeOK, Places
<1>2. /\ uploaded' \in [Builds -> SUBSET Files] /\ \A c \in Builds \ {b} : uploaded'[c] = uploaded[c]
      /\ uploaded'[b] \subseteq uploaded[b] \cup {f}
      /\ f \in uploaded'[b] => objects' = [objects EXCEPT ![Key(b, f)] = b]
  BY DEF IInv, TypeOK
<1>3. /\ Key(b, f) \in Keys /\ objects' \in [Keys -> Builds \cup {NoBuild}]
      /\ \A k \in Keys : k # Key(b, f) => objects'[k] = objects[k]
      /\ f \in uploaded'[b] => objects'[Key(b, f)] = b
  BY <1>2, VersionsAre DEF Key, Keys, IInv, TypeOK
<1>4. TypeOK' /\ Fresh' /\ Held' /\ SawHighest'
  <2>1. TypeOK' /\ SawHighest'
    BY <1>1, <1>2, <1>3 DEF IInv, TypeOK, SawHighest, dbVars
  <2>2. Fresh' /\ Held'
    BY <1>1, <1>2 DEF IInv, Fresh, Held, dbVars
  <2> QED
    BY <2>1, <2>2
<1>5. LatestReleased' /\ HighestUnlessOvertaken'
  BY DEF IInv, LatestReleased, HighestUnlessOvertaken, Released, dbVars
<1>6. Unraced'
  <2> SUFFICES ASSUME NEW v \in Versions \ raced PROVE Alone(v)'
    BY DEF Unraced
  <2>1. Alone(v) /\ \A c \in Builds : Active(c)' => Active(c)
    BY <1>1 DEF IInv, Unraced, Active
  <2>2. CASE v # VersionOf[b]
    <3>1. \A g \in Files : objects'[<<v, g>>] = objects[<<v, g>>]
      BY <1>3, <2>2 DEF Key, Keys
    <3>2. \A c \in Builds \ {b} : uploaded'[c] \subseteq Files /\ pc'[c] = pc[c] /\ uploaded'[c] = uploaded[c]
      BY <1>1, <1>2
    <3> QED
      BY <2>1, <2>2, <3>1, <3>2 DEF Alone, dbVars
  <2>3. CASE v = VersionOf[b]
    <3>1. released[v] = NoBuild /\ \A c \in Builds : Active(c) /\ VersionOf[c] = v => c = b
      BY <2>1, <2>3 DEF Alone, Active
    <3>2. \A c \in Builds : pc'[c] \in {"uploading", "inserted"} /\ VersionOf[c] = v => c = b
      BY <2>1, <3>1 DEF Active
    <3>3. \A g \in uploaded'[b] : objects'[<<v, g>>] = b
      <4> SUFFICES ASSUME NEW g \in uploaded'[b] PROVE objects'[<<v, g>>] = b
        OBVIOUS
      <4>1. CASE g = f
        BY <1>3, <2>3, <4>1 DEF Key
      <4>2. CASE g # f
        <5>1. g \in uploaded[b] /\ g \in Files
          BY <1>2, <4>2
        <5>2. objects[<<v, g>>] = b
          BY <2>1, <2>3, <5>1 DEF Alone
        <5> QED
          BY <1>3, <2>3, <4>2, <5>1, <5>2 DEF Key, Keys
      <4> QED
        BY <4>1, <4>2
    <3> QED
      BY <2>1, <3>1, <3>2, <3>3 DEF Alone, dbVars
  <2> QED
    BY <2>2, <2>3
<1> QED
  BY <1>4, <1>5, <1>6 DEF IInv

(* The unique constraint: the row is inserted by one, and refused to who   *)
(* comes after the commit of another, which was a race.                    *)
LEMMA InsertKeeps ==
  ASSUME IInv, NEW b \in Builds, Insert(b)
  PROVE  IInv'
<1>1. CASE ~Free(VersionOf[b])
  <2>1. SawHighest'
    BY DEF Insert, IInv, SawHighest
  <2>2. Go(b, "cleaning") /\ inserted' = inserted /\ pc[b] = "uploading"
    BY <1>1 DEF Insert
  <2> QED
    BY <2>1, <2>2, LeavesKeep DEF Insert, Active, IInv, TypeOK, dbVars
<1>2. CASE Free(VersionOf[b])
  <2>1. /\ UNCHANGED <<seen, storeVars, released, latest, below, passed, raced, faults>>
        /\ pc[b] = "uploading" /\ uploaded[b] = Files /\ inserted[VersionOf[b]] = NoBuild
        /\ released[VersionOf[b]] = NoBuild
        /\ pc' \in [Builds -> Places] /\ pc'[b] = "inserted" /\ \A c \in Builds \ {b} : pc'[c] = pc[c]
        /\ inserted' = [inserted EXCEPT ![VersionOf[b]] = b]
    BY <1>2 DEF Insert, Go, Free, IInv, TypeOK, Places
  <2>2. /\ inserted' \in [Versions -> Builds \cup {NoBuild}] /\ inserted'[VersionOf[b]] = b
        /\ \A v \in Versions \ {VersionOf[b]} : inserted'[v] = inserted[v]
    BY <2>1, VersionsAre DEF IInv, TypeOK
  <2>3. TypeOK' /\ Fresh' /\ SawHighest'
    BY <2>1, <2>2 DEF IInv, TypeOK, Fresh, SawHighest, storeVars
  <2>4. Held'
    BY <2>1, <2>2, VersionsAre, PublishAssumption DEF IInv, Held, TypeOK, storeVars
  <2>5. LatestReleased' /\ HighestUnlessOvertaken'
    BY <2>1 DEF IInv, LatestReleased, HighestUnlessOvertaken, Released
  <2>6. Unraced'
    <3> SUFFICES ASSUME NEW v \in Versions \ raced PROVE Alone(v)'
      BY <2>1 DEF Unraced
    <3>1. Alone(v) /\ \A c \in Builds : Active(c)' <=> Active(c)
      BY <2>1 DEF IInv, Unraced, Active
    <3> QED
      BY <2>1, <3>1 DEF Alone, storeVars
  <2> QED
    BY <2>3, <2>4, <2>5, <2>6 DEF IInv
<1> QED
  BY <1>1, <1>2

(* The release is committed, with the project as it was read.              *)
LEMMA CommitKeeps ==
  ASSUME IInv, NEW b \in Builds, Commit(b)
  PROVE  IInv'
<1> DEFINE v == VersionOf[b]
<1>1. /\ UNCHANGED <<seen, storeVars, below, raced, faults>>
      /\ pc[b] = "inserted" /\ inserted[v] = b /\ released[v] = NoBuild /\ uploaded[b] = Files
      /\ pc' \in [Builds -> Places] /\ pc'[b] = "over" /\ \A c \in Builds \ {b} : pc'[c] = pc[c]
      /\ v \in Versions /\ v \in Nat /\ v # 0 /\ b # NoBuild
  BY VersionsAre, PublishAssumption DEF Commit, Go, IInv, TypeOK, Held, Places
<1>2. /\ inserted' \in [Versions -> Builds \cup {NoBuild}] /\ inserted'[v] = NoBuild
      /\ \A u \in Versions \ {v} : inserted'[u] = inserted[u]
      /\ released' \in [Versions -> Builds \cup {NoBuild}] /\ released'[v] = b
      /\ \A u \in Versions \ {v} : released'[u] = released[u]
  BY <1>1 DEF Commit, IInv, TypeOK
<1>3. /\ latest' = IF v > seen[b] THEN [version |-> v, build |-> b] ELSE latest
      /\ latest' \in [version : Nat, build : Builds \cup {NoBuild}]
      /\ latest.version \in Nat /\ seen[b] \in Nat
      /\ v > seen[b] => latest'.version = v /\ latest'.build = b
  BY <1>1 DEF Commit, HighestLatest, IInv, TypeOK
<1>4. /\ passed' = passed \cup Overtaken(b) /\ Overtaken(b) \subseteq Versions
      /\ Released' = Released \cup {v} /\ Released \subseteq Versions
  BY <1>1, <1>2 DEF Commit, Overtaken, Released
<1>5. TypeOK'
  BY <1>1, <1>2, <1>3, <1>4 DEF IInv, TypeOK, storeVars
<1>6. Fresh' /\ SawHighest'
  BY <1>1, <1>4 DEF IInv, Fresh, SawHighest, storeVars
<1>7. Held'
  BY <1>1, <1>2, VersionsAre DEF IInv, Held, storeVars
<1>8. LatestReleased'
  <2>1. CASE v > seen[b]
    BY <1>1, <1>2, <1>3, <2>1 DEF LatestReleased
  <2>2. CASE ~(v > seen[b])
    <3> SUFFICES ASSUME latest.version # 0
                 PROVE  released'[latest.version] = latest.build /\ latest.build # NoBuild
      BY <1>3, <2>2 DEF LatestReleased
    <3>1. released[latest.version] = latest.build /\ latest.build # NoBuild
      BY DEF IInv, LatestReleased
    <3>2. latest.version # v
      BY <1>1, <3>1
    <3>3. released' = [released EXCEPT ![v] = b]
      BY DEF Commit
    <3> QED
      BY <1>1, <3>1, <3>2, <3>3 DEF IInv, TypeOK
  <2> QED
    BY <2>1, <2>2
<1>9. HighestUnlessOvertaken'
  <2> SUFFICES ASSUME NEW u \in Released \cup {v}, u \notin passed \cup Overtaken(b) PROVE u <= latest'.version
    BY <1>4 DEF HighestUnlessOvertaken
  <2>1. u \in Nat /\ latest'.version \in Nat /\ latest' = HighestLatest(b)
    BY <1>1, <1>3, <1>4, VersionsNat DEF HighestLatest
  <2>2. CASE u \in Released \ below[b]
    BY <2>1, <2>2 DEF Overtaken
  <2>3. CASE u \in Released /\ u \in below[b]
    <3>1. u <= seen[b] /\ u <= latest.version
      BY <2>3 DEF IInv, SawHighest, HighestUnlessOvertaken
    <3> QED
      BY <1>1, <1>3, <2>1, <3>1
  <2>4. CASE u = v /\ seen[b] = latest.version
    BY <1>1, <1>3, <2>1, <2>4
  <2>5. CASE u = v /\ seen[b] # latest.version
    BY <2>1, <2>5 DEF Overtaken
  <2> QED
    BY <2>2, <2>3, <2>4, <2>5
<1>10. Unraced'
  <2> SUFFICES ASSUME NEW u \in Versions \ raced PROVE Alone(u)'
    BY <1>1 DEF Unraced
  <2>1. Alone(u) /\ \A c \in Builds : Active(c)' <=> Active(c) /\ c # b
    BY <1>1 DEF IInv, Unraced, Active
  <2>2. CASE u # v
    BY <1>1, <1>2, <2>1, <2>2 DEF Alone, storeVars
  <2>3. CASE u = v
    <3>1. \A c \in Builds : VersionOf[c] = v => ~Active(c)'
      BY <1>1, <2>1, <2>3 DEF Alone, Active
    <3>2. \A f \in Files : objects[<<v, f>>] = b
      BY <1>1, <2>1, <2>3 DEF Alone
    <3> QED
      BY <1>1, <1>2, <2>3, <3>1, <3>2 DEF Alone, Active, storeVars
  <2> QED
    BY <2>2, <2>3
<1> QED
  BY <1>5, <1>6, <1>7, <1>8, <1>9, <1>10 DEF IInv

(* A key is removed, or not, by a publish that is alone with it or in a    *)
(* race.                                                                   *)
LEMMA CleanKeeps ==
  ASSUME IInv, NEW b \in Builds, NEW f \in Files, Clean(b, f)
  PROVE  IInv'
<1>1. /\ UNCHANGED <<pc, seen, dbVars, below, passed, raced>> /\ faults' \in Nat
      /\ pc[b] = "cleaning" /\ objects' \in {objects, [objects EXCEPT ![Key(b, f)] = NoBuild]}
      /\ uploaded' \in [Builds -> SUBSET Files] /\ \A c \in Builds \ {b} : uploaded'[c] = uploaded[c]
  BY DEF Clean, Spend, IInv, TypeOK
<1>2. /\ Key(b, f) \in Keys /\ objects' \in [Keys -> Builds \cup {NoBuild}]
      /\ \A k \in Keys : k # Key(b, f) => objects'[k] = objects[k]
  BY <1>1, VersionsAre DEF Key, Keys, IInv, TypeOK
<1>3. TypeOK' /\ SawHighest'
  BY <1>1, <1>2 DEF IInv, TypeOK, SawHighest, dbVars
<1>4. Fresh' /\ Held'
  BY <1>1 DEF IInv, Fresh, Held, dbVars
<1>5. LatestReleased' /\ HighestUnlessOvertaken'
  BY <1>1 DEF IInv, LatestReleased, HighestUnlessOvertaken, Released, dbVars
<1>6. Unraced'
  <2> SUFFICES ASSUME NEW v \in Versions \ raced PROVE Alone(v)'
    BY <1>1 DEF Unraced
  <2>1. Alone(v) /\ \A c \in Builds : Active(c)' <=> Active(c)
    BY <1>1 DEF IInv, Unraced, Active
  <2>2. CASE v # VersionOf[b]
    <3>1. \A g \in Files : objects'[<<v, g>>] = objects[<<v, g>>]
      BY <1>2, <2>2 DEF Key, Keys
    <3>2. \A c \in Builds \ {b} : uploaded'[c] \subseteq Files
      BY <1>1
    <3> QED
      BY <1>1, <2>1, <2>2, <3>1, <3>2 DEF Alone, dbVars
  <2>3. CASE v = VersionOf[b]
    <3>1. released[v] = NoBuild /\ \A c \in Builds : Active(c) /\ VersionOf[c] = v => c = b
      BY <1>1, <2>1, <2>3 DEF Alone, Active
    <3>2. \A c \in Builds : pc[c] \in {"uploading", "inserted"} => VersionOf[c] # v
      BY <1>1, <3>1 DEF Active
    <3> QED
      BY <1>1, <2>1, <3>1, <3>2 DEF Alone, dbVars
  <2> QED
    BY <2>2, <2>3
<1> QED
  BY <1>3, <1>4, <1>5, <1>6 DEF IInv

(* A transaction is rolled back; its row and its keys are free.            *)
LEMMA CrashKeeps ==
  ASSUME IInv, NEW b \in Builds, Crash(b)
  PROVE  IInv'
<1>1. /\ UNCHANGED <<seen, storeVars, released, latest, below, passed, raced>> /\ faults' \in Nat
      /\ pc[b] \in {"loaded", "uploading", "inserted", "cleaning"}
      /\ pc' \in [Builds -> Places] /\ pc'[b] = "over" /\ \A c \in Builds \ {b} : pc'[c] = pc[c]
      /\ inserted' = [v \in Versions |-> IF inserted[v] = b THEN NoBuild ELSE inserted[v]]
  BY DEF Crash, Spend, Go, IInv, TypeOK, Places
<1>2. TypeOK' /\ SawHighest' /\ Fresh'
  BY <1>1 DEF IInv, TypeOK, SawHighest, Fresh, storeVars
<1>3. Held'
  BY <1>1, VersionsAre DEF IInv, Held, storeVars
<1>4. LatestReleased' /\ HighestUnlessOvertaken'
  BY <1>1 DEF IInv, LatestReleased, HighestUnlessOvertaken, Released
<1>5. Unraced'
  <2> SUFFICES ASSUME NEW v \in Versions \ raced PROVE Alone(v)'
    BY <1>1 DEF Unraced
  <2>1. Alone(v) /\ \A c \in Builds : Active(c)' => Active(c)
    BY <1>1 DEF IInv, Unraced, Active
  <2> QED
    BY <1>1, <2>1 DEF Alone, storeVars
<1> QED
  BY <1>2, <1>3, <1>4, <1>5 DEF IInv
-----------------------------------------------------------------------------
LEMMA NextKeeps == IInv /\ [Next]_vars => IInv'
<1> SUFFICES ASSUME IInv, [Next]_vars PROVE IInv'
  OBVIOUS
<1>1. CASE UNCHANGED vars
  <2>1. TypeOK' /\ Fresh' /\ Held' /\ SawHighest' /\ LatestReleased' /\ HighestUnlessOvertaken'
    BY <1>1 DEF vars, storeVars, dbVars, IInv, TypeOK, Fresh, Held, SawHighest, LatestReleased,
                HighestUnlessOvertaken, Released
  <2>2. Unraced'
    BY <1>1 DEF vars, storeVars, dbVars, IInv, Unraced, Alone, Active
  <2> QED
    BY <2>1, <2>2 DEF IInv
<1>2. ASSUME NEW b \in Builds, NEW f \in Files, Upload(b, f) PROVE IInv'
  BY <1>2, UploadKeeps DEF Upload, IInv, TypeOK
<1>3. ASSUME NEW b \in Builds, NEW f \in Files, UploadFails(b, f) PROVE IInv'
  BY <1>3, UploadKeeps DEF UploadFails, Spend, IInv, TypeOK
<1>4. ASSUME NEW b \in Builds, Step(b) \/ Crash(b) PROVE IInv'
  BY <1>2, <1>3, <1>4, LoadKeeps, RefusedKeeps, CheckedKeeps, InsertKeeps, CommitKeeps, CleanKeeps,
     CrashKeeps DEF Step
<1> QED
  BY <1>1, <1>4 DEF Next

(* The inductive invariant: who holds a version's row and its files, and   *)
(* what each publish knows of the latest release.                          *)
THEOREM PublishInvariant == Spec => []IInv
  BY InitHolds, NextKeeps, PTL DEF Spec

(* Types; what a publish has to clean up are files of its release.         *)
THEOREM TypesHold == Spec => []TypeOK
<1>1. IInv => TypeOK
  BY DEF IInv
<1> QED
  BY <1>1, PublishInvariant, PTL

(* The files of a release whose version was not raced for are the bytes    *)
(* its row recorded, whatever failed or was refused on the version.        *)
THEOREM ReleaseStaysIntact == Spec => []UnracedIntact
<1>1. IInv => UnracedIntact
  BY DEF IInv, Unraced, Alone, UnracedIntact
<1> QED
  BY <1>1, PublishInvariant, PTL

(* The latest release of the project exists, by the build it names.        *)
THEOREM LatestIsReleased == Spec => []LatestReleased
<1>1. IInv => LatestReleased
  BY DEF IInv
<1> QED
  BY <1>1, PublishInvariant, PTL

(* Only a publish that a release overtook leaves a version above the       *)
(* latest release.                                                         *)
THEOREM LatestIsHighest == Spec => []HighestUnlessOvertaken
<1>1. IInv => HighestUnlessOvertaken
  BY DEF IInv
<1> QED
  BY <1>1, PublishInvariant, PTL

-----------------------------------------------------------------------------
(* A version that is released is immutable: no publish under way, refused, *)
(* failed or retried replaces its row, and none writes or removes its      *)
(* files, but one that was uploading at the same time.                     *)
ReleaseImmutable ==
  [][\A v \in Versions : released[v] # NoBuild =>
       /\ released'[v] = released[v]
       /\ v \notin raced' => \A f \in Files : objects'[<<v, f>>] = objects[<<v, f>>]]_vars

(* A row is written by a publish that finds the version free.              *)
LEMMA RowStays ==
  ASSUME IInv, [Next]_vars, NEW v \in Versions, released[v] # NoBuild
  PROVE  released'[v] = released[v]
<1>1. CASE \E b \in Builds : Commit(b)
  <2>1. PICK b \in Builds : Commit(b)
    BY <1>1
  <2>2. VersionOf[b] # v
    BY <2>1 DEF Commit, IInv, Held
  <2> QED
    BY <2>1, <2>2 DEF Commit, IInv, TypeOK
<1>2. CASE ~\E b \in Builds : Commit(b)
  <2>1. released' = released
    BY <1>2 DEF Next, Step, Load, Refused, Checked, Upload, UploadFails, Insert, Clean, Cleaned,
                Crash, vars, dbVars
  <2> QED
    BY <2>1
<1> QED
  BY <1>1, <1>2

LEMMA RacesStay ==
  ASSUME [Next]_vars
  PROVE  raced \subseteq raced'
BY DEF Next, Step, Load, Refused, Checked, Upload, UploadFails, Insert, Commit, Clean, Cleaned,
       Crash, vars

(* What a version was released with is never replaced: not its row, and    *)
(* not its files but by a publish that was uploading at the same time.     *)
THEOREM ReleaseIsImmutable == Spec => ReleaseImmutable
<1>1. IInv => UnracedIntact
  BY DEF IInv, Unraced, Alone, UnracedIntact
<1>2. ASSUME IInv, UnracedIntact, UnracedIntact', [Next]_vars,
             NEW v \in Versions, released[v] # NoBuild
      PROVE  /\ released'[v] = released[v]
             /\ v \notin raced' => \A f \in Files : objects'[<<v, f>>] = objects[<<v, f>>]
  BY <1>2, RowStays, RacesStay DEF UnracedIntact
<1>3. IInv /\ IInv' /\ [Next]_vars =>
        [\A v \in Versions : released[v] # NoBuild =>
           /\ released'[v] = released[v]
           /\ v \notin raced' => \A f \in Files : objects'[<<v, f>>] = objects[<<v, f>>]]_vars
  <2>1. IInv' => UnracedIntact'
    BY DEF IInv, Unraced, Alone, UnracedIntact
  <2> QED
    BY <1>1, <1>2, <2>1
<1> QED
  BY <1>3, PublishInvariant, PTL DEF Spec, ReleaseImmutable
=============================================================================
