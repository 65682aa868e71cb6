------------------------- MODULE UpstreamCacheProofs -------------------------
(***************************************************************************)
(* What UpstreamCache guarantees for any page, number of files, requests   *)
(* and cleanups at the same time.                                          *)
(***************************************************************************)
EXTENDS UpstreamCache, FiniteSetTheorems, TLAPS

Row == [entry : Entries, cached : BOOLEAN, idle : BOOLEAN]
Request == [stage : {"idle", "fetching", "unchanged", "storing", "found", "hit", "downloading", "put"},
            file : Files \cup {NoFile}, etag : Versions \cup {Nothing}, got : Versions \cup {Nothing}]
Job == [stage : {"idle", "removing"}, list : SUBSET Files, removed : SUBSET Files,
        late : SUBSET Files, total : 0 .. Cardinality(Files)]

(* A request works on a file that has its row, and stores a page it got.   *)
Fit(r) ==
  /\ r \in Request
  /\ r.stage \in {"found", "hit", "downloading", "put"} => r.file \in Files /\ rows[r.file].entry # "absent"
  /\ r.stage = "storing" => r.got \in Versions
RequestsFit == req \in [Clients -> Request] /\ \A p \in Clients : Fit(req[p])

(* A cleanup has files only while it runs.                                 *)
JobFit(j) == j \in Job /\ (j.stage = "idle" => j.list = {} /\ j.removed = {})
JobsFit == job \in [Cleaners -> Job] /\ \A c \in Cleaners : JobFit(job[c])

(* The index, the rows and the store.                                      *)
TablesFit ==
  /\ upstream \in Versions
  /\ pkg \in [etag : Versions \cup {Nothing}, fresh : BOOLEAN]
  /\ rows \in [Files -> Row] /\ \A f \in Files : rows[f].cached => rows[f].entry # "absent"
  /\ objects \subseteq Files /\ spoiled \subseteq Files /\ faults \in 0 .. MaxFaults

Loads(r, f) == r.stage \in {"downloading", "put"} /\ r.file = f
Loading(f) == \E p \in Clients : Loads(req[p], f)

(* Nobody downloads a file that nobody asked for in the idle days.         *)
IdleUntouched == \A f \in Files : rows[f].cached /\ rows[f].idle => ~Loading(f)

(* The files of a cleanup, unless another cleanup that ran meanwhile has   *)
(* dropped them: they stay marked cached, nobody downloads them, and those *)
(* it has removed stay away.                                               *)
Holds(j, f) == f \in j.list \cup j.removed /\ f \notin j.late
HeldByCleanup ==
  \A c \in Cleaners, f \in Files :
    Holds(job[c], f) => rows[f].cached /\ ~Loading(f) /\ (f \in job[c].removed => f \notin objects)

(* An object that was put is there until its row says so, and otherwise    *)
(* CacheAgrees, with its Busy spelled out.                                 *)
Undone(f) == f \in spoiled \/ \E c \in Cleaners : f \in job[c].removed
PutStored == \A p \in Clients : req[p].stage = "put" => req[p].file \in objects \/ Undone(req[p].file)
Agree ==
  \A f \in Files :
    Undone(f) \/ (\E p \in Clients : req[p].stage = "put" /\ req[p].file = f) \/ (rows[f].cached <=> f \in objects)

IInv ==
  /\ TablesFit /\ RequestsFit /\ JobsFit /\ EtagMeansLinks
  /\ IdleUntouched /\ HeldByCleanup /\ PutStored /\ Agree
-----------------------------------------------------------------------------
LEMMA TypesFollow == TablesFit /\ RequestsFit /\ JobsFit => TypeOK
BY DEF TypeOK, TablesFit, RequestsFit, JobsFit, Row, Request, Job

LEMMA AgreementFollows == Agree => CacheAgrees
<1> SUFFICES ASSUME Agree, NEW f \in Files, f \notin spoiled, f \notin Busy
             PROVE  rows[f].cached <=> f \in objects
  BY DEF CacheAgrees
<1>1. ~Undone(f)
  BY DEF Undone, Busy
<1>2. ~\E p \in Clients : req[p].stage = "put" /\ req[p].file = f
  BY DEF Busy
<1> QED
  BY <1>1, <1>2 DEF Agree

LEMMA NoneFit == NoRequest \in Request /\ NoJob \in Job /\ Cardinality(Files) \in Nat
<1>1. Cardinality(Files) \in Nat
  BY UpstreamAssumption, FS_CardinalityType
<1> QED
  BY <1>1 DEF NoRequest, NoJob, Request, Job

LEMMA InitHolds == Init => IInv
<1> SUFFICES ASSUME Init PROVE IInv
  OBVIOUS
<1>1. (\A p \in Clients : req[p] = NoRequest) /\ (\A c \in Cleaners : job[c] = NoJob)
  BY DEF Init
<1>2. RequestsFit
  BY <1>1, NoneFit DEF RequestsFit, Fit, NoRequest, Init
<1>3. JobsFit
  BY <1>1, NoneFit DEF JobsFit, JobFit, NoJob, Init
<1>4. TablesFit /\ EtagMeansLinks
  BY UpstreamAssumption DEF Init, TablesFit, EtagMeansLinks, Row, Entries
<1>5. IdleUntouched /\ HeldByCleanup /\ PutStored /\ Agree
  BY <1>1 DEF Init, IdleUntouched, HeldByCleanup, PutStored, Agree, Holds, NoRequest, NoJob
<1> QED
  BY <1>2, <1>3, <1>4, <1>5 DEF IInv
-----------------------------------------------------------------------------
(* The rows, while they only gain entries and are touched.                 *)
Served(f) ==
  /\ rows'[f].cached = rows[f].cached
  /\ rows[f].entry # "absent" => rows'[f].entry # "absent"
  /\ rows'[f].idle => rows[f].idle

(* A request that goes on and stores nothing.                              *)
LEMMA ClientKeeps ==
  ASSUME IInv, NEW p \in Clients, NEW r, req' = [req EXCEPT ![p] = r], req[p].stage # "put",
         r \in Request, r.stage # "put",
         r.stage \in {"found", "hit", "downloading"} => r.file \in Files /\ rows'[r.file].entry # "absent",
         r.stage = "storing" => r.got \in Versions,
         r.stage = "downloading" => ~rows[r.file].cached,
         \A f \in Files : Served(f),
         TablesFit', EtagMeansLinks', UNCHANGED <<objects, job, spoiled>>
  PROVE  IInv'
<1>1. DOMAIN req' = Clients /\ req'[p] = r /\ \A q \in Clients : q # p => req'[q] = req[q]
  BY DEF IInv, RequestsFit
<1>2. RequestsFit'
  BY <1>1 DEF IInv, RequestsFit, Fit, Served
<1>3. JobsFit'
  BY DEF IInv, JobsFit, JobFit
<1>4. \A f \in Files : Loading(f)' => Loading(f) \/ ~rows[f].cached
  BY <1>1 DEF Loading, Loads
<1>5. IdleUntouched'
  BY <1>4 DEF IInv, IdleUntouched, Served
<1>6. HeldByCleanup'
  BY <1>4 DEF IInv, HeldByCleanup, Holds, Served
<1>7. PutStored'
  BY <1>1 DEF IInv, PutStored, Undone
<1>8. Agree'
  BY <1>1 DEF IInv, Agree, Undone, Served
<1> QED
  BY <1>2, <1>3, <1>5, <1>6, <1>7, <1>8 DEF IInv

(* Rows, page and store stay.                                              *)
LEMMA QuietKeeps ==
  ASSUME IInv, UNCHANGED <<pkg, rows>>, objects' = objects, spoiled' = spoiled, faults' = faults,
         upstream' \in Versions
  PROVE  TablesFit' /\ EtagMeansLinks' /\ \A f \in Files : Served(f)
BY DEF IInv, TablesFit, EtagMeansLinks, Served

LEMMA ClientStays ==
  ASSUME IInv, NEW p \in Clients, NEW r, req' = [req EXCEPT ![p] = r], req[p].stage # "put",
         r \in Request, r.stage # "put",
         r.stage \in {"found", "hit", "downloading"} => r.file \in Files /\ rows[r.file].entry # "absent",
         r.stage = "storing" => r.got \in Versions,
         r.stage = "downloading" => ~rows[r.file].cached,
         UNCHANGED <<upstream, pkg, rows, objects, job, spoiled, faults>>
  PROVE  IInv'
<1>1. TablesFit' /\ EtagMeansLinks' /\ \A f \in Files : Served(f)
  BY QuietKeeps DEF IInv, TablesFit
<1> QED
  BY <1>1, ClientKeeps

LEMMA DoneKeeps ==
  ASSUME IInv, NEW p \in Clients, req' = [req EXCEPT ![p] = NoRequest], req[p].stage # "put",
         UNCHANGED <<upstream, pkg, rows, objects, job, spoiled, faults>>
  PROVE  IInv'
<1>1. NoRequest \in Request /\ NoRequest.stage = "idle"
  BY NoneFit DEF NoRequest
<1> QED
  BY <1>1, ClientStays

LEMMA RefreshKeeps ==
  ASSUME IInv, NEW p \in Clients, NEW f \in Files \cup {NoFile}, Refresh(p, f)
  PROVE  IInv'
<1> DEFINE r == [NoRequest EXCEPT !.stage = "fetching", !.file = f, !.etag = pkg.etag]
<1>1. r \in Request /\ r.stage = "fetching"
  BY NoneFit DEF Request, IInv, TablesFit
<1>2. req[p].stage # "put"
  BY DEF Refresh, NoRequest
<1> QED
  BY <1>1, <1>2, ClientStays DEF Refresh

(* What serve_file goes on with.                                           *)
LEMMA AfterFits ==
  ASSUME RequestsFit, NEW p \in Clients, NEW present \in SUBSET Files, After(p, present)
  PROVE  \E r \in Request : /\ req' = [req EXCEPT ![p] = r] /\ r.stage \in {"idle", "found"}
                            /\ r.stage = "found" => r.file \in present
<1> DEFINE found == [NoRequest EXCEPT !.stage = "found", !.file = req[p].file]
<1>1. found \in Request /\ found.stage = "found" /\ found.file = req[p].file
  BY NoneFit DEF RequestsFit, Fit, Request
<1>2. NoRequest \in Request /\ NoRequest.stage = "idle"
  BY NoneFit DEF NoRequest
<1> QED
  BY <1>1, <1>2 DEF After

LEMMA FetchKeeps ==
  ASSUME IInv, NEW p \in Clients, Fetch(p)
  PROVE  IInv'
<1>1. /\ req[p] \in Request /\ req[p].stage = "fetching" /\ upstream \in Versions
      /\ UNCHANGED <<upstream, pkg, rows, objects, job, spoiled, faults>>
  BY DEF IInv, RequestsFit, Fit, TablesFit, Fetch
<1>2. ASSUME NEW present \in SUBSET Listed, After(p, present) PROVE IInv'
  <2>1. PICK r \in Request : /\ req' = [req EXCEPT ![p] = r] /\ r.stage \in {"idle", "found"}
                             /\ r.stage = "found" => r.file \in present
    BY <1>2, AfterFits DEF Listed, IInv
  <2> QED
    BY <1>1, <2>1, ClientStays DEF Listed
<1>3. CASE req' = [req EXCEPT ![p].stage = "unchanged"]
  <2> DEFINE r == [req[p] EXCEPT !.stage = "unchanged"]
  <2>1. r \in Request /\ r.stage = "unchanged"
    BY <1>1 DEF Request
  <2>2. req' = [req EXCEPT ![p] = r]
    BY <1>3
  <2> QED
    BY <1>1, <2>1, <2>2, ClientStays
<1>4. CASE req' = [req EXCEPT ![p].stage = "storing", ![p].got = upstream]
  <2> DEFINE r == [req[p] EXCEPT !.stage = "storing", !.got = upstream]
  <2>1. r \in Request /\ r.stage = "storing" /\ r.got = upstream
    BY <1>1 DEF Request
  <2>2. req' = [req EXCEPT ![p] = r]
    BY <1>4 DEF IInv, RequestsFit
  <2> QED
    BY <1>1, <2>1, <2>2, ClientStays
<1> QED
  BY <1>2, <1>3, <1>4 DEF Fetch

LEMMA ConfirmKeeps ==
  ASSUME IInv, NEW p \in Clients, Confirm(p)
  PROVE  IInv'
<1>1. PICK r \in Request : /\ req' = [req EXCEPT ![p] = r] /\ r.stage \in {"idle", "found"}
                           /\ r.stage = "found" => r.file \in Listed
  BY AfterFits DEF Confirm, Listed, IInv
<1>2. TablesFit' /\ EtagMeansLinks' /\ \A f \in Files : Served(f)
  BY DEF Confirm, IInv, TablesFit, EtagMeansLinks, Served
<1> QED
  BY <1>1, <1>2, ClientKeeps DEF Confirm, Listed

LEMMA StoreKeeps ==
  ASSUME IInv, NEW p \in Clients, Store(p)
  PROVE  IInv'
<1> DEFINE v == req[p].got
<1>1. v \in Versions /\ v # Nothing /\ Listing[v] \in [Files -> Entries]
  BY UpstreamAssumption DEF IInv, RequestsFit, Fit, Store
<1>2. pkg' = [etag |-> v, fresh |-> TRUE] /\ rows' = [f \in Files |-> Merged(rows[f], Listing[v][f])]
  BY DEF Store
<1>3. ASSUME NEW f \in Files
      PROVE  /\ rows'[f] \in Row /\ rows'[f].cached = rows[f].cached /\ rows'[f].idle = rows[f].idle
             /\ rows'[f].entry = IF Listing[v][f] = "absent" THEN rows[f].entry ELSE Listing[v][f]
  <2>1. rows[f] \in Row /\ Listing[v][f] \in Entries
    BY <1>1 DEF IInv, TablesFit
  <2> QED
    BY <1>2, <2>1 DEF Merged, Row
<1>4. rows' \in [Files -> Row] /\ \A f \in Files : Served(f)
  BY <1>2, <1>3 DEF Served
<1>5. TablesFit'
  <2>1. \A f \in Files : rows'[f].cached => rows'[f].entry # "absent"
    BY <1>3 DEF IInv, TablesFit
  <2>2. pkg' \in [etag : Versions \cup {Nothing}, fresh : BOOLEAN]
    BY <1>1, <1>2
  <2>3. UNCHANGED <<upstream, objects, spoiled, faults>>
    BY DEF Store
  <2> QED
    BY <1>4, <2>1, <2>2, <2>3 DEF IInv, TablesFit
<1>6. EtagMeansLinks'
  BY <1>2, <1>3 DEF EtagMeansLinks
<1>7. PICK r \in Request : /\ req' = [req EXCEPT ![p] = r] /\ r.stage \in {"idle", "found"}
                           /\ r.stage = "found" => r.file \in {f \in Files : rows'[f].entry # "absent"}
  BY AfterFits DEF Store, IInv
<1> QED
  BY <1>4, <1>5, <1>6, <1>7, ClientKeeps DEF Store

LEMMA LookKeeps ==
  ASSUME IInv, NEW p \in Clients, NEW f \in Files, Look(p, f), req[p].stage # "put"
  PROVE  IInv'
<1> DEFINE stage == IF rows[f].cached THEN "hit" ELSE "downloading"
           r == [NoRequest EXCEPT !.stage = stage, !.file = f]
<1>1. r \in Request /\ r.stage = stage /\ r.file = f
  BY NoneFit DEF Request
<1>2. ASSUME NEW g \in Files
      PROVE  /\ rows'[g] \in Row /\ rows'[g].cached = rows[g].cached /\ rows'[g].entry = rows[g].entry
             /\ rows'[g].idle => rows[g].idle
  <2>1. rows[g] \in Row
    BY DEF IInv, TablesFit
  <2>2. rows'[g] = rows[g] \/ rows'[g] = [rows[g] EXCEPT !.idle = FALSE]
    BY DEF Look, IInv, TablesFit
  <2> QED
    BY <2>1, <2>2 DEF Row
<1>3. rows' \in [Files -> Row]
  <2>1. rows \in [Files -> Row]
    BY DEF IInv, TablesFit
  <2>2. DOMAIN rows' = Files /\ rows' = [g \in DOMAIN rows' |-> rows'[g]]
    BY <2>1 DEF Look
  <2> QED
    BY <1>2, <2>2
<1>4. TablesFit' /\ EtagMeansLinks' /\ \A g \in Files : Served(g)
  BY <1>2, <1>3 DEF Look, IInv, TablesFit, EtagMeansLinks, Served
<1>5. rows'[f].entry # "absent"
  BY <1>2 DEF Look, Listed
<1>6. req' = [req EXCEPT ![p] = r] /\ UNCHANGED <<objects, job, spoiled>>
  BY DEF Look
<1>7. r.stage \in {"hit", "downloading"} /\ (r.stage = "downloading" => ~rows[r.file].cached)
  BY <1>1
<1> HIDE DEF r
<1> QED
  BY <1>1, <1>4, <1>5, <1>6, <1>7, ClientKeeps

LEMMA ServeKeeps ==
  ASSUME IInv, NEW p \in Clients, GoOn(p) \/ \E f \in Files : Serve(p, f)
  PROVE  IInv'
<1>1. CASE GoOn(p)
  BY <1>1, LookKeeps DEF GoOn, IInv, RequestsFit, Fit
<1>2. ASSUME NEW f \in Files, Serve(p, f) PROVE IInv'
  <2>1. req[p].stage # "put"
    BY <1>2 DEF Serve, NoRequest
  <2> QED
    BY <1>2, <2>1, LookKeeps DEF Serve
<1> QED
  BY <1>1, <1>2
-----------------------------------------------------------------------------
(* A download that is stored: the file is not held by a cleanup that no    *)
(* other has overtaken.                                                    *)
LEMMA PutKeeps ==
  ASSUME IInv, NEW p \in Clients, Put(p)
  PROVE  IInv'
<1> DEFINE f == req[p].file
           r == [req[p] EXCEPT !.stage = "put"]
<1>1. /\ req[p] \in Request /\ req[p].stage = "downloading" /\ f \in Files /\ rows[f].entry # "absent"
      /\ objects' = objects \cup {f} /\ req' = [req EXCEPT ![p].stage = "put"]
      /\ UNCHANGED <<upstream, pkg, rows, job, spoiled, faults>>
  BY DEF Put, IInv, RequestsFit, Fit
<1>2. r \in Request /\ r.stage = "put" /\ r.file = f
  BY <1>1 DEF Request
<1>3. req' = [req EXCEPT ![p] = r]
  BY <1>1
<1>4. req'[p] = r /\ \A q \in Clients : q # p => req'[q] = req[q]
  BY <1>3 DEF IInv, RequestsFit
<1>5. RequestsFit'
  BY <1>1, <1>2, <1>3, <1>4 DEF IInv, RequestsFit, Fit
<1>6. JobsFit' /\ TablesFit' /\ EtagMeansLinks'
  BY <1>1 DEF IInv, JobsFit, JobFit, TablesFit, EtagMeansLinks
<1>7. \A g \in Files : Loading(g)' => Loading(g)
  BY <1>1, <1>2, <1>4 DEF Loading, Loads
<1>8. Loading(f)
  BY <1>1 DEF Loading, Loads
<1>9. IdleUntouched'
  BY <1>1, <1>7 DEF IInv, IdleUntouched
<1>10. HeldByCleanup'
  BY <1>1, <1>7, <1>8 DEF IInv, HeldByCleanup, Holds
<1>11. PutStored'
  BY <1>1, <1>2, <1>4 DEF IInv, PutStored, Undone
<1>12. Agree'
  <2> SUFFICES ASSUME NEW g \in Files, ~Undone(g)', ~\E q \in Clients : req'[q].stage = "put" /\ req'[q].file = g
               PROVE  rows'[g].cached <=> g \in objects'
    BY DEF Agree
  <2>1. g # f /\ ~Undone(g)
    BY <1>1, <1>2, <1>4 DEF Undone
  <2>2. ~\E q \in Clients : req[q].stage = "put" /\ req[q].file = g
    BY <1>1, <1>4
  <2> QED
    BY <1>1, <2>1, <2>2 DEF IInv, Agree
<1> QED
  BY <1>5, <1>6, <1>9, <1>10, <1>11, <1>12 DEF IInv

(* The commit after a put, or its failure: only rows of the file change.   *)
LEMMA PutEnds ==
  ASSUME IInv, NEW p \in Clients, req[p].stage = "put", req' = [req EXCEPT ![p] = NoRequest],
         UNCHANGED <<upstream, pkg, objects, job>>, TablesFit',
         \A g \in Files : rows'[g].entry = rows[g].entry,
         \/ /\ spoiled' = spoiled \cup {req[p].file} /\ UNCHANGED rows
         \/ /\ UNCHANGED spoiled
            /\ \A g \in Files \ {req[p].file} : rows'[g] = rows[g]
            /\ rows'[req[p].file].cached /\ ~rows'[req[p].file].idle
  PROVE  IInv'
<1> DEFINE f == req[p].file
<1>1. f \in Files /\ Loading(f)
  BY DEF IInv, RequestsFit, Fit, Loading, Loads
<1>2. NoRequest \in Request /\ NoRequest.stage = "idle"
  BY NoneFit DEF NoRequest
<1>3. req'[p] = NoRequest /\ \A q \in Clients : q # p => req'[q] = req[q]
  BY DEF IInv, RequestsFit
<1>4. RequestsFit' /\ JobsFit' /\ EtagMeansLinks'
  BY <1>2, <1>3 DEF IInv, RequestsFit, Fit, JobsFit, JobFit, EtagMeansLinks
<1>5. \A g \in Files : Loading(g)' => Loading(g)
  BY <1>2, <1>3 DEF Loading, Loads
<1>6. IdleUntouched'
  BY <1>1, <1>5 DEF IInv, IdleUntouched
<1>7. HeldByCleanup'
  BY <1>1, <1>5 DEF IInv, HeldByCleanup, Holds
<1>8. \A g \in Files : Undone(g) => Undone(g)'
  BY DEF Undone
<1>9. \A q \in Clients : req'[q].stage = "put" => req[q].stage = "put" /\ req'[q].file = req[q].file /\ req[q].file \in Files
  BY <1>2, <1>3 DEF IInv, RequestsFit, Fit
<1>10. PutStored'
  <2> SUFFICES ASSUME NEW q \in Clients, req'[q].stage = "put"
               PROVE  req[q].file \in objects \/ Undone(req[q].file)'
    BY <1>9 DEF PutStored, Undone
  <2> QED
    BY <1>8, <1>9 DEF IInv, PutStored, Undone
<1>11. Agree'
  <2> SUFFICES ASSUME NEW g \in Files, ~Undone(g)', ~\E q \in Clients : req'[q].stage = "put" /\ req'[q].file = g
               PROVE  rows'[g].cached <=> g \in objects
    BY DEF Agree
  <2>1. CASE g = f
    BY <2>1, <1>8 DEF IInv, PutStored, Undone
  <2>2. CASE g # f
    <3>1. ~Undone(g) /\ ~\E q \in Clients : req[q].stage = "put" /\ req[q].file = g
      BY <1>3, <1>8, <2>2
    <3> QED
      BY <2>2, <3>1 DEF IInv, Agree
  <2> QED
    BY <2>1, <2>2
<1> QED
  BY <1>4, <1>6, <1>7, <1>10, <1>11 DEF IInv

LEMMA CommitCachedKeeps ==
  ASSUME IInv, NEW p \in Clients, CommitCached(p) \/ CommitCachedFails(p)
  PROVE  IInv'
<1>1. req[p].file \in Files /\ rows[req[p].file].entry # "absent" /\ req[p].stage = "put"
  BY DEF IInv, RequestsFit, Fit, CommitCached, CommitCachedFails
<1>2. CASE CommitCached(p)
  <2>1. ASSUME NEW g \in Files
        PROVE  /\ rows'[g] \in Row /\ rows'[g].entry = rows[g].entry /\ (g # req[p].file => rows'[g] = rows[g])
               /\ g = req[p].file => rows'[g].cached /\ ~rows'[g].idle
    <3>1. rows[g] \in Row
      BY DEF IInv, TablesFit
    <3>2. rows'[g] = IF g = req[p].file THEN [rows[g] EXCEPT !.cached = TRUE, !.idle = FALSE] ELSE rows[g]
      BY <1>1, <1>2 DEF CommitCached, IInv, TablesFit
    <3> QED
      BY <3>1, <3>2 DEF Row
  <2>2. rows' \in [Files -> Row]
    BY <1>1, <1>2 DEF CommitCached, IInv, TablesFit, Row
  <2>3. TablesFit'
    BY <1>1, <1>2, <2>1, <2>2 DEF CommitCached, IInv, TablesFit
  <2> QED
    BY <1>1, <1>2, <2>1, <2>3, PutEnds DEF CommitCached
<1>3. CASE CommitCachedFails(p)
  <2>1. TablesFit'
    BY <1>1, <1>3, UpstreamAssumption DEF CommitCachedFails, Spend, IInv, TablesFit
  <2> QED
    BY <1>1, <1>3, <2>1, PutEnds DEF CommitCachedFails
<1> QED
  BY <1>2, <1>3

(* A put that MinIO did and did not answer leaves a spoiled file, which no *)
(* cleanup holds.                                                          *)
LEMMA PutUnansweredKeeps ==
  ASSUME IInv, NEW p \in Clients, PutUnanswered(p)
  PROVE  IInv'
<1>1. PICK f \in Files :
      /\ f = req[p].file /\ req[p].stage = "downloading" /\ Loading(f)
      /\ objects' = objects \cup {f} /\ spoiled' = spoiled \cup {f} /\ req' = [req EXCEPT ![p] = NoRequest]
      /\ UNCHANGED <<upstream, pkg, rows, job>> /\ faults' \in 0 .. MaxFaults
  BY UpstreamAssumption DEF PutUnanswered, Spend, IInv, TablesFit, RequestsFit, Fit, Loading, Loads
<1>2. NoRequest \in Request /\ NoRequest.stage = "idle"
  BY NoneFit DEF NoRequest
<1>3. req'[p] = NoRequest /\ \A q \in Clients : q # p => req'[q] = req[q]
  BY <1>1 DEF IInv, RequestsFit
<1>4. RequestsFit' /\ JobsFit' /\ EtagMeansLinks' /\ TablesFit'
  BY <1>1, <1>2, <1>3 DEF IInv, RequestsFit, Fit, JobsFit, JobFit, EtagMeansLinks, TablesFit
<1>5. \A g \in Files : Loading(g)' => Loading(g)
  BY <1>2, <1>3 DEF Loading, Loads
<1>6. IdleUntouched'
  BY <1>1, <1>5 DEF IInv, IdleUntouched
<1>7. HeldByCleanup'
  BY <1>1, <1>5 DEF IInv, HeldByCleanup, Holds
<1>8. \A g \in Files : (Undone(g) => Undone(g)') /\ Undone(f)'
  BY <1>1 DEF Undone
<1>9. \A q \in Clients : req[q].stage = "put" => req[q].file \in Files /\ q # p
  BY <1>1 DEF IInv, RequestsFit, Fit
<1>10. \A q \in Clients : req'[q].stage = "put" <=> q # p /\ req[q].stage = "put"
  BY <1>1, <1>2, <1>3
<1>11. PutStored'
  <2> SUFFICES ASSUME NEW q \in Clients, req[q].stage = "put", req'[q] = req[q]
               PROVE  req[q].file \in objects' \/ Undone(req[q].file)'
    BY <1>3, <1>10 DEF PutStored, Undone
  <2> QED
    BY <1>1, <1>8, <1>9 DEF IInv, PutStored
<1>12. Agree'
  <2> SUFFICES ASSUME NEW g \in Files, ~Undone(g)', ~\E q \in Clients : req'[q].stage = "put" /\ req'[q].file = g
               PROVE  rows'[g].cached <=> g \in objects'
    BY DEF Agree
  <2>1. g # f /\ ~Undone(g) /\ ~\E q \in Clients : req[q].stage = "put" /\ req[q].file = g
    BY <1>3, <1>8, <1>9, <1>10
  <2> QED
    BY <1>1, <2>1 DEF IInv, Agree
<1> QED
  BY <1>4, <1>6, <1>7, <1>11, <1>12 DEF IInv
-----------------------------------------------------------------------------
(* A cleanup starts with files that are cached and that nobody downloads.  *)
LEMMA StartCleanupKeeps ==
  ASSUME IInv, NEW c \in Cleaners, StartCleanup(c)
  PROVE  IInv'
<1> DEFINE j == [NoJob EXCEPT !.stage = "removing", !.total = Cardinality(Cached),
                              !.list = {f \in Cached : rows[f].idle}]
<1>1. /\ job[c] = NoJob /\ job' = [job EXCEPT ![c] = j]
      /\ UNCHANGED <<upstream, pkg, rows, objects, req, spoiled, faults>>
  BY DEF StartCleanup
<1>2. Cardinality(Cached) \in 0 .. Cardinality(Files)
  <2>1. Cached \subseteq Files
    BY DEF Cached
  <2>2. Cardinality(Cached) <= Cardinality(Files) /\ IsFiniteSet(Cached)
    BY <2>1, FS_Subset, UpstreamAssumption
  <2>3. Cardinality(Cached) \in Nat
    BY <2>2, FS_CardinalityType
  <2> QED
    BY <2>2, <2>3, NoneFit
<1>3. /\ j \in Job /\ j.stage = "removing" /\ j.removed = {} /\ j.late = {}
      /\ j.list = {f \in Files : rows[f].cached /\ rows[f].idle}
  BY <1>2 DEF NoJob, Job, Cached
<1>4. job'[c] = j /\ \A d \in Cleaners : d # c => job'[d] = job[d]
  BY <1>1 DEF IInv, JobsFit
<1>5. RequestsFit' /\ TablesFit' /\ EtagMeansLinks' /\ IdleUntouched'
  BY <1>1 DEF IInv, RequestsFit, Fit, TablesFit, EtagMeansLinks, IdleUntouched, Loading, Loads
<1>6. JobsFit'
  BY <1>1, <1>3, <1>4 DEF IInv, JobsFit, JobFit
<1>7. \A f \in Files : Undone(f)' <=> Undone(f)
  BY <1>1, <1>3, <1>4 DEF Undone, NoJob
<1>8. \A f \in Files : Loading(f)' <=> Loading(f)
  BY <1>1 DEF Loading, Loads
<1>9. HeldByCleanup'
  BY <1>1, <1>3, <1>4, <1>8 DEF IInv, HeldByCleanup, Holds, IdleUntouched
<1>10. PutStored'
  BY <1>1, <1>3, <1>4 DEF IInv, PutStored, Undone, NoJob
<1>11. Agree'
  BY <1>1, <1>7 DEF IInv, Agree
<1> QED
  BY <1>5, <1>6, <1>9, <1>10, <1>11 DEF IInv

(* An object goes, or MinIO raises: then it stays, or the file is spoiled. *)
LEMMA RemoveKeeps ==
  ASSUME IInv, NEW c \in Cleaners, NEW f \in Files, Remove(c, f) \/ RemoveFails(c, f)
  PROVE  IInv'
<1> DEFINE gone == Remove(c, f)
           j == IF gone THEN [job[c] EXCEPT !.list = @ \ {f}, !.removed = @ \cup {f}]
                ELSE [job[c] EXCEPT !.list = @ \ {f}]
<1>1. JobFit(job[c]) /\ f \in job[c].list /\ f \in Files /\ UNCHANGED <<upstream, pkg, rows, req>>
  BY DEF Remove, RemoveFails, IInv, JobsFit
<1>2. faults' \in 0 .. MaxFaults
  BY UpstreamAssumption DEF Remove, RemoveFails, Spend, IInv, TablesFit
<1>3. /\ objects' = objects \ {f} \/ (~gone /\ objects' = objects)
      /\ spoiled' = spoiled \/ spoiled' = spoiled \cup {f}
      /\ gone \/ objects' = objects \/ f \in spoiled'
  BY DEF Remove, RemoveFails
<1>4. job' = [job EXCEPT ![c] = j]
  <2>1. CASE gone
    <3>1. job' = [job EXCEPT ![c].list = @ \ {f}, ![c].removed = @ \cup {f}]
      BY <2>1 DEF Remove
    <3> QED
      BY <2>1, <3>1 DEF IInv, JobsFit
  <2>2. CASE ~gone
    <3>1. job' = [job EXCEPT ![c].list = @ \ {f}]
      BY <2>2 DEF RemoveFails
    <3> QED
      BY <2>2, <3>1
  <2> QED
    BY <2>1, <2>2
<1>5. /\ j \in Job /\ j.stage = job[c].stage /\ j.late = job[c].late /\ j.list = job[c].list \ {f}
      /\ j.removed = IF gone THEN job[c].removed \cup {f} ELSE job[c].removed
  BY <1>1 DEF JobFit, Job
<1> HIDE DEF j
<1>6. job'[c] = j /\ \A d \in Cleaners : d # c => job'[d] = job[d]
  BY <1>4 DEF IInv, JobsFit
<1>7. RequestsFit' /\ TablesFit' /\ EtagMeansLinks' /\ IdleUntouched'
  BY <1>1, <1>2, <1>3 DEF IInv, RequestsFit, Fit, TablesFit, EtagMeansLinks, IdleUntouched, Loading, Loads
<1>8. JobsFit'
  <2>1. JobFit(j)
    BY <1>1, <1>5 DEF JobFit
  <2> QED
    BY <1>4, <1>5, <1>6, <2>1 DEF IInv, JobsFit
<1>9. \A g \in Files : (Loading(g)' <=> Loading(g)) /\ (Undone(g) => Undone(g)')
  BY <1>1, <1>3, <1>5, <1>6 DEF Loading, Loads, Undone
<1>10. objects' = objects \/ Undone(f)'
  BY <1>3, <1>5, <1>6 DEF Undone
<1>11. HeldByCleanup'
  <2> SUFFICES ASSUME NEW d \in Cleaners, NEW g \in Files, Holds(job'[d], g)
               PROVE  rows[g].cached /\ ~Loading(g) /\ (g \in job'[d].removed => g \notin objects')
    BY <1>1, <1>9 DEF HeldByCleanup
  <2>1. Holds(job[d], g)
    BY <1>1, <1>5, <1>6 DEF Holds
  <2>2. g \in job'[d].removed => g \in job[d].removed \/ (gone /\ g = f)
    BY <1>5, <1>6
  <2> QED
    BY <1>3, <2>1, <2>2 DEF IInv, HeldByCleanup
<1>12. PutStored'
  <2> SUFFICES ASSUME NEW p \in Clients, req[p].stage = "put", NEW g, g = req[p].file
               PROVE  g \in objects' \/ Undone(g)'
    BY <1>1 DEF PutStored, Undone
  <2>1. g \in Files /\ (g \in objects \/ Undone(g))
    BY DEF IInv, RequestsFit, Fit, PutStored
  <2> QED
    BY <1>3, <1>9, <1>10, <2>1
<1>13. Agree'
  <2> SUFFICES ASSUME NEW g \in Files, ~Undone(g)', ~\E p \in Clients : req[p].stage = "put" /\ req[p].file = g
               PROVE  rows[g].cached <=> g \in objects'
    BY <1>1 DEF Agree
  <2>1. ~Undone(g) /\ (g \in objects' <=> g \in objects)
    BY <1>3, <1>9, <1>10
  <2> QED
    BY <2>1 DEF IInv, Agree
<1> QED
  BY <1>7, <1>8, <1>11, <1>12, <1>13 DEF IInv

(* The commit of a cleanup drops what it removed; where another had        *)
(* dropped it before, the file is spoiled.                                 *)
LEMMA CommitCleanupKeeps ==
  ASSUME IInv, NEW c \in Cleaners, CommitCleanup(c)
  PROVE  IInv'
<1> DEFINE dropped == job[c].removed
<1>1. /\ UNCHANGED <<upstream, pkg, objects, req, faults>>
      /\ rows' = Drop(c) /\ spoiled' = spoiled \cup (dropped \cap job[c].late)
      /\ JobFit(job[c]) /\ dropped \subseteq Files
  BY DEF CommitCleanup, IInv, JobsFit, JobFit, Job
<1>2. ASSUME NEW f \in Files
      PROVE  /\ rows'[f] \in Row /\ rows'[f].entry = rows[f].entry /\ rows'[f].idle = rows[f].idle
             /\ rows'[f].cached <=> rows[f].cached /\ f \notin dropped
  <2>1. rows[f] \in Row
    BY DEF IInv, TablesFit
  <2>2. rows'[f] = IF f \in dropped THEN [rows[f] EXCEPT !.cached = FALSE] ELSE rows[f]
    BY <1>1 DEF Drop
  <2> QED
    BY <2>1, <2>2 DEF Row
<1>3. rows' \in [Files -> Row]
  <2>1. rows' = [f \in Files |-> IF f \in dropped THEN [rows[f] EXCEPT !.cached = FALSE] ELSE rows[f]]
    BY <1>1 DEF Drop
  <2> QED
    BY <1>2, <2>1
<1>4. TablesFit' /\ EtagMeansLinks'
  BY <1>1, <1>2, <1>3 DEF IInv, TablesFit, EtagMeansLinks
<1>5. RequestsFit'
  BY <1>1, <1>2 DEF IInv, RequestsFit, Fit
<1>6. ASSUME NEW d \in Cleaners
      PROVE  /\ JobFit(job'[d])
             /\ d = c => job'[d].list = {} /\ job'[d].removed = {}
             /\ d # c => /\ job'[d].list = job[d].list /\ job'[d].removed = job[d].removed
                         /\ job[d].late \subseteq job'[d].late
                         /\ job[d].stage # "idle" => dropped \subseteq job'[d].late
  <2>1. JobFit(job[d])
    BY DEF IInv, JobsFit
  <2>2. CASE d = c
    <3>1. job'[d] = NoJob
      BY <2>2 DEF CommitCleanup
    <3>2. NoJob.list = {} /\ NoJob.removed = {}
      BY DEF NoJob
    <3> QED
      BY <2>2, <3>1, <3>2, NoneFit DEF JobFit
  <2>3. CASE d # c /\ job[d].stage = "idle"
    BY <2>1, <2>3 DEF CommitCleanup
  <2>4. CASE d # c /\ job[d].stage # "idle"
    <3> DEFINE j == [job[d] EXCEPT !.late = @ \cup dropped]
    <3>1. job'[d] = j
      BY <2>4 DEF CommitCleanup
    <3>2. /\ j \in Job /\ j.stage = job[d].stage /\ j.list = job[d].list /\ j.removed = job[d].removed
          /\ j.late = job[d].late \cup dropped
      BY <1>1, <2>1 DEF JobFit, Job
    <3>3. JobFit(j)
      BY <2>1, <3>2 DEF JobFit
    <3> HIDE DEF j
    <3> QED
      BY <2>4, <3>1, <3>2, <3>3
  <2> QED
    BY <2>2, <2>3, <2>4
<1>7. JobsFit'
  <2>1. job' = [d \in Cleaners |-> job'[d]]
    BY DEF CommitCleanup
  <2>2. \A d \in Cleaners : job'[d] \in Job
    BY <1>6 DEF JobFit
  <2>3. job' \in [Cleaners -> Job]
    BY <2>1, <2>2
  <2> QED
    BY <1>6, <2>3 DEF JobsFit, JobFit
<1>8. \A f \in Files : Loading(f)' <=> Loading(f)
  BY <1>1 DEF Loading, Loads
<1>9. IdleUntouched'
  BY <1>2, <1>8 DEF IInv, IdleUntouched
<1>10. HeldByCleanup'
  <2> SUFFICES ASSUME NEW d \in Cleaners, NEW f \in Files, Holds(job'[d], f)
               PROVE  rows'[f].cached /\ ~Loading(f) /\ (f \in job'[d].removed => f \notin objects)
    BY <1>1, <1>8 DEF HeldByCleanup
  <2>1. d # c
    BY <1>6 DEF Holds
  <2>2. Holds(job[d], f)
    BY <1>6, <2>1 DEF Holds
  <2>3. f \notin dropped
    <3>1. job[d].stage # "idle"
      BY <2>2 DEF Holds, IInv, JobsFit, JobFit
    <3> QED
      BY <1>6, <2>1, <3>1 DEF Holds
  <2> QED
    BY <1>2, <1>6, <2>1, <2>2, <2>3 DEF IInv, HeldByCleanup
(* A file the cleanup leaves was its own to leave, or is spoiled.          *)
<1>11. ASSUME NEW f \in Files, ~Undone(f)'
       PROVE  (f \in dropped => Holds(job[c], f)) /\ (f \notin dropped => ~Undone(f))
  <2>1. f \notin spoiled /\ (f \in dropped => f \notin job[c].late)
    BY <1>1, <1>11 DEF Undone
  <2>2. \A d \in Cleaners : d # c => f \notin job[d].removed
    BY <1>6, <1>11 DEF Undone
  <2> QED
    BY <2>1, <2>2 DEF Holds, Undone
<1>12. PutStored'
  <2> SUFFICES ASSUME NEW p \in Clients, req[p].stage = "put", NEW g, g = req[p].file, ~Undone(g)'
               PROVE  g \in objects
    BY <1>1 DEF PutStored, Undone
  <2>1. g \in Files /\ Loading(g) /\ (g \in objects \/ Undone(g))
    BY DEF IInv, RequestsFit, Fit, PutStored, Loading, Loads
  <2> QED
    BY <1>11, <2>1 DEF IInv, HeldByCleanup
<1>13. Agree'
  <2> SUFFICES ASSUME NEW f \in Files, ~Undone(f)', ~\E p \in Clients : req[p].stage = "put" /\ req[p].file = f
               PROVE  rows'[f].cached <=> f \in objects
    BY <1>1 DEF Agree
  <2>1. CASE f \in dropped
    BY <1>2, <1>11, <2>1 DEF IInv, HeldByCleanup
  <2>2. CASE f \notin dropped
    BY <1>2, <1>11, <2>2 DEF IInv, Agree
  <2> QED
    BY <2>1, <2>2
<1> QED
  BY <1>4, <1>5, <1>7, <1>9, <1>10, <1>12, <1>13 DEF IInv

LEMMA CleanupFailsKeeps ==
  ASSUME IInv, NEW c \in Cleaners, CleanupFails(c)
  PROVE  IInv'
<1>1. /\ UNCHANGED <<upstream, pkg, rows, objects, req>> /\ faults' \in 0 .. MaxFaults
      /\ spoiled' = spoiled \cup job[c].removed /\ job' = [job EXCEPT ![c] = NoJob]
  BY UpstreamAssumption DEF CleanupFails, Spend, IInv, TablesFit
<1>2. JobFit(NoJob) /\ NoJob.list = {} /\ NoJob.removed = {}
  BY NoneFit DEF JobFit, NoJob
<1>3. job'[c] = NoJob /\ \A d \in Cleaners : d # c => job'[d] = job[d]
  BY <1>1 DEF IInv, JobsFit
<1>4. JobsFit'
  BY <1>1, <1>2, <1>3, NoneFit DEF IInv, JobsFit
<1>5. job[c].removed \subseteq Files
  BY DEF IInv, JobsFit, Job
<1>6. RequestsFit' /\ TablesFit' /\ EtagMeansLinks' /\ IdleUntouched'
  BY <1>1, <1>5 DEF IInv, RequestsFit, Fit, TablesFit, EtagMeansLinks, IdleUntouched, Loading, Loads
<1>7. HeldByCleanup'
  BY <1>1, <1>2, <1>3 DEF IInv, HeldByCleanup, Holds, Loading, Loads
<1>8. \A f \in Files : Undone(f) => Undone(f)'
  BY <1>1, <1>2, <1>3 DEF Undone
<1>9. PutStored'
  <2> SUFFICES ASSUME NEW p \in Clients, req[p].stage = "put", NEW g, g = req[p].file
               PROVE  g \in objects \/ Undone(g)'
    BY <1>1 DEF PutStored, Undone
  <2>1. g \in Files /\ (g \in objects \/ Undone(g))
    BY DEF IInv, RequestsFit, Fit, PutStored
  <2> QED
    BY <1>8, <2>1
<1>10. Agree'
  BY <1>1, <1>8 DEF IInv, Agree
<1> QED
  BY <1>4, <1>6, <1>7, <1>9, <1>10 DEF IInv
-----------------------------------------------------------------------------
LEMMA EnvironmentKeeps ==
  ASSUME IInv, UpstreamMoves \/ TtlPasses \/ \E f \in Files : IdleDaysPass(f)
  PROVE  IInv'
<1>1. CASE UpstreamMoves \/ TtlPasses
  <2>1. /\ UNCHANGED <<rows, objects, req, job, spoiled, faults>>
        /\ upstream' \in Versions /\ pkg' \in [etag : Versions \cup {Nothing}, fresh : BOOLEAN]
        /\ pkg'.etag = pkg.etag
    BY <1>1 DEF UpstreamMoves, TtlPasses, IInv, TablesFit
  <2> QED
    BY <2>1 DEF IInv, TablesFit, RequestsFit, Fit, JobsFit, JobFit, EtagMeansLinks, IdleUntouched,
                HeldByCleanup, Holds, Loading, Loads, PutStored, Agree, Undone
<1>2. ASSUME NEW f \in Files, IdleDaysPass(f) PROVE IInv'
  <2>1. /\ UNCHANGED <<upstream, pkg, objects, req, job, spoiled, faults>>
        /\ rows' = [rows EXCEPT ![f].idle = TRUE]
        /\ \A p \in Clients : req[p].stage = "idle"
        /\ \A c \in Cleaners : job[c].list = {} /\ job[c].removed = {}
    BY <1>2 DEF IdleDaysPass, NoRequest, NoJob
  <2>2. ASSUME NEW g \in Files
        PROVE  rows'[g] \in Row /\ rows'[g].entry = rows[g].entry /\ rows'[g].cached = rows[g].cached
    <3>1. rows[g] \in Row
      BY DEF IInv, TablesFit
    <3>2. rows'[g] = rows[g] \/ rows'[g] = [rows[g] EXCEPT !.idle = TRUE]
      BY <2>1 DEF IInv, TablesFit
    <3> QED
      BY <3>1, <3>2 DEF Row
  <2>3. rows' \in [Files -> Row]
    <3>1. rows' = [g \in Files |-> rows'[g]]
      BY <2>1 DEF IInv, TablesFit
    <3> QED
      BY <2>2, <3>1
  <2>4. TablesFit' /\ EtagMeansLinks' /\ RequestsFit' /\ JobsFit'
    BY <2>1, <2>2, <2>3 DEF IInv, TablesFit, EtagMeansLinks, RequestsFit, Fit, JobsFit, JobFit
  <2>5. IdleUntouched' /\ HeldByCleanup' /\ PutStored'
    BY <2>1 DEF IdleUntouched, HeldByCleanup, Holds, Loading, Loads, PutStored
  <2>6. Agree'
    BY <2>1, <2>2 DEF IInv, Agree, Undone
  <2> QED
    BY <2>4, <2>5, <2>6 DEF IInv
<1> QED
  BY <1>1, <1>2

LEMMA NextKeeps == IInv /\ [Next]_vars => IInv'
<1> SUFFICES ASSUME IInv, [Next]_vars PROVE IInv'
  OBVIOUS
<1>1. ASSUME NEW p \in Clients, InsertFails(p) \/ Stream(p) \/ GiveUp(p) PROVE IInv'
  <2>1. req' = [req EXCEPT ![p] = NoRequest] /\ req[p].stage # "put"
    BY <1>1 DEF InsertFails, Stream, GiveUp
  <2> QED
    BY <1>1, <2>1, DoneKeeps DEF InsertFails, Stream, GiveUp
<1>2. CASE UNCHANGED vars
  BY <1>2 DEF vars, IInv, TablesFit, RequestsFit, Fit, JobsFit, JobFit, EtagMeansLinks, IdleUntouched,
              HeldByCleanup, Holds, Loading, Loads, PutStored, Agree, Undone
<1> QED
  BY <1>1, <1>2, EnvironmentKeeps, RefreshKeeps, FetchKeeps, ConfirmKeeps, StoreKeeps, ServeKeeps, PutKeeps,
     PutUnansweredKeeps, CommitCachedKeeps, StartCleanupKeeps, CommitCleanupKeeps, CleanupFailsKeeps, RemoveKeeps DEF Next

(* The inductive invariant: what requests and cleanups have in hand fits   *)
(* the rows; a file a cleanup holds is downloaded by nobody, and a file    *)
(* nobody asked for is in nobody's hands when a cleanup takes it.          *)
THEOREM UpstreamInvariant == Spec => []IInv
BY InitHolds, NextKeeps, PTL DEF Spec

(* Types; a cached file keeps its row.                                     *)
THEOREM TypesHold == Spec => []TypeOK
<1>1. IInv => TypeOK
  BY TypesFollow DEF IInv
<1> QED
  BY <1>1, UpstreamInvariant, PTL

(* A 304 confirms rows that say what that version of the page says,        *)
(* whatever refreshes ran at once (get_index, _store_links).               *)
THEOREM EtagVouchesForLinks == Spec => []EtagMeansLinks
<1>1. IInv => EtagMeansLinks
  BY DEF IInv
<1> QED
  BY <1>1, UpstreamInvariant, PTL

(* Rows and MinIO agree on every file that no download or cleanup has in   *)
(* hand, that neither a commit nor MinIO failed on and that two            *)
(* overlapping cleanups left alone                                         *)
(* (serve_file, cleanup_cache).                                            *)
THEOREM CacheFollowsStore == Spec => []CacheAgrees
<1>1. IInv => CacheAgrees
  BY AgreementFollows DEF IInv
<1> QED
  BY <1>1, UpstreamInvariant, PTL
=============================================================================
