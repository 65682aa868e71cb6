---------------------------- MODULE UpstreamCache ----------------------------
(***************************************************************************)
(* pypi_proxy_service: the index of one public package, refreshed from     *)
(* PyPI under a TTL and an ETag, the files cached in MinIO on their first  *)
(* download, and the cleanup of files nobody asked for.                    *)
(*                                                                         *)
(* No row is locked before it is read.  Two refreshes meet at the rows     *)
(* their upserts write; a download puts the object before it commits that  *)
(* the file is cached, and a cleanup removes objects before it commits     *)
(* that they are not.  Maintenance overlaps itself when its worker dies    *)
(* and the task is delivered again while the API still serves the call.    *)
(***************************************************************************)
EXTENDS Naturals, FiniteSets

CONSTANTS
  Clients,    (* bound: requests at the same time                          *)
  Cleaners,   (* bound: maintenance calls at the same time                 *)
  Files, NoFile,
  Listing,    (* what each version of PyPI's page says of each file        *)
  CacheLimit, (* upstream_cache_max_bytes, in files                        *)
  MaxFaults   (* bound: commits that fail, calls of MinIO that raise       *)

Entries == {"absent", "listed", "yanked"}
Versions == DOMAIN Listing
Nothing == 0

ASSUME UpstreamAssumption ==
  /\ \A v \in Versions : v \in Nat \ {Nothing} /\ Listing[v] \in [Files -> Entries]
  /\ NoFile \notin Files /\ IsFiniteSet(Files)
  /\ Clients \cap Cleaners = {}
  /\ CacheLimit \in Nat /\ MaxFaults \in Nat

VARIABLES
  upstream, (* the version PyPI serves, which is its ETag                  *)
  pkg,      (* upstream_packages: the stored ETag (0: no row), within TTL  *)
  rows,     (* upstream_files: what the index says, cached with its        *)
            (* object_key, unused for upstream_cache_max_idle_days         *)
  objects,  (* MinIO: files stored                                         *)
  req,      (* the request of each client                                  *)
  job,      (* the cleanup of each cleaner                                 *)
  spoiled,  (* history: files of a commit that failed, of a call of MinIO  *)
            (* that raised after it took effect, or dropped by two         *)
            (* cleanups at the same time                                   *)
  faults

vars == <<upstream, pkg, rows, objects, req, job, spoiled, faults>>

NoRequest == [stage |-> "idle", file |-> NoFile, etag |-> Nothing, got |-> Nothing]
NoJob == [stage |-> "idle", list |-> {}, removed |-> {}, late |-> {}, total |-> 0]

Init ==
  /\ upstream \in Versions
  /\ pkg = [etag |-> Nothing, fresh |-> FALSE]
  /\ rows = [f \in Files |-> [entry |-> "absent", cached |-> FALSE, idle |-> FALSE]]
  /\ objects = {}
  /\ req = [p \in Clients |-> NoRequest]
  /\ job = [c \in Cleaners |-> NoJob]
  /\ spoiled = {}
  /\ faults = 0

Spend == faults < MaxFaults /\ faults' = faults + 1
Listed == {f \in Files : rows[f].entry # "absent"}
Cached == {f \in Files : rows[f].cached}

-----------------------------------------------------------------------------
(* PyPI publishes, yanks or takes back; time passes.  No request and no    *)
(* cleanup lasts for the idle days.                                        *)
UpstreamMoves ==
  /\ upstream' \in Versions \ {upstream}
  /\ UNCHANGED <<pkg, rows, objects, req, job, spoiled, faults>>

TtlPasses ==
  /\ pkg.fresh
  /\ pkg' = [pkg EXCEPT !.fresh = FALSE]
  /\ UNCHANGED <<upstream, rows, objects, req, job, spoiled, faults>>

IdleDaysPass(f) ==
  /\ rows[f].cached /\ ~rows[f].idle
  /\ \A p \in Clients : req[p] = NoRequest
  /\ \A c \in Cleaners : job[c] = NoJob
  /\ rows' = [rows EXCEPT ![f].idle = TRUE]
  /\ UNCHANGED <<upstream, pkg, objects, req, job, spoiled, faults>>

-----------------------------------------------------------------------------
(* get_index, for a page or for a file whose row is missing.               *)
Refresh(p, f) ==
  /\ req[p] = NoRequest
  /\ f = NoFile \/ f \notin Listed
  /\ ~pkg.fresh
  /\ req' = [req EXCEPT ![p] = [NoRequest EXCEPT !.stage = "fetching", !.file = f, !.etag = pkg.etag]]
  /\ UNCHANGED <<upstream, pkg, rows, objects, job, spoiled, faults>>

(* serve_file goes on with the row the index gave it, if it is there.      *)
After(p, present) ==
  req' = [req EXCEPT ![p] = IF req[p].file \in present
                            THEN [NoRequest EXCEPT !.stage = "found", !.file = req[p].file]
                            ELSE NoRequest]

(* No answer or 404: the stored index, if there was one, serves as it is.  *)
(* 304: it is confirmed.  200: there is a new list.                        *)
Fetch(p) ==
  /\ req[p].stage = "fetching"
  /\ \/ After(p, IF req[p].etag = Nothing THEN {} ELSE Listed)
     \/ /\ upstream = req[p].etag
        /\ req' = [req EXCEPT ![p].stage = "unchanged"]
     \/ /\ upstream # req[p].etag
        /\ req' = [req EXCEPT ![p].stage = "storing", ![p].got = upstream]
  /\ UNCHANGED <<upstream, pkg, rows, objects, job, spoiled, faults>>

Confirm(p) ==
  /\ req[p].stage = "unchanged"
  /\ pkg' = [pkg EXCEPT !.fresh = TRUE]
  /\ After(p, Listed)
  /\ UNCHANGED <<upstream, rows, objects, job, spoiled, faults>>

(* Mutants of the upsert: cached is among the columns of its DO UPDATE, it *)
(* is a DO NOTHING, or a file gone from the list loses its row.            *)
MergedExactly(row, entry) == [row EXCEPT !.entry = entry]
MergedAfresh(row, entry) == IF entry = "absent" THEN row ELSE [row EXCEPT !.entry = entry, !.cached = FALSE]
MergedOnce(row, entry) == IF row.entry = "absent" THEN [row EXCEPT !.entry = entry] ELSE row

(* _store_links: a known file keeps its cache columns, one that is gone    *)
(* from the list keeps its row.  Lists that share a file are stored one    *)
(* after the other: the second upsert waits for the rows of the first.     *)
Merged(row, entry) == IF entry = "absent" THEN row ELSE [row EXCEPT !.entry = entry]

Store(p) ==
  /\ req[p].stage = "storing"
  /\ req[p].etag # Nothing \/ pkg.etag = Nothing
  /\ pkg' = [etag |-> req[p].got, fresh |-> TRUE]
  /\ rows' = [f \in Files |-> Merged(rows[f], Listing[req[p].got][f])]
  /\ After(p, {f \in Files : rows'[f].entry # "absent"})
  /\ UNCHANGED <<upstream, objects, job, spoiled, faults>>

(* The insert of a package that another request has inserted meanwhile     *)
(* fails: 500.                                                             *)
InsertFails(p) ==
  /\ req[p].stage = "storing"
  /\ req[p].etag = Nothing /\ pkg.etag # Nothing
  /\ req' = [req EXCEPT ![p] = NoRequest]
  /\ UNCHANGED <<upstream, pkg, rows, objects, job, spoiled, faults>>

-----------------------------------------------------------------------------
(* serve_file: a cached file is touched and its object read afterwards,    *)
(* any other is downloaded and checked against its sha256.                 *)
Look(p, f) ==
  /\ f \in Listed
  /\ rows' = IF rows[f].cached THEN [rows EXCEPT ![f].idle = FALSE] ELSE rows
  /\ req' = [req EXCEPT ![p] = [NoRequest EXCEPT
               !.stage = IF rows[f].cached THEN "hit" ELSE "downloading", !.file = f]]
  /\ UNCHANGED <<upstream, pkg, objects, job, spoiled, faults>>

Serve(p, f) == req[p] = NoRequest /\ Look(p, f)
GoOn(p) == req[p].stage = "found" /\ Look(p, req[p].file)

(* The object is read while the answer is already being sent.              *)
Stream(p) ==
  /\ req[p].stage = "hit"
  /\ req' = [req EXCEPT ![p] = NoRequest]
  /\ UNCHANGED <<upstream, pkg, rows, objects, job, spoiled, faults>>

(* The download fails, or the put before MinIO has the object: the file is *)
(* not cached.                                                             *)
GiveUp(p) ==
  /\ req[p].stage = "downloading"
  /\ req' = [req EXCEPT ![p] = NoRequest]
  /\ UNCHANGED <<upstream, pkg, rows, objects, job, spoiled, faults>>

Put(p) ==
  /\ req[p].stage = "downloading"
  /\ objects' = objects \cup {req[p].file}
  /\ req' = [req EXCEPT ![p].stage = "put"]
  /\ UNCHANGED <<upstream, pkg, rows, job, spoiled, faults>>

(* The put raises although MinIO has stored the object, as after a time-   *)
(* out: the client gets its file, the row is not written.                  *)
PutUnanswered(p) ==
  /\ req[p].stage = "downloading"
  /\ Spend
  /\ objects' = objects \cup {req[p].file}
  /\ spoiled' = spoiled \cup {req[p].file}
  /\ req' = [req EXCEPT ![p] = NoRequest]
  /\ UNCHANGED <<upstream, pkg, rows, job>>

CommitCached(p) ==
  /\ req[p].stage = "put"
  /\ rows' = [rows EXCEPT ![req[p].file].cached = TRUE, ![req[p].file].idle = FALSE]
  /\ req' = [req EXCEPT ![p] = NoRequest]
  /\ UNCHANGED <<upstream, pkg, objects, job, spoiled, faults>>

CommitCachedFails(p) ==
  /\ req[p].stage = "put"
  /\ Spend
  /\ spoiled' = spoiled \cup {req[p].file}
  /\ req' = [req EXCEPT ![p] = NoRequest]
  /\ UNCHANGED <<upstream, pkg, rows, objects, job>>

-----------------------------------------------------------------------------
(* cleanup_cache: the total and the idle files are read once.              *)
StartCleanup(c) ==
  /\ job[c] = NoJob
  /\ Cardinality(Cached) > CacheLimit
  /\ job' = [job EXCEPT ![c] = [NoJob EXCEPT !.stage = "removing", !.total = Cardinality(Cached),
                                             !.list = {f \in Cached : rows[f].idle}]]
  /\ UNCHANGED <<upstream, pkg, rows, objects, req, spoiled, faults>>

OverLimit(c) == job[c].total - Cardinality(job[c].removed) > CacheLimit

Remove(c, f) ==
  /\ f \in job[c].list
  /\ OverLimit(c)
  /\ objects' = objects \ {f}
  /\ job' = [job EXCEPT ![c].list = @ \ {f}, ![c].removed = @ \cup {f}]
  /\ UNCHANGED <<upstream, pkg, rows, req, spoiled, faults>>

(* The call raises before or after MinIO has removed the object; the file  *)
(* is passed over, its row still says that it is cached.                   *)
RemoveFails(c, f) ==
  /\ f \in job[c].list
  /\ OverLimit(c)
  /\ Spend
  /\ \/ UNCHANGED <<objects, spoiled>>
     \/ objects' = objects \ {f} /\ spoiled' = spoiled \cup {f}
  /\ job' = [job EXCEPT ![c].list = @ \ {f}]
  /\ UNCHANGED <<upstream, pkg, rows, req>>

Drop(c) == [f \in Files |-> IF f \in job[c].removed THEN [rows[f] EXCEPT !.cached = FALSE] ELSE rows[f]]

CommitCleanup(c) ==
  /\ job[c].stage = "removing"
  /\ job[c].list = {} \/ ~OverLimit(c)
  /\ rows' = Drop(c)
  /\ job' = [d \in Cleaners |-> IF d = c THEN NoJob
                                ELSE IF job[d].stage = "idle" THEN job[d]
                                ELSE [job[d] EXCEPT !.late = @ \cup job[c].removed]]
  /\ spoiled' = spoiled \cup (job[c].removed \cap job[c].late)
  /\ UNCHANGED <<upstream, pkg, objects, req, faults>>

CleanupFails(c) ==
  /\ job[c].stage = "removing"
  /\ Spend
  /\ spoiled' = spoiled \cup job[c].removed
  /\ job' = [job EXCEPT ![c] = NoJob]
  /\ UNCHANGED <<upstream, pkg, rows, objects, req>>

-----------------------------------------------------------------------------
Next ==
  \/ UpstreamMoves \/ TtlPasses \/ \E f \in Files : IdleDaysPass(f)
  \/ \E p \in Clients, f \in Files \cup {NoFile} : Refresh(p, f)
  \/ \E p \in Clients : Fetch(p) \/ Confirm(p) \/ Store(p) \/ InsertFails(p)
  \/ \E p \in Clients, f \in Files : Serve(p, f)
  \/ \E p \in Clients : GoOn(p) \/ Stream(p) \/ GiveUp(p) \/ Put(p) \/ PutUnanswered(p)
                          \/ CommitCached(p) \/ CommitCachedFails(p)
  \/ \E c \in Cleaners : StartCleanup(c) \/ CommitCleanup(c) \/ CleanupFails(c)
  \/ \E c \in Cleaners, f \in Files : Remove(c, f) \/ RemoveFails(c, f)

Spec == Init /\ [][Next]_vars

-----------------------------------------------------------------------------
(* Types of the tables, the store, the requests and the cleanups; a file   *)
(* that is cached keeps its row.                                           *)
TypeOK ==
  /\ upstream \in Versions
  /\ pkg \in [etag : Versions \cup {Nothing}, fresh : BOOLEAN]
  /\ rows \in [Files -> [entry : Entries, cached : BOOLEAN, idle : BOOLEAN]]
  /\ \A f \in Files : rows[f].cached => rows[f].entry # "absent"
  /\ objects \subseteq Files
  /\ req \in [Clients -> [stage : {"idle", "fetching", "unchanged", "storing", "found",
                                   "hit", "downloading", "put"},
                          file : Files \cup {NoFile}, etag : Versions \cup {Nothing},
                          got : Versions \cup {Nothing}]]
  /\ job \in [Cleaners -> [stage : {"idle", "removing"}, list : SUBSET Files, removed : SUBSET Files,
                           late : SUBSET Files, total : 0 .. Cardinality(Files)]]
  /\ spoiled \subseteq Files
  /\ faults \in 0 .. MaxFaults

(* The stored ETag never vouches for another list: whatever refreshes ran  *)
(* at once, a 304 confirms rows that say what that version of the page     *)
(* says (get_index, _store_links).                                         *)
EtagMeansLinks ==
  pkg.etag # Nothing =>
    \A f \in Files : Listing[pkg.etag][f] \in {"absent", rows[f].entry}

(* A file is marked cached exactly when its object is stored, unless a     *)
(* download or a cleanup is between the two, one failed there, MinIO did   *)
(* what it answered with an error, or two cleanups overlapped (serve_file, *)
(* cleanup_cache).                                                         *)
Busy == (UNION {job[c].removed : c \in Cleaners})
          \cup {req[p].file : p \in {q \in Clients : req[q].stage = "put"}}
CacheAgrees ==
  \A f \in Files \ (spoiled \cup Busy) : rows[f].cached <=> f \in objects
=============================================================================
