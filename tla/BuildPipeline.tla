---------------------------- MODULE BuildPipeline ----------------------------
(***************************************************************************)
(* The life of builds: the rows the backend keeps, the Celery messages on  *)
(* Redis, the worker processes that run builds, users who cancel them and  *)
(* the periodic maintenance job.                                           *)
(*                                                                         *)
(* A handler that takes the row lock of a build (SELECT ... FOR UPDATE) is *)
(* one step.  A handler that decides on a row it read without a lock, or   *)
(* read earlier in its session, is split at that read: the cancel endpoint *)
(* and the maintenance job.  A call of a worker to the backend is a record *)
(* in calls; it may be lost, be served after the worker stopped waiting,   *)
(* or be served and have its answer lost.                                  *)
(***************************************************************************)
EXTENDS Naturals, FiniteSets

CONSTANTS
  Builds,       (* the builds that may be created                          *)
  Releases,     (* builds with publish_package: those of a tag vX.Y.Z      *)
  Version,      (* the requested_version of each release build             *)
  Workers,      (* worker processes, each running one task at a time       *)
  Runners,      (* rows of runner_nodes                                    *)
  RunnerOf,     (* the runner a worker process belongs to                  *)
  Clients,      (* cancel requests: each makes one                         *)
  NoBuild,
  MaxMessages,  (* bound: maintenance stops re-sending at so many messages *)
  MaxFaults     (* bound: crashes, lost calls and answers, Redis errors    *)

ASSUME PipelineAssumption ==
  /\ Releases \subseteq Builds
  /\ NoBuild \notin Builds
  /\ RunnerOf \in [Workers -> Runners]
  /\ MaxMessages \in Nat
  /\ MaxFaults \in Nat

VARIABLES
  status,        (* builds.status; "NONE" before the row exists            *)
  runs,          (* history: how often start_build handed the build out    *)
  token,         (* the build's access_tokens row                          *)
  output,        (* its files are recorded: package_versions row (release) *)
                 (* or artifacts_json (validation)                         *)
  cancelKey,     (* Redis key build:{id}:cancel                            *)
  queue,         (* messages for the build on the Celery queue             *)
  wpc,           (* where execute() of each worker is                      *)
  wbuild,        (* the build whose (unacknowledged) message it holds      *)
  verdict,       (* the local variable status of execute()                 *)
  calls,         (* HTTP calls to the backend not yet served               *)
  cancel,        (* progress of each cancel request                        *)
  overdue,       (* RUNNING builds loaded by requeue_stale, not yet failed *)
  runnerStatus,  (* runner_nodes.status                                    *)
  faults         (* faults so far                                          *)

rowVars    == <<status, runs, token, output>>
workerVars == <<wpc, wbuild, verdict>>
vars == <<rowVars, cancelKey, queue, workerVars, calls, cancel, overdue,
          runnerStatus, faults>>

Finished == {"SUCCESS", "FAILED", "CANCELLED"}
Statuses == {"NONE", "QUEUED", "RUNNING"} \cup Finished
RunnerStatuses == {"ONLINE", "DRAINING", "OFFLINE"}
Ops == {"start", "publish", "store", "append", "finish"}
Places == {"idle", "starting", "source", "container", "publishing",
           "storing", "finishing"}

(* A worker at one of these places was handed its build by start_build.    *)
Executing(w) == wpc[w] \notin {"idle", "starting"}

Calls == [op : Ops, build : Builds, worker : Workers, verdict : Finished]
CancelRequests ==
  [pc : {"idle", "read", "set", "done"}, build : Builds \cup {NoBuild},
   seen : {"NONE", "QUEUED", "RUNNING"}]

Init ==
  /\ status = [b \in Builds |-> "NONE"]
  /\ runs = [b \in Builds |-> 0]
  /\ token = [b \in Builds |-> "none"]
  /\ output = [b \in Builds |-> FALSE]
  /\ cancelKey = [b \in Builds |-> FALSE]
  /\ queue = [b \in Builds |-> 0]
  /\ wpc = [w \in Workers |-> "idle"]
  /\ wbuild = [w \in Workers |-> NoBuild]
  /\ verdict = [w \in Workers |-> "FAILED"]
  /\ calls = {}
  /\ cancel = [c \in Clients |-> [pc |-> "idle", build |-> NoBuild, seen |-> "NONE"]]
  /\ overdue = {}
  /\ runnerStatus = [r \in Runners |-> "ONLINE"]
  /\ faults = 0

Cost(bad) == IF bad THEN 1 ELSE 0

(* n faults happen in this step.                                           *)
Spend(n) == faults + n <= MaxFaults /\ faults' = faults + n

Send(b)    == queue' = [queue EXCEPT ![b] = @ + 1]
Receive(b) == queue[b] > 0 /\ queue' = [queue EXCEPT ![b] = @ - 1]

-----------------------------------------------------------------------------
(* Creation: create_build, commit, enqueue_after_commit.  A send that      *)
(* fails is logged and forgotten, as is one cut off by a crash of the API. *)

CreateBuild(b) ==
  /\ status[b] = "NONE"
  /\ status' = [status EXCEPT ![b] = "QUEUED"]
  /\ \/ Send(b) /\ UNCHANGED faults
     \/ Spend(1) /\ UNCHANGED queue
  /\ UNCHANGED <<runs, token, output, cancelKey, workerVars, calls, cancel,
                 overdue, runnerStatus>>

-----------------------------------------------------------------------------
(* The worker's side of a call.                                            *)

CallOf(w, b, op, v) == [op |-> op, build |-> b, worker |-> w, verdict |-> v]

Waiting(op) == CASE op = "start"               -> "starting"
                 [] op = "publish"             -> "publishing"
                 [] op \in {"store", "append"} -> "storing"
                 [] op = "finish"              -> "finishing"

(* The worker that made call c still waits for its answer.                 *)
Awaited(c) == wpc[c.worker] = Waiting(c.op) /\ wbuild[c.worker] = c.build

(* Call c has been served; its answer is lost, or arrives if awaited.      *)
Answered(c, lost) == Awaited(c) /\ ~lost

Goto(w, place) == wpc' = [wpc EXCEPT ![w] = place] /\ UNCHANGED <<wbuild, verdict>>

(* The task ends and its message is acknowledged.                          *)
Rest(w) ==
  /\ wpc' = [wpc EXCEPT ![w] = "idle"]
  /\ wbuild' = [wbuild EXCEPT ![w] = NoBuild]
  /\ verdict' = [verdict EXCEPT ![w] = "FAILED"]

(* execute() reaches its last statement, api.finish, with result v.        *)
Report(w, v, served) ==
  /\ wpc' = [wpc EXCEPT ![w] = "finishing"]
  /\ verdict' = [verdict EXCEPT ![w] = v]
  /\ calls' = (calls \ served) \cup {CallOf(w, wbuild[w], "finish", v)}
  /\ UNCHANGED wbuild

TakeMessage(w, b) ==
  /\ wpc[w] = "idle"
  /\ Receive(b)
  /\ wpc' = [wpc EXCEPT ![w] = "starting"]
  /\ wbuild' = [wbuild EXCEPT ![w] = b]
  /\ calls' = calls \cup {CallOf(w, b, "start", "FAILED")}
  /\ UNCHANGED <<rowVars, cancelKey, verdict, cancel, overdue, runnerStatus, faults>>

(* download_source succeeds only on a RUNNING build (require_running).     *)
SourceOk(w) ==
  /\ wpc[w] = "source"
  /\ status[wbuild[w]] = "RUNNING"
  /\ Goto(w, "container")
  /\ UNCHANGED <<rowVars, cancelKey, queue, calls, cancel, overdue, runnerStatus, faults>>

(* The source is refused or invalid, or the container fails or times out.  *)
BuildFails(w) ==
  /\ wpc[w] \in {"source", "container"}
  /\ Report(w, "FAILED", {})
  /\ UNCHANGED <<rowVars, cancelKey, queue, cancel, overdue, runnerStatus, faults>>

(* The poll loop of run_container sees a cancel through control() and      *)
(* kills the container.                                                    *)
CancelSeen(w) ==
  /\ wpc[w] = "container"
  /\ status[wbuild[w]] = "CANCELLED" \/ cancelKey[wbuild[w]]
  /\ Report(w, "CANCELLED", {})
  /\ UNCHANGED <<rowVars, cancelKey, queue, cancel, overdue, runnerStatus, faults>>

(* Mutant: the result is reported before the files are published.          *)
ContainerDoneReported(w) ==
  /\ wpc[w] = "container"
  /\ Report(w, "SUCCESS", {})
  /\ UNCHANGED <<rowVars, cancelKey, queue, cancel, overdue, runnerStatus, faults>>

(* The container exited with its files: publish them, or store them as     *)
(* artifacts of a validation build.                                        *)
ContainerDone(w) ==
  /\ wpc[w] = "container"
  /\ LET b  == wbuild[w]
         op == IF b \in Releases THEN "publish" ELSE "store"
     IN  /\ Goto(w, Waiting(op))
         /\ calls' = calls \cup {CallOf(w, b, op, "FAILED")}
  /\ UNCHANGED <<rowVars, cancelKey, queue, cancel, overdue, runnerStatus, faults>>

Pending(w) == {c \in calls : c.worker = w /\ Awaited(c)}

(* ApiClient sends a call again after a transport error or a 5xx: start    *)
(* and artifacts up to 3 times, finish up to 5 times, publish never.       *)
Resend(w) ==
  /\ Pending(w) = {}
  /\ \E op \in {"start", "store", "finish"} :
       /\ wpc[w] = Waiting(op)
       /\ calls' = calls \cup {CallOf(w, wbuild[w], op, verdict[w])}
  /\ UNCHANGED <<rowVars, cancelKey, queue, workerVars, cancel, overdue,
                 runnerStatus, faults>>

(* The attempts are used up.  A start or a finish that fails ends the task *)
(* with an exception, which acknowledges the message all the same; a       *)
(* publish or an upload that fails makes the build FAILED.                 *)
GiveUp(w) ==
  /\ wpc[w] \in {"starting", "publishing", "storing", "finishing"}
  /\ Spend(Cost(Pending(w) # {}))
  /\ \/ /\ wpc[w] \in {"starting", "finishing"}
        /\ Rest(w)
        /\ UNCHANGED calls
     \/ /\ wpc[w] \in {"publishing", "storing"}
        /\ Report(w, "FAILED", {})
  /\ UNCHANGED <<rowVars, cancelKey, queue, cancel, overdue, runnerStatus>>

(* The worker process dies: with acks_late the broker delivers the message *)
(* it held once more.  Its calls under way are still served.               *)
WorkerCrash(w) ==
  /\ wpc[w] # "idle"
  /\ Spend(1)
  /\ Send(wbuild[w])
  /\ Rest(w)
  /\ UNCHANGED <<rowVars, cancelKey, calls, cancel, overdue, runnerStatus>>

LoseCall(c) ==
  /\ c \in calls
  /\ Spend(1)
  /\ calls' = calls \ {c}
  /\ UNCHANGED <<rowVars, cancelKey, queue, workerVars, cancel, overdue, runnerStatus>>

-----------------------------------------------------------------------------
(* The backend's side: start_build, publish, add_artifacts, finish_build.  *)
(* redisDown: _cancel_requested answers FALSE when Redis fails.            *)

Serving(c, op) == c \in calls /\ c.op = op

(* Mutant: a build that was handed out is handed out again.                *)
StartableAgain(b) == status[b] \in {"QUEUED", "RUNNING"}
Startable(b) == status[b] = "QUEUED"

StartAccepted(c) ==
  /\ Serving(c, "start")
  /\ Startable(c.build)
  /\ runnerStatus[RunnerOf[c.worker]] = "ONLINE"
  /\ status' = [status EXCEPT ![c.build] = "RUNNING"]
  /\ runs' = [runs EXCEPT ![c.build] = @ + 1]
  /\ token' = [token EXCEPT ![c.build] = "active"]
  /\ calls' = calls \ {c}
  /\ \E lost, redisDown \in BOOLEAN :
       /\ cancelKey[c.build] => redisDown
       /\ Spend(Cost(lost) + Cost(redisDown))
       /\ IF Answered(c, lost) THEN Goto(c.worker, "source") ELSE UNCHANGED workerVars
  /\ UNCHANGED <<output, cancelKey, queue, cancel, overdue, runnerStatus>>

(* 409 BUILD_NOT_QUEUED: the worker skips the build.                       *)
StartRefused(c) ==
  /\ Serving(c, "start")
  /\ ~Startable(c.build) \/ cancelKey[c.build]
  /\ calls' = calls \ {c}
  /\ \E lost \in BOOLEAN :
       /\ Spend(Cost(lost))
       /\ IF Answered(c, lost) THEN Rest(c.worker) ELSE UNCHANGED workerVars
  /\ UNCHANGED <<rowVars, cancelKey, queue, cancel, overdue, runnerStatus>>

(* 409 RUNNER_NOT_ACCEPTING: the worker puts the build back on the queue;  *)
(* that send may fail too.                                                 *)
StartNotAccepting(c) ==
  /\ Serving(c, "start")
  /\ Startable(c.build)
  /\ ~cancelKey[c.build]
  /\ runnerStatus[RunnerOf[c.worker]] # "ONLINE"
  /\ calls' = calls \ {c}
  /\ \E lost, unsent \in BOOLEAN :
       /\ Spend(Cost(lost) + Cost(unsent))
       /\ IF Answered(c, lost) THEN Rest(c.worker) ELSE UNCHANGED workerVars
       /\ IF Answered(c, lost) /\ ~unsent THEN Send(c.build) ELSE UNCHANGED queue
  /\ UNCHANGED <<rowVars, cancelKey, cancel, overdue, runnerStatus>>

(* A call that changed or found nothing is answered: the worker goes on to *)
(* report v.                                                               *)
AnswerWith(c, v, lost) ==
  IF Answered(c, lost)
  THEN Report(c.worker, v, {c})
  ELSE calls' = calls \ {c} /\ UNCHANGED workerVars

VersionTaken(b) == \E other \in Releases : output[other] /\ Version[other] = Version[b]

(* Mutant: publish does not look at the status of the build.               *)
PublishableAnytime(b) == ~VersionTaken(b)
Publishable(b) == status[b] = "RUNNING" /\ ~VersionTaken(b)

(* package_service.publish holds the build's row lock to its commit.       *)
PublishServed(c) ==
  /\ Serving(c, "publish")
  /\ Publishable(c.build)
  /\ output' = [output EXCEPT ![c.build] = TRUE]
  /\ \E lost \in BOOLEAN : Spend(Cost(lost)) /\ AnswerWith(c, "SUCCESS", lost)
  /\ UNCHANGED <<status, runs, token, cancelKey, queue, cancel, overdue, runnerStatus>>

(* Not RUNNING, version taken, files that do not fit the build, or MinIO   *)
(* fails: nothing has changed.                                             *)
PublishRefused(c) ==
  /\ Serving(c, "publish")
  /\ \E lost \in BOOLEAN : Spend(Cost(lost)) /\ AnswerWith(c, "FAILED", lost)
  /\ UNCHANGED <<rowVars, cancelKey, queue, cancel, overdue, runnerStatus>>

(* build_artifacts checks the status on a row it does not lock, uploads    *)
(* the files, then commits the list of them.                               *)
StoreChecked(c) ==
  /\ Serving(c, "store")
  /\ status[c.build] = "RUNNING"
  /\ calls' = (calls \ {c}) \cup {[c EXCEPT !.op = "append"]}
  /\ UNCHANGED <<rowVars, cancelKey, queue, workerVars, cancel, overdue,
                 runnerStatus, faults>>

(* Not RUNNING, a file is refused, or MinIO fails.                         *)
StoreRefused(c) ==
  /\ Serving(c, "store")
  /\ \E lost \in BOOLEAN : Spend(Cost(lost)) /\ AnswerWith(c, "FAILED", lost)
  /\ UNCHANGED <<rowVars, cancelKey, queue, cancel, overdue, runnerStatus>>

ArtifactsAppended(c) ==
  /\ Serving(c, "append")
  /\ output' = [output EXCEPT ![c.build] = TRUE]
  /\ \E lost \in BOOLEAN : Spend(Cost(lost)) /\ AnswerWith(c, "SUCCESS", lost)
  /\ UNCHANGED <<status, runs, token, cancelKey, queue, cancel, overdue, runnerStatus>>

(* Mutant: a result is written without revoking the build's token.         *)
KeptToken(b) == token[b]
Revoked(b) == IF token[b] = "active" THEN "revoked" ELSE token[b]

(* What finish_build commits for a build it takes for unfinished; the      *)
(* cancel key is deleted after the commit, if Redis answers.               *)
Finish(b, v, redisDown) ==
  /\ status' = [status EXCEPT ![b] = v]
  /\ token' = [token EXCEPT ![b] = Revoked(b)]
  /\ cancelKey' = [cancelKey EXCEPT ![b] = @ /\ redisDown]
  /\ UNCHANGED <<runs, output>>

FinishServed(c) ==
  /\ Serving(c, "finish")
  /\ \E lost, redisDown \in BOOLEAN :
       /\ Spend(Cost(lost) + Cost(redisDown))
       /\ IF status[c.build] \in Finished
          THEN UNCHANGED <<rowVars, cancelKey>>
          ELSE Finish(c.build, c.verdict, redisDown)
       /\ IF Answered(c, lost) THEN Rest(c.worker) ELSE UNCHANGED workerVars
  /\ calls' = calls \ {c}
  /\ UNCHANGED <<queue, cancel, overdue, runnerStatus>>

-----------------------------------------------------------------------------
(* The cancel endpoint: an unlocked read, a Redis SET, a commit.           *)

CancelRead(k, b) ==
  /\ cancel[k].pc = "idle"
  /\ status[b] \in {"QUEUED", "RUNNING"}
  /\ cancel' = [cancel EXCEPT ![k] = [pc |-> "read", build |-> b, seen |-> status[b]]]
  /\ UNCHANGED <<rowVars, cancelKey, queue, workerVars, calls, overdue,
                 runnerStatus, faults>>

(* Mutant: a request cut short starts over without reading the build.      *)
CancelRetried(k) == cancel' = [cancel EXCEPT ![k] =
                                [pc |-> "read", build |-> NoBuild, seen |-> "NONE"]]
CancelDone(k) == cancel' = [cancel EXCEPT ![k] =
                             [pc |-> "done", build |-> NoBuild, seen |-> "NONE"]]

(* 503 QUEUE_UNAVAILABLE when Redis fails: nothing has changed.            *)
CancelSetKey(k) ==
  /\ cancel[k].pc = "read"
  /\ \/ /\ cancelKey' = [cancelKey EXCEPT ![cancel[k].build] = TRUE]
        /\ cancel' = [cancel EXCEPT ![k].pc = "set"]
        /\ UNCHANGED faults
     \/ Spend(1) /\ CancelDone(k) /\ UNCHANGED cancelKey
  /\ UNCHANGED <<rowVars, queue, workerVars, calls, overdue, runnerStatus>>

(* The row is written from the status seen at the read.                    *)
CancelCommit(k) ==
  /\ cancel[k].pc = "set"
  /\ IF cancel[k].seen = "QUEUED"
     THEN status' = [status EXCEPT ![cancel[k].build] = "CANCELLED"]
     ELSE UNCHANGED status
  /\ CancelDone(k)
  /\ UNCHANGED <<runs, token, output, cancelKey, queue, workerVars, calls,
                 overdue, runnerStatus, faults>>

(* The API process dies, or the commit fails, with the key already set.    *)
CancelAborted(k) ==
  /\ cancel[k].pc = "set"
  /\ Spend(1)
  /\ CancelDone(k)
  /\ UNCHANGED <<rowVars, cancelKey, queue, workerVars, calls, overdue, runnerStatus>>

(* The key lives for a day: longer than any request and any running build. *)
KeyExpires(b) ==
  /\ cancelKey[b]
  /\ status[b] # "RUNNING"
  /\ \A k \in Clients : cancel[k].build # b
  /\ cancelKey' = [cancelKey EXCEPT ![b] = FALSE]
  /\ UNCHANGED <<rowVars, queue, workerVars, calls, cancel, overdue,
                 runnerStatus, faults>>

-----------------------------------------------------------------------------
(* Maintenance: requeue_stale.  Time is left out: a QUEUED build may be    *)
(* old enough, and a RUNNING one past its deadline, at any moment.         *)

(* Mutant: the wrong status in the query of stale builds.                  *)
StaleRunning(b) == status[b] = "RUNNING"
Stale(b) == status[b] = "QUEUED"

Requeue(b) ==
  /\ Stale(b)
  /\ queue[b] < MaxMessages
  /\ Send(b)
  /\ UNCHANGED <<rowVars, cancelKey, workerVars, calls, cancel, overdue,
                 runnerStatus, faults>>

LoadOverdue(S) ==
  /\ overdue = {}
  /\ S # {}
  /\ \A b \in S : status[b] = "RUNNING"
  /\ overdue' = S
  /\ UNCHANGED <<rowVars, cancelKey, queue, workerVars, calls, cancel,
                 runnerStatus, faults>>

(* finish_build locks the row, but the session already holds the object    *)
(* loaded by LoadOverdue and does not refresh it: it still says RUNNING.   *)
FailOverdue(b) ==
  /\ b \in overdue
  /\ overdue' = overdue \ {b}
  /\ \E redisDown \in BOOLEAN :
       Spend(Cost(redisDown)) /\ Finish(b, "FAILED", redisDown)
  /\ UNCHANGED <<queue, workerVars, calls, cancel, runnerStatus>>

MaintenanceAborted ==
  /\ overdue # {}
  /\ Spend(1)
  /\ overdue' = {}
  /\ UNCHANGED <<rowVars, cancelKey, queue, workerVars, calls, cancel, runnerStatus>>

-----------------------------------------------------------------------------
(* The status of a runner: an administrator sets it, a heartbeat turns     *)
(* OFFLINE into ONLINE, maintenance turns ONLINE into OFFLINE.             *)

SetRunner(r, s) ==
  /\ runnerStatus' = [runnerStatus EXCEPT ![r] = s]
  /\ UNCHANGED <<rowVars, cancelKey, queue, workerVars, calls, cancel, overdue, faults>>

AdminSetsRunner(r, s) == s # runnerStatus[r] /\ SetRunner(r, s)
Heartbeat(r)   == runnerStatus[r] = "OFFLINE" /\ SetRunner(r, "ONLINE")
MarkOffline(r) == runnerStatus[r] = "ONLINE" /\ SetRunner(r, "OFFLINE")

-----------------------------------------------------------------------------
WorkerStep(w) ==
  \/ SourceOk(w) \/ BuildFails(w) \/ CancelSeen(w) \/ ContainerDone(w)
  \/ Resend(w) \/ GiveUp(w)

Serve(c) ==
  \/ StartAccepted(c) \/ StartRefused(c) \/ StartNotAccepting(c)
  \/ PublishServed(c) \/ PublishRefused(c)
  \/ StoreChecked(c) \/ StoreRefused(c) \/ ArtifactsAppended(c)
  \/ FinishServed(c)

CancelStep(k) == CancelSetKey(k) \/ CancelCommit(k)

Next ==
  \/ \E b \in Builds : CreateBuild(b) \/ KeyExpires(b) \/ Requeue(b) \/ FailOverdue(b)
  \/ \E w \in Workers, b \in Builds : TakeMessage(w, b)
  \/ \E w \in Workers : WorkerStep(w) \/ WorkerCrash(w)
  \/ \E c \in calls : Serve(c) \/ LoseCall(c)
  \/ \E k \in Clients, b \in Builds : CancelRead(k, b)
  \/ \E k \in Clients : CancelStep(k) \/ CancelAborted(k)
  \/ \E S \in SUBSET Builds : LoadOverdue(S)
  \/ MaintenanceAborted
  \/ \E r \in Runners, s \in RunnerStatuses : AdminSetsRunner(r, s)
  \/ \E r \in Runners : Heartbeat(r) \/ MarkOffline(r)

Spec == Init /\ [][Next]_vars

(* Fairness.  Every process makes progress while it lives, every call sent *)
(* is served, and each duty of the maintenance job comes up again (beat,   *)
(* every 10 minutes) for a build that stays stuck.  The Celery queue is a  *)
(* Redis list, so a message that is always there is taken in the end: SF.  *)
(* Nothing is assumed of users, administrators, heartbeats or faults.      *)
Fairness ==
  /\ \A w \in Workers : WF_vars(WorkerStep(w))
  /\ \A w \in Workers, b \in Builds :
       WF_vars(\E c \in calls : c.worker = w /\ c.build = b /\ Serve(c))
  /\ \A k \in Clients : WF_vars(CancelStep(k))
  /\ \A b \in Builds :
       /\ SF_vars(\E w \in Workers : TakeMessage(w, b))
       /\ WF_vars(Requeue(b))
       /\ WF_vars(FailOverdue(b))
       /\ WF_vars(KeyExpires(b))
       /\ WF_vars(\E S \in SUBSET Builds : b \in S /\ LoadOverdue(S))

FairSpec == Spec /\ Fairness

-----------------------------------------------------------------------------
(* Properties.                                                             *)

TypeOK ==
  /\ status \in [Builds -> Statuses]
  /\ runs \in [Builds -> Nat]
  /\ token \in [Builds -> {"none", "active", "revoked"}]
  /\ output \in [Builds -> BOOLEAN]
  /\ cancelKey \in [Builds -> BOOLEAN]
  /\ queue \in [Builds -> Nat]
  /\ wpc \in [Workers -> Places]
  /\ wbuild \in [Workers -> Builds \cup {NoBuild}]
  /\ \A w \in Workers : wpc[w] # "idle" => wbuild[w] \in Builds
  /\ verdict \in [Workers -> Finished]
  /\ calls \subseteq Calls
  /\ cancel \in [Clients -> CancelRequests]
  /\ \A k \in Clients : cancel[k].pc \in {"read", "set"} => cancel[k].build \in Builds
  /\ overdue \subseteq Builds
  /\ runnerStatus \in [Runners -> RunnerStatuses]
  /\ faults \in Nat

(* A build is executed at most once, by one worker: not again after a      *)
(* crash, a redelivered or duplicated message, a retried or late start     *)
(* call, a maintenance re-send or a cancel.  (The comment of the task      *)
(* toolhub.build: "Idempotent: build không còn QUEUED -> 409 -> bỏ qua".)  *)
ExecutedOnce ==
  /\ \A b \in Builds : runs[b] <= 1
  /\ \A w, x \in Workers :
       Executing(w) /\ Executing(x) /\ wbuild[w] = wbuild[x] => w = x

(* A build that ended SUCCESS has its package in the registry, or its      *)
(* artifacts recorded: the order publish, then finish, survives retries,   *)
(* lost answers, crashes, and results written by someone else.             *)
SuccessHasOutput == \A b \in Builds : status[b] = "SUCCESS" => output[b]

(* The token of a build that ended SUCCESS or FAILED is revoked, whoever   *)
(* wrote the result.                                                       *)
ResultRevokesToken ==
  \A b \in Builds : status[b] \in {"SUCCESS", "FAILED"} => token[b] # "active"

(* Refinement: the phase of a build and the packages in the registry       *)
(* behave as BuildLifecycle says.                                          *)
Phase(s) == CASE s = "NONE"      -> "absent"
              [] s = "QUEUED"    -> "waiting"
              [] s = "RUNNING"   -> "running"
              [] s \in Finished  -> "over"

Lifecycle == INSTANCE BuildLifecycle WITH
               phase <- [b \in Builds |-> Phase(status[b])],
               delivered <- {b \in Releases : output[b]}

LifecycleSpec == Lifecycle!Spec

(* If the runners end up ONLINE for good, every build created is over in   *)
(* the end, in spite of lost messages, workers that die, answers that are  *)
(* lost, and cancel requests cut short.                                    *)
EveryBuildEnds ==
  (\A r \in Runners : <>[](runnerStatus[r] = "ONLINE"))
    => \A b \in Builds : status[b] \in {"QUEUED", "RUNNING"} ~> status[b] \in Finished
=============================================================================
