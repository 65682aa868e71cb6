------------------------- MODULE BuildPipelineProofs -------------------------
(***************************************************************************)
(* What BuildPipeline guarantees for any set of builds, workers, runners   *)
(* and cancel requests and any number of faults: first its types, then its *)
(* safety properties, then that it implements BuildLifecycle.              *)
(***************************************************************************)
EXTENDS BuildPipeline, TLAPS

(* The next-state relation, one disjunct per action, for the case splits.  *)
LEMMA NextCases ==
  ASSUME Next
  PROVE  \/ \E b \in Builds : CreateBuild(b) \/ KeyExpires(b) \/ Requeue(b) \/ FailOverdue(b)
         \/ \E w \in Workers, b \in Builds : TakeMessage(w, b)
         \/ \E w \in Workers : SourceOk(w) \/ BuildFails(w) \/ CancelSeen(w)
                                 \/ ContainerDone(w) \/ Resend(w) \/ GiveUp(w) \/ WorkerCrash(w)
         \/ \E c \in calls : \/ StartAccepted(c) \/ StartRefused(c) \/ StartNotAccepting(c)
                             \/ PublishServed(c) \/ PublishRefused(c) \/ StoreChecked(c)
                             \/ StoreRefused(c) \/ ArtifactsAppended(c) \/ FinishServed(c)
                             \/ LoseCall(c)
         \/ \E k \in Clients, b \in Builds : CancelRead(k, b)
         \/ \E k \in Clients : CancelSetKey(k) \/ CancelCommit(k) \/ CancelAborted(k)
         \/ \E S \in SUBSET Builds : LoadOverdue(S)
         \/ MaintenanceAborted
         \/ \E r \in Runners, s \in RunnerStatuses : AdminSetsRunner(r, s)
         \/ \E r \in Runners : Heartbeat(r) \/ MarkOffline(r)
BY DEF Next, WorkerStep, Serve, CancelStep

-----------------------------------------------------------------------------
(* Types.                                                                  *)

LEMMA CallOfType ==
  ASSUME NEW w \in Workers, NEW b \in Builds, NEW op \in Ops, NEW v \in Finished
  PROVE  CallOf(w, b, op, v) \in Calls
BY DEF CallOf, Calls

WorkerTypes ==
  /\ wpc \in [Workers -> Places]
  /\ wbuild \in [Workers -> Builds \cup {NoBuild}]
  /\ \A w \in Workers : wpc[w] # "idle" => wbuild[w] \in Builds
  /\ verdict \in [Workers -> Finished]
  /\ calls \subseteq Calls

LEMMA RestTypes ==
  ASSUME WorkerTypes, NEW w \in Workers, Rest(w), calls' \subseteq calls
  PROVE  WorkerTypes'
BY DEF WorkerTypes, Rest, Places, Finished

LEMMA GotoTypes ==
  ASSUME WorkerTypes, NEW w \in Workers, NEW p \in Places, Goto(w, p),
         wpc[w] # "idle", calls' \subseteq Calls
  PROVE  WorkerTypes'
BY DEF WorkerTypes, Goto

LEMMA ReportTypes ==
  ASSUME WorkerTypes, NEW w \in Workers, NEW v \in Finished, NEW S, Report(w, v, S),
         wpc[w] # "idle"
  PROVE  WorkerTypes'
<1>1. CallOf(w, wbuild[w], "finish", v) \in Calls
  BY CallOfType DEF WorkerTypes, Ops
<1>2. calls' \subseteq Calls
  BY <1>1 DEF WorkerTypes, Report
<1> QED
  BY <1>2 DEF WorkerTypes, Report, Places

LEMMA FewerCallsTypes ==
  ASSUME WorkerTypes, UNCHANGED workerVars, calls' \subseteq Calls
  PROVE  WorkerTypes'
BY DEF WorkerTypes, workerVars

(* An awaited call comes from a worker that has a task.                    *)
LEMMA AwaitedBusy ==
  ASSUME WorkerTypes, NEW c \in calls, NEW lost \in BOOLEAN, Answered(c, lost)
  PROVE  c.worker \in Workers /\ wpc[c.worker] # "idle"
BY DEF WorkerTypes, Calls, Answered, Awaited, Waiting, Ops

LEMMA AnswerTypes ==
  ASSUME WorkerTypes, NEW c \in calls, NEW v \in Finished, NEW lost \in BOOLEAN,
         AnswerWith(c, v, lost)
  PROVE  WorkerTypes'
<1>1. CASE Answered(c, lost)
  BY <1>1, AwaitedBusy, ReportTypes DEF AnswerWith
<1>2. CASE ~Answered(c, lost)
  BY <1>2, FewerCallsTypes DEF AnswerWith, WorkerTypes
<1> QED BY <1>1, <1>2
RowTypes ==
  /\ status \in [Builds -> Statuses]
  /\ runs \in [Builds -> Nat]
  /\ token \in [Builds -> {"none", "active", "revoked"}]
  /\ output \in [Builds -> BOOLEAN]
  /\ cancelKey \in [Builds -> BOOLEAN]
  /\ queue \in [Builds -> Nat]

OtherTypes ==
  /\ cancel \in [Clients -> CancelRequests]
  /\ \A k \in Clients : cancel[k].pc \in {"read", "set"} => cancel[k].build \in Builds
  /\ overdue \subseteq Builds
  /\ runnerStatus \in [Runners -> RunnerStatuses]
  /\ faults \in Nat

LEMMA TypeParts ==
  /\ TypeOK <=> RowTypes /\ WorkerTypes /\ OtherTypes
  /\ TypeOK' <=> RowTypes' /\ WorkerTypes' /\ OtherTypes'
BY DEF TypeOK, RowTypes, WorkerTypes, OtherTypes

LEMMA SpendType ==
  ASSUME faults \in Nat, NEW n \in Nat, Spend(n)
  PROVE  faults' \in Nat
BY DEF Spend

LEMMA CostType == \A bad \in BOOLEAN : Cost(bad) \in {0, 1}
BY DEF Cost

(* A faulty step leaves the fault count a number.                          *)
LEMMA SpendTwo ==
  ASSUME faults \in Nat, NEW x \in BOOLEAN, NEW y \in BOOLEAN, Spend(Cost(x) + Cost(y))
  PROVE  faults' \in Nat
BY CostType, SpendType

LEMMA SpendOne ==
  ASSUME faults \in Nat, NEW x \in BOOLEAN, Spend(Cost(x))
  PROVE  faults' \in Nat
BY CostType, SpendType

LEMMA FinishTypes ==
  ASSUME RowTypes, NEW b \in Builds, NEW v \in Finished, NEW d \in BOOLEAN,
         Finish(b, v, d), UNCHANGED queue
  PROVE  RowTypes'
BY DEF RowTypes, Finish, Revoked, Statuses

LEMMA CancelDoneTypes ==
  ASSUME OtherTypes, NEW k \in Clients, CancelDone(k), faults' \in Nat,
         UNCHANGED <<overdue, runnerStatus>>
  PROVE  OtherTypes'
BY DEF OtherTypes, CancelDone, CancelRequests

LEMMA TypeInit == Init => TypeOK
BY PipelineAssumption
   DEF Init, TypeOK, Statuses, Places, Finished, Calls, CancelRequests, RunnerStatuses

LEMMA TypeBuildSteps ==
  ASSUME TypeOK, NEW b \in Builds,
         CreateBuild(b) \/ KeyExpires(b) \/ Requeue(b) \/ FailOverdue(b)
  PROVE  TypeOK'
<1>1. CASE CreateBuild(b)
  <2>1. RowTypes'
    BY <1>1 DEF CreateBuild, TypeOK, RowTypes, Statuses, Send
  <2>2. WorkerTypes'
    BY <1>1 DEF CreateBuild, TypeOK, WorkerTypes, workerVars
  <2>3. OtherTypes'
    BY <1>1, SpendType DEF CreateBuild, TypeOK, OtherTypes
  <2> QED BY <2>1, <2>2, <2>3, TypeParts
<1>2. CASE KeyExpires(b)
  BY <1>2 DEF KeyExpires, TypeOK, rowVars, workerVars
<1>3. CASE Requeue(b)
  BY <1>3 DEF Requeue, TypeOK, rowVars, workerVars, Send
<1>4. CASE FailOverdue(b)
  <2>1. RowTypes'
    BY <1>4, TypeParts, FinishTypes DEF FailOverdue, Finished
  <2>2. WorkerTypes'
    BY <1>4 DEF FailOverdue, TypeOK, WorkerTypes, workerVars
  <2>3. OtherTypes'
    BY <1>4, SpendOne DEF FailOverdue, TypeOK, OtherTypes
  <2> QED BY <2>1, <2>2, <2>3, TypeParts
<1> QED BY <1>1, <1>2, <1>3, <1>4

LEMMA TypeWorkerSteps ==
  ASSUME TypeOK, NEW w \in Workers,
         SourceOk(w) \/ BuildFails(w) \/ CancelSeen(w) \/ ContainerDone(w)
           \/ Resend(w) \/ GiveUp(w) \/ WorkerCrash(w)
  PROVE  TypeOK'
<1>0. RowTypes /\ WorkerTypes /\ OtherTypes
  BY TypeParts
<1>1. CASE SourceOk(w)
  <2>1. WorkerTypes'
    BY <1>0, <1>1, GotoTypes DEF SourceOk, WorkerTypes, Places
  <2> QED BY <1>0, <1>1, <2>1, TypeParts DEF SourceOk, RowTypes, OtherTypes, rowVars
<1>2. CASE BuildFails(w) \/ CancelSeen(w)
  <2>1. WorkerTypes'
    BY <1>0, <1>2, ReportTypes DEF BuildFails, CancelSeen, Finished
  <2> QED BY <1>0, <1>2, <2>1, TypeParts DEF BuildFails, CancelSeen, RowTypes, OtherTypes, rowVars
<1>3. CASE ContainerDone(w)
  <2> DEFINE b == wbuild[w]
             op == IF b \in Releases THEN "publish" ELSE "store"
  <2>1. b \in Builds /\ op \in Ops /\ Waiting(op) \in Places /\ wpc[w] # "idle"
    BY <1>0, <1>3 DEF ContainerDone, WorkerTypes, Ops, Waiting, Places
  <2>2. CallOf(w, b, op, "FAILED") \in Calls
    BY <2>1, CallOfType DEF Finished
  <2>3. calls' \subseteq Calls
    BY <1>0, <1>3, <2>2 DEF ContainerDone, WorkerTypes
  <2>4. WorkerTypes'
    BY <1>0, <1>3, <2>1, <2>3, GotoTypes DEF ContainerDone
  <2> QED BY <1>0, <1>3, <2>4, TypeParts DEF ContainerDone, RowTypes, OtherTypes, rowVars
<1>4. CASE Resend(w)
  <2>1. PICK op \in {"start", "store", "finish"} :
          /\ wpc[w] = Waiting(op)
          /\ calls' = calls \cup {CallOf(w, wbuild[w], op, verdict[w])}
    BY <1>4 DEF Resend
  <2>2. CallOf(w, wbuild[w], op, verdict[w]) \in Calls
    BY <1>0, <2>1, CallOfType DEF WorkerTypes, Ops, Waiting
  <2>3. WorkerTypes'
    BY <1>0, <1>4, <2>1, <2>2, FewerCallsTypes DEF Resend, WorkerTypes
  <2> QED BY <1>0, <1>4, <2>3, TypeParts DEF Resend, RowTypes, OtherTypes, rowVars
<1>5. CASE GiveUp(w)
  <2>1. WorkerTypes'
    BY <1>0, <1>5, RestTypes, ReportTypes DEF GiveUp, Finished
  <2>2. OtherTypes'
    BY <1>0, <1>5, SpendOne DEF GiveUp, OtherTypes
  <2> QED BY <1>0, <1>5, <2>1, <2>2, TypeParts DEF GiveUp, RowTypes, rowVars
<1>6. CASE WorkerCrash(w)
  <2>1. WorkerTypes'
    BY <1>0, <1>6, RestTypes DEF WorkerCrash
  <2>2. OtherTypes'
    BY <1>0, <1>6, SpendType DEF WorkerCrash, OtherTypes
  <2>3. RowTypes'
    BY <1>0, <1>6 DEF WorkerCrash, RowTypes, WorkerTypes, rowVars, Send
  <2> QED BY <2>1, <2>2, <2>3, TypeParts
<1> QED BY <1>1, <1>2, <1>3, <1>4, <1>5, <1>6

LEMMA TypeCallSteps ==
  ASSUME TypeOK, NEW c \in calls,
         \/ StartAccepted(c) \/ StartRefused(c) \/ StartNotAccepting(c)
         \/ PublishServed(c) \/ PublishRefused(c) \/ StoreChecked(c)
         \/ StoreRefused(c) \/ ArtifactsAppended(c) \/ FinishServed(c)
         \/ LoseCall(c)
  PROVE  TypeOK'
<1>0. RowTypes /\ WorkerTypes /\ OtherTypes /\ c \in Calls
  BY TypeParts DEF WorkerTypes
<1>a. calls \ {c} \subseteq Calls /\ calls \ {c} \subseteq calls
  BY <1>0 DEF WorkerTypes
<1>1. CASE StartAccepted(c)
  <2>1. PICK lost \in BOOLEAN, redisDown \in BOOLEAN :
          /\ Spend(Cost(lost) + Cost(redisDown))
          /\ IF Answered(c, lost) THEN Goto(c.worker, "source") ELSE UNCHANGED workerVars
    BY <1>1 DEF StartAccepted
  <2>2. calls' \subseteq Calls
    BY <1>1, <1>a DEF StartAccepted
  <2>3. WorkerTypes'
    BY <1>0, <2>1, <2>2, AwaitedBusy, GotoTypes, FewerCallsTypes DEF Places
  <2>4. OtherTypes'
    BY <1>0, <1>1, <2>1, SpendTwo DEF StartAccepted, OtherTypes
  <2>5. RowTypes'
    BY <1>0, <1>1 DEF StartAccepted, RowTypes, Calls, Statuses
  <2> QED BY <2>3, <2>4, <2>5, TypeParts
<1>2. CASE StartRefused(c) \/ StartNotAccepting(c)
  <2>1. PICK lost \in BOOLEAN :
          IF Answered(c, lost) THEN Rest(c.worker) ELSE UNCHANGED workerVars
    BY <1>2 DEF StartRefused, StartNotAccepting
  <2>2. calls' = calls \ {c}
    BY <1>2 DEF StartRefused, StartNotAccepting
  <2>3. WorkerTypes'
    BY <1>0, <1>a, <2>1, <2>2, AwaitedBusy, RestTypes, FewerCallsTypes
  <2>4. OtherTypes'
    BY <1>0, <1>2, SpendOne, SpendTwo DEF StartRefused, StartNotAccepting, OtherTypes
  <2>5. RowTypes'
    BY <1>0, <1>2 DEF StartRefused, StartNotAccepting, RowTypes, rowVars, Send, Calls
  <2> QED BY <2>3, <2>4, <2>5, TypeParts
<1>3. CASE PublishServed(c) \/ ArtifactsAppended(c)
  <2>1. PICK lost \in BOOLEAN : Spend(Cost(lost)) /\ AnswerWith(c, "SUCCESS", lost)
    BY <1>3 DEF PublishServed, ArtifactsAppended
  <2>2. WorkerTypes'
    BY <1>0, <2>1, AnswerTypes DEF Finished
  <2>3. OtherTypes'
    BY <1>0, <1>3, <2>1, SpendOne DEF PublishServed, ArtifactsAppended, OtherTypes
  <2>4. RowTypes'
    BY <1>0, <1>3 DEF PublishServed, ArtifactsAppended, RowTypes, Calls
  <2> QED BY <2>2, <2>3, <2>4, TypeParts
<1>4. CASE PublishRefused(c) \/ StoreRefused(c)
  <2>1. PICK lost \in BOOLEAN : Spend(Cost(lost)) /\ AnswerWith(c, "FAILED", lost)
    BY <1>4 DEF PublishRefused, StoreRefused
  <2>2. WorkerTypes'
    BY <1>0, <2>1, AnswerTypes DEF Finished
  <2>3. OtherTypes'
    BY <1>0, <1>4, <2>1, SpendOne DEF PublishRefused, StoreRefused, OtherTypes
  <2>4. RowTypes'
    BY <1>0, <1>4 DEF PublishRefused, StoreRefused, RowTypes, rowVars
  <2> QED BY <2>2, <2>3, <2>4, TypeParts
<1>5. CASE StoreChecked(c)
  <2>1. [c EXCEPT !.op = "append"] \in Calls
    BY <1>0 DEF Calls, Ops
  <2>2. WorkerTypes'
    BY <1>0, <1>5, <1>a, <2>1, FewerCallsTypes DEF StoreChecked
  <2> QED BY <1>0, <1>5, <2>2, TypeParts DEF StoreChecked, RowTypes, OtherTypes, rowVars
<1>6. CASE FinishServed(c)
  <2>1. PICK lost \in BOOLEAN, redisDown \in BOOLEAN :
          /\ Spend(Cost(lost) + Cost(redisDown))
          /\ IF status[c.build] \in Finished
             THEN UNCHANGED <<rowVars, cancelKey>>
             ELSE Finish(c.build, c.verdict, redisDown)
          /\ IF Answered(c, lost) THEN Rest(c.worker) ELSE UNCHANGED workerVars
    BY <1>6 DEF FinishServed
  <2>2. calls' = calls \ {c}
    BY <1>6 DEF FinishServed
  <2>3. WorkerTypes'
    BY <1>0, <1>a, <2>1, <2>2, AwaitedBusy, RestTypes, FewerCallsTypes
  <2>4. OtherTypes'
    BY <1>0, <1>6, <2>1, SpendTwo DEF FinishServed, OtherTypes
  <2>5. RowTypes'
    <3>1. UNCHANGED queue /\ c.build \in Builds /\ c.verdict \in Finished
      BY <1>0, <1>6 DEF FinishServed, Calls
    <3>2. CASE status[c.build] \in Finished
      BY <1>0, <2>1, <3>1, <3>2 DEF RowTypes, rowVars
    <3>3. CASE status[c.build] \notin Finished
      BY <1>0, <2>1, <3>1, <3>3, FinishTypes
    <3> QED BY <3>2, <3>3
  <2> QED BY <2>3, <2>4, <2>5, TypeParts
<1>7. CASE LoseCall(c)
  <2>1. WorkerTypes'
    BY <1>0, <1>7, <1>a, FewerCallsTypes DEF LoseCall
  <2>2. OtherTypes'
    BY <1>0, <1>7, SpendType DEF LoseCall, OtherTypes
  <2> QED BY <1>0, <1>7, <2>1, <2>2, TypeParts DEF LoseCall, RowTypes, rowVars
<1> QED BY <1>1, <1>2, <1>3, <1>4, <1>5, <1>6, <1>7

LEMMA TypeCancelSteps ==
  ASSUME TypeOK, NEW k \in Clients,
         (\E b \in Builds : CancelRead(k, b))
           \/ CancelSetKey(k) \/ CancelCommit(k) \/ CancelAborted(k)
  PROVE  TypeOK'
<1>0. RowTypes /\ WorkerTypes /\ OtherTypes
  BY TypeParts
<1>1. CASE \E b \in Builds : CancelRead(k, b)
  BY <1>0, <1>1, TypeParts
     DEF CancelRead, RowTypes, WorkerTypes, OtherTypes, rowVars, workerVars, CancelRequests
<1>2. CASE CancelSetKey(k)
  <2>1. OtherTypes'
    <3>1. CASE cancel' = [cancel EXCEPT ![k].pc = "set"] /\ UNCHANGED faults
      BY <1>0, <1>2, <3>1 DEF CancelSetKey, OtherTypes, CancelRequests
    <3>2. CASE Spend(1) /\ CancelDone(k)
      BY <1>0, <1>2, <3>2, SpendType, CancelDoneTypes DEF CancelSetKey, OtherTypes
    <3> QED BY <1>2, <3>1, <3>2 DEF CancelSetKey
  <2>2. RowTypes' /\ WorkerTypes'
    BY <1>0, <1>2
       DEF CancelSetKey, RowTypes, WorkerTypes, OtherTypes, rowVars, workerVars
  <2> QED BY <2>1, <2>2, TypeParts
<1>3. CASE CancelCommit(k)
  <2>1. OtherTypes'
    BY <1>0, <1>3, CancelDoneTypes DEF CancelCommit, OtherTypes
  <2>2. RowTypes' /\ WorkerTypes'
    BY <1>0, <1>3
       DEF CancelCommit, RowTypes, WorkerTypes, OtherTypes, workerVars, Statuses, Finished
  <2> QED BY <2>1, <2>2, TypeParts
<1>4. CASE CancelAborted(k)
  <2>1. OtherTypes'
    BY <1>0, <1>4, SpendType, CancelDoneTypes DEF CancelAborted, OtherTypes
  <2> QED BY <1>0, <1>4, <2>1, TypeParts
          DEF CancelAborted, RowTypes, WorkerTypes, rowVars, workerVars
<1> QED BY <1>1, <1>2, <1>3, <1>4

(* Every step preserves the types.                                         *)
LEMMA TypeNext == TypeOK /\ [Next]_vars => TypeOK'
<1> SUFFICES ASSUME TypeOK, [Next]_vars PROVE TypeOK'
  OBVIOUS
<1>0. RowTypes /\ WorkerTypes /\ OtherTypes
  BY TypeParts
<1>1. ASSUME NEW w \in Workers, NEW b \in Builds, TakeMessage(w, b)
      PROVE  TypeOK'
  <2>1. CallOf(w, b, "start", "FAILED") \in Calls
    BY CallOfType DEF Ops, Finished
  <2>2. WorkerTypes'
    BY <1>0, <1>1, <2>1 DEF TakeMessage, WorkerTypes, Places
  <2> QED BY <1>0, <1>1, <2>2, TypeParts
          DEF TakeMessage, RowTypes, OtherTypes, rowVars, Receive
<1>2. ASSUME NEW S \in SUBSET Builds, LoadOverdue(S) PROVE TypeOK'
  BY <1>2 DEF LoadOverdue, TypeOK, rowVars, workerVars
<1>3. CASE MaintenanceAborted
  BY <1>0, <1>3, SpendType, TypeParts
     DEF MaintenanceAborted, RowTypes, WorkerTypes, OtherTypes, rowVars, workerVars
<1>4. ASSUME NEW r \in Runners, NEW s \in RunnerStatuses,
             AdminSetsRunner(r, s) \/ Heartbeat(r) \/ MarkOffline(r)
      PROVE  TypeOK'
  BY <1>0, <1>4, TypeParts
     DEF AdminSetsRunner, Heartbeat, MarkOffline, SetRunner, RowTypes, WorkerTypes,
         OtherTypes, rowVars, workerVars, RunnerStatuses
<1>5. CASE UNCHANGED vars
  BY <1>0, <1>5, TypeParts
     DEF vars, RowTypes, WorkerTypes, OtherTypes, rowVars, workerVars
<1>6. CASE Next
  BY <1>6, <1>1, <1>2, <1>3, <1>4, NextCases, TypeBuildSteps, TypeWorkerSteps,
     TypeCallSteps, TypeCancelSteps DEF RunnerStatuses
<1> QED BY <1>5, <1>6

(* The types hold in every behaviour.                                      *)
THEOREM TypeCorrect == Spec => []TypeOK
BY TypeInit, TypeNext, PTL DEF Spec

-----------------------------------------------------------------------------
(* Strengthening of ExecutedOnce.  A build was handed out once if it ever  *)
(* ran, and whatever can still act for it - a worker executing it, a call  *)
(* of such a worker, the list of overdue builds - proves that it ran.      *)
HandedOut ==
  /\ \A b \in Builds :
       /\ runs[b] <= 1
       /\ status[b] \in {"NONE", "QUEUED"} => runs[b] = 0
       /\ status[b] = "RUNNING" => runs[b] = 1
  /\ \A w \in Workers : Executing(w) => runs[wbuild[w]] = 1
  /\ \A w, x \in Workers :
       Executing(w) /\ Executing(x) /\ wbuild[w] = wbuild[x] => w = x
  /\ \A c \in calls : c.op # "start" => runs[c.build] = 1
  /\ \A b \in overdue : runs[b] = 1

(* Strengthening of SuccessHasOutput: a SUCCESS that is on its way to the  *)
(* backend, in a worker or in a finish call, has its output too.           *)
SuccessBacked ==
  /\ SuccessHasOutput
  /\ \A w \in Workers : wpc[w] = "finishing" /\ verdict[w] = "SUCCESS" => output[wbuild[w]]
  /\ \A c \in calls : c.op = "finish" /\ c.verdict = "SUCCESS" => output[c.build]

-----------------------------------------------------------------------------
(* ExecutedOnce.                                                           *)

(* A step that hands out no build: nothing starts to run, and whatever     *)
(* acts for a build after the step stands for what did before it.          *)
Quiet ==
  /\ UNCHANGED runs
  /\ \A b \in Builds :
       /\ status'[b] \in {"NONE", "QUEUED"} => status[b] \in {"NONE", "QUEUED"}
       /\ status'[b] = "RUNNING" => status[b] = "RUNNING"
  /\ \A w \in Workers : Executing(w)' => Executing(w) /\ wbuild'[w] = wbuild[w]
  /\ \A c \in calls' : c.op # "start" =>
       \/ \E d \in calls : d.op # "start" /\ d.build = c.build
       \/ \E w \in Workers : Executing(w) /\ wbuild[w] = c.build
  /\ \A b \in overdue' : b \in overdue \/ (b \in Builds /\ status[b] = "RUNNING")

LEMMA QuietPreserves ==
  ASSUME TypeOK, HandedOut, Quiet
  PROVE  HandedOut'
<1>1. ASSUME NEW b \in Builds
      PROVE  /\ runs'[b] <= 1
             /\ status'[b] \in {"NONE", "QUEUED"} => runs'[b] = 0
             /\ status'[b] = "RUNNING" => runs'[b] = 1
  BY DEF HandedOut, Quiet
<1>2. ASSUME NEW w \in Workers, Executing(w)'
      PROVE  runs'[wbuild'[w]] = 1
  BY <1>2 DEF HandedOut, Quiet
<1>3. ASSUME NEW w \in Workers, NEW x \in Workers, Executing(w)', Executing(x)',
             wbuild'[w] = wbuild'[x]
      PROVE  w = x
  BY <1>3 DEF HandedOut, Quiet
<1>4. ASSUME NEW c \in calls', c.op # "start"
      PROVE  runs'[c.build] = 1
  BY <1>4 DEF HandedOut, Quiet
<1>5. ASSUME NEW b \in overdue' PROVE runs'[b] = 1
  BY <1>5 DEF HandedOut, Quiet, TypeOK
<1> QED BY <1>1, <1>2, <1>3, <1>4, <1>5 DEF HandedOut

LEMMA ReportQuiet ==
  ASSUME TypeOK, NEW w \in Workers, NEW v, NEW S, Report(w, v, S), Executing(w),
         UNCHANGED <<runs, status, overdue>>
  PROVE  Quiet
<1>1. ASSUME NEW x \in Workers, Executing(x)'
      PROVE  Executing(x) /\ wbuild'[x] = wbuild[x]
  BY <1>1 DEF Report, Executing, TypeOK
<1>2. ASSUME NEW c \in calls', c.op # "start"
      PROVE  \/ \E d \in calls : d.op # "start" /\ d.build = c.build
             \/ \E x \in Workers : Executing(x) /\ wbuild[x] = c.build
  BY <1>2 DEF Report, CallOf
<1> QED BY <1>1, <1>2 DEF Quiet

(* Steps of the row only: calls do not grow, workers rest or stay.         *)
LEMMA FewerCallsQuiet ==
  ASSUME TypeOK, calls' \subseteq calls, UNCHANGED <<runs, status, overdue>>,
         UNCHANGED workerVars \/ \E w \in Workers : Rest(w)
  PROVE  Quiet
<1>1. ASSUME NEW x \in Workers, Executing(x)'
      PROVE  Executing(x) /\ wbuild'[x] = wbuild[x]
  BY <1>1 DEF Rest, Executing, TypeOK, workerVars
<1> QED BY <1>1 DEF Quiet

LEMMA FinishStatus ==
  ASSUME TypeOK, NEW b \in Builds, NEW v \in Finished, NEW d \in BOOLEAN, Finish(b, v, d)
  PROVE  /\ UNCHANGED runs
         /\ \A x \in Builds :
              /\ status'[x] \in {"NONE", "QUEUED"} => status[x] \in {"NONE", "QUEUED"}
              /\ status'[x] = "RUNNING" => status[x] = "RUNNING"
BY DEF Finish, TypeOK, Finished

LEMMA QuietBuildSteps ==
  ASSUME TypeOK, NEW b \in Builds,
         CreateBuild(b) \/ KeyExpires(b) \/ Requeue(b) \/ FailOverdue(b)
  PROVE  Quiet
<1>1. CASE CreateBuild(b)
  BY <1>1 DEF CreateBuild, Quiet, TypeOK, Executing, workerVars
<1>2. CASE KeyExpires(b) \/ Requeue(b)
  BY <1>2, FewerCallsQuiet DEF KeyExpires, Requeue, rowVars
<1>3. CASE FailOverdue(b)
  <2>1. PICK d \in BOOLEAN : Finish(b, "FAILED", d)
    BY <1>3 DEF FailOverdue
  <2>2. UNCHANGED workerVars /\ UNCHANGED calls /\ overdue' \subseteq overdue
    BY <1>3 DEF FailOverdue
  <2> QED BY <2>1, <2>2, FinishStatus DEF Quiet, Executing, workerVars, Finished
<1> QED BY <1>1, <1>2, <1>3

LEMMA QuietWorkerSteps ==
  ASSUME TypeOK, NEW w \in Workers,
         SourceOk(w) \/ BuildFails(w) \/ CancelSeen(w) \/ ContainerDone(w)
           \/ Resend(w) \/ GiveUp(w) \/ WorkerCrash(w)
  PROVE  Quiet
<1>1. CASE SourceOk(w)
  BY <1>1 DEF SourceOk, Goto, Quiet, Executing, TypeOK, rowVars
<1>2. CASE BuildFails(w) \/ CancelSeen(w)
  BY <1>2, ReportQuiet DEF BuildFails, CancelSeen, Executing, rowVars
<1>3. CASE ContainerDone(w)
  <2>1. Executing(w) /\ \A x \in Workers : Executing(x)' => Executing(x) /\ wbuild'[x] = wbuild[x]
    BY <1>3 DEF ContainerDone, Goto, Executing, TypeOK
  <2>2. \A c \in calls' : c \in calls \/ c.build = wbuild[w]
    BY <1>3 DEF ContainerDone, CallOf
  <2> QED BY <1>3, <2>1, <2>2 DEF ContainerDone, Quiet, rowVars
<1>4. CASE Resend(w)
  <2>1. PICK op \in {"start", "store", "finish"} :
          /\ wpc[w] = Waiting(op)
          /\ calls' = calls \cup {CallOf(w, wbuild[w], op, verdict[w])}
    BY <1>4 DEF Resend
  <2>2. op # "start" => Executing(w)
    BY <2>1 DEF Waiting, Executing
  <2>3. \A c \in calls' : c \in calls \/ (c.op = op /\ c.build = wbuild[w])
    BY <2>1 DEF CallOf
  <2> QED BY <1>4, <2>2, <2>3 DEF Resend, Quiet, Executing, rowVars, workerVars
<1>5. CASE GiveUp(w)
  <2>1. CASE Rest(w) /\ UNCHANGED calls
    BY <1>5, <2>1, FewerCallsQuiet DEF GiveUp, rowVars
  <2>2. CASE wpc[w] \in {"publishing", "storing"} /\ Report(w, "FAILED", {})
    BY <1>5, <2>2, ReportQuiet DEF GiveUp, Executing, rowVars
  <2> QED BY <1>5, <2>1, <2>2 DEF GiveUp
<1>6. CASE WorkerCrash(w)
  BY <1>6, FewerCallsQuiet DEF WorkerCrash, rowVars
<1> QED BY <1>1, <1>2, <1>3, <1>4, <1>5, <1>6

LEMMA AnswerQuiet ==
  ASSUME TypeOK, NEW c \in calls, NEW v, NEW lost \in BOOLEAN, AnswerWith(c, v, lost),
         c.op \notin {"start"}, UNCHANGED <<runs, status, overdue>>
  PROVE  Quiet
<1>1. CASE Answered(c, lost)
  <2>1. c.worker \in Workers /\ Executing(c.worker)
    BY <1>1 DEF Answered, Awaited, Waiting, Executing, TypeOK, Calls, Ops
  <2> QED BY <1>1, <2>1, ReportQuiet DEF AnswerWith
<1>2. CASE ~Answered(c, lost)
  BY <1>2, FewerCallsQuiet DEF AnswerWith
<1> QED BY <1>1, <1>2

LEMMA QuietCallSteps ==
  ASSUME TypeOK, NEW c \in calls,
         \/ StartRefused(c) \/ StartNotAccepting(c)
         \/ PublishServed(c) \/ PublishRefused(c) \/ StoreChecked(c)
         \/ StoreRefused(c) \/ ArtifactsAppended(c) \/ FinishServed(c)
         \/ LoseCall(c)
  PROVE  Quiet
<1>0. c \in Calls /\ c.build \in Builds /\ c.worker \in Workers /\ c.verdict \in Finished
  BY DEF TypeOK, Calls
<1>1. CASE StartRefused(c) \/ StartNotAccepting(c)
  <2>1. UNCHANGED workerVars \/ Rest(c.worker)
    BY <1>1 DEF StartRefused, StartNotAccepting
  <2> QED BY <1>0, <1>1, <2>1, FewerCallsQuiet DEF StartRefused, StartNotAccepting, rowVars
<1>2. CASE PublishServed(c) \/ ArtifactsAppended(c) \/ PublishRefused(c) \/ StoreRefused(c)
  <2>1. c.op # "start" /\ UNCHANGED <<runs, status, overdue>>
    BY <1>2 DEF PublishServed, ArtifactsAppended, PublishRefused, StoreRefused, Serving, rowVars
  <2>2. \E lost \in BOOLEAN, v \in Finished : AnswerWith(c, v, lost)
    BY <1>2 DEF PublishServed, ArtifactsAppended, PublishRefused, StoreRefused, Finished
  <2> QED BY <2>1, <2>2, AnswerQuiet
<1>3. CASE StoreChecked(c)
  <2>1. \A d \in calls' : d \in calls \/ d.build = c.build
    BY <1>0, <1>3 DEF StoreChecked, Calls
  <2> QED BY <1>3, <2>1 DEF StoreChecked, Serving, Quiet, Executing, rowVars, workerVars
<1>4. CASE FinishServed(c)
  <2>1. PICK d \in BOOLEAN :
          IF status[c.build] \in Finished
          THEN UNCHANGED <<rowVars, cancelKey>>
          ELSE Finish(c.build, c.verdict, d)
    BY <1>4 DEF FinishServed
  <2>2. UNCHANGED workerVars \/ Rest(c.worker)
    BY <1>4 DEF FinishServed
  <2>3. \A x \in Workers : Executing(x)' => Executing(x) /\ wbuild'[x] = wbuild[x]
    BY <1>0, <2>2 DEF Rest, Executing, TypeOK, workerVars
  <2>4. /\ UNCHANGED runs
        /\ \A x \in Builds :
             /\ status'[x] \in {"NONE", "QUEUED"} => status[x] \in {"NONE", "QUEUED"}
             /\ status'[x] = "RUNNING" => status[x] = "RUNNING"
    BY <1>0, <2>1, FinishStatus DEF rowVars
  <2> QED BY <1>4, <2>3, <2>4 DEF FinishServed, Quiet
<1>5. CASE LoseCall(c)
  BY <1>5, FewerCallsQuiet DEF LoseCall, rowVars
<1> QED BY <1>1, <1>2, <1>3, <1>4, <1>5

LEMMA QuietCancelSteps ==
  ASSUME TypeOK, NEW k \in Clients,
         (\E b \in Builds : CancelRead(k, b))
           \/ CancelSetKey(k) \/ CancelCommit(k) \/ CancelAborted(k)
  PROVE  Quiet
<1>1. CASE (\E b \in Builds : CancelRead(k, b)) \/ CancelSetKey(k) \/ CancelAborted(k)
  BY <1>1, FewerCallsQuiet DEF CancelRead, CancelSetKey, CancelAborted, rowVars
<1>2. CASE CancelCommit(k)
  <2>1. \A x \in Builds : status'[x] = status[x] \/ status'[x] = "CANCELLED"
    BY <1>2 DEF CancelCommit, TypeOK
  <2> QED BY <1>2, <2>1 DEF CancelCommit, Quiet, Executing, workerVars
<1> QED BY <1>1, <1>2

(* The one step that hands a build out.                                    *)
LEMMA StartHandsOut ==
  ASSUME TypeOK, HandedOut, NEW c \in calls, StartAccepted(c)
  PROVE  HandedOut'
<1> DEFINE b == c.build
           w == c.worker
<1>0. b \in Builds /\ w \in Workers /\ runs[b] = 0 /\ c.op = "start"
  BY DEF TypeOK, Calls, StartAccepted, Serving, Startable, HandedOut
<1>1. status' = [status EXCEPT ![b] = "RUNNING"] /\ runs' = [runs EXCEPT ![b] = @ + 1]
  BY DEF StartAccepted
<1>2. \A x \in Builds : runs'[x] = IF x = b THEN 1 ELSE runs[x]
  BY <1>0, <1>1 DEF TypeOK
<1>3. \A x \in Workers : Executing(x) => wbuild[x] # b
  BY <1>0 DEF HandedOut
<1>4. \A x \in Workers : Executing(x)' =>
        wbuild'[x] = wbuild[x] /\ (Executing(x) \/ (x = w /\ wbuild[x] = b))
  <2>1. UNCHANGED workerVars \/ (Awaited(c) /\ Goto(w, "source"))
    BY DEF StartAccepted, Answered
  <2> QED BY <1>0, <2>1 DEF Goto, Awaited, Executing, TypeOK, workerVars
<1>5. ASSUME NEW x \in Builds
      PROVE  /\ runs'[x] <= 1
             /\ status'[x] \in {"NONE", "QUEUED"} => runs'[x] = 0
             /\ status'[x] = "RUNNING" => runs'[x] = 1
  BY <1>1, <1>2 DEF HandedOut, TypeOK
<1>6. ASSUME NEW x \in Workers, Executing(x)'
      PROVE  runs'[wbuild'[x]] = 1
  <2>1. CASE Executing(x)
    BY <1>2, <1>3, <1>4, <1>6, <2>1 DEF HandedOut, TypeOK, Executing
  <2>2. CASE x = w /\ wbuild[x] = b
    BY <1>0, <1>2, <1>4, <1>6, <2>2
  <2> QED BY <1>4, <1>6, <2>1, <2>2
<1>7. ASSUME NEW x \in Workers, NEW y \in Workers, Executing(x)', Executing(y)',
             wbuild'[x] = wbuild'[y]
      PROVE  x = y
  BY <1>3, <1>4, <1>7 DEF HandedOut
<1>8. ASSUME NEW d \in calls', d.op # "start"
      PROVE  runs'[d.build] = 1
  <2>1. d \in calls /\ d.build \in Builds
    BY <1>8 DEF StartAccepted, TypeOK, Calls
  <2> QED BY <1>2, <1>8, <2>1 DEF HandedOut
<1>9. ASSUME NEW x \in overdue' PROVE runs'[x] = 1
  BY <1>2 DEF HandedOut, StartAccepted, TypeOK
<1> QED BY <1>5, <1>6, <1>7, <1>8, <1>9 DEF HandedOut

LEMMA HandedOutNext == TypeOK /\ HandedOut /\ [Next]_vars => HandedOut'
<1> SUFFICES ASSUME TypeOK, HandedOut, [Next]_vars PROVE HandedOut'
  OBVIOUS
<1>1. ASSUME NEW w \in Workers, NEW b \in Builds, TakeMessage(w, b)
      PROVE  Quiet
  <2>1. \A c \in calls' : c \in calls \/ c.op = "start"
    BY <1>1 DEF TakeMessage, CallOf
  <2>2. \A x \in Workers : Executing(x)' => Executing(x) /\ wbuild'[x] = wbuild[x]
    BY <1>1 DEF TakeMessage, Executing, TypeOK
  <2> QED BY <1>1, <2>1, <2>2 DEF TakeMessage, Quiet, rowVars
<1>2. ASSUME NEW S \in SUBSET Builds, LoadOverdue(S) PROVE Quiet
  BY <1>2 DEF LoadOverdue, Quiet, Executing, rowVars, workerVars
<1>3. CASE MaintenanceAborted
  BY <1>3, QuietPreserves DEF MaintenanceAborted, Quiet, Executing, rowVars, workerVars
<1>4. ASSUME NEW r \in Runners, NEW s \in RunnerStatuses,
             AdminSetsRunner(r, s) \/ Heartbeat(r) \/ MarkOffline(r)
      PROVE  Quiet
  BY <1>4, FewerCallsQuiet
     DEF AdminSetsRunner, Heartbeat, MarkOffline, SetRunner, rowVars
<1>5. CASE UNCHANGED vars
  BY <1>5, FewerCallsQuiet, QuietPreserves DEF vars, rowVars
<1>6. CASE Next
  BY <1>6, <1>1, <1>2, <1>3, <1>4, NextCases, StartHandsOut, QuietPreserves, QuietBuildSteps,
     QuietWorkerSteps, QuietCallSteps, QuietCancelSteps DEF RunnerStatuses
<1> QED BY <1>5, <1>6

LEMMA HandedOutInit == Init => HandedOut
BY DEF Init, HandedOut, Executing

(* In every behaviour a build is handed out at most once, and never        *)
(* executed by two workers: start_build is the only way in, and it takes   *)
(* the build out of QUEUED under the row lock.                             *)
THEOREM ExecutedAtMostOnce == Spec => []ExecutedOnce
<1>1. HandedOut => ExecutedOnce
  BY DEF HandedOut, ExecutedOnce
<1> QED BY <1>1, TypeCorrect, HandedOutInit, HandedOutNext, PTL DEF Spec

-----------------------------------------------------------------------------
(* Results, tokens and outputs.                                            *)

(* Someone entitled to write result v of build b: the maintenance job, or  *)
(* a finish call.                                                          *)
Concludes(b, v) ==
  \/ b \in overdue /\ v = "FAILED"
  \/ \E c \in calls : c.op = "finish" /\ c.build = b /\ c.verdict = v

(* The steps that write rows of builds.                                    *)
LEMMA RowSteps ==
  ASSUME TypeOK, [Next]_vars
  PROVE  \/ UNCHANGED rowVars
         \/ \E b \in Builds : CreateBuild(b)
         \/ \E c \in calls : StartAccepted(c) \/ PublishServed(c) \/ ArtifactsAppended(c)
         \/ \E b \in Builds, v \in Finished, d \in BOOLEAN : Concludes(b, v) /\ Finish(b, v, d)
         \/ \E k \in Clients : CancelCommit(k)
<1> DEFINE Writes ==
      \/ UNCHANGED rowVars
      \/ \E b \in Builds : CreateBuild(b)
      \/ \E c \in calls : StartAccepted(c) \/ PublishServed(c) \/ ArtifactsAppended(c)
      \/ \E b \in Builds, v \in Finished, d \in BOOLEAN : Concludes(b, v) /\ Finish(b, v, d)
      \/ \E k \in Clients : CancelCommit(k)
<1>1. ASSUME NEW b \in Builds, KeyExpires(b) \/ Requeue(b) PROVE UNCHANGED rowVars
  BY <1>1 DEF KeyExpires, Requeue
<1>2. ASSUME NEW b \in Builds, FailOverdue(b) PROVE Writes
  BY <1>2 DEF FailOverdue, Concludes, Finished
<1>3. ASSUME NEW w \in Workers,
             SourceOk(w) \/ BuildFails(w) \/ CancelSeen(w) \/ ContainerDone(w)
               \/ Resend(w) \/ GiveUp(w) \/ WorkerCrash(w)
      PROVE  UNCHANGED rowVars
  BY <1>3 DEF SourceOk, BuildFails, CancelSeen, ContainerDone, Resend, GiveUp, WorkerCrash
<1>4. ASSUME NEW c \in calls,
             StartRefused(c) \/ StartNotAccepting(c) \/ PublishRefused(c)
               \/ StoreChecked(c) \/ StoreRefused(c) \/ LoseCall(c)
      PROVE  UNCHANGED rowVars
  BY <1>4 DEF StartRefused, StartNotAccepting, PublishRefused, StoreChecked, StoreRefused,
              LoseCall
<1>5. ASSUME NEW c \in calls, FinishServed(c) PROVE Writes
  <2>1. c.build \in Builds /\ c.verdict \in Finished
    BY DEF TypeOK, Calls
  <2>2. PICK d \in BOOLEAN :
          IF status[c.build] \in Finished
          THEN UNCHANGED <<rowVars, cancelKey>>
          ELSE Finish(c.build, c.verdict, d)
    BY <1>5 DEF FinishServed
  <2>3. Concludes(c.build, c.verdict)
    BY <1>5 DEF FinishServed, Serving, Concludes
  <2>4. UNCHANGED rowVars \/ Finish(c.build, c.verdict, d)
    BY <2>2
  <2> QED BY <2>1, <2>3, <2>4
<1>6. ASSUME NEW k \in Clients, CancelSetKey(k) \/ CancelAborted(k)
      PROVE  UNCHANGED rowVars
  BY <1>6 DEF CancelSetKey, CancelAborted
<1>7. ASSUME \/ \E k \in Clients, b \in Builds : CancelRead(k, b)
             \/ \E w \in Workers, b \in Builds : TakeMessage(w, b)
             \/ \E S \in SUBSET Builds : LoadOverdue(S)
             \/ MaintenanceAborted
             \/ \E r \in Runners, s \in RunnerStatuses : AdminSetsRunner(r, s)
             \/ \E r \in Runners : Heartbeat(r) \/ MarkOffline(r)
             \/ UNCHANGED vars
      PROVE  UNCHANGED rowVars
  BY <1>7 DEF CancelRead, TakeMessage, LoadOverdue, MaintenanceAborted, AdminSetsRunner, Heartbeat,
              MarkOffline, SetRunner, vars
<1>8. CASE Next
  <2>1. \/ \E b \in Builds : CreateBuild(b) \/ KeyExpires(b) \/ Requeue(b) \/ FailOverdue(b)
        \/ \E w \in Workers : SourceOk(w) \/ BuildFails(w) \/ CancelSeen(w)
              \/ ContainerDone(w) \/ Resend(w) \/ GiveUp(w) \/ WorkerCrash(w)
        \/ \E c \in calls :
              \/ StartAccepted(c) \/ PublishServed(c) \/ ArtifactsAppended(c)
              \/ StartRefused(c) \/ StartNotAccepting(c) \/ PublishRefused(c)
              \/ StoreChecked(c) \/ StoreRefused(c) \/ FinishServed(c) \/ LoseCall(c)
        \/ \E k \in Clients : CancelSetKey(k) \/ CancelCommit(k) \/ CancelAborted(k)
        \/ UNCHANGED rowVars
    BY <1>7, <1>8, NextCases
  <2> QED BY <2>1, <1>1, <1>2, <1>3, <1>4, <1>5, <1>6
<1>9. CASE UNCHANGED vars
  BY <1>7, <1>9
<1> QED BY <1>8, <1>9

(* Any behaviour: a result written for a build revokes its token.  The     *)
(* cancel endpoint may write CANCELLED without it, when it read QUEUED     *)
(* before the start.                                                       *)
THEOREM TokenRevokedByResult == Spec => []ResultRevokesToken
<1>1. Init => ResultRevokesToken
  BY DEF Init, ResultRevokesToken
<1>2. TypeOK /\ ResultRevokesToken /\ [Next]_vars => ResultRevokesToken'
  <2> SUFFICES ASSUME TypeOK, ResultRevokesToken, [Next]_vars PROVE ResultRevokesToken'
    OBVIOUS
  <2>1. CASE UNCHANGED rowVars
    BY <2>1 DEF rowVars, ResultRevokesToken
  <2>2. ASSUME NEW b \in Builds, CreateBuild(b) PROVE ResultRevokesToken'
    BY <2>2 DEF CreateBuild, ResultRevokesToken, TypeOK
  <2>3. ASSUME NEW c \in calls, StartAccepted(c) \/ PublishServed(c) \/ ArtifactsAppended(c)
        PROVE  ResultRevokesToken'
    BY <2>3 DEF StartAccepted, PublishServed, ArtifactsAppended, ResultRevokesToken, TypeOK
  <2>4. ASSUME NEW b \in Builds, NEW v \in Finished, NEW d \in BOOLEAN, Finish(b, v, d)
        PROVE  ResultRevokesToken'
    BY <2>4 DEF Finish, Revoked, ResultRevokesToken, TypeOK
  <2>5. ASSUME NEW k \in Clients, CancelCommit(k) PROVE ResultRevokesToken'
    BY <2>5 DEF CancelCommit, ResultRevokesToken, TypeOK
  <2> QED BY RowSteps, <2>1, <2>2, <2>3, <2>4, <2>5
<1> QED BY <1>1, <1>2, TypeCorrect, PTL DEF Spec

(* Recorded output stays.                                                  *)
LEMMA OutputStays ==
  ASSUME TypeOK, [Next]_vars, NEW b \in Builds, output[b]
  PROVE  output'[b]
<1>1. ASSUME NEW c \in calls, StartAccepted(c) \/ PublishServed(c) \/ ArtifactsAppended(c)
      PROVE  output'[b]
  BY <1>1 DEF StartAccepted, PublishServed, ArtifactsAppended, TypeOK
<1>2. ASSUME NEW x \in Builds, CreateBuild(x) PROVE output'[b]
  BY <1>2 DEF CreateBuild
<1>3. ASSUME NEW x \in Builds, NEW v \in Finished, NEW d \in BOOLEAN, Finish(x, v, d)
      PROVE  output'[b]
  BY <1>3 DEF Finish
<1>4. ASSUME NEW k \in Clients, CancelCommit(k) PROVE output'[b]
  BY <1>4 DEF CancelCommit
<1> QED BY RowSteps, <1>1, <1>2, <1>3, <1>4 DEF rowVars

(* The worker w, the call c, carry a SUCCESS.                              *)
CarriedBy(w) == wpc[w] = "finishing" /\ verdict[w] = "SUCCESS"
CarriedIn(c) == c.op = "finish" /\ c.verdict = "SUCCESS"

(* Whoever carries a SUCCESS after the step knows of an output, or carried *)
(* or repeats one from before the step.                                    *)
NoNewSuccess ==
  /\ \A w \in Workers : CarriedBy(w)' =>
       output'[wbuild'[w]] \/ (CarriedBy(w) /\ wbuild'[w] = wbuild[w])
  /\ \A c \in calls' : CarriedIn(c) =>
       \/ output'[c.build]
       \/ c \in calls
       \/ \E w \in Workers : CarriedBy(w) /\ wbuild[w] = c.build

LEMMA ReportNoNew ==
  ASSUME TypeOK, NEW w \in Workers, NEW v \in Finished, NEW S, Report(w, v, S),
         v # "SUCCESS" \/ output'[wbuild[w]]
  PROVE  NoNewSuccess
<1>1. ASSUME NEW x \in Workers, CarriedBy(x)'
      PROVE  output'[wbuild'[x]] \/ (CarriedBy(x) /\ wbuild'[x] = wbuild[x])
  BY <1>1 DEF Report, CarriedBy, TypeOK
<1>2. ASSUME NEW c \in calls', CarriedIn(c) PROVE output'[c.build] \/ c \in calls
  BY <1>2 DEF Report, CallOf, CarriedIn
<1> QED BY <1>1, <1>2 DEF NoNewSuccess

(* Steps after which workers stay, rest or go on to another place, and     *)
(* that add no finish call.                                                *)
LEMMA OtherNoNew ==
  ASSUME TypeOK,
         \A c \in calls' : c.op = "finish" => c \in calls,
         \/ UNCHANGED workerVars
         \/ \E w \in Workers : Rest(w)
         \/ \E w \in Workers, p \in Places \ {"finishing"} : Goto(w, p)
  PROVE  NoNewSuccess
<1>1. ASSUME NEW x \in Workers, CarriedBy(x)'
      PROVE  CarriedBy(x) /\ wbuild'[x] = wbuild[x]
  BY <1>1 DEF Rest, Goto, CarriedBy, TypeOK, workerVars
<1> QED BY <1>1 DEF NoNewSuccess, CarriedIn

LEMMA AnswerNoNew ==
  ASSUME TypeOK, NEW c \in calls, NEW v \in Finished, NEW lost \in BOOLEAN,
         AnswerWith(c, v, lost), v # "SUCCESS" \/ output'[c.build]
  PROVE  NoNewSuccess
<1>1. CASE Answered(c, lost)
  <2>1. c.worker \in Workers /\ wbuild[c.worker] = c.build
    BY <1>1 DEF Answered, Awaited, TypeOK, Calls
  <2> QED BY <1>1, <2>1, ReportNoNew DEF AnswerWith
<1>2. CASE ~Answered(c, lost)
  BY <1>2, OtherNoNew DEF AnswerWith
<1> QED BY <1>1, <1>2

LEMMA WorkerNoNew ==
  ASSUME TypeOK, NEW w \in Workers,
         SourceOk(w) \/ BuildFails(w) \/ CancelSeen(w) \/ ContainerDone(w)
           \/ Resend(w) \/ GiveUp(w) \/ WorkerCrash(w)
  PROVE  NoNewSuccess
<1>1. CASE SourceOk(w)
  BY <1>1, OtherNoNew DEF SourceOk, Places
<1>2. CASE BuildFails(w) \/ CancelSeen(w)
  BY <1>2, ReportNoNew DEF BuildFails, CancelSeen, Finished
<1>3. CASE ContainerDone(w)
  <2>1. PICK op \in {"publish", "store"} :
          /\ Goto(w, Waiting(op))
          /\ calls' = calls \cup {CallOf(w, wbuild[w], op, "FAILED")}
    BY <1>3 DEF ContainerDone
  <2>2. Waiting(op) \in Places \ {"finishing"}
    BY DEF Waiting, Places
  <2>3. \A c \in calls' : c.op = "finish" => c \in calls
    BY <2>1 DEF CallOf
  <2> QED BY <2>1, <2>2, <2>3, OtherNoNew
<1>4. CASE Resend(w)
  <2>1. PICK op \in {"start", "store", "finish"} :
          /\ wpc[w] = Waiting(op)
          /\ calls' = calls \cup {CallOf(w, wbuild[w], op, verdict[w])}
    BY <1>4 DEF Resend
  <2>2. \A c \in calls' :
          c \in calls \/ (c.op = op /\ c.build = wbuild[w] /\ c.verdict = verdict[w])
    BY <2>1 DEF CallOf
  <2>3. op = "finish" => wpc[w] = "finishing"
    BY <2>1 DEF Waiting
  <2> QED BY <1>4, <2>2, <2>3 DEF Resend, NoNewSuccess, CarriedBy, CarriedIn, workerVars
<1>5. CASE GiveUp(w)
  <2>1. CASE Rest(w) /\ UNCHANGED calls
    BY <2>1, OtherNoNew
  <2>2. CASE Report(w, "FAILED", {})
    BY <2>2, ReportNoNew DEF Finished
  <2> QED BY <1>5, <2>1, <2>2 DEF GiveUp
<1>6. CASE WorkerCrash(w)
  BY <1>6, OtherNoNew DEF WorkerCrash
<1> QED BY <1>1, <1>2, <1>3, <1>4, <1>5, <1>6

LEMMA CallNoNew ==
  ASSUME TypeOK, NEW c \in calls,
         \/ StartAccepted(c) \/ StartRefused(c) \/ StartNotAccepting(c)
         \/ PublishServed(c) \/ PublishRefused(c) \/ StoreChecked(c)
         \/ StoreRefused(c) \/ ArtifactsAppended(c) \/ FinishServed(c)
         \/ LoseCall(c)
  PROVE  NoNewSuccess
<1>0. c \in Calls /\ c.worker \in Workers /\ c.build \in Builds
  BY DEF TypeOK, Calls
<1>1. CASE StartAccepted(c)
  <2>1. UNCHANGED workerVars \/ Goto(c.worker, "source")
    BY <1>1 DEF StartAccepted
  <2>2. calls' \subseteq calls /\ "source" \in Places \ {"finishing"}
    BY <1>1 DEF StartAccepted, Places
  <2> QED BY <1>0, <2>1, <2>2, OtherNoNew
<1>2. CASE StartRefused(c) \/ StartNotAccepting(c) \/ FinishServed(c)
  <2>1. UNCHANGED workerVars \/ Rest(c.worker)
    BY <1>2 DEF StartRefused, StartNotAccepting, FinishServed
  <2>2. calls' \subseteq calls
    BY <1>2 DEF StartRefused, StartNotAccepting, FinishServed
  <2> QED BY <1>0, <2>1, <2>2, OtherNoNew
<1>3. CASE PublishServed(c) \/ ArtifactsAppended(c)
  <2>1. output'[c.build] /\ \E lost \in BOOLEAN : AnswerWith(c, "SUCCESS", lost)
    BY <1>0, <1>3 DEF PublishServed, ArtifactsAppended, TypeOK
  <2> QED BY <2>1, AnswerNoNew DEF Finished
<1>4. CASE PublishRefused(c) \/ StoreRefused(c)
  <2>1. \E lost \in BOOLEAN : AnswerWith(c, "FAILED", lost)
    BY <1>4 DEF PublishRefused, StoreRefused
  <2> QED BY <2>1, AnswerNoNew DEF Finished
<1>5. CASE StoreChecked(c)
  <2>1. \A d \in calls' : d.op = "finish" => d \in calls
    BY <1>0, <1>5 DEF StoreChecked, Calls
  <2> QED BY <1>5, <2>1, OtherNoNew DEF StoreChecked
<1>6. CASE LoseCall(c)
  BY <1>6, OtherNoNew DEF LoseCall
<1> QED BY <1>1, <1>2, <1>3, <1>4, <1>5, <1>6

LEMMA NextNoNew ==
  ASSUME TypeOK, [Next]_vars
  PROVE  NoNewSuccess
<1>1. ASSUME NEW w \in Workers, NEW b \in Builds, TakeMessage(w, b) PROVE NoNewSuccess
  <2>1. \A c \in calls' : c.op = "finish" => c \in calls
    BY <1>1 DEF TakeMessage, CallOf
  <2>2. \A x \in Workers : CarriedBy(x)' => CarriedBy(x) /\ wbuild'[x] = wbuild[x]
    BY <1>1 DEF TakeMessage, CarriedBy, TypeOK
  <2> QED BY <2>1, <2>2 DEF NoNewSuccess, CarriedIn
<1>2. ASSUME \/ \E b \in Builds : CreateBuild(b) \/ KeyExpires(b) \/ Requeue(b) \/ FailOverdue(b)
             \/ \E k \in Clients, b \in Builds : CancelRead(k, b)
             \/ \E k \in Clients : CancelSetKey(k) \/ CancelCommit(k) \/ CancelAborted(k)
             \/ \E S \in SUBSET Builds : LoadOverdue(S)
             \/ MaintenanceAborted
             \/ \E r \in Runners, s \in RunnerStatuses :
                  AdminSetsRunner(r, s) \/ Heartbeat(r) \/ MarkOffline(r)
             \/ UNCHANGED vars
      PROVE  NoNewSuccess
  <2>1. UNCHANGED workerVars /\ UNCHANGED calls
    BY <1>2 DEF CreateBuild, KeyExpires, Requeue, FailOverdue, CancelRead, CancelSetKey,
                CancelCommit, CancelAborted, LoadOverdue, MaintenanceAborted,
                AdminSetsRunner, Heartbeat, MarkOffline, SetRunner, vars
  <2> QED BY <2>1, OtherNoNew
<1>3. CASE UNCHANGED vars
  BY <1>2, <1>3
<1>4. CASE Next
  BY <1>1, <1>2, <1>4, NextCases, WorkerNoNew, CallNoNew DEF RunnerStatuses
<1> QED BY <1>3, <1>4

(* Any behaviour: a build that ended SUCCESS has its package or artifacts  *)
(* recorded, through retries, lost answers and crashes.                    *)
THEOREM SuccessIsBacked == Spec => []SuccessHasOutput
<1>1. Init => SuccessBacked
  BY DEF Init, SuccessBacked, SuccessHasOutput
<1>2. TypeOK /\ SuccessBacked /\ [Next]_vars => SuccessBacked'
  <2> SUFFICES ASSUME TypeOK, SuccessBacked, [Next]_vars PROVE SuccessBacked'
    OBVIOUS
  <2>0. TypeOK'
    BY TypeNext
  <2>1. ASSUME NEW w \in Workers, CarriedBy(w) PROVE output'[wbuild[w]]
    <3>1. output[wbuild[w]] /\ wbuild[w] \in Builds
      BY <2>1 DEF SuccessBacked, CarriedBy, TypeOK
    <3> QED BY <3>1, OutputStays
  <2>2. ASSUME NEW c \in calls, CarriedIn(c) PROVE output'[c.build]
    <3>1. output[c.build] /\ c.build \in Builds
      BY <2>2 DEF SuccessBacked, CarriedIn, TypeOK, Calls
    <3> QED BY <3>1, OutputStays
  <2>3. \A w \in Workers : CarriedBy(w)' => output'[wbuild'[w]]
    BY <2>1, NextNoNew DEF NoNewSuccess
  <2>4. \A c \in calls' : CarriedIn(c) => output'[c.build]
    BY <2>1, <2>2, NextNoNew DEF NoNewSuccess
  <2>5. SuccessHasOutput'
    <3>1. ASSUME NEW b \in Builds, status'[b] = "SUCCESS" PROVE output'[b]
      <4>1. CASE status[b] = "SUCCESS"
        BY <4>1, OutputStays DEF SuccessBacked, SuccessHasOutput
      <4>2. CASE status[b] # "SUCCESS"
        <5>1. Concludes(b, "SUCCESS")
          BY <3>1, <4>2, RowSteps
             DEF CreateBuild, StartAccepted, PublishServed, ArtifactsAppended, Finish,
                 CancelCommit, rowVars, TypeOK
        <5> QED BY <2>2, <5>1 DEF Concludes, CarriedIn
      <4> QED BY <4>1, <4>2
    <3> QED BY <3>1 DEF SuccessHasOutput
  <2> QED BY <2>3, <2>4, <2>5 DEF SuccessBacked, CarriedBy, CarriedIn
<1>3. SuccessBacked => SuccessHasOutput
  BY DEF SuccessBacked
<1> QED BY <1>1, <1>2, <1>3, TypeCorrect, PTL DEF Spec

-----------------------------------------------------------------------------
(* The refinement of BuildLifecycle.                                       *)

(* Only release builds publish, only validation builds store artifacts.    *)
RightCalls ==
  /\ \A w \in Workers : wpc[w] = "storing" => wbuild[w] \notin Releases
  /\ \A c \in calls :
       /\ c.op = "publish" => c.build \in Releases
       /\ c.op \in {"store", "append"} => c.build \notin Releases

(* Only builds that exist are cancelled.                                   *)
RightCancels ==
  \A k \in Clients : cancel[k].pc \in {"read", "set"} => status[cancel[k].build] # "NONE"

(* Steps that bring no worker to "storing" and add no publish, store or    *)
(* append.                                                                 *)
LEMMA MoveRight ==
  ASSUME TypeOK, RightCalls,
         \A c \in calls' : c \in calls \/ c.op \in {"start", "finish"},
         \/ UNCHANGED workerVars
         \/ \E w \in Workers : Rest(w)
         \/ \E w \in Workers, p \in Places \ {"storing"} : Goto(w, p)
         \/ \E w \in Workers, v \in Finished, S \in SUBSET calls : Report(w, v, S)
         \/ \E w \in Workers, b \in Builds : TakeMessage(w, b)
  PROVE  RightCalls'
<1>1. ASSUME NEW x \in Workers, wpc'[x] = "storing"
      PROVE  wpc[x] = "storing" /\ wbuild'[x] = wbuild[x]
  BY <1>1 DEF Rest, Goto, Report, TakeMessage, TypeOK, workerVars
<1>2. ASSUME NEW x \in Workers, wpc'[x] = "storing" PROVE wbuild'[x] \notin Releases
  BY <1>1, <1>2 DEF RightCalls
<1>3. ASSUME NEW c \in calls'
      PROVE  /\ c.op = "publish" => c.build \in Releases
             /\ c.op \in {"store", "append"} => c.build \notin Releases
  BY <1>3 DEF RightCalls
<1> QED BY <1>2, <1>3 DEF RightCalls

LEMMA ReportRight ==
  ASSUME TypeOK, RightCalls, NEW w \in Workers, NEW v \in Finished, NEW S \in SUBSET calls,
         Report(w, v, S)
  PROVE  RightCalls'
<1>1. \A c \in calls' : c \in calls \/ c.op \in {"start", "finish"}
  BY DEF Report, CallOf
<1> QED BY <1>1, MoveRight

LEMMA WorkerRight ==
  ASSUME TypeOK, RightCalls, NEW w \in Workers,
         SourceOk(w) \/ BuildFails(w) \/ CancelSeen(w) \/ ContainerDone(w)
           \/ Resend(w) \/ GiveUp(w) \/ WorkerCrash(w)
  PROVE  RightCalls'
<1>1. CASE SourceOk(w)
  <2>1. "container" \in Places \ {"storing"}
    BY DEF Places
  <2> QED BY <1>1, <2>1, MoveRight DEF SourceOk
<1>2. CASE BuildFails(w) \/ CancelSeen(w)
  BY <1>2, ReportRight DEF BuildFails, CancelSeen, Finished
<1>3. CASE ContainerDone(w)
  <2> DEFINE b == wbuild[w]
             op == IF b \in Releases THEN "publish" ELSE "store"
  <2>1. Goto(w, Waiting(op)) /\ calls' = calls \cup {CallOf(w, b, op, "FAILED")}
    BY <1>3 DEF ContainerDone
  <2>2. \A x \in Workers : wpc'[x] = "storing" => wbuild'[x] \notin Releases
    BY <2>1 DEF Goto, Waiting, RightCalls, TypeOK
  <2>3. \A c \in calls' : c \in calls \/ (c.op = op /\ c.build = b)
    BY <2>1 DEF CallOf
  <2> QED BY <2>2, <2>3 DEF RightCalls
<1>4. CASE Resend(w)
  <2>1. PICK op \in {"start", "store", "finish"} :
          /\ wpc[w] = Waiting(op)
          /\ calls' = calls \cup {CallOf(w, wbuild[w], op, verdict[w])}
    BY <1>4 DEF Resend
  <2>2. \A c \in calls' : c \in calls \/ (c.op = op /\ c.build = wbuild[w])
    BY <2>1 DEF CallOf
  <2>3. op = "store" => wbuild[w] \notin Releases
    BY <2>1 DEF Waiting, RightCalls
  <2> QED BY <1>4, <2>2, <2>3 DEF Resend, RightCalls, workerVars
<1>5. CASE GiveUp(w)
  <2>1. CASE Rest(w) /\ UNCHANGED calls
    BY <2>1, MoveRight
  <2>2. CASE Report(w, "FAILED", {})
    BY <2>2, ReportRight DEF Finished
  <2> QED BY <1>5, <2>1, <2>2 DEF GiveUp
<1>6. CASE WorkerCrash(w)
  BY <1>6, MoveRight DEF WorkerCrash
<1> QED BY <1>1, <1>2, <1>3, <1>4, <1>5, <1>6

LEMMA CallRight ==
  ASSUME TypeOK, RightCalls, NEW c \in calls,
         \/ StartAccepted(c) \/ StartRefused(c) \/ StartNotAccepting(c)
         \/ PublishServed(c) \/ PublishRefused(c) \/ StoreChecked(c)
         \/ StoreRefused(c) \/ ArtifactsAppended(c) \/ FinishServed(c)
         \/ LoseCall(c)
  PROVE  RightCalls'
<1>0. c \in Calls /\ c.worker \in Workers /\ c.build \in Builds
  BY DEF TypeOK, Calls
<1>1. CASE StartAccepted(c)
  <2>1. UNCHANGED workerVars \/ Goto(c.worker, "source")
    BY <1>1 DEF StartAccepted
  <2>2. calls' \subseteq calls /\ "source" \in Places \ {"storing"}
    BY <1>1 DEF StartAccepted, Places
  <2> QED BY <1>0, <2>1, <2>2, MoveRight
<1>2. CASE StartRefused(c) \/ StartNotAccepting(c) \/ FinishServed(c)
  <2>1. UNCHANGED workerVars \/ Rest(c.worker)
    BY <1>2 DEF StartRefused, StartNotAccepting, FinishServed
  <2>2. calls' \subseteq calls
    BY <1>2 DEF StartRefused, StartNotAccepting, FinishServed
  <2> QED BY <1>0, <2>1, <2>2, MoveRight
<1>3. CASE PublishServed(c) \/ ArtifactsAppended(c) \/ PublishRefused(c) \/ StoreRefused(c)
  <2>1. PICK v \in Finished, lost \in BOOLEAN : AnswerWith(c, v, lost)
    BY <1>3 DEF PublishServed, ArtifactsAppended, PublishRefused, StoreRefused, Finished
  <2>2. CASE Answered(c, lost)
    BY <1>0, <2>1, <2>2, ReportRight DEF AnswerWith
  <2>3. CASE ~Answered(c, lost)
    BY <2>1, <2>3, MoveRight DEF AnswerWith
  <2> QED BY <2>2, <2>3
<1>4. CASE StoreChecked(c)
  <2>1. \A d \in calls' : d \in calls \/ (d.op = "append" /\ d.build = c.build)
    BY <1>0, <1>4 DEF StoreChecked, Calls
  <2>2. c.build \notin Releases
    BY <1>4 DEF StoreChecked, Serving, RightCalls
  <2> QED BY <1>4, <2>1, <2>2 DEF StoreChecked, RightCalls, workerVars
<1>5. CASE LoseCall(c)
  BY <1>5, MoveRight DEF LoseCall
<1> QED BY <1>1, <1>2, <1>3, <1>4, <1>5

LEMMA RightCallsNext == TypeOK /\ RightCalls /\ [Next]_vars => RightCalls'
<1> SUFFICES ASSUME TypeOK, RightCalls, [Next]_vars PROVE RightCalls'
  OBVIOUS
<1>1. ASSUME NEW w \in Workers, NEW b \in Builds, TakeMessage(w, b) PROVE RightCalls'
  <2>1. \A c \in calls' : c \in calls \/ c.op \in {"start", "finish"}
    BY <1>1 DEF TakeMessage, CallOf
  <2> QED BY <1>1, <2>1, MoveRight
<1>2. ASSUME \/ \E b \in Builds : CreateBuild(b) \/ KeyExpires(b) \/ Requeue(b) \/ FailOverdue(b)
             \/ \E k \in Clients, b \in Builds : CancelRead(k, b)
             \/ \E k \in Clients : CancelSetKey(k) \/ CancelCommit(k) \/ CancelAborted(k)
             \/ \E S \in SUBSET Builds : LoadOverdue(S)
             \/ MaintenanceAborted
             \/ \E r \in Runners, s \in RunnerStatuses :
                  AdminSetsRunner(r, s) \/ Heartbeat(r) \/ MarkOffline(r)
             \/ UNCHANGED vars
      PROVE  RightCalls'
  <2>1. UNCHANGED workerVars /\ UNCHANGED calls
    BY <1>2 DEF CreateBuild, KeyExpires, Requeue, FailOverdue, CancelRead, CancelSetKey,
                CancelCommit, CancelAborted, LoadOverdue, MaintenanceAborted,
                AdminSetsRunner, Heartbeat, MarkOffline, SetRunner, vars
  <2> QED BY <2>1, MoveRight
<1>3. CASE UNCHANGED vars
  BY <1>2, <1>3
<1>4. CASE Next
  BY <1>1, <1>2, <1>4, NextCases, WorkerRight, CallRight DEF RunnerStatuses
<1> QED BY <1>3, <1>4

LEMMA RightCancelsNext == TypeOK /\ RightCancels /\ [Next]_vars => RightCancels'
<1> SUFFICES ASSUME TypeOK, RightCancels, [Next]_vars PROVE RightCancels'
  OBVIOUS
<1>1. ASSUME NEW b \in Builds, status[b] # "NONE" PROVE status'[b] # "NONE"
  BY <1>1, RowSteps
     DEF CreateBuild, StartAccepted, PublishServed, ArtifactsAppended, Finish, CancelCommit,
         Finished, rowVars, TypeOK
<1>2. ASSUME NEW k \in Clients, cancel'[k].pc \in {"read", "set"}
      PROVE  \/ cancel[k].pc \in {"read", "set"} /\ cancel'[k].build = cancel[k].build
             \/ cancel'[k].build \in Builds /\ status[cancel'[k].build] # "NONE"
  <2>1. CASE UNCHANGED cancel
    BY <1>2, <2>1
  <2>2. ASSUME NEW j \in Clients, NEW b \in Builds, CancelRead(j, b)
        PROVE  \/ cancel[k].pc \in {"read", "set"} /\ cancel'[k].build = cancel[k].build
               \/ cancel'[k].build \in Builds /\ status[cancel'[k].build] # "NONE"
    BY <1>2, <2>2 DEF CancelRead, TypeOK
  <2>3. ASSUME NEW j \in Clients, CancelDone(j)
        PROVE  cancel[k].pc \in {"read", "set"} /\ cancel'[k].build = cancel[k].build
    BY <1>2, <2>3 DEF CancelDone, TypeOK
  <2>4. ASSUME NEW j \in Clients, CancelSetKey(j)
        PROVE  cancel[k].pc \in {"read", "set"} /\ cancel'[k].build = cancel[k].build
    <3>1. CASE cancel' = [cancel EXCEPT ![j].pc = "set"]
      BY <1>2, <2>4, <3>1 DEF CancelSetKey, TypeOK, CancelRequests
    <3> QED BY <2>3, <2>4, <3>1 DEF CancelSetKey
  <2>5. UNCHANGED cancel \/ (\E j \in Clients, b \in Builds : CancelRead(j, b))
          \/ \E j \in Clients : CancelDone(j) \/ CancelSetKey(j)
    BY NextCases
       DEF CreateBuild, KeyExpires, Requeue, FailOverdue, TakeMessage, SourceOk, BuildFails,
           CancelSeen, ContainerDone, Resend, GiveUp, WorkerCrash, StartAccepted,
           StartRefused, StartNotAccepting, PublishServed, PublishRefused, StoreChecked,
           StoreRefused, ArtifactsAppended, FinishServed, LoseCall, CancelCommit,
           CancelAborted, LoadOverdue, MaintenanceAborted, AdminSetsRunner, Heartbeat,
           MarkOffline, SetRunner, vars
  <2> QED BY <2>1, <2>2, <2>3, <2>4, <2>5
<1> QED BY <1>1, <1>2 DEF RightCancels, TypeOK

(* The phase of builds changes with the status of one of them.             *)
LEMMA PhaseStep ==
  ASSUME TypeOK, NEW b \in Builds, NEW s \in Statuses, status' = [status EXCEPT ![b] = s]
  PROVE  [x \in Builds |-> Phase(status'[x])]
           = [[x \in Builds |-> Phase(status[x])] EXCEPT ![b] = Phase(s)]
BY DEF TypeOK

LEMMA PhaseOf ==
  /\ Phase("NONE") = "absent"
  /\ Phase("QUEUED") = "waiting"
  /\ Phase("RUNNING") = "running"
  /\ \A s \in Finished : Phase(s) = "over"
BY DEF Phase, Finished

LEMMA ConcludeRefines ==
  ASSUME TypeOK, NEW b \in Builds, NEW s \in Finished, status[b] # "NONE",
         status' = [status EXCEPT ![b] = s], UNCHANGED output
  PROVE  [Lifecycle!Next]_(Lifecycle!vars)
<1>1. s \in Statuses /\ Phase(s) = "over" /\ status[b] \in Statuses
  BY PhaseOf DEF Statuses, TypeOK
<1>2. [x \in Builds |-> Phase(status'[x])]
        = [[x \in Builds |-> Phase(status[x])] EXCEPT ![b] = "over"]
  BY <1>1, PhaseStep
<1>3. CASE status[b] \in Finished
  <2>1. [x \in Builds |-> Phase(status'[x])] = [x \in Builds |-> Phase(status[x])]
    BY <1>2, <1>3, PhaseOf
  <2> QED BY <2>1 DEF Lifecycle!vars
<1>4. CASE status[b] \in {"QUEUED", "RUNNING"}
  <2>1. Phase(status[b]) \in {"waiting", "running"}
    BY <1>4, PhaseOf
  <2>2. Lifecycle!Conclude(b)
    BY <1>2, <2>1 DEF Lifecycle!Conclude, Lifecycle!Move
  <2> QED BY <2>2 DEF Lifecycle!Next
<1> QED BY <1>1, <1>3, <1>4 DEF Statuses

LEMMA StepRefines ==
  ASSUME TypeOK, HandedOut, RightCalls, RightCancels, [Next]_vars
  PROVE  [Lifecycle!Next]_(Lifecycle!vars)
<1>1. CASE UNCHANGED rowVars
  BY <1>1 DEF rowVars, Lifecycle!vars
<1>2. ASSUME NEW b \in Builds, CreateBuild(b) PROVE Lifecycle!Next
  <2>0. status' = [status EXCEPT ![b] = "QUEUED"] /\ "QUEUED" \in Statuses
    BY <1>2 DEF CreateBuild, Statuses
  <2>1. [x \in Builds |-> Phase(status'[x])]
          = [[x \in Builds |-> Phase(status[x])] EXCEPT ![b] = "waiting"]
    BY <2>0, PhaseStep, PhaseOf
  <2>2. Lifecycle!Submit(b)
    BY <1>2, <2>1, PhaseOf DEF CreateBuild, Lifecycle!Submit, Lifecycle!Move
  <2> QED BY <2>2 DEF Lifecycle!Next
<1>3. ASSUME NEW c \in calls, StartAccepted(c) PROVE Lifecycle!Next
  <2>0. /\ c.build \in Builds
        /\ status' = [status EXCEPT ![c.build] = "RUNNING"] /\ "RUNNING" \in Statuses
    BY <1>3 DEF TypeOK, Calls, StartAccepted, Statuses
  <2>1. [x \in Builds |-> Phase(status'[x])]
          = [[x \in Builds |-> Phase(status[x])] EXCEPT ![c.build] = "running"]
    BY <2>0, PhaseStep, PhaseOf
  <2>2. Lifecycle!Launch(c.build)
    BY <1>3, <2>0, <2>1, PhaseOf
       DEF StartAccepted, Startable, Lifecycle!Launch, Lifecycle!Move
  <2> QED BY <2>0, <2>2 DEF Lifecycle!Next
<1>4. ASSUME NEW c \in calls, PublishServed(c) PROVE Lifecycle!Next
  <2>0. c.build \in Builds /\ c.build \in Releases
    BY <1>4 DEF TypeOK, Calls, PublishServed, Serving, RightCalls
  <2>1. {b \in Releases : output'[b]} = {b \in Releases : output[b]} \cup {c.build}
    BY <1>4, <2>0, PipelineAssumption DEF PublishServed, TypeOK
  <2>2. Lifecycle!Deliver(c.build)
    BY <1>4, <2>0, <2>1, PhaseOf
       DEF PublishServed, Publishable, VersionTaken, Lifecycle!Deliver
  <2> QED BY <2>0, <2>2 DEF Lifecycle!Next
<1>5. ASSUME NEW c \in calls, ArtifactsAppended(c) PROVE UNCHANGED Lifecycle!vars
  <2>1. c.build \notin Releases
    BY <1>5 DEF ArtifactsAppended, Serving, RightCalls
  <2> QED BY <1>5, <2>1, PipelineAssumption DEF ArtifactsAppended, TypeOK, Lifecycle!vars
<1>6. ASSUME NEW b \in Builds, NEW v \in Finished, NEW d \in BOOLEAN,
             Concludes(b, v), Finish(b, v, d)
      PROVE  [Lifecycle!Next]_(Lifecycle!vars)
  <2>1. runs[b] = 1
    BY <1>6 DEF Concludes, HandedOut
  <2>2. status[b] # "NONE"
    BY <2>1 DEF HandedOut
  <2> QED BY <1>6, <2>2, ConcludeRefines DEF Finish
<1>7. ASSUME NEW k \in Clients, CancelCommit(k) PROVE [Lifecycle!Next]_(Lifecycle!vars)
  <2>1. CASE cancel[k].seen = "QUEUED"
    <3>1. cancel[k].build \in Builds /\ status[cancel[k].build] # "NONE"
      BY <1>7 DEF CancelCommit, RightCancels, TypeOK
    <3> QED BY <1>7, <2>1, <3>1, ConcludeRefines DEF CancelCommit, Finished
  <2>2. CASE cancel[k].seen # "QUEUED"
    BY <1>7, <2>2 DEF CancelCommit, Lifecycle!vars
  <2> QED BY <2>1, <2>2
<1> QED BY RowSteps, <1>1, <1>2, <1>3, <1>4, <1>5, <1>6, <1>7

(* Any behaviour of the pipeline is one of the abstract lifecycle: a build *)
(* waits, is handed out once and is over for good, delivers its package    *)
(* only while it runs, and a version is delivered once.                    *)
THEOREM RefinesLifecycle == Spec => LifecycleSpec
<1>1. Init => RightCalls /\ RightCancels
  BY DEF Init, RightCalls, RightCancels
<1>2. Init => Lifecycle!Init
  BY PipelineAssumption, PhaseOf DEF Init, Lifecycle!Init
<1>3. TypeOK /\ HandedOut /\ RightCalls /\ RightCancels /\ [Next]_vars
        => [Lifecycle!Next]_(Lifecycle!vars)
  BY StepRefines
<1> QED BY <1>1, <1>2, <1>3, TypeCorrect, HandedOutInit, HandedOutNext, RightCallsNext,
           RightCancelsNext, PTL DEF Spec, LifecycleSpec, Lifecycle!Spec
=============================================================================
