---------------------------- MODULE BuildRunProofs ----------------------------
(***************************************************************************)
(* What BuildRun guarantees of one build, for a log of any length, any     *)
(* limit of the list in Redis and any number of faults: an honest verdict, *)
(* and a page that shows the log as it was written.                        *)
(***************************************************************************)
EXTENDS BuildRun, SequenceTheorems, TLAPS

(* The types of the records.                                                *)
BuildRow == [status : Finished \cup {"RUNNING"}, code : AllCodes, key : BOOLEAN, cancel : BOOLEAN,
             by : {"none", "worker", "maintenance"}]
Worker == [at : {"source", "create", "flush", "look", "control", "kill", "drain", "extract", "remove",
                 "deliver", "report", "finish", "done", "dead"},
           killed : {"no", "cancel", "timeout"}, code : AllCodes, took : {"nothing", "cut", "whole"},
           pumps : BOOLEAN]
Box == [state : {"none", "running", "exited"}, code : Codes \cup {"none", "unknown"},
        out : {"nothing", "cut", "dist", "result"}]
Page == [text : Seq(1 .. lines.written), active : BOOLEAN, due : BOOLEAN,
         asked : {"no", "running", "stored", "finished"}, done : BOOLEAN, dropped : BOOLEAN]

RecordsFit ==
  /\ release \in BOOLEAN /\ clock \in 0 .. 2 /\ overdue \in BOOLEAN
  /\ build \in BuildRow /\ worker \in Worker /\ box \in Box
  /\ delivered \in {"nothing", "cut", "whole"}

(* The script copies its files once no step failed, and writes its result  *)
(* once it knows it.                                                       *)
ScriptInTurn ==
  /\ box.out \in {"cut", "dist"} => box.code = "none"
  /\ box.out = "result" => box.code # "unknown"

(* A verdict is what happened: nothing fails or is delivered before its    *)
(* turn, the reason of a kill is one, and the code says what was taken.    *)
JudgedRight(code) ==
  /\ code = "CANCELLED" => worker.killed = "cancel"
  /\ code = "BUILD_TIMEOUT" => worker.killed = "timeout"
VerdictKnown ==
  /\ worker.at \notin {"remove", "report", "finish", "done", "dead"} => worker.code = "none"
  /\ worker.at \notin {"report", "finish", "done", "dead"} => delivered = "nothing"
  /\ worker.at \in {"source", "create", "flush", "look", "control", "deliver"} => worker.killed = "no"
  /\ worker.at = "deliver" => worker.took = "whole"
  /\ worker.killed = "cancel" => build.cancel
  /\ worker.killed = "timeout" => clock > 0
  /\ worker.killed # "no" => delivered = "nothing"
  /\ worker.at \in {"remove", "report", "finish"} => JudgedRight(worker.code)
  /\ worker.at = "remove" /\ worker.code = "none" => worker.took = "whole" /\ worker.killed = "no"
  /\ worker.at \in {"report", "finish"} /\ worker.code = "none" => delivered = "whole" /\ worker.killed = "no"

(* Only the report of the worker makes a build more than FAILED, and it is *)
(* its last step.                                                          *)
Reported ==
  /\ build.status \in {"SUCCESS", "CANCELLED"} \/ build.code = "BUILD_TIMEOUT" => worker.at = "done"
  /\ build.status = "RUNNING" <=> build.by = "none"
  /\ build.by = "worker" => worker.at = "done"
  /\ build.status = "RUNNING" => ~build.key
  /\ worker.at \in {"done", "dead"} => ~worker.pumps

VInv == RecordsFit /\ ScriptInTurn /\ VerdictKnown /\ Reported /\ VerdictHonest

(* Lines are written before they are flushed or reported, and every list   *)
(* and text is made of lines that were written.                            *)
LogFits ==
  /\ lines \in [written : 0 .. MaxLines, flushed : 0 .. MaxLines, reported : 0 .. MaxLines]
  /\ lines.flushed <= lines.written /\ lines.reported <= lines.written
  /\ live \in Seq(1 .. lines.written) /\ late \in Seq(1 .. lines.written)
  /\ object \in Seq(1 .. lines.written)
  /\ page \in Page
  /\ missed \in BOOLEAN /\ misread \in BOOLEAN /\ faults \in 0 .. MaxFaults

(* A beginning of the log.                                                 *)
Beginning(list, n) == Len(list) <= n /\ list = Upto(Len(list))

(* As long as no chunk was missed, the list in Redis is what was flushed,  *)
(* until it takes no more or expires; so is what was stored from it, and   *)
(* what was shown.                                                         *)
InTurn ==
  ~missed =>
    /\ late = <<>>
    /\ Beginning(live, lines.flushed)
    /\ Len(live) = lines.flushed \/ Len(live) > LiveMax \/ worker.at \in {"done", "dead"}
    /\ Beginning(object, lines.written) /\ Beginning(page.text, lines.written)

(* The log of the worker's report is the one that is stored, and nothing   *)
(* is written after it.                                                    *)
ReportStored ==
  build.by = "worker" => lines.reported = lines.written /\ (build.key => object = Upto(lines.written))

(* What the page was told of the build still holds.                        *)
Told ==
  /\ page.asked \in {"stored", "finished"} \/ page.done => Ended
  /\ page.asked = "stored" => build.key
  /\ page.asked = "finished" /\ build.by = "worker" => ~build.key

LInv == LogFits /\ InTurn /\ ReportStored /\ Told /\ CompleteIsWhole

RunInv == VInv /\ LInv
-----------------------------------------------------------------------------
(* The codes of a build are told apart.                                    *)
LEMMA CodesDiffer ==
  /\ \A o \in validate_source(release) : o \notin Passes => o \in Codes
  /\ \A o \in Passes : o = "SUCCESS" \/ o \notin validate_source(release)
  /\ \A o \in run_build(release) : o \in Codes \cup {"none"}
  /\ Codes \subseteq AllCodes
  /\ \A o \in Codes : o \notin {"none", "unknown", "CANCELLED", "BUILD_TIMEOUT"}
<1>1. validate_source(release) \subseteq validate_source(TRUE)
  BY DEF validate_source, Mismatch
<1>2. \A i \in 1 .. 6 : Steps(release)[i] \subseteq Steps(TRUE)[i]
  BY DEF Steps, verify_metadata, Mismatch
<1>3. run_build(release) \subseteq run_build(TRUE)
  BY <1>2 DEF run_build
<1>4. \A i \in 1 .. 6 : \A o \in Steps(TRUE)[i] : o \notin {"none", "unknown", "CANCELLED", "BUILD_TIMEOUT"}
  BY DEF Steps, prepare, run_tests, build_package, twine_check, verify_metadata, Mismatch,
         install_test
<1>5. \A o \in Codes : o \notin {"none", "unknown", "CANCELLED", "BUILD_TIMEOUT"}
  BY <1>4 DEF Codes, run_build, validate_source, Mismatch
<1>6. \A o \in validate_source(release) : o \notin Passes => o \in Codes
  BY <1>1 DEF Codes, validate_source, Mismatch, Passes
<1>7. \A o \in run_build(release) : o \in Codes \cup {"none"}
  BY <1>3, <1>4 DEF Codes, run_build, Passes
<1>8. \A o \in Passes : o = "SUCCESS" \/ o \notin validate_source(release)
  BY DEF Passes, validate_source, Mismatch
<1> QED
  BY <1>5, <1>6, <1>7, <1>8 DEF AllCodes

LEMMA VerdictInit ==
  ASSUME Init
  PROVE  VInv
<1>1. RecordsFit
  <2>1. release \in BOOLEAN
    BY BuildRunAssumption DEF Init
  <2>5. clock = 0 /\ overdue = FALSE /\ delivered = "nothing"
    BY DEF Init
  <2>6. clock \in 0 .. 2
    BY <2>5
  <2>7. overdue \in BOOLEAN
    BY <2>5, Zenon
  <2>8. delivered \in {"nothing", "cut", "whole"}
    BY <2>5
  <2>2. build \in BuildRow
    BY DEF Init, BuildRow, AllCodes
  <2>3. worker \in Worker
    BY DEF Init, Worker, AllCodes
  <2>4. box \in Box
    BY DEF Init, Box, NoBox
  <2> QED
    BY <2>1, <2>2, <2>3, <2>4, <2>6, <2>7, <2>8 DEF RecordsFit
<1>2. ScriptInTurn /\ VerdictKnown /\ Reported /\ VerdictHonest
  BY DEF Init, ScriptInTurn, VerdictKnown, JudgedRight, Reported, VerdictHonest, NoBox
<1> QED
  BY <1>1, <1>2 DEF VInv

(* Steps of the log, the page and the clock.                               *)
LEMMA VerdictStays ==
  ASSUME VInv, UNCHANGED <<release, build, delivered, worker, box>>,
         clock' \in 0 .. 2, clock' >= clock, overdue' \in BOOLEAN
  PROVE  VInv'
<1> USE DEF VInv
<1>1. RecordsFit' /\ ScriptInTurn' /\ Reported'
  BY DEF RecordsFit, ScriptInTurn, Reported
<1>2. VerdictKnown' /\ VerdictHonest'
  BY DEF VerdictKnown, JudgedRight, VerdictHonest, RecordsFit
<1> QED
  BY <1>1, <1>2

(* Steps of the container.                                                 *)
LEMMA BoxKeepsVerdict ==
  ASSUME VInv, UNCHANGED <<release, clock, row, worker>>, box' \in Box, ScriptInTurn'
  PROVE  VInv'
<1> USE DEF VInv, row
<1>1. RecordsFit' /\ Reported'
  BY DEF RecordsFit, Reported
<1>2. VerdictKnown' /\ VerdictHonest'
  BY DEF VerdictKnown, JudgedRight, VerdictHonest
<1> QED
  BY <1>1, <1>2

LEMMA ScriptKeepsVerdict ==
  ASSUME VInv, RunSteps \/ CopyDist \/ WriteResult \/ Exits \/ Breaks
  PROVE  VInv'
<1>1. box \in Box /\ ScriptInTurn
  BY DEF VInv, RecordsFit
<1>2. box' \in Box /\ ScriptInTurn'
  <2>1. CASE RunSteps
    <3>1. PICK code \in run_build(release) \cap (Failures \cup {"none"}) : box' = [box EXCEPT !.code = code]
      BY <2>1 DEF RunSteps
    <3>2. code \in Codes \cup {"none"}
      BY <3>1, CodesDiffer
    <3>3. box.code = "unknown" /\ box.out \notin {"cut", "dist", "result"}
      BY <1>1, <2>1 DEF RunSteps, ScriptInTurn
    <3> QED
      BY <1>1, <3>1, <3>2, <3>3 DEF Box, ScriptInTurn
  <2>2. CASE CopyDist
    BY <1>1, <2>2 DEF CopyDist, Box, ScriptInTurn
  <2>3. CASE WriteResult
    BY <1>1, <2>3 DEF WriteResult, Box, ScriptInTurn
  <2>4. CASE Exits \/ Breaks
    BY <1>1, <2>4 DEF Exits, Breaks, Ends, Box, ScriptInTurn
  <2> QED
    BY <2>1, <2>2, <2>3, <2>4
<1>3. UNCHANGED <<release, clock, row, worker>>
  BY DEF RunSteps, CopyDist, WriteResult, Exits, Breaks, Ends, InBox
<1> QED
  BY <1>2, <1>3, BoxKeepsVerdict

LEMMA NoBoxFits == NoBox \in Box /\ NoBox.out = "nothing" /\ NoBox.state = "none"
BY DEF NoBox, Box

(* Steps of the worker before the row is written.                          *)
LEMMA WorkerKeepsVerdict ==
  ASSUME VInv, UNCHANGED <<release, clock, build, overdue>>,
         worker' \in Worker, box' \in Box, delivered' \in {"nothing", "cut", "whole"},
         ScriptInTurn', VerdictKnown', worker.at \notin {"done", "dead"},
         worker'.at \in {"done", "dead"} => ~worker'.pumps
  PROVE  VInv'
<1> USE DEF VInv
<1>1. build.status \notin {"SUCCESS", "CANCELLED"} /\ build.code # "BUILD_TIMEOUT" /\ build.by # "worker"
  BY DEF Reported
<1>2. Reported' /\ VerdictHonest'
  BY <1>1 DEF Reported, VerdictHonest, VerdictKnown
<1>3. RecordsFit'
  BY DEF RecordsFit
<1> QED
  BY <1>2, <1>3

LEMMA SourceKeepsVerdict ==
  ASSUME VInv, Source
  PROVE  VInv'
<1>1. worker \in Worker /\ box \in Box /\ worker.at = "source" /\ VerdictKnown /\ delivered = "nothing"
  BY DEF VInv, RecordsFit, Source, VerdictKnown, JudgedRight
<1>2. PICK o \in validate_source(release) \cap (Passes \cup Failures) :
        IF o = "SUCCESS" THEN Go("create") ELSE Fails(o)
  BY DEF Source
<1>3. o = "SUCCESS" \/ o \in Codes
  BY <1>2, CodesDiffer
<1>4. worker' \in Worker /\ VerdictKnown' /\ worker'.at \in {"create", "report"}
  <2>1. CASE o = "SUCCESS"
    <3>1. worker' = [worker EXCEPT !.at = "create"]
      BY <1>2, <2>1 DEF Go
    <3> QED
      BY <1>1, <3>1 DEF Source, row, Worker, VerdictKnown, JudgedRight
  <2>2. CASE o # "SUCCESS"
    <3>1. worker' = [worker EXCEPT !.at = "report", !.code = o]
      BY <1>2, <2>2 DEF Fails
    <3>2. o \in AllCodes /\ o \notin {"none", "CANCELLED", "BUILD_TIMEOUT"}
      BY <1>3, <2>2, CodesDiffer
    <3> QED
      BY <1>1, <3>1, <3>2 DEF Source, row, Worker, VerdictKnown, JudgedRight
  <2> QED
    BY <2>1, <2>2
<1> QED
  BY <1>1, <1>4, WorkerKeepsVerdict DEF VInv, RecordsFit, ScriptInTurn, Source, row

(* The loop around the container, and what Docker refuses in it.           *)
LEMMA LoopKeepsVerdict ==
  ASSUME VInv, Create \/ FlushInLoop \/ Look \/ Control \/ Kill
  PROVE  VInv'
<1>1. worker \in Worker /\ box \in Box /\ VerdictKnown /\ ScriptInTurn /\ clock \in 0 .. 2
  BY DEF VInv, RecordsFit
<1>2. /\ worker.at \in {"create", "flush", "drain", "look", "control", "kill"} /\ delivered = "nothing"
      /\ worker.code = "none" /\ (worker.at \notin {"drain", "kill"} => worker.killed = "no")
  BY <1>1 DEF Create, FlushInLoop, Look, Control, Kill, VerdictKnown
<1>3. UNCHANGED <<release, clock, row>>
  BY DEF Create, FlushInLoop, Look, Control, Kill
<1>4. "RUNNER_ERROR" \in AllCodes
  BY DEF AllCodes
<1>5. /\ worker' \in Worker
      /\ worker'.at \in {"flush", "look", "control", "kill", "drain", "extract", "remove", "report"}
      /\ worker'.code = IF worker'.at \in {"remove", "report"} THEN "RUNNER_ERROR" ELSE "none"
      /\ worker'.killed = "cancel" => build.cancel
      /\ worker'.killed = "timeout" => clock > 0
      /\ worker'.at \in {"flush", "look", "control"} => worker'.killed = "no"
  <2>1. CASE Create
    BY <1>1, <1>2, <1>4, <2>1 DEF Create, Fails, Raises, Worker
  <2>2. CASE FlushInLoop
    BY <1>1, <1>2, <2>2 DEF FlushInLoop, Go, Worker, VerdictKnown
  <2>3. CASE Raises /\ (Look \/ Kill)
    BY <1>1, <1>2, <1>4, <2>3 DEF Raises, Worker, VerdictKnown
  <2>4. CASE (Look \/ Control) /\ (Go("drain") \/ Go("flush") \/ Go("control"))
    BY <1>1, <1>2, <2>4 DEF Look, Control, Go, Worker
  <2>5. CASE (Look \/ Control) /\ ((clock > 0 /\ Kills("timeout")) \/ (build.cancel /\ Kills("cancel")))
    BY <1>1, <1>2, <2>5 DEF Look, Control, Kills, Worker
  <2>6. CASE Kill /\ Go("drain")
    BY <1>1, <1>2, <2>6 DEF Kill, Go, Worker, VerdictKnown
  <2> QED
    BY <2>1, <2>2, <2>3, <2>4, <2>5, <2>6 DEF Look, Control, Kill
<1>6. box' \in Box /\ ScriptInTurn'
  <2>1. \/ box' = box \/ box' = [box EXCEPT !.state = "exited"]
        \/ \E state \in {"running", "exited"} : box' = [NoBox EXCEPT !.state = state]
    BY DEF Create, FlushInLoop, Look, Control, Kill
  <2> QED
    BY <1>1, <2>1 DEF Box, ScriptInTurn, NoBox
<1>7. VerdictKnown'
  BY <1>2, <1>3, <1>5 DEF VerdictKnown, JudgedRight, row
<1> QED
  BY <1>1, <1>2, <1>3, <1>5, <1>6, <1>7, WorkerKeepsVerdict DEF VInv, RecordsFit, row

(* What is made of the files and the result of the container.              *)
LEMMA VerdictRight ==
  ASSUME box \in Box, worker \in Worker, ScriptInTurn
  PROVE  /\ Took \in {"nothing", "cut", "whole"} /\ Verdict(Took) \in AllCodes
         /\ Verdict(Took) = "none" => Took = "whole" /\ worker.killed = "no"
         /\ Verdict(Took) = "CANCELLED" => worker.killed = "cancel"
         /\ Verdict(Took) = "BUILD_TIMEOUT" => worker.killed = "timeout"
<1>1. worker.killed \in {"no", "cancel", "timeout"} /\ box.code \in Codes \cup {"none", "unknown"}
  BY DEF Worker, Box
<1>2. box.out = "result" => box.code # "unknown"
  BY DEF ScriptInTurn
<1>3. Took \in {"nothing", "cut", "whole"}
  BY DEF Took
<1>4. CASE worker.killed # "no"
  BY <1>1, <1>3, <1>4 DEF Verdict, AllCodes
<1>5. CASE worker.killed = "no" /\ box.out # "result"
  BY <1>3, <1>5 DEF Verdict, AllCodes
<1>6. CASE worker.killed = "no" /\ box.out = "result" /\ box.code # "none"
  <2>1. Verdict(Took) = box.code
    BY <1>6 DEF Verdict
  <2>2. box.code \in Codes
    BY <1>1, <1>2, <1>6
  <2> QED
    BY <1>3, <1>6, <2>1, <2>2, CodesDiffer
<1>7. CASE worker.killed = "no" /\ box.out = "result" /\ box.code = "none"
  <2>1. Took = "whole"
    BY <1>7 DEF Took
  <2>2. Verdict(Took) = "none"
    BY <1>7, <2>1 DEF Verdict
  <2> QED
    BY <1>7, <2>1, <2>2 DEF AllCodes
<1> QED
  BY <1>4, <1>5, <1>6, <1>7

LEMMA ExtractKeepsVerdict ==
  ASSUME VInv, Extract
  PROVE  VInv'
<1>1. /\ worker \in Worker /\ box \in Box /\ VerdictKnown /\ ScriptInTurn
      /\ worker.at = "extract" /\ delivered = "nothing"
  BY DEF VInv, RecordsFit, Extract, VerdictKnown
<1> DEFINE v == Verdict(Took)
<1>2. /\ Took \in {"nothing", "cut", "whole"} /\ v \in AllCodes
      /\ v = "none" => Took = "whole" /\ worker.killed = "no"
      /\ v = "CANCELLED" => worker.killed = "cancel"
      /\ v = "BUILD_TIMEOUT" => worker.killed = "timeout"
  BY <1>1, VerdictRight
<1>3. \/ worker' = [worker EXCEPT !.took = Took, !.code = v, !.at = "remove"]
      \/ worker' = [worker EXCEPT !.at = "remove", !.code = "RUNNER_ERROR"]
  BY DEF Extract, Raises
<1> HIDE DEF v
<1>4. /\ worker' \in Worker /\ worker'.killed = worker.killed /\ worker'.at = "remove"
      /\ worker'.code = "RUNNER_ERROR" \/ (worker'.took = Took /\ worker'.code = v)
  <2>1. "RUNNER_ERROR" \in AllCodes
    BY DEF AllCodes
  <2> QED
    BY <1>1, <1>2, <1>3, <2>1 DEF Worker
<1>5. UNCHANGED <<release, clock, row, box>>
  BY DEF Extract
<1>6. VerdictKnown'
  BY <1>1, <1>2, <1>4, <1>5 DEF VerdictKnown, JudgedRight, row
<1> QED
  BY <1>1, <1>4, <1>5, <1>6, WorkerKeepsVerdict DEF VInv, RecordsFit, ScriptInTurn, row

LEMMA RemoveBoxKeepsVerdict ==
  ASSUME VInv, RemoveBox
  PROVE  VInv'
<1>1. /\ worker \in Worker /\ box \in Box /\ VerdictKnown /\ ScriptInTurn
      /\ worker.at = "remove" /\ delivered = "nothing"
  BY DEF VInv, RecordsFit, RemoveBox, VerdictKnown
<1>2. \/ worker' = [worker EXCEPT !.at = IF worker.code = "none" THEN "deliver" ELSE "report"]
      \/ worker' = [worker EXCEPT !.at = "report", !.code = "RUNNER_ERROR"]
  BY DEF RemoveBox, Judged, Go, Fails
<1>3. /\ worker' \in Worker /\ worker'.killed = worker.killed /\ worker'.took = worker.took
      /\ \/ worker'.at = "deliver" /\ worker'.code = "none" /\ worker.code = "none"
         \/ worker'.at = "report" /\ worker'.code # "none" /\ worker'.code \in {worker.code, "RUNNER_ERROR"}
  <2>1. "RUNNER_ERROR" \in AllCodes
    BY DEF AllCodes
  <2> QED
    BY <1>1, <1>2, <2>1 DEF Worker
<1>4. box' \in Box /\ ScriptInTurn'
  BY <1>1, NoBoxFits DEF RemoveBox, ScriptInTurn
<1>5. UNCHANGED <<release, clock, row>>
  BY DEF RemoveBox
<1>6. VerdictKnown'
  BY <1>1, <1>3, <1>5 DEF VerdictKnown, JudgedRight, row
<1> QED
  BY <1>1, <1>3, <1>4, <1>5, <1>6, WorkerKeepsVerdict DEF VInv, RecordsFit, row

LEMMA DeliverKeepsVerdict ==
  ASSUME VInv, Deliver
  PROVE  VInv'
<1>1. /\ worker \in Worker /\ box \in Box /\ VerdictKnown /\ ScriptInTurn
      /\ worker.at = "deliver" /\ delivered = "nothing" /\ worker.took = "whole"
      /\ worker.killed = "no" /\ worker.code = "none"
  BY DEF VInv, RecordsFit, Deliver, VerdictKnown, JudgedRight
<1>2. UNCHANGED <<release, clock, build, object, overdue, box>>
  BY DEF Deliver
<1>3. \/ delivered' = "whole" /\ worker' = [worker EXCEPT !.at = "report"]
      \/ /\ delivered' \in {"nothing", "whole"}
         /\ \E code \in {"RUNNER_ERROR", "PACKAGE_VERSION_EXISTS"} :
              worker' = [worker EXCEPT !.at = "report", !.code = code]
  BY <1>1 DEF Deliver, Go, Fails
<1>4. /\ worker' \in Worker /\ worker'.at = "report" /\ worker'.killed = "no"
      /\ worker'.code = "none" => delivered' = "whole"
      /\ worker'.code \notin {"CANCELLED", "BUILD_TIMEOUT"}
  <2>1. "RUNNER_ERROR" \in AllCodes /\ "PACKAGE_VERSION_EXISTS" \in AllCodes
    BY DEF AllCodes
  <2> QED
    BY <1>1, <1>3, <2>1 DEF Worker
<1>5. VerdictKnown'
  BY <1>4 DEF VerdictKnown, JudgedRight
<1>6. ScriptInTurn' /\ box' \in Box /\ delivered' \in {"nothing", "cut", "whole"}
  BY <1>1, <1>2, <1>3 DEF ScriptInTurn
<1> QED
  BY <1>1, <1>2, <1>4, <1>5, <1>6, WorkerKeepsVerdict

LEMMA ReportKeepsVerdict ==
  ASSUME VInv, Report \/ Crash
  PROVE  VInv'
<1>1. worker \in Worker /\ box \in Box /\ VerdictKnown /\ ScriptInTurn /\ RecordsFit
  BY DEF VInv, RecordsFit
<1>2. UNCHANGED <<release, clock, row, box>>
  BY DEF Report, Crash
<1>3. /\ worker' \in Worker /\ worker.at \notin {"done", "dead"}
      /\ worker'.at = "dead" => ~worker'.pumps
      /\ worker'.at # "dead" => worker.at = "report" /\ worker'.at = "finish"
      /\ worker'.code = worker.code /\ worker'.killed = worker.killed
  BY <1>1 DEF Report, Crash, Go, Worker
<1>4. VerdictKnown'
  BY <1>1, <1>2, <1>3 DEF VerdictKnown, JudgedRight, row
<1> QED
  BY <1>1, <1>2, <1>3, <1>4, WorkerKeepsVerdict DEF VInv, RecordsFit, ScriptInTurn, row

(* Steps that write the row.                                               *)
LEMMA CallFinishKeepsVerdict ==
  ASSUME VInv, CallFinish
  PROVE  VInv'
<1>1. RecordsFit /\ VerdictKnown /\ ScriptInTurn /\ Reported /\ VerdictHonest /\ worker.at = "finish"
  BY DEF VInv, CallFinish
<1>2. UNCHANGED <<release, clock, overdue, delivered, box>>
  BY DEF CallFinish
<1>3. /\ worker' \in Worker /\ worker'.at = "done" /\ ~worker'.pumps
      /\ worker'.code = worker.code /\ worker'.killed = worker.killed
  BY <1>1 DEF CallFinish, RecordsFit, Worker
<1>4. \/ /\ build' \in BuildRow /\ build'.by = "worker" /\ build'.cancel = build.cancel
         /\ build'.status = Outcome(worker.code) /\ build'.code = worker.code
      \/ build' = build
  <2>1. Outcome(worker.code) \in Finished /\ worker.code \in AllCodes
    BY <1>1 DEF Outcome, Finished, RecordsFit, Worker
  <2>2. CASE Finish(Outcome(worker.code), worker.code, FullLog(lines.written), "worker")
    BY <1>1, <2>1, <2>2 DEF Finish, RecordsFit, BuildRow
  <2> QED
    BY <2>2 DEF CallFinish
<1>5. RecordsFit' /\ ScriptInTurn'
  BY <1>1, <1>2, <1>3, <1>4 DEF RecordsFit, ScriptInTurn
<1>6. VerdictKnown'
  BY <1>1, <1>2, <1>3, <1>4 DEF VerdictKnown, JudgedRight
<1>7. build' # build => build'.status # "RUNNING"
  BY <1>4 DEF Outcome
<1>8. Reported'
  BY <1>1, <1>3, <1>4, <1>7 DEF Reported
<1>9. VerdictHonest'
  BY <1>1, <1>2, <1>3, <1>4 DEF VerdictHonest, VerdictKnown, JudgedRight, Outcome
<1> QED
  BY <1>5, <1>6, <1>8, <1>9 DEF VInv

LEMMA FailOverdueKeepsVerdict ==
  ASSUME VInv, FailOverdue
  PROVE  VInv'
<1>1. RecordsFit /\ VerdictKnown /\ ScriptInTurn /\ Reported
  BY DEF VInv
<1>2. UNCHANGED <<release, clock, delivered, worker, box>> /\ overdue' = FALSE
  BY DEF FailOverdue
<1>3. /\ build' \in BuildRow /\ build'.status = "FAILED" /\ build'.code = "RUNNER_ERROR"
      /\ build'.by = "maintenance" /\ build'.cancel = build.cancel
  <2>1. "RUNNER_ERROR" \in AllCodes /\ "FAILED" \in Finished
    BY DEF AllCodes, Finished
  <2> QED
    BY <1>1, <2>1 DEF FailOverdue, Finish, RecordsFit, BuildRow
<1>4. RecordsFit' /\ ScriptInTurn'
  BY <1>1, <1>2, <1>3 DEF RecordsFit, ScriptInTurn
<1>5. VerdictKnown' /\ Reported' /\ VerdictHonest'
  BY <1>1, <1>2, <1>3 DEF VerdictKnown, JudgedRight, Reported, VerdictHonest
<1> QED
  BY <1>4, <1>5 DEF VInv

LEMMA RequestCancelKeepsVerdict ==
  ASSUME VInv, RequestCancel
  PROVE  VInv'
<1>1. RecordsFit /\ VerdictKnown /\ ScriptInTurn /\ Reported /\ VerdictHonest
  BY DEF VInv
<1>2. UNCHANGED <<release, clock, overdue, delivered, worker, box>>
  BY DEF RequestCancel
<1>3. /\ build' \in BuildRow /\ build'.cancel
      /\ build'.status = build.status /\ build'.code = build.code /\ build'.by = build.by /\ build'.key = build.key
  BY <1>1 DEF RequestCancel, RecordsFit, BuildRow
<1>4. RecordsFit' /\ ScriptInTurn' /\ VerdictKnown' /\ Reported' /\ VerdictHonest'
  BY <1>1, <1>2, <1>3 DEF RecordsFit, ScriptInTurn, VerdictKnown, JudgedRight, Reported, VerdictHonest
<1> QED
  BY <1>4 DEF VInv

LEMMA CleanupKeepsVerdict ==
  ASSUME VInv, CleanupOrphans
  PROVE  VInv'
BY NoBoxFits, BoxKeepsVerdict DEF CleanupOrphans, ScriptInTurn

LEMMA VerdictStep ==
  ASSUME VInv, [Next]_vars
  PROVE  VInv'
<1>1. clock \in 0 .. 2 /\ overdue \in BOOLEAN
  BY DEF VInv, RecordsFit
<1>2. ASSUME \/ LateAppend \/ Pump \/ Tick \/ LoadOverdue \/ LiveExpires \/ Show \/ AnswerLive \/ AnswerLost
             \/ UNCHANGED vars
      PROVE  VInv'
  <2>1. UNCHANGED <<release, build, delivered, worker, box>>
    BY <1>2 DEF LateAppend, Pump, Tick, LoadOverdue, LiveExpires, Show, SeeStatus, Ask, Answer,
                AnswerLive, AnswerLost, vars, row
  <2>2. clock' = clock \/ (clock < 2 /\ clock' = clock + 1)
    BY <1>2 DEF LateAppend, Pump, Tick, LoadOverdue, LiveExpires, Show, SeeStatus, Ask, Answer,
                AnswerLive, AnswerLost, vars
  <2>3. clock' \in 0 .. 2 /\ clock' >= clock
    BY <1>1, <2>2
  <2>4. overdue' = overdue \/ overdue' = TRUE
    BY <1>2 DEF LateAppend, Pump, Tick, LoadOverdue, LiveExpires, Show, SeeStatus, Ask, Answer,
                AnswerLive, AnswerLost, vars, row
  <2> QED
    BY <1>1, <2>1, <2>3, <2>4, VerdictStays
<1> QED
  BY <1>2, ScriptKeepsVerdict, SourceKeepsVerdict, LoopKeepsVerdict, ExtractKeepsVerdict, RemoveBoxKeepsVerdict,
     DeliverKeepsVerdict,
     ReportKeepsVerdict, CallFinishKeepsVerdict, FailOverdueKeepsVerdict, RequestCancelKeepsVerdict,
     CleanupKeepsVerdict
     DEF Next, Work, Keep
-----------------------------------------------------------------------------
(* Beginnings of the log.                                                  *)
LEMMA UptoIs ==
  ASSUME NEW n \in Nat
  PROVE  /\ Upto(n) \in Seq(1 .. n) /\ Len(Upto(n)) = n
         /\ \A i \in 1 .. n : Upto(n)[i] = i
BY DEF Upto

LEMMA SeqWider ==
  ASSUME NEW m \in Nat, NEW n \in Nat, m <= n
  PROVE  Seq(1 .. m) \subseteq Seq(1 .. n)
<1>1. 1 .. m \subseteq 1 .. n
  OBVIOUS
<1> QED
  BY <1>1, SeqMonotonic

LEMMA BeginningIs ==
  ASSUME NEW n \in Nat, NEW S, NEW list \in Seq(S)
  PROVE  Beginning(list, n) <=> Len(list) <= n /\ \A i \in 1 .. Len(list) : list[i] = i
<1>1. Len(list) \in Nat /\ list = [i \in 1 .. Len(list) |-> list[i]]
  BY LenProperties
<1>2. (\A i \in 1 .. Len(list) : list[i] = i) <=> list = Upto(Len(list))
  BY <1>1 DEF Upto
<1> QED
  BY <1>2 DEF Beginning

LEMMA BeginningIsPrefix ==
  ASSUME NEW n \in Nat, NEW S, NEW list \in Seq(S), Beginning(list, n)
  PROVE  IsPrefix(list, Upto(n))
<1>1. Len(list) \in Nat /\ Len(list) <= n /\ \A i \in 1 .. Len(list) : list[i] = i
  BY BeginningIs, LenProperties
<1>2. SubSeq(list, 1, Len(list)) = list
  BY SubSeqFull
<1>3. /\ SubSeq(Upto(n), 1, Len(list)) \in Seq(Nat)
      /\ Len(SubSeq(Upto(n), 1, Len(list))) = Len(list)
      /\ \A i \in 1 .. Len(list) : SubSeq(Upto(n), 1, Len(list))[i] = i
  <2>1. \A i \in 1 .. Len(list) : Upto(n)[i] = i
    BY <1>1, UptoIs
  <2>2. \A i \in 1 .. Len(list) : Upto(n)[i] \in Nat
    BY <2>1
  <2> QED
    BY <1>1, <2>1, <2>2, SubSeqProperties
<1>4. list \in Seq(Nat)
  <2>1. list \in [1 .. Len(list) -> Nat]
    BY <1>1, LenProperties
  <2> QED
    BY <1>1, <2>1, SeqDef
<1>5. list = SubSeq(Upto(n), 1, Len(list))
  BY <1>1, <1>3, <1>4, SeqEqual
<1> QED
  BY <1>1, <1>2, <1>5, UptoIs DEF IsPrefix

(* The page reads on from where it is.                                     *)
LEMMA ReadsOn ==
  ASSUME NEW n \in Nat, NEW text \in Seq(1 .. n), NEW log \in Seq(1 .. n)
  PROVE  LET next == text \o SubSeq(log, Len(text) + 1, Len(log)) IN
         /\ next \in Seq(1 .. n)
         /\ Beginning(text, n) /\ Beginning(log, n) => Beginning(next, n)
         /\ Beginning(text, n) /\ log = Upto(n) => next = Upto(n)
         /\ text = Upto(n) /\ Beginning(log, n) => next = Upto(n)
<1> DEFINE rest == SubSeq(log, Len(text) + 1, Len(log))
           next == text \o rest
<1>1. /\ Len(text) \in Nat /\ Len(log) \in Nat
      /\ \A i \in 1 .. Len(text) : text[i] \in 1 .. n
      /\ \A i \in 1 .. Len(log) : log[i] \in 1 .. n
  BY LenProperties, ElementOfSeq
<1>2. /\ rest \in Seq(1 .. n)
      /\ Len(rest) = IF Len(text) + 1 <= Len(log) THEN Len(log) - Len(text) ELSE 0
      /\ \A i \in 1 .. Len(log) - Len(text) : rest[i] = log[Len(text) + i]
  <2>1. \A i \in Len(text) + 1 .. Len(log) : log[i] \in 1 .. n
    BY <1>1
  <2>2. Len(text) + 1 \in Int /\ Len(log) \in Int
    BY <1>1
  <2>3. /\ rest \in Seq(1 .. n)
        /\ Len(rest) = IF Len(text) + 1 <= Len(log) THEN Len(log) - (Len(text) + 1) + 1 ELSE 0
        /\ \A i \in 1 .. Len(log) - (Len(text) + 1) + 1 : rest[i] = log[(Len(text) + 1) + i - 1]
    BY <2>1, <2>2, SubSeqProperties
  <2> QED
    BY <1>1, <2>3
<1> HIDE DEF rest
<1>3. /\ next \in Seq(1 .. n) /\ Len(next) = Len(text) + Len(rest)
      /\ \A i \in 1 .. Len(text) + Len(rest) : next[i] = IF i <= Len(text) THEN text[i] ELSE rest[i - Len(text)]
  BY <1>2, ConcatProperties
<1>4. Len(next) = IF Len(text) <= Len(log) THEN Len(log) ELSE Len(text)
  BY <1>1, <1>2, <1>3
<1> HIDE DEF next
<1>5. ASSUME Beginning(text, n), Beginning(log, n) PROVE Beginning(next, n)
  <2>1. /\ Len(text) <= n /\ \A i \in 1 .. Len(text) : text[i] = i
        /\ Len(log) <= n /\ \A i \in 1 .. Len(log) : log[i] = i
    BY <1>5, BeginningIs
  <2>2. \A i \in 1 .. Len(next) : next[i] = i
    <3> TAKE i \in 1 .. Len(next)
    <3>1. CASE i <= Len(text)
      <4>1. i \in 1 .. Len(text) + Len(rest) /\ i \in 1 .. Len(text)
        BY <1>1, <1>2, <1>3, <3>1
      <4> QED
        BY <1>3, <2>1, <3>1, <4>1
    <3>2. CASE i > Len(text)
      <4>1. i - Len(text) \in 1 .. Len(log) - Len(text) /\ Len(rest) = Len(log) - Len(text)
        BY <1>1, <1>2, <1>4, <3>2
      <4>2. i \in 1 .. Len(text) + Len(rest) /\ ~(i <= Len(text)) /\ Len(text) + (i - Len(text)) = i
        BY <1>1, <1>2, <1>3, <3>2
      <4>3. next[i] = rest[i - Len(text)]
        BY <1>3, <4>2
      <4>4. rest[i - Len(text)] = log[i]
        BY <1>2, <4>1, <4>2
      <4> QED
        BY <1>1, <2>1, <4>1, <4>2, <4>3, <4>4
    <3> QED
      BY <1>1, <3>1, <3>2
  <2> QED
    BY <1>1, <1>3, <1>4, <2>1, <2>2, BeginningIs
<1>6. Beginning(Upto(n), n)
  BY UptoIs DEF Beginning
<1>7. ASSUME Beginning(text, n), log = Upto(n) PROVE next = Upto(n)
  BY <1>1, <1>4, <1>5, <1>6, <1>7, UptoIs DEF Beginning
<1>8. ASSUME text = Upto(n), Beginning(log, n) PROVE next = Upto(n)
  BY <1>1, <1>4, <1>5, <1>6, <1>8, UptoIs DEF Beginning
<1> QED
  BY <1>3, <1>5, <1>7, <1>8 DEF next, rest

(* The chunk of a flush goes on where the last one ended.                  *)
LEMMA FlushesOn ==
  ASSUME NEW n \in Nat, NEW k \in 0 .. n
  PROVE  LET chunk == SubSeq(Upto(n), k + 1, n) IN
         chunk \in Seq(1 .. n) /\ Upto(k) \o chunk = Upto(n)
<1>1. Upto(k) \in Seq(1 .. n) /\ Len(Upto(k)) = k /\ Upto(n) \in Seq(1 .. n) /\ Len(Upto(n)) = n
  BY UptoIs, SeqWider
<1>2. Upto(k) \o SubSeq(Upto(n), k + 1, n) = Upto(n)
  <2>1. Beginning(Upto(k), n)
    BY <1>1 DEF Beginning
  <2>2. Upto(k) \o SubSeq(Upto(n), Len(Upto(k)) + 1, Len(Upto(n))) = Upto(n)
    BY <1>1, <2>1, ReadsOn
  <2> QED
    BY <1>1, <2>2
<1>3. SubSeq(Upto(n), k + 1, n) \in Seq(1 .. n)
  <2>1. \A i \in k + 1 .. n : Upto(n)[i] \in 1 .. n
    BY UptoIs
  <2> QED
    BY <2>1, SubSeqProperties
<1> QED
  BY <1>2, <1>3

LEMMA AppendedFits ==
  ASSUME NEW n \in Nat, NEW list \in Seq(1 .. n), NEW chunk \in Seq(1 .. n)
  PROVE  Appended(list, chunk) \in Seq(1 .. n)
BY ConcatProperties DEF Appended
-----------------------------------------------------------------------------
(* Steps of the log and the page.                                          *)
LEMMA LogInit ==
  ASSUME Init
  PROVE  LInv
<1> USE BuildRunAssumption DEF Init
<1>1. <<>> \in Seq(1 .. lines.written) /\ Len(<<>>) = 0 /\ <<>> = Upto(0) /\ lines.written = 0
  BY EmptySeq DEF Upto
<1>2. page \in Page
  BY <1>1 DEF Page
<1>3. missed \in BOOLEAN /\ misread \in BOOLEAN
  BY Zenon
<1>4. LogFits
  BY <1>1, <1>2, <1>3 DEF LogFits
<1>5. InTurn
  BY <1>1 DEF InTurn, Beginning
<1> QED
  BY <1>4, <1>5 DEF LInv, ReportStored, Told, CompleteIsWhole, Ended, Finished

LEMMA FaultsFit ==
  ASSUME LogFits, NoFault \/ Spend
  PROVE  faults' \in 0 .. MaxFaults
BY BuildRunAssumption DEF LogFits, NoFault, Spend

(* Steps that leave the log and the page alone.                            *)
LEMMA LogStays ==
  ASSUME LInv, UNCHANGED <<lines, live, late, object, page, missed, misread>>, faults' \in 0 .. MaxFaults,
         build'.status = build.status, build'.by = build.by, build'.key = build.key,
         worker.at \in {"done", "dead"} => worker'.at \in {"done", "dead"}
  PROVE  LInv'
<1> USE DEF LInv
<1>1. LogFits'
  BY DEF LogFits, Page
<1>2. InTurn'
  BY DEF InTurn, Beginning, Upto
<1>3. ReportStored' /\ CompleteIsWhole'
  BY DEF ReportStored, CompleteIsWhole, Upto
<1>4. Told'
  BY DEF Told, Ended
<1> QED
  BY <1>1, <1>2, <1>3, <1>4

(* Lines are written before the worker reports.                            *)
LEMMA LinesGrow ==
  ASSUME LInv, build.by # "worker", UNCHANGED <<build, object, page, misread>>,
         lines'.written \in 0 .. MaxLines, lines.written <= lines'.written,
         lines' \in [written : 0 .. MaxLines, flushed : 0 .. MaxLines, reported : 0 .. MaxLines],
         lines'.flushed <= lines'.written, lines'.reported = lines.reported,
         missed' \in BOOLEAN, missed => missed', faults' \in 0 .. MaxFaults,
         live' \in Seq(1 .. lines'.written), late' \in Seq(1 .. lines'.written),
         ~missed' =>
           /\ late' = <<>> /\ Beginning(live, lines.flushed)' 
           /\ Len(live') = lines'.flushed \/ Len(live') > LiveMax \/ worker'.at \in {"done", "dead"}
  PROVE  LInv'
<1> USE DEF LInv
<1>1. lines.written \in Nat /\ lines'.written \in Nat
  BY DEF LogFits
<1>2. Seq(1 .. lines.written) \subseteq Seq(1 .. lines'.written)
  BY <1>1, SeqWider
<1>3. page' \in Page'
  BY <1>2 DEF LogFits, Page
<1>4. LogFits'
  BY <1>1, <1>2, <1>3 DEF LogFits
<1>5. Len(object) \in Nat /\ Len(page.text) \in Nat
  BY LenProperties DEF LogFits, Page
<1>6. InTurn'
  BY <1>1, <1>5 DEF InTurn, Beginning, Upto
<1>7. ReportStored' /\ CompleteIsWhole'
  BY DEF ReportStored, CompleteIsWhole
<1>8. Told'
  BY DEF Told, Ended
<1> QED
  BY <1>4, <1>6, <1>7, <1>8

LEMMA FlushKeepsLog ==
  ASSUME LInv, NEW n \in 0 .. MaxLines, n >= lines.written, Flush(n),
         worker.at \notin {"done", "dead"}, build.by # "worker", UNCHANGED <<build, object, page, misread>>
  PROVE  LInv'
<1> USE DEF LInv
<1> DEFINE k == lines.flushed
           chunk == SubSeq(Upto(n), k + 1, n)
<1>1. n \in Nat /\ lines.written \in Nat /\ k \in 0 .. n /\ k <= lines.written
  BY BuildRunAssumption DEF LogFits
<1>2. /\ lines' \in [written : 0 .. MaxLines, flushed : 0 .. MaxLines, reported : 0 .. MaxLines]
      /\ lines'.written = n /\ lines'.flushed = n /\ lines'.reported = lines.reported
  BY DEF Flush, LogFits
<1>3. chunk \in Seq(1 .. n) /\ Upto(k) \o chunk = Upto(n)
  BY <1>1, FlushesOn
<1>4. /\ \/ live' = Appended(live, chunk) /\ UNCHANGED <<late, missed>>
         \/ missed' = TRUE /\ live' = live /\ (late' = late \/ late' = chunk)
      /\ NoFault \/ Spend
  BY DEF Flush
<1> HIDE DEF chunk
<1>5. Seq(1 .. lines.written) \subseteq Seq(1 .. n)
  BY <1>1, SeqWider
<1>6. live \in Seq(1 .. n) /\ late \in Seq(1 .. n)
  BY <1>5 DEF LogFits
<1>7. live' \in Seq(1 .. n) /\ late' \in Seq(1 .. n)
  BY <1>3, <1>4, <1>6, AppendedFits
<1>8. missed' \in BOOLEAN /\ (missed => missed')
  <2>1. missed' = missed \/ missed' = TRUE
    BY <1>4
  <2>2. missed \in BOOLEAN
    BY DEF LogFits
  <2>3. CASE missed' = missed
    BY <2>2, <2>3
  <2>4. CASE missed' = TRUE
    BY <2>4, Zenon
  <2> QED
    BY <2>1, <2>3, <2>4
<1>9. ASSUME ~missed'
      PROVE  /\ late' = <<>> /\ Beginning(live', n)
             /\ Len(live') = n \/ Len(live') > LiveMax
  <2>1. /\ live' = Appended(live, chunk) /\ late' = <<>>
        /\ Len(live) <= k /\ live = Upto(Len(live)) /\ (Len(live) = k \/ Len(live) > LiveMax)
    BY <1>4, <1>9 DEF InTurn, Beginning
  <2>2. CASE Len(live) > LiveMax
    BY <1>1, <1>6, <2>1, <2>2, LenProperties DEF Appended, Beginning
  <2>3. CASE ~(Len(live) > LiveMax)
    <3>1. live' = Upto(n)
      BY <1>3, <2>1, <2>3 DEF Appended
    <3> QED
      BY <1>1, <2>1, <3>1, UptoIs DEF Beginning
  <2> QED
    BY <2>2, <2>3
<1>10. faults' \in 0 .. MaxFaults
  BY <1>4, FaultsFit
<1>11. ~missed' => Beginning(live, lines.flushed)'
  BY <1>2, <1>9 DEF Beginning, Upto
<1> QED
  BY <1>1, <1>2, <1>7, <1>8, <1>9, <1>10, <1>11, LinesGrow

LEMMA NotReported ==
  ASSUME VInv, worker.at \notin {"done", "dead"} \/ worker.pumps
  PROVE  worker.at \notin {"done", "dead"} /\ build.by # "worker"
BY DEF VInv, Reported

LEMMA WrittenFits ==
  ASSUME LInv
  PROVE  /\ lines.written \in 0 .. MaxLines /\ Written(lines.written) \in 0 .. MaxLines
         /\ lines.written \in Nat /\ Written(lines.written) >= lines.written
BY BuildRunAssumption DEF LInv, LogFits, Written

LEMMA LinesKeepLog ==
  ASSUME VInv, LInv, FlushInLoop \/ Report \/ Pump \/ LateAppend
  PROVE  LInv'
<1>1. CASE FlushInLoop
  BY <1>1, NotReported, WrittenFits, FlushKeepsLog DEF FlushInLoop, row
<1>2. CASE Report
  BY <1>2, NotReported, WrittenFits, FlushKeepsLog DEF Report, row
<1>3. CASE Pump
  <2>1. /\ worker.at \notin {"done", "dead"} /\ build.by # "worker"
        /\ UNCHANGED <<build, object, page, misread, live, late, missed, faults, worker>>
    BY <1>3, NotReported DEF Pump, row
  <2>2. /\ lines' \in [written : 0 .. MaxLines, flushed : 0 .. MaxLines, reported : 0 .. MaxLines]
        /\ lines'.written = Written(lines.written) /\ lines'.flushed = lines.flushed
        /\ lines'.reported = lines.reported
    BY <1>3, WrittenFits DEF Pump, LInv, LogFits
  <2>3. Seq(1 .. lines.written) \subseteq Seq(1 .. lines'.written)
    BY <2>2, WrittenFits, SeqWider
  <2>4. LogFits /\ InTurn /\ lines.flushed \in Nat
    BY DEF LInv, LogFits
  <2>5. ~missed' => /\ late' = <<>> /\ Beginning(live, lines.flushed)'
                    /\ Len(live') = lines'.flushed \/ Len(live') > LiveMax
    BY <2>1, <2>2, <2>4 DEF InTurn, Beginning, Upto
  <2>6. lines'.written \in 0 .. MaxLines /\ lines.written <= lines'.written /\ lines'.flushed <= lines'.written
    BY <2>2, <2>4, WrittenFits DEF LogFits
  <2>7. live' \in Seq(1 .. lines'.written) /\ late' \in Seq(1 .. lines'.written)
    BY <2>1, <2>3, <2>4 DEF LogFits
  <2>8. missed' \in BOOLEAN /\ faults' \in 0 .. MaxFaults /\ (missed => missed')
    BY <2>1, <2>4 DEF LogFits
  <2> QED
    BY <2>1, <2>2, <2>5, <2>6, <2>7, <2>8, LinesGrow
<1>4. CASE LateAppend
  <2>1. LogFits /\ missed /\ UNCHANGED <<lines, object, page, misread, missed, faults, build, worker>>
    BY <1>4 DEF LateAppend, LInv, InTurn, row
  <2>2. live' \in Seq(1 .. lines.written) /\ late' \in Seq(1 .. lines.written)
    BY <1>4, <2>1, AppendedFits, WrittenFits, EmptySeq DEF LateAppend, LogFits
  <2>3. LogFits'
    BY <2>1, <2>2 DEF LogFits, Page
  <2> QED
    BY <2>1, <2>3 DEF LInv, InTurn, ReportStored, Told, CompleteIsWhole, Ended
<1> QED
  BY <1>1, <1>2, <1>3, <1>4

(* The row is written with its log.                                        *)
LEMMA CallFinishKeepsLog ==
  ASSUME VInv, LInv, CallFinish
  PROVE  LInv'
<1> USE DEF LInv
<1>1. /\ worker.at = "finish" /\ build.by # "worker" /\ build \in BuildRow
      /\ build.status = "RUNNING" <=> build.by = "none"
      /\ build.status = "RUNNING" => ~build.key
  BY DEF CallFinish, VInv, Reported, RecordsFit
<1>2. UNCHANGED <<live, late, missed, page, misread>>
  BY DEF CallFinish
<1>3. /\ lines' \in [written : 0 .. MaxLines, flushed : 0 .. MaxLines, reported : 0 .. MaxLines]
      /\ lines'.written = lines.written /\ lines'.flushed = lines.flushed /\ lines'.reported = lines.written
      /\ lines.written \in Nat
  BY WrittenFits DEF CallFinish, LogFits
<1>4. worker'.at = "done"
  BY DEF CallFinish, VInv, RecordsFit, Worker
<1>5. /\ \/ /\ ~Ended /\ build'.by = "worker" /\ build'.status \in Finished
            /\ \/ object' = Upto(lines.written) /\ build'.key
               \/ object' = object /\ build'.key = build.key
         \/ build' = build /\ object' = object
      /\ NoFault \/ Spend
  BY <1>1 DEF CallFinish, Finish, FullLog, BuildRow, Outcome, Finished
<1>6. object' = object \/ object' = Upto(lines.written)
  BY <1>5
<1>7. Upto(lines.written) \in Seq(1 .. lines.written) /\ Len(Upto(lines.written)) = lines.written
  BY <1>3, UptoIs
<1>8. LogFits'
  <2>1. faults' \in 0 .. MaxFaults
    BY <1>5, FaultsFit
  <2>2. page' \in Page'
    BY <1>2, <1>3 DEF LogFits, Page
  <2>3. object' \in Seq(1 .. lines'.written)
    BY <1>3, <1>6, <1>7 DEF LogFits
  <2> QED
    BY <1>2, <1>3, <2>1, <2>2, <2>3 DEF LogFits
<1>9. InTurn'
  <2> SUFFICES ASSUME ~missed' PROVE InTurn'
    BY DEF InTurn
  <2>1. Beginning(Upto(lines.written), lines.written)
    BY <1>3, <1>7 DEF Beginning
  <2>2. Beginning(object', lines.written)
    BY <1>2, <1>6, <2>1 DEF InTurn
  <2> QED
    BY <1>2, <1>3, <1>4, <2>2 DEF InTurn, Beginning, Upto
<1>10. ReportStored'
  <2>1. ~Ended => ~build.key
    BY <1>1 DEF BuildRow, Ended
  <2>2. build'.by = "worker" /\ build'.key => object' = Upto(lines.written)
    BY <1>1, <1>5, <2>1
  <2> QED
    BY <1>3, <2>2 DEF ReportStored, Upto
<1>11. Told'
  BY <1>2, <1>5 DEF Told, Ended
<1>12. CompleteIsWhole'
  BY <1>1, <1>2, <1>5 DEF CompleteIsWhole, Told
<1> QED
  BY <1>8, <1>9, <1>10, <1>11, <1>12

LEMMA FailOverdueKeepsLog ==
  ASSUME VInv, LInv, FailOverdue
  PROVE  LInv'
<1> USE DEF LInv
<1>1. build \in BuildRow
  BY DEF VInv, RecordsFit
<1>2. UNCHANGED <<worker, lines, live, late, missed, page, misread>>
  BY DEF FailOverdue, logs
<1>3. /\ build'.by = "maintenance" /\ build'.status = "FAILED" /\ (build.key => build'.key)
      /\ object' = object \/ object' = live
      /\ NoFault \/ Spend
  BY <1>1 DEF FailOverdue, Finish, BuildRow
<1>4. LogFits'
  <2>1. faults' \in 0 .. MaxFaults
    BY <1>3, FaultsFit
  <2> QED
    BY <1>2, <1>3, <2>1 DEF LogFits, Page
<1>5. InTurn'
  <2>1. lines.flushed \in Nat /\ lines.written \in Nat /\ lines.flushed <= lines.written /\ Len(live) \in Nat
    BY LenProperties DEF LogFits
  <2>2. ~missed => Beginning(live, lines.written)
    BY <2>1 DEF InTurn, Beginning
  <2> QED
    BY <1>2, <1>3, <2>2 DEF InTurn, Beginning, Upto
<1>6. ReportStored' /\ Told' /\ CompleteIsWhole'
  BY <1>2, <1>3 DEF ReportStored, Told, CompleteIsWhole, Ended, Finished
<1> QED
  BY <1>4, <1>5, <1>6

LEMMA LiveExpiresKeepsLog ==
  ASSUME LInv, LiveExpires
  PROVE  LInv'
<1> USE DEF LInv
<1>1. /\ UNCHANGED <<build, object, worker, lines, late, missed, page, misread, faults>>
      /\ live' = <<>> /\ worker.at \in {"done", "dead"}
  BY DEF LiveExpires, row
<1>2. <<>> \in Seq(1 .. lines.written) /\ Len(<<>>) = 0 /\ <<>> = Upto(0) /\ lines.flushed \in Nat
  BY EmptySeq DEF Upto, LogFits
<1>3. LogFits' /\ InTurn'
  BY <1>1, <1>2 DEF LogFits, Page, InTurn, Beginning, Upto
<1>4. ReportStored' /\ Told' /\ CompleteIsWhole'
  BY <1>1 DEF ReportStored, Told, CompleteIsWhole, Ended, Upto
<1> QED
  BY <1>3, <1>4

(* The page learns and asks.                                               *)
LEMMA PageKeepsLog ==
  ASSUME LInv, page' \in Page, UNCHANGED <<build, worker, lines, live, late, object, missed>>,
         misread' \in BOOLEAN, misread => misread', faults' \in 0 .. MaxFaults,
         ~missed => Beginning(page'.text, lines.written), Told', CompleteIsWhole'
  PROVE  LInv'
<1> USE DEF LInv
<1>1. LogFits' /\ InTurn' /\ ReportStored'
  BY DEF LogFits, Page, InTurn, ReportStored, Beginning, Upto
<1> QED
  BY <1>1

LEMMA AskKeepsLog ==
  ASSUME LInv, SeeStatus \/ Ask \/ AnswerLost
  PROVE  LInv'
<1> USE DEF LInv
<1>1. page \in Page /\ LogFits
  BY DEF LogFits
<1>2. UNCHANGED <<build, worker, lines, live, late, object, missed, misread>>
  BY DEF SeeStatus, Ask, AnswerLost, row, logs
<1>3. faults' \in 0 .. MaxFaults
  BY <1>1, FaultsFit DEF SeeStatus, Ask, AnswerLost, NoFault
<1>4. /\ page' \in Page /\ page'.text = page.text /\ page'.done = page.done
      /\ \/ page'.asked = "no"
         \/ page'.asked = IF ~Ended THEN "running" ELSE IF build.key THEN "stored" ELSE "finished"
  <2>1. CASE SeeStatus
    BY <1>1, <2>1 DEF SeeStatus, Page
  <2>2. CASE Ask
    BY <1>1, <2>2 DEF Ask, Page
  <2>3. CASE AnswerLost
    BY <1>1, <2>3 DEF AnswerLost, Page
  <2> QED
    BY <2>1, <2>2, <2>3
<1>5. Told'
  BY <1>2, <1>4 DEF Told, Ended
<1>6. CompleteIsWhole'
  BY <1>2, <1>4 DEF CompleteIsWhole, Upto
<1>7. misread' \in BOOLEAN /\ (misread => misread')
  BY <1>1, <1>2 DEF LogFits
<1>8. ~missed => Beginning(page'.text, lines.written)
  BY <1>4 DEF InTurn
<1> QED
  BY <1>2, <1>3, <1>4, <1>5, <1>6, <1>7, <1>8, PageKeepsLog

LEMMA ReadKeepsLog ==
  ASSUME LInv, NEW log \in {live, object}, Read(log), page.asked # "no",
         UNCHANGED <<build, worker, lines, live, late, object, missed>>,
         misread' \in BOOLEAN, misread => misread', faults' \in 0 .. MaxFaults,
         page.asked = "stored" => log = object \/ misread'
  PROVE  LInv'
<1> USE DEF LInv
<1> DEFINE n == lines.written
           next == page.text \o SubSeq(log, Len(page.text) + 1, Len(log))
<1>1. /\ n \in Nat /\ page \in Page /\ page.text \in Seq(1 .. n) /\ log \in Seq(1 .. n)
      /\ lines.flushed \in Nat /\ lines.flushed <= n /\ lines.reported <= n
  BY DEF LogFits, Page
<1>2. /\ next \in Seq(1 .. n)
      /\ Beginning(page.text, n) /\ Beginning(log, n) => Beginning(next, n)
      /\ Beginning(page.text, n) /\ log = Upto(n) => next = Upto(n)
      /\ page.text = Upto(n) /\ Beginning(log, n) => next = Upto(n)
  BY <1>1, ReadsOn
<1>3. ~missed => Beginning(page.text, n) /\ Beginning(log, n)
  <2>1. Len(live) \in Nat
    BY LenProperties DEF LogFits
  <2> QED
    BY <1>1, <2>1 DEF InTurn, Beginning
<1>4. page' = [page EXCEPT !.text = next, !.asked = "no", !.done = @ \/ Complete(page.asked),
                           !.due = ~Complete(page.asked) /\ page.active]
  BY DEF Read, Offset
<1> HIDE DEF next
<1>5. /\ page' \in Page /\ page'.text = next /\ page'.asked = "no"
      /\ page'.done => page.done \/ page.asked \in {"stored", "finished"}
  BY <1>1, <1>2, <1>4 DEF Page, Complete
<1>6. Told'
  BY <1>5 DEF Told, Ended
<1>7. CompleteIsWhole'
  <2> SUFFICES ASSUME page'.done, build.by = "worker", build.key, ~missed, ~misread'
               PROVE  page'.text = Upto(lines.reported)
    BY DEF CompleteIsWhole, Upto
  <2>1. lines.reported = n /\ object = Upto(n)
    BY DEF ReportStored
  <2>2. CASE page.done
    BY <1>2, <1>3, <1>5, <2>1, <2>2 DEF CompleteIsWhole
  <2>3. CASE page.asked = "stored"
    BY <1>2, <1>3, <1>5, <2>1, <2>3
  <2>4. CASE page.asked = "finished"
    BY <2>4 DEF Told
  <2> QED
    BY <1>5, <2>2, <2>3, <2>4
<1> QED
  BY <1>2, <1>3, <1>5, <1>6, <1>7, PageKeepsLog

LEMMA AnswerKeepsLog ==
  ASSUME LInv, Answer \/ AnswerLive
  PROVE  LInv'
<1>1. CASE Answer
  <2>1. UNCHANGED <<build, worker, lines, live, late, object, missed, misread, faults>> /\ page.asked # "no"
    BY <1>1 DEF Answer, row, logs
  <2>2. misread' \in BOOLEAN /\ faults' \in 0 .. MaxFaults /\ (misread => misread')
    BY <2>1 DEF LInv, LogFits
  <2>3. PICK log \in {live, object} : Read(log) /\ (page.asked = "stored" => log = object)
    BY <1>1 DEF Answer
  <2> QED
    BY <2>1, <2>2, <2>3, ReadKeepsLog
<1>2. CASE AnswerLive
  <2>1. UNCHANGED <<build, worker, lines, live, late, object, missed>> /\ page.asked # "no"
        /\ misread' = TRUE /\ Read(live)
    BY <1>2 DEF AnswerLive, row, logs
  <2>2. faults' \in 0 .. MaxFaults
    BY <1>2, FaultsFit DEF AnswerLive, LInv
  <2>3. misread' \in BOOLEAN /\ misread'
    BY <2>1, Zenon
  <2> QED
    BY <2>1, <2>2, <2>3, ReadKeepsLog
<1> QED
  BY <1>1, <1>2

LEMMA OthersKeepLog ==
  ASSUME VInv, LInv,
         \/ Source \/ Create \/ Look \/ Control \/ Kill \/ Extract \/ RemoveBox \/ Deliver \/ Crash
         \/ RunSteps \/ CopyDist \/ WriteResult \/ Exits \/ Breaks
         \/ Tick \/ RequestCancel \/ LoadOverdue \/ CleanupOrphans \/ UNCHANGED vars
  PROVE  LInv'
<1>1. /\ UNCHANGED <<lines, live, late, object, page, missed, misread>>
      /\ NoFault \/ Spend
      /\ build' = build \/ build' = [build EXCEPT !.cancel = TRUE]
      /\ worker.at \in {"done", "dead"} => worker' = worker
  BY DEF Source, Create, Look, Control, Kill, Extract, RemoveBox, Deliver, Crash,
         RunSteps, CopyDist, WriteResult, Exits, Breaks, Ends, InBox,
         Tick, RequestCancel, LoadOverdue, CleanupOrphans, vars, logs, row, NoFault
<1>2. faults' \in 0 .. MaxFaults
  BY <1>1, FaultsFit DEF LInv
<1>3. build'.status = build.status /\ build'.by = build.by /\ build'.key = build.key
  <2>1. build \in BuildRow
    BY DEF VInv, RecordsFit
  <2> QED
    BY <1>1, <2>1 DEF BuildRow
<1> QED
  BY <1>1, <1>2, <1>3, LogStays

LEMMA LogStep ==
  ASSUME VInv, LInv, [Next]_vars
  PROVE  LInv'
BY LinesKeepLog, CallFinishKeepsLog, FailOverdueKeepsLog, LiveExpiresKeepsLog, AskKeepsLog,
   AnswerKeepsLog,
   OthersKeepLog
   DEF Next, Work, Show, Keep
-----------------------------------------------------------------------------
LEMMA RunTypesFollow == RunInv => TypeOK
<1> SUFFICES ASSUME VInv, LInv PROVE TypeOK
  BY DEF RunInv
<1>1. /\ build \in BuildRow /\ worker \in Worker /\ box \in Box /\ page \in Page
      /\ clock \in 0 .. 2 /\ overdue \in BOOLEAN /\ delivered \in {"nothing", "cut", "whole"}
  BY DEF VInv, RecordsFit, LInv, LogFits
<1>2. /\ build.status \in Finished \cup {"RUNNING"} /\ build.code \in AllCodes
      /\ worker.code \in AllCodes /\ worker.took \in {"nothing", "cut", "whole"}
      /\ box.code \in AllCodes \cup {"unknown"} /\ page.text \in Seq(1 .. lines.written)
  BY <1>1 DEF BuildRow, Worker, Box, Page, AllCodes
<1>3. lines.written \in 0 .. MaxLines /\ lines.flushed \in 0 .. lines.written /\ faults \in 0 .. MaxFaults
  BY DEF LInv, LogFits
<1>4. ASSUME NEW s \in Seq(1 .. lines.written) PROVE Range(s) \subseteq 1 .. lines.written
  <2>1. \A i \in DOMAIN s : s[i] \in 1 .. lines.written
    BY LenProperties, ElementOfSeq
  <2> QED
    BY <2>1 DEF Range
<1>5. Range(live) \cup Range(late) \cup Range(object) \cup Range(page.text) \subseteq 1 .. lines.written
  <2>1. live \in Seq(1 .. lines.written) /\ late \in Seq(1 .. lines.written) /\ object \in Seq(1 .. lines.written)
    BY DEF LInv, LogFits
  <2> QED
    BY <1>2, <1>4, <2>1
<1> QED
  BY <1>1, <1>2, <1>3, <1>5 DEF TypeOK

(* The inductive invariant of one build, its verdict and its log.          *)
THEOREM BuildRunInvariant == Spec => []RunInv
<1>1. Init => RunInv
  BY VerdictInit, LogInit DEF RunInv
<1>2. RunInv /\ [Next]_vars => RunInv'
  BY VerdictStep, LogStep DEF RunInv
<1> QED
  BY <1>1, <1>2, PTL DEF Spec

(* The build, its worker, container, log and page are well typed; the log  *)
(* never grows past its limit, and only lines that were written are shown. *)
THEOREM RunTypesHold == Spec => []TypeOK
BY BuildRunInvariant, RunTypesFollow, PTL

(* SUCCESS only with all files delivered, out of a container nobody        *)
(* killed; a cancel or a time-out for its reason, with nothing delivered   *)
(* (run_container, execute).                                               *)
THEOREM VerdictIsHonest == Spec => []VerdictHonest
<1>1. RunInv => VerdictHonest
  BY DEF RunInv, VInv
<1> QED
  BY <1>1, BuildRunInvariant, PTL

(* The page shows a beginning of the log, and all of it once it was told   *)
(* that it is complete and has read the worker's own report.               *)
THEOREM PageFollowsLog == Spec => []PageShowsLog
<1>1. RunInv => PageShowsLog
  <2> SUFFICES ASSUME LInv PROVE ShownInOrder /\ CompleteIsWhole
    BY DEF RunInv, PageShowsLog
  <2>1. page.text \in Seq(1 .. lines.written) /\ lines.written \in Nat
    BY DEF LInv, LogFits, Page
  <2>2. ShownInOrder
    BY <2>1, BeginningIsPrefix DEF LInv, InTurn, ShownInOrder
  <2> QED
    BY <2>2 DEF LInv
<1> QED
  BY <1>1, BuildRunInvariant, PTL
=============================================================================
