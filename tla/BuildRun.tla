------------------------------ MODULE BuildRun ------------------------------
(***************************************************************************)
(* One build that was handed to a worker: the worker's loop around the     *)
(* container, the script inside, the thread that pumps the log, the live   *)
(* log in Redis and the stored one, the maintenance job, and a page that   *)
(* shows the log meanwhile.                                                *)
(*                                                                         *)
(* The log is its lines, numbered as the worker writes them; an offset is  *)
(* a number of lines.                                                      *)
(***************************************************************************)
EXTENDS BuildScript, SequencesExt

CONSTANTS
  MaxLines,  (* bound: lines until max_log_bytes; the last one is cut      *)
  LiveMax,   (* lines beyond which Redis takes no more (LIVE_LOG_MAX_BYTES) *)
  MaxFaults, (* bound: lost calls, failed stores, failed calls of Docker,  *)
             (* crashes                                                    *)
  Kinds,     (* bound: values of publish_package                           *)
  Failures   (* bound: the ways in which checks and steps fail             *)

ASSUME BuildRunAssumption ==
  /\ Kinds \subseteq BOOLEAN /\ Failures \subseteq Codes
  /\ MaxLines \in Nat \ {0} /\ LiveMax \in Nat /\ MaxFaults \in Nat

VARIABLES
  release,   (* publish_package                                            *)
  clock,     (* since the start: 0, past timeout_seconds, older than       *)
             (* requeue_stale or cleanup_orphans allow                     *)
  build,     (* the row, and the cancel key; by is history                 *)
  object,    (* the log in MinIO                                           *)
  overdue,   (* requeue_stale has loaded the build and not finished it     *)
  worker,    (* execute()                                                  *)
  box,       (* the container and its script                               *)
  delivered, (* what publish or upload_artifacts has taken                 *)
  lines,     (* lines written, flushed, and in the report                  *)
  live, late, (* the list in Redis; a chunk whose request was given up     *)
  page,      (* useLiveLog                                                 *)
  missed,    (* history: a chunk was lost or came late                     *)
  misread,   (* history: the stored log could not be read                  *)
  faults

logs == <<lines, live, late, missed>>
row == <<build, object, overdue, delivered>>
vars == <<release, clock, row, worker, box, logs, page, misread, faults>>

Finished == {"SUCCESS", "FAILED", "CANCELLED"}
Ended == build.status \in Finished
Upto(n) == [i \in 1 .. n |-> i]
NoBox == [state |-> "none", code |-> "unknown", out |-> "nothing"]

Init ==
  /\ release \in Kinds
  /\ clock = 0
  /\ build = [status |-> "RUNNING", code |-> "none", key |-> FALSE, cancel |-> FALSE, by |-> "none"]
  /\ object = <<>> /\ overdue = FALSE /\ delivered = "nothing"
  /\ worker = [at |-> "source", killed |-> "no", code |-> "none", took |-> "nothing", pumps |-> FALSE]
  /\ box = NoBox
  /\ lines = [written |-> 0, flushed |-> 0, reported |-> 0]
  /\ live = <<>> /\ late = <<>>
  /\ page = [text |-> <<>>, active |-> TRUE, due |-> TRUE, asked |-> "no", done |-> FALSE, dropped |-> FALSE]
  /\ missed = FALSE /\ misread = FALSE /\ faults = 0

Spend == faults < MaxFaults /\ faults' = faults + 1
NoFault == UNCHANGED faults

-----------------------------------------------------------------------------
(* The log of the worker.  Mutant: nothing is cut.                         *)
WritesPast(n) == n + 1

(* BuildLog.write                                                          *)
Written(n) == IF n < MaxLines THEN n + 1 ELSE n

(* append_log                                                              *)
Appended(list, chunk) == IF Len(list) > LiveMax THEN list ELSE list \o chunk

(* BuildLog.flush, once n lines are written: the chunk is sent once; the   *)
(* request may be lost, or given up and served later.                      *)
Flush(n) ==
  LET chunk == SubSeq(Upto(n), lines.flushed + 1, n) IN
  /\ lines' = [lines EXCEPT !.written = n, !.flushed = n]
  /\ \/ live' = Appended(live, chunk) /\ UNCHANGED <<late, missed>> /\ NoFault
     \/ /\ chunk # <<>> /\ Spend /\ missed' = TRUE /\ UNCHANGED live
        /\ \/ UNCHANGED late
           \/ late = <<>> /\ late' = chunk

LateAppend ==
  /\ late # <<>>
  /\ live' = Appended(live, late) /\ late' = <<>>
  /\ UNCHANGED <<release, clock, row, worker, box, lines, page, missed, misread, faults>>

(* pump: a thread of its own, which may outlive the join.                  *)
Pump ==
  /\ worker.pumps
  /\ lines' = [lines EXCEPT !.written = Written(@)]
  /\ UNCHANGED <<release, clock, row, worker, box, live, late, page, missed, misread, faults>>

-----------------------------------------------------------------------------
(* The container: the steps of the script, then the files, then the result. *)
InBox == UNCHANGED <<release, clock, row, worker, logs, page, misread, faults>>

RunSteps ==
  /\ box.state = "running" /\ box.code = "unknown"
  /\ \E code \in run_build(release) \cap (Failures \cup {"none"}) : box' = [box EXCEPT !.code = code]
  /\ InBox

CopyDist ==
  /\ box.state = "running" /\ box.code = "none"
  /\ \/ box.out = "nothing" /\ box' = [box EXCEPT !.out = "cut"]
     \/ box.out = "cut" /\ box' = [box EXCEPT !.out = "dist"]
  /\ InBox

WriteResult ==
  /\ box.state = "running" /\ box.out # "result"
  /\ box.code \notin {"unknown", "none"} \/ box.out = "dist"
  /\ box' = [box EXCEPT !.out = "result"]
  /\ InBox

Ends == box' = [box EXCEPT !.state = "exited"] /\ InBox
Exits == box.state = "running" /\ box.out = "result" /\ Ends

(* It is out of memory, or the script raises outside its steps.            *)
Breaks == box.state = "running" /\ box.out # "result" /\ Ends

-----------------------------------------------------------------------------
(* The worker.                                                             *)
Go(at) == worker' = [worker EXCEPT !.at = at]
Fails(code) == worker' = [worker EXCEPT !.at = "report", !.code = code]

Source ==
  /\ worker.at = "source"
  /\ \E o \in validate_source(release) \cap (Passes \cup Failures) : IF o = "SUCCESS" THEN Go("create") ELSE Fails(o)
  /\ UNCHANGED <<release, clock, row, box, logs, page, misread, faults>>

(* What Docker refuses in run_container is a RUNNER_ERROR, once the         *)
(* container is removed.                                                   *)
Raises == worker' = [worker EXCEPT !.at = "remove", !.code = "RUNNER_ERROR"]

(* No container is created, or one that does not start.                    *)
Create ==
  /\ worker.at = "create"
  /\ \/ /\ worker' = [worker EXCEPT !.at = "flush", !.pumps = TRUE]
        /\ box' = [NoBox EXCEPT !.state = "running"]
     \/ Fails("RUNNER_ERROR") /\ UNCHANGED box
     \/ Raises /\ box' = [NoBox EXCEPT !.state = "exited"]
  /\ UNCHANGED <<release, clock, row, logs, page, misread, faults>>

FlushInLoop ==
  /\ worker.at \in {"flush", "drain"}
  /\ Flush(lines.written)
  /\ Go(IF worker.at = "flush" THEN "look" ELSE "extract")
  /\ UNCHANGED <<release, clock, row, box, page, misread>>

Kills(why) == worker' = [worker EXCEPT !.at = "kill", !.killed = why]

(* The status is read: the container may end before it is killed.  Not     *)
(* every round asks for a cancel.                                          *)
Look ==
  /\ worker.at = "look"
  /\ \/ box.state = "exited" /\ Go("drain") /\ NoFault
     \/ box.state = "running" /\ clock > 0 /\ Kills("timeout") /\ NoFault
     \/ box.state = "running" /\ clock = 0 /\ (Go("flush") \/ Go("control")) /\ NoFault
     \/ Raises /\ IF box.state = "none" THEN NoFault ELSE Spend
  /\ UNCHANGED <<release, clock, row, box, logs, page, misread>>

(* A call that fails is no cancel.                                         *)
Control ==
  /\ worker.at = "control"
  /\ Go("flush") \/ (build.cancel /\ Kills("cancel"))
  /\ UNCHANGED <<release, clock, row, box, logs, page, misread, faults>>

(* Docker kills what runs and refuses what has ended.                      *)
Kill ==
  /\ worker.at = "kill"
  /\ \/ box.state = "running" /\ Go("drain") /\ box' = [box EXCEPT !.state = "exited"] /\ NoFault
     \/ box.state # "running" /\ Raises /\ UNCHANGED box /\ NoFault
     \/ box.state = "running" /\ Raises /\ Spend /\ box' \in {box, [box EXCEPT !.state = "exited"]}
  /\ UNCHANGED <<release, clock, row, logs, page, misread>>

(* _extract_out: the files are whole once they are copied.                 *)
Took == IF worker.killed # "no" THEN "nothing"
        ELSE CASE box.out \in {"dist", "result"} /\ box.code = "none" -> "whole"
               [] box.out = "cut" -> "cut"
               [] OTHER -> "nothing"

(* Mutant: a result counts, that of a killed container too.                *)
VerdictByResult(took) ==
  CASE box.out = "result" -> box.code
    [] worker.killed = "cancel" -> "CANCELLED"
    [] worker.killed = "timeout" -> "BUILD_TIMEOUT"
    [] OTHER -> "RUNNER_ERROR"

(* What execute makes of the result; "none" goes on to the delivery.       *)
Verdict(took) ==
  CASE worker.killed = "cancel" -> "CANCELLED"
    [] worker.killed = "timeout" -> "BUILD_TIMEOUT"
    [] worker.killed = "no" /\ box.out # "result" -> "RUNNER_ERROR"
    [] worker.killed = "no" /\ box.out = "result" /\ box.code # "none" -> box.code
    [] OTHER -> IF took = "nothing" THEN "BUILD_FAILED" ELSE "none"

Extract ==
  /\ worker.at = "extract"
  /\ \/ /\ worker' = [worker EXCEPT !.took = Took, !.code = Verdict(Took), !.at = "remove"]
        /\ NoFault
     \/ worker.killed = "no" /\ Raises /\ Spend
  /\ UNCHANGED <<release, clock, row, box, logs, page, misread>>

(* The container is removed whatever happened.  What Docker answers with   *)
(* an error is logged, a call without an answer ends the build.            *)
Judged == Go(IF worker.code = "none" THEN "deliver" ELSE "report")
RemoveBox ==
  /\ worker.at = "remove"
  /\ \/ Judged /\ box' = NoBox /\ NoFault
     \/ Judged /\ UNCHANGED box /\ Spend
     \/ Fails("RUNNER_ERROR") /\ box' \in {box, NoBox} /\ Spend
  /\ UNCHANGED <<release, clock, row, logs, page, misread>>

(* publish or upload_artifacts: taken while the build is RUNNING, unless   *)
(* refused for what it is; the answer may be lost.                         *)
Deliver ==
  /\ worker.at = "deliver"
  /\ \/ /\ build.status = "RUNNING" /\ delivered' = worker.took
        /\ \/ Go("report") /\ NoFault
           \/ Fails("RUNNER_ERROR") /\ Spend
     \/ /\ \E code \in {"RUNNER_ERROR"} \cup IF release THEN {"PACKAGE_VERSION_EXISTS"} ELSE {} : Fails(code)
        /\ NoFault /\ UNCHANGED delivered
  /\ UNCHANGED <<release, clock, build, object, overdue, box, logs, page, misread>>

Report ==
  /\ worker.at = "report"
  /\ Flush(Written(lines.written))
  /\ Go("finish")
  /\ UNCHANGED <<release, clock, row, box, page, misread>>

Outcome(code) == CASE code = "none" -> "SUCCESS"
                   [] code = "CANCELLED" -> "CANCELLED"
                   [] OTHER -> "FAILED"

(* The log finish_build stores.  Mutant: always the list in Redis.         *)
LiveOnly(reported) == live
FullLog(reported) == Upto(reported)

(* finish_build: the object is put and its key kept, or neither.           *)
Finish(status, code, log, by) ==
  /\ \/ /\ log # <<>> /\ NoFault
        /\ object' = log /\ build' = [build EXCEPT !.status = status, !.code = code, !.by = by, !.key = TRUE]
     \/ /\ IF log # <<>> THEN Spend ELSE NoFault
        /\ UNCHANGED object /\ build' = [build EXCEPT !.status = status, !.code = code, !.by = by]

(* A finished build is left as it is; the call may be lost.                *)
CallFinish ==
  /\ worker.at = "finish"
  /\ lines' = [lines EXCEPT !.reported = lines.written]
  /\ worker' = [worker EXCEPT !.at = "done", !.pumps = FALSE]
  /\ \/ ~Ended /\ Finish(Outcome(worker.code), worker.code, FullLog(lines.written), "worker")
     \/ Ended /\ UNCHANGED <<build, object>> /\ NoFault
     \/ Spend /\ UNCHANGED <<build, object>>
  /\ UNCHANGED <<release, clock, overdue, delivered, box, live, late, missed, page, misread>>

Crash ==
  /\ worker.at \notin {"done", "dead"}
  /\ Spend
  /\ worker' = [worker EXCEPT !.at = "dead", !.pumps = FALSE]
  /\ UNCHANGED <<release, clock, row, box, logs, page, misread>>

-----------------------------------------------------------------------------
(* Time, the administrator of the build, the maintenance job.              *)
Tick ==
  /\ clock < 2 /\ clock' = clock + 1
  /\ UNCHANGED <<release, row, worker, box, logs, page, misread, faults>>

RequestCancel ==
  /\ build.status = "RUNNING" /\ ~build.cancel
  /\ build' = [build EXCEPT !.cancel = TRUE]
  /\ UNCHANGED <<release, clock, object, overdue, delivered, worker, box, logs, page, misread, faults>>

(* requeue_stale finishes the build it has loaded, whatever became of it.  *)
LoadOverdue ==
  /\ clock > 1 /\ build.status = "RUNNING" /\ ~overdue
  /\ overdue' = TRUE
  /\ UNCHANGED <<release, clock, build, object, delivered, worker, box, logs, page, misread, faults>>

FailOverdue ==
  /\ overdue /\ overdue' = FALSE
  /\ Finish("FAILED", "RUNNER_ERROR", live, "maintenance")
  /\ UNCHANGED <<release, clock, delivered, worker, box, logs, page, misread>>

(* Mutant: only containers that have exited.                               *)
ExitedBoxes == box.state = "exited" /\ clock = 2
OldBoxes == box.state # "none" /\ clock = 2

CleanupOrphans ==
  /\ OldBoxes
  /\ box' = NoBox
  /\ UNCHANGED <<release, clock, row, worker, logs, page, misread, faults>>

LiveExpires ==
  /\ clock = 2 /\ worker.at \in {"done", "dead"} /\ live # <<>>
  /\ live' = <<>>
  /\ UNCHANGED <<release, clock, row, worker, box, lines, late, missed, page, misread, faults>>

-----------------------------------------------------------------------------
(* The page asks for the log from where it is, every two seconds while the *)
(* build is active, and once more when it learns that it is not.           *)
SeeStatus ==
  /\ page.active /\ Ended
  /\ page' = [page EXCEPT !.active = FALSE, !.due = TRUE, !.asked = "no"]
  /\ UNCHANGED <<release, clock, row, worker, box, logs, misread, faults>>

(* get_build_log reads the row, then the log.                              *)
Ask ==
  /\ page.due /\ page.asked = "no"
  /\ page' = [page EXCEPT !.asked = IF ~Ended THEN "running" ELSE IF build.key THEN "stored" ELSE "finished"]
  /\ UNCHANGED <<release, clock, row, worker, box, logs, misread, faults>>

(* Mutant: complete only with a stored log.                                *)
StoredOnly(asked) == asked = "stored"
Complete(asked) == asked # "running"

Offset(text) == Len(text)

(* read_log from the offset of the page.                                   *)
Read(log) ==
  page' = [page EXCEPT !.text = @ \o SubSeq(log, Offset(@) + 1, Len(log)),
                       !.asked = "no",
                       !.done = @ \/ Complete(page.asked),
                       !.due = ~Complete(page.asked) /\ page.active]

Answer ==
  /\ page.asked # "no"
  /\ Read(IF page.asked = "stored" THEN object ELSE live)
  /\ UNCHANGED <<release, clock, row, worker, box, logs, misread, faults>>

(* The stored log cannot be read: the list is read in its place.           *)
AnswerLive ==
  /\ page.asked = "stored" /\ Spend
  /\ Read(live) /\ misread' = TRUE
  /\ UNCHANGED <<release, clock, row, worker, box, logs>>

AnswerLost ==
  /\ page.asked # "no" /\ Spend
  /\ page' = [page EXCEPT !.asked = "no", !.due = page.active, !.dropped = @ \/ ~page.active]
  /\ UNCHANGED <<release, clock, row, worker, box, logs, misread>>

-----------------------------------------------------------------------------
Work ==
  \/ Source \/ Create \/ FlushInLoop \/ Look \/ Control \/ Kill \/ Extract \/ RemoveBox
  \/ Deliver \/ Report \/ CallFinish
Show == SeeStatus \/ Ask \/ Answer
Keep == LoadOverdue \/ FailOverdue \/ CleanupOrphans

Next ==
  \/ Work \/ Crash \/ Pump \/ LateAppend
  \/ RunSteps \/ CopyDist \/ WriteResult \/ Exits \/ Breaks
  \/ Tick \/ RequestCancel \/ Keep \/ LiveExpires
  \/ Show \/ AnswerLive \/ AnswerLost

Spec == Init /\ [][Next]_vars

(* Time passes, the worker that lives goes on, maintenance comes up again, *)
(* the page keeps its timers.  Nothing makes the container end.            *)
Fairness ==
  /\ WF_vars(Tick) /\ WF_vars(Work) /\ WF_vars(Show)
  /\ WF_vars(LoadOverdue) /\ WF_vars(FailOverdue) /\ WF_vars(CleanupOrphans)

FairSpec == Spec /\ Fairness

-----------------------------------------------------------------------------
(* Types; the log never grows past its limit, and no line is flushed that  *)
(* was not written.                                                        *)
AllCodes == Codes \cup {"none", "CANCELLED", "BUILD_TIMEOUT", "PACKAGE_VERSION_EXISTS", "RUNNER_ERROR"}
TypeOK ==
  /\ clock \in 0 .. 2 /\ overdue \in BOOLEAN
  /\ build.status \in Finished \cup {"RUNNING"} /\ build.code \in AllCodes
  /\ worker.code \in AllCodes /\ worker.took \in {"nothing", "cut", "whole"}
  /\ box.code \in AllCodes \cup {"unknown"}
  /\ delivered \in {"nothing", "cut", "whole"}
  /\ lines.written \in 0 .. MaxLines /\ lines.flushed \in 0 .. lines.written
  /\ Range(live) \cup Range(late) \cup Range(object) \cup Range(page.text) \subseteq 1 .. lines.written
  /\ faults \in 0 .. MaxFaults

(* The text on the page is always a beginning of the log, whichever mix of *)
(* the live and the stored log it was read from, as long as every chunk    *)
(* reached the API in its turn (read_log, append_log, useLiveLog).         *)
ShownInOrder == ~missed => IsPrefix(page.text, Upto(lines.written))

(* A page that was told the log is complete shows all of it, whatever the  *)
(* live log has dropped, if the worker's own report ended the build and    *)
(* was stored and read (read_log, finish_build).                           *)
CompleteIsWhole ==
  page.done /\ build.by = "worker" /\ build.key /\ ~missed /\ ~misread
  => page.text = Upto(lines.reported)

(* The page tells no other story than the log: both of the above.          *)
PageShowsLog == ShownInOrder /\ CompleteIsWhole

(* A build is SUCCESS only with all its files delivered, from a container  *)
(* that nobody killed, and of one that was to be killed nothing is         *)
(* delivered, even if it had written a result; CANCELLED only on request,  *)
(* and past its time only once the time is up - whenever the kill, the     *)
(* script's copying, its end and the maintenance job fall (run_container,  *)
(* _extract_out, execute).                                                 *)
VerdictHonest ==
  /\ build.status = "SUCCESS" => delivered = "whole" /\ worker.killed = "no"
  /\ worker.killed # "no" => delivered = "nothing"
  /\ build.status = "CANCELLED" => build.cancel /\ worker.killed = "cancel"
  /\ build.code = "BUILD_TIMEOUT" => clock > 0 /\ worker.killed = "timeout"

(* Every container goes, the one whose worker died too (run_container,     *)
(* cleanup_orphans).                                                       *)
ContainerGoes == box.state # "none" ~> box.state = "none"

(* The page of a build that has ended is told so with the log, unless the  *)
(* one answer it asks for after it knows is lost (useLiveLog, read_log).   *)
PageEnds == Ended ~> page.done \/ page.dropped
=============================================================================
