------------------------------ MODULE PushEvents ------------------------------
(***************************************************************************)
(* From a push to the builds it asks for: post-receive sends an event to   *)
(* the backend or leaves it in the spool directory, toolhub-spool-flush    *)
(* sends the spooled events again, handle_git_event creates the builds.    *)
(* Users ask for builds too.  One project.                                 *)
(*                                                                         *)
(* A request is two steps: it reads the project and, later, locks the      *)
(* project's row, inserts and commits.  The lock does not renew the        *)
(* project the session has read, so build_counter is the one of the first  *)
(* step; what keeps the numbers apart is the unique constraint.            *)
(***************************************************************************)
EXTENDS Naturals, FiniteSets, FiniteSetsExt

CONSTANTS
  Events,     (* pushes; an event is its event_id, and ids are ordered     *)
  Manual,     (* requests for a manual build                               *)
  Size,       (* builds each of them asks for: branches and release tags   *)
  OnDefault,  (* events that move the default branch                       *)
  Poison,     (* events whose rows PostgreSQL refuses, whenever they come: *)
              (* a ref name the schema admits and the column does not hold *)
  Handlers,   (* requests the API serves at the same time                  *)
  Nobody,
  MaxFaults   (* bound: time-outs, errors of disk and network, crashes     *)

Sources == Events \cup Manual

ASSUME PushAssumption ==
  /\ Events \subseteq Nat /\ IsFiniteSet(Events)
  /\ Events \cap Manual = {}
  /\ Size \in [Sources -> Nat] /\ \A m \in Manual : Size[m] = 1
  /\ OnDefault \subseteq Events
  /\ Poison \subseteq {e \in Events : Size[e] > 0}
  /\ Nobody \notin Sources
  /\ MaxFaults \in Nat

VARIABLES
  hook,      (* post-receive of each push                                  *)
  spool,     (* event files in TOOLHUB_SPOOL_DIR                           *)
  flusher,   (* toolhub-spool-flush: whether it waits, what is left of the *)
             (* files it listed                                            *)
  serving,   (* the requests the API is serving                            *)
  manual,    (* what became of each manual request                         *)
  recorded,  (* git_push_events                                            *)
  builds,    (* builds of the project: number, source                      *)
  counter,   (* projects.build_counter                                     *)
  latest,    (* projects.latest_commit_sha, as the event that pushed it    *)
  tip,       (* the default branch in the repository, likewise             *)
  faults

gitVars == <<hook, spool, flusher, tip>>
dbVars  == <<recorded, builds, counter, latest>>
eventVars == <<gitVars, dbVars, serving, manual, faults>>

HookPlaces == {"none", "sending", "waiting", "failed", "done", "lost"}
Callers == {"hook", "flush", "user", "gone"}
Free == [pc |-> "free", source |-> Nobody, caller |-> "gone", seen |-> 0]

EventsInit ==
  /\ hook = [e \in Events |-> "none"]
  /\ spool = {}
  /\ flusher = [pc |-> "idle", todo |-> {}]
  /\ serving = [h \in Handlers |-> Free]
  /\ manual = [m \in Manual |-> "none"]
  /\ recorded = {}
  /\ builds = {}
  /\ counter = 0
  /\ latest = Nobody
  /\ tip = Nobody
  /\ faults = 0

Spend == faults < MaxFaults /\ faults' = faults + 1

-----------------------------------------------------------------------------
(* Requests on their way in and answers on their way out.                  *)

Arrive(h, s, caller) ==
  /\ serving[h].pc = "free"
  /\ serving' = [serving EXCEPT ![h] =
                   [pc |-> "new", source |-> s, caller |-> caller, seen |-> 0]]

(* The caller stops waiting; the request goes on.                          *)
Abandon(s, caller) ==
  serving' = [h \in Handlers |->
                IF serving[h].source = s /\ serving[h].caller = caller
                THEN [serving[h] EXCEPT !.caller = "gone"] ELSE serving[h]]

(* What the hook does with an answer: 200, or anything else.               *)
HookAnswer(ok) == IF ok THEN "done" ELSE "failed"

(* Mutant: the file is removed whatever the answer was.                    *)
FlushAnyAnswer(e, ok) ==
  /\ flusher' = [pc |-> "listed", todo |-> flusher.todo \ {e}]
  /\ spool' = spool \ {e}

(* Mutant: the file stays when the event was accepted.                     *)
FlushKeepsFile(e, ok) ==
  /\ flusher' = IF ok THEN [pc |-> "listed", todo |-> flusher.todo \ {e}]
                      ELSE [pc |-> "idle", todo |-> {}]
  /\ UNCHANGED spool

(* What the flusher does with one: remove the file, or end this pass.  It  *)
(* removes it after 400, 404 and 422 too, which a push that pre-receive    *)
(* let through does not get while its project exists.                      *)
FlushAnswer(e, ok) ==
  IF ok THEN /\ flusher' = [pc |-> "listed", todo |-> flusher.todo \ {e}]
             /\ spool' = spool \ {e}
        ELSE /\ flusher' = [pc |-> "idle", todo |-> {}]
             /\ UNCHANGED spool

Reply(h, ok) ==
  LET s == serving[h].source
      caller == serving[h].caller
  IN  /\ serving' = [serving EXCEPT ![h] = Free]
      /\ hook' = IF caller = "hook" THEN [hook EXCEPT ![s] = HookAnswer(ok)] ELSE hook
      /\ manual' = IF caller = "user" THEN [manual EXCEPT ![s] = HookAnswer(ok)] ELSE manual
      /\ IF caller = "flush" THEN FlushAnswer(s, ok) ELSE UNCHANGED <<flusher, spool>>

-----------------------------------------------------------------------------
(* post-receive.                                                           *)

(* Git has updated the refs and runs the hook.                             *)
Push(e) ==
  /\ hook[e] = "none"
  /\ hook' = [hook EXCEPT ![e] = "sending"]
  /\ tip' = IF e \in OnDefault THEN e ELSE tip
  /\ UNCHANGED <<spool, flusher, dbVars, serving, manual, faults>>

HookSend(e, h) ==
  /\ hook[e] = "sending"
  /\ hook' = [hook EXCEPT ![e] = "waiting"]
  /\ Arrive(h, e, "hook")
  /\ UNCHANGED <<spool, flusher, tip, dbVars, manual, faults>>

(* The API cannot be reached, or four seconds have passed.                 *)
HookFails(e) ==
  /\ hook[e] \in {"sending", "waiting"}
  /\ Spend
  /\ hook' = [hook EXCEPT ![e] = "failed"]
  /\ Abandon(e, "hook")
  /\ UNCHANGED <<spool, flusher, tip, dbVars, manual>>

(* Written under another name and renamed, so the flusher sees whole files. *)
HookSpools(e) ==
  /\ hook[e] = "failed"
  /\ hook' = [hook EXCEPT ![e] = "done"]
  /\ spool' = spool \cup {e}
  /\ UNCHANGED <<flusher, tip, dbVars, serving, manual, faults>>

(* The file cannot be written, which the user is told, or the hook is      *)
(* killed.                                                                 *)
HookLoses(e) ==
  /\ hook[e] \in {"sending", "waiting", "failed"}
  /\ Spend
  /\ hook' = [hook EXCEPT ![e] = "lost"]
  /\ Abandon(e, "hook")
  /\ UNCHANGED <<spool, flusher, tip, dbVars, manual>>

-----------------------------------------------------------------------------
(* toolhub-spool-flush: the files there are, in the order of their names.  *)

FlushList ==
  /\ flusher.pc = "idle"
  /\ spool # {}
  /\ flusher' = [pc |-> "listed", todo |-> spool]
  /\ UNCHANGED <<hook, spool, tip, dbVars, serving, manual, faults>>

FlushSend(h) ==
  /\ flusher.pc = "listed"
  /\ flusher.todo # {}
  /\ Arrive(h, Min(flusher.todo), "flush")
  /\ flusher' = [flusher EXCEPT !.pc = "waiting"]
  /\ UNCHANGED <<hook, spool, tip, dbVars, manual, faults>>

FlushEnds ==
  /\ flusher.pc = "listed"
  /\ flusher.todo = {}
  /\ flusher' = [flusher EXCEPT !.pc = "idle"]
  /\ UNCHANGED <<hook, spool, tip, dbVars, serving, manual, faults>>

(* The API cannot be reached, ten seconds have passed, or the process is   *)
(* started again.                                                          *)
FlushFails ==
  /\ flusher.pc \in {"listed", "waiting"}
  /\ flusher.todo # {}
  /\ Spend
  /\ Abandon(Min(flusher.todo), "flush")
  /\ flusher' = [pc |-> "idle", todo |-> {}]
  /\ UNCHANGED <<hook, spool, tip, dbVars, manual>>

-----------------------------------------------------------------------------
(* The backend.                                                            *)

ManualAsk(m, h) ==
  /\ manual[m] = "none"
  /\ manual' = [manual EXCEPT ![m] = "waiting"]
  /\ Arrive(h, m, "user")
  /\ UNCHANGED <<gitVars, dbVars, faults>>

(* An event that is known is answered with 200 and no builds.              *)
Known(h) ==
  /\ serving[h].pc = "new"
  /\ serving[h].source \in recorded
  /\ Reply(h, TRUE)
  /\ UNCHANGED <<tip, dbVars, faults>>

Load(h) ==
  /\ serving[h].pc = "new"
  /\ serving[h].source \notin recorded
  /\ serving' = [serving EXCEPT ![h].pc = "loaded", ![h].seen = counter]
  /\ UNCHANGED <<gitVars, dbVars, manual, faults>>

Numbers == {b.number : b \in builds}
First(h) == serving[h].seen + 1
Last(h)  == serving[h].seen + Size[serving[h].source]

(* Mutant: no unique constraint on the number of a build.                  *)
InsertableTwice(h) ==
  /\ serving[h].source \notin Poison
  /\ serving[h].source \notin recorded

(* The primary key of git_push_events, the unique constraint on the number *)
(* of a build, the lengths of columns.                                     *)
Insertable(h) ==
  /\ serving[h].source \notin Poison
  /\ serving[h].source \notin recorded
  /\ First(h)..Last(h) \cap Numbers = {}

(* Mutant: manual requests leave a row too.                                *)
RecordedAlways(s) == recorded \cup {s}

Recorded(s) == IF s \in Events THEN recorded \cup {s} ELSE recorded

(* create_build for each update, with the project locked to the commit.    *)
Create(h) ==
  LET s == serving[h].source IN
  /\ serving[h].pc = "loaded"
  /\ Insertable(h)
  /\ recorded' = Recorded(s)
  /\ builds' = builds \cup [number : First(h)..Last(h), source : {s}]
  /\ counter' = IF Size[s] > 0 THEN Last(h) ELSE counter
  /\ latest' = IF s \in OnDefault THEN s ELSE latest
  /\ Reply(h, TRUE)
  /\ UNCHANGED <<tip, faults>>

(* IntegrityError or DataError: 500, nothing has changed.                  *)
CreateFails(h) ==
  /\ serving[h].pc = "loaded"
  /\ ~Insertable(h)
  /\ Reply(h, FALSE)
  /\ UNCHANGED <<tip, dbVars, faults>>

(* The API dies with the request, or answers 500 for any other reason.     *)
RequestDies(h) ==
  /\ serving[h].pc # "free"
  /\ Spend
  /\ Reply(h, FALSE)
  /\ UNCHANGED <<tip, dbVars>>

-----------------------------------------------------------------------------
HookStep(e) == HookSpools(e) \/ \E h \in Handlers : HookSend(e, h)
FlushStep == FlushList \/ FlushEnds \/ \E h \in Handlers : FlushSend(h)
RequestStep(h) == Known(h) \/ Load(h) \/ Create(h) \/ CreateFails(h)

EventsNext ==
  \/ \E e \in Events : Push(e) \/ HookStep(e) \/ HookFails(e) \/ HookLoses(e)
  \/ FlushStep \/ FlushFails
  \/ \E m \in Manual, h \in Handlers : ManualAsk(m, h)
  \/ \E h \in Handlers : RequestStep(h) \/ RequestDies(h)

EventsSpec == EventsInit /\ [][EventsNext]_eventVars

(* Every process goes on, and a request that comes again and again for a   *)
(* thread of the API gets one: SF.                                         *)
FairSpec ==
  /\ EventsSpec
  /\ \A e \in Events : SF_eventVars(HookStep(e))
  /\ SF_eventVars(FlushStep)
  /\ \A h \in Handlers : WF_eventVars(RequestStep(h))

-----------------------------------------------------------------------------
(* Properties.                                                             *)

EventsTypeOK ==
  /\ hook \in [Events -> HookPlaces]
  /\ spool \subseteq Events
  /\ flusher \in [pc : {"idle", "listed", "waiting"}, todo : SUBSET Events]
  /\ serving \in [Handlers -> [pc : {"free", "new", "loaded"}, source : Sources \cup {Nobody},
                               caller : Callers, seen : Nat]]
  /\ manual \in [Manual -> {"none", "waiting", "done", "failed"}]
  /\ recorded \subseteq Events
  /\ builds \subseteq [number : Nat, source : Sources]
  /\ counter \in Nat
  /\ latest \in Events \cup {Nobody}
  /\ tip \in Events \cup {Nobody}
  /\ faults \in Nat

(* A push whose hook came to its end is recorded with its builds, or its   *)
(* event is still in the spool, whatever was lost, retried, answered too   *)
(* late or refused in between.                                             *)
SpooledUntilRecorded == \A e \in Events : hook[e] = "done" => e \in recorded \cup spool

(* Refinement: the builds of the project are a ledger.                     *)
SourceOf(n) == (CHOOSE b \in builds : b.number = n).source

Ledger == INSTANCE BuildLedger WITH ledger <- [n \in 1..counter |-> SourceOf(n)]

LedgerSpec == Ledger!Spec

(* A push is settled: its hook ends and its event leaves the spool, unless *)
(* the hook itself was lost.  The flusher goes by the names of the files,  *)
(* so this is certain for the events before the first that is refused.     *)
Settled(e) == hook[e] = "lost" \/ (hook[e] = "done" /\ e \notin spool)

EveryPushSettles ==
  \A e \in Events : (\A p \in Poison : e < p) => hook[e] = "sending" ~> Settled(e)
=============================================================================
