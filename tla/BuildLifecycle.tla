--------------------------- MODULE BuildLifecycle ---------------------------
(***************************************************************************)
(* What the backend promises about a build, whoever looks at it: it waits, *)
(* is handed to a runner at most once, and is over for good.  A release    *)
(* build may deliver its package only while a runner has it, and a version *)
(* of the package is delivered by one build at most.  Which of the three   *)
(* results a build that is over carries is not part of this promise:       *)
(* BuildPipeline shows where the code lets one result replace another.     *)
(***************************************************************************)
CONSTANTS
  Builds,    (* the builds that may ever be created                        *)
  Releases,  (* those that publish a package (builds.publish_package)      *)
  Version    (* the version each release build publishes                   *)

VARIABLES
  phase,     (* "absent", "waiting", "running" or "over", per build        *)
  delivered  (* the release builds whose package is in the registry        *)

vars == <<phase, delivered>>

Phases == {"absent", "waiting", "running", "over"}

Init ==
  /\ phase = [b \in Builds |-> "absent"]
  /\ delivered = {}

Move(b, from, to) ==
  /\ phase[b] \in from
  /\ phase' = [phase EXCEPT ![b] = to]
  /\ UNCHANGED delivered

Submit(b)   == Move(b, {"absent"}, "waiting")
Launch(b)   == Move(b, {"waiting"}, "running")
Conclude(b) == Move(b, {"waiting", "running"}, "over")

Deliver(b) ==
  /\ b \in Releases
  /\ phase[b] = "running"
  /\ \A other \in delivered : Version[other] # Version[b]
  /\ delivered' = delivered \cup {b}
  /\ UNCHANGED phase

Next == \E b \in Builds : Submit(b) \/ Launch(b) \/ Deliver(b) \/ Conclude(b)

Spec == Init /\ [][Next]_vars
=============================================================================
