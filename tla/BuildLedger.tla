----------------------------- MODULE BuildLedger -----------------------------
(***************************************************************************)
(* What build creation promises of the builds of a project, whoever asks   *)
(* for them: their numbers count up from 1, a build that has a number      *)
(* keeps it, and a source - a push event or a manual request - gets all of *)
(* its builds at once, in a row, and only once, however often it is sent.  *)
(***************************************************************************)
EXTENDS Naturals, Sequences

CONSTANTS
  Sources,  (* who asks for builds                                         *)
  Size      (* how many builds each source asks for                        *)

VARIABLE
  ledger    (* the sources of the builds 1, 2, ..., in this order          *)

Init == ledger = <<>>

Record(s) ==
  /\ \A n \in DOMAIN ledger : ledger[n] # s
  /\ ledger' = ledger \o [n \in 1..Size[s] |-> s]

Next == \E s \in Sources : Record(s)

Spec == Init /\ [][Next]_ledger
=============================================================================
