---------------------------- MODULE MCPushEvents ----------------------------
(* Small instances of PushEvents: the event ids are 1, 2, ...; event 1     *)
(* asks for a build of a branch and one of a tag, the others for one.      *)
EXTENDS PushEvents, TLC

CONSTANTS m1, h1, h2

MCSize == [s \in Sources |-> IF s = 1 THEN 2 ELSE 1]

=============================================================================
