--------------------------- MODULE MCUpstreamCache ---------------------------
(* A page of two versions: the second yanks a file and adds another.       *)
EXTENDS UpstreamCache, TLC

CONSTANTS old, new, p1, p2, c1, c2

TwoVersions == <<[f \in Files |-> IF f = old THEN "listed" ELSE "absent"],
                 [f \in Files |-> IF f = old THEN "yanked" ELSE "listed"]>>

(* Requests are alike, and so are cleanups.                                *)
Alike == Permutations(Clients) \cup Permutations(Cleaners)
=============================================================================
