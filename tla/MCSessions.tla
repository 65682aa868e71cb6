----------------------------- MODULE MCSessions -----------------------------
(* Two tabs of one browser; which is which does not matter.  What a second *)
(* browser holds, the tokens of the browser's earlier logins stand for.    *)
EXTENDS Sessions, TLC

CONSTANTS home, tab1, tab2

Alike == Permutations({tab1, tab2})
=============================================================================
