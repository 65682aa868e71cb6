------------------------------ MODULE MCGitPush ------------------------------
(* A small instance of GitPush: users, commits and connections are alike. *)
EXTENDS GitPush, TLC

CONSTANTS u1, u2, p1, p2, first, second

Alike == Permutations(Users) \cup Permutations(Commits) \cup Permutations(Connections)
=============================================================================
