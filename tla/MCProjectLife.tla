---------------------------- MODULE MCProjectLife ----------------------------
EXTENDS ProjectLife, TLC

CONSTANTS h1, h2, here, there

Alike == Permutations(Handlers) \cup Permutations(Paths)
=============================================================================
