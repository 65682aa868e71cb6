------------------------------ MODULE MCMembers ------------------------------
EXTENDS Members, TLC

CONSTANTS u1, u2, h1, h2, tools, libs, parser, plot

GroupOfDef == parser :> tools @@ plot :> libs
Alike == Permutations(Handlers)
=============================================================================
