----------------------------- MODULE MCBuildRun -----------------------------
EXTENDS BuildRun
=============================================================================
