-------------------------- MODULE MCBuildPipeline --------------------------
(* Small instances of BuildPipeline: every release build publishes the     *)
(* same version, and every worker belongs to the same runner.              *)
EXTENDS BuildPipeline, TLC

MCVersion  == [b \in Releases |-> "1.0.0"]
MCRunnerOf == [w \in Workers |-> CHOOSE r \in Runners : TRUE]

=============================================================================
