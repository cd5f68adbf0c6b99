------------------------------ MODULE MCPipeline ------------------------------
(***************************************************************************)
(* Values for model checking PipelineProperties.                           *)
(***************************************************************************)
EXTENDS PipelineProperties, TLC

ThreadSymmetry == Permutations(Threads)

TwoPlugins == <<"p", "q">>
=============================================================================
