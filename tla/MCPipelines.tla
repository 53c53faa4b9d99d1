----------------------------- MODULE MCPipelines ----------------------------
(* Small instances of Pipelines for TLC.                                   *)
EXTENDS Pipelines, TLC

CONSTANTS p1, p2, m1, m2

\* Two jobs of one stage and one of the next, and a pipeline of its own.
MCJobs == 1..4
MCPipelineOf == 1 :> p1 @@ 2 :> p1 @@ 3 :> p1 @@ 4 :> p2
MCStage == 1 :> 0 @@ 2 :> 0 @@ 3 :> 1 @@ 4 :> 0
\* A runner of the instance and a runner of one project.
MCServes == m1 :> {p1, p2} @@ m2 :> {p1}
=============================================================================
