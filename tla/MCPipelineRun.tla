--------------------------- MODULE MCPipelineRun ---------------------------
(***************************************************************************)
(* A pipeline of the shape of builtin/pipelines/standard.yaml, shortened:  *)
(*   1 clarify (when), 2 plan, 3 implement (fan-out, commits),             *)
(*   4 review (optional, commits), 5 publish (reporter)                    *)
(* with the configurations that take different ways through a run.         *)
(***************************************************************************)
EXTENDS PipelineRun, TLC

MCPhase == 1 :> "clarifying" @@ 2 :> "planning" @@ 3 :> "implementing"
           @@ 4 :> "keep" @@ 5 :> "pr_open"

\* The defaults of engine/pipeline.py and config/schema.py, but for the fixers.
Defaults ==
  [onQuestion |-> "pause_and_relay", onUnclear |-> "comment_and_unassign",
   spawnFixers |-> FALSE, humanReview |-> TRUE, hasForge |-> TRUE, gated |-> {}, pauseAt |-> {}]
WithFixers == [Defaults EXCEPT !.onQuestion = "ignore", !.spawnFixers = TRUE,
                               !.humanReview = FALSE, !.hasForge = FALSE]

MCSettings ==
  {Defaults, WithFixers,
   [Defaults EXCEPT !.onQuestion = "fail", !.gated = {3}],
   [Defaults EXCEPT !.onUnclear = "comment_only", !.pauseAt = {3}],
   [Defaults EXCEPT !.onUnclear = "proceed"]}
=============================================================================
