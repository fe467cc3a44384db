----------------------------- MODULE AnalysisRun -----------------------------
(***************************************************************************)
(* What a continuous analysis promises its caller: it answers the          *)
(* instructions one after the other and ends, once and for all, completed  *)
(* with every instruction answered, or failed, or interrupted by an        *)
(* exception that left no manifest (AnalysisOutcome of grid_agent          *)
(* analysis/runner.py, manifest.json of the run).                          *)
(***************************************************************************)
EXTENDS Naturals

CONSTANT Instructions  \* number of instructions of the request

VARIABLES outcome, answered

runVars == <<outcome, answered>>

RunInit == outcome = "running" /\ answered = 0

AnswerNext == /\ outcome = "running"
              /\ answered < Instructions
              /\ answered' = answered + 1
              /\ UNCHANGED outcome

EndCompleted == /\ outcome = "running"
                /\ answered = Instructions
                /\ outcome' = "completed"
                /\ UNCHANGED answered

EndOtherwise == /\ outcome = "running"
                /\ outcome' \in {"failed", "interrupted"}
                /\ UNCHANGED answered

RunNext == AnswerNext \/ EndCompleted \/ EndOtherwise

\* The run makes progress: every operation it waits for returns or raises.
RunSpec == RunInit /\ [][RunNext]_runVars /\ WF_runVars(RunNext)

=============================================================================
