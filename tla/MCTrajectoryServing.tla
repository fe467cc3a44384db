-------------------------- MODULE MCTrajectoryServing --------------------------
(***************************************************************************)
(* TrajectoryServing on two runs, one of them growing, with pages of one   *)
(* row.  In the agent view the tool that event 1 starts ends at event 3.   *)
(***************************************************************************)
EXTENDS TrajectoryServing, TLC

ToolOfOneToThree == (1 :> 3)

==============================================================================
