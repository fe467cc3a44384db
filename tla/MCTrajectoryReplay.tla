--------------------------- MODULE MCTrajectoryReplay ---------------------------
(* A small instance of TrajectoryReplay. *)
EXTENDS TrajectoryReplay

\* The first view and the evidence of a fact about the network may be lost.
ViewAndFact == {<<"view", 1>>, Fact}

================================================================================
