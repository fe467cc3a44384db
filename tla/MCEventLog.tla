------------------------------ MODULE MCEventLog ------------------------------
(***************************************************************************)
(* EventLog on two processes.                                              *)
(***************************************************************************)
EXTENDS EventLog, TLC

Symmetry == Permutations(Procs) \cup Permutations(Names) \cup Permutations(Contents)

==============================================================================
