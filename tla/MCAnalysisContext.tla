-------------------------- MODULE MCAnalysisContext --------------------------
(* AnalysisContext on a small instance. *)
EXTENDS AnalysisContext, TLC

Symmetry == Permutations(Turn) \cup Permutations(Context) \cup Permutations(Revision)

=============================================================================
