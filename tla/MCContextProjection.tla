------------------------- MODULE MCContextProjection -------------------------
(***************************************************************************)
(* ContextProjection on two models and a revision derived from the first.  *)
(***************************************************************************)
EXTENDS ContextProjection, TLC

CONSTANTS base, child, other, v1, v2, r1, r2, e1, e2, k1, k2, k3, n1, n2, n3

MCContext    == {base, child, other}
MCRevision   == {v1, v2}
MCResult     == {r1, r2}
MCEvidence   == {e1, e2, k1, k2, k3, n1, n2, n3}

\* Two models may be of one revision; a derived context has its own.
MCRevisionOf == base :> v1 @@ other :> v1 @@ child :> v2
MCParentOf   == base :> None @@ other :> None @@ child :> base
MCContextOf  == r1 :> base @@ r2 :> child
MCEvidenceOf == r1 :> e1 @@ r2 :> e2 @@ base :> k1 @@ child :> k2 @@ other :> k3
MCDiagnosisOf == base :> n1 @@ child :> n2 @@ other :> n3

Symmetry == Permutations(Turn) \cup Permutations(Call)
=============================================================================
