-------------------------- MODULE ReferenceVerifier --------------------------
(***************************************************************************)
(* How grid-agent trusts a reference of the simulator                      *)
(* (ContentReferenceVerifier, grid_agent/analysis/integrity.py): the files *)
(* of one run are looked up by digest, and every document a reference      *)
(* leads to must be on disk, of an allowed type, and about the same        *)
(* context and revision.                                                   *)
(*                                                                         *)
(* Abstraction.  A reference is the digest of a document, so the document  *)
(* itself stands for it: two references are equal exactly when their       *)
(* documents are, and a file found under a reference holds that document.  *)
(* Damaged contents, the other half of what the code checks, are left out. *)
(***************************************************************************)
EXTENDS FiniteSets

VARIABLE files      \* the evidence directory: set of [at : directory and prefix, doc : document]

At(place, doc)  == [at |-> place, doc |-> doc] \in files
Stored(place)   == {f.doc : f \in {g \in files : g.at = place}}

-----------------------------------------------------------------------------
(* Documents and where they may be *)

\* No document, the null of the source.
None == [kind |-> "none"]

Network(base, patches)  == [kind |-> "network", base |-> base, patches |-> patches]

ResultPlaces == {"results/result", "results/powerflow", "results/contingency",
                 "results/contingency-scenario"}

\* The capabilities whose evidence is accepted, by the type of its document.
AllowedFacts == {"topology.branch.endpoints.get", "model.constraints.describe"}
AllowedAnalysis ==
    {<<"analysis_result", "analysis.run">>,
     <<"analysis_result", "analysis.result.violations.evaluate">>,
     <<"analysis_result", "analysis.result.risk.rank">>,
     <<"analysis_result", "analysis.powerflow.ac.run">>,
     <<"contingency_scenario", "analysis.contingency.n_minus_one.run">>,
     <<"powerflow_non_convergence", "analysis.powerflow.ac.run">>,
     <<"powerflow_non_convergence", "analysis.contingency.n_minus_one.run">>,
     <<"powerflow_non_convergence", "analysis.run">>}

-----------------------------------------------------------------------------
(* Single references *)

\* _verify_revision. 
VerifyRevision(net) == At("models", net)

\* verify_context
VerifyContext(c) == At("contexts", c) /\ c.net # None /\ VerifyRevision(c.net)

\* _verify_result_document
ResultDocument(r) == r.context # None /\ r.net # None

\* verify_result.  The faulty variant only looks where ResultStore writes.
VerifyStoredOnly(r) == At("results/result", r) /\ ResultDocument(r)
VerifyResult(r)     == (\E place \in ResultPlaces : At(place, r)) /\ ResultDocument(r)

\* _verify_evidence_document, by the directory the document was found in
AllowedFact(e) == e.type = "network_fact" /\ e.capability \in AllowedFacts

\* Analysis evidence.  The faulty variant wants a result of every record.
ResultEvidenceOnly(e) == <<e.type, e.capability>> \in AllowedAnalysis /\ e.result # None
AllowedEvidence(e) ==
    /\ <<e.type, e.capability>> \in AllowedAnalysis
    /\ e.type \in {"analysis_result", "contingency_scenario"} => e.result # None

\* verify_evidence
VerifyEvidence(e) ==
    IF At("network-facts", e) THEN AllowedFact(e)
                              ELSE At("analysis", e) /\ AllowedEvidence(e)

\* _verify_matching_context
MatchingContext(a, b) == a.context = b.context /\ a.net = b.net

-----------------------------------------------------------------------------
(* References with everything they lead to *)

\* _admit_result_linked_artifacts
AdmitsResult(r) ==
    /\ VerifyResult(r)
    /\ VerifyContext(r.context)
    /\ \A e \in r.evidence : VerifyEvidence(e)
    /\ \A s \in r.scenarios : VerifyResult(s) /\ MatchingContext(s, r)

\* _admit_evidence_linked_artifacts
AdmitsEvidence(e) ==
    /\ VerifyEvidence(e)
    /\ e.result # None => VerifyResult(e.result) /\ MatchingContext(e.result, e)
    /\ VerifyContext(e.context)

\* admit_successful_tool_references
Admits(answer) ==
    /\ answer.result # None => AdmitsResult(answer.result)
    /\ \A e \in answer.evidence : AdmitsEvidence(e)
    /\ answer.context # None => VerifyContext(answer.context)

-----------------------------------------------------------------------------
(* The audit of a submitted answer *)

\* _current_run_analysis_evidence_for_result
EvidenceOnDisk(r) == {e \in Stored("analysis") : e.result = r}

\* The results of the links: those declared, and those of claimed evidence.
Documents(declared, claimed) ==
    declared \cup {e.result : e \in {d \in claimed :
        d.result # None /\ d.type \in {"analysis_result", "contingency_scenario"}}}

\* A result is linked by evidence that names it, by evidence it names, or by
\* evidence of one of its scenarios.  The faulty variant forgets the second.
LinkedOnDiskOnly(r, claimed) ==
    \/ EvidenceOnDisk(r) # {}
    \/ \E s \in r.scenarios : EvidenceOnDisk(s) # {}
Linked(r, claimed) ==
    \/ \E e \in claimed : e.result = r
    \/ r.evidence \cap claimed # {}
    \/ EvidenceOnDisk(r) # {}
    \/ \E s \in r.scenarios : EvidenceOnDisk(s) # {}

\* _verify_result_evidence_links: what must hold of every document met
LinksAgree(r, claimed) ==
    /\ VerifyResult(r)
    /\ \A e \in claimed : e.result = r => MatchingContext(r, e)
    /\ \A e \in EvidenceOnDisk(r) : AllowedEvidence(e) /\ MatchingContext(r, e)
    /\ \A s \in r.scenarios :
          /\ VerifyResult(s)
          /\ \A e \in EvidenceOnDisk(s) :
                AllowedEvidence(e) /\ MatchingContext(s, e) /\ MatchingContext(r, e)

\* audit_answer_references: the categories of its diagnostics
Audit(claimed, declared) ==
    LET isResult(r) == r.kind = "result"
        results     == {r \in declared : isResult(r)}
        missing     == \E e \in claimed : ~VerifyEvidence(e)
        invalid     == \E r \in results : ~VerifyResult(r)
        unlinked    == \/ \E r \in results : ~Linked(r, claimed)
                       \/ \E r \in Documents(results, claimed) : ~LinksAgree(r, claimed)
    IN  (IF declared # results THEN {"misclassified_result_ref"} ELSE {}) \cup
        (IF missing THEN {"missing_evidence"} ELSE {}) \cup
        (IF invalid THEN {"invalid_result"} ELSE {}) \cup
        (IF ~missing /\ ~invalid /\ unlinked THEN {"unlinked_result"} ELSE {})
=============================================================================
