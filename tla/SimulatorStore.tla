--------------------------- MODULE SimulatorStore ---------------------------
(***************************************************************************)
(* The grid simulator (packages/grid-simulator) as grid-agent uses it:     *)
(* every tool call is a gridctl process of its own that reads the evidence *)
(* directory of the run, works, writes its documents one file after the    *)
(* other (each atomically, evidence.py write_bytes_atomic) and answers     *)
(* with references to them.  Several processes may be at work at once, a   *)
(* write may fail, and a process may be killed between two writes.         *)
(* Composed with ReferenceVerifier, which decides what grid-agent admits.  *)
(*                                                                         *)
(* Abstractions.  A network is its base and the patches that changed it.   *)
(* The solver is external and deterministic: whether a power flow of a     *)
(* network with a branch out converges, diverges or breaks is a constant.  *)
(* What a process reads it reads at once, when it starts: files are only   *)
(* ever added.  A context carries the contexts found by following parents. *)
(* Numbers, rows and capability schemas are left out.                      *)
(***************************************************************************)
EXTENDS ReferenceVerifier, Naturals, Sequences

CONSTANTS
    Process,        \* gridctl processes that may run at the same time
    Model,          \* registered models
    Created,        \* names of models the agent builds
    Patch,          \* patches of a revision
    Branch,         \* branches whose end points are asked for
    Studies,        \* sequences of branches a contingency study takes out in turn
    Operation,      \* published analysis operations
    Diverges,       \* <<base, outage>> whose power flow does not converge
    Breaks,         \* <<base, outage>> whose power flow raises something else
    LargeModel,     \* bases with a table of more than MODEL_VIEW_LIMIT rows
    MaxRequests,    \* bound: requests that write
    MaxFaults       \* bound: failing writes and killed processes

\* A power flow has one outcome: pandapower raises LoadflowNotConverged or
\* something else.
ASSUME FlowsHaveOneOutcome == Diverges \cap Breaks = {}

\* A study is a list of outages.
ASSUME StudiesAreLists ==
    \A outages \in Studies : outages \in Seq({outages[i] : i \in DOMAIN outages})

VARIABLES
    todo,       \* process -> batches of files it has still to write, in order
    pending,    \* process -> the answer it will give, None when it is not running
    answers,    \* answers the agent has received that carry references
    requests,   \* requests so far that write
    faults      \* faults so far

storeVars == <<files, todo, pending, answers, requests, faults>>

-----------------------------------------------------------------------------
(* Documents *)

\* OpenedContext, with the lineage document of revisions that have one
ContextDoc(model, net, origin, parent, lineage) ==
    [kind |-> "context", model |-> model, net |-> net, origin |-> origin,
     parent |-> parent, lineage |-> lineage,
     ancestors |-> IF parent = None THEN {} ELSE parent.ancestors \cup {parent}]

\* ModelRegistry, and ContextStore.create before it writes
RegisteredNet(m)     == Network(m, <<>>)
RegisteredContext(m) == ContextDoc(m, RegisteredNet(m), "registered", None, None)

\* _apply_patch
Patched(net, patch) == Network(net.base, Append(net.patches, patch))

\* The lineage document of a revision (revisions.py _persist).  The faulty
\* variant records the revision itself as its parent.
OwnParentLineage(net, model, origin, parent, operation) ==
    [kind |-> "lineage", net |-> net, model |-> model, origin |-> origin, parent |-> parent,
     parentNet |-> IF parent = None THEN None ELSE net, operation |-> operation]
Lineage(net, model, origin, parent, operation) ==
    [kind |-> "lineage", net |-> net, model |-> model, origin |-> origin, parent |-> parent,
     parentNet |-> IF parent = None THEN None ELSE parent.net, operation |-> operation]

ResultDoc(type, operation, tables, c, source, subject, evidence, scenarios) ==
    [kind |-> "result", type |-> type, operation |-> operation, tables |-> tables,
     context |-> c, net |-> c.net, source |-> source, subject |-> subject,
     evidence |-> evidence, scenarios |-> scenarios]

EvidenceDoc(type, capability, c, r, subject) ==
    [kind |-> "evidence", type |-> type, capability |-> capability, context |-> c,
     net |-> c.net, result |-> r, subject |-> subject]

-----------------------------------------------------------------------------
(* What the operations write, in order *)

File(place, doc) == [at |-> place, doc |-> doc]

\* RevisionStore._persist.  The faulty variant publishes the context first.
PersistContextFirst(c) ==
    <<File("contexts", c), File("models", c.net), File("revisions", c.lineage)>>
PersistRevision(c) ==
    <<File("models", c.net), File("revisions", c.lineage), File("contexts", c)>>

\* ResultStore.persist. 
PersistResult(r, e) == <<File("results/result", r), File("analysis", e)>>

\* persist_non_convergence_diagnostics: evidence of the failure and the same
\* document as an artifact.
Diagnostic(capability, c, subject) ==
    EvidenceDoc("powerflow_non_convergence", capability, c, None, subject)
PersistDiagnostics(e) == <<File("analysis", e), File("artifacts", e)>>

-----------------------------------------------------------------------------
(* ContextStore *)

\* _verify_revision_lineage
LineageHolds(c) ==
    /\ c.lineage # None /\ At("revisions", c.lineage)
    /\ c.lineage.net = c.net /\ c.lineage.model = c.model
    /\ c.lineage.origin = c.origin /\ c.lineage.parent = c.parent
    /\ c.origin = "derived" => c.parent # None /\ c.lineage.parentNet = c.parent.net

\* _verify_metadata: a registered model still has the revision it had
MetadataHolds(c) ==
    IF c.origin = "registered" THEN c.model \in Model /\ c.net = RegisteredNet(c.model)
                               ELSE LineageHolds(c)

\* require, and _verify_artifact; the lineage of a revision requires its parent
Require(c) ==
    \A d \in {c} \cup c.ancestors :
       At("contexts", d) /\ MetadataHolds(d) /\ At("models", d.net)

-----------------------------------------------------------------------------
(* Requests and answers *)

Ok(c, r, evidence)     == [code |-> "ok", context |-> c, result |-> r, evidence |-> evidence]
Failure(code, evidence) == [code |-> code, context |-> None, result |-> None,
                            evidence |-> evidence]

Answered     == {a \in answers : a.code = "ok"}
\* References the agent may pass: those it was given, and the contexts of
\* registered models, which it may remember from another run.
KnownContexts == ({a.context : a \in Answered} \ {None}) \cup {RegisteredContext(m) : m \in Model}
KnownResults  == LET given == {a.result : a \in Answered} \ {None}
                 IN  given \cup UNION {r.scenarios : r \in given}
KnownEvidence == UNION {a.evidence : a \in answers}

\* createGridTool: the answer reaches the agent, who remembers it when it holds
\* references no other answer has given together.
Adds(a) ==
    /\ a.context # None \/ a.result # None \/ a.evidence # {}
    /\ ~\E b \in answers : /\ a.context = b.context /\ a.result \in {None, b.result}
                           /\ a.evidence \subseteq b.evidence
Receive(answer) == answers' = answers \cup {a \in {answer} : Adds(a)}

\* runGridctl: one process per call.  A call that writes takes its time; when a
\* write fails the process answers oserror, or dies when nothing handles the
\* exception.
Died == Failure("gridctl_transport_error", {})
PersistFailed(code) == Failure(code, {})
Serve(p, batches, answer, oserror) ==
    /\ pending[p] = None
    /\ requests < MaxRequests
    /\ requests' = requests + 1
    /\ todo'     = [todo EXCEPT ![p] = batches]
    /\ pending'  = [pending EXCEPT ![p] = [answer |-> answer, oserror |-> oserror]]
    /\ UNCHANGED <<files, answers, faults>>

\* A call that only reads
Read(p, answer) ==
    /\ pending[p] = None
    /\ Receive(answer)
    /\ UNCHANGED <<files, todo, pending, requests, faults>>

\* _failure without evidence: nothing is written, no reference is given
Refuse(p, code) == Read(p, Failure(code, {}))

\* _load_context_and_network, before what an operation does with the network
WithContext(p, c, Then) == IF Require(c) THEN Then ELSE Refuse(p, "unknown_context")

-----------------------------------------------------------------------------
(* Operations on models and contexts *)

\* _context_open and ContextStore.create; load_network reads it back
ContextOpen(p) ==
    /\ pending[p] = None
    /\ \/ Refuse(p, "model_not_found")
       \/ \E m \in Model :
          LET c == RegisteredContext(m)
          IN  Serve(p, <<<<File("models", c.net), File("contexts", c)>>>>, Ok(c, None, {}),
                    PersistFailed("persist_failed"))

\* RevisionStore.create
CreatedContext(name) ==
    LET net == Network(name, <<>>)
    IN  ContextDoc(name, net, "created", None, Lineage(net, name, "created", None, "create"))

\* _model_create
ModelCreate(p) ==
    /\ pending[p] = None
    /\ \/ Refuse(p, "creator_arguments_invalid")
       \/ \E name \in Created :
          LET c == CreatedContext(name)
          IN  Serve(p, <<PersistRevision(c)>>, Ok(c, None, {}), PersistFailed("persist_failed"))

\* RevisionStore.derive and persist_derived_network
Derived(parent, net, operation) ==
    ContextDoc(parent.model, net, "derived", parent,
               Lineage(net, parent.model, "derived", parent, operation))

\* _model_revision_derive
RevisionDerive(p) ==
    \E c \in KnownContexts :
       WithContext(p, c,
          \/ Refuse(p, "patch_selector_invalid")
          \/ \E patch \in Patch :
                LET d == Derived(c, Patched(c.net, patch), patch)
                IN  Serve(p, <<PersistRevision(d)>>, Ok(d, None, {}),
                          PersistFailed("persist_failed")))

\* derive_equivalent: after a power flow, a new network in place of the old one
Solvable(net)   == <<net.base, None>> \notin Diverges \cup Breaks
Equivalent(net) == Network(net.base, Append(net.patches, "equivalent"))

\* _model_equivalent_derive
EquivalentDerive(p) ==
    \E c \in KnownContexts :
       WithContext(p, c,
          LET d == Derived(c, Equivalent(c.net), "equivalent")
          IN  \/ Refuse(p, "unknown_bus")
              \/ ~Solvable(c.net) /\ Refuse(p, "equivalent_derivation_failed")
              \/ /\ Solvable(c.net)
                 /\ Serve(p, <<PersistRevision(d)>>, Ok(d, None, {}),
                          PersistFailed("equivalent_derivation_failed")))

\* _context_get
ContextGet(p) ==
    \E c \in KnownContexts : WithContext(p, c, Read(p, Ok(c, None, {})))

\* _model_element_get
ElementGet(p) ==
    \E c \in KnownContexts :
       WithContext(p, c, \/ Refuse(p, "unknown_element_kind")
                         \/ Read(p, Ok(c, None, {})))

\* _model_dataset_describe, and _model_dataset_list, which cannot be refused
DatasetDescribe(p) ==
    \E c \in KnownContexts :
       WithContext(p, c, \/ Refuse(p, "unsupported_dataset")
                         \/ Read(p, Ok(c, None, {})))

\* _topology_components_get
Components(p) ==
    \E c \in KnownContexts :
       WithContext(p, c, \/ Refuse(p, "topology_unavailable")
                         \/ Read(p, Ok(c, None, {})))

\* _environment_describe and the lists of analyses, which read no file
Catalog(p) ==
    /\ pending[p] = None
    /\ Refuse(p, "unknown_analysis_operation") \/ Read(p, Ok(None, None, {}))

\* _model_creator_describe
CreatorDescribe(p) ==
    /\ pending[p] = None
    /\ Refuse(p, "unknown_creator") \/ Read(p, Ok(None, None, {}))

\* _model_dataset_query: a view of more than MODEL_VIEW_LIMIT rows is kept in
\* full as an artifact, whose failing write nothing handles
DatasetQuery(p) ==
    \E c \in KnownContexts :
       WithContext(p, c,
          \/ Refuse(p, "unsupported_dataset")
          \/ Serve(p, IF c.net.base \in LargeModel
                        THEN <<<<File("artifacts", [kind |-> "dataset", context |-> c])>>>>
                        ELSE <<>>,
                   Ok(c, None, {}), Died))

\* _persist_network_fact and _persist_constraint_fact
NetworkFact(c, b) == EvidenceDoc("network_fact", "topology.branch.endpoints.get", c, None, b)
ConstraintFact(c) == EvidenceDoc("network_fact", "model.constraints.describe", c, None, None)

\* _topology_branch_endpoints_get
BranchEndpoints(p) ==
    \E c \in KnownContexts :
       WithContext(p, c,
          \/ Refuse(p, "unknown_branch")
          \/ \E b \in Branch :
                LET e == NetworkFact(c, b)
                IN  Serve(p, <<<<File("network-facts", e)>>>>, Ok(c, None, {e}),
                          PersistFailed("evidence_persist_failed")))

\* _model_constraints_describe
ConstraintsDescribe(p) ==
    \E c \in KnownContexts :
       WithContext(p, c,
          LET e == ConstraintFact(c)
          IN  Serve(p, <<<<File("network-facts", e)>>>>, Ok(c, None, {e}),
                    PersistFailed("evidence_persist_failed")))

-----------------------------------------------------------------------------
(* Analyses *)

\* LoadflowNotConverged: the operation fails and leaves evidence of it; a
\* write that fails in the handler is handled by nothing.
NotConverged(p, capability, code, c) ==
    LET e == Diagnostic(capability, c, None)
    IN  Serve(p, <<PersistDiagnostics(e)>>, Failure(code, {e}), Died)

Persisted(p, c, r, e) ==
    Serve(p, <<PersistResult(r, e)>>, Ok(c, r, {e}), PersistFailed("persist_failed"))

\* AnalysisRegistry.execute
OperationResult(operation, c) ==
    ResultDoc("analysis.operation", operation, {"res_bus", "res_line"}, c, None, None, {}, {})

\* _analysis_run
AnalysisRun(p) ==
    \E c \in KnownContexts, operation \in Operation :
       WithContext(p, c,
          LET r == OperationResult(operation, c)
              e == EvidenceDoc("analysis_result", "analysis.run", c, r, None)
          IN  \/ Refuse(p, "analysis_options_invalid")
              \/ CASE <<c.net.base, None>> \in Diverges ->
                        NotConverged(p, "analysis.run", "analysis_non_converged", c)
                   [] <<c.net.base, None>> \in Breaks -> Refuse(p, "analysis_failed")
                   [] OTHER -> Persisted(p, c, r, e))

\* run_ac_powerflow, whose result has the rows of the branches besides the tables
PowerflowResult(c) ==
    ResultDoc("analysis.operation", "powerflow.ac", {"res_bus", "res_line", "branch_results"},
              c, None, None, {}, {})

\* _analysis_powerflow_ac_run
Powerflow(p) ==
    \E c \in KnownContexts :
       WithContext(p, c,
          LET r == PowerflowResult(c)
              e == EvidenceDoc("analysis_result", "analysis.powerflow.ac.run", c, r, None)
          IN  CASE <<c.net.base, None>> \in Diverges ->
                     NotConverged(p, "analysis.powerflow.ac.run", "powerflow_non_converged", c)
                [] <<c.net.base, None>> \in Breaks -> Refuse(p, "powerflow_failed")
                [] OTHER -> Persisted(p, c, r, e))

\* _run_contingency_scenario: its files, its evidence and its result
ScenarioOf(c, i, b) ==
    LET converged == <<c.net.base, b>> \notin Diverges
        subject == [index |-> i, outage |-> b]
        lost    == Diagnostic("analysis.contingency.n_minus_one.run", c, b)
        stored  == ResultDoc("analysis.operation", "contingency.n_minus_one.scenario",
                             {"res_bus", "res_line"}, c, None, subject, {}, {})
        bare    == ResultDoc("scenario", "contingency.n_minus_one.scenario", {}, c, None,
                             subject, {}, {})
        found   == EvidenceDoc("contingency_scenario", "analysis.contingency.n_minus_one.run",
                               c, stored, b)
    IN  IF converged
          THEN [result |-> stored, evidence |-> found, files |-> PersistResult(stored, found)]
          ELSE [result |-> bare, evidence |-> lost,
                files  |-> Append(PersistDiagnostics(lost),
                                  File("results/contingency-scenario", bare))]

\* run_n_minus_one: the scenarios in turn, then the aggregate.  A scenario that
\* breaks ends the study, with the files of those before it left on disk.
NMinusOne(p, c, outages) ==
    LET scenarios == [i \in DOMAIN outages |-> ScenarioOf(c, i, outages[i])]
        broken    == {i \in DOMAIN outages : <<c.net.base, outages[i]>> \in Breaks}
        evidence  == {scenarios[i].evidence : i \in DOMAIN outages}
        subject   == [outages |-> outages]
        aggregate == ResultDoc("aggregate", "contingency.n_minus_one", {}, c, None, subject,
                               evidence, {scenarios[i].result : i \in DOMAIN outages})
        written(n) == [i \in 1..n |-> scenarios[i].files]
    IN  IF broken # {}
          THEN LET first == CHOOSE i \in broken : \A j \in broken : i <= j
               IN  Serve(p, written(first - 1), Failure("powerflow_failed", {}),
                         PersistFailed("persist_failed"))
          ELSE Serve(p, Append(written(Len(outages)),
                               <<File("results/contingency", aggregate)>>),
                     Ok(c, aggregate, evidence), PersistFailed("persist_failed"))

\* _analysis_contingency_n_minus_one_run
Contingency(p) ==
    \E c \in KnownContexts :
       WithContext(p, c,
          \/ Refuse(p, "unknown_branch")
          \/ \E outages \in Studies : NMinusOne(p, c, outages))

-----------------------------------------------------------------------------
(* Results *)

\* ResultStore.load finds what ResultStore.persist has written, and nothing else
Loads(r) == At("results/result", r) /\ r.type = "analysis.operation"

\* _raise_result_store_failure
StoreFailure(p) == Refuse(p, "unknown_result")

\* A result derived from another one, with the source's context
DerivedResult(operation, table, source) ==
    ResultDoc("analysis.operation", operation, {table}, source.context, source, None, {}, {})
\* evaluate_result_violations and rank_result_risk
Violations(source) == DerivedResult("constraints.violations", "res_violation", source)
Risk(source)       == DerivedResult("risk.rank", "res_risk", source)

\* _analysis_result_violations_evaluate
ViolationsEvaluate(p) ==
    \E source \in KnownResults :
       LET r == Violations(source)
           e == EvidenceDoc("analysis_result", "analysis.result.violations.evaluate",
                            source.context, r, None)
       IN  IF ~Loads(source) THEN Refuse(p, "unknown_result")
           ELSE WithContext(p, source.context, Persisted(p, source.context, r, e))

\* _analysis_result_risk_rank: nothing handles a context
\* that cannot be required
RiskRank(p) ==
    \E source \in KnownResults :
       LET r == Risk(source)
           e == EvidenceDoc("analysis_result", "analysis.result.risk.rank",
                            source.context, r, None)
       IN  CASE ~Loads(source) -> Refuse(p, "unknown_result")
             [] Loads(source) /\ "res_violation" \notin source.tables ->
                    Refuse(p, "derived_result_failed")
             [] OTHER -> IF Require(source.context)
                           THEN Persisted(p, source.context, r, e)
                           ELSE Refuse(p, "gridctl_transport_error")

\* _result_dataset_query, and the other readers of a stored result
ResultQuery(p) ==
    \E r \in KnownResults :
       IF Loads(r) THEN Read(p, Ok(r.context, r, {})) ELSE StoreFailure(p)

\* _load_powerflow_result
HasBranches(r) == r.operation = "powerflow.ac" /\ "branch_results" \in r.tables

\* _result_branches_rank and rank_branches: an intact result without the rows of
\* the branches is reported as damaged
BranchesRank(p) ==
    \E r \in KnownResults :
       CASE ~At("results/result", r) -> Refuse(p, "unknown_result")
         [] At("results/result", r) /\ ~HasBranches(r) -> Refuse(p, "result_integrity_failed")
         [] OTHER -> Read(p, Ok(r.context, r, {}))

\* evidence_path: network facts first, then the evidence of analyses
EvidencePath(e) == At("network-facts", e) \/ At("analysis", e)

\* _evidence_get
EvidenceGet(p) ==
    \E e \in KnownEvidence :
       IF EvidencePath(e) THEN Read(p, Ok(None, None, {})) ELSE Refuse(p, "unknown_evidence")

\* _result_compare: two results of one dataset, whatever their contexts
ResultCompare(p) ==
    \E base, candidate \in KnownResults :
       IF Loads(base) /\ Loads(candidate) THEN Read(p, Ok(None, None, {})) ELSE StoreFailure(p)

-----------------------------------------------------------------------------
(* Processes *)

\* What is left of batches once the first file of the first is written
Remaining(batches) ==
    IF Len(Head(batches)) = 1 THEN Tail(batches)
                              ELSE [batches EXCEPT ![1] = Tail(Head(batches))]

\* write_bytes_atomic: a document appears under its name, whole, or not at all
Commit(p) ==
    /\ todo[p] # <<>>
    /\ files' = files \cup {Head(Head(todo[p]))}
    /\ todo'  = [todo EXCEPT ![p] = Remaining(@)]
    /\ UNCHANGED <<pending, answers, requests, faults>>

\* dispatch returns and main prints the one line; createGridTool hands it to Pi
Answer(p) ==
    /\ pending[p] # None /\ todo[p] = <<>>
    /\ Receive(pending[p].answer)
    /\ pending' = [pending EXCEPT ![p] = None]
    /\ UNCHANGED <<files, todo, requests, faults>>

\* The rest of an operation is lost: its files stay, its answer is another.
Abandon(p, answer) ==
    /\ faults < MaxFaults
    /\ faults'  = faults + 1
    /\ todo'    = [todo EXCEPT ![p] = <<>>]
    /\ pending' = [pending EXCEPT ![p] = None]
    /\ Receive(answer)
    /\ UNCHANGED <<files, requests>>

\* An OSError of the next write
WriteFails(p) == todo[p] # <<>> /\ Abandon(p, pending[p].oserror)

\* The process ends without printing a line: it is killed, by the timeout of
\* GridctlClient or with the run
Killed(p) == pending[p] # None /\ Abandon(p, Died)

\* A run starts with an empty directory; the second initial state is that of a
\* run which has opened its models, so that few requests go further.
Opened == UNION {{File("models", RegisteredNet(m)), File("contexts", RegisteredContext(m))} :
                 m \in Model}

StoreInit ==
    /\ files \in {{}, Opened}
    /\ todo = [p \in Process |-> <<>>]
    /\ pending = [p \in Process |-> None]
    /\ answers = {}
    /\ requests = 0
    /\ faults = 0

StoreNext ==
    \E p \in Process :
       \/ ContextOpen(p) \/ ModelCreate(p) \/ RevisionDerive(p) \/ EquivalentDerive(p)
       \/ ContextGet(p) \/ ElementGet(p) \/ DatasetDescribe(p) \/ DatasetQuery(p)
       \/ Components(p) \/ Catalog(p) \/ CreatorDescribe(p)
       \/ BranchEndpoints(p) \/ ConstraintsDescribe(p)
       \/ AnalysisRun(p) \/ Powerflow(p) \/ Contingency(p)
       \/ ViolationsEvaluate(p) \/ RiskRank(p)
       \/ ResultQuery(p) \/ BranchesRank(p) \/ ResultCompare(p) \/ EvidenceGet(p)
       \/ Commit(p) \/ Answer(p) \/ WriteFails(p) \/ Killed(p)

StoreSpec == StoreInit /\ [][StoreNext]_storeVars

-----------------------------------------------------------------------------
(* Properties *)

\* Whatever was killed or failed on the way, every file the directory holds
\* leads only to files it holds as well: whoever finds a context, a result or
\* an evidence record can read on (the order of the writes in revisions.py
\* _persist, results.py persist and analyses.py run_n_minus_one).
LinksHold ==
    /\ \A c \in Stored("contexts") : Require(c)
    /\ \A r \in UNION {Stored(place) : place \in ResultPlaces} :
          AdmitsResult(r) /\ (r.source # None => Loads(r.source))
    /\ \A e \in Stored("analysis") \cup Stored("network-facts") : AdmitsEvidence(e)

\* grid-agent admits everything a successful answer refers to (projector.py
\* admit), at the time of the answer and ever after: no answer of the
\* simulator is refused by the verifier that stands beside it.
AnswersAdmitted == \A a \in Answered : Admits(a)

\* A claim that cites a successful answer's result with the evidence that came
\* with it passes the audit of submitted answers, whatever else is on disk.
ClaimsPassAudit ==
    \A a \in Answered :
       a.result # None /\ a.evidence # {} => Audit(a.evidence, {a.result}) = {}

\* What an answer that failed names as evidence can be cited: it is on disk and
\* the audit accepts it (persist_non_convergence_diagnostics before _failure).
FailuresAreEvidenced ==
    \A a \in answers \ Answered : Audit(a.evidence, {}) = {}

\* A context that was once the answer can be used by every later call, along
\* with all the contexts it was derived from.
ContextsStayUsable == \A a \in Answered : a.context # None => Require(a.context)
=============================================================================
