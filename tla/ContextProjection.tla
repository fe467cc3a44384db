-------------------------- MODULE ContextProjection --------------------------
(***************************************************************************)
(* The projection of Pi's tool results into the Analysis Context:          *)
(* AnalysisContextProjector.observe (grid_agent/analysis/projector.py)     *)
(* called by AnalysisRunner._observe_semantic_event (analysis/runner.py),  *)
(* composed with the reducer (AnalysisContext).  One tool result becomes a *)
(* sequence of reducer events, appended one by one; an event the reducer   *)
(* rejects or an append that fails ends the projection where it is, and    *)
(* the runner turns the exception into a diagnostic and lets Pi go on.     *)
(*                                                                         *)
(* Abstractions.  The simulator is external: it is the set of documents it *)
(* has stored.  Its references are digests of contents, so repeating an    *)
(* operation returns the same references, and each carries its fixed       *)
(* context, revision and evidence.  One analysis has one result and one    *)
(* evidence record (an N-1 study has one more pair per scenario, through   *)
(* the same code).  A call fails in two sorts: refused, or as an analysis  *)
(* that does not converge, whose error names evidence of the diagnosis.    *)
(***************************************************************************)
EXTENDS Naturals, FiniteSets, Sequences

CONSTANTS
    Turn, Context, Revision, Result, Evidence,
    Call,            \* tool calls; each has one observation and fact reference
    None,
    RevisionOf,      \* context -> revision
    ParentOf,        \* context -> context it is derived from, None if opened
    ContextOf,       \* result -> context
    EvidenceOf,      \* result (analysis) or context (constraints) -> evidence
    DiagnosisOf,     \* context -> evidence of an analysis of it that did not converge
    MaxFaults        \* bound: outages in which appends fail

ASSUME DocumentsAreLinked ==
    /\ RevisionOf \in [Context -> Revision]
    /\ ParentOf \in [Context -> Context \cup {None}]
    /\ ContextOf \in [Result -> Context]
    /\ EvidenceOf \in [Result \cup Context -> Evidence]
    /\ DiagnosisOf \in [Context -> Evidence]
    /\ Context \cap Result = {}
    /\ IsFiniteSet(Call) /\ MaxFaults \in Nat

VARIABLES
    status, baselines, active_context, current_turn, turns, observations, results,
    evidence, verified_facts, limitations, diagnostics, model, operating_state,
    calculations, domain_records,
    stored,    \* contexts and results the simulator has written
    made,      \* call -> the ToolCall it was, None if not made
    call,      \* the ToolCall whose result is being projected, or None
    todo,      \* stages of that projection not done yet
    failure,   \* call -> where its projection failed, None if it did not
    submitted, \* turns whose answer was submitted
    faults     \* outages of the disk so far

Limitation == Call \X {"tool", "projection"}

\* Constraint references are digests over the revision; MaxRefs bounds only
\* the reducer's own enumeration, which this module does not use.
Ctx == INSTANCE AnalysisContext
           WITH Observation <- Call, Fact <- Call, DomainRef <- Revision,
                MaxRefs <- 0, MaxDiagnostics <- Cardinality(Call)

contextVars == <<status, baselines, active_context, current_turn, turns, observations, results,
                 evidence, verified_facts, limitations, diagnostics, model, operating_state,
                 calculations, domain_records>>
toolVars    == <<stored, made, call, todo, failure, submitted, faults>>
vars        == <<contextVars, toolVars>>

Idle == call = None

Failure == [stage : {"admit", "observation", "baseline", "result", "evidence", "fact", "domain",
                     "limitation", "diagnostic"},
            fault : BOOLEAN]

-----------------------------------------------------------------------------
(* Tool calls *)

ToolCall == [id : Call, turn : Turn, context : Context, result : Result \cup {None},
             kind : {"open", "derive", "get", "analyse", "describe", "rank", "failed",
                     "diverged"}]

ASSUME NoneApart ==
    /\ None \notin Turn \cup Context \cup Revision \cup Result \cup Evidence \cup Call
    /\ None \notin ToolCall \cup Failure
    /\ None \notin Ctx!Location \cup Ctx!ActiveTurn \cup Ctx!TurnRecord \cup Ctx!ObservationRecord
    /\ None \notin Ctx!ResultRecord \cup Ctx!EvidenceRecord \cup Ctx!VerifiedFact
    /\ None \notin Ctx!LimitationRecord \cup Ctx!DomainRecord

\* The appends of one projection, in order; "admit" stands for the checks made
\* before the first.  The first definitions are faulty variants: what the
\* checked properties have to tell from the code.
RegistersResultFirst ==
    <<"admit", "observation", "result", "baseline", "evidence", "fact", "domain">>
ForgetsBaseline   == <<"admit", "observation", "domain">>

OpenStages     == <<"admit", "observation", "baseline", "domain">>
DeriveStages   == <<"admit", "observation", "baseline", "domain">>
AnalyseStages  == <<"admit", "observation", "baseline", "result", "evidence", "fact", "domain">>
DescribeStages == <<"admit", "observation", "baseline", "evidence", "domain">>
RankStages     == <<"admit", "observation", "fact", "domain">>
FailedStages   == <<"observation", "limitation", "diagnostic">>
Stages == [open |-> OpenStages, derive |-> DeriveStages, get |-> OpenStages,
           analyse |-> AnalyseStages, describe |-> DescribeStages, rank |-> RankStages,
           failed |-> FailedStages, diverged |-> FailedStages]

\* _consumed_refs, from the arguments of the call; a failed one consumes nothing
Consumed(x) == CASE x.kind \in {"open", "failed", "diverged"} -> {}
                 [] x.kind = "derive"                        -> {ParentOf[x.context]}
                 [] x.kind = "rank"                          -> {x.result}
                 [] x.kind \in {"get", "analyse", "describe"} -> {x.context}

\* _produced_refs, from the result of the call, or from the error of a failed one
Produced(x) == CASE x.kind \in {"open", "derive"}          -> {x.context}
                 [] x.kind = "analyse"                     -> {x.result, EvidenceOf[x.result]}
                 [] x.kind = "describe"                    -> {EvidenceOf[x.context]}
                 [] x.kind = "diverged"                    -> {DiagnosisOf[x.context]}
                 [] x.kind \in {"get", "rank", "failed"}   -> {}

\* The documents the simulator writes for a call (or finds written).
Written(x)  == {x.context} \cup ({x.result} \ {None})

\* The calls Pi can make in turn t: the simulator answers them from what it
\* has stored.  A failed call stands for any operation it refuses.
Possible(t) ==
    {x \in ToolCall :
        /\ x.turn = t
        /\ made[x.id] = None
        /\ Consumed(x) \subseteq stored
        /\ x.kind = "diverged" => x.context \in stored
        /\ x.kind \in {"analyse", "rank"} <=> x.result # None
        /\ x.result # None => ContextOf[x.result] = x.context
        /\ x.kind = "open" => ParentOf[x.context] = None
        /\ x.kind = "derive" => ParentOf[x.context] # None}

\* The evidence an analysis or a constraint description has, and the
\* references that record names (_evidence_record_refs).
EvidenceFor(x) == IF x.kind = "describe" THEN EvidenceOf[x.context] ELSE EvidenceOf[x.result]
EvidenceRefs(x) == {x.context} \cup ({x.result} \ {None})

-----------------------------------------------------------------------------
(* One stage of a projection *)

ForgetsKnownBaselines(stage, x) == stage = "result" /\ results[x.result] # None

\* _append_missing_baselines and _append_results leave a known one alone.
AlreadyKnown(stage, x) == \/ stage = "baseline" /\ baselines[x.context] # None
                          \/ stage = "result" /\ results[x.result] # None

\* _verified_ranking_source: a ranking reads a registered result.  What the
\* simulator returned is of the context and the result the call was about, so
\* that _assert_result_matches_started_inputs has nothing to refuse.
MayAdmit(x) == x.kind = "rank" => results[x.result] # None

Admit(x) == MayAdmit(x) /\ UNCHANGED contextVars

DomainParts(x) == CASE x.kind \in {"open", "derive", "get"} -> {"model"}
                    [] x.kind = "analyse"                   -> {"calculation"}
                    [] x.kind = "describe"                  -> {"record"}
                    [] x.kind = "rank"                      -> {}

\* project_domain_result: the delta is located at the document's own context
\* and revision.
LocationOf(x) == [context |-> x.context, revision |-> RevisionOf[x.context]]

ProjectDomain(x) ==
    Ctx!ProjectDomainState(x.turn, LocationOf(x), DomainParts(x), x.result,
                           RevisionOf[x.context])

\* _promoted_fact_payloads, _fact_source: a fact cites the evidence of the
\* result it is taken from, for a ranking as well.
PromoteFact(x) == Ctx!RecordVerifiedFact(x.id, {EvidenceFor(x)})

\* The append of one stage; disabled when the reducer rejects its event.
AppendEvent(stage, x) ==
    \/ stage = "admit" /\ Admit(x)
    \/ stage = "observation" /\
          Ctx!RecordObservation(x.turn, x.id, x.kind = "rank", Consumed(x), Produced(x))
    \/ stage = "baseline" /\
          Ctx!OpenSimulatorContext(x.turn, x.context, RevisionOf[x.context])
    \/ stage = "result" /\ Ctx!RegisterResult(x.turn, x.result, RevisionOf[x.context])
    \/ stage = "evidence" /\
          Ctx!RegisterEvidence(None, EvidenceFor(x), EvidenceRefs(x), TRUE)
    \/ stage = "fact" /\ PromoteFact(x)
    \/ stage = "domain" /\ ProjectDomain(x)
    \/ stage = "limitation" /\ Ctx!RecordLimitation(<<x.id, "tool">>, x.turn)
    \/ stage = "diagnostic" /\ Ctx!RecordDiagnostic

\* What the reducer, or the verifier before it, accepts of one stage.
Accepted(stage, x) ==
    \/ stage = "admit" /\ MayAdmit(x)
    \/ stage = "observation" /\
          Ctx!MayRecordObservation(x.turn, x.id, x.kind = "rank", Consumed(x), Produced(x))
    \/ stage = "baseline" /\ Ctx!MayOpenContext(x.turn, x.context, RevisionOf[x.context])
    \/ stage = "result" /\ Ctx!MayRegisterResult(x.turn, x.result, RevisionOf[x.context])
    \/ stage = "evidence" /\ Ctx!MayRegisterEvidence(EvidenceFor(x), EvidenceRefs(x), TRUE)
    \/ stage = "fact" /\ Ctx!MayRecordFact(x.id, {EvidenceFor(x)})
    \/ stage = "domain" /\
          Ctx!MayProjectDomain(x.turn, LocationOf(x), DomainParts(x), x.result,
                               RevisionOf[x.context])
    \/ stage = "limitation" /\ Ctx!MayRecordLimitation(<<x.id, "tool">>, x.turn)
    \/ stage = "diagnostic" /\ Ctx!MayRecordDiagnostic

AbandonsSilently(stage, fault) ==
    /\ call' = None
    /\ todo' = <<>>
    /\ UNCHANGED <<failure, stored, made, submitted>>

\* The runner's handler: trace the failure, record a limitation if it can.
Abandon(stage, fault) ==
    /\ failure' = [failure EXCEPT ![call.id] = [stage |-> stage, fault |-> fault]]
    /\ call' = None
    /\ todo' = <<>>
    /\ UNCHANGED <<stored, made, submitted>>

DiagnoseAbandoned ==
    Ctx!RecordLimitation(<<call.id, "projection">>, current_turn.id)

-----------------------------------------------------------------------------
Init ==
    /\ Ctx!Init
    /\ stored = {}
    /\ made = [o \in Call |-> None]
    /\ call = None
    /\ todo = <<>>
    /\ failure = [o \in Call |-> None]
    /\ submitted = {}
    /\ faults = 0

\* A turn starts only after every earlier one succeeded.
StartTurn(t) ==
    /\ \A u \in Ctx!Registered(turns) : turns[u].status = "success"
    /\ Ctx!StartTurn(t)
    /\ UNCHANGED toolVars

\* Pi executes a tool; its result reaches observe, which drops the started
\* call and begins to project.
CallTool(t) ==
    /\ Idle
    /\ current_turn # None /\ current_turn.id = t
    /\ t \notin submitted
    /\ \E x \in Possible(t) :
          /\ stored' = IF x.kind \in {"failed", "diverged"} THEN stored ELSE stored \cup Written(x)
          /\ made' = [made EXCEPT ![x.id] = x]
          /\ call' = x
          /\ todo' = Stages[x.kind]
    /\ UNCHANGED <<contextVars, failure, submitted, faults>>

\* Advance to the next stage; after the last the projection is done.
Advance == /\ todo' = Tail(todo)
           /\ call' = IF Len(todo) = 1 THEN None ELSE call
           /\ UNCHANGED <<stored, made, failure, submitted, faults>>

SkipKnown == /\ ~Idle
             /\ AlreadyKnown(Head(todo), call)
             /\ Advance
             /\ UNCHANGED contextVars

Project == /\ ~Idle
           /\ ~AlreadyKnown(Head(todo), call)
           /\ AppendEvent(Head(todo), call)
           /\ Advance

\* The reducer or the verifier rejects the next event.
Refused == /\ ~Idle
           /\ ~AlreadyKnown(Head(todo), call)
           /\ ~Accepted(Head(todo), call)
           /\ Abandon(Head(todo), FALSE)
           /\ DiagnoseAbandoned
           /\ UNCHANGED faults

\* The next append fails on I/O, leaving the snapshot in memory as it was.
AppendFault == /\ ~Idle
               /\ faults < MaxFaults
               /\ Abandon(Head(todo), TRUE)
               /\ faults' = faults + 1
               /\ DiagnoseAbandoned

\* ... and so does the append of the limitation in the same
\* outage: the trace alone tells.
AppendAndDiagnosisFault == /\ ~Idle
                           /\ faults < MaxFaults
                           /\ Abandon(Head(todo), TRUE)
                           /\ faults' = faults + 1
                           /\ UNCHANGED contextVars

\* The accepted answer is recorded; its claims are results and evidence the
\* simulator has returned.
SubmitAnswer(t) ==
    /\ Idle
    /\ t \notin submitted
    /\ \E claims \in {stored \cap Result, {}} : Ctx!SubmitAnswer(t, claims)
    /\ submitted' = submitted \cup {t}
    /\ UNCHANGED <<stored, made, call, todo, failure, faults>>

CloseTurn(t) ==
    /\ Idle
    /\ Ctx!CompleteTurn(t, IF t \in submitted THEN "success" ELSE "failed")
    /\ UNCHANGED toolVars

Next ==
    \/ \E t \in Turn : StartTurn(t) \/ CallTool(t) \/ SubmitAnswer(t) \/ CloseTurn(t)
    \/ SkipKnown
    \/ Project
    \/ Refused
    \/ AppendFault
    \/ AppendAndDiagnosisFault

Spec == Init /\ [][Next]_vars

-----------------------------------------------------------------------------
(* Properties *)

\* Whatever the snapshot says of a result or a calculation is what the
\* simulator's documents say: the result's own context is a registered
\* baseline of the document's revision, and a calculation is located there
\* and has its evidence registered -- although the stages that register them
\* are separate appends, any of which can fail (projector.py _append_*); and
\* a projection that ran to its end registered everything its observation
\* says the call produced (projector.py _produced_refs against the stages) --
\* unless the call was an analysis that did not converge: the evidence its error
\* names is recorded as produced, and no stage registers it.
ResultsGrounded ==
    \A r \in Ctx!Registered(results) :
        /\ baselines[ContextOf[r]] = RevisionOf[ContextOf[r]]
        /\ results[r].revision = RevisionOf[ContextOf[r]]
CalculationsGrounded ==
    \A r \in Ctx!Registered(calculations) :
        /\ r \in Ctx!Registered(results)
        /\ calculations[r].context = ContextOf[r]
        /\ evidence[EvidenceOf[r]] # None
ProducedKnown ==
    \A o \in Ctx!Registered(observations) :
        failure[o] # None \/ (~Idle /\ call.id = o)
        \/ made[o].kind = "diverged"
        \/ observations[o].produced \subseteq Ctx!KnownRefs
Grounded == ResultsGrounded /\ CalculationsGrounded /\ ProducedKnown

\* No result the simulator returned is silently absent: it is registered, its
\* projection is under way, or the projection of every call that returned it
\* failed and was traced (runner.py _observe_semantic_event).
Returned(r) == {o \in Call : made[o] # None /\ made[o].kind = "analyse" /\ made[o].result = r}
AbsenceTraced ==
    \A r \in stored \cap Result :
        r \in Ctx!Registered(results)
        \/ \A o \in Returned(r) : failure[o] # None \/ (~Idle /\ call.id = o)

\* Refusals alone never block a turn: as long as no append failed on I/O, the
\* active turn can be closed between tool calls, whatever the reducer
\* rejected before (reducer.py _complete_turn against projector.py).
Closable == current_turn.consumed \subseteq Ctx!KnownRefs
RefusalsDoNotBlock == Idle /\ current_turn # None /\ faults = 0 => Closable

\* The active baseline moves only when Pi opens or derives a model.  A tool
\* that merely uses a context can move it too, but only to make up for a
\* failed projection that should have registered that context (projector.py
\* _append_missing_baselines).
ActiveBaselineMoves ==
    [][active_context' # active_context =>
          \/ call.kind \in {"open", "derive"}
          \/ \E o \in Call : /\ failure[o] # None
                             /\ made[o].kind \in {"open", "derive"}
                             /\ made[o].context = active_context']_vars

-----------------------------------------------------------------------------
(* What a comment says of a projection, and the code does not do. *)

\* Running an analysis again is "a reuse in a different tool observation, not
\* a conflicting new result": no projection of an analysis is refused for
\* the calculation it names (projector.py _append_domain_state).
ReuseIsNoConflict ==
    \A o \in Call : failure[o] = [stage |-> "domain", fault |-> FALSE]
                        => made[o].kind # "analyse"

=============================================================================
