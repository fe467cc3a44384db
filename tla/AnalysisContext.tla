--------------------------- MODULE AnalysisContext ---------------------------
(***************************************************************************)
(* The Analysis Context state machine: reduce_context of                   *)
(* grid_agent/analysis/reducer.py over the AnalysisContext snapshot of     *)
(* grid_agent/analysis/models.py.  One action per event handler; an event  *)
(* the reducer rejects (ContextTransitionError) is an event whose action   *)
(* is disabled.                                                            *)
(*                                                                         *)
(* Abstractions.  A reference is a model value of the kind its prefix      *)
(* names (context:, result:, evidence:, fact:).  Of a payload only what a  *)
(* guard or a property reads is kept: the revision of a baseline or a      *)
(* result, the references of an observation, an evidence record or a fact, *)
(* the producer turn.  The list of completed turns is kept by turn id      *)
(* (no handler reads its order); revision and state_hash, which only the   *)
(* store checks, are modelled in RunLedger.                                *)
(***************************************************************************)
EXTENDS Naturals, FiniteSets

CONSTANTS
    Turn,           \* turn ids: <analysis_id>-t001, -t002, ...
    Context,        \* context:sha256: references
    Revision,       \* model revision references
    Result,         \* result:sha256: references
    Evidence,       \* evidence:sha256: references
    Observation,    \* observation references (one per tool call)
    Fact,           \* fact:sha256: references
    Limitation,     \* limitation references
    DomainRef,      \* constraint, scenario and artifact references
    None,           \* Python's None, an absent dictionary key
    MaxRefs,        \* bound: references named by one event
    MaxDiagnostics  \* bound: diagnostic records kept

Ref == Context \cup Result \cup Evidence \cup Fact

Location         == [context : Context, revision : Revision]
ActiveTurn       == [id : Turn, consumed : SUBSET Ref, produced : SUBSET Ref]
TurnRecord       == [status : {"success", "failed"},
                     consumed : SUBSET Ref, produced : SUBSET Ref]
ObservationRecord == [turn : Turn, ranking : BOOLEAN,
                      consumed : SUBSET Ref, produced : SUBSET Ref]
ResultRecord     == [turn : Turn, revision : Revision]
EvidenceRecord   == [refs : SUBSET Ref, simulator : BOOLEAN]
VerifiedFact     == [evidence_refs : SUBSET Evidence]
LimitationRecord  == [turn : Turn \cup {None}]
DomainRecord     == [context : Context, revision : Revision, turn : Turn]
DomainParts      == {"model", "operating_state", "calculation", "record"}

\* None is no payload, and references of different kinds are different.
ASSUME NoneIsFresh ==
    /\ None \notin Turn \cup Context \cup Revision \cup Ref
    /\ None \notin Location \cup ActiveTurn \cup TurnRecord \cup ObservationRecord
    /\ None \notin ResultRecord \cup EvidenceRecord \cup VerifiedFact
    /\ None \notin LimitationRecord \cup DomainRecord

ASSUME KindsAreDisjoint ==
    /\ Context \cap (Result \cup Evidence \cup Fact) = {}
    /\ Result \cap (Evidence \cup Fact) = {}
    /\ Evidence \cap Fact = {}

ASSUME BoundsAreNaturals == MaxRefs \in Nat /\ MaxDiagnostics \in Nat

VARIABLES
    status,          \* AnalysisContext.status
    baselines,       \* context reference -> revision of its BaselineRecord
    active_context,  \* AnalysisContext.active_context_ref
    current_turn,    \* the ActiveTurn, or None
    turns,           \* turn id -> TurnRecord of a completed turn
    observations, results, evidence, verified_facts,
    limitations,     \* unresolved_limitations, by reference
    diagnostics,     \* number of DiagnosticRecords
    model,           \* domain_state.model
    operating_state, \* domain_state.operating_state
    calculations,    \* domain_state.calculations, by result reference
    domain_records   \* domain_state.constraints, scenarios and artifacts

turnVars   == <<current_turn, turns>>
recordVars == <<observations, results, evidence, verified_facts>>
noteVars   == <<limitations, diagnostics>>
domainVars == <<model, operating_state, calculations, domain_records>>
vars == <<status, baselines, active_context, turnVars, recordVars, noteVars, domainVars>>

-----------------------------------------------------------------------------
Absent(S)     == [key \in S |-> None]
Registered(f) == {key \in DOMAIN f : f[key] # None}

\* Faulty variants of the next definitions, here and below: what the checked
\* properties have to tell from the code.
UpsertOverwrites(f, key, value) == TRUE

\* _upsert_record accepts a new key, and a known key with the same content.
Admissible(f, key, value) == f[key] \in {None, value}

FewRefs(S) == {refs \in SUBSET S : Cardinality(refs) <= MaxRefs}

Terminal == status \in {"completed", "failed"}

KnownRefs == Registered(baselines) \cup Registered(results) \cup Registered(evidence)
             \cup Registered(verified_facts) \cup ({active_context} \ {None})

\* _require_active_turn: there is an active turn and the event is bound to it.
InTurn(t) == /\ ~Terminal
             /\ current_turn # None
             /\ current_turn.id = t

MergeNestsLists(consumed, produced) ==
    [current_turn EXCEPT !.consumed = @ \cup {consumed}]
MergeForgetsProduced(consumed, produced) ==
    [current_turn EXCEPT !.consumed = @ \cup consumed]
MergeReplaces(consumed, produced) ==
    [current_turn EXCEPT !.consumed = consumed, !.produced = produced]

\* _merge_turn_refs
MergeTurnRefs(consumed, produced) ==
    [current_turn EXCEPT !.consumed = @ \cup consumed, !.produced = @ \cup produced]

\* _require_baseline_revision
AtBaseline(loc) == baselines[loc.context] = loc.revision

-----------------------------------------------------------------------------
Init ==
    /\ status = "initializing"
    /\ baselines = Absent(Context)
    /\ active_context = None
    /\ current_turn = None
    /\ turns = Absent(Turn)
    /\ observations = Absent(Observation)
    /\ results = Absent(Result)
    /\ evidence = Absent(Evidence)
    /\ verified_facts = Absent(Fact)
    /\ limitations = Absent(Limitation)
    /\ diagnostics = 0
    /\ model = None
    /\ operating_state = None
    /\ calculations = Absent(Result)
    /\ domain_records = Absent(DomainRef)

\* analysis.started
StartAnalysis ==
    /\ ~Terminal
    /\ status' = "running"
    /\ UNCHANGED <<baselines, active_context, turnVars, recordVars, noteVars, domainVars>>

\* turn.started
StartTurn(t) ==
    /\ ~Terminal
    /\ current_turn = None
    /\ turns[t] = None
    /\ status' = "running"
    /\ current_turn' = [id |-> t, consumed |-> {}, produced |-> {}]
    /\ UNCHANGED <<baselines, active_context, turns, recordVars, noteVars, domainVars>>

\* What the reducer accepts of an event is an operator of its own: the
\* projection also asks what the reducer would reject.

\* simulator.context.opened
MayOpenContext(t, c, revision) == InTurn(t) /\ Admissible(baselines, c, revision)

OpenSimulatorContext(t, c, revision) ==
    /\ MayOpenContext(t, c, revision)
    /\ baselines' = [baselines EXCEPT ![c] = revision]
    /\ active_context' = c
    /\ UNCHANGED <<status, turnVars, recordVars, noteVars, domainVars>>

\* tool.observation.recorded.  A consumed context reference need not be
\* registered yet; a ranking reads a registered result and produces nothing.
ObservationOf(t, ranking, consumed, produced) ==
    [turn |-> t, ranking |-> ranking, consumed |-> consumed, produced |-> produced]

MayRecordObservation(t, o, ranking, consumed, produced) ==
    /\ InTurn(t)
    /\ consumed \subseteq KnownRefs \cup Context
    /\ ranking => produced = {} /\ consumed \cap Registered(results) # {}
    /\ Admissible(observations, o, ObservationOf(t, ranking, consumed, produced))

RecordObservation(t, o, ranking, consumed, produced) ==
    /\ MayRecordObservation(t, o, ranking, consumed, produced)
    /\ observations' =
           [observations EXCEPT ![o] = ObservationOf(t, ranking, consumed, produced)]
    /\ current_turn' = MergeTurnRefs(consumed, produced)
    /\ UNCHANGED <<status, baselines, active_context, turns, results, evidence,
                   verified_facts, noteVars, domainVars>>

\* answer.submitted.  References the context does not know are dropped from
\* the turn's lineage (the audit reports them), known ones become consumed.
SubmitAnswer(t, refs) ==
    LET known == Registered(baselines) \cup Registered(results) \cup Registered(evidence)
    IN /\ InTurn(t)
       /\ current_turn' = MergeTurnRefs(refs \cap known, {})
       /\ UNCHANGED <<status, baselines, active_context, turns, recordVars, noteVars, domainVars>>

\* result.registered.  The result must be of the active baseline's revision.
MayRegisterResult(t, r, revision) ==
    /\ InTurn(t)
    /\ active_context # None
    /\ revision = baselines[active_context]
    /\ Admissible(results, r, [turn |-> t, revision |-> revision])

RegisterResult(t, r, revision) ==
    /\ MayRegisterResult(t, r, revision)
    /\ results' = [results EXCEPT ![r] = [turn |-> t, revision |-> revision]]
    /\ current_turn' = MergeTurnRefs({}, {r})
    /\ UNCHANGED <<status, baselines, active_context, turns, observations, evidence,
                   verified_facts, noteVars, domainVars>>

\* evidence.registered.  The event needs no turn: t is its turn_id or None.
MayRegisterEvidence(e, refs, simulator) ==
    /\ ~Terminal
    /\ refs \subseteq KnownRefs
    /\ Admissible(evidence, e, [refs |-> refs, simulator |-> simulator])

RegisterEvidence(t, e, refs, simulator) ==
    /\ MayRegisterEvidence(e, refs, simulator)
    /\ evidence' = [evidence EXCEPT ![e] = [refs |-> refs, simulator |-> simulator]]
    /\ current_turn' = IF current_turn # None /\ current_turn.id = t
                       THEN MergeTurnRefs({}, {e})
                       ELSE current_turn
    /\ UNCHANGED <<status, baselines, active_context, turns, observations, results,
                   verified_facts, noteVars, domainVars>>

\* fact.verified.  A fact rests on registered evidence of the simulator.
MayRecordFact(f, refs) ==
    /\ ~Terminal
    /\ refs # {}
    /\ \A e \in refs : evidence[e] # None /\ evidence[e].simulator
    /\ Admissible(verified_facts, f, [evidence_refs |-> refs])

RecordVerifiedFact(f, refs) ==
    /\ MayRecordFact(f, refs)
    /\ verified_facts' = [verified_facts EXCEPT ![f] = [evidence_refs |-> refs]]
    /\ UNCHANGED <<status, baselines, active_context, turnVars, observations, results,
                   evidence, noteVars, domainVars>>

\* domain.state.projected: one delta, whose records all come from one tool
\* result and so share its location.  A part that is None is absent; one
\* part the reducer refuses refuses the whole delta.
DomainRecordOf(t, loc) == [context |-> loc.context, revision |-> loc.revision, turn |-> t]

MayProjectDomain(t, loc, parts, r, d) ==
    /\ InTurn(t)
    /\ parts # {} => AtBaseline(loc)
    /\ "calculation" \in parts => /\ results[r] # None
                                  /\ results[r].revision = loc.revision
                                  /\ Admissible(calculations, r, DomainRecordOf(t, loc))
    /\ "record" \in parts => Admissible(domain_records, d, DomainRecordOf(t, loc))

ProjectDomainState(t, loc, parts, r, d) ==
    LET record == DomainRecordOf(t, loc)
    IN /\ MayProjectDomain(t, loc, parts, r, d)
       /\ model' = IF "model" \in parts THEN loc ELSE model
       /\ operating_state' = IF "operating_state" \in parts THEN record ELSE operating_state
       /\ calculations' = IF "calculation" \in parts
                          THEN [calculations EXCEPT ![r] = record] ELSE calculations
       /\ domain_records' = IF "record" \in parts
                            THEN [domain_records EXCEPT ![d] = record] ELSE domain_records
       /\ UNCHANGED <<status, baselines, active_context, turnVars, recordVars, noteVars>>

\* tool.failed and audit.diagnostic.recorded, with or without a turn
MayRecordDiagnostic == ~Terminal /\ diagnostics < MaxDiagnostics

RecordDiagnostic ==
    /\ MayRecordDiagnostic
    /\ diagnostics' = diagnostics + 1
    /\ UNCHANGED <<status, baselines, active_context, turnVars, recordVars, limitations, domainVars>>

\* limitation.recorded; t is the event's turn_id or None
MayRecordLimitation(l, t) == ~Terminal /\ Admissible(limitations, l, [turn |-> t])

RecordLimitation(l, t) ==
    /\ MayRecordLimitation(l, t)
    /\ limitations' = [limitations EXCEPT ![l] = [turn |-> t]]
    /\ UNCHANGED <<status, baselines, active_context, turnVars, recordVars, diagnostics, domainVars>>

\* limitation.resolved
ResolveLimitation(l) ==
    /\ ~Terminal
    /\ limitations[l] # None
    /\ limitations' = [limitations EXCEPT ![l] = None]
    /\ UNCHANGED <<status, baselines, active_context, turnVars, recordVars, diagnostics, domainVars>>

\* turn.completed.  The turn controller's payload names no references, so
\* the frozen lineage is what the turn accumulated; it must be known, now
\* without the allowance for unregistered contexts.
CompleteTurn(t, outcome) ==
    /\ InTurn(t)
    /\ turns[t] = None
    /\ current_turn.consumed \subseteq KnownRefs
    /\ turns' = [turns EXCEPT ![t] = [status |-> outcome,
                                      consumed |-> current_turn.consumed,
                                      produced |-> current_turn.produced]]
    /\ current_turn' = None
    /\ UNCHANGED <<status, baselines, active_context, recordVars, noteVars, domainVars>>

CompletesDuringTurn(outcome) ==
    /\ ~Terminal
    /\ status' = outcome
    /\ UNCHANGED <<baselines, active_context, turnVars, recordVars, noteVars, domainVars>>

\* analysis.completed and analysis.failed
CompleteAnalysis(outcome) ==
    /\ ~Terminal
    /\ current_turn = None
    /\ status' = outcome
    /\ UNCHANGED <<baselines, active_context, turnVars, recordVars, noteVars, domainVars>>

Next ==
    \/ StartAnalysis
    \/ RecordDiagnostic
    \/ \E outcome \in {"completed", "failed"} : CompleteAnalysis(outcome)
    \/ \E l \in Limitation : ResolveLimitation(l)
    \/ \E l \in Limitation, t \in Turn \cup {None} : RecordLimitation(l, t)
    \/ \E f \in Fact, refs \in SUBSET Evidence : RecordVerifiedFact(f, refs)
    \/ \E e \in Evidence, t \in Turn \cup {None}, refs \in FewRefs(Ref), simulator \in BOOLEAN :
          RegisterEvidence(t, e, refs, simulator)
    \/ \E t \in Turn : StartTurn(t)
    \/ \E t \in Turn, c \in Context, revision \in Revision : OpenSimulatorContext(t, c, revision)
    \/ \E t \in Turn, o \in Observation, ranking \in BOOLEAN,
          consumed \in FewRefs(Ref), produced \in FewRefs(Ref) :
          RecordObservation(t, o, ranking, consumed, produced)
    \/ \E t \in Turn, r \in Result, revision \in Revision : RegisterResult(t, r, revision)
    \/ \E t \in Turn, loc \in Location, r \in Result, d \in DomainRef, parts \in SUBSET DomainParts :
          ProjectDomainState(t, loc, parts, r, d)
    \/ \E t \in Turn, refs \in FewRefs(Result \cup Evidence) : SubmitAnswer(t, refs)
    \/ \E t \in Turn, outcome \in {"success", "failed"} : CompleteTurn(t, outcome)

Spec == Init /\ [][Next]_vars

-----------------------------------------------------------------------------
(* Properties *)

\* Every part of the snapshot holds records of its kind.
TypeOK ==
    /\ status \in {"initializing", "running", "completed", "failed"}
    /\ baselines \in [Context -> Revision \cup {None}]
    /\ active_context \in Context \cup {None}
    /\ current_turn \in ActiveTurn \cup {None}
    /\ turns \in [Turn -> TurnRecord \cup {None}]
    /\ observations \in [Observation -> ObservationRecord \cup {None}]
    /\ results \in [Result -> ResultRecord \cup {None}]
    /\ evidence \in [Evidence -> EvidenceRecord \cup {None}]
    /\ verified_facts \in [Fact -> VerifiedFact \cup {None}]
    /\ limitations \in [Limitation -> LimitationRecord \cup {None}]
    /\ diagnostics \in 0..MaxDiagnostics
    /\ model \in Location \cup {None}
    /\ operating_state \in DomainRecord \cup {None}
    /\ calculations \in [Result -> DomainRecord \cup {None}]
    /\ domain_records \in [DomainRef -> DomainRecord \cup {None}]

\* Lineage is closed: evidence cites only registered references, a fact rests
\* on registered simulator evidence, and what a closed turn consumed is still
\* registered -- however records were registered and turns interleaved
\* (reducer.py _require_known_refs, _require_simulator_evidence_refs).
EvidenceClosed == \A e \in Registered(evidence) : evidence[e].refs \subseteq KnownRefs
FactsGrounded  == \A f \in Registered(verified_facts) :
                      /\ verified_facts[f].evidence_refs # {}
                      /\ \A e \in verified_facts[f].evidence_refs :
                             e \in Registered(evidence) /\ evidence[e].simulator
TurnsClosed    == \A t \in Registered(turns) : turns[t].consumed \subseteq KnownRefs
LineageClosed  == EvidenceClosed /\ FactsGrounded /\ TurnsClosed

\* Every fact of the domain state names a registered baseline at the very
\* revision it was registered with, a calculation is of a registered result of
\* that revision, and no result is of a revision no baseline has
\* (reducer.py _project_domain_state, _register_result).
Located(f)        == \A key \in Registered(f) : AtBaseline(f[key])
CalculationsMatch == \A r \in Registered(calculations) :
                         /\ r \in Registered(results)
                         /\ results[r].revision = calculations[r].revision
ResultsHaveBaseline == \A r \in Registered(results) :
                           \E c \in Registered(baselines) : baselines[c] = results[r].revision
ActiveRegistered == active_context # None => active_context \in Registered(baselines)
RevisionsAgree ==
    /\ ActiveRegistered
    /\ model # None => AtBaseline(model)
    /\ operating_state # None => AtBaseline(operating_state)
    /\ Located(calculations)
    /\ Located(domain_records)
    /\ CalculationsMatch
    /\ ResultsHaveBaseline

\* Every registered result is in the produced lineage of the one turn it
\* names as its producer, and every observation's references are in the
\* lineage of its turn, also after that turn closed: nothing the run's report
\* attributes to a turn is missing from the turn's record (reducer.py
\* _merge_turn_refs, _complete_turn).
Lineage(t) == IF current_turn # None /\ current_turn.id = t THEN current_turn ELSE turns[t]
HasLineage(t) == (current_turn # None /\ current_turn.id = t) \/ turns[t] # None
Covers(t, consumed, produced) ==
    /\ HasLineage(t)
    /\ consumed \subseteq Lineage(t).consumed
    /\ produced \subseteq Lineage(t).produced
ResultsAttributed == \A r \in Registered(results) : Covers(results[r].turn, {}, {r})
ObservationsAttributed ==
    \A o \in Registered(observations) :
        Covers(observations[o].turn, observations[o].consumed, observations[o].produced)
ProducersAttributed == ResultsAttributed /\ ObservationsAttributed

\* The active turn is not one that was already closed, and a terminal context
\* has no active turn (reducer.py _start_turn, _complete_analysis).
TurnDiscipline ==
    /\ current_turn # None => turns[current_turn.id] = None
    /\ Terminal => current_turn = None

\* What is registered is registered for good: baselines, results, evidence,
\* facts, observations, calculations and closed turns are never rewritten or
\* dropped (reducer.py _upsert_record), so a later revision of the context
\* still explains an earlier answer.
Preserved(f, g) == \A key \in Registered(f) : g[key] = f[key]
NothingRewritten ==
    /\ Preserved(baselines, baselines')
    /\ Preserved(turns, turns')
    /\ Preserved(observations, observations')
    /\ Preserved(results, results')
    /\ Preserved(evidence, evidence')
    /\ Preserved(verified_facts, verified_facts')
    /\ Preserved(calculations, calculations')
    /\ Preserved(domain_records, domain_records')
RecordsImmutable == [][NothingRewritten]_vars

\* A turn is bound to its identity until it closes: no event swaps the active
\* turn for another or shrinks its lineage, and closing it freezes exactly the
\* lineage it had (reducer.py _start_turn, _complete_turn).
LineageKept ==
    current_turn # None =>
        IF current_turn' # None
        THEN /\ current_turn'.id = current_turn.id
             /\ current_turn.consumed \subseteq current_turn'.consumed
             /\ current_turn.produced \subseteq current_turn'.produced
        ELSE /\ turns'[current_turn.id] # None
             /\ turns'[current_turn.id].consumed = current_turn.consumed
             /\ turns'[current_turn.id].produced = current_turn.produced
TurnLineageKept == [][LineageKept]_vars

=============================================================================
