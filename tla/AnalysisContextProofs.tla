------------------------ MODULE AnalysisContextProofs ------------------------
(***************************************************************************)
(* Proofs, for every set of turns, references and revisions, of the        *)
(* invariants and action properties of AnalysisContext.                    *)
(*                                                                         *)
(* The argument: registered records are never rewritten (NothingRewritten, *)
(* an action invariant that needs only typing), so the references known to *)
(* the context only grow (KnownGrows); hence what a handler checked when   *)
(* it admitted a record stays true (IInv).                                 *)
(***************************************************************************)
EXTENDS AnalysisContext, TLAPS

-----------------------------------------------------------------------------
(* Typing *)

\* The merged lineage of an active turn is again an active turn.
LEMMA MergeTyped ==
    ASSUME current_turn \in ActiveTurn, NEW C \in SUBSET Ref, NEW P \in SUBSET Ref
    PROVE  /\ MergeTurnRefs(C, P) \in ActiveTurn
           /\ MergeTurnRefs(C, P).id = current_turn.id
           /\ MergeTurnRefs(C, P).consumed = current_turn.consumed \cup C
           /\ MergeTurnRefs(C, P).produced = current_turn.produced \cup P
  BY DEF MergeTurnRefs, ActiveTurn

\* Every step of the reducer leaves every part of the snapshot well typed.
LEMMA TypeStep == TypeOK /\ [Next]_vars => TypeOK'
<1> SUFFICES ASSUME TypeOK, [Next]_vars PROVE TypeOK'
  OBVIOUS
<1> USE DEF turnVars, recordVars, noteVars, domainVars
<1>1. CASE StartAnalysis
  BY <1>1 DEF StartAnalysis, TypeOK
<1>2. CASE RecordDiagnostic
  BY <1>2, BoundsAreNaturals DEF RecordDiagnostic, MayRecordDiagnostic, TypeOK
<1>3. ASSUME NEW outcome \in {"completed", "failed"}, CompleteAnalysis(outcome) PROVE TypeOK'
  BY <1>3 DEF CompleteAnalysis, TypeOK
<1>4. ASSUME NEW l \in Limitation, ResolveLimitation(l) PROVE TypeOK'
  BY <1>4 DEF ResolveLimitation, TypeOK
<1>5. ASSUME NEW l \in Limitation, NEW t \in Turn \cup {None}, RecordLimitation(l, t) PROVE TypeOK'
  BY <1>5 DEF RecordLimitation, MayRecordLimitation, TypeOK, LimitationRecord
<1>6. ASSUME NEW f \in Fact, NEW refs \in SUBSET Evidence, RecordVerifiedFact(f, refs) PROVE TypeOK'
  BY <1>6 DEF RecordVerifiedFact, MayRecordFact, TypeOK, VerifiedFact
<1>7. ASSUME NEW e \in Evidence, NEW t \in Turn \cup {None}, NEW refs \in FewRefs(Ref),
             NEW simulator \in BOOLEAN, RegisterEvidence(t, e, refs, simulator)
      PROVE  TypeOK'
  <2>1. refs \in SUBSET Ref /\ {} \in SUBSET Ref /\ {e} \in SUBSET Ref
    BY DEF FewRefs, Ref
  <2>2. evidence' \in [Evidence -> EvidenceRecord \cup {None}]
    BY <1>7, <2>1 DEF RegisterEvidence, MayRegisterEvidence, TypeOK, EvidenceRecord
  <2>3. current_turn' \in ActiveTurn \cup {None}
    <3>1. CASE current_turn # None /\ current_turn.id = t
      <4>1. current_turn \in ActiveTurn
        BY <3>1 DEF TypeOK
      <4>2. MergeTurnRefs({}, {e}) \in ActiveTurn
        BY <4>1, <2>1, MergeTyped
      <4> QED
        BY <1>7, <3>1, <4>2 DEF RegisterEvidence, MayRegisterEvidence
    <3>2. CASE ~(current_turn # None /\ current_turn.id = t)
      BY <1>7, <3>2 DEF RegisterEvidence, MayRegisterEvidence, TypeOK
    <3> QED
      BY <3>1, <3>2
  <2> QED
    BY <1>7, <2>2, <2>3 DEF RegisterEvidence, MayRegisterEvidence, TypeOK
<1>8. ASSUME NEW t \in Turn, StartTurn(t) PROVE TypeOK'
  BY <1>8 DEF StartTurn, TypeOK, ActiveTurn
<1>9. ASSUME NEW t \in Turn, NEW c \in Context, NEW revision \in Revision,
             OpenSimulatorContext(t, c, revision)
      PROVE  TypeOK'
  BY <1>9 DEF OpenSimulatorContext, MayOpenContext, TypeOK
<1>10. ASSUME NEW t \in Turn, NEW o \in Observation, NEW ranking \in BOOLEAN,
              NEW consumed \in FewRefs(Ref), NEW produced \in FewRefs(Ref),
              RecordObservation(t, o, ranking, consumed, produced)
       PROVE  TypeOK'
  <2>1. consumed \in SUBSET Ref /\ produced \in SUBSET Ref
    BY DEF FewRefs
  <2>2. observations' \in [Observation -> ObservationRecord \cup {None}]
    BY <1>10, <2>1 DEF RecordObservation, MayRecordObservation, ObservationOf, TypeOK,
                       ObservationRecord
  <2>3. current_turn' \in ActiveTurn \cup {None}
    BY <1>10, <2>1, MergeTyped DEF RecordObservation, MayRecordObservation, ObservationOf,
           InTurn, TypeOK
  <2> QED
    BY <1>10, <2>2, <2>3 DEF RecordObservation, MayRecordObservation, ObservationOf, TypeOK
<1>11. ASSUME NEW t \in Turn, NEW r \in Result, NEW revision \in Revision,
              RegisterResult(t, r, revision)
       PROVE  TypeOK'
  <2>1. {} \in SUBSET Ref /\ {r} \in SUBSET Ref
    BY DEF Ref
  <2>2. results' \in [Result -> ResultRecord \cup {None}]
    BY <1>11 DEF RegisterResult, MayRegisterResult, TypeOK, ResultRecord
  <2>3. current_turn' \in ActiveTurn \cup {None}
    BY <1>11, <2>1, MergeTyped DEF RegisterResult, MayRegisterResult, InTurn, TypeOK
  <2> QED
    BY <1>11, <2>2, <2>3 DEF RegisterResult, MayRegisterResult, TypeOK
<1>12. ASSUME NEW t \in Turn, NEW loc \in Location, NEW r \in Result, NEW d \in DomainRef,
              NEW parts \in SUBSET DomainParts,
              ProjectDomainState(t, loc, parts, r, d)
       PROVE  TypeOK'
  <2>1. [context |-> loc.context, revision |-> loc.revision, turn |-> t] \in DomainRecord
    BY DEF Location, DomainRecord
  <2>2. calculations' \in [Result -> DomainRecord \cup {None}]
    BY <1>12, <2>1 DEF ProjectDomainState, MayProjectDomain, DomainRecordOf, TypeOK
  <2>3. domain_records' \in [DomainRef -> DomainRecord \cup {None}]
    BY <1>12, <2>1 DEF ProjectDomainState, MayProjectDomain, DomainRecordOf, TypeOK
  <2>4. model' \in Location \cup {None} /\ operating_state' \in DomainRecord \cup {None}
    BY <1>12, <2>1 DEF ProjectDomainState, MayProjectDomain, DomainRecordOf, TypeOK
  <2> QED
    BY <1>12, <2>2, <2>3, <2>4 DEF ProjectDomainState, MayProjectDomain, DomainRecordOf, TypeOK
<1>13. ASSUME NEW t \in Turn, NEW refs \in FewRefs(Result \cup Evidence), SubmitAnswer(t, refs)
       PROVE  TypeOK'
  <2>1. refs \in SUBSET Ref /\ {} \in SUBSET Ref
    BY DEF FewRefs, Ref
  <2>2. current_turn' \in ActiveTurn \cup {None}
    BY <1>13, <2>1, MergeTyped DEF SubmitAnswer, InTurn, TypeOK
  <2> QED
    BY <1>13, <2>2 DEF SubmitAnswer, TypeOK
<1>14. ASSUME NEW t \in Turn, NEW outcome \in {"success", "failed"}, CompleteTurn(t, outcome)
       PROVE  TypeOK'
  BY <1>14 DEF CompleteTurn, InTurn, TypeOK, ActiveTurn, TurnRecord
<1>15. CASE UNCHANGED vars
  BY <1>15 DEF vars, TypeOK
<1> QED
  BY <1>1, <1>2, <1>3, <1>4, <1>5, <1>6, <1>7, <1>8, <1>9, <1>10, <1>11, <1>12, <1>13,
     <1>14, <1>15 DEF Next

\* The snapshot is well typed in every reachable state.
THEOREM TypeCorrect == Spec => []TypeOK
<1>1. Init => TypeOK
  BY BoundsAreNaturals DEF Init, TypeOK, Absent
<1> QED
  BY <1>1, TypeStep, PTL DEF Spec

-----------------------------------------------------------------------------
(* What each event may touch *)

\* The only handlers that write each part of the snapshot.
LEMMA Frame ==
    ASSUME [Next]_vars
    PROVE
    /\ \/ UNCHANGED <<baselines, active_context>>
       \/ \E t \in Turn, c \in Context, revision \in Revision :
             OpenSimulatorContext(t, c, revision)
    /\ \/ UNCHANGED results
       \/ \E t \in Turn, r \in Result, revision \in Revision : RegisterResult(t, r, revision)
    /\ \/ UNCHANGED observations
       \/ \E t \in Turn, o \in Observation, ranking \in BOOLEAN,
             consumed \in FewRefs(Ref), produced \in FewRefs(Ref) :
             RecordObservation(t, o, ranking, consumed, produced)
    /\ \/ UNCHANGED evidence
       \/ \E e \in Evidence, t \in Turn \cup {None}, refs \in FewRefs(Ref),
             simulator \in BOOLEAN : RegisterEvidence(t, e, refs, simulator)
    /\ \/ UNCHANGED verified_facts
       \/ \E f \in Fact, refs \in SUBSET Evidence : RecordVerifiedFact(f, refs)
    /\ \/ UNCHANGED domainVars
       \/ \E t \in Turn, loc \in Location, r \in Result, d \in DomainRef,
             parts \in SUBSET DomainParts :
             ProjectDomainState(t, loc, parts, r, d)
    /\ \/ UNCHANGED turns
       \/ \E t \in Turn, outcome \in {"success", "failed"} : CompleteTurn(t, outcome)
<1> USE DEF turnVars, recordVars, noteVars, domainVars
<1>1. CASE UNCHANGED vars
  BY <1>1 DEF vars
<1>2. CASE StartAnalysis \/ RecordDiagnostic
           \/ \E outcome \in {"completed", "failed"} : CompleteAnalysis(outcome)
           \/ \E l \in Limitation : ResolveLimitation(l)
           \/ \E note \in Limitation, t \in Turn \cup {None} : RecordLimitation(note, t)
  BY <1>2 DEF StartAnalysis, RecordDiagnostic, MayRecordDiagnostic, CompleteAnalysis,
              ResolveLimitation, RecordLimitation, MayRecordLimitation
<1>3. CASE \E f \in Fact, refs \in SUBSET Evidence : RecordVerifiedFact(f, refs)
  BY <1>3 DEF RecordVerifiedFact, MayRecordFact
<1>4. CASE \E e \in Evidence, t \in Turn \cup {None}, refs \in FewRefs(Ref),
              simulator \in BOOLEAN : RegisterEvidence(t, e, refs, simulator)
  BY <1>4 DEF RegisterEvidence, MayRegisterEvidence
<1>5. ASSUME NEW t \in Turn, StartTurn(t)
      PROVE  UNCHANGED <<baselines, active_context, turns, recordVars, domainVars>>
  BY <1>5 DEF StartTurn
<1>6. CASE \E t \in Turn, c \in Context, revision \in Revision :
              OpenSimulatorContext(t, c, revision)
  BY <1>6 DEF OpenSimulatorContext, MayOpenContext
<1>7. CASE \E t \in Turn, o \in Observation, ranking \in BOOLEAN,
              consumed \in FewRefs(Ref), produced \in FewRefs(Ref) :
              RecordObservation(t, o, ranking, consumed, produced)
  BY <1>7 DEF RecordObservation, MayRecordObservation, ObservationOf
<1>8. CASE \E t \in Turn, r \in Result, revision \in Revision : RegisterResult(t, r, revision)
  BY <1>8 DEF RegisterResult, MayRegisterResult
<1>9. CASE \E t \in Turn, loc \in Location, r \in Result, d \in DomainRef,
              parts \in SUBSET DomainParts :
              ProjectDomainState(t, loc, parts, r, d)
  <2>1. UNCHANGED <<baselines, active_context, turns, recordVars>>
    BY <1>9 DEF ProjectDomainState, MayProjectDomain, DomainRecordOf
  <2> QED
    BY <1>9, <2>1
<1>10. ASSUME NEW t \in Turn, NEW refs \in FewRefs(Result \cup Evidence), SubmitAnswer(t, refs)
       PROVE  UNCHANGED <<baselines, active_context, turns, recordVars, domainVars>>
  BY <1>10 DEF SubmitAnswer
<1>11. CASE \E t \in Turn, outcome \in {"success", "failed"} : CompleteTurn(t, outcome)
  BY <1>11 DEF CompleteTurn
<1> QED
  BY <1>1, <1>2, <1>3, <1>4, <1>5, <1>6, <1>7, <1>8, <1>9, <1>10, <1>11 DEF Next

-----------------------------------------------------------------------------
(* Records are immutable *)

\* Upserting an admissible record loses none that was registered.
LEMMA UpsertPreserves ==
    ASSUME NEW S, NEW V, NEW f \in [S -> V \cup {None}], NEW key \in S, NEW value,
           Admissible(f, key, value)
    PROVE  Preserved(f, [f EXCEPT ![key] = value])
  BY DEF Admissible, Preserved, Registered

\* What is unchanged is preserved.
LEMMA SamePreserves == ASSUME NEW f PROVE Preserved(f, f)
  BY DEF Preserved, Registered

\* No step rewrites or drops a registered record.
LEMMA RewriteStep == TypeOK /\ [Next]_vars => NothingRewritten
<1> SUFFICES ASSUME TypeOK, [Next]_vars PROVE NothingRewritten
  OBVIOUS
<1>1. Preserved(baselines, baselines')
  <2>1. ASSUME NEW t \in Turn, NEW c \in Context, NEW revision \in Revision,
               OpenSimulatorContext(t, c, revision)
        PROVE  Preserved(baselines, baselines')
    BY <2>1, UpsertPreserves DEF OpenSimulatorContext, MayOpenContext, TypeOK
  <2> QED
    BY <2>1, Frame, SamePreserves
<1>2. Preserved(turns, turns')
  <2>1. ASSUME NEW t \in Turn, NEW outcome \in {"success", "failed"}, CompleteTurn(t, outcome)
        PROVE  Preserved(turns, turns')
    BY <2>1 DEF CompleteTurn, Preserved, Registered, TypeOK
  <2> QED
    BY <2>1, Frame, SamePreserves
<1>3. Preserved(observations, observations')
  <2>1. ASSUME NEW t \in Turn, NEW o \in Observation, NEW ranking \in BOOLEAN,
               NEW consumed \in FewRefs(Ref), NEW produced \in FewRefs(Ref),
               RecordObservation(t, o, ranking, consumed, produced)
        PROVE  Preserved(observations, observations')
    BY <2>1, UpsertPreserves DEF RecordObservation, MayRecordObservation, ObservationOf, TypeOK
  <2> QED
    BY <2>1, Frame, SamePreserves
<1>4. Preserved(results, results')
  <2>1. ASSUME NEW t \in Turn, NEW r \in Result, NEW revision \in Revision,
               RegisterResult(t, r, revision)
        PROVE  Preserved(results, results')
    BY <2>1, UpsertPreserves DEF RegisterResult, MayRegisterResult, TypeOK
  <2> QED
    BY <2>1, Frame, SamePreserves
<1>5. Preserved(evidence, evidence')
  <2>1. ASSUME NEW e \in Evidence, NEW t \in Turn \cup {None}, NEW refs \in FewRefs(Ref),
               NEW simulator \in BOOLEAN, RegisterEvidence(t, e, refs, simulator)
        PROVE  Preserved(evidence, evidence')
    BY <2>1, UpsertPreserves DEF RegisterEvidence, MayRegisterEvidence, TypeOK
  <2> QED
    BY <2>1, Frame, SamePreserves
<1>6. Preserved(verified_facts, verified_facts')
  <2>1. ASSUME NEW f \in Fact, NEW refs \in SUBSET Evidence, RecordVerifiedFact(f, refs)
        PROVE  Preserved(verified_facts, verified_facts')
    BY <2>1, UpsertPreserves DEF RecordVerifiedFact, MayRecordFact, TypeOK
  <2> QED
    BY <2>1, Frame, SamePreserves
<1>7. Preserved(calculations, calculations') /\ Preserved(domain_records, domain_records')
  <2>1. ASSUME NEW t \in Turn, NEW loc \in Location, NEW r \in Result, NEW d \in DomainRef,
               NEW parts \in SUBSET DomainParts, ProjectDomainState(t, loc, parts, r, d)
        PROVE  Preserved(calculations, calculations') /\ Preserved(domain_records, domain_records')
    <3> DEFINE record == [context |-> loc.context, revision |-> loc.revision, turn |-> t]
    <3>1. calculations' = calculations
          \/ (/\ Admissible(calculations, r, record)
              /\ calculations' = [calculations EXCEPT ![r] = record])
      BY <2>1 DEF ProjectDomainState, MayProjectDomain, DomainRecordOf
    <3>2. domain_records' = domain_records
          \/ (/\ Admissible(domain_records, d, record)
              /\ domain_records' = [domain_records EXCEPT ![d] = record])
      BY <2>1 DEF ProjectDomainState, MayProjectDomain, DomainRecordOf
    <3> HIDE DEF record
    <3>3. Preserved(calculations, calculations')
      <4>1. calculations \in [Result -> DomainRecord \cup {None}]
        BY DEF TypeOK
      <4>2. Admissible(calculations, r, record)
            => Preserved(calculations, [calculations EXCEPT ![r] = record])
        BY <4>1, UpsertPreserves
      <4> QED
        BY <3>1, <4>2, SamePreserves
    <3>4. Preserved(domain_records, domain_records')
      <4>1. domain_records \in [DomainRef -> DomainRecord \cup {None}]
        BY DEF TypeOK
      <4>2. Admissible(domain_records, d, record)
            => Preserved(domain_records, [domain_records EXCEPT ![d] = record])
        BY <4>1, UpsertPreserves
      <4> QED
        BY <3>2, <4>2, SamePreserves
    <3> QED
      BY <3>3, <3>4
  <2>2. CASE UNCHANGED domainVars
    BY <2>2, SamePreserves DEF domainVars
  <2> QED
    BY <2>1, <2>2, Frame
<1> QED
  BY <1>1, <1>2, <1>3, <1>4, <1>5, <1>6, <1>7 DEF NothingRewritten

\* Registered records are never rewritten or dropped, by any step of any run.
THEOREM Immutable == Spec => RecordsImmutable
<1>1. TypeOK /\ [Next]_vars => [NothingRewritten]_vars
  BY RewriteStep
<1> QED
  BY <1>1, TypeCorrect, PTL DEF Spec, RecordsImmutable

-----------------------------------------------------------------------------
(* The known references only grow, so lineage stays closed *)

\* A record that is preserved stays registered.
LEMMA RegisteredGrows ==
    ASSUME NEW f, NEW g, DOMAIN f = DOMAIN g, Preserved(f, g)
    PROVE  Registered(f) \subseteq Registered(g)
  BY DEF Registered, Preserved

\* The active context is always a registered baseline.
LEMMA ActiveRegisteredStep == TypeOK /\ ActiveRegistered /\ [Next]_vars => ActiveRegistered'
<1> SUFFICES ASSUME TypeOK, ActiveRegistered, [Next]_vars PROVE ActiveRegistered'
  OBVIOUS
<1>1. CASE UNCHANGED <<baselines, active_context>>
  BY <1>1 DEF ActiveRegistered, Registered
<1>2. ASSUME NEW t \in Turn, NEW c \in Context, NEW revision \in Revision,
             OpenSimulatorContext(t, c, revision)
      PROVE  ActiveRegistered'
  BY <1>2, NoneIsFresh DEF OpenSimulatorContext, MayOpenContext, ActiveRegistered,
                           Registered, TypeOK
<1> QED
  BY <1>1, <1>2, Frame

\* No step makes a known reference unknown.
LEMMA KnownGrows ==
    TypeOK /\ ActiveRegistered /\ [Next]_vars => KnownRefs \subseteq KnownRefs'
<1> SUFFICES ASSUME TypeOK, ActiveRegistered, [Next]_vars PROVE KnownRefs \subseteq KnownRefs'
  OBVIOUS
<1>1. TypeOK' /\ NothingRewritten
  BY TypeStep, RewriteStep
<1>2. Registered(baselines) \subseteq Registered(baselines')
  BY <1>1, RegisteredGrows DEF TypeOK, NothingRewritten
<1>3. Registered(results) \subseteq Registered(results')
  BY <1>1, RegisteredGrows DEF TypeOK, NothingRewritten
<1>4. Registered(evidence) \subseteq Registered(evidence')
  BY <1>1, RegisteredGrows DEF TypeOK, NothingRewritten
<1>5. Registered(verified_facts) \subseteq Registered(verified_facts')
  BY <1>1, RegisteredGrows DEF TypeOK, NothingRewritten
<1>6. active_context # None => active_context \in Registered(baselines')
  BY <1>2 DEF ActiveRegistered
<1> QED
  BY <1>2, <1>3, <1>4, <1>5, <1>6 DEF KnownRefs

\* A step keeps the lineage closed: what was cited stays known, and the new
\* record was admitted against the references known before the step.
LEMMA ClosedStep ==
    TypeOK /\ ActiveRegistered /\ LineageClosed /\ [Next]_vars => LineageClosed'
<1> SUFFICES ASSUME TypeOK, ActiveRegistered, LineageClosed, [Next]_vars PROVE LineageClosed'
  OBVIOUS
<1>1. TypeOK' /\ NothingRewritten /\ KnownRefs \subseteq KnownRefs'
  BY TypeStep, RewriteStep, KnownGrows
<1>2. EvidenceClosed'
  <2>1. CASE UNCHANGED evidence
    BY <1>1, <2>1 DEF EvidenceClosed, LineageClosed, Registered
  <2>2. ASSUME NEW e \in Evidence, NEW t \in Turn \cup {None}, NEW refs \in FewRefs(Ref),
               NEW simulator \in BOOLEAN, RegisterEvidence(t, e, refs, simulator)
        PROVE  EvidenceClosed'
    <3>1. refs \subseteq KnownRefs
          /\ evidence' = [evidence EXCEPT ![e] = [refs |-> refs, simulator |-> simulator]]
      BY <2>2 DEF RegisterEvidence, MayRegisterEvidence
    <3> QED
      BY <1>1, <3>1 DEF EvidenceClosed, LineageClosed, Registered, TypeOK
  <2> QED
    BY <2>1, <2>2, Frame
<1>3. FactsGrounded'
  <2>1. \A e \in Evidence : evidence[e] # None => evidence'[e] = evidence[e]
    BY <1>1 DEF NothingRewritten, Preserved, Registered, TypeOK
  <2>2. CASE UNCHANGED verified_facts
    BY <1>1, <2>1, <2>2 DEF FactsGrounded, LineageClosed, Registered, TypeOK
  <2>3. ASSUME NEW f \in Fact, NEW refs \in SUBSET Evidence, RecordVerifiedFact(f, refs)
        PROVE  FactsGrounded'
    <3>1. /\ refs # {}
          /\ \A e \in refs : evidence[e] # None /\ evidence[e].simulator
          /\ verified_facts' = [verified_facts EXCEPT ![f] = [evidence_refs |-> refs]]
          /\ evidence' = evidence
      BY <2>3 DEF RecordVerifiedFact, MayRecordFact
    <3> QED
      BY <3>1 DEF FactsGrounded, LineageClosed, Registered, TypeOK
  <2> QED
    BY <2>2, <2>3, Frame
<1>4. TurnsClosed'
  <2>1. CASE UNCHANGED turns
    BY <1>1, <2>1 DEF TurnsClosed, LineageClosed, Registered
  <2>2. ASSUME NEW t \in Turn, NEW outcome \in {"success", "failed"}, CompleteTurn(t, outcome)
        PROVE  TurnsClosed'
    <3>1. /\ current_turn.consumed \subseteq KnownRefs
          /\ turns' = [turns EXCEPT ![t] = [status |-> outcome,
                                            consumed |-> current_turn.consumed,
                                            produced |-> current_turn.produced]]
      BY <2>2 DEF CompleteTurn
    <3> QED
      BY <1>1, <3>1 DEF TurnsClosed, LineageClosed, Registered, TypeOK
  <2> QED
    BY <2>1, <2>2, Frame
<1> QED
  BY <1>2, <1>3, <1>4 DEF LineageClosed

\* The lineage the context keeps is closed in every reachable state.
THEOREM Closed == Spec => []LineageClosed
<1> DEFINE IInv == TypeOK /\ ActiveRegistered /\ LineageClosed
<1>1. Init => IInv
  BY BoundsAreNaturals DEF Init, TypeOK, Absent, ActiveRegistered, LineageClosed,
     EvidenceClosed, FactsGrounded, TurnsClosed, Registered
<1>2. IInv /\ [Next]_vars => IInv'
  BY TypeStep, ActiveRegisteredStep, ClosedStep
<1> QED
  BY <1>1, <1>2, PTL DEF Spec

-----------------------------------------------------------------------------
(* Revisions agree *)

\* What RevisionsAgree says of the domain state.
DomainAgrees ==
    /\ model # None => AtBaseline(model)
    /\ operating_state # None => AtBaseline(operating_state)
    /\ Located(calculations)
    /\ Located(domain_records)
    /\ CalculationsMatch

\* A step that leaves the domain state alone leaves it in agreement with the
\* baselines and results, because those never change.
LEMMA DomainKept ==
    ASSUME TypeOK, TypeOK', NothingRewritten, DomainAgrees, UNCHANGED domainVars
    PROVE  DomainAgrees'
<1>1. \A loc \in DomainRecord \cup Location :
          AtBaseline(loc) => baselines'[loc.context] = loc.revision
  BY NoneIsFresh DEF AtBaseline, NothingRewritten, Preserved, Registered, TypeOK,
     Location, DomainRecord
<1>2. \A r \in Result : results[r] # None => results'[r] = results[r]
  BY DEF NothingRewritten, Preserved, Registered, TypeOK
<1>3. UNCHANGED <<model, operating_state, calculations, domain_records>>
  BY DEF domainVars
<1>4. model' # None => AtBaseline(model)'
  BY <1>1, <1>3 DEF DomainAgrees, AtBaseline, TypeOK
<1>5. operating_state' # None => AtBaseline(operating_state)'
  BY <1>1, <1>3 DEF DomainAgrees, AtBaseline, TypeOK
<1>6. Located(calculations)'
  BY <1>1, <1>3 DEF DomainAgrees, Located, Registered, AtBaseline, TypeOK
<1>7. Located(domain_records)'
  BY <1>1, <1>3 DEF DomainAgrees, Located, Registered, AtBaseline, TypeOK
<1>8. CalculationsMatch'
  BY <1>2, <1>3 DEF DomainAgrees, CalculationsMatch, Registered, TypeOK
<1> QED
  BY <1>4, <1>5, <1>6, <1>7, <1>8 DEF DomainAgrees

\* A projected delta was checked against the baselines it is kept with.
LEMMA DomainProjected ==
    ASSUME TypeOK, DomainAgrees,
           NEW t \in Turn, NEW loc \in Location, NEW r \in Result, NEW d \in DomainRef,
           NEW parts \in SUBSET DomainParts, ProjectDomainState(t, loc, parts, r, d)
    PROVE  DomainAgrees'
<1> DEFINE record == [context |-> loc.context, revision |-> loc.revision, turn |-> t]
<1>1. UNCHANGED <<baselines, results>>
  BY DEF ProjectDomainState, MayProjectDomain, DomainRecordOf, recordVars
<1>2. parts # {} => AtBaseline(loc) /\ AtBaseline(record)
  BY DEF ProjectDomainState, MayProjectDomain, DomainRecordOf, AtBaseline
<1>3. record.revision = loc.revision
  OBVIOUS
<1>4. model' # None => AtBaseline(model)'
  BY <1>1, <1>2 DEF ProjectDomainState, MayProjectDomain, DomainRecordOf, DomainAgrees,
                    AtBaseline
<1>5. operating_state' # None => AtBaseline(operating_state)'
  BY <1>1, <1>2 DEF ProjectDomainState, MayProjectDomain, DomainRecordOf, DomainAgrees,
                    AtBaseline
<1>6. Located(calculations)' /\ CalculationsMatch'
  <2>1. CASE "calculation" \in parts
    <3>1. /\ calculations' = [calculations EXCEPT ![r] = record]
          /\ results[r] # None
          /\ results[r].revision = record.revision
          /\ AtBaseline(record)
      BY <1>2, <2>1 DEF ProjectDomainState, MayProjectDomain, DomainRecordOf
    <3> HIDE DEF record
    <3> QED
      BY <1>1, <3>1 DEF DomainAgrees, Located, CalculationsMatch, Registered, AtBaseline,
                        TypeOK
  <2>2. CASE "calculation" \notin parts
    BY <1>1, <2>2 DEF ProjectDomainState, MayProjectDomain, DomainRecordOf, DomainAgrees,
                      Located, CalculationsMatch,
       Registered, AtBaseline
  <2> QED
    BY <2>1, <2>2
<1>7. Located(domain_records)'
  <2>1. CASE "record" \in parts
    <3>1. domain_records' = [domain_records EXCEPT ![d] = record] /\ AtBaseline(record)
      BY <1>2, <2>1 DEF ProjectDomainState, MayProjectDomain, DomainRecordOf
    <3> HIDE DEF record
    <3> QED
      BY <1>1, <3>1 DEF DomainAgrees, Located, Registered, AtBaseline, TypeOK
  <2>2. CASE "record" \notin parts
    BY <1>1, <2>2 DEF ProjectDomainState, MayProjectDomain, DomainRecordOf, DomainAgrees,
                      Located, Registered, AtBaseline
  <2> QED
    BY <2>1, <2>2
<1> QED
  BY <1>4, <1>5, <1>6, <1>7 DEF DomainAgrees

\* No step leaves a registered result without a baseline of its revision.
LEMMA ResultsHaveBaselineStep ==
    ASSUME TypeOK, ActiveRegistered, ResultsHaveBaseline, [Next]_vars
    PROVE  ResultsHaveBaseline'
<1>1. TypeOK' /\ NothingRewritten
  BY TypeStep, RewriteStep
<1>2. \A c \in Registered(baselines) :
          c \in Registered(baselines') /\ baselines'[c] = baselines[c]
  BY <1>1 DEF NothingRewritten, Preserved, Registered, TypeOK
<1>3. CASE UNCHANGED results
  BY <1>2, <1>3 DEF ResultsHaveBaseline, Registered
<1>4. ASSUME NEW t \in Turn, NEW r \in Result, NEW revision \in Revision,
             RegisterResult(t, r, revision)
      PROVE  ResultsHaveBaseline'
  <2>1. /\ active_context \in Registered(baselines)
        /\ baselines[active_context] = revision
        /\ results' = [results EXCEPT ![r] = [turn |-> t, revision |-> revision]]
    BY <1>4 DEF RegisterResult, MayRegisterResult, ActiveRegistered
  <2> QED
    BY <1>2, <2>1 DEF ResultsHaveBaseline, Registered, TypeOK
<1> QED
  BY <1>3, <1>4, Frame

\* Every fact of the domain state agrees with a registered baseline in every
\* reachable state.
THEOREM Revisions == Spec => []RevisionsAgree
<1> DEFINE IInv == TypeOK /\ RevisionsAgree
<1>1. Init => IInv
  BY BoundsAreNaturals DEF Init, TypeOK, Absent, RevisionsAgree, ActiveRegistered, Located,
     CalculationsMatch, ResultsHaveBaseline, Registered
<1>2. IInv /\ [Next]_vars => IInv'
  <2> SUFFICES ASSUME TypeOK, RevisionsAgree, [Next]_vars PROVE TypeOK' /\ RevisionsAgree'
    OBVIOUS
  <2>1. ActiveRegistered /\ DomainAgrees /\ ResultsHaveBaseline
    BY DEF RevisionsAgree, DomainAgrees
  <2>2. TypeOK' /\ NothingRewritten /\ ActiveRegistered' /\ ResultsHaveBaseline'
    BY <2>1, TypeStep, RewriteStep, ActiveRegisteredStep, ResultsHaveBaselineStep
  <2>3. DomainAgrees'
    BY <2>1, <2>2, Frame, DomainKept, DomainProjected
  <2> QED
    BY <2>2, <2>3 DEF RevisionsAgree, DomainAgrees
<1> QED
  BY <1>1, <1>2, PTL DEF Spec

-----------------------------------------------------------------------------
(* Turns and their lineage *)

\* How one step may change the active turn: begin a turn that is not closed,
\* let its lineage grow, or close it with the lineage it has.
TurnBegins  == /\ current_turn = None
               /\ current_turn' # None
               /\ turns[current_turn'.id] = None
               /\ UNCHANGED turns
TurnGrows   == /\ current_turn # None
               /\ current_turn' # None
               /\ current_turn'.id = current_turn.id
               /\ current_turn.consumed \subseteq current_turn'.consumed
               /\ current_turn.produced \subseteq current_turn'.produced
               /\ UNCHANGED turns
TurnCloses  == /\ current_turn # None
               /\ current_turn' = None
               /\ turns'[current_turn.id] # None
               /\ turns'[current_turn.id].consumed = current_turn.consumed
               /\ turns'[current_turn.id].produced = current_turn.produced
               /\ \A t \in Turn \ {current_turn.id} : turns'[t] = turns[t]

\* A merge lets the lineage grow, and a typed turn is no None.
LEMMA MergeGrows ==
    ASSUME TypeOK, current_turn # None, NEW C \in SUBSET Ref, NEW P \in SUBSET Ref,
           current_turn' = MergeTurnRefs(C, P), UNCHANGED turns
    PROVE  /\ TurnGrows
           /\ C \subseteq current_turn'.consumed
           /\ P \subseteq current_turn'.produced
<1>1. current_turn \in ActiveTurn
  BY DEF TypeOK
<1>2. /\ MergeTurnRefs(C, P) \in ActiveTurn
      /\ MergeTurnRefs(C, P).id = current_turn.id
      /\ MergeTurnRefs(C, P).consumed = current_turn.consumed \cup C
      /\ MergeTurnRefs(C, P).produced = current_turn.produced \cup P
  BY <1>1, MergeTyped
<1>3. current_turn' # None
  BY <1>2, NoneIsFresh
<1> QED
  BY <1>2, <1>3 DEF TurnGrows

\* Every step is one of the four, as far as the active turn goes.
LEMMA TurnStep ==
    TypeOK /\ [Next]_vars =>
        UNCHANGED <<current_turn, turns>> \/ TurnBegins \/ TurnGrows \/ TurnCloses
<1> SUFFICES ASSUME TypeOK, [Next]_vars
             PROVE  UNCHANGED <<current_turn, turns>> \/ TurnBegins \/ TurnGrows \/ TurnCloses
  OBVIOUS
<1> USE DEF turnVars, recordVars, noteVars, domainVars
<1>1. CASE UNCHANGED vars
  BY <1>1 DEF vars
<1>2. CASE StartAnalysis \/ RecordDiagnostic
           \/ \E outcome \in {"completed", "failed"} : CompleteAnalysis(outcome)
           \/ \E l \in Limitation : ResolveLimitation(l)
           \/ \E note \in Limitation, t \in Turn \cup {None} : RecordLimitation(note, t)
  BY <1>2 DEF StartAnalysis, RecordDiagnostic, MayRecordDiagnostic, CompleteAnalysis,
              ResolveLimitation, RecordLimitation, MayRecordLimitation
<1>3. ASSUME NEW f \in Fact, NEW refs \in SUBSET Evidence, RecordVerifiedFact(f, refs)
      PROVE  UNCHANGED <<current_turn, turns>>
  BY <1>3 DEF RecordVerifiedFact, MayRecordFact
<1>4. ASSUME NEW e \in Evidence, NEW t \in Turn \cup {None}, NEW refs \in FewRefs(Ref),
             NEW simulator \in BOOLEAN, RegisterEvidence(t, e, refs, simulator)
      PROVE  UNCHANGED <<current_turn, turns>> \/ TurnGrows
  <2>1. UNCHANGED turns /\ (current_turn' = current_turn
                            \/ (current_turn # None /\ current_turn' = MergeTurnRefs({}, {e})))
    BY <1>4 DEF RegisterEvidence, MayRegisterEvidence
  <2>2. {} \in SUBSET Ref /\ {e} \in SUBSET Ref
    BY DEF Ref
  <2> QED
    BY <2>1, <2>2, MergeGrows
<1>5. ASSUME NEW t \in Turn, StartTurn(t) PROVE TurnBegins
  <2>1. [id |-> t, consumed |-> {}, produced |-> {}] \in ActiveTurn
    BY DEF ActiveTurn
  <2> QED
    BY <1>5, <2>1, NoneIsFresh DEF StartTurn, TurnBegins
<1>6. ASSUME NEW t \in Turn, NEW c \in Context, NEW revision \in Revision,
             OpenSimulatorContext(t, c, revision)
      PROVE  UNCHANGED <<current_turn, turns>>
  BY <1>6 DEF OpenSimulatorContext, MayOpenContext
<1>7. ASSUME NEW t \in Turn, NEW o \in Observation, NEW ranking \in BOOLEAN,
             NEW consumed \in FewRefs(Ref), NEW produced \in FewRefs(Ref),
             RecordObservation(t, o, ranking, consumed, produced)
      PROVE  TurnGrows
  <2>1. /\ current_turn # None
        /\ UNCHANGED turns
        /\ current_turn' = MergeTurnRefs(consumed, produced)
    BY <1>7 DEF RecordObservation, MayRecordObservation, ObservationOf, InTurn
  <2>2. consumed \in SUBSET Ref /\ produced \in SUBSET Ref
    BY DEF FewRefs
  <2> QED
    BY <2>1, <2>2, MergeGrows
<1>8. ASSUME NEW t \in Turn, NEW r \in Result, NEW revision \in Revision,
             RegisterResult(t, r, revision)
      PROVE  TurnGrows
  <2>1. current_turn # None /\ UNCHANGED turns /\ current_turn' = MergeTurnRefs({}, {r})
    BY <1>8 DEF RegisterResult, MayRegisterResult, InTurn
  <2>2. {} \in SUBSET Ref /\ {r} \in SUBSET Ref
    BY DEF Ref
  <2> QED
    BY <2>1, <2>2, MergeGrows
<1>9. ASSUME NEW t \in Turn, NEW loc \in Location, NEW r \in Result, NEW d \in DomainRef,
             NEW parts \in SUBSET DomainParts, ProjectDomainState(t, loc, parts, r, d)
      PROVE  UNCHANGED <<current_turn, turns>>
  BY <1>9 DEF ProjectDomainState, MayProjectDomain, DomainRecordOf
<1>10. ASSUME NEW t \in Turn, NEW refs \in FewRefs(Result \cup Evidence), SubmitAnswer(t, refs)
       PROVE  TurnGrows
  <2>1. \E known \in SUBSET Ref : current_turn' = MergeTurnRefs(known, {})
    BY <1>10 DEF SubmitAnswer, FewRefs, Ref
  <2>2. current_turn # None /\ UNCHANGED turns /\ {} \in SUBSET Ref
    BY <1>10 DEF SubmitAnswer, InTurn
  <2> QED
    BY <2>1, <2>2, MergeGrows
<1>11. ASSUME NEW t \in Turn, NEW outcome \in {"success", "failed"}, CompleteTurn(t, outcome)
       PROVE  TurnCloses
  <2> DEFINE record == [status |-> outcome, consumed |-> current_turn.consumed,
                        produced |-> current_turn.produced]
  <2>1. /\ current_turn # None /\ current_turn.id = t /\ current_turn' = None
        /\ turns' = [turns EXCEPT ![t] = record]
    BY <1>11 DEF CompleteTurn, InTurn
  <2>2. current_turn \in ActiveTurn
    BY <2>1 DEF TypeOK
  <2>3. record \in TurnRecord
    BY <2>2 DEF ActiveTurn, TurnRecord
  <2>4. record # None
    BY <2>3, NoneIsFresh
  <2>5. record.consumed = current_turn.consumed /\ record.produced = current_turn.produced
    OBVIOUS
  <2> HIDE DEF record
  <2> QED
    BY <2>1, <2>4, <2>5 DEF TurnCloses, TypeOK
<1> QED
  BY <1>1, <1>2, <1>3, <1>4, <1>5, <1>6, <1>7, <1>8, <1>9, <1>10, <1>11 DEF Next

\* A turn keeps its identity and its lineage until it closes with exactly that.
THEOREM LineageIsKept == Spec => TurnLineageKept
<1>1. TypeOK /\ [Next]_vars => [LineageKept]_vars
  <2> SUFFICES ASSUME TypeOK, [Next]_vars PROVE LineageKept
    OBVIOUS
  <2>1. CASE UNCHANGED <<current_turn, turns>>
    BY <2>1 DEF LineageKept
  <2>2. CASE TurnBegins \/ TurnGrows \/ TurnCloses
    BY <2>2 DEF LineageKept, TurnBegins, TurnGrows, TurnCloses
  <2> QED
    BY <2>1, <2>2, TurnStep
<1> QED
  BY <1>1, TypeCorrect, PTL DEF Spec, TurnLineageKept

\* The active turn is never one already closed, and a terminal context, in
\* which no handler runs, has no active turn.
LEMMA DisciplineStep == TypeOK /\ TurnDiscipline /\ [Next]_vars => TurnDiscipline'
<1> SUFFICES ASSUME TypeOK, TurnDiscipline, [Next]_vars PROVE TurnDiscipline'
  OBVIOUS
<1>1. (current_turn # None => turns[current_turn.id] = None)'
  <2>1. CASE UNCHANGED <<current_turn, turns>> \/ TurnBegins
    BY <2>1 DEF TurnDiscipline, TurnBegins
  <2>2. CASE TurnGrows \/ TurnCloses
    BY <2>2 DEF TurnDiscipline, TurnGrows, TurnCloses
  <2> QED
    BY <2>1, <2>2, TurnStep
<1>2. (Terminal => current_turn = None)'
  <2> USE DEF turnVars, recordVars, noteVars, domainVars
  <2>1. CASE UNCHANGED <<status, current_turn>>
    BY <2>1 DEF TurnDiscipline, Terminal
  <2>2. CASE \E outcome \in {"completed", "failed"} : CompleteAnalysis(outcome)
    BY <2>2 DEF CompleteAnalysis
  <2>3. CASE ~Terminal /\ UNCHANGED status
    BY <2>3 DEF Terminal
  <2>4. CASE status' = "running"
    BY <2>4 DEF Terminal
  <2>5. CASE UNCHANGED vars
    BY <2>5, <2>1 DEF vars
  <2>6. CASE Next
    <3>1. CASE StartAnalysis \/ \E t \in Turn : StartTurn(t)
      BY <3>1, <2>4 DEF StartAnalysis, StartTurn
    <3>2. CASE RecordDiagnostic \/ (\E l \in Limitation : ResolveLimitation(l))
               \/ (\E l \in Limitation, t \in Turn \cup {None} : RecordLimitation(l, t))
      BY <3>2, <2>3 DEF RecordDiagnostic, MayRecordDiagnostic, ResolveLimitation,
                        RecordLimitation, MayRecordLimitation
    <3>3. ASSUME NEW f \in Fact, NEW refs \in SUBSET Evidence, RecordVerifiedFact(f, refs)
          PROVE  ~Terminal /\ UNCHANGED status
      BY <3>3 DEF RecordVerifiedFact, MayRecordFact
    <3>4. ASSUME NEW e \in Evidence, NEW t \in Turn \cup {None}, NEW refs \in FewRefs(Ref),
                 NEW simulator \in BOOLEAN, RegisterEvidence(t, e, refs, simulator)
          PROVE  ~Terminal /\ UNCHANGED status
      BY <3>4 DEF RegisterEvidence, MayRegisterEvidence
    <3>5. ASSUME NEW t \in Turn, NEW c \in Context, NEW revision \in Revision,
                 OpenSimulatorContext(t, c, revision)
          PROVE  ~Terminal /\ UNCHANGED status
      BY <3>5 DEF OpenSimulatorContext, MayOpenContext, InTurn
    <3>6. ASSUME NEW t \in Turn, NEW o \in Observation, NEW ranking \in BOOLEAN,
                 NEW consumed \in FewRefs(Ref), NEW produced \in FewRefs(Ref),
                 RecordObservation(t, o, ranking, consumed, produced)
          PROVE  ~Terminal /\ UNCHANGED status
      BY <3>6 DEF RecordObservation, MayRecordObservation, ObservationOf, InTurn
    <3>7. ASSUME NEW t \in Turn, NEW r \in Result, NEW revision \in Revision,
                 RegisterResult(t, r, revision)
          PROVE  ~Terminal /\ UNCHANGED status
      BY <3>7 DEF RegisterResult, MayRegisterResult, InTurn
    <3>8. ASSUME NEW t \in Turn, NEW loc \in Location, NEW r \in Result, NEW d \in DomainRef,
                 NEW parts \in SUBSET DomainParts, ProjectDomainState(t, loc, parts, r, d)
          PROVE  ~Terminal /\ UNCHANGED status
      BY <3>8 DEF ProjectDomainState, MayProjectDomain, DomainRecordOf, InTurn
    <3>9. ASSUME NEW t \in Turn, NEW refs \in FewRefs(Result \cup Evidence), SubmitAnswer(t, refs)
          PROVE  ~Terminal /\ UNCHANGED status
      BY <3>9 DEF SubmitAnswer, InTurn
    <3>10. ASSUME NEW t \in Turn, NEW outcome \in {"success", "failed"}, CompleteTurn(t, outcome)
           PROVE  ~Terminal /\ UNCHANGED status
      BY <3>10 DEF CompleteTurn, InTurn
    <3> QED
      BY <2>6, <2>2, <2>3, <3>1, <3>2, <3>3, <3>4, <3>5, <3>6, <3>7, <3>8, <3>9, <3>10 DEF Next
  <2> QED
    BY <2>5, <2>6
<1> QED
  BY <1>1, <1>2 DEF TurnDiscipline

\* What the lineage of a turn covers, it covers after every step.
LEMMA CoversGrows ==
    ASSUME TypeOK, TurnDiscipline, NothingRewritten, [Next]_vars,
           NEW t \in Turn, NEW C, NEW P, Covers(t, C, P)
    PROVE  Covers(t, C, P)'
<1> USE DEF Covers, HasLineage, Lineage
<1>1. CASE UNCHANGED <<current_turn, turns>>
  BY <1>1
<1>2. CASE TurnBegins
  BY <1>2 DEF TurnBegins
<1>3. CASE TurnGrows
  BY <1>3 DEF TurnGrows
<1>4. CASE TurnCloses
  BY <1>4 DEF TurnCloses
<1> QED
  BY <1>1, <1>2, <1>3, <1>4, TurnStep

\* A step that merges references into the active turn's lineage covers them.
LEMMA MergeCovers ==
    ASSUME TypeOK, NEW t \in Turn, InTurn(t), NEW C \in SUBSET Ref, NEW P \in SUBSET Ref,
           current_turn' = MergeTurnRefs(C, P), UNCHANGED turns
    PROVE  Covers(t, C, P)'
  BY MergeGrows DEF InTurn, TurnGrows, Covers, HasLineage, Lineage

\* A step keeps every result and observation in its producer's lineage.
LEMMA AttributedStep ==
    ASSUME TypeOK, TurnDiscipline, ProducersAttributed, [Next]_vars
    PROVE  ProducersAttributed'
<1>1. TypeOK' /\ NothingRewritten
  BY TypeStep, RewriteStep
<1>2. ASSUME NEW r \in Result, results'[r] # None
      PROVE  Covers(results[r].turn, {}, {r})'
  <2>1. results' [r] \in ResultRecord
    BY <1>1, <1>2 DEF TypeOK
  <2>2. PICK t \in Turn : t = results'[r].turn
    BY <2>1 DEF ResultRecord
  <2>3. Covers(t, {}, {r})'
    <3>1. CASE results[r] = results'[r]
      <4>1. Covers(t, {}, {r})
        BY <1>2, <2>2, <3>1 DEF ProducersAttributed, ResultsAttributed, Registered, TypeOK
      <4> QED
        BY <1>1, <4>1, CoversGrows
    <3>2. ASSUME results[r] # results'[r], NEW u \in Turn, NEW s \in Result,
                 NEW revision \in Revision, RegisterResult(u, s, revision)
          PROVE  Covers(t, {}, {r})'
      <4>1. /\ InTurn(u) /\ UNCHANGED turns /\ current_turn' = MergeTurnRefs({}, {s})
            /\ results' = [results EXCEPT ![s] = [turn |-> u, revision |-> revision]]
        BY <3>2 DEF RegisterResult, MayRegisterResult
      <4>2. r = s /\ t = u
        BY <2>2, <3>2, <4>1 DEF TypeOK
      <4>3. {} \in SUBSET Ref /\ {r} \in SUBSET Ref
        BY DEF Ref
      <4> QED
        BY <4>1, <4>2, <4>3, MergeCovers
    <3> QED
      BY <3>1, <3>2, Frame
  <2> QED
    BY <2>2, <2>3 DEF Covers, HasLineage, Lineage
<1>3. ASSUME NEW o \in Observation, observations'[o] # None
      PROVE  Covers(observations[o].turn, observations[o].consumed, observations[o].produced)'
  <2>1. observations'[o] \in ObservationRecord
    BY <1>1, <1>3 DEF TypeOK
  <2>2. PICK t \in Turn, C \in SUBSET Ref, P \in SUBSET Ref :
            /\ t = observations'[o].turn
            /\ C = observations'[o].consumed
            /\ P = observations'[o].produced
    BY <2>1 DEF ObservationRecord
  <2>3. Covers(t, C, P)'
    <3>1. CASE observations[o] = observations'[o]
      <4>1. Covers(t, C, P)
        BY <1>3, <2>2, <3>1 DEF ProducersAttributed, ObservationsAttributed, Registered, TypeOK
      <4> QED
        BY <1>1, <4>1, CoversGrows
    <3>2. ASSUME observations[o] # observations'[o], NEW u \in Turn, NEW s \in Observation,
                 NEW ranking \in BOOLEAN, NEW consumed \in FewRefs(Ref),
                 NEW produced \in FewRefs(Ref),
                 RecordObservation(u, s, ranking, consumed, produced)
          PROVE  Covers(t, C, P)'
      <4>1. /\ InTurn(u) /\ UNCHANGED turns /\ current_turn' = MergeTurnRefs(consumed, produced)
            /\ observations' = [observations EXCEPT ![s] =
                   [turn |-> u, ranking |-> ranking,
                    consumed |-> consumed, produced |-> produced]]
        BY <3>2 DEF RecordObservation, MayRecordObservation, ObservationOf
      <4>2. o = s /\ t = u /\ C = consumed /\ P = produced
        BY <2>2, <3>2, <4>1 DEF TypeOK
      <4> QED
        BY <4>1, <4>2, MergeCovers
    <3> QED
      BY <3>1, <3>2, Frame
  <2> QED
    BY <2>2, <2>3 DEF Covers, HasLineage, Lineage
<1>4. ResultsAttributed'
  BY <1>1, <1>2 DEF ResultsAttributed, Registered, TypeOK, Covers, HasLineage, Lineage
<1>5. ObservationsAttributed'
  BY <1>1, <1>3 DEF ObservationsAttributed, Registered, TypeOK, Covers, HasLineage, Lineage
<1> QED
  BY <1>4, <1>5 DEF ProducersAttributed

\* The active turn is open and what every turn produced is in its lineage, in
\* every reachable state.
THEOREM Attributed == Spec => [](TurnDiscipline /\ ProducersAttributed)
<1> DEFINE IInv == TypeOK /\ TurnDiscipline /\ ProducersAttributed
<1>1. Init => IInv
  BY BoundsAreNaturals DEF Init, TypeOK, Absent, TurnDiscipline, Terminal,
     ProducersAttributed, ResultsAttributed, ObservationsAttributed, Registered
<1>2. IInv /\ [Next]_vars => IInv'
  BY TypeStep, DisciplineStep, AttributedStep
<1> QED
  BY <1>1, <1>2, PTL DEF Spec

=============================================================================
