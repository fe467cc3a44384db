-------------------------- MODULE TrajectoryProjection --------------------------
(***************************************************************************)
(* What a reader makes of the native events of a run: project_agent and    *)
(* execution_slice (trajectory/agent_projection.py), project_business and  *)
(* business_causal_rows (business_projection.py), project_context          *)
(* (context_projection.py), project_artifacts (artifact_projection.py),    *)
(* and the public rows of api/projection_pages.py.  Every operator is a    *)
(* function of log, a sequence of events, and of lost, the references      *)
(* whose files can no longer be verified.                                  *)
(*                                                                         *)
(* The code folds handlers over the events; a node is described here by    *)
(* the event that makes it and the event that ends it, which is the same.  *)
(* An event is named by its place in the log, its sequence.                *)
(***************************************************************************)
EXTENDS Integers, FiniteSets, Sequences, SequencesExt, FiniteSetsExt

CONSTANTS None

\* An event.  before and after are the revisions of its context boundary;
\* artifact is payload.artifact_ref, and submission payload.submission_id.
Event(type, turn) ==
    [type |-> type, turn |-> turn, step |-> None, request |-> None, tool |-> None,
     ok |-> TRUE, result |-> FALSE, produced |-> {}, consumed |-> {}, evidence |-> {},
     artifact |-> None, submission |-> None, before |-> None, after |-> None]

At(log, types) == {i \in DOMAIN log : log[i].type \in types}

Latest(S) == IF S = {} THEN None ELSE Max(S)
Earliest(S) == IF S = {} THEN None ELSE Min(S)

-----------------------------------------------------------------------------
(* The agent's lifecycle *)

\* The first event of each identity makes the node; it is dropped when the
\* node it belongs to has not been made before.
Turns(log) ==
    {i \in At(log, {"turn.started"}) :
        \A j \in At(log, {"turn.started"}) : j < i => log[j].turn # log[i].turn}

Steps(log) ==
    {i \in At(log, {"step.started"}) :
        /\ \E t \in Turns(log) : t < i /\ log[t].turn = log[i].turn
        /\ \A j \in At(log, {"step.started"}) :
              j < i => <<log[j].turn, log[j].step>> # <<log[i].turn, log[i].step>>}

SameStep(a, b) == a.turn = b.turn /\ a.step = b.step
SameRequest(a, b) == SameStep(a, b) /\ a.request = b.request

\* One request of a step: the first.
Requests(log) ==
    {i \in At(log, {"model.request.started"}) :
        \E s \in Steps(log) :
            /\ s < i /\ SameStep(log[s], log[i])
            /\ \A j \in At(log, {"model.request.started"}) :
                  s < j /\ j < i => ~SameStep(log[j], log[i])}

Tools(log) ==
    {i \in At(log, {"tool.started"}) :
        /\ \E r \in Requests(log) : r < i /\ SameRequest(log[r], log[i])
        /\ \A j \in At(log, {"tool.started"}) :
              j < i => log[j].tool # log[i].tool \/ ~SameRequest(log[j], log[i])}

Retries(log) ==
    {i \in At(log, {"model.retry.scheduled", "model.retry.started", "model.retry.exhausted"}) :
        \E r \in Requests(log) : r < i /\ SameRequest(log[r], log[i])}

\* The event that ended a node: the last for turns, steps and requests, the
\* first for tools.
TurnEnd(log, i) ==
    Latest({j \in At(log, {"turn.completed", "turn.failed"}) :
             j > i /\ log[j].turn = log[i].turn})
StepEnd(log, i) ==
    Latest({j \in At(log, {"step.completed"}) : j > i /\ SameStep(log[j], log[i])})
RequestEnd(log, i) ==
    Latest({j \in At(log, {"model.response.completed", "model.response.failed"}) :
             j > i /\ SameRequest(log[j], log[i])})
ToolEnd(log, i) ==
    Earliest({j \in At(log, {"tool.completed", "tool.failed"}) :
             j > i /\ SameRequest(log[j], log[i]) /\ log[j].tool = log[i].tool})

NodeEnd(log, i) ==
    CASE log[i].type = "turn.started"          -> TurnEnd(log, i)
      [] log[i].type = "step.started"          -> StepEnd(log, i)
      [] log[i].type = "model.request.started" -> RequestEnd(log, i)
      [] OTHER                                 -> ToolEnd(log, i)

Outcome(event) ==
    IF \/ event.type \in {"turn.failed", "model.response.failed", "tool.failed"}
       \/ event.type = "tool.completed" /\ ~event.ok
    THEN "failed" ELSE "completed"

Closed(log) == At(log, {"analysis.completed", "analysis.failed"}) # {}

ClosedTurn(log, turn) ==
    \/ Closed(log)
    \/ \E j \in At(log, {"turn.completed", "turn.failed"}) :
          /\ log[j].turn = turn
          /\ \E t \in At(log, {"turn.started"}) : t < j /\ log[t].turn = turn

AgentNodes(log) == Turns(log) \cup Steps(log) \cup Requests(log) \cup Tools(log)

\* Plausible fault: a closed turn interrupts all that it contains.
StatusOverwritten(log, i) ==
    IF ClosedTurn(log, log[i].turn) /\ log[i].type # "turn.started" THEN "interrupted"
    ELSE IF NodeEnd(log, i) # None THEN Outcome(log[NodeEnd(log, i)])
    ELSE IF ClosedTurn(log, log[i].turn) THEN "interrupted" ELSE "running"

\* consume, and close_at_boundary with _interrupt_open_turn.
Status(log, i) ==
    IF NodeEnd(log, i) # None THEN Outcome(log[NodeEnd(log, i)])
    ELSE IF ClosedTurn(log, log[i].turn) THEN "interrupted"
    ELSE "running"

\* The sequence of a node's row: a tool is where it ended, a response is a row
\* of its own.
RowSequence(log, i) ==
    IF log[i].type = "tool.started" /\ ToolEnd(log, i) # None THEN ToolEnd(log, i) ELSE i

Responses(log) ==
    {RequestEnd(log, i) : i \in Requests(log)}
        \cap At(log, {"model.response.completed"})

\* The sequences of the rows, one entry for each row.
AgentRows(log) ==
    {[node |-> i, sequence |-> RowSequence(log, i)] : i \in AgentNodes(log)}
    \cup {[node |-> i, sequence |-> i] : i \in Retries(log) \cup Responses(log)}

-----------------------------------------------------------------------------
(* The artifacts *)

\* Plausible fault: the last producer is remembered.
ProducerLast(log, ref) == Latest({i \in DOMAIN log : ref \in log[i].produced})

Producer(log, ref) == Earliest({i \in DOMAIN log : ref \in log[i].produced})

Consumers(log, ref) ==
    {i \in DOMAIN log : ref \in log[i].consumed \cup log[i].evidence}

References(log) ==
    UNION {log[i].produced \cup log[i].consumed \cup log[i].evidence : i \in DOMAIN log}

\* _pointer: a reference whose file is gone is listed as unavailable.
Verified(log, lost, ref) == ref \in References(log) /\ ref \notin lost

\* The scope of a record is its producer's, or its first consumer's.
Owner(log, ref) == IF Producer(log, ref) # None THEN Producer(log, ref)
                   ELSE Earliest(Consumers(log, ref))

RecordSequences(log, ref) == ({Producer(log, ref)} \ {None}) \cup Consumers(log, ref)

-----------------------------------------------------------------------------
(* The business view *)

\* _accepted_submissions: the last acceptance of a submission in its turn.
Submission(log, i) ==
    Latest({j \in At(log, {"answer.submitted"}) :
             log[j].turn = log[i].turn /\ log[j].submission = log[i].submission})

IsResult(log, i) ==
    /\ log[i].type = "tool.completed"
    /\ log[i].ok
    /\ log[i].result
    /\ log[i].produced \cup log[i].evidence # {}

BusinessNode(i, kind, refs) == [kind |-> kind, sequences |-> <<i>>, refs |-> refs]

\* The nodes of event i.
NodesOf(log, i) ==
    LET e == log[i]
    IN  IF e.turn = None THEN {}
        ELSE CASE e.type = "business.decision.declared" ->
                    {BusinessNode(i, "decision", {})}
               [] e.type = "business.claim.declared" /\ Submission(log, i) # None ->
                    {[kind |-> "claim", sequences |-> <<i, Submission(log, i)>>,
                      refs |-> e.consumed \cup e.evidence]}
               [] e.type \in {"context.projected", "context.injected"} ->
                    {BusinessNode(i, "context-change", e.produced)}
               [] e.type \in {"tool.completed", "tool.failed"} ->
                    {BusinessNode(i, "tool-action", e.produced \cup e.evidence)}
                    \cup (IF IsResult(log, i)
                          THEN {BusinessNode(i, "verified-result", e.produced \cup e.evidence)}
                          ELSE {})
               [] e.type \in {"turn.failed", "step.failed", "model.response.failed",
                              "answer.rejected"} ->
                    {BusinessNode(i, "failure", {})}
               [] e.type = "audit.diagnostic.recorded" ->
                    {BusinessNode(i, "audit-finding", {})}
               [] OTHER -> {}

BusinessNodes(log) == UNION {NodesOf(log, i) : i \in DOMAIN log}

\* A result whose files cannot be verified makes the whole run unreadable
\* (ProjectionIntegrityError, or the error of the verifier).
Opens(log, lost) ==
    \A i \in DOMAIN log :
        IsResult(log, i) => (log[i].produced \cup log[i].evidence) \cap lost = {}

\* Plausible fault: the last problem comes first.
RowBeforeNewestFirst(log, a, b) ==
    LET begins(s) == Min({i \in DOMAIN log : log[i].turn = log[s].turn})
    IN  begins(a) > begins(b) \/ (begins(a) = begins(b) /\ a < b)

\* business_causal_rows: a row for each sequence, by problem, in the order these
\* began, and by sequence in each.
RowSequences(log) == {n.sequences[1] : n \in BusinessNodes(log)}

RowBefore(log, a, b) ==
    LET begins(s) == Min({i \in DOMAIN log : log[i].turn = log[s].turn})
    IN  begins(a) < begins(b) \/ (begins(a) = begins(b) /\ a < b)

-----------------------------------------------------------------------------
(* Context frames *)

\* _request_refs: the next request at or after an event.
RequestRef(log, i) ==
    LET next == Earliest({j \in At(log, {"model.request.started"}) : j >= i})
    IN  IF next = None THEN None ELSE log[next].artifact

\* public_context_frame
PublicRequestRef(log, lost, i) ==
    LET ref == RequestRef(log, i)
    IN  IF ref # None /\ Verified(log, lost, ref) THEN ref ELSE None

\* The state a frame ends in, named by the view that recorded it: a view that
\* is verified; for a change without one, what was known before, marked as
\* unavailable.
\* Plausible fault: every frame ends in the state that was last injected.
ContextEventsOfRun(log, i) == At(log, {"context.injected", "context.projected"})

ContextEvents(log, i) == {j \in At(log, {"context.injected", "context.projected"}) : j <= i}

State(log, lost, i) ==
    Latest({j \in ContextEvents(log, i) : log[j].artifact # None /\ log[j].artifact \notin lost})

Unavailable(log, lost, i) ==
    /\ i \in ContextEvents(log, i)
    /\ log[i].artifact = None \/ log[i].artifact \in lost

\* The revision a frame ends at: its own boundary, or the one before.
Revision(log, i) ==
    LET bounded == {j \in 1..i : log[j].after # None}
    IN  IF bounded = {} THEN 0 ELSE log[Max(bounded)].after

-----------------------------------------------------------------------------
(* Execution slices *)

\* _execution_proof: what the business nodes of a sequence prove about its
\* execution.  refs are their references that are verified and bound to the
\* sequence, owners the events whose scope the records of these have.
Proof(log, lost, s) ==
    LET nodes == {n \in BusinessNodes(log) : n.sequences[1] = s}
        refs  == {ref \in UNION {n.refs : n \in nodes} :
                     Verified(log, lost, ref) /\ s \in RecordSequences(log, ref)}
    IN  [sequence |-> s,
         lineage  |-> \E n \in nodes : n.refs # {} \/ n.kind \in {"claim", "verified-result"},
         refs     |-> refs,
         owners   |-> {log[Owner(log, ref)] : ref \in refs}]

EndRefs(log, i) ==
    IF ToolEnd(log, i) = None THEN {}
    ELSE log[ToolEnd(log, i)].produced \cup log[ToolEnd(log, i)].evidence

Touches(log, i, s) == i = s \/ NodeEnd(log, i) = s

\* Plausible fault: every tool of a request that is proven is in the slice.
ToolMatchesRequest(log, proof, i) == \E o \in proof.owners : SameRequest(o, log[i])

\* _tool_matches
ToolMatches(log, proof, i) ==
    \/ \E o \in proof.owners : o.tool # None /\ o.tool = log[i].tool
    \/ EndRefs(log, i) \cap proof.refs # {}
    \/ ~proof.lineage /\ Touches(log, i, proof.sequence)

\* _response_matches
ResponseMatches(log, proof, r) ==
    LET response == RequestEnd(log, r)
    IN  /\ response \in Responses(log)
        /\ \/ log[response].artifact \in proof.refs
           \/ ~proof.lineage /\ response = proof.sequence

ScopedTools(log, proof, r) ==
    {i \in Tools(log) : SameRequest(log[i], log[r]) /\ ToolMatches(log, proof, i)}

\* _scope_request, _scope_step, _scope_turn: whether a request of the agent's
\* tree, with its step and its turn, belongs to what is proven.
InScope(log, proof, r) ==
    LET inside == \/ ScopedTools(log, proof, r) # {}
                  \/ ResponseMatches(log, proof, r)
    IN  IF proof.lineage
        THEN /\ \E o \in proof.owners : o.request = log[r].request
             /\ \E o \in proof.owners : o.step = log[r].step
             /\ \E o \in proof.owners : o.turn = log[r].turn
             /\ inside
        ELSE \/ inside
             \/ Touches(log, r, proof.sequence)
             \/ \E o \in proof.owners : o.request # None /\ o.request = log[r].request
             \/ proof.sequence \in Retries(log) /\ SameRequest(log[proof.sequence], log[r])

ScopedTurns(log, proof, scoped) ==
    {log[r].turn : r \in scoped}
    \cup (IF proof.lineage THEN {}
          ELSE {log[t].turn : t \in {u \in Turns(log) \cup Steps(log) : u = proof.sequence}}
               \cup {o.turn : o \in {p \in proof.owners :
                                        \E t \in Turns(log) : log[t].turn = p.turn}})

\* execution_slice: of one turn, or none is shown.
Slice(log, lost, s) ==
    LET proof  == Proof(log, lost, s)
        scoped == {r \in Requests(log) : InScope(log, proof, r)}
        turns  == ScopedTurns(log, proof, scoped)
    IN  IF Cardinality(turns) # 1 THEN None
        ELSE [turn |-> CHOOSE t \in turns : TRUE,
              requests |-> scoped,
              tools |-> UNION {ScopedTools(log, proof, r) : r \in scoped}]

================================================================================
