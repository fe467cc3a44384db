---------------------------- MODULE TrajectoryReplay ----------------------------
(***************************************************************************)
(* A run recorded natively and read back while it is recorded.  One process *)
(* records: the runner (analysis/runner.py), the turn controller            *)
(* (analysis/turns.py), the context bridge (trajectory/context_bridge.py)   *)
(* and the capture adapter (trajectory/capture.py) append to one log, and a *)
(* reader may project any prefix of it (trajectory/service.py, open_run).   *)
(* TrajectoryProjection says what it sees.                                  *)
(*                                                                          *)
(* A handler that appends several events leaves them in pending and Write   *)
(* appends them one by one, so every prefix of the log is a state.          *)
(***************************************************************************)
EXTENDS TrajectoryProjection

CONSTANTS
    Recordings,     \* a subset of {"product", "schema"}: see Init
    Context,        \* the reference of a network that was opened
    Result,         \* the reference of a solved analysis
    ResultEvidence, \* the evidence of that analysis
    Diagnosis,      \* the evidence of an analysis that did not converge
    Fact,           \* the evidence of a fact about the network
    Losable,        \* the references whose files may disappear
    MaxTurns, MaxRequests, MaxTools, MaxRetries, MaxWork

ASSUME NoneApart ==
    /\ None \notin Nat
    /\ None \notin [turn : Nat \cup {None}, requests : SUBSET Nat, tools : SUBSET Nat]
ASSUME ReferencesApart ==
    /\ Context # Result
    /\ {Context, Result} \cap {ResultEvidence, Diagnosis, Fact} = {}
    /\ {Context, Result, ResultEvidence, Diagnosis, Fact}
         \cap ({"call", "input", "response", "answer", "view", "observation"} \X Nat) = {}

VARIABLES
    log,        \* events/run-events.jsonl
    pending,    \* what the running handler has still to append
    recording,  \* which events the recorder knows
    phase,      \* "new", "idle", "turn" or "ended"
    turn,       \* the ordinal of the last turn
    revision,   \* the revision of the analysis context
    requests,   \* of this turn: a sequence of [id, settled]
    round,      \* _tool_round_request, or None
    calls,      \* _tool_calls: the tools started and not completed
    lost        \* the references no file can be verified for

vars == <<log, pending, recording, phase, turn, revision, requests, round, calls, lost>>

\* What a tool answers: a context that is opened, a solved analysis, a query of
\* its result, a fact, a decision, an error or an analysis that diverged.  The
\* projection of a context ("unopened") and of a fact ("refused") may be refused.
Kinds == {"open", "unopened", "analysis", "query", "fact", "refused", "decision",
          "error", "diverged"}
Failures == {"error", "diverged"}

-----------------------------------------------------------------------------
(* Events *)

ContextTypes == {"analysis.started", "analysis.completed", "analysis.failed",
                 "turn.started", "turn.completed", "tool.failed", "answer.submitted",
                 "audit.diagnostic.recorded", "context.projected"}

\* commit and record_injection: an event of the context carries its boundary,
\* an injection the view of the current revision.
Bounded(e) ==
    CASE e.type \in ContextTypes ->
           [e EXCEPT !.before = revision, !.after = revision + 1]
      [] e.type = "context.injected" ->
           [e EXCEPT !.before = revision, !.after = revision,
                     !.artifact = <<"view", revision>>, !.produced = {<<"view", revision>>}]
      [] OTHER -> e

Of(r, type) == [Event(type, turn) EXCEPT !.step = r.id, !.request = r.id]

OfTool(c, type) == [Event(type, turn) EXCEPT !.step = c.request, !.request = c.request,
                                             !.tool = c.tool]

ViewInjected == Event("context.injected", None)

\* The capability's references: results are produced and evidence is cited, that
\* of an analysis that failed too.  A context is no reference of its tool.
ProducedBy(kind) == IF kind \in {"analysis", "query"} THEN {Result} ELSE {}
CitedBy(kind) ==
    CASE kind = "analysis"            -> {ResultEvidence}
      [] kind = "diverged"            -> {Diagnosis}
      [] kind \in {"fact", "refused"} -> {Fact}
      [] OTHER                        -> {}

\* Plausible fault: a reference is allowed before it was answered with.
KnownBefore == {Result, ResultEvidence, Diagnosis, Fact}

\* The results and evidence the simulator has answered with so far, which alone
\* an answer may cite.
Known == UNION {log[i].produced \cup log[i].evidence : i \in At(log, {"tool.completed"})}

\* What a decision may cite: any reference of the run that is no document of it.
Allowed ==
    Known \cup
    {ref \in UNION {log[i].produced \cup log[i].consumed : i \in DOMAIN log} :
        ref = Context \/ ref \in {"observation"} \X Nat}

\* The results and evidence in the lineage of the turn, which its observations
\* consumed or produced.
TurnRefs ==
    Known \cap UNION {log[i].produced \cup log[i].consumed :
                         i \in {j \in At(log, {"context.projected"}) : log[j].turn = turn}}

-----------------------------------------------------------------------------
(* The recorder *)

\* "product" records what the handlers of the program append.  "schema" also
\* records what events.py declares, the projections read and the tests of the
\* projections record: step.started before each request, and the claims that
\* an answer's draft carries.
Init ==
    /\ log = <<>>
    /\ pending = <<>>
    /\ recording \in Recordings
    /\ phase = "new"
    /\ turn = 0
    /\ revision = 0
    /\ requests = <<>>
    /\ round = None
    /\ calls = {}
    /\ lost = {Context}   \* a reader knows no file of a context

\* A handler starts when the last one has appended its events.
Ready == pending = <<>>

\* MaxWork bounds the requests, responses, retries and tools that are begun in a run.
MayWork ==
    /\ phase = "turn" /\ Ready
    /\ Cardinality(At(log, {"model.request.started", "model.response.completed",
                           "model.response.failed", "model.retry.started",
                           "model.retry.exhausted", "tool.started"}))
         < MaxWork

Write ==
    /\ pending # <<>>
    /\ log' = Append(log, Bounded(Head(pending)))
    /\ pending' = Tail(pending)
    /\ revision' = IF Head(pending).type \in ContextTypes THEN revision + 1 ELSE revision
    /\ UNCHANGED <<recording, phase, turn, requests, round, calls, lost>>

Start ==
    /\ phase = "new" /\ Ready
    /\ pending' = <<Event("analysis.started", None), ViewInjected>>
    /\ phase' = "idle"
    /\ UNCHANGED <<log, recording, turn, revision, requests, round, calls, lost>>

StartTurn ==
    /\ phase = "idle" /\ Ready
    /\ turn < MaxTurns
    /\ turn' = turn + 1
    /\ pending' = <<Event("turn.started", turn + 1), ViewInjected>>
    /\ phase' = "turn"
    /\ requests' = <<>>
    /\ round' = None
    /\ calls' = {}
    /\ UNCHANGED <<log, recording, revision, lost>>

Unsettled == {i \in DOMAIN requests : ~requests[i].settled}

RequestsSoFar == Cardinality(At(log, {"model.request.started"}))

\* drain_model_requests: each request is a step of its own.
Request ==
    /\ MayWork
    /\ RequestsSoFar < MaxRequests
    /\ LET id == RequestsSoFar + 1
           request == [Of([id |-> id], "model.request.started") EXCEPT
                          !.artifact = <<"input", id>>, !.produced = {<<"input", id>>}]
           step == [Event("step.started", turn) EXCEPT !.step = id]
       IN  /\ pending' = IF recording = "schema" THEN <<step, request>> ELSE <<request>>
           /\ requests' = Append(requests, [id |-> id, settled |-> FALSE])
    /\ UNCHANGED <<log, recording, phase, turn, revision, round, calls, lost>>

\* _complete_response: the first request that is not settled is answered, and
\* tools may follow.
Respond(toolUse) ==
    /\ MayWork
    /\ Unsettled # {}
    /\ LET i == Min(Unsettled)
       IN  /\ pending' = <<[Of(requests[i], "model.response.completed") EXCEPT
                               !.artifact = <<"response", requests[i].id>>,
                               !.produced = {<<"response", requests[i].id>>}]>>
           /\ requests' = [requests EXCEPT ![i].settled = TRUE]
           /\ round' = IF toolUse THEN requests[i].id ELSE round
    /\ UNCHANGED <<log, recording, phase, turn, revision, calls, lost>>

\* _fail_response
FailResponse ==
    /\ MayWork
    /\ Unsettled # {}
    /\ LET i == Min(Unsettled)
       IN  /\ pending' = <<[Of(requests[i], "model.response.failed") EXCEPT !.ok = FALSE]>>
           /\ requests' = [requests EXCEPT ![i].settled = TRUE]
    /\ round' = None
    /\ UNCHANGED <<log, recording, phase, turn, revision, calls, lost>>

\* _record_retry_started and _record_retry_exhausted, for the last request: Pi
\* retries what has failed.
Retry(type) ==
    /\ MayWork
    /\ requests # <<>>
    /\ \E i \in At(log, {"model.response.failed"}) :
          log[i].request = requests[Len(requests)].id
    /\ Cardinality(At(log, {"model.retry.started", "model.retry.exhausted"})) < MaxRetries
    /\ pending' = <<Of(requests[Len(requests)], type)>>
    /\ UNCHANGED <<log, recording, phase, turn, revision, requests, round, calls, lost>>

\* _record_tool_start
StartTool ==
    /\ MayWork
    /\ requests # <<>>
    /\ LET tool == Cardinality(At(log, {"tool.started"})) + 1
           call == [tool |-> tool,
                    request |-> IF round # None THEN round ELSE requests[Len(requests)].id]
       IN  /\ tool <= MaxTools
           /\ calls' = calls \cup {call}
           /\ pending' = <<[OfTool(call, "tool.started") EXCEPT
                               !.artifact = <<"call", tool>>, !.produced = {<<"call", tool>>}]>>
    /\ UNCHANGED <<log, recording, phase, turn, revision, requests, round, lost>>

\* The projector's observation, which consumes what the call was about and
\* produces what it answered; that of a failure consumes nothing.
Observed(consumed, produced) ==
    [Event("context.projected", turn) EXCEPT !.consumed = consumed, !.produced = produced]

\* What follows a completed tool: a decision is declared, and the observation of
\* any other call is committed.  Where it is refused there is a limitation
\* without references; after that of a failure come a limitation, which consumes
\* the observation, and tool.failed.  The projector's other facts repeat these
\* references.
Followed(call, kind) ==
    CASE kind = "decision" ->
           <<[OfTool(call, "business.decision.declared") EXCEPT !.consumed = Allowed]>>
      [] kind \in Failures ->
           <<Observed({}, CitedBy(kind)), Observed({<<"observation", call.tool>>}, {}),
             [Event("tool.failed", turn) EXCEPT !.ok = FALSE]>>
      [] kind \in {"unopened", "refused"} -> <<Observed({}, {})>>
      [] kind = "open"  -> <<Observed({}, {Context})>>
      [] kind = "query" -> <<Observed({Result}, {})>>
      [] OTHER          -> <<Observed({Context}, ProducedBy(kind) \cup CitedBy(kind))>>

\* _record_tool_completion, then on_native_commit's projector.  A query is of
\* a result that is known, and a decision cites what is allowed.  No opening is
\* asked for before an analysis: one whose projection was refused leaves no trace
\* of its context in the log.
CompleteTool(call, kind) ==
    /\ phase = "turn" /\ Ready
    /\ kind = "query" => Result \in Known
    /\ calls' = calls \ {call}
    /\ round' = IF calls' = {} THEN None ELSE round
    /\ pending' = <<[OfTool(call, "tool.completed") EXCEPT
                        !.ok = kind \notin Failures, !.result = kind \in {"analysis", "query"},
                        !.consumed = {<<"call", call.tool>>}, !.artifact = <<"call", call.tool>>,
                        !.produced = ProducedBy(kind), !.evidence = CitedBy(kind)]>>
                  \o Followed(call, kind)
    /\ UNCHANGED <<log, recording, phase, turn, revision, requests, lost>>

Ended == /\ requests' = <<>>
         /\ round' = None
         /\ calls' = {}

\* end_turn: what is not settled has failed.
Interrupted ==
    [k \in 1..Cardinality(Unsettled) |->
        [Of(requests[CHOOSE i \in Unsettled : Cardinality({j \in Unsettled : j < i}) = k - 1],
            "model.response.failed") EXCEPT !.ok = FALSE]]

\* submit, _record_claims, then _end_capture.  A result without its evidence is
\* an unlinked result (analysis/integrity.py).
Submit(refs) ==
    LET audited == Result \in refs /\ ResultEvidence \notin refs
        results == refs \cap {Result}
        answer == [Event("answer.submitted", turn) EXCEPT
                      !.submission = turn, !.artifact = <<"answer", turn>>,
                      !.consumed = results, !.evidence = refs \ results,
                      !.produced = {<<"answer", turn>>}]
        claim == [Event("business.claim.declared", turn) EXCEPT
                     !.submission = turn, !.consumed = results, !.evidence = refs \ results]
    IN  /\ phase = "turn" /\ Ready
        /\ IF recording = "schema" THEN refs \subseteq Known ELSE refs = TurnRefs
        /\ phase' = "idle"
        /\ pending' = <<answer>>
                      \o (IF recording = "schema" /\ refs # {} THEN <<claim>> ELSE <<>>)
                      \o (IF audited THEN <<Event("audit.diagnostic.recorded", turn)>> ELSE <<>>)
                      \o <<Event("turn.completed", turn)>>
                      \o Interrupted
        /\ Ended
        /\ UNCHANGED <<log, recording, turn, revision, lost>>

\* _fail_turn_if_active and _reject_draft, _end_capture and _fail_analysis: a
\* failed turn is recorded as turn.completed.
FailTurn(rejected) ==
    /\ phase = "turn" /\ Ready
    /\ phase' = "ended"
    /\ pending' = (IF rejected THEN <<Event("answer.rejected", turn),
                                      Event("audit.diagnostic.recorded", turn)>>
                   ELSE <<>>)
                  \o <<Event("context.projected", turn), Event("turn.completed", turn)>>
                  \o Interrupted
                  \o <<Event("analysis.failed", None)>>
    /\ Ended
    /\ UNCHANGED <<log, recording, turn, revision, lost>>

Complete ==
    /\ phase = "idle" /\ Ready
    /\ turn > 0
    /\ phase' = "ended"
    /\ pending' = <<Event("analysis.completed", None)>>
    /\ UNCHANGED <<log, recording, turn, revision, requests, round, calls, lost>>

\* A file of the run is removed or altered after the run.
Lose(ref) ==
    /\ phase = "ended" /\ Ready
    /\ ref \in References(log) \ lost
    /\ lost' = lost \cup {ref}
    /\ UNCHANGED <<log, pending, recording, phase, turn, revision, requests, round, calls>>

Next ==
    \/ Write
    \/ Start
    \/ StartTurn
    \/ Request
    \/ \E toolUse \in BOOLEAN : Respond(toolUse)
    \/ FailResponse
    \/ \E type \in {"model.retry.started", "model.retry.exhausted"} : Retry(type)
    \/ StartTool
    \/ \E call \in calls, kind \in Kinds : CompleteTool(call, kind)
    \/ \E refs \in SUBSET Known : Submit(refs)
    \/ \E rejected \in BOOLEAN : FailTurn(rejected)
    \/ Complete
    \/ \E ref \in Losable : Lose(ref)

Spec == Init /\ [][Next]_vars

-----------------------------------------------------------------------------
(* Properties *)

\* A turn, step, request or tool that is open when its turn or the analysis has
\* ended is shown as interrupted, and none is shown as running.  One that was shown
\* as completed or failed is never shown as anything else, and one that was
\* interrupted never runs again.  The rows of retries are not meant: a retry that
\* has started is shown as running for ever (agent_projection.py:157-166), for
\* _interrupt_open_turn passes them over.
NothingRunsAfterTheEnd ==
    \A i \in AgentNodes(log) :
        (\E j \in At(log, {"turn.completed", "turn.failed", "analysis.completed",
                          "analysis.failed"}) : log[j].turn \in {log[i].turn, None})
            => Status(log, i) # "running"
StatusKept ==
    LET nodes == AgentNodes(log')
    IN  \A i \in AgentNodes(log) :
          /\ i \in nodes
          /\ Status(log, i) \in {"completed", "failed"} => Status(log', i) = Status(log, i)
          /\ Status(log, i) = "interrupted" => Status(log', i) # "running"
EndIsFinal == []NothingRunsAfterTheEnd /\ [][StatusKept]_log

\* No two rows of the agent page share a sequence, for the page is cut at
\* sequences and refuses records that are not strictly ordered.
\* A reader of the business page who has read to a row finds it again at its
\* place with the same nodes: rows are added after those of their problem, and a
\* later problem comes after.  The state of a frame that was shown, and the input of
\* the request it leads to, stay what they were while the run goes on.
AgentRowsUnique ==
    \A a, b \in AgentRows(log) : a.sequence = b.sequence => a = b
BusinessRowsKept ==
    LET rows == RowSequences(log)
        nodes == BusinessNodes(log')
    IN  /\ BusinessNodes(log) = {n \in nodes : n.sequences[1] \in rows}
        /\ \A n \in nodes :
              n.sequences[1] \notin rows =>
                  \A r \in rows : RowBefore(log', r, n.sequences[1])
FramesKept ==
    \A i \in DOMAIN log :
        /\ State(log, lost, i) = State(log', lost, i)
        /\ PublicRequestRef(log, lost, i) # None =>
              PublicRequestRef(log, lost, i) = PublicRequestRef(log', lost, i)
PagesStable == []AgentRowsUnique /\ [][BusinessRowsKept]_log /\ [][FramesKept]_log

\* A result or a document that is consumed was produced before, though results
\* are content-addressed and later tools produce them again.  Other references may
\* be consumed though no event produced them: the evidence and the context of a
\* call whose projection was refused, and the observation a limitation is about,
\* which no native event names as produced.
Documents == {"call", "input", "response", "answer", "view"} \X Nat

ProducedBeforeConsumed ==
    \A i \in DOMAIN log :
        \A ref \in {x \in log[i].consumed : x = Result \/ x \in Documents} :
            Producer(log, ref) # None /\ Producer(log, ref) < i

\* No frame shows the state of a later revision than its own, whatever views are
\* lost, and one that is not marked as unavailable shows that of its own.
StateNotAhead ==
    \A i \in DOMAIN log :
        LET state == State(log, lost, i)
        IN  /\ state # None => log[state].artifact[2] <= Revision(log, i)
            /\ i \in ContextEvents(log, i) /\ ~Unavailable(log, lost, i) =>
                  state # None /\ log[state].artifact[2] = Revision(log, i)

Claims == {i \in At(log, {"business.claim.declared"}) : Submission(log, i) # None}

\* The execution a claim is said to rest on contains only tools that answered
\* with something it cites and that can still be verified.  A claim that cites a
\* result which is verified has such an execution, with the tool that answered
\* with it first, unless what it cites was first recorded in several turns: of
\* these none is shown.
OneTurn(refs) == \A a, b \in refs : log[Owner(log, a)].turn = log[Owner(log, b)].turn

ClaimSliceExact ==
    Opens(log, lost) =>
        \A c \in Claims :
            LET slice == Slice(log, lost, c)
                cited == (log[c].consumed \cup log[c].evidence) \ lost
            IN  /\ slice # None =>
                     \A i \in slice.tools : EndRefs(log, i) \cap cited # {}
                /\ Result \in cited /\ OneTurn(cited) =>
                     /\ slice # None
                     /\ \E i \in slice.tools : ToolEnd(log, i) = Producer(log, Result)

================================================================================
