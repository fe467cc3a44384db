---------------------------- MODULE RequestCapture ----------------------------
(***************************************************************************)
(* How a run learns what Pi did: the before_model_request hook inside the  *)
(* Pi process (pi-grid-tools model-request-capture.mjs) writes a document  *)
(* for each model request, Pi reports responses, retries and tools on its  *)
(* standard output, and grid-agent, reading the one and polling for the    *)
(* other (PiRpcClient.prompt_and_wait, runtime/rpc.py), maps both to       *)
(* native run events (NativeCaptureAdapter, trajectory/capture.py).        *)
(* Nothing synchronises the two processes: Pi may be many lines ahead.     *)
(*                                                                         *)
(* Abstractions.  A request is its request_index, which is its place among *)
(* the documents; below 1000 the order of the document paths is that of    *)
(* the indexes.  A line of output, and the event made of it, carries the   *)
(* request it is really about in "of", which the code does not have.  Pi   *)
(* is external: it may run the tools of a round one after the other or     *)
(* together, and a failed attempt may or may not end its message.  Texts,  *)
(* usage and timing are left out; a tool result is projected into one      *)
(* context event (ContextProjection).                                      *)
(***************************************************************************)
EXTENDS Naturals, Sequences, FiniteSets, SequencesExt

CONSTANTS
    Turns,        \* number of turns of the run
    MaxRequests,  \* bound: model requests of one turn
    MaxTools,     \* bound: tool calls of the run
    MaxRetries,   \* bound: failed attempts Pi retries in the run
    MaxFaults,    \* bound: captures of a request that fail
    None

ASSUME CaptureBounds == /\ Turns \in Nat /\ MaxRequests \in Nat /\ MaxTools \in Nat
                        /\ MaxRetries \in Nat /\ MaxFaults \in Nat

VARIABLES
    pi,         \* what Pi does
    stdin,      \* whether a prompt waits to be read
    called,     \* tools of Pi's round that have not started
    running,    \* tools that have started and not ended
    stdout,     \* lines not read yet
    documents,  \* requests/*/input.json, by request_index
    tools, retries, faults,
    turn,       \* the turn, in the active-turn file and in the adapter
    source,     \* source_event_sequences of the capture state
    capture,    \* the adapter's state for the turn
    seen,       \* requests it has recorded
    acks,       \* acknowledgements written
    log,        \* native run events
    line,       \* the line being handled, or None
    client,     \* what the runner and prompt_and_wait do
    answered    \* turns that returned an answer

piVars    == <<pi, stdin, called, running, stdout, documents, tools, retries>>
adapterVars == <<source, capture, seen, acks, log, faults>>
vars == <<piVars, adapterVars, turn, line, client, answered>>

-----------------------------------------------------------------------------
(* Pi *)

Request  == Len(documents)
InTurn(t) == {i \in DOMAIN documents : documents[i].turn = t}
MayRequest == Cardinality(InTurn(turn)) < MaxRequests

Tools      == 1..MaxTools
OutputLine == [type : {"response", "message_end", "agent_end", "retry_start", "tool_start",
                       "tool_end"},
               what : {"", "failed", "toolUse", "stop", "error", "retry", "answer", "empty"},
               tool : Tools \cup {None}, of : Nat]
ASSUME NoneApart == None \notin Nat \cup OutputLine

Line(type, what, tool) == [type |-> type, what |-> what, tool |-> tool, of |-> Request]
Emit(lines) == stdout' = stdout \o lines

AcceptPrompt == /\ pi = "waiting" /\ stdin
                /\ stdin' = FALSE
                /\ pi' = "hook"
                /\ UNCHANGED <<called, running, stdout, documents, tools, retries>>

\* Pi refuses the prompt, at once or when a request throws.
RefusePrompt == /\ (pi = "waiting" /\ stdin) \/ pi = "provider"
                /\ stdin' = FALSE
                /\ pi' = "waiting"
                /\ Emit(<<Line("response", "failed", None)>>)
                /\ UNCHANGED <<called, running, documents, tools, retries>>

\* The hook writes the document of the next request, with the active turn and
\* the capture state as it finds them, and returns.
Hook == /\ pi = "hook"
        /\ documents' = Append(documents, [turn |-> turn, source |-> source])
        /\ pi' = "captured"
        /\ UNCHANGED <<stdin, called, running, stdout, tools, retries>>

CallProvider == /\ pi = "captured"
                /\ pi' = "provider"
                /\ UNCHANGED <<stdin, called, running, stdout, documents, tools, retries>>

\* The response calls tools: a round of them, which the next request ends.
UseTools == /\ pi = "provider"
            /\ MayRequest
            /\ \E last \in tools + 1 .. MaxTools :
                  /\ called' = tools + 1 .. last
                  /\ tools' = last
            /\ pi' = "round"
            /\ Emit(<<Line("message_end", "toolUse", None)>>)
            /\ UNCHANGED <<stdin, running, documents, retries>>

StartTool(x) == /\ x \in called
                /\ called' = called \ {x}
                /\ running' = running \cup {x}
                /\ Emit(<<Line("tool_start", "", x)>>)
                /\ UNCHANGED <<pi, stdin, documents, tools, retries>>

EndTool(x) == /\ x \in running
              /\ running' = running \ {x}
              /\ pi' = IF called = {} /\ running' = {} THEN "hook" ELSE pi
              /\ Emit(<<Line("tool_end", "", x)>>)
              /\ UNCHANGED <<stdin, called, documents, tools, retries>>

Answer == /\ pi = "provider"
          /\ \E what \in {"answer", "empty"} :
                Emit(<<Line("message_end", "stop", None), Line("agent_end", what, None)>>)
          /\ pi' = "waiting"
          /\ UNCHANGED <<stdin, called, running, documents, tools, retries>>

\* The attempt fails, and Pi retries it or gives up.
FailAttempt ==
    /\ pi = "provider"
    /\ \E ended \in {<<>>, <<Line("message_end", "error", None)>>} :
          \/ /\ retries < MaxRetries /\ MayRequest
             /\ retries' = retries + 1
             /\ Emit(ended \o <<Line("agent_end", "retry", None), Line("retry_start", "", None)>>)
             /\ pi' = "hook"
          \/ /\ Emit(ended \o <<Line("agent_end", "error", None)>>)
             /\ pi' = "waiting"
             /\ UNCHANGED retries
    /\ UNCHANGED <<stdin, called, running, documents, tools>>

\* The hook is fatal (exit 86), or Pi dies otherwise.
Die == /\ pi # "dead"
       /\ client # "closed"
       /\ pi' = "dead"
       /\ called' = {} /\ running' = {}
       /\ UNCHANGED <<stdin, stdout, documents, tools, retries>>

PiStep == /\ \/ AcceptPrompt \/ RefusePrompt \/ Hook \/ CallProvider \/ UseTools \/ Answer \/ FailAttempt
             \/ \E x \in Tools : StartTool(x) \/ EndTool(x)
          /\ UNCHANGED <<adapterVars, turn, line, client, answered>>

PiDies == Die /\ UNCHANGED <<adapterVars, turn, line, client, answered>>

-----------------------------------------------------------------------------
(* The adapter: drain_model_requests *)

Event(type, request, tool, parent, of) ==
    [type |-> type, turn |-> turn, request |-> request, tool |-> tool,
     parent |-> parent, of |-> of]

NoCapture == [requests |-> <<>>, round |-> None, tools |-> {}]

\* A finite set of numbers, in ascending order.
Ascending(S) == CHOOSE order \in [1..Cardinality(S) -> S] :
                    \A i, j \in 1..Cardinality(S) : i < j => order[i] < order[j]

\* Faulty variants of the next definition and of others below: what the
\* checked properties have to tell from the code.
FreshLatestFirst == Reverse(Ascending(InTurn(turn) \ seen))

\* The documents to record: new ones, and of this turn.
Fresh == Ascending(InTurn(turn) \ seen)

Started(order) == [j \in DOMAIN order |->
    Event("request.started", order[j], None, documents[order[j]].source, order[j])]
Tracked(order) == [j \in DOMAIN order |->
    [index |-> order[j], sequence |-> Len(log) + j, settled |-> FALSE]]

\* Each is recorded, acknowledged and then tracked.
Drain == /\ log' = log \o Started(Fresh)
         /\ acks' = acks \cup ToSet(Fresh)
         /\ seen' = seen \cup ToSet(Fresh)
         /\ capture' = [capture EXCEPT !.requests = @ \o Tracked(Fresh)]
         /\ UNCHANGED <<source, faults>>

\* A document is refused, or recorded and not acknowledged, and the ones
\* after it are not looked at.
DrainFault ==
    /\ faults < MaxFaults
    /\ \E n \in 1..Len(Fresh) :
          LET kept == SubSeq(Fresh, 1, n - 1) IN
          /\ \/ log' = log \o Started(kept)
             \/ log' = log \o Started(SubSeq(Fresh, 1, n))
          /\ acks' = acks \cup ToSet(kept)
          /\ seen' = seen \cup ToSet(kept)
          /\ capture' = [capture EXCEPT !.requests = @ \o Tracked(kept)]
    /\ faults' = faults + 1
    /\ UNCHANGED source

-----------------------------------------------------------------------------
(* The adapter: one line *)

Unsettled == {i \in DOMAIN capture.requests : ~capture.requests[i].settled}

LatestUnsettled == CHOOSE i \in Unsettled : \A j \in Unsettled : i >= j

\* _require_unsettled_request: responses settle requests first come, first
\* served.  _require_request: the request recorded last.
FirstUnsettled == CHOOSE i \in Unsettled : \A j \in Unsettled : i <= j
Current        == Len(capture.requests)

Settle == [capture EXCEPT !.requests[FirstUnsettled].settled = TRUE]

Record(type, i, tool, parent) ==
    log' = Append(log, Event(type, capture.requests[i].index, tool, parent, line.of))

CompleteResponse ==
    /\ Unsettled # {}
    /\ Record("response.completed", FirstUnsettled, None, capture.requests[FirstUnsettled].sequence)
    /\ capture' = [Settle EXCEPT !.round = IF line.what = "toolUse" THEN FirstUnsettled ELSE @]
    /\ UNCHANGED source

FailResponse ==
    /\ Unsettled # {}
    /\ Record("response.failed", FirstUnsettled, None, capture.requests[FirstUnsettled].sequence)
    /\ capture' = [Settle EXCEPT !.round = None]
    /\ UNCHANGED source

\* agent_end settles a request only if its message did not.
EndAgent ==
    IF line.what \in {"retry", "error"} /\ (Current = 0 \/ Unsettled # {})
    THEN FailResponse
    ELSE UNCHANGED <<log, capture, source>>

StartRetry == /\ Current # 0
              /\ Record("retry.started", Current, None, capture.requests[Current].sequence)
              /\ UNCHANGED <<capture, source>>

\* The request of the round, or the current one when there is no round.
ToolRequest == IF capture.round # None THEN capture.round ELSE Current

RecordToolStart ==
    /\ ToolRequest # 0
    /\ Record("tool.started", ToolRequest, line.tool, capture.requests[ToolRequest].sequence)
    /\ capture' = [capture EXCEPT !.tools = @ \cup
                      {[tool |-> line.tool, request |-> ToolRequest, sequence |-> Len(log) + 1]}]
    /\ UNCHANGED source

CompletesOfRequest(state) ==
    /\ log' = log \o
          <<Event("tool.completed", capture.requests[state.request].index, line.tool,
                  capture.requests[state.request].sequence, line.of),
            Event("context", None, None, None, None)>>
    /\ source' = Len(log) + 2
    /\ capture' = [capture EXCEPT !.tools = @ \ {state},
                                  !.round = IF capture.tools = {state} THEN None ELSE @]

\* The completion, and after it the context event of the projection.
CompleteTool(state) ==
    /\ log' = log \o
          <<Event("tool.completed", capture.requests[state.request].index, line.tool,
                  state.sequence, line.of),
            Event("context", None, None, None, None)>>
    /\ source' = Len(log) + 2
    /\ capture' = [capture EXCEPT !.tools = @ \ {state},
                                  !.round = IF capture.tools = {state} THEN None ELSE @]

RecordToolCompletion == \E state \in capture.tools : state.tool = line.tool /\ CompleteTool(state)

\* on_raw_event and on_semantic_event; disabled where they raise.
Handle ==
    \/ line.type = "response"    /\ FailResponse
    \/ line.type = "message_end" /\ CompleteResponse
    \/ line.type = "agent_end"   /\ EndAgent
    \/ line.type = "retry_start" /\ StartRetry
    \/ line.type = "tool_start"  /\ RecordToolStart
    \/ line.type = "tool_end"    /\ RecordToolCompletion

-----------------------------------------------------------------------------
(* The runner and prompt_and_wait *)

\* The turn starts, its context view is injected, and Pi is prompted.
BeginTurn == /\ client = "between" /\ turn < Turns
             /\ turn' = turn + 1
             /\ log' = Append(log, [Event("context", None, None, None, None) EXCEPT !.turn = turn'])
             /\ source' = Len(log')
             /\ stdin' = TRUE
             /\ client' = "prompting"
             /\ UNCHANGED <<pi, called, running, stdout, documents, tools, retries,
                            capture, seen, acks, faults, line, answered>>

\* The queue is empty when the poll interval ends.
Poll == /\ client = "prompting" /\ line = None
        /\ stdout = <<>> /\ Fresh # <<>>
        /\ Drain
        /\ UNCHANGED <<piVars, turn, line, client, answered>>

\* A line is read and, before it is looked at, the documents are.
TakeLine == /\ client = "prompting" /\ line = None
            /\ stdout # <<>>
            /\ line' = Head(stdout)
            /\ stdout' = Tail(stdout)
            /\ Drain
            /\ UNCHANGED <<pi, stdin, called, running, documents, tools, retries, turn,
                           client, answered>>

CaptureFault == /\ client = "prompting" /\ line = None
                /\ DrainFault
                /\ client' = "failing"
                /\ UNCHANGED <<piVars, turn, line, answered>>

\* The last line of a prompt returns its answer or raises, after one more
\* look at the documents, which finds none: Pi has stopped.
HandleLine ==
    /\ client = "prompting" /\ line # None
    /\ Handle
    /\ line' = None
    /\ client' = CASE line.what = "answer"                      -> "answered"
                   [] line.what \in {"empty", "failed"}         -> "failing"
                   [] line.type = "agent_end" /\ line.what = "error" -> "failing"
                   [] OTHER                                     -> client
    /\ UNCHANGED <<piVars, seen, acks, faults, turn, answered>>

\* CaptureIntegrityError
RefuseLine == /\ client = "prompting" /\ line # None
              /\ ~ENABLED Handle
              /\ line' = None
              /\ client' = "failing"
              /\ UNCHANGED <<piVars, adapterVars, turn, answered>>

IgnoresEof == /\ client = "prompting" /\ line = None
              /\ pi = "dead" /\ stdout = <<>> /\ Fresh # <<>>
              /\ client' = "failing"
              /\ UNCHANGED <<piVars, adapterVars, turn, line, answered>>

\* The pipe is closed; what the documents say is not looked at again.
Eof == /\ client = "prompting" /\ line = None
       /\ pi = "dead" /\ stdout = <<>>
       /\ client' = "failing"
       /\ UNCHANGED <<piVars, adapterVars, turn, line, answered>>

\* end_turn: what is not settled was interrupted.
Interrupted ==
    LET open == Ascending(Unsettled)
    IN  [j \in DOMAIN open |->
            Event("response.failed", capture.requests[open[j]].index, None,
                  capture.requests[open[j]].sequence, capture.requests[open[j]].index)]

LeavesOpen == /\ client \in {"answered", "failing"}
              /\ capture' = NoCapture
              /\ client' = IF client = "answered" THEN "between" ELSE "closed"
              /\ answered' = IF client = "answered" THEN answered \cup {turn} ELSE answered
              /\ pi' = IF client = "answered" THEN pi ELSE "dead"
              /\ called' = IF client = "answered" THEN called ELSE {}
              /\ running' = IF client = "answered" THEN running ELSE {}
              /\ UNCHANGED <<stdin, stdout, documents, tools, retries,
                             source, seen, acks, log, faults, turn, line>>

\* After an answer the next turn can begin; a failure stops Pi and the run.
EndTurn == /\ client \in {"answered", "failing"}
           /\ log' = log \o Interrupted
           /\ capture' = NoCapture
           /\ client' = IF client = "answered" THEN "between" ELSE "closed"
           /\ answered' = IF client = "answered" THEN answered \cup {turn} ELSE answered
           /\ pi' = IF client = "answered" THEN pi ELSE "dead"
           /\ called' = IF client = "answered" THEN called ELSE {}
           /\ running' = IF client = "answered" THEN running ELSE {}
           /\ UNCHANGED <<stdin, stdout, documents, tools, retries,
                          source, seen, acks, faults, turn, line>>

ClientStep == \/ BeginTurn \/ Poll \/ TakeLine \/ HandleLine \/ RefuseLine
              \/ CaptureFault \/ Eof \/ EndTurn

-----------------------------------------------------------------------------
Init ==
    /\ pi = "waiting" /\ stdin = FALSE /\ called = {} /\ running = {}
    /\ stdout = <<>> /\ documents = <<>> /\ tools = 0 /\ retries = 0 /\ faults = 0
    /\ turn = 0 /\ source = None /\ capture = NoCapture
    /\ seen = {} /\ acks = {} /\ log = <<>>
    /\ line = None /\ client = "between" /\ answered = {}

Next == PiStep \/ PiDies \/ ClientStep

\* Pi goes on as long as it can, and the client reads and polls for ever.
Spec == Init /\ [][Next]_vars /\ WF_vars(PiStep) /\ WF_vars(ClientStep)

-----------------------------------------------------------------------------
(* Properties *)

Settlements == {"response.completed", "response.failed"}
Events(type) == {n \in DOMAIN log : log[n].type = type}
OfRequest(i, types) == {n \in DOMAIN log : log[n].request = i /\ log[n].type \in types}

\* A request is acknowledged only once its start is durable, each start is
\* recorded once, and starts are recorded in the order Pi made the requests
\* (capture.py drain_model_requests).
AcksAreDurable ==
    /\ \A i \in acks : OfRequest(i, {"request.started"}) # {}
    /\ \A m, n \in Events("request.started") : m < n => log[m].request < log[n].request

\* Every acknowledged request is settled exactly once by the time its turn is
\* closed, answered or not, and never before or after that twice (capture.py
\* _complete_response, _fail_response, end_turn).
SettledOnce ==
    \A i \in acks :
        /\ Cardinality(OfRequest(i, Settlements)) <= 1
        /\ client \in {"between", "closed"} => OfRequest(i, Settlements) # {}

\* Causes precede their effects, are of the right kind and stay in the turn:
\* a request comes of a context event, a settlement or a tool of the start of
\* its request, a tool's completion of that tool's start (capture.py parents).
CauseOf(event) == log[event.parent]
HasCause(event) ==
    CASE event.type = "request.started" -> CauseOf(event).type = "context"
      [] event.type \in Settlements \cup {"retry.started", "tool.started"} ->
            /\ CauseOf(event).type = "request.started"
            /\ CauseOf(event).request = event.request
      [] event.type = "tool.completed" ->
            /\ CauseOf(event).type = "tool.started"
            /\ CauseOf(event).tool = event.tool
            /\ CauseOf(event).request = event.request
      [] event.type = "context" -> event.parent = None
CausesHold ==
    \A n \in DOMAIN log :
        /\ HasCause(log[n])
        /\ log[n].parent # None => log[n].parent < n /\ CauseOf(log[n]).turn = log[n].turn

\* The record of an answered turn is complete and right: every request Pi
\* made and every tool it ran is there from start to end, and every response
\* or failure is recorded under the request it is of, however far Pi was ahead
\* -- if Pi retried at most once in the turn.  The end of a failed attempt takes
\* an open request for its own (capture.py on_raw_event), and after two retries
\* that may be a later one, which is noticed only when one request too few is open.
RetriedOnce(t) ==
    \A m, n \in Events("retry.started") : log[m].turn = t /\ log[n].turn = t => m = n
AnsweredTurnsExact ==
    \A t \in answered :
        /\ InTurn(t) \subseteq acks
        /\ {log[n].tool : n \in {m \in Events("tool.started") : log[m].turn = t}}
               = {log[n].tool : n \in {m \in Events("tool.completed") : log[m].turn = t}}
        /\ RetriedOnce(t) =>
              \A n \in DOMAIN log : log[n].turn = t /\ log[n].type \in Settlements
                                        => log[n].of = log[n].request

\* A prompt always comes back, with an answer or an error: also when Pi dies
\* (rpc.py prompt_and_wait).
PromptReturns == client = "prompting" ~> client # "prompting"

=============================================================================
