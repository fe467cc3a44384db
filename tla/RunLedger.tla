------------------------------ MODULE RunLedger ------------------------------
(***************************************************************************)
(* One analysis run and the files that tell of it: AnalysisRunner.run      *)
(* (grid_agent/analysis/runner.py) driving the turn controller             *)
(* (analysis/turns.py), whose events go through AnalysisContextStore.append*)
(* (analysis/store.py) and NativeContextBridge.commit                      *)
(* (trajectory/context_bridge.py) to RunEventRecorder.append               *)
(* (trajectory/recorder.py).                                               *)
(*                                                                         *)
(* Every durable write is a step of its own, so that every state is one a  *)
(* crash can leave behind, and every write can fail.  Nothing resumes a    *)
(* run: a crash is a behaviour that stops.                                 *)
(*                                                                         *)
(* Abstractions.  A context is the sequence of events applied to it, which *)
(* fixes its revision (the length) and its state hash.  Of the tool        *)
(* results only the bridge's part is kept: one native tool event, one      *)
(* projected context event (ContextProjection has the rest), one model     *)
(* response.  Every exception but an OSError is an "error": the runner     *)
(* handles them alike.                                                     *)
(***************************************************************************)
EXTENDS Naturals, FiniteSets, Sequences, SequencesExt

CONSTANTS
    Instructions,    \* number of instructions of the request
    MaxTools,        \* bound: tool results in the run
    MaxFaults,       \* bound: writes that fail, events that are refused
    None

ASSUME RunBounds == /\ Instructions \in Nat \ {0}
                    /\ MaxTools \in Nat
                    /\ MaxFaults \in Nat

VARIABLES
    native,        \* events/run-events.jsonl: the complete lines
    native_torn,   \* it ends in the middle of a line
    recorder,      \* "open" or "closed"
    ledger,        \* context/context-events.jsonl: the complete lines
    ledger_torn,   \* it contains a line that cannot be parsed
    snapshot,      \* context/analysis-context.json
    memory,        \* the store's snapshot
    active_turn,   \* ordinal in the active-turn file, None if absent
    answers,       \* output/answers.jsonl
    manifest,      \* status in manifest.json, None if absent
    pc,            \* what the runner does next
    phase,         \* how far the append under way has come
    turn,          \* ordinal of the turn being executed
    tools,         \* tool results so far
    gap,           \* whether a projection lost a context ("missing"), and the
                   \* active turn has consumed it ("consumed"), or "no"
    faults         \* faults so far

nativeVars == <<native, native_torn, recorder>>
ledgerVars == <<ledger, ledger_torn>>
fileVars   == <<active_turn, answers, manifest>>
storeVars  == <<nativeVars, ledgerVars, snapshot, memory>>
vars == <<storeVars, fileVars, pc, phase, turn, tools, gap, faults>>

-----------------------------------------------------------------------------
(* The context as the events applied to it *)

Event(type, t) == [type |-> type, turn |-> t]
Terminals      == {"analysis.completed", "analysis.failed"}
HasEvent(log, type, t) == Event(type, t) \in ToSet(log)

Succeeded(log) == {t \in 1..Instructions : HasEvent(log, "turn.succeeded", t)}
FailedTurns(log) == {t \in 1..Instructions : HasEvent(log, "turn.failed", t)}
InTurn(log) == \E t \in 1..Instructions : /\ HasEvent(log, "turn.started", t)
                                          /\ t \notin Succeeded(log) \cup FailedTurns(log)
Ended(log)  == \E type \in Terminals : HasEvent(log, type, 0)

\* AnalysisContextStore.replay: the context the ledger's lines lead to, None
\* if a line is malformed or out of sequence.
Replay == IF ledger_torn \/ \E i \in DOMAIN ledger : ledger[i].revision # i
          THEN None
          ELSE [i \in DOMAIN ledger |-> ledger[i].event]

-----------------------------------------------------------------------------
(* What the runner appends, and where it goes from there *)

\* type: the event; scope: "store" for a context event, "bridge" for an
\* injection and "recorder" for an event captured from Pi.  A context event
\* is committed natively before it reaches the ledger.  ok, error and os: the
\* next step when the append succeeds, raises, and raises an OSError.
Op(type, scope, ok, error, os) ==
    [type |-> type, scope |-> scope, ok |-> ok, error |-> error, os |-> os]

Ops ==
    [boot     |-> Op("analysis.started",   "store",    "prepare", "closing", "closing"),
     prepare  |-> Op("context.injected",   "bridge",   "next", "failing", "failing"),
     start    |-> Op("turn.started",       "store",    "inject", "failing", "closing"),
     inject   |-> Op("context.injected",   "bridge",   "prompt", "fail", "closing"),
     tool     |-> Op("tool.completed",     "recorder", "project", "fail", "closing"),
     project  |-> Op("context.projected",  "store",    "respond", "diagnose", "diagnose"),
     diagnose |-> Op("limitation",         "store",    "respond", "respond", "closing"),
     respond  |-> Op("model.response",     "recorder", "prompt", "fail", "closing"),
     accept   |-> Op("answer.submitted",   "store",    "close", "fail", "closing"),
     close    |-> Op("turn.succeeded",     "store",    "unmark", "fail", "closing"),
     reject   |-> Op("answer.rejected",    "recorder", "reject_limit", "fail", "closing"),
     reject_limit |-> Op("limitation",     "store",    "reject_close", "fail", "closing"),
     reject_close |-> Op("turn.failed",    "store",    "unmark", "fail", "closing"),
     fail_limit   |-> Op("limitation",     "store",    "fail_close", "failing", "closing"),
     fail_close   |-> Op("turn.failed",    "store",    "fail_publish", "failing", "closing"),
     finish   |-> Op("analysis.completed", "store",    "verify", "failing", "failing"),
     abandon  |-> Op("analysis.failed",    "store",    "write_failed", "write_failed", "closing")]

EventTypes  == {Ops[s].type : s \in DOMAIN Ops}
EventRecord == [type: EventTypes, turn: Nat]

\* Python's None is neither a context nor a status.
ASSUME NoneApart == None \notin Seq(EventRecord) \cup {"completed", "failed"}

Appending == pc \in DOMAIN Ops

\* Turn-scoped events carry the turn, the others none.
Draft == Event(Ops[pc].type,
               IF pc \in {"boot", "prepare", "finish", "abandon"} THEN 0 ELSE turn)

Goto(step) == /\ pc' = step
              /\ phase' = "native"

\* What a projection cut short by a fault, or a later one, does to gap
\* (ContextProjection: only faults leave a context unregistered).
AfterLoss    == IF gap = "no" THEN {"no", "missing", "consumed"} ELSE {gap, "consumed"}
AfterProject == IF gap = "missing" THEN {"no", "missing", "consumed"} ELSE {gap, "no"}

\* Faulty variants of the next definition and of others below: what the
\* checked properties have to tell from the code.
RaiseUnmarks(kind) ==
    /\ Goto(IF kind = "os" THEN Ops[pc].os ELSE Ops[pc].error)
    /\ active_turn' = None
    /\ UNCHANGED <<answers, manifest, turn, tools>>
RaiseRetries(kind) ==
    /\ Goto(IF pc = "respond" THEN pc ELSE IF kind = "os" THEN Ops[pc].os ELSE Ops[pc].error)
    /\ active_turn' = IF pc = "start" THEN None ELSE active_turn
    /\ UNCHANGED <<answers, manifest, turn, tools>>

\* The append raises.  Out of TurnController.start the active-turn file is
\* restored on the way.
Raise(kind) ==
    /\ Goto(IF kind = "os" THEN Ops[pc].os ELSE Ops[pc].error)
    /\ active_turn' = IF pc = "start" THEN None ELSE active_turn
    /\ UNCHANGED <<answers, manifest, turn, tools>>

Succeed ==
    /\ Goto(Ops[pc].ok)
    /\ gap' \in IF pc = "project" THEN AfterProject ELSE {gap}
    /\ UNCHANGED <<fileVars, turn, tools, faults>>

Fault == /\ faults < MaxFaults
         /\ faults' = faults + 1
         /\ gap' \in IF pc = "project" THEN AfterLoss ELSE {gap}

-----------------------------------------------------------------------------
(* The append of one event, write by write *)

\* reduce_context rejects a projected event it cannot apply, and the closing
\* of a turn whose lineage it does not know; nothing is written.
Rejected ==
    /\ Appending /\ phase = "native"
    /\ \/ Ops[pc].type = "context.projected"
       \/ Ops[pc].type \in {"turn.succeeded", "turn.failed"} /\ gap = "consumed"
    /\ Raise("error")
    /\ UNCHANGED <<storeVars, gap, faults>>

\* The recorder is closed, or refuses the content or a reference.
RecorderClosed ==
    /\ Appending /\ phase = "native"
    /\ recorder = "closed"
    /\ Raise("error")
    /\ UNCHANGED <<storeVars, gap, faults>>

RecorderRefuses ==
    /\ Appending /\ phase = "native"
    /\ recorder = "open"
    /\ Fault
    /\ Raise("error")
    /\ UNCHANGED storeVars

Accepted == ~(Ops[pc].type \in {"turn.succeeded", "turn.failed"} /\ gap = "consumed")

\* The line is durable; only a context event or an injection has more to do.
AppendNative ==
    /\ Appending /\ phase = "native"
    /\ recorder = "open"
    /\ Accepted
    /\ native' = Append(native, Draft)
    /\ IF Ops[pc].scope = "recorder"
       THEN Succeed
       ELSE /\ phase' = "finish"
            /\ UNCHANGED <<fileVars, pc, turn, tools, gap, faults>>
    /\ UNCHANGED <<native_torn, recorder, ledgerVars, snapshot, memory>>

\* An OSError closes the recorder; none, a part or all of the line is there.
AppendNativeFault ==
    /\ Appending /\ phase = "native"
    /\ recorder = "open"
    /\ Accepted
    /\ Fault
    /\ recorder' = "closed"
    /\ \/ UNCHANGED <<native, native_torn>>
       \/ native' = Append(native, Draft) /\ UNCHANGED native_torn
       \/ native_torn' = TRUE /\ UNCHANGED native
    /\ Raise("error")
    /\ UNCHANGED <<ledgerVars, snapshot, memory>>

\* _finish_commit writes the capture state.
FinishCommit ==
    /\ Appending /\ phase = "finish"
    /\ IF Ops[pc].scope = "bridge"
       THEN Succeed
       ELSE /\ phase' = "ledger"
            /\ UNCHANGED <<fileVars, pc, turn, tools, gap, faults>>
    /\ UNCHANGED storeVars

\* Its OSError is wrapped when a context event is committed, and not when a
\* view is injected.
FinishCommitFault ==
    /\ Appending /\ phase = "finish"
    /\ Fault
    /\ Raise(IF Ops[pc].scope = "bridge" THEN "os" ELSE "error")
    /\ UNCHANGED storeVars

LineAhead == [event |-> Draft, revision |-> Len(memory) + 1, native |-> Len(native) + 1]

Line == [event |-> Draft, revision |-> Len(memory) + 1, native |-> Len(native)]

AppendLedger ==
    /\ Appending /\ phase = "ledger"
    /\ IF ledger_torn THEN UNCHANGED ledger ELSE ledger' = Append(ledger, Line)
    /\ phase' = "snapshot"
    /\ UNCHANGED <<nativeVars, ledger_torn, snapshot, memory, fileVars, pc, turn, tools, gap, faults>>

AppendLedgerFault ==
    /\ Appending /\ phase = "ledger"
    /\ Fault
    /\ \/ UNCHANGED ledgerVars
       \/ ledger' = Append(ledger, Line) /\ UNCHANGED ledger_torn
       \/ ledger_torn' = TRUE /\ UNCHANGED ledger
    /\ Raise("os")
    /\ UNCHANGED <<nativeVars, snapshot, memory>>

\* The snapshot is replaced atomically, then the store's own copy.
ReplaceSnapshot ==
    /\ Appending /\ phase = "snapshot"
    /\ snapshot' = Append(memory, Draft)
    /\ memory' = snapshot'
    /\ Succeed
    /\ UNCHANGED <<nativeVars, ledgerVars>>

ReplaceSnapshotFault ==
    /\ Appending /\ phase = "snapshot"
    /\ Fault
    /\ Raise("os")
    /\ UNCHANGED storeVars

AppendStep ==
    \/ Rejected \/ RecorderClosed \/ RecorderRefuses
    \/ AppendNative \/ AppendNativeFault
    \/ FinishCommit \/ FinishCommitFault
    \/ AppendLedger \/ AppendLedgerFault
    \/ ReplaceSnapshot \/ ReplaceSnapshotFault

-----------------------------------------------------------------------------
(* The runner between appends *)

Answer == [turn |-> turn, accepted |-> pc = "publish"]

\* A write of the runner or the turn controller itself fails, or one to the
\* trace or to the pipe of a Pi that has died, and nothing on the way out of
\* run handles an OSError.  The line of an answer may be there all the same.
WriteFault == /\ pc \in {"next", "mark", "prompt", "publish", "fail_publish", "unmark",
                         "failing", "write_completed", "write_failed"}
              /\ Fault
              /\ Goto("closing")
              /\ IF pc \in {"publish", "fail_publish"}
                 THEN answers' \in {answers, Append(answers, Answer)}
                 ELSE UNCHANGED answers
              /\ UNCHANGED <<storeVars, active_turn, manifest, turn, tools>>

\* The next instruction, or the completion of the analysis.
NextTurn == /\ pc = "next"
            /\ IF turn < Instructions
               THEN /\ turn' = turn + 1
                    /\ gap' = IF gap = "consumed" THEN "missing" ELSE gap
                    /\ Goto("mark")
               ELSE UNCHANGED <<turn, gap>> /\ Goto("complete")
            /\ UNCHANGED <<storeVars, fileVars, tools, faults>>

\* TurnController.start writes the active-turn file before turn.started.
MarkActive == /\ pc = "mark"
              /\ active_turn' = turn
              /\ Goto("start")
              /\ UNCHANGED <<storeVars, answers, manifest, turn, tools, gap, faults>>

\* prompt_and_wait: Pi uses a tool, answers, answers what is not admitted,
\* or fails.
Prompt == /\ pc = "prompt"
          /\ \/ tools < MaxTools /\ tools' = tools + 1 /\ Goto("tool")
             \/ \E step \in {"publish", "reject", "fail"} : UNCHANGED tools /\ Goto(step)
          /\ UNCHANGED <<storeVars, fileVars, turn, gap, faults>>

\* The line of an accepted answer is written before answer.submitted, that
\* of a failed turn after turn.completed.
Publish == /\ pc \in {"publish", "fail_publish"}
           /\ answers' = Append(answers, Answer)
           /\ Goto(IF pc = "publish" THEN "accept" ELSE "unmark")
           /\ UNCHANGED <<storeVars, active_turn, manifest, turn, tools, gap, faults>>

\* _remove_active_turn; the run goes on only after a success.
Unmark == /\ pc = "unmark"
          /\ active_turn' = None
          /\ Goto(IF turn \in Succeeded(memory) THEN "next" ELSE "failing")
          /\ UNCHANGED <<storeVars, answers, manifest, turn, tools, gap, faults>>

FailTurnPublishes == /\ pc = "fail"
                     /\ Goto(IF InTurn(memory) THEN "fail_publish" ELSE "failing")
                     /\ UNCHANGED <<storeVars, fileVars, turn, tools, gap, faults>>

\* _fail_turn_if_active
FailTurn == /\ pc = "fail"
            /\ Goto(IF InTurn(memory) THEN "fail_limit" ELSE "failing")
            /\ UNCHANGED <<storeVars, fileVars, turn, tools, gap, faults>>

TrustsMemory == Succeeded(memory) = 1..Instructions /\ ~native_torn

\* _require_all_turns_succeeded, _verify_running_state_before_completion
Verified == /\ Succeeded(memory) = 1..Instructions
            /\ snapshot = memory
            /\ Replay = memory
            /\ ~native_torn
Complete == /\ pc = "complete"
            /\ Goto(IF Verified THEN "finish" ELSE "failing")
            /\ UNCHANGED <<storeVars, fileVars, turn, tools, gap, faults>>

\* _verify_completed_trajectory
VerifyCompleted == /\ pc = "verify"
                   /\ Goto(IF ~native_torn /\ Last(native) = Event("analysis.completed", 0)
                           THEN "write_completed" ELSE "failing")
                   /\ UNCHANGED <<storeVars, fileVars, turn, tools, gap, faults>>

\* _fail_analysis: analysis.failed is appended only to a context that is
\* between turns and a native trajectory that can be replayed.
FailAnalysis == /\ pc = "failing"
                /\ Goto(IF ~Ended(memory) /\ ~InTurn(memory) /\ ~native_torn
                        THEN "abandon" ELSE "write_failed")
                /\ UNCHANGED <<storeVars, fileVars, turn, tools, gap, faults>>

\* _write_final_artifacts
WriteManifest == /\ pc \in {"write_completed", "write_failed"}
                 /\ manifest' = IF pc = "write_completed" THEN "completed" ELSE "failed"
                 /\ Goto("closing")
                 /\ UNCHANGED <<storeVars, active_turn, answers, turn, tools, gap, faults>>

\* The finally clause of run, also on the way out of an exception.
Close == /\ pc = "closing"
         /\ recorder' = "closed"
         /\ Goto("done")
         /\ UNCHANGED <<native, native_torn, ledgerVars, snapshot, memory, fileVars, turn, tools, gap, faults>>

RunnerStep ==
    \/ WriteFault \/ NextTurn \/ MarkActive \/ Prompt \/ Publish \/ Unmark
    \/ FailTurn \/ Complete \/ VerifyCompleted \/ FailAnalysis \/ WriteManifest \/ Close

Init ==
    /\ native = <<>> /\ native_torn = FALSE /\ recorder = "open"
    /\ ledger = <<>> /\ ledger_torn = FALSE
    /\ snapshot = <<>> /\ memory = <<>>
    /\ active_turn = None /\ answers = <<>> /\ manifest = None
    /\ pc = "boot" /\ phase = "native"
    /\ turn = 0 /\ tools = 0 /\ gap = "no" /\ faults = 0

Next == AppendStep \/ RunnerStep

\* The runner is one thread that never waits for ever: Pi ends a prompt or
\* the pipe closes, and every write returns or raises.
Spec == Init /\ [][Next]_vars /\ WF_vars(Next)

-----------------------------------------------------------------------------
(* Properties *)

\* Wherever the run is cut off, the authoritative native trajectory is ahead:
\* each line of the context ledger retains the sequence of a native event that
\* is already durable and is the same event, in the same order, and what the
\* store holds in memory is in the ledger under its revision (store.py
\* append, context_bridge.py commit).
NativeFirst ==
    /\ \A i \in DOMAIN ledger : /\ ledger[i].native \in DOMAIN native
                               /\ native[ledger[i].native] = ledger[i].event
    /\ \A i, j \in DOMAIN ledger : i < j => ledger[i].native < ledger[j].native
MemoryDurable ==
    ~ledger_torn => \A k \in DOMAIN memory : \E i \in DOMAIN ledger :
                        ledger[i].revision = k /\ ledger[i].event = memory[k]
Durable == NativeFirst /\ MemoryDurable

\* A manifest that says completed can be trusted whatever failed on the way:
\* the native trajectory is whole and ends with analysis.completed, replaying
\* the ledger gives the snapshot, every instruction was answered, in order,
\* and answers.jsonl has exactly the accepted answers (runner.py
\* _verify_running_state_before_completion, _verify_completed_trajectory).
CompletedIsTrusted ==
    manifest = "completed" =>
        /\ ~native_torn /\ Last(native) = Event("analysis.completed", 0)
        /\ Replay = snapshot
        /\ answers = [t \in 1..Instructions |-> [turn |-> t, accepted |-> TRUE]]
        /\ active_turn = None

\* A turn the context counts as a success has its answer submitted before it
\* was closed, and one line in answers.jsonl, the accepted one; while Pi is at
\* work the active-turn file names the turn the context is in (turns.py
\* _accept_draft, start).
SuccessAnswered ==
    \A t \in Succeeded(memory) :
        /\ HasEvent(memory, "answer.submitted", t)
        /\ \A i \in DOMAIN answers : answers[i].turn = t => answers[i].accepted
        /\ Cardinality({i \in DOMAIN answers : answers[i].turn = t}) = 1
ActiveTurnNamed ==
    pc \in {"prompt", "tool", "project", "diagnose", "respond", "publish", "accept", "reject"}
        => active_turn = turn /\ InTurn(memory)
TurnsAccounted == SuccessAnswered /\ ActiveTurnNamed

\* Once the recorder has lost its file the analysis produces no more answers
\* (recorder.py append, turns.py fail and _accept_draft).
NoAnswerAfterLoss == [][recorder = "closed" => answers' = answers]_vars

\* The run implements AnalysisRun, liveness included.
Outcome == CASE manifest # None                  -> manifest
             [] manifest = None /\ pc = "done"   -> "interrupted"
             [] manifest = None /\ pc # "done"   -> "running"
Run == INSTANCE AnalysisRun
           WITH outcome <- Outcome, answered <- Cardinality(Succeeded(memory))
ImplementsAnalysisRun == Run!RunSpec

=============================================================================
