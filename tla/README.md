# grid-static-analysis in TLA+

grid-static-analysis answers questions about a power grid.  A command line
(`grid-agent`) starts the coding agent Pi as a child process, gives it tools
that run a simulator (`gridctl`, on pandapower), watches what Pi does, and
keeps a record of it that can be replayed and audited: which numbers were
computed, by which tool call, of which model request, from which network
revision, and which answer rests on them.  The record is the product, so what
is worth verifying is the record: that it is complete, that its parts agree,
and that it stays so when writes fail, processes die, and two processes that
nothing synchronises run past each other.

Paths below are relative to `src/packages/`; `GA` is
`grid-agent/src/grid_agent`, `GS` is `grid-simulator/src/grid_simulator`.

## 1. Inventory

| Component | State it keeps | Operations | What makes it correct |
|---|---|---|---|
| Context reducer (`GA/analysis/reducer.py`, `models.py`) | the Analysis Context: baselines, turns, observations, results, evidence, facts, limitations, domain state | one transition per event type | records are never changed; every reference in a closed turn is known; revisions agree; one turn at a time |
| Context projector (`GA/analysis/projector.py`, `domain_projection.py`, `integrity.py`) | started calls | `observe`: a tool result becomes up to seven reducer events | what it registers is what the simulator's documents say, also when it is cut short; nothing is lost silently |
| Context store (`GA/analysis/store.py`) | snapshot in memory and on disk, the context ledger | `append`, `replay`, `verify_materialized_snapshot` | ledger, snapshot and memory agree; a crash leaves a prefix |
| Recorder, reader, events (`GA/trajectory/recorder.py`, `reader.py`, `events.py`) | the native trajectory, a hash chain in one file; ownership lock | `append`, `close`, `read_prefix` | one writer; a failed append closes it for good |
| Native-first bridge (`GA/trajectory/context_bridge.py`) | the capture-state file | `commit`, `record_injection` | the native event is durable before the ledger has it |
| Turn controller (`GA/analysis/turns.py`, `trajectory/answers.py`) | the active-turn file, drafts, answers | `start`, `submit`, `fail` | an accepted answer is published once and belongs to a successful turn |
| Runner (`GA/analysis/runner.py`) | none of its own; the manifest | `run` | a manifest that says completed can be trusted; every exit ends the run |
| Capture adapter (`GA/trajectory/capture.py`, `request_input.py`) | requests and tools of the turn, acknowledgements | `begin_turn`, `drain_model_requests`, `on_raw_event`, `on_semantic_event`, `end_turn` | each request recorded, acknowledged and settled once, tools and responses under their requests, causes hold |
| Pi hook (`pi-grid-tools/src/model-request-capture.mjs`) | the request index | the `before_model_request` handler | a document for each request, before the provider is called |
| Pi RPC client (`GA/runtime/rpc.py`) | the child process, the queue of its output | `start`, `prompt_and_wait`, `stop` | every prompt returns |
| Domain tools (`pi-grid-tools/src/domain-tools.mjs`) | none | one process call for each tool | references it lets through are allowed |
| Artifact registry (`GA/trajectory/artifacts.py`) | immutable files | `write_json`, `register_existing`, `verify` | a published artifact is never replaced |
| Context view, reports (`GA/analysis/view.py`, `report*.py`, `reporting.py`) | files | rendering | the view is of the current revision |
| Trajectory projections (`GA/trajectory/service.py`, `*_projection.py`, `materialize.py`, `replay.py`, `legacy_v02.py`) | a cache | `open_run` | a function of the events; a prefix gives a prefix |
| Trajectory API (`GA/trajectory/api/`) | cursors | pages of a run | a reader that follows cursors misses nothing |
| CLI, configuration, auth (`GA/cli`, `config`, `auth`) | files | wiring, precedence | |
| Runtime installer and locator (`GA/runtime/installer.py`, `locator.py`, `lock.py`) | an installed runtime | `install`, `locate` | what is located was installed whole |
| Simulator (`GS`) | content-addressed contexts, revisions, results, evidence | `gridctl` operations | references are digests of what they name |
| Workbench (`trajectory-workbench/src`) | view state in the browser | views of the API | answers of earlier requests do not overwrite later ones |

How they interact.  `run` starts a turn (active-turn file, then
`turn.started`), injects the context view, and writes a prompt to Pi.  Pi makes
model requests; the hook writes a document of each.  Pi's tools run `gridctl`.
grid-agent reads Pi's output line by line and polls for documents: the adapter
turns both into native events, the projector turns tool results into context
events.  Each context event goes through the reducer, then to the native
trajectory, then to the capture-state file (which the hook reads: it is the
cause the next request names), then to the ledger, then to the snapshot.  The
turn ends with an accepted answer or a failure; after the last turn the run is
verified and closed.

What is hard here: Pi and grid-agent are concurrent and share files; one tool
result is many appends, each of which can fail in several places; exceptions of
different classes leave the run at different depths; and errors of the
projection are swallowed by design.  Whoever reads a run may read it while it
is written, in pages, and from a browser whose requests overtake each other.
`PROJECT.json` lists the hazards by line.

## 2. Modules

| Module | Models | Built on |
|---|---|---|
| `AnalysisContext` | the reducer | |
| `AnalysisContextProofs` | theorems about it | `AnalysisContext`, TLAPS |
| `ContextProjection` | the projector, the runner's handling of its errors, the simulator as the set of documents it stored | instance of `AnalysisContext` |
| `ContextProjectionProofs` | theorems about it | `ContextProjection`, TLAPS |
| `AnalysisRun` | what a run promises its caller | |
| `RunLedger` | runner, turn controller, store, bridge, recorder: every durable write a step | implements `AnalysisRun` |
| `RunLedgerProofs` | theorems about it | `RunLedger`, TLAPS |
| `RequestCapture` | hook, Pi's output, RPC client, capture adapter | |
| `RequestCaptureProofs` | theorems about it | `RequestCapture`, TLAPS |
| `TrajectoryLog` | what the native event log promises to who reads it | |
| `ArtifactStore` | the immutable artifacts, one system call at a time | |
| `EventLog` | recorder, lock, file and reader, in several processes | extends `ArtifactStore`, implements `TrajectoryLog` |
| `EventLogProofs` | theorems about both | `EventLog`, TLAPS |
| `TrajectoryProjection` | what a reader makes of a list of events | |
| `TrajectoryReplay` | a run that is recorded and read at every prefix | extends `TrajectoryProjection` |
| `TrajectoryReplayProofs` | theorems about both | `TrajectoryReplay`, TLAPS |
| `TrajectoryPages` | pages and cursors | |
| `TrajectoryServing` | the workbench and the API on runs that grow | extends `TrajectoryPages` |
| `TrajectoryServingProofs` | theorems about it | `TrajectoryServing`, TLAPS |
| `ReferenceVerifier` | grid-agent's checks of the simulator's files | |
| `SimulatorStore` | concurrent `gridctl` processes and their files | extends `ReferenceVerifier` |
| `SimulatorStoreProofs` | theorems about both | `SimulatorStore`, TLAPS |
| `ResultTables` | violations, ranking, and the readers of tables | |
| `MC*` | instances for TLC | |

### AnalysisContext

A variable for each field of the `AnalysisContext` model, a function from keys
to records or `None`; an action for each event type, whose guard is what makes
the reducer raise and whose effect is the state it returns.  An event the
reducer rejects is a disabled action: the store appends nothing.  The inputs of
an action are what any caller may pass, not only what the projector does, so
the properties hold for the reducer by itself.  Left out: summaries, paths,
hashes, timestamps, the ranking's contents.  Sequences that the reducer
deduplicates are sets.

### ContextProjection

A tool call is a record of its kind, context and result.  `Stages` gives, for
each kind, the appends of `observe` in order ("admit" stands for the checks
before the first), and `todo` what is left of the projection under way.  A
stage is done (`Project`), skipped because the store knows the record
(`SkipKnown`), rejected by the reducer or the verifier (`Refused`, whose guard
is the negation of `Accepted`, the guards of the reducer's actions and the
verifier's checks), or its append fails
(`AppendFault`, and `AppendAndDiagnosisFault` when the limitation cannot be
recorded either).  All but the first two end the projection where it is, as the
exception does in the runner.  Calls that fail are of two kinds: an error, and an
analysis that diverged, whose observation names the evidence of the failure as
produced though nothing registers it.  The simulator is what it has stored; contexts
and results carry the context, revision and evidence their documents name.

### RunLedger and AnalysisRun

`pc` is where `run` is, `Ops` what it appends there and where it goes when the
append returns, raises, or raises an `OSError` (which the store does not wrap
after the native append, and the runner does not catch inside a turn).  `phase` is how far an
append has come: native line, capture state, ledger line, snapshot.  Each write
is a step, and so every state is one a crash can leave; nothing resumes a run.
Each can fail, having written none, part or all of its line.  `AnalysisRun`
has only the outcome and the number of turns answered: `RunLedger` implements
it with the outcome read from the manifest and the number from the context.

### RequestCapture

Pi is external and as free as the adapter's tests and the RPC protocol let it be: it answers, calls
tools one after the other or together, fails an attempt with or without ending
its message, retries, refuses the prompt, dies.  `stdout` is what it has
written and nobody has read.  The hook is one step of Pi, the adapter and the
client are one thread: `TakeLine` (read a line and drain the documents, as the
code does before it looks at the line), then `HandleLine`.  Each line carries
in `of` the request it is about, which the code does not have; the properties
compare it with the request the adapter chose.

### ArtifactStore, EventLog and TrajectoryLog

Several processes publish artifacts and try to record the same run.  A call of
the registry is a record, `call[p]`, that says at which system call it is: the
parent is opened or made, its entry synced, the name read, linked and synced,
the file verified.  Any of them can fail, and whatever was done stays.  A
registry is what one process remembers: a pointer for each content, and an
event can only cite contents whose pointers verify there.  The recorder claims
the file with a lock and only if it has no content, appends an event in two
steps (its bytes, then `fsync`), and closes itself when one fails.  `Trusted`
is what `read_prefix` makes of the file: hash chain and sequence decide where
it stops.  `TrajectoryLog` is the promise, a list that grows by one event at a
time and of which all but the last have been returned; `EventLog` implements
it whoever crashes where, and `TrajectoryServing` takes it as given.

### TrajectoryProjection and TrajectoryReplay

`TrajectoryProjection` has no behaviour: nodes, statuses, causal rows, context
frames, producers, consumers and execution slices are operators on a sequence
of events and on the set of references whose files were lost.  The code folds a
handler over the events; here a node is named by the event that makes it, and
its status read from the events that end it.  `TrajectoryReplay` is the
generator: the events that runner, turn controller, bridge and adapter append,
in the order each handler appends them (`pending` holds what a handler has
still to write, so that every prefix is a state a reader can meet).  A
"product" recording has only what the code records today; a "schema" recording
also has the event types that the schema and the projections know and nothing
in `GA` records, steps and claims.  A tool may answer with each of nine `Kinds`
of answers, and `Followed` is what the projector and the bridge append after it,
with the references the bridge's `_refs` takes from the payload: the observation
of an analysis consumes the context and produces the result and the evidence, the
limitation after a failure consumes the observation it is about.  Facts of the
projector that only repeat these references are left out.  No opening is asked
for before an analysis, because one whose projection was refused leaves nothing of its
context in the log; and a context is a name no file is verified for, so it is
`lost` from the start.

### TrajectoryPages and TrajectoryServing

`TrajectoryPages` is the pager, the cursor's checks and the merging of lists,
as functions of how much of the log was read.  A list of rows is the set of them
in the order of their sequences (`InOrder`), so that no operator is recursive.  `TrajectoryServing` is one
browser: user actions, the flush of the React effects each of them makes due,
the two reads the server does for a request, and the answers, in any order.
References that the code keeps outside its state (`operationalRequestKeyRef`,
`contextDetailRequestKeyRef`) are variables, because what they are compared
with when an answer comes is the point.  `due` holds the effects to run.  A request
says what was asked and, once the server has read the file, how much of it
(`read`, `fingerprint`); `NoRequest` stands for none.

### ReferenceVerifier and SimulatorStore

A reference is the digest of a document, so the document itself stands for it.
`files` is the evidence directory.  A `gridctl` process reads when it starts
(files are only added), has batches of writes to do (a batch is what one save
writes), does them one by one, may
fail at any and may be killed between two; then it answers.  A context carries
its ancestors, which is what following the parents of its document finds.  `Require`,
`Loads`, `AdmitsResult`, `AdmitsEvidence` and `Audit` say what grid-agent
accepts.  The solver is a constant that says which networks converge, diverge
or break.

### ResultTables

The same violations are found twice by different code, by the contingency
analysis on the way and later from the stored tables; a table is then ranked,
stored, queried in pages, aggregated and compared.  Each of these is an action
on one scenario whose values and limits are chosen freely.  Quantities are
small integers, `None` is a missing value, and sorting, paging and comparison
do to them what `results.py` does.

## 3. What the runs check

| Run | Configuration | Distinct states | Shows |
|---|---|---|---|
| `context_lineage` | 2 turns, 2 contexts, one each of revision, result, evidence, observation, fact | 1,024,247 | lineage closed, attributed, immutable, frozen with its turn |
| `context_domain` | 2 turns, 2 contexts, 2 revisions, 1 result | 449,180 | revisions agree across models |
| `projection` | 4 calls, 1 outage, 3 contexts of 2 revisions, 2 results | 1,409,717 | what is registered is grounded; absences are traced; refusals do not block a turn; the active baseline moves for cause |
| `ledger` | 2 instructions, 2 tool results, 3 faults | 653,021 | durability, trust in completion, accounting of answers, refinement of `AnalysisRun` with liveness |
| `capture` | 2 turns of 3 requests, 2 tools, 1 retry, 1 fault | 801,412 | acknowledgement, settlement, causes, exactness of answered turns, every prompt returns |
| `eventlog` | 2 processes, 2 names, 2 contents, 3 writes, 3 events, 2 faults | 328,443 | artifacts are written once, pointers and citations hold, what append returned is durable, refinement of `TrajectoryLog` |
| `serving` | 2 runs, one growing to 3 events, 2 operational views, pages of 1, 5 user actions, 1 failure | 4,293,469 | answers on display are the ones asked for, pages join without gap, what says loading is awaited |
| `replay` | 2 turns, 2 requests, 2 tools with nine kinds of answers, 1 retry, both recordings, a view and a fact can be lost | 81,538 | projections of every prefix: results and documents produced before they are consumed, states not ahead, slices exact, ends final, pages stable |
| `simulator` | 2 processes, a registered and a created model, 1 patch, studies of 1 and 2 outages, 3 writing requests, 1 fault | 148,709 | the directory is closed under links, answers are admitted and stay so, claims on them pass the audit, contexts stay usable |
| `tables` | 2 buses, 1 line, values 1 to 3, 3 limit models, answers of at most 2 rows | 4,054,104 | the two evaluations agree on the types asked for, pages lose and repeat no row, an answer cut at its limit says so, comparisons are of like with like |

The bounds are the smallest in which the interesting cases meet.

- Reducer and projector: two turns are what it takes for a record of an earlier
  turn to be used, repeated or overwritten in a later one; two contexts of
  different revision for a mix-up; a base, its child and an unrelated model of
  the base's revision for the active baseline; one outage, in which a
  projection fails alone or with its diagnosis.
- Run: three faults, for a fault in the turn, in its failure and in that of the
  analysis. Three requests let Pi be two ahead of the reader: a round of tools,
  its next request, and a retry.
- Event log: two processes race for the lock, a name and a content; three
  events are a returned one, one that fails and one another process adds after
  it; with two faults a process crashes in what another one's failure left.
- Serving: pages of one row of a run of three events leave two older pages to
  fetch while the run grows; four actions are select, load older, change the
  filter or the view, and come back before the first answer is there; with the
  fifth, older rows are asked for while the newest page is under way, or asked for
  again after both have failed.
- Simulator: two processes derive, analyse or create the same thing at once; a
  study of two outages has one that converges after one that does not.
- Tables: three values put one below, at and above every limit; a cap of two
  rows cuts pages, rankings and aggregations of three rows, and a limit of one
  cuts the comparison of two buses; a study asks for all types of violations or
  leaves one out.

Symmetry is used only in runs without liveness. `CHECK_DEADLOCK FALSE` is in
every configuration because every system here stops: an analysis ends, and the
bounds run out.

Two more runs check a statement of a document that the code does not keep, and
find the counterexample; `PROJECT.json` quotes the statement.
`projection_reuse`: repeating an analysis in a later turn is refused as a
conflict.  `tables_evaluated`: the evaluation of a stored result reports
quantities as evaluated that the model does not limit.

### Divergences the models show and no run states

- Opening a model again does not activate it
  (`docs/superpowers/specs/2026-08-14-continuous-analysis-context-design.md:70`),
  and a result with unregistered dependencies does not fail its turn
  (`docs/architecture/analysis-context.md:153`).
- The evidence of an analysis that did not converge is recorded as produced by
  its observation (`projector.py:788`, `projector.py:822`) and never registered
  as evidence.
- A limitation consumes the reference of its observation, which no native event
  names as produced (`context_bridge.py:282`, `projector.py:248`); and a context
  whose projection was refused is consumed by later observations though no
  event produced it.
- A native event can be missing from the ledger of a completed run
  (`analysis-context.md:75`), and `analysis.failed` can follow
  `analysis.completed` (`test_runner.py:621`).
- A tool of a sequential round, and the failure of an attempt, can be recorded
  under the next request (`test_rpc.py:589`, `test_capture.py:475`).
- A lost projection can make the turn of an accepted answer unclosable, so that
  it is failed after its answer was published; `answers.jsonl` also has lines of
  failed turns; the provider may be called before the request is acknowledged.
- A first append that fails without writing leaves an empty file.  The next
  claim finds the file and never syncs its directory entry
  (`recorder.py:161`; the docstring at line 80 says "Durably append").
- The context view of the workbench can say it is loading for ever: its list and
  its frame share one status, and neither waits for the other (`App.tsx:425`).
  A frame that failed leaves the view failed after a retry that succeeds, and
  selecting the selected run again while its business page loads makes the view
  say it is idle.  The retry of the business view does nothing once both its
  newest and its older rows have failed, until another run is selected: it asks
  for older rows of a page that is empty, and `loadOlder` returns
  (`App.tsx:703`).
- A retry is shown as running for ever: neither its end nor that of its turn is
  looked at (`agent_projection.py:157`, `agent_projection.py:224`), and it is a row
  of the page (`projection_pages.py:322`).
- Nothing records `step.started`, so that the agent view of a native run has no
  rows of requests and tools
  (`docs/superpowers/specs/2026-08-15-trajectory-workbench-operational-pages-design.md:51`); claims
  are always submitted empty (`turns.py:158`); and a failed turn is recorded as
  `turn.completed` with a status that the agent view does not look at
  (`agent_projection.py:110`).
- A lost result file makes `open_run` raise (`service.py:152`), although
  `artifact_projection.py:16` has missing files projected.
- In the simulator: an error of a `gridctl` write inside an error handler is
  handled by nothing and ends the process; `risk.rank` reports
  an intact result of `analysis.run` as damaged; the reference a scenario that did not converge gives
  its own diagnostics is reported as unlinked; the state effect of an error is
  always "none", also when files were written.
- In the tables: an aggregation and a comparison return the first rows up to
  their limit, at most 100, and there is no offset to ask for the others
  (`results.py:237`, `results.py:279`); the answer of a ranking is its first rows
  as well, 20 unless asked (`derived_results.py:164`), but the stored table has
  them all.  `RowsKept` and `ComparesLikeWithLike` say that such an answer counts
  what it leaves out, not that it is whole.  A study reports the types of
  violations it was asked for, the evaluation of its result all of them.  A
  descending sort puts missing values first, where the ranking of branches puts
  them last; an empty ranking stores no table; `where` of a comparison looks at
  the base only; limits of three-winding transformers are never extracted.

Properties of the passing runs stop short because of these, each where its
comment says so. `AnsweredTurnsExact` covers tools by presence and not by
request, and settlements only in a turn with one retry at most: the end of a
failed attempt takes any open request for its own (`capture.py:243`), which
after two retries may be the next one. `RefusalsDoNotBlock` is about refusals alone, because a fault can block
a turn. `Durable` says that what the ledger has is in the native trajectory,
and not the converse. `ReturnedIsNamed` excepts a recorder that inherits an
empty file (`inherited`). `LoadingIsAwaited` excepts the context view;
`Contiguous` excepts an answer whose events are older than its fingerprint,
because `open_run` reads the file twice (`raced`), and two kinds of refreshed
lists (`merged`): one refreshed in place, which can have a gap behind a cursor
the server then refuses; and one that the newest page replaces while an older
one is under way, because the business list of a run that is selected again
keeps its old cursor until the answer comes, and older rows asked for with it are
put before the new list (`App.tsx:199`, `App.tsx:641`). `Grounded` excepts
what the observation of a diverged analysis names as produced.
`ProducedBeforeConsumed` is about results and the documents of the recorder
(calls, inputs, responses, answers, views), and not about evidence, contexts and
observations. `EndIsFinal` is about turns, steps, requests and tools, and not
about retries. `ClaimSliceExact` is about prefixes that
open, and about claims whose citations were first recorded in one turn: of a
claim that cites across turns the code shows no execution
(`agent_projection.py:373`).

### Fairness

`RunLedger`: weak fairness of the next-state relation.  The runner is one
thread; every write returns or raises; a prompt ends because Pi answers, fails,
or its output closes.  `RequestCapture`: weak fairness of Pi's steps and of the
client's.  The client is a loop that never waits without polling.  Pi's is an
assumption: `prompt_and_wait` has no deadline of its own, and a Pi that hangs
without closing its output keeps the run for ever.  Pi's death is not fair: it
may happen.  The other modules state only safety: nothing in the code bounds
how long a file, a network or a user takes.  `LoadingIsAwaited` says what a
liveness property would need: whoever waits has something to wait for.

## 4. What is proved

Every theorem below holds for every value of the constants that satisfies the
named assumptions: any number of turns, calls, processes and so on, and any
bounds.  What a run shows on the instance of section 3, its theorem shows in
general; each invariant, and each strengthening, was checked by TLC before it
was proved.  Three assumptions are common to several modules: that `None` is
none of the values it stands beside (`NoneIsFresh`, `NoneApart`), that bounds
are naturals (`StoreBounds`, `LogBounds`, `RunBounds`, `CaptureBounds`,
`ServingBounds`, `PageBounds`; a run has an event), and that values of different kinds differ.  TLC
evaluates all of them.  Each module also proves its `TypeOK`, part of the
invariant or a theorem of its own.

| Module | Theorem | Property |
|---|---|---|
| `AnalysisContextProofs` | `TypeCorrect`, `Immutable`, `Closed`, `Revisions`, `LineageIsKept`, `Attributed` | `TypeOK`, `RecordsImmutable`, `LineageClosed`, `RevisionsAgree`, `TurnLineageKept`, `TurnDiscipline` and `ProducersAttributed` |
| `ContextProjectionProofs` | `ResultsStayGrounded`, `AbsencesTraced`, `BaselineMovesForReason`, `RefusedNeverBlocks` | `Grounded`, `AbsenceTraced`, `ActiveBaselineMoves`, `RefusalsDoNotBlock` |
| `RunLedgerProofs` | `RunDurable`, `NoAnswerOnceLost`, `RunAccounted`, `RunTrusted`, `RunImplementsAnalysisRun` | `Durable`, `NoAnswerAfterLoss`, `TurnsAccounted`, `CompletedIsTrusted`, the safety part of `ImplementsAnalysisRun` |
| `RequestCaptureProofs` | `AcksDurable`, `RequestsSettled`, `CausesAreKept`, `AnsweredAreExact` | `AcksAreDurable`, `SettledOnce`, `CausesHold`, `AnsweredTurnsExact` |
| `EventLogProofs` | `NeverRebound`, `CitationsCommitted`, `ReturnedDurable`, `LogImplementsTrajectoryLog` | `WriteOnce`, `CitationsHold`, `ReturnedIsDurable`, `ImplementsTrajectoryLog` |
| `TrajectoryReplayProofs` | `ConsumedWasProduced`, `FramesNotAhead`, `EndsAreFinal`, `PagesStay`, `SlicesExact` | `ProducedBeforeConsumed`, `StateNotAhead`, `EndIsFinal`, `PagesStable`, `ClaimSliceExact` |
| `TrajectoryServingProofs` | `LoadsAreAwaited`, `AnswersAreOwn`, `PagesAreContiguous` (with `ServingInvariant`, `FramesAreOwn`, `PagesInvariant`) | `LoadingIsAwaited`, `OwnAnswers`, `Contiguous` |
| `SimulatorStoreProofs` | `FilesLead`, `AnswersStayAdmitted`, `ClaimsStayLinked`, `FailuresStayEvidenced`, `ContextsStay` | `LinksHold`, `AnswersAdmitted`, `ClaimsPassAudit`, `FailuresAreEvidenced`, `ContextsStayUsable` |

### The reducer

The assumptions are that references of different kinds differ
(`KindsAreDisjoint`) and `NoneIsFresh`.  The argument rests on one fact:
`Frame` shows that every action leaves each record function alone or adds
one key to it (`UpsertPreserves`, from `Admissible`), so what is registered
stays registered with the same value (`Immutable`, `RegisteredGrows`).
`LineageClosed` is then inductive with `TypeOK`: an action checks the
references of what it adds, and `KnownRefs` only grows (`KnownGrows`).
`RevisionsAgree` needs two facts of its own, that a result's revision is that
of some registered baseline and that the active context is registered.
`ProducersAttributed` needs `TurnDiscipline`, because a producer is either the
active turn or a closed one, and that a merge of lineage loses nothing
(`MergeCovers`).

### The projector

`DocumentsAreLinked` says what the simulator's documents are functions of, and
that the calls of a run are finitely many.  A projection may end between any two
of its appends, and the record it leaves must still be right.  `PlaceInv` says
that what is left to append is a suffix of the stages of the call's kind, so
that "which stages are done" is a function of its length; `ProgressInv` what
the stages that are done have registered; `EndedInv` what a projection that is
over has, unless its failure was traced.  `AbsenceTraced` needs `StoredInv` as
well: a result the simulator has stored is of a context some call opened.
`GroundInv` is `Grounded` with the baselines it compares; its part on what an
observation produced holds of every call but a diverged one.  An append that finds
its record there is skipped, so each stage also needs that what it finds is what
it would have written, which is `GroundInv` again.  `RefusalsDoNotBlock` asks
whether a turn can close, which it cannot if it has consumed a context nobody
registered.  `LinkInv` says that before any fault a context the simulator has
stored is registered, or is the one whose projection is under way and not yet
past its baseline (`Awaited`); the proof shows for each kind of call that what
can be refused comes after the baseline (`BeforeBaseline`).

### The run

`PhaseInv` says what the writes of the append under way have left: its event is
the last native line, then its line is in the ledger, under the revision the
store will have.  `Durable` is inductive with it and with `LossInv` (a closed
recorder means that the runner is on its way out, which is also
`NoAnswerAfterLoss`).  `FlowInv` says, at each place of the runner, how many
turns have succeeded and what `answers.jsonl` has; `TurnsAccounted` follows.
`TrustInv` follows what is verified before completion up to the manifest:
once the last turn is done, ledger, snapshot and memory agree, except while the
snapshot of `analysis.completed` is written.  The refinement maps the initial
states and every step of the runner to a step or stutter of `AnalysisRun`.

### The capture

`AcksAreDurable` is inductive with `OrderInv`: the requests the adapter has not
looked at come after all that are recorded.  `SettleInv` adds that the requests
a turn tracks as unsettled have no settlement yet and that no request is tracked
twice, which is why draining, failing and ending a turn can each settle what is
left without asking the log.  `CausesHold` compares events with what the
adapter remembered when it wrote them; `HeldInv` says of everything that is
remembered (the source the bridge published, the sequences of requests and
tools) that it is an event of the right kind, request and turn.  A drain records
the new documents in ascending order; that every set of documents has such an
order (`AscendingOrder`) comes from the well-foundedness of the naturals.

`AnsweredTurnsExact` compares the log with what Pi did, and Pi is ahead; so
`AnsweredInv` speaks of `Unread`, the line that is handled and those behind it.
`OutputInv` says that they are in the order of the requests they are of and what
ends what; `AttemptInv`, that the request Pi is at has not ended; `LookedInv`, that
the documents up to the line's are recorded, because they are drained before it
is handled; `ToolsInv`, that of every tool with a start the completion is recorded,
unread, or Pi still runs it.  Which request a settlement goes to depends on the
past of the turn, and `ModeInv` distinguishes three states of it.  While adapter
and Pi are `InStep`, the unread ends are those of the requests that are open, and
the oldest open one is the line's.  The end of a failed attempt whose message ended
as well may settle the next request instead: then the adapter is `OneAhead`, and
stays so until a message ends that finds no request open and is refused, so that no
answer is handled.  The third is that Pi has retried twice (`RetriedAgain`), of
which the property says nothing.  Only a second retry can leave the adapter ahead in
a turn that is answered, which is why one is the limit.

### The event log

A reader trusts an event long after its recorder asked whether its citations
verify, another process may have written since, and which lines are trusted
changes with what is behind them.  `IInv` therefore says `CitationsHold` of
every event in the file, trusted or not, and of every event on its way there
(`LinesCite`, `DraftsCite`).  That is kept because the guard of `Link` never
rebinds a name (`BoundStep`), so that what is committed stays so
(`CommittedStays`), and because a registry remembers only what it has just read
(`PointerStep`).  `Trusted` is the longest prefix without a break; that there is
one needs `MaxExists`, from the well-foundedness of the naturals.
`ReturnedIsDurable` needs the file to be what one recorder at a time makes of
it: `ChainInv` says that its lines are the chain of the returned events and at
most one line behind it, the owner's draft, torn or whole; so `Trusted` is the
returned events, with or without that draft.  The refinement of `TrajectoryLog`
follows from the same invariant, step by step.  `TrajectoryLog` states no
fairness, and so the theorem is the whole property.  `LogBounds` assumes that a
torn line is not an event and that `None` is not a process.

### The recorded run and its projections

`ReplayInv` says what the running handler has still to append: the results and
documents it consumes are already produced, or will be by an earlier pending event,
and its boundaries are of its revision.  What may be consumed without a producer
has a name, `Unproduced`; that no result or document is in it is
`ReferencesApart`.  Production before consumption and frames that
are not ahead follow.  `EndIsFinal` and `PagesStable` compare what two prefixes
show, and the projections look back from an event to what it belongs to; so
`LifeInv` is about the order of events in the log and those that are pending
(`Ahead`): turns do not interleave, no request is both answered and failed, a
claim comes after its answer and a turn is answered once.  Most of the proof
is that each operator of the projection gives the same on a longer log.

`ClaimSliceExact` goes through the projection of a whole turn: the claim's
submission, what it cites, the first producer of each, and the tools under the
requests and steps of these.  `CiteInv` says of the log and of what is pending
what it rests on: a request on its step, a tool on its request, the end of a tool
on its own start, a claim on answers given (`BackedInv`); that steps and tools are
numbered as they begin (`NumberedInv`); and that what the recorder remembers of
the turn has begun in it (`HeldInv`).  So the producer of what is cited is the
end of one call of one tool of one request, and the slice has that tool.
`ReferencesApart` says that the context, the result, evidence and the documents
and observations of the recorder are different references.

### The workbench

The theorems are about moments at which no effect is due, but an answer may
come before that, for a choice that is no longer the user's.  `ServingInv` says,
for every view and not only for the open one, what stays true while its effect is
due: an operational view that is loading has no page, and what is under way will
end it or is not wanted (`OperationalInv`); the business view's requests are of
the selected run once its effect has run (`BusinessInv`); so is the frame
(`FrameInv`).

`PagesInv` says whose rows a list has, and which of them.  Its rows and what is
under way for it are of the key its view had when they were asked for (`OwnKey`),
which is the key of what is chosen once the effect has run (`Choice`): that is
`OwnAnswers`.  `EndOf` says that a list is the upper end of its view as the run
was at one moment, `n`, and that the cursor of its page, made at another, `k`,
cuts at its first row the view of `n` and that of `k` alike.  A server accepts
the cursor only if the run has not grown since `k`, so the page it sends joins
the list.  The two moments differ because the row of a tool moves when the tool
ends, and a list that was put together from pages of several moments must be
that of a single one.

The lemmas below it are about what a page is.  The library's induction over
sequences is out of reach, so lists are defined by ranks: the `k`-th number of a
finite set exists and is unique (`Nth`), a set of rows with different sequences
has one list in order (`InOrder`), what a page selects is the upper end of what
is available, and two ends put one before the other are an end.  All of it is by
cardinality.  `ToolsEndApart` says that no event ends two tools, which the pager
checks (`_validate_records`), `NoneApart` that `None` is no page or cursor.

### The simulator

What is said of a file (`FileHolds`) is said relative to a set of files it may
lead to, and stays true as that set grows (`FileGrows`).  `StoreInv` says it of
every file in the directory, relative to the directory; of every file still to
be written, relative to the directory and what its process writes before it,
which is what the order of the writes is for; and of every answer, given or to
come, relative to the directory and what its process has still to write.  A
killed process leaves a shorter list and no answer.  The theorems follow because
grid-agent's verifiers ask for no more.  `StudiesAreLists` says that a study is
a sequence of outages, `FlowsHaveOneOutcome` that no network both diverges and
breaks the solver.

### What the proofs changed in the models

`FlushLists` and the study's outcome were `CASE`s whose arms could overlap, which
TLA+ leaves unspecified: the first is now the code's chain of `if`s, the second
has the assumption `FlowsHaveOneOutcome`.  The simulator's documents carried
their history through a recursive operator, which the prover cannot reach; a
context now carries its ancestors.

Three properties were stated too strongly for what the code does, and held in
their runs because the bounds kept the exception away.  The counterexamples, found
with larger bounds once a proof had failed, are told in section 3: a claim that
cites across turns (`ClaimSliceExact`), a failed attempt after two retries
(`AnsweredTurnsExact`), and an older business page that overtakes the newest one
(`Contiguous`, whose `merged` is now also set by `ReceiveBusiness`).

Two definitions could not be reasoned about.  `Refused` asked with `ENABLED`
whether the reducer would accept an event; the guards of the reducer's actions
now have names (`MayRegisterResult` and so on), which both modules use.  A page
was a list filtered and sorted by recursive operators; it is now the rows in the
order of their sequences.  All runs were checked again.

Two others held because the model left references out.  A failed call of
`ContextProjection` now produces what the code records for it, and an event of
`TrajectoryReplay` consumes all the code has it consume; `Grounded` and
`ProducedBeforeConsumed` now say what they except, and were proved again.

In `RequestCapture` a Pi that the runner had stopped could still end the tools it
had been running, and so come back to life; closing the run now takes them away,
as its death does.

### Only model-checked

- Liveness and the fairness part of a refinement: that every prompt returns
  (`PromptReturns`) and that a run ends as `AnalysisRun` promises
  (`ImplementsAnalysisRun`).  The prover has no rule for either.
- `EvaluationsAgree`, `RowsKept` and `ComparesLikeWithLike` of `ResultTables`:
  tables keep the order of the rows and may repeat one, and the code folds over
  them, so that what selecting, sorting and aggregating returns needs induction
  over the sequence, which the library states with an operator parameter that no
  installed prover can instantiate.
- The two statements that are violated.

## 5. Not modelled

Whole components: rendering of reports, configuration and authentication, the
command line, the runtime installer, the numerical analyses (the solver is a
constant), the validation corpus: see the notes in `PROJECT.json`.

Of the modelled components:

- Damaged contents and digests: a document is what its reference says, or is
  not there.  Temporary files a crash leaves are never read and left out.
- How the references a decision may cite reach the tool that checks them
  (`TrajectoryReplay` has the decision's event, and `Allowed` what it may cite),
  first-token timing, what happens after the last retry, requests beyond 999 in a run, studies with
  several scenarios in the projector, results of a comparison in the projector.
- Secrets and malformed payloads the recorder refuses: a refused draft changes
  nothing.
- Imports of v0.2 runs, the cache of materialized projections, artifact
  downloads and the run list of the API; the evidence view's own detail panel.
- Contracts of the capabilities, and values that are not finite numbers.

Hazards the code has that no property covers, besides those `PROJECT.json`
lists: a Pi that hangs (`rpc.py:97` has no deadline); the failure that
`auto_retry_end` reports after `prompt_and_wait` has raised (`rpc.py:155`); the
hook goes on without waiting for its acknowledgement; the failure to publish the
allowed references is swallowed (`cli/app.py:95`).

## 6. Plan

In order of weight:

1. The tables without folds: pages of `RowsKept` by ranks, as `TrajectoryPages`
   has them.
2. The document of the allowed references, from `domain-tools.mjs` through
   `_TrajectoryAllowedRefs` to `_validated_decision`; the run-wide order of
   requests.
3. `RuntimeInstall` (staged installation against what the locator accepts) and
   `ConfigResolution`.
