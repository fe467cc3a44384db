--------------------------- MODULE TrajectoryServing ---------------------------
(***************************************************************************)
(* The workbench reading runs that are still being recorded: the effects   *)
(* and callbacks of App.tsx (trajectory-workbench/src/app), the endpoints  *)
(* of api/app.py, and ProjectionService.open_run (trajectory/service.py),  *)
(* which serves each request from the event log as it is then.             *)
(*                                                                         *)
(* Everything the user and the network can interleave is a step: a user    *)
(* action, the flush of the React effects it makes due, the server's first *)
(* read of the log (the events), its second (the fingerprint), and the     *)
(* answer.  The user acts only when the effects have been flushed; an      *)
(* answer may come before.  A request whose controller is aborted is       *)
(* dropped, as its callbacks return at once.  The log grows as             *)
(* TrajectoryLog lets it: one event at a time.                             *)
(***************************************************************************)
EXTENDS TrajectoryPages

CONSTANTS
    Growing,       \* the runs that are still recorded
    MaxActions,    \* bound: user actions
    MaxFailures    \* bound: answers that are lost or are errors

ASSUME ServingBounds == /\ None \notin Runs
                        /\ Growing \subseteq Runs
                        /\ MaxActions \in Nat
                        /\ MaxFailures \in Nat

VARIABLES
    events,        \* how many events of each run the reader trusts
    selected,      \* selectedRunId
    view,          \* activeView
    filter,        \* pageFilters of each operational view
    node,          \* what selectedNodeId names: "none", a context "frame", or
                   \* a row of the business view, "audit"
    sequence,      \* contextSequence
    list,          \* per view: items, page, olderState and failedCursor
    status,        \* pageStatus
    base_key,      \* operationalBaseRequestKeyRef
    live_key,      \* operationalRequestKeyRef
    base, older,   \* per view, the request under way
    frame,         \* contextFrame: its run and sequence
    detail,        \* the request of contextFrame under way
    due,           \* the effects to be run
    merged, raced, \* per view: the list was refreshed, in place or while older
                   \* rows of it were under way; an answer's events were
                   \* older than its fingerprint
    actions, failures

listVars   == <<list, status, merged, raced>>
keyVars    == <<base_key, live_key>>
choiceVars == <<selected, view, filter, node, sequence>>
vars == <<events, choiceVars, listVars, keyVars, base, older, frame, detail,
          due, actions, failures>>

Effects == Views \cup {"detail"}

EmptyList == [items |-> <<>>, page |-> None, older |-> "idle", failed |-> None]

\* olderState and failedCursor are set together.
WithOlder(l, state, cursor) == [l EXCEPT !.older = state, !.failed = cursor]

\* A request: what it asks for, what the server has read for it so far, and
\* what its callback remembers.  Only the request of a frame has a sequence.
Request(r, v, f, cursor, is_new, initial) ==
    [run |-> r, view |-> v, filter |-> f, cursor |-> cursor, sequence |-> None,
     read |-> None, fingerprint |-> None, is_new |-> is_new, initial |-> initial]

\* No request is under way.
NoRequest == [run |-> None]

FilterOf(v) == IF v = "business" THEN "all" ELSE filter[v]

\* pageRequestKey
Key(r, f, cursor) == [run |-> r, filter |-> f, cursor |-> cursor]

Init ==
    /\ events = [r \in Runs |-> IF r \in Growing THEN 1 ELSE MaxEvents]
    /\ selected = None
    /\ view = "business"
    /\ filter = [v \in Operational |-> "all"]
    /\ node = "none"
    /\ sequence = None
    /\ list = [v \in Views |-> EmptyList]
    /\ status = [v \in Views |-> "idle"]
    /\ base_key = [v \in Operational |-> None]
    /\ live_key = [v \in Operational |-> None]
    /\ base = [v \in Views |-> NoRequest]
    /\ older = [v \in Views |-> NoRequest]
    /\ frame = None
    /\ detail = NoRequest
    /\ due = {}
    /\ merged = [v \in Views |-> FALSE]
    /\ raced = [v \in Views |-> FALSE]
    /\ actions = 0
    /\ failures = 0

-----------------------------------------------------------------------------
(* The run is recorded, and the server reads *)

Grow(r) ==
    /\ r \in Growing
    /\ events[r] < MaxEvents
    /\ events' = [events EXCEPT ![r] = @ + 1]
    /\ UNCHANGED <<choiceVars, listVars, keyVars, base, older, frame, detail,
                   due, actions, failures>>

\* open_run reads the trusted prefix, and then the file once more for its
\* fingerprint, which stands for the number of events it has.
ReadFor(q) == IF q.read = None THEN [q EXCEPT !.read = events[q.run]]
              ELSE [q EXCEPT !.fingerprint = events[q.run]]

Unread(q) == q # NoRequest /\ q.fingerprint = None
Served(q) == q # NoRequest /\ q.fingerprint # None

ServerReads ==
    /\ \/ \E v \in Views : /\ Unread(base[v])
                           /\ base' = [base EXCEPT ![v] = ReadFor(@)]
                           /\ UNCHANGED <<older, detail>>
       \/ \E v \in Views : /\ Unread(older[v])
                           /\ older' = [older EXCEPT ![v] = ReadFor(@)]
                           /\ UNCHANGED <<base, detail>>
       \/ /\ Unread(detail)
          /\ detail' = ReadFor(detail)
          /\ UNCHANGED <<base, older>>
    /\ UNCHANGED <<events, choiceVars, listVars, keyVars, frame, due, actions,
                   failures>>

\* The server refuses a cursor that does not fit; otherwise it answers a page.
Refused(q) == q.cursor # None /\ ~Accepts(q.cursor, q.run, q.view, q.filter, q.fingerprint)
Answer(q)  == Page(q.run, q.view, q.filter, q.read, q.fingerprint, q.cursor)
Races(q)   == q.read # q.fingerprint

-----------------------------------------------------------------------------
(* What the user does *)

Ready == /\ due = {}
         /\ actions < MaxActions
         /\ actions' = actions + 1

\* The run list opens the first run, and a click selects one: run/selected
\* forgets the status of every page and the selected node.
SelectRun(r) ==
    /\ Ready
    /\ selected' = r
    /\ status' = [v \in Views |-> "idle"]
    /\ node' = "none"
    /\ due' = (IF r # selected THEN Effects ELSE {})
              \cup (IF node # "none" THEN {"context"} \cap Operational ELSE {})
              \cup (IF node = "audit" THEN {"detail"} ELSE {})
    /\ UNCHANGED <<events, view, filter, sequence, list, merged, raced, keyVars,
                   base, older, frame, detail, failures>>

SelectView(v) ==
    /\ Ready
    /\ v # view
    /\ view' = v
    /\ due' = Operational \cup {"detail"}
    /\ UNCHANGED <<events, selected, filter, node, sequence, listVars, keyVars,
                   base, older, frame, detail, failures>>

ChangeFilter(f) ==
    /\ Ready
    /\ view \in Operational
    /\ status[view] \notin {"loading", "failed"}
    /\ filter[view] # f
    /\ filter' = [filter EXCEPT ![view] = f]
    /\ status' = [status EXCEPT ![view] = "idle"]
    /\ due' = {view} \cup (IF view = "context" THEN {"detail"} ELSE {})
    /\ UNCHANGED <<events, selected, view, node, sequence, list, merged, raced,
                   keyVars, base, older, frame, detail, failures>>

\* The rows the view shows: those of a page of the selected run.
Displayed(v) ==
    IF v = "business" THEN list[v].items
    ELSE IF list[v].page # None /\ list[v].page.run = selected THEN list[v].items
    ELSE <<>>

\* While a page is loading, or has failed, its view is not rendered.
Rendered == selected # None /\ status[view] \notin {"loading", "failed"}

\* A click on a row of the context or the business view: the first selects
\* its frame, the other the node, and so the frame of its sequence.
SelectNode ==
    /\ Ready
    /\ Rendered
    /\ view \in {"context", "business"}
    /\ \E i \in DOMAIN Displayed(view) : sequence' = Displayed(view)[i].sequence
    /\ node' = IF view = "context" THEN "frame" ELSE "audit"
    /\ due' = {"detail"} \cup ({"context"} \cap Operational)
    /\ UNCHANGED <<events, selected, view, filter, listVars, keyVars, base,
                   older, frame, detail, failures>>

\* loadOlderOperational, for the button and, with the cursor that failed, for
\* the retry.  The request before it is aborted, and the live key moves on, so
\* that the answer of a refresh under way is no longer wanted.
LoadOlder(cursor) ==
    /\ Ready
    /\ view \in Operational
    /\ Rendered
    /\ list[view].page # None
    /\ list[view].page.older # None
    /\ list[view].older # "loading"
    /\ cursor \in {list[view].page.older, list[view].failed} \ {None}
    /\ older' = [older EXCEPT
           ![view] = Request(selected, view, filter[view], cursor, FALSE, FALSE)]
    /\ live_key' = [live_key EXCEPT ![view] = Key(selected, filter[view], cursor)]
    /\ list' = [list EXCEPT ![view] = WithOlder(@, "loading", None)]
    /\ UNCHANGED <<events, choiceVars, status, merged, raced, base_key, base,
                   frame, detail, due, failures>>

\* loadOlder, of the business view: one request at a time.
LoadOlderBusiness(cursor) ==
    /\ Ready
    /\ view = "business"
    /\ Rendered
    /\ list["business"].page # None
    /\ list["business"].page.older # None
    /\ older["business"] = NoRequest
    /\ cursor \in {list["business"].page.older, list["business"].failed} \ {None}
    /\ older' = [older EXCEPT
           !["business"] = Request(selected, "business", "all", cursor, FALSE, FALSE)]
    /\ list' = [list EXCEPT !["business"].older = "loading"]
    /\ UNCHANGED <<events, choiceVars, status, merged, raced, keyVars, base,
                   frame, detail, due, failures>>

\* retryActivePage after the first page failed: it is asked for again.  Of the
\* business view it asks for the older rows, when these have failed too; there is
\* no page any more then, and loadOlder returns at once.
RetriesOlder == view = "business" /\ list[view].failed # None
Retry ==
    /\ Ready
    /\ status[view] = "failed"
    /\ due' = IF RetriesOlder THEN {}
              ELSE {view} \cup (IF view = "context" THEN {"detail"} ELSE {})
    /\ UNCHANGED <<events, choiceVars, listVars, keyVars, base, older, frame,
                   detail, failures>>

\* The inspector's retry of its context panel, and the view's of its frame.
RetryFrame ==
    /\ Ready
    /\ \/ /\ node = "audit"
          /\ status["context"] = "failed"
          /\ due' = {"context", "detail"}
       \/ /\ view = "context"
          /\ Rendered
          /\ sequence # None /\ frame = None /\ detail = NoRequest
          /\ due' = {"detail"}
    /\ UNCHANGED <<events, choiceVars, listVars, keyVars, base, older, frame,
                   detail, failures>>

UserActs ==
    \/ \E r \in Runs : SelectRun(r)
    \/ \E v \in Views : SelectView(v)
    \/ \E f \in Filters : ChangeFilter(f)
    \/ SelectNode
    \/ selected # None /\ \E cursor \in {list[view].failed,
                              IF list[view].page = None THEN None
                              ELSE list[view].page.older} :
          LoadOlder(cursor) \/ LoadOlderBusiness(cursor)
    \/ Retry
    \/ RetryFrame

-----------------------------------------------------------------------------
(* The effects *)

Entered == {v \in due \cap Operational : v = view /\ selected # None}
BaseKey(v) == Key(selected, FilterOf(v), None)

\* Plausible fault: the filters are not in the key of the request.
IsNewRun(v) == base_key[v] = None \/ base_key[v].run # selected

IsNew(v) == base_key[v] # BaseKey(v)

\* Plausible fault: only another run or filter shows that it is loading.
InitialForNew(v) == IsNew(v)

\* showInitialLoading
Initial(v) == IsNew(v) \/ list[v].page = None

BusinessRuns == "business" \in due /\ selected # None

\* What the list of v is when its effect has run: emptied for another run or
\* filter, kept as it is otherwise.
Refreshed(v) == IF IsNew(v) THEN EmptyList
                ELSE WithOlder(list[v], "idle", None)

\* The three effects of the operational views: the requests under way are
\* aborted, and the view that is open asks for its newest page.
FlushOperational ==
    /\ base_key' = [v \in Operational |-> IF v \in Entered THEN BaseKey(v) ELSE base_key[v]]
    /\ live_key' = [v \in Operational |->
          CASE v \in Entered -> BaseKey(v) [] v \in due \ Entered -> None
            [] OTHER -> live_key[v]]

\* The effects of the context frame.  Its request gives the context view its
\* status when another view is open (detailOwnsPageStatus).
NeedsFrame == selected # None /\ (view = "context" \/ node = "audit")
AtFrame(q) == [q EXCEPT !.sequence = sequence]
AsksFrame  == "detail" \in due /\ NeedsFrame /\ sequence # None
OwnsStatus == view # "context"

NewestPage(v) == Request(selected, v, filter[v], None, IsNew(v), Initial(v))
NewestRows    == Request(selected, "business", "all", None, TRUE, TRUE)

\* The effect of the business view clears the rows, and keeps the page, with
\* its cursor, until the answer comes.
FlushLists ==
    /\ base' = [v \in Views |->
          IF v \in Entered THEN NewestPage(v)
          ELSE IF v = "business" /\ BusinessRuns THEN NewestRows
          ELSE IF v \in due THEN NoRequest ELSE base[v]]
    /\ older' = [v \in Views |-> IF v \in due THEN NoRequest ELSE older[v]]
    /\ list' = [v \in Views |->
          CASE v \in Entered -> Refreshed(v)
            [] v = "business" /\ BusinessRuns -> [list[v] EXCEPT !.items = <<>>]
            [] OTHER -> list[v]]
    /\ status' = [v \in Views |->
          IF \/ v \in Entered /\ Initial(v)
             \/ v = "business" /\ BusinessRuns
             \/ v = "context" /\ AsksFrame /\ OwnsStatus
          THEN "loading" ELSE status[v]]
    /\ merged' = [v \in Views |-> IF v \in Entered THEN merged[v] /\ ~IsNew(v) ELSE merged[v]]
    /\ raced' = [v \in Views |-> IF v \in Entered THEN raced[v] /\ ~IsNew(v) ELSE raced[v]]

\* Another run or filter forgets the frame and, unless a node is selected, its
\* sequence.
Forgets == "context" \in Entered /\ IsNew("context")

FlushDetail ==
    /\ sequence' = IF Forgets /\ node = "none" THEN None ELSE sequence
    /\ frame' = IF Forgets \/ ("detail" \in due /\ NeedsFrame) THEN None ELSE frame
    /\ detail' = IF "detail" \notin due THEN detail
                 ELSE IF AsksFrame
                 THEN AtFrame(Request(selected, "context", "all", None, TRUE, OwnsStatus))
                 ELSE NoRequest
    /\ due' = IF sequence' # sequence THEN {"detail"} ELSE {}

Flush ==
    /\ due # {}
    /\ FlushOperational
    /\ FlushLists
    /\ FlushDetail
    /\ UNCHANGED <<events, selected, view, filter, node, actions, failures>>

-----------------------------------------------------------------------------
(* The answers *)

Fails == /\ failures < MaxFailures
         /\ failures' = failures + 1

Keeps(v, l) == list' = [list EXCEPT ![v] = l]

\* operationalRequestKeyRef: what is answered is still what is wanted.
Wanted(q) == live_key[q.view] = Key(q.run, q.filter, q.cursor)

\* The newest page: it replaces the list of another run or filter; rows of a
\* list that is refreshed in place are merged, and its page, with the cursor
\* of the older rows, is kept.
ReceiveBase(v) ==
    LET q == base[v]
        current == list[v]
    IN  /\ v \in Operational
        /\ Served(q)
        /\ base' = [base EXCEPT ![v] = NoRequest]
        /\ IF Wanted(q)
           THEN /\ Keeps(v, [items |-> IF q.is_new THEN Answer(q).items
                                      ELSE PrependOperational(current.items, Answer(q).items),
                            page |-> IF q.is_new \/ current.page = None THEN Answer(q)
                                     ELSE current.page,
                            older |-> "idle", failed |-> None])
                /\ status' = IF q.initial THEN [status EXCEPT ![v] = "ready"] ELSE status
                /\ merged' = [merged EXCEPT ![v] = @ \/ (~q.is_new /\ current.page # None)]
                /\ raced' = [raced EXCEPT ![v] = @ \/ Races(q)]
           ELSE UNCHANGED listVars
        /\ UNCHANGED <<events, choiceVars, keyVars, older, frame, detail, due,
                       actions, failures>>

FailBase(v) ==
    /\ v \in Operational
    /\ base[v] # NoRequest
    /\ Fails
    /\ status' = IF Wanted(base[v]) /\ base[v].initial
                 THEN [status EXCEPT ![v] = "failed"] ELSE status
    /\ base' = [base EXCEPT ![v] = NoRequest]
    /\ UNCHANGED <<events, choiceVars, list, merged, raced, keyVars, older, frame,
                   detail, due, actions>>

\* The newest rows replace the list.  Its older rows that are under way are
\* not aborted, and will be prepended to the new one.
ReceiveBusiness ==
    LET q == base["business"]
    IN  /\ Served(q)
        /\ base' = [base EXCEPT !["business"] = NoRequest]
        /\ IF q.run = selected
           THEN /\ Keeps("business", [items |-> Answer(q).items, page |-> Answer(q),
                                     older |-> "idle", failed |-> None])
                /\ status' = [status EXCEPT !["business"] = "ready"]
                /\ merged' = [merged EXCEPT !["business"] = older["business"] # NoRequest]
                /\ raced' = [raced EXCEPT !["business"] = Races(q)]
           ELSE UNCHANGED listVars
        /\ UNCHANGED <<events, choiceVars, keyVars, older, frame, detail, due,
                       actions, failures>>

FailBusiness ==
    /\ base["business"] # NoRequest
    /\ Fails
    /\ base' = [base EXCEPT !["business"] = NoRequest]
    /\ IF base["business"].run = selected
       THEN /\ Keeps("business", EmptyList)
            /\ status' = [status EXCEPT !["business"] = "failed"]
       ELSE UNCHANGED <<list, status>>
    /\ UNCHANGED <<events, choiceVars, merged, raced, keyVars, older, frame, detail,
                   due, actions>>

\* An older page is prepended, and its page is the one to go on from.
Prepended(v, q) ==
    [items |-> IF v = "business" THEN PrependBusiness(Answer(q).items, list[v].items)
               ELSE PrependOperational(Answer(q).items, list[v].items),
     page |-> Answer(q), older |-> "idle", failed |-> None]

StillWanted(v, q) == IF v = "business" THEN q.run = selected ELSE Wanted(q)

ReceiveOlder(v) ==
    LET q == older[v]
    IN  /\ Served(q)
        /\ ~Refused(q)
        /\ older' = [older EXCEPT ![v] = NoRequest]
        /\ IF StillWanted(v, q)
           THEN /\ Keeps(v, Prepended(v, q))
                /\ status' = [status EXCEPT ![v] = "ready"]
                /\ raced' = [raced EXCEPT ![v] = @ \/ Races(q)]
                /\ UNCHANGED merged
           ELSE UNCHANGED listVars
        /\ UNCHANGED <<events, choiceVars, keyVars, base, frame, detail, due,
                       actions, failures>>

\* The cursor that failed, refused or lost, is kept for the retry.
FailOlder(v) ==
    LET q == older[v]
    IN  /\ q # NoRequest
        /\ \/ Served(q) /\ Refused(q) /\ UNCHANGED failures
           \/ Fails
        /\ older' = [older EXCEPT ![v] = NoRequest]
        /\ list' = IF v = "business" /\ q.run # selected THEN list
                   ELSE [list EXCEPT ![v] = WithOlder(@, "failed", q.cursor)]
        /\ UNCHANGED <<events, choiceVars, status, merged, raced, keyVars, base,
                       frame, detail, due, actions>>

FrameStatus(outcome) ==
    status' = IF detail.initial THEN [status EXCEPT !["context"] = outcome] ELSE status

\* context_view has no frame at a sequence that is not there yet.
OutOfReach(q) == q.sequence > q.read

\* The frame is shown if the run and the sequence are still the ones selected.
ReceiveDetail ==
    /\ Served(detail)
    /\ ~OutOfReach(detail)
    /\ detail' = NoRequest
    /\ IF detail.run = selected
       THEN /\ frame' = [run |-> detail.run, sequence |-> detail.sequence]
            /\ FrameStatus("ready")
       ELSE UNCHANGED <<frame, status>>
    /\ UNCHANGED <<events, choiceVars, list, merged, raced, keyVars, base, older,
                   due, actions, failures>>

FailDetail ==
    /\ detail # NoRequest
    /\ \/ Served(detail) /\ OutOfReach(detail) /\ UNCHANGED failures
       \/ Fails
    /\ detail' = NoRequest
    /\ frame' = None
    /\ FrameStatus("failed")
    /\ UNCHANGED <<events, choiceVars, list, merged, raced, keyVars, base, older,
                   due, actions>>

Receive ==
    \/ \E v \in Views : ReceiveBase(v) \/ ReceiveOlder(v)
    \/ ReceiveBusiness
    \/ ReceiveDetail

Fail == \/ \E v \in Views : FailBase(v) \/ FailOlder(v)
        \/ FailBusiness
        \/ FailDetail

Next == \/ UserActs
        \/ Flush
        \/ ServerReads
        \/ Receive
        \/ Fail
        \/ \E r \in Growing : Grow(r)

Spec == Init /\ [][Next]_vars

-----------------------------------------------------------------------------
(* Properties *)

\* Whatever answers arrive late, in another order, or not at all, the rows on
\* display are the selected run's, under the filter that is set, and the context
\* frame that can be seen is of the selected run and sequence, as soon as
\* the effects of the last choice have run (App.tsx, the identities of the
\* requests, contextDetailRequestKeyRef).
OwnRows ==
    due = {} => \A i \in DOMAIN Displayed(view) :
                   /\ Displayed(view)[i].run = selected
                   /\ Displayed(view)[i].filter = FilterOf(view)
OwnFrame ==
    (due = {} /\ frame # None /\ NeedsFrame) =>
        /\ frame.run = selected
        /\ frame.sequence = sequence
OwnAnswers == OwnRows /\ OwnFrame

\* A list whose pages were fetched one before the other, and that was refreshed
\* neither in place nor while one of its pages was under way, has no gap, no
\* row twice and no row out of place, although the run grew between the
\* pages: it is the end of what the view showed at one moment, and all of it
\* when it offers no older page (cursor.py _validate_expected_cursor,
\* paging.py page).
Contiguous ==
    \A v \in Views :
        LET l == list[v]
            shown(n) == Rows(l.items[1].run, v, l.items[1].filter, n)
        IN  (l.items # <<>> /\ ~merged[v] /\ ~raced[v]) =>
                \E n \in 1..MaxEvents :
                    /\ IsSuffix(l.items, shown(n))
                    /\ l.page.older = None => l.items = shown(n)

\* A view that says it is loading awaits an answer that will end it, and that
\* will not be discarded when it comes (App.tsx, showInitialLoading and
\* operationalRequestKeyRef).  The context view is excepted: its list and its
\* frame share one status.  The button for older rows says "loading" only while
\* something is, whatever was aborted (App.tsx loadOlderOperational).
ViewIsAwaited ==
    (due = {} /\ view # "context" /\ status[view] = "loading") =>
        /\ base[view] # NoRequest
        /\ base[view].initial
        /\ StillWanted(view, base[view])
OlderIsAwaited ==
    (due = {} /\ list[view].older = "loading") =>
        older[view] # NoRequest \/ base[view] # NoRequest
LoadingIsAwaited == ViewIsAwaited /\ OlderIsAwaited

==============================================================================
