---------------------------- MODULE TrajectoryPages ----------------------------
(***************************************************************************)
(* The pages a trajectory server cuts from a run: ProjectionPager.page     *)
(* (grid_agent/trajectory/api/paging.py), CursorCodec.decode               *)
(* (api/cursor.py) and projection_page (api/projection_pages.py), as       *)
(* functions of how much of the event log had been read.                   *)
(*                                                                         *)
(* Abstractions.  A row stands for the node its first event started.  Most *)
(* rows stay at that event's sequence; the row of a tool moves to the      *)
(* sequence of the event that ends it, as _tool_row does (ToolEnd gives    *)
(* those).  A cursor is the record that is signed: the key makes it        *)
(* impossible to alter one.  The byte budget is a smaller PageSize.        *)
(***************************************************************************)
EXTENDS Integers, FiniteSets, Sequences, SequencesExt, FiniteSetsExt

CONSTANTS
    Runs,
    Operational,   \* the views with filtered pages: agent, context, evidence
    Filters,       \* "all" and others, which keep the tools' rows only
    MaxEvents,     \* bound: events of a run
    ToolEnd,       \* a function from the events that start a tool to those
                   \* that end it
    PageSize,
    None

ASSUME PageBounds == /\ MaxEvents \in Nat \ {0}
                     /\ PageSize \in Nat \ {0}
                     /\ "all" \in Filters
                     /\ Operational \subseteq {"agent", "context", "evidence"}
                     /\ ToolEnd \in [DOMAIN ToolEnd -> Nat]
                     /\ \A s \in DOMAIN ToolEnd : s \in Nat /\ s < ToolEnd[s]

\* An event ends one tool: _validate_records refuses two rows at one sequence.
ASSUME ToolsEndApart ==
    \A s, t \in DOMAIN ToolEnd : ToolEnd[s] = ToolEnd[t] => s = t

Views == Operational \cup {"business"}

\* Where the row of node i is when n events have been read, and the nodes
\* there are.
RowSequence(v, i, n) ==
    IF v = "agent" /\ i \in DOMAIN ToolEnd /\ ToolEnd[i] <= n THEN ToolEnd[i] ELSE i

RowNodes(v, n) == {i \in 1..n : v = "agent" => i \notin Range(ToolEnd)}

\* _agent_matches, _context_matches
Matches(f, i) == f = "all" \/ i \in DOMAIN ToolEnd

RowAt(r, v, f, n, i) == [run |-> r, view |-> v, filter |-> f, id |-> i,
                         sequence |-> RowSequence(v, i, n)]

RowSet(r, v, f, n) ==
    {RowAt(r, v, f, n, i) : i \in {j \in RowNodes(v, n) : Matches(f, j)}}

\* The k-th number of a set of numbers.
Nth(S, k) == CHOOSE x \in S : Cardinality({y \in S : y <= x}) = k

\* Rows in the order of their sequences, which are unique.
InOrder(rows) ==
    LET sequences == {row.sequence : row \in rows}
    IN  [k \in 1..Cardinality(sequences) |->
            CHOOSE row \in rows : row.sequence = Nth(sequences, k)]

\* The rows of a view.
Rows(r, v, f, n) == InOrder(RowSet(r, v, f, n))

-----------------------------------------------------------------------------
(* Cursors *)

\* _business_page has no filters; projection_page binds the cursor to them.
Cursor(r, v, f, fingerprint, before) ==
    [run |-> r, view |-> v, filter |-> f, fingerprint |-> fingerprint,
     before |-> before]

\* Plausible fault: a cursor is not bound to the events it was made from.
AcceptsAnySource(c, r, v, f, fingerprint) ==
    /\ c.run = r
    /\ c.view = v
    /\ c.filter = f

\* _validate_expected_cursor: a cursor of another run, view or filter, or of
\* a log that has grown since, is refused.
Accepts(c, r, v, f, fingerprint) ==
    /\ c.run = r
    /\ c.view = v
    /\ c.filter = f
    /\ c.fingerprint = fingerprint

-----------------------------------------------------------------------------
(* Pages *)

\* The rows before the cursor.
Available(rows, cursor) ==
    {row \in rows : cursor # None => row.sequence < cursor.before}

\* What fits on the page: the newest PageSize of the rows before the cursor.
Selected(available) ==
    SubSeq(available, Max({1, Len(available) - PageSize + 1}), Len(available))

\* A page, and the cursor of the page before, if there is one.
Page(r, v, f, n, fingerprint, cursor) ==
    LET available == InOrder(Available(RowSet(r, v, f, n), cursor))
        selected  == Selected(available)
    IN  [run |-> r, items |-> selected,
         older |-> IF Len(selected) < Len(available)
                   THEN Cursor(r, v, f, fingerprint, selected[1].sequence)
                   ELSE None]

\* What rows, cursors and pages are.
RowType    == [run : Runs, view : Views, filter : Filters, id : Nat, sequence : Nat]
CursorType == [run : Runs, view : Views, filter : Filters, fingerprint : Nat,
               before : Nat]
PageType   == [run : Runs, items : Seq(RowType), older : CursorType \cup {None}]

ASSUME NoneApart == None \notin Nat \cup CursorType \cup PageType

-----------------------------------------------------------------------------
(* Older pages are put before the rows that are there *)

Ids(rows) == {rows[i].id : i \in DOMAIN rows}

\* The rows whose place is in I.
AtPlaces(rows, I) == [k \in 1..Cardinality(I) |-> rows[Nth(I, k)]]

\* prependOperationalPage: older rows first; of two rows with one id the
\* later one's contents, at the earlier one's place.
PrependOperational(older, current) ==
    LET place(row) == CHOOSE i \in DOMAIN current : current[i].id = row.id
        later(row) == IF row.id \in Ids(current) THEN current[place(row)] ELSE row
    IN  [i \in DOMAIN older |-> later(older[i])]
        \o AtPlaces(current, {i \in DOMAIN current : current[i].id \notin Ids(older)})

\* prependBusinessRows: the older of two rows with one id, then by sequence.
PrependBusiness(older, current) ==
    InOrder(ToSet(older) \cup {row \in ToSet(current) : row.id \notin Ids(older)})

==============================================================================
