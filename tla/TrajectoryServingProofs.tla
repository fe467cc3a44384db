------------------------- MODULE TrajectoryServingProofs -------------------------
(***************************************************************************)
(* Proofs about the workbench, for any runs, views and filters, any number *)
(* of user actions and failures, any length of the logs and of the pages,  *)
(* and any order of the answers: that a view which says it is loading      *)
(* awaits an answer which will end it; that the rows on display are the    *)
(* selected run's, under the filter that is set, and that the context      *)
(* frame that can be seen is of the selected run and sequence; and that    *)
(* the pages of a list leave no gap.                                       *)
(*                                                                         *)
(* They hold only when the effects of the last choice have run, and an     *)
(* answer may come before that.  ServingInv says, for every view and not   *)
(* only the one that is open, what stays true while its effect is due.     *)
(* PagesInv says whose rows a list has: those of the base key its view had *)
(* when they were asked for, which is the key of what is chosen once the   *)
(* effect has run.  It also says from where on they are all there: a list  *)
(* is the upper end of its view as the run was at one moment, and the      *)
(* cursor of its page cuts off what is below, in that view and in the one  *)
(* the cursor was made from; so the page that the cursor leads to, which   *)
(* is refused if the log has grown, ends where the list begins.            *)
(*                                                                         *)
(* The lemmas before PagesInv are about the operators of TrajectoryPages:  *)
(* the k-th number of a set, rows in the order of their sequences, what a  *)
(* page selects of them, and what is left when a page is put before        *)
(* another.                                                                *)
(***************************************************************************)
EXTENDS TrajectoryServing, FiniteSetTheorems, TLAPS

-----------------------------------------------------------------------------
(* The strengthening *)

IsRequest(q) ==
    \E r \in Runs : \E v, f, cursor, at, read, fingerprint, is_new, initial :
       q = [run |-> r, view |-> v, filter |-> f, cursor |-> cursor, sequence |-> at,
            read |-> read, fingerprint |-> fingerprint, is_new |-> is_new,
            initial |-> initial]

Underway(q) == q # NoRequest

IsList(l) ==
    \E items, page, state, failed :
       l = [items |-> items, page |-> page, older |-> state, failed |-> failed]

TypeOK ==
    /\ selected \in Runs \cup {None}
    /\ view \in Views
    /\ status \in [Views -> {"idle", "loading", "ready", "failed"}]
    /\ list = [v \in Views |-> list[v]]
    /\ \A v \in Views : IsList(list[v])
    /\ base = [v \in Views |-> base[v]]
    /\ older = [v \in Views |-> older[v]]
    /\ \A v \in Views : /\ Underway(base[v]) => IsRequest(base[v]) /\ base[v].view = v
                        /\ Underway(older[v]) => IsRequest(older[v]) /\ older[v].view = v
    /\ Underway(detail) => IsRequest(detail)
    /\ live_key = [v \in Operational |-> live_key[v]]

\* Only a run's pages are waited for.
SelectedInv ==
    \A v \in Views :
        status[v] = "loading" \/ list[v].older = "loading" => selected # None

\* An operational view that is loading has no page yet, and what answers it
\* will end that.  An answer that is not wanted any more is one that was
\* aborted, or whose effect is due.
OperationalInv ==
    /\ \A v \in Operational \ {"context"} :
          status[v] = "loading" =>
             /\ list[v].page = None
             /\ Underway(base[v]) => base[v].initial
             /\ v = view /\ v \notin due => Underway(base[v]) /\ Wanted(base[v])
    /\ \A v \in Operational \ due :
          /\ Underway(older[v]) => Wanted(older[v])
          /\ v = view /\ list[v].older = "loading" => Underway(older[v])

BusinessInv ==
    /\ Underway(base["business"]) => base["business"].initial
    /\ "business" \notin due =>
          /\ Underway(base["business"]) => base["business"].run = selected
          /\ Underway(older["business"]) => older["business"].run = selected
          /\ status["business"] = "loading" => Underway(base["business"])
          /\ list["business"].older = "loading" =>
                Underway(base["business"]) \/ Underway(older["business"])

FrameInv ==
    "detail" \notin due =>
        /\ Underway(detail) => detail.sequence = sequence
        /\ frame # None /\ NeedsFrame => frame.run = selected /\ frame.sequence = sequence

ServingInv == TypeOK /\ SelectedInv /\ OperationalInv /\ BusinessInv /\ FrameInv

-----------------------------------------------------------------------------
(* Lemmas about requests, lists and functions of the views *)

LEMMA ViewsAre ==
    /\ Operational \subseteq Views /\ "business" \in Views /\ "business" \notin Operational
    /\ \A v \in Views : v = "business" \/ v \in Operational
    /\ "detail" \notin Views /\ Views \subseteq Effects /\ "detail" \in Effects
    /\ None \notin Runs
  BY PageBounds, ServingBounds DEF Views, Effects

LEMMA RequestUnderway ==
    ASSUME NEW q, IsRequest(q)
    PROVE  Underway(q)
<1>1. q.run \in Runs
  BY DEF IsRequest
<1>2. NoRequest.run = None
  BY DEF NoRequest
<1> QED
  BY <1>1, <1>2, ServingBounds DEF Underway

LEMMA RequestIs ==
    ASSUME NEW r \in Runs, NEW v, NEW f, NEW cursor, NEW is_new, NEW initial
    PROVE  /\ IsRequest(Request(r, v, f, cursor, is_new, initial))
           /\ Underway(Request(r, v, f, cursor, is_new, initial))
           /\ Request(r, v, f, cursor, is_new, initial).run = r
           /\ Request(r, v, f, cursor, is_new, initial).view = v
           /\ Request(r, v, f, cursor, is_new, initial).filter = f
           /\ Request(r, v, f, cursor, is_new, initial).cursor = cursor
           /\ Request(r, v, f, cursor, is_new, initial).initial = initial
<1> DEFINE q == Request(r, v, f, cursor, is_new, initial)
<1>1. q = [run |-> r, view |-> v, filter |-> f, cursor |-> cursor, sequence |-> None,
           read |-> None, fingerprint |-> None, is_new |-> is_new, initial |-> initial]
  BY DEF Request
<1> HIDE DEF q
<1>2. /\ IsRequest(q) /\ q.run = r /\ q.view = v /\ q.filter = f /\ q.cursor = cursor
      /\ q.initial = initial
  BY <1>1 DEF IsRequest
<1>3. Underway(q)
  BY <1>2, RequestUnderway
<1> QED
  BY <1>2, <1>3 DEF q

LEMMA AtFrameIs ==
    ASSUME NEW q, IsRequest(q)
    PROVE  IsRequest(AtFrame(q)) /\ AtFrame(q).sequence = sequence
<1>1. PICK r \in Runs : \E v, f, cursor, at, read, fingerprint, is_new, initial :
         q = [run |-> r, view |-> v, filter |-> f, cursor |-> cursor, sequence |-> at,
              read |-> read, fingerprint |-> fingerprint, is_new |-> is_new,
              initial |-> initial]
  BY DEF IsRequest
<1>2. PICK v, f, cursor, at, read, fingerprint, is_new, initial :
         q = [run |-> r, view |-> v, filter |-> f, cursor |-> cursor, sequence |-> at,
              read |-> read, fingerprint |-> fingerprint, is_new |-> is_new,
              initial |-> initial]
  BY <1>1
<1> DEFINE p == AtFrame(q)
<1>3. p = [run |-> r, view |-> v, filter |-> f, cursor |-> cursor, sequence |-> sequence,
           read |-> read, fingerprint |-> fingerprint, is_new |-> is_new,
           initial |-> initial]
  BY <1>2 DEF AtFrame
<1> HIDE DEF p
<1>4. IsRequest(p) /\ p.sequence = sequence
  BY <1>3 DEF IsRequest
<1> QED
  BY <1>4 DEF p

\* What the server reads changes nothing of what was asked.
LEMMA ReadForIs ==
    ASSUME NEW q, IsRequest(q)
    PROVE  /\ IsRequest(ReadFor(q))
           /\ ReadFor(q).run = q.run /\ ReadFor(q).view = q.view
           /\ ReadFor(q).filter = q.filter /\ ReadFor(q).cursor = q.cursor
           /\ ReadFor(q).initial = q.initial /\ ReadFor(q).sequence = q.sequence
<1>1. PICK r \in Runs : \E v, f, cursor, at, read, fingerprint, is_new, initial :
         q = [run |-> r, view |-> v, filter |-> f, cursor |-> cursor, sequence |-> at,
              read |-> read, fingerprint |-> fingerprint, is_new |-> is_new,
              initial |-> initial]
  BY DEF IsRequest
<1>2. PICK v, f, cursor, at, read, fingerprint, is_new, initial :
         q = [run |-> r, view |-> v, filter |-> f, cursor |-> cursor, sequence |-> at,
              read |-> read, fingerprint |-> fingerprint, is_new |-> is_new,
              initial |-> initial]
  BY <1>1
<1>3. ASSUME NEW x
      PROVE  LET p == [q EXCEPT !.read = x]
             IN  /\ IsRequest(p)
                 /\ p.run = q.run /\ p.view = q.view /\ p.filter = q.filter
                 /\ p.cursor = q.cursor /\ p.initial = q.initial /\ p.sequence = q.sequence
  <2> DEFINE p == [q EXCEPT !.read = x]
  <2>1. p = [run |-> r, view |-> v, filter |-> f, cursor |-> cursor, sequence |-> at,
             read |-> x, fingerprint |-> fingerprint, is_new |-> is_new, initial |-> initial]
    BY <1>2
  <2> HIDE DEF p
  <2>2. /\ IsRequest(p)
        /\ p.run = q.run /\ p.view = q.view /\ p.filter = q.filter
        /\ p.cursor = q.cursor /\ p.initial = q.initial /\ p.sequence = q.sequence
    BY <1>2, <2>1 DEF IsRequest
  <2> QED
    BY <2>2 DEF p
<1>4. ASSUME NEW x
      PROVE  LET p == [q EXCEPT !.fingerprint = x]
             IN  /\ IsRequest(p)
                 /\ p.run = q.run /\ p.view = q.view /\ p.filter = q.filter
                 /\ p.cursor = q.cursor /\ p.initial = q.initial /\ p.sequence = q.sequence
  <2> DEFINE p == [q EXCEPT !.fingerprint = x]
  <2>1. p = [run |-> r, view |-> v, filter |-> f, cursor |-> cursor, sequence |-> at,
             read |-> read, fingerprint |-> x, is_new |-> is_new, initial |-> initial]
    BY <1>2
  <2> HIDE DEF p
  <2>2. /\ IsRequest(p)
        /\ p.run = q.run /\ p.view = q.view /\ p.filter = q.filter
        /\ p.cursor = q.cursor /\ p.initial = q.initial /\ p.sequence = q.sequence
    BY <1>2, <2>1 DEF IsRequest
  <2> QED
    BY <2>2 DEF p
<1>5. CASE q.read = None
  BY <1>3, <1>5 DEF ReadFor
<1>6. CASE q.read # None
  BY <1>4, <1>6 DEF ReadFor
<1> QED
  BY <1>5, <1>6

\* What is set at one view.
LEMMA OneSet ==
    ASSUME NEW S, NEW g, g = [s \in S |-> g[s]], NEW v \in S, NEW x, NEW h,
           h = [g EXCEPT ![v] = x]
    PROVE  /\ h = [s \in S |-> h[s]]
           /\ h[v] = x
           /\ \A s \in S : s # v => h[s] = g[s]
  OBVIOUS

LEMMA TypeNow ==
    ASSUME ServingInv
    PROVE  /\ list = [v \in Views |-> list[v]]
           /\ base = [v \in Views |-> base[v]]
           /\ older = [v \in Views |-> older[v]]
           /\ status = [v \in Views |-> status[v]]
           /\ live_key = [v \in Operational |-> live_key[v]]
  BY DEF ServingInv, TypeOK

-----------------------------------------------------------------------------
(* What the user does *)

LEMMA InitServing ==
    ASSUME Init
    PROVE  ServingInv
<1> USE DEF Init
<1>1. TypeOK
  <2>1. \A v \in Views : list[v] = EmptyList
    OBVIOUS
  <2>2. IsList(EmptyList)
    BY DEF IsList, EmptyList
  <2>3. view \in Views
    BY ViewsAre
  <2>4. \A v \in Views : ~Underway(base[v]) /\ ~Underway(older[v])
    BY DEF Underway
  <2>5. ~Underway(detail)
    BY DEF Underway
  <2> QED
    BY <2>1, <2>2, <2>3, <2>4, <2>5 DEF TypeOK
<1>2. SelectedInv
  BY DEF SelectedInv, EmptyList
<1>3. OperationalInv
  BY ViewsAre DEF OperationalInv, EmptyList, Underway
<1>4. BusinessInv
  BY ViewsAre DEF BusinessInv, EmptyList, Underway
<1>5. FrameInv
  BY DEF FrameInv, Underway
<1> QED
  BY <1>1, <1>2, <1>3, <1>4, <1>5 DEF ServingInv

LEMMA SelectRunServing ==
    ASSUME ServingInv, NEW r \in Runs, SelectRun(r)
    PROVE  ServingInv'
<1> USE DEF SelectRun, Ready, listVars, keyVars
<1>1. TypeOK'
  BY DEF ServingInv, TypeOK
<1>2. SelectedInv'
  BY ViewsAre DEF ServingInv, SelectedInv
<1>3. OperationalInv'
  BY ViewsAre DEF ServingInv, OperationalInv, Wanted, Key
<1>4. BusinessInv'
  BY ViewsAre DEF ServingInv, BusinessInv
<1>5. FrameInv'
  BY ViewsAre DEF ServingInv, FrameInv, NeedsFrame
<1> QED
  BY <1>1, <1>2, <1>3, <1>4, <1>5 DEF ServingInv

LEMMA SelectViewServing ==
    ASSUME ServingInv, NEW v \in Views, SelectView(v)
    PROVE  ServingInv'
<1> USE DEF SelectView, Ready, listVars, keyVars
<1>1. TypeOK'
  BY DEF ServingInv, TypeOK
<1>2. SelectedInv'
  BY DEF ServingInv, SelectedInv
<1>3. OperationalInv'
  BY DEF ServingInv, OperationalInv
<1>4. BusinessInv'
  BY ViewsAre DEF ServingInv, BusinessInv
<1>5. FrameInv'
  BY DEF FrameInv
<1> QED
  BY <1>1, <1>2, <1>3, <1>4, <1>5 DEF ServingInv

LEMMA ChangeFilterServing ==
    ASSUME ServingInv, NEW f \in Filters, ChangeFilter(f)
    PROVE  ServingInv'
<1> USE DEF ChangeFilter, Ready, keyVars
<1>0. /\ status' = [v \in Views |-> status'[v]]
      /\ status'[view] = "idle"
      /\ \A v \in Views : v # view => status'[v] = status[v]
  BY TypeNow, ViewsAre, OneSet
<1>1. TypeOK'
  BY DEF ServingInv, TypeOK
<1>2. SelectedInv'
  BY <1>0 DEF ServingInv, SelectedInv
<1>3. OperationalInv'
  BY <1>0, ViewsAre DEF ServingInv, OperationalInv, Wanted, Key
<1>4. BusinessInv'
  BY <1>0, ViewsAre DEF ServingInv, BusinessInv
<1>5. FrameInv'
  BY ViewsAre DEF ServingInv, FrameInv, NeedsFrame
<1> QED
  BY <1>1, <1>2, <1>3, <1>4, <1>5 DEF ServingInv

LEMMA SelectNodeServing ==
    ASSUME ServingInv, SelectNode
    PROVE  ServingInv'
<1> USE DEF SelectNode, Ready, listVars, keyVars
<1>1. TypeOK'
  BY DEF ServingInv, TypeOK
<1>2. SelectedInv'
  BY DEF ServingInv, SelectedInv
<1>3. OperationalInv'
  BY DEF ServingInv, OperationalInv, Wanted, Key
<1>4. BusinessInv'
  BY ViewsAre DEF ServingInv, BusinessInv
<1>5. FrameInv'
  BY DEF FrameInv
<1> QED
  BY <1>1, <1>2, <1>3, <1>4, <1>5 DEF ServingInv

\* Effects of more views are due, and nothing else changes.
LEMMA RetryServing ==
    ASSUME ServingInv, Retry \/ RetryFrame
    PROVE  ServingInv'
<1> USE DEF Retry, RetriesOlder, RetryFrame, Ready, choiceVars, listVars, keyVars
<1>1. TypeOK'
  BY DEF ServingInv, TypeOK
<1>2. SelectedInv'
  BY DEF ServingInv, SelectedInv
<1>3. OperationalInv'
  BY DEF ServingInv, OperationalInv, Wanted, Key
<1>4. BusinessInv'
  BY DEF ServingInv, BusinessInv
<1>5. FrameInv'
  BY DEF ServingInv, FrameInv, NeedsFrame
<1> QED
  BY <1>1, <1>2, <1>3, <1>4, <1>5 DEF ServingInv

LEMMA ListSet ==
    ASSUME NEW l, IsList(l), NEW x, NEW m,
           \/ m = [l EXCEPT !.older = x]
           \/ m = [l EXCEPT !.failed = x]
           \/ m = [l EXCEPT !.items = x]
    PROVE  /\ IsList(m) /\ m.page = l.page
           /\ m = [l EXCEPT !.older = x] => m.older = x
           /\ m # [l EXCEPT !.older = x] => m.older = l.older
<1>1. PICK items, page, state, failed :
         l = [items |-> items, page |-> page, older |-> state, failed |-> failed]
  BY DEF IsList
<1>2. CASE m = [l EXCEPT !.older = x]
  <2>1. m = [items |-> items, page |-> page, older |-> x, failed |-> failed]
    BY <1>1, <1>2
  <2>2. IsList(m) /\ m.older = x /\ m.page = l.page
    BY <1>1, <2>1 DEF IsList
  <2> QED
    BY <1>2, <2>2
<1>3. CASE m = [l EXCEPT !.failed = x] /\ m # [l EXCEPT !.older = x]
  <2>1. m = [items |-> items, page |-> page, older |-> state, failed |-> x]
    BY <1>1, <1>3
  <2>2. IsList(m) /\ m.older = l.older /\ m.page = l.page
    BY <1>1, <2>1 DEF IsList
  <2> QED
    BY <1>3, <2>2
<1>4. CASE m = [l EXCEPT !.items = x] /\ m # [l EXCEPT !.older = x]
  <2>1. m = [items |-> x, page |-> page, older |-> state, failed |-> failed]
    BY <1>1, <1>4
  <2>2. IsList(m) /\ m.older = l.older /\ m.page = l.page
    BY <1>1, <2>1 DEF IsList
  <2> QED
    BY <1>4, <2>2
<1> QED
  BY <1>2, <1>3, <1>4

\* The state of the older rows is set, and with it the cursor that failed.
LEMMA OlderSet ==
    ASSUME NEW g, g = [v \in Views |-> g[v]], NEW u \in Views, IsList(g[u]), NEW s, NEW h,
           h = [g EXCEPT ![u].older = s]
    PROVE  /\ h = [v \in Views |-> h[v]]
           /\ IsList(h[u]) /\ h[u].older = s /\ h[u].page = g[u].page
           /\ \A v \in Views : v # u => h[v] = g[v]
<1> DEFINE x == [g[u] EXCEPT !.older = s]
<1>1. h = [g EXCEPT ![u] = x]
  OBVIOUS
<1>2. IsList(x) /\ x.older = s /\ x.page = g[u].page
  BY ListSet
<1> HIDE DEF x
<1> QED
  BY <1>1, <1>2, OneSet

LEMMA WithOlderIs ==
    ASSUME NEW l, IsList(l), NEW state, NEW cursor
    PROVE  /\ IsList(WithOlder(l, state, cursor))
           /\ WithOlder(l, state, cursor).older = state
           /\ WithOlder(l, state, cursor).page = l.page
<1>1. PICK items, page, was, failed :
         l = [items |-> items, page |-> page, older |-> was, failed |-> failed]
  BY DEF IsList
<1> DEFINE m1 == [l EXCEPT !.older = state]
           m == WithOlder(l, state, cursor)
<1>2. m1 = [items |-> items, page |-> page, older |-> state, failed |-> failed]
  BY <1>1
<1>3. m = [m1 EXCEPT !.failed = cursor]
  BY DEF WithOlder
<1> HIDE DEF m1, m
<1>4. m = [items |-> items, page |-> page, older |-> state, failed |-> cursor]
  BY <1>2, <1>3
<1>5. IsList(m) /\ m.older = state /\ m.page = l.page
  BY <1>1, <1>4 DEF IsList
<1> QED
  BY <1>5 DEF m

LEMMA LoadOlderServing ==
    ASSUME ServingInv, NEW cursor, LoadOlder(cursor)
    PROVE  ServingInv'
<1> USE DEF LoadOlder, Ready, choiceVars
<1>0. PICK no \in BOOLEAN : no = FALSE
  OBVIOUS
<1> DEFINE q == Request(selected, view, filter[view], cursor, no, no)
           k == Key(selected, filter[view], cursor)
<1>1. /\ TypeOK /\ selected \in Runs /\ view \in Operational /\ view \in Views
      /\ status[view] # "loading"
  BY ViewsAre DEF Rendered, ServingInv, TypeOK
<1>2. /\ IsRequest(q) /\ Underway(q)
      /\ q.run = selected /\ q.view = view /\ q.filter = filter[view] /\ q.cursor = cursor
  BY <1>1, RequestIs
<1>3. older' = [older EXCEPT ![view] = q] /\ live_key' = [live_key EXCEPT ![view] = k]
  BY <1>0
<1> HIDE DEF q
<1>4. /\ older' = [v \in Views |-> older'[v]] /\ older'[view] = q
      /\ \A v \in Views : v # view => older'[v] = older[v]
  BY <1>1, <1>3, TypeNow, OneSet
<1>5. /\ live_key' = [v \in Operational |-> live_key'[v]] /\ live_key'[view] = k
      /\ \A v \in Operational : v # view => live_key'[v] = live_key[v]
  BY <1>1, <1>3, TypeNow, OneSet
<1>6. /\ list' = [v \in Views |-> list'[v]]
      /\ IsList(list'[view]) /\ list'[view].older = "loading" /\ list'[view].page = list[view].page
      /\ \A v \in Views : v # view => list'[v] = list[v]
  <2> DEFINE x == WithOlder(list[view], "loading", None)
  <2>1. list' = [list EXCEPT ![view] = x]
    OBVIOUS
  <2>2. list = [v \in Views |-> list[v]] /\ IsList(list[view])
    BY <1>1 DEF TypeOK
  <2>3. IsList(x) /\ x.older = "loading" /\ x.page = list[view].page
    BY <2>2, WithOlderIs
  <2> HIDE DEF x
  <2> QED
    BY <1>1, <2>1, <2>2, <2>3, OneSet
<1>7. k = Key(q.run, q.filter, q.cursor)
  BY <1>2
<1> HIDE DEF k
<1>8. TypeOK'
  BY <1>1, <1>2, <1>4, <1>5, <1>6 DEF TypeOK
<1>9. SelectedInv'
  BY <1>1, <1>6, ServingBounds DEF ServingInv, SelectedInv
<1>10. OperationalInv'
  <2>1. ASSUME NEW v \in Operational \ {"context"}, status'[v] = "loading"
        PROVE  /\ list'[v].page = None
               /\ Underway(base'[v]) => base'[v].initial
               /\ v = view' /\ v \notin due' => Underway(base'[v]) /\ Wanted(base[v])'
    BY <1>1, <1>6, <2>1, ViewsAre DEF ServingInv, OperationalInv
  <2>2. ASSUME NEW v \in Operational \ due'
        PROVE  /\ Underway(older'[v]) => Wanted(older[v])'
               /\ v = view' /\ list'[v].older = "loading" => Underway(older'[v])
    <3>1. CASE v = view
      <4>1. older'[v] = q /\ live_key'[q.view] = Key(q.run, q.filter, q.cursor)
        BY <1>2, <1>4, <1>5, <1>7, <3>1
      <4> QED
        BY <1>2, <4>1 DEF Wanted
    <3>2. CASE v # view
      <4>1. v \in Views /\ older'[v] = older[v] /\ live_key'[v] = live_key[v]
        BY <1>4, <1>5, <3>2, ViewsAre
      <4>2. Underway(older[v]) => Wanted(older[v]) /\ older[v].view = v
        BY <1>1, <2>2, <4>1 DEF ServingInv, OperationalInv, TypeOK
      <4> QED
        BY <3>2, <4>1, <4>2 DEF Wanted
    <3> QED
      BY <3>1, <3>2
  <2> QED
    BY <2>1, <2>2 DEF OperationalInv
<1>11. BusinessInv'
  BY <1>1, <1>4, <1>6, ViewsAre DEF ServingInv, BusinessInv
<1>12. FrameInv'
  BY DEF ServingInv, FrameInv, NeedsFrame
<1> QED
  BY <1>8, <1>9, <1>10, <1>11, <1>12 DEF ServingInv

LEMMA LoadOlderBusinessServing ==
    ASSUME ServingInv, NEW cursor, LoadOlderBusiness(cursor)
    PROVE  ServingInv'
<1> USE DEF LoadOlderBusiness, Ready, choiceVars, keyVars
<1>0. PICK no \in BOOLEAN : no = FALSE
  OBVIOUS
<1> DEFINE q == Request(selected, "business", "all", cursor, no, no)
<1>1. TypeOK /\ selected \in Runs /\ "business" \in Views
  BY ViewsAre DEF Rendered, ServingInv, TypeOK
<1>2. IsRequest(q) /\ Underway(q) /\ q.run = selected /\ q.view = "business"
  BY <1>1, RequestIs
<1>3. older' = [older EXCEPT !["business"] = q]
  BY <1>0
<1> HIDE DEF q
<1>4. /\ older' = [v \in Views |-> older'[v]] /\ older'["business"] = q
      /\ \A v \in Views : v # "business" => older'[v] = older[v]
  BY <1>1, <1>3, TypeNow, OneSet
<1>5. /\ list' = [v \in Views |-> list'[v]] /\ IsList(list'["business"])
      /\ \A v \in Views : v # "business" => list'[v] = list[v]
  <2>1. list' = [list EXCEPT !["business"].older = "loading"]
    OBVIOUS
  <2>2. list = [v \in Views |-> list[v]] /\ IsList(list["business"])
    BY <1>1 DEF TypeOK
  <2> QED
    BY <1>1, <2>1, <2>2, OlderSet
<1>6. TypeOK'
  BY <1>1, <1>2, <1>4, <1>5 DEF TypeOK
<1>7. SelectedInv'
  BY <1>1, <1>5, ServingBounds DEF ServingInv, SelectedInv
<1>8. OperationalInv'
  <2>1. \A v \in Operational : v \in Views /\ v # "business"
    BY ViewsAre
  <2> QED
    BY <1>4, <1>5, <2>1 DEF ServingInv, OperationalInv, Wanted
<1>9. BusinessInv'
  BY <1>1, <1>2, <1>4 DEF ServingInv, BusinessInv
<1>10. FrameInv'
  BY DEF ServingInv, FrameInv, NeedsFrame
<1> QED
  BY <1>6, <1>7, <1>8, <1>9, <1>10 DEF ServingInv

-----------------------------------------------------------------------------
(* The server reads, and the effects run *)

\* What is asked stays what it was.
SameAsked(p, q) ==
    \/ p = q
    \/ /\ IsRequest(p) /\ IsRequest(q)
       /\ p.run = q.run /\ p.view = q.view /\ p.filter = q.filter /\ p.cursor = q.cursor
       /\ p.initial = q.initial /\ p.sequence = q.sequence

LEMMA AskedServing ==
    ASSUME ServingInv,
           base' = [v \in Views |-> base'[v]], older' = [v \in Views |-> older'[v]],
           \A v \in Views : SameAsked(base'[v], base[v]) /\ SameAsked(older'[v], older[v]),
           SameAsked(detail', detail),
           UNCHANGED <<choiceVars, listVars, keyVars, frame, due>>
    PROVE  ServingInv'
<1> USE DEF choiceVars, listVars, keyVars
<1>1. ASSUME NEW p, NEW q, SameAsked(p, q)
      PROVE  /\ Underway(p) <=> Underway(q)
             /\ Underway(p) => /\ p.run = q.run /\ p.view = q.view /\ p.initial = q.initial
                               /\ p.sequence = q.sequence
                               /\ p.filter = q.filter /\ p.cursor = q.cursor
                               /\ IsRequest(q) => IsRequest(p)
  BY <1>1, RequestUnderway DEF SameAsked
<1>2. \A v \in Views :
         /\ Underway(base'[v]) <=> Underway(base[v])
         /\ Underway(base[v]) =>
               /\ base'[v].run = base[v].run /\ base'[v].view = base[v].view
               /\ base'[v].filter = base[v].filter /\ base'[v].cursor = base[v].cursor
               /\ base'[v].initial = base[v].initial
               /\ IsRequest(base[v]) => IsRequest(base'[v])
  BY <1>1
<1>3. \A v \in Views :
         /\ Underway(older'[v]) <=> Underway(older[v])
         /\ Underway(older[v]) =>
               /\ older'[v].run = older[v].run /\ older'[v].view = older[v].view
               /\ older'[v].filter = older[v].filter /\ older'[v].cursor = older[v].cursor
               /\ IsRequest(older[v]) => IsRequest(older'[v])
  BY <1>1
<1>4. /\ Underway(detail') <=> Underway(detail)
      /\ Underway(detail) => /\ detail'.sequence = detail.sequence
                             /\ IsRequest(detail) => IsRequest(detail')
  BY <1>1
<1>5. TypeOK'
  BY <1>2, <1>3, <1>4 DEF ServingInv, TypeOK
<1>6. SelectedInv'
  BY DEF ServingInv, SelectedInv
<1>7. OperationalInv'
  <2>1. \A v \in Operational : v \in Views
    BY ViewsAre
  <2>2. \A v \in Views : /\ Underway(base[v]) /\ Wanted(base[v]) => Wanted(base[v])'
                         /\ Underway(older[v]) /\ Wanted(older[v]) => Wanted(older[v])'
    BY <1>2, <1>3 DEF Wanted
  <2> QED
    BY <1>2, <1>3, <2>1, <2>2 DEF ServingInv, OperationalInv
<1>8. BusinessInv'
  BY <1>2, <1>3, ViewsAre DEF ServingInv, BusinessInv
<1>9. FrameInv'
  BY <1>4 DEF ServingInv, FrameInv, NeedsFrame
<1> QED
  BY <1>5, <1>6, <1>7, <1>8, <1>9 DEF ServingInv

LEMMA GrowServing ==
    ASSUME ServingInv, NEW r \in Growing, Grow(r)
    PROVE  ServingInv'
  BY TypeNow, AskedServing DEF Grow, SameAsked

LEMMA ReadOne ==
    ASSUME NEW g, g = [v \in Views |-> g[v]], NEW u \in Views, IsRequest(g[u]), NEW h,
           h = [g EXCEPT ![u] = ReadFor(@)]
    PROVE  h = [v \in Views |-> h[v]] /\ \A v \in Views : SameAsked(h[v], g[v])
<1> DEFINE x == ReadFor(g[u])
<1>1. h = [g EXCEPT ![u] = x]
  OBVIOUS
<1>2. SameAsked(x, g[u])
  BY ReadForIs DEF SameAsked
<1> HIDE DEF x
<1>3. \A q : SameAsked(q, q)
  BY DEF SameAsked
<1> QED
  BY <1>1, <1>2, <1>3, OneSet

LEMMA ServerReadsServing ==
    ASSUME ServingInv, ServerReads
    PROVE  ServingInv'
<1>0. TypeOK /\ \A q : SameAsked(q, q)
  BY DEF ServingInv, SameAsked
<1>1. UNCHANGED <<choiceVars, listVars, keyVars, frame, due>>
  BY DEF ServerReads
<1>2. CASE \E v \in Views : /\ Unread(base[v])
                            /\ base' = [base EXCEPT ![v] = ReadFor(@)]
                            /\ UNCHANGED <<older, detail>>
  <2>1. PICK v \in Views : /\ Unread(base[v])
                           /\ base' = [base EXCEPT ![v] = ReadFor(@)]
                           /\ UNCHANGED <<older, detail>>
    BY <1>2
  <2>2. IsRequest(base[v])
    BY <1>0, <2>1 DEF TypeOK, Unread, Underway
  <2>3. base' = [u \in Views |-> base'[u]] /\ \A u \in Views : SameAsked(base'[u], base[u])
    BY <2>1, <2>2, TypeNow, ReadOne
  <2> QED
    BY <1>0, <1>1, <2>1, <2>3, TypeNow, AskedServing
<1>3. CASE \E v \in Views : /\ Unread(older[v])
                            /\ older' = [older EXCEPT ![v] = ReadFor(@)]
                            /\ UNCHANGED <<base, detail>>
  <2>1. PICK v \in Views : /\ Unread(older[v])
                           /\ older' = [older EXCEPT ![v] = ReadFor(@)]
                           /\ UNCHANGED <<base, detail>>
    BY <1>3
  <2>2. IsRequest(older[v])
    BY <1>0, <2>1 DEF TypeOK, Unread, Underway
  <2>3. older' = [u \in Views |-> older'[u]] /\ \A u \in Views : SameAsked(older'[u], older[u])
    BY <2>1, <2>2, TypeNow, ReadOne
  <2> QED
    BY <1>0, <1>1, <2>1, <2>3, TypeNow, AskedServing
<1>4. CASE Unread(detail) /\ detail' = ReadFor(detail) /\ UNCHANGED <<base, older>>
  <2>1. IsRequest(detail)
    BY <1>0, <1>4 DEF TypeOK, Unread, Underway
  <2>2. SameAsked(detail', detail)
    BY <1>4, <2>1, ReadForIs DEF SameAsked
  <2> QED
    BY <1>0, <1>1, <1>4, <2>2, TypeNow, AskedServing
<1> QED
  BY <1>2, <1>3, <1>4 DEF ServerReads

LEMMA ItemsIs ==
    ASSUME NEW l, IsList(l), NEW x
    PROVE  /\ IsList([l EXCEPT !.items = x])
           /\ [l EXCEPT !.items = x].older = l.older
           /\ [l EXCEPT !.items = x].page = l.page
<1>1. PICK items, page, state, failed :
         l = [items |-> items, page |-> page, older |-> state, failed |-> failed]
  BY DEF IsList
<1> DEFINE m == [l EXCEPT !.items = x]
<1>2. m = [items |-> x, page |-> page, older |-> state, failed |-> failed]
  BY <1>1
<1> HIDE DEF m
<1>3. IsList(m) /\ m.older = l.older /\ m.page = l.page
  BY <1>1, <1>2 DEF IsList
<1> QED
  BY <1>3 DEF m

LEMMA RefreshedIs ==
    ASSUME NEW v, IsList(list[v])
    PROVE  /\ IsList(Refreshed(v)) /\ Refreshed(v).older = "idle"
           /\ Initial(v) => Refreshed(v).page = None
           /\ ~Initial(v) => list[v].page # None
<1>1. IsList(EmptyList) /\ EmptyList.older = "idle" /\ EmptyList.page = None
  BY DEF IsList, EmptyList
<1>2. CASE IsNew(v)
  BY <1>1, <1>2 DEF Refreshed, Initial
<1>3. CASE ~IsNew(v)
  <2> DEFINE m == WithOlder(list[v], "idle", None)
  <2>1. IsList(m) /\ m.older = "idle" /\ m.page = list[v].page
    BY WithOlderIs
  <2> HIDE DEF m
  <2>2. Refreshed(v) = m
    BY <1>3 DEF Refreshed, m
  <2> QED
    BY <1>3, <2>1, <2>2 DEF Initial
<1> QED
  BY <1>2, <1>3

\* The request of a view that is entered, with what it shows while it waits.
LEMMA FlushEntered ==
    ASSUME ServingInv, Flush, NEW v \in Entered
    PROVE  /\ v \in Operational /\ v \in Views /\ v = view /\ selected \in Runs
           /\ IsRequest(base'[v]) /\ Underway(base'[v]) /\ base'[v].view = v
           /\ base'[v].initial = Initial(v)
           /\ base'[v].run = selected /\ base'[v].filter = filter[v]
           /\ base'[v].cursor = None
           /\ live_key'[v] = Key(base'[v].run, base'[v].filter, base'[v].cursor)
           /\ list'[v] = Refreshed(v)
           /\ ~Underway(older'[v])
<1>1. v \in Operational /\ v \in Views /\ v # "business" /\ v \in due /\ v = view /\ selected \in Runs
  BY ViewsAre DEF Entered, ServingInv, TypeOK
<1>2. PICK new \in BOOLEAN, initial \in BOOLEAN : new = IsNew(v) /\ initial = Initial(v)
  BY DEF IsNew, Initial
<1>3. base'[v] = Request(selected, v, filter[v], None, new, initial)
  <2>1. base'[v] = NewestPage(v)
    BY <1>1 DEF Flush, FlushLists
  <2> QED
    BY <1>2, <2>1, Zenon DEF NewestPage
<1>4. /\ IsRequest(base'[v]) /\ Underway(base'[v]) /\ base'[v].view = v
      /\ base'[v].initial = initial /\ base'[v].run = selected
      /\ base'[v].filter = filter[v] /\ base'[v].cursor = None
  BY <1>1, <1>3, RequestIs
<1>5. live_key'[v] = Key(selected, filter[v], None)
  BY <1>1 DEF Flush, FlushOperational, BaseKey, FilterOf
<1>6. list'[v] = Refreshed(v)
  BY <1>1 DEF Flush, FlushLists
<1>7. ~Underway(older'[v])
  BY <1>1 DEF Flush, FlushLists, Underway
<1> QED
  BY <1>1, <1>2, <1>4, <1>5, <1>6, <1>7

\* An operational view whose effect does not run, and one whose effect runs
\* while another view is open.
LEMMA FlushOther ==
    ASSUME ServingInv, Flush, NEW v \in Operational, v \notin Entered
    PROVE  /\ v \in Views
           /\ list'[v] = list[v]
           /\ v # "context" => status'[v] = status[v]
           /\ status'[v] = "loading" /\ v = "context" =>
                 status[v] = "loading" \/ selected # None
           /\ v \in due => /\ ~Underway(base'[v]) /\ ~Underway(older'[v])
                           /\ v = view => selected = None
           /\ v \notin due => /\ base'[v] = base[v] /\ older'[v] = older[v]
                              /\ live_key'[v] = live_key[v]
<1>1. v \in Views /\ v # "business"
  BY ViewsAre
<1>2. list'[v] = list[v]
  BY <1>1 DEF Flush, FlushLists
<1>3. v # "context" => status'[v] = status[v]
  BY <1>1 DEF Flush, FlushLists
<1>4. status'[v] = "loading" /\ v = "context" => status[v] = "loading" \/ selected # None
  BY <1>1 DEF Flush, FlushLists, AsksFrame, NeedsFrame
<1>5. v \in due => /\ ~Underway(base'[v]) /\ ~Underway(older'[v])
                   /\ v = view => selected = None
  BY <1>1 DEF Flush, FlushLists, Underway, Entered
<1>6. v \notin due => /\ base'[v] = base[v] /\ older'[v] = older[v]
                      /\ live_key'[v] = live_key[v]
  BY <1>1 DEF Flush, FlushLists, FlushOperational
<1> QED
  BY <1>1, <1>2, <1>3, <1>4, <1>5, <1>6

LEMMA FlushBusiness ==
    ASSUME ServingInv, Flush
    PROVE  LET b == "business"
           IN  /\ b \in Views /\ list'[b].older = list[b].older /\ IsList(list'[b])
               /\ BusinessRuns =>
                     /\ selected \in Runs
                     /\ IsRequest(base'[b]) /\ Underway(base'[b]) /\ base'[b].view = b
                     /\ base'[b].initial /\ base'[b].run = selected
                     /\ ~Underway(older'[b])
               /\ ~BusinessRuns =>
                     /\ status'[b] = status[b]
                     /\ b \in due => /\ selected = None
                                     /\ ~Underway(base'[b]) /\ ~Underway(older'[b])
                     /\ b \notin due => base'[b] = base[b] /\ older'[b] = older[b]
<1> DEFINE b == "business"
<1>1. b \in Views /\ b \notin Entered /\ b # "context"
  BY ViewsAre DEF Entered
<1>2. list'[b].older = list[b].older /\ IsList(list'[b])
  <2>1. IsList(list[b])
    BY <1>1 DEF ServingInv, TypeOK
  <2>2. PICK none : none = <<>>
    OBVIOUS
  <2> DEFINE x == [list[b] EXCEPT !.items = none]
  <2>3. list'[b] = list[b] \/ list'[b] = x
    BY <1>1, <2>2 DEF Flush, FlushLists
  <2>4. IsList(x) /\ x.older = list[b].older
    BY <2>1, ItemsIs
  <2> HIDE DEF x
  <2> QED
    BY <2>1, <2>3, <2>4
<1>3. ASSUME BusinessRuns
      PROVE  /\ selected \in Runs
             /\ IsRequest(base'[b]) /\ Underway(base'[b]) /\ base'[b].view = b
             /\ base'[b].initial /\ base'[b].run = selected
             /\ ~Underway(older'[b])
  <2>1. PICK yes \in BOOLEAN : yes = TRUE
    OBVIOUS
  <2>2. base'[b] = Request(selected, b, "all", None, yes, yes)
    <3>1. base'[b] = NewestRows
      BY <1>1, <1>3 DEF Flush, FlushLists
    <3> QED
      BY <2>1, <3>1 DEF NewestRows
  <2>3. selected \in Runs
    BY <1>3 DEF BusinessRuns, ServingInv, TypeOK
  <2>4. ~Underway(older'[b])
    BY <1>1, <1>3 DEF Flush, FlushLists, Underway, BusinessRuns
  <2>5. /\ IsRequest(base'[b]) /\ Underway(base'[b]) /\ base'[b].view = b
        /\ base'[b].initial = yes /\ base'[b].run = selected
    BY <1>1, <2>2, <2>3, RequestIs
  <2> QED
    BY <2>1, <2>3, <2>4, <2>5
<1>4. ASSUME ~BusinessRuns
      PROVE  /\ status'[b] = status[b]
             /\ b \in due => /\ selected = None
                             /\ ~Underway(base'[b]) /\ ~Underway(older'[b])
             /\ b \notin due => base'[b] = base[b] /\ older'[b] = older[b]
  BY <1>1, <1>4 DEF Flush, FlushLists, Underway, BusinessRuns
<1> QED
  BY <1>1, <1>2, <1>3, <1>4

LEMMA FlushServing ==
    ASSUME ServingInv, Flush
    PROVE  ServingInv'
<1>1. UNCHANGED <<selected, view, node, filter>> /\ \A v \in Views : v \notin due'
  BY ViewsAre DEF Flush, FlushDetail
<1>2. /\ list' = [v \in Views |-> list'[v]]
      /\ base' = [v \in Views |-> base'[v]]
      /\ older' = [v \in Views |-> older'[v]]
      /\ status' = [v \in Views |-> status'[v]]
      /\ live_key' = [v \in Operational |-> live_key'[v]]
  BY DEF Flush, FlushLists, FlushOperational
<1>3. TypeOK'
  <2>1. selected' \in Runs \cup {None} /\ view' \in Views
    BY <1>1 DEF ServingInv, TypeOK
  <2>2. status' \in [Views -> {"idle", "loading", "ready", "failed"}]
    <3>1. \A v \in Views : status'[v] = "loading" \/ status'[v] = status[v]
      BY DEF Flush, FlushLists
    <3>2. \A v \in Views : status[v] \in {"idle", "loading", "ready", "failed"}
      BY DEF ServingInv, TypeOK
    <3>3. \A v \in Views : status'[v] \in {"idle", "loading", "ready", "failed"}
      BY <3>1, <3>2
    <3> QED
      BY <1>2, <3>3
  <2>3. ASSUME NEW v \in Views
        PROVE  /\ IsList(list'[v])
               /\ Underway(base'[v]) => IsRequest(base'[v]) /\ base'[v].view = v
               /\ Underway(older'[v]) => IsRequest(older'[v]) /\ older'[v].view = v
    <3>1. /\ IsList(list[v])
          /\ Underway(base[v]) => IsRequest(base[v]) /\ base[v].view = v
          /\ Underway(older[v]) => IsRequest(older[v]) /\ older[v].view = v
      BY DEF ServingInv, TypeOK
    <3>2. CASE v \in Entered
      BY <3>1, <3>2, FlushEntered, RefreshedIs
    <3>3. CASE v \in Operational /\ v \notin Entered
      BY <3>1, <3>3, FlushOther
    <3>4. CASE v = "business"
      BY <3>1, <3>4, FlushBusiness
    <3> QED
      BY <3>2, <3>3, <3>4, ViewsAre
  <2>4. Underway(detail') => IsRequest(detail')
    <3>1. CASE AsksFrame
      <4>1. PICK yes \in BOOLEAN, owns \in BOOLEAN : yes = TRUE /\ owns = OwnsStatus
        BY DEF OwnsStatus
      <4>2. detail' = AtFrame(Request(selected, "context", "all", None, yes, owns))
        BY <3>1, <4>1 DEF Flush, FlushDetail, AsksFrame
      <4>3. selected \in Runs
        BY <3>1 DEF AsksFrame, NeedsFrame, ServingInv, TypeOK
      <4> QED
        BY <4>2, <4>3, RequestIs, AtFrameIs
    <3>2. CASE ~AsksFrame
      BY <3>2 DEF Flush, FlushDetail, Underway, ServingInv, TypeOK
    <3> QED
      BY <3>1, <3>2
  <2> QED
    BY <1>2, <2>1, <2>2, <2>3, <2>4 DEF TypeOK
<1>4. SelectedInv'
  <2>1. ASSUME NEW v \in Views, status'[v] = "loading" \/ list'[v].older = "loading"
        PROVE  selected # None
    <3>1. status[v] = "loading" \/ list[v].older = "loading" => selected # None
      BY DEF ServingInv, SelectedInv
    <3>2. CASE v \in Entered
      BY <3>2, FlushEntered, ViewsAre
    <3>3. CASE v \in Operational /\ v \notin Entered
      BY <2>1, <3>1, <3>3, FlushOther
    <3>4. CASE v = "business"
      BY <2>1, <3>1, <3>4, FlushBusiness, ViewsAre
    <3> QED
      BY <3>2, <3>3, <3>4, ViewsAre
  <2> QED
    BY <1>1, <2>1 DEF SelectedInv
<1>5. OperationalInv'
  <2>1. ASSUME NEW v \in Operational \ {"context"}, status'[v] = "loading"
        PROVE  /\ list'[v].page = None
               /\ Underway(base'[v]) => base'[v].initial
               /\ v = view' /\ v \notin due' => Underway(base'[v]) /\ Wanted(base[v])'
    <3>1. v \in Views /\ IsList(list[v])
      BY ViewsAre DEF ServingInv, TypeOK
    <3>2. status[v] = "loading" =>
             /\ selected # None /\ list[v].page = None
             /\ Underway(base[v]) => base[v].initial
             /\ v = view /\ v \notin due => Underway(base[v]) /\ Wanted(base[v])
             /\ Underway(base[v]) => base[v].view = v
      BY <3>1 DEF ServingInv, SelectedInv, OperationalInv, TypeOK
    <3>3. CASE v \in Entered
      <4>1. Initial(v)
        <5>1. ~Initial(v) => status'[v] = status[v]
          BY <3>1, <3>3, ViewsAre DEF Flush, FlushLists
        <5> QED
          BY <2>1, <3>1, <3>2, <5>1, RefreshedIs
      <4>2. list'[v].page = None
        BY <3>1, <3>3, <4>1, FlushEntered, RefreshedIs
      <4>3. Underway(base'[v]) /\ base'[v].initial /\ Wanted(base[v])'
        BY <3>3, <4>1, FlushEntered DEF Wanted
      <4> QED
        BY <4>2, <4>3
    <3>4. CASE v \notin Entered
      <4>1. /\ list'[v] = list[v] /\ status'[v] = status[v]
            /\ v \in due => ~Underway(base'[v]) /\ (v = view => selected = None)
            /\ v \notin due => base'[v] = base[v] /\ live_key'[v] = live_key[v]
        BY <3>4, FlushOther
      <4> QED
        BY <1>1, <2>1, <3>2, <4>1 DEF Wanted
    <3> QED
      BY <3>3, <3>4
  <2>2. ASSUME NEW v \in Operational
        PROVE  /\ Underway(older'[v]) => Wanted(older[v])'
               /\ v = view' /\ list'[v].older = "loading" => Underway(older'[v])
    <3>1. v \in Views /\ IsList(list[v])
      BY ViewsAre DEF ServingInv, TypeOK
    <3>2. CASE v \in Entered
      BY <3>1, <3>2, FlushEntered, RefreshedIs
    <3>3. CASE v \notin Entered
      <4>1. /\ list'[v] = list[v]
            /\ v \in due => ~Underway(older'[v]) /\ (v = view => selected = None)
            /\ v \notin due => older'[v] = older[v] /\ live_key'[v] = live_key[v]
        BY <3>3, FlushOther
      <4>2. /\ list[v].older = "loading" => selected # None
            /\ Underway(older[v]) => older[v].view = v
            /\ v \notin due => /\ Underway(older[v]) => Wanted(older[v])
                               /\ v = view /\ list[v].older = "loading" => Underway(older[v])
        BY <3>1 DEF ServingInv, SelectedInv, OperationalInv, TypeOK
      <4> QED
        BY <1>1, <4>1, <4>2 DEF Wanted
    <3> QED
      BY <3>2, <3>3
  <2> QED
    BY <2>1, <2>2 DEF OperationalInv
<1>6. BusinessInv'
  <2> DEFINE b == "business"
  <2>1. /\ b \in Views /\ list'[b].older = list[b].older
        /\ BusinessRuns => /\ Underway(base'[b]) /\ base'[b].initial /\ base'[b].run = selected
                           /\ ~Underway(older'[b])
        /\ ~BusinessRuns => /\ status'[b] = status[b]
                            /\ b \in due => /\ selected = None
                                            /\ ~Underway(base'[b]) /\ ~Underway(older'[b])
                            /\ b \notin due => base'[b] = base[b] /\ older'[b] = older[b]
    BY FlushBusiness
  <2>2. status[b] = "loading" \/ list[b].older = "loading" => selected # None
    BY <2>1 DEF ServingInv, SelectedInv
  <2>3. Underway(base'[b]) => base'[b].initial
    BY <2>1 DEF ServingInv, BusinessInv
  <2>4. /\ Underway(base'[b]) => base'[b].run = selected
        /\ Underway(older'[b]) => older'[b].run = selected
        /\ status'[b] = "loading" => Underway(base'[b])
        /\ list'[b].older = "loading" => Underway(base'[b]) \/ Underway(older'[b])
    BY <2>1, <2>2 DEF ServingInv, BusinessInv
  <2> QED
    BY <1>1, <2>3, <2>4 DEF BusinessInv
<1>7. FrameInv'
  <2>1. NeedsFrame' = NeedsFrame
    BY <1>1 DEF NeedsFrame
  <2>2. ASSUME "detail" \notin due', Underway(detail')
        PROVE  detail'.sequence = sequence'
    <3>1. sequence' = sequence
      BY <2>2 DEF Flush, FlushDetail
    <3>2. CASE "detail" \notin due
      BY <2>2, <3>1, <3>2 DEF Flush, FlushDetail, ServingInv, FrameInv
    <3>3. CASE "detail" \in due
      <4>1. AsksFrame
        BY <2>2, <3>3 DEF Flush, FlushDetail, Underway
      <4>2. PICK yes \in BOOLEAN, owns \in BOOLEAN : yes = TRUE /\ owns = OwnsStatus
        BY DEF OwnsStatus
      <4>3. detail' = AtFrame(Request(selected, "context", "all", None, yes, owns))
        BY <4>1, <4>2 DEF Flush, FlushDetail, AsksFrame
      <4>4. selected \in Runs
        BY <4>1 DEF AsksFrame, NeedsFrame, ServingInv, TypeOK
      <4> QED
        BY <3>1, <4>3, <4>4, RequestIs, AtFrameIs
    <3> QED
      BY <3>2, <3>3
  <2>3. ASSUME "detail" \notin due', frame' # None, NeedsFrame
        PROVE  frame'.run = selected /\ frame'.sequence = sequence'
    <3>1. sequence' = sequence
      BY <2>3 DEF Flush, FlushDetail
    <3>2. frame' = frame /\ "detail" \notin due
      BY <2>3 DEF Flush, FlushDetail
    <3> QED
      BY <2>3, <3>1, <3>2 DEF ServingInv, FrameInv
  <2> QED
    BY <1>1, <2>1, <2>2, <2>3 DEF FrameInv
<1> QED
  BY <1>3, <1>4, <1>5, <1>6, <1>7 DEF ServingInv

-----------------------------------------------------------------------------
(* The answers *)

\* An answer of the newest page of an operational view, or its failure.  It is
\* no longer under way, and it ends the loading unless it is not wanted.
LEMMA BaseAnswered ==
    ASSUME ServingInv, NEW v \in Operational, Underway(base[v]),
           base' = [base EXCEPT ![v] = NoRequest],
           list' = [u \in Views |-> list'[u]],
           \A u \in Views : u # v => list'[u] = list[u] /\ status'[u] = status[u],
           list'[v] = list[v] \/ (IsList(list'[v]) /\ list'[v].older = "idle" /\ Wanted(base[v])),
           status' \in [Views -> {"idle", "loading", "ready", "failed"}],
           status'[v] = status[v] \/ status'[v] # "loading",
           Wanted(base[v]) /\ base[v].initial => status'[v] # "loading",
           UNCHANGED <<choiceVars, keyVars, older, frame, detail, due>>
    PROVE  ServingInv'
<1> USE DEF choiceVars, keyVars
<1>1. v \in Views /\ v # "business" /\ TypeOK
  BY ViewsAre DEF ServingInv
<1>2. /\ base' = [u \in Views |-> base'[u]] /\ ~Underway(base'[v])
      /\ \A u \in Views : u # v => base'[u] = base[u]
  BY <1>1, TypeNow, OneSet DEF Underway
<1>3. TypeOK'
  BY <1>1, <1>2 DEF TypeOK
<1>4. SelectedInv'
  BY <1>1 DEF ServingInv, SelectedInv
<1>5. OperationalInv'
  <2>1. ASSUME NEW u \in Operational \ {"context"}, status'[u] = "loading"
        PROVE  /\ list'[u].page = None
               /\ Underway(base'[u]) => base'[u].initial
               /\ u = view' /\ u \notin due' => Underway(base'[u]) /\ Wanted(base[u])'
    <3>1. u \in Views
      BY ViewsAre
    <3>2. CASE u # v
      BY <1>2, <2>1, <3>1, <3>2 DEF ServingInv, OperationalInv, Wanted
    <3>3. CASE u = v
      <4>1. status[v] = "loading"
        BY <2>1, <3>3
      <4>2. /\ list[v].page = None /\ base[v].initial
            /\ v = view /\ v \notin due => Wanted(base[v])
        BY <3>3, <4>1 DEF ServingInv, OperationalInv
      <4>3. ~Wanted(base[v]) /\ list'[v] = list[v]
        BY <2>1, <3>3, <4>2
      <4> QED
        BY <1>2, <3>3, <4>2, <4>3
    <3> QED
      BY <3>2, <3>3
  <2>2. ASSUME NEW u \in Operational \ due'
        PROVE  /\ Underway(older'[u]) => Wanted(older[u])'
               /\ u = view' /\ list'[u].older = "loading" => Underway(older'[u])
    <3>1. u \in Views
      BY ViewsAre
    <3>2. list'[u].older = "loading" => list[u].older = "loading"
      BY <3>1
    <3> QED
      BY <3>2 DEF ServingInv, OperationalInv, Wanted
  <2> QED
    BY <2>1, <2>2 DEF OperationalInv
<1>6. BusinessInv'
  BY <1>1, <1>2, ViewsAre DEF ServingInv, BusinessInv
<1>7. FrameInv'
  BY DEF ServingInv, FrameInv, NeedsFrame
<1> QED
  BY <1>3, <1>4, <1>5, <1>6, <1>7 DEF ServingInv

LEMMA ListIs ==
    ASSUME NEW items, NEW page, NEW state, NEW failed
    PROVE  LET l == [items |-> items, page |-> page, older |-> state, failed |-> failed]
           IN  IsList(l) /\ l.older = state /\ l.page = page
  BY DEF IsList

LEMMA ReceiveBaseServing ==
    ASSUME ServingInv, NEW v \in Views, ReceiveBase(v)
    PROVE  ServingInv'
<1>1. /\ v \in Operational /\ Underway(base[v])
      /\ base' = [base EXCEPT ![v] = NoRequest]
      /\ UNCHANGED <<choiceVars, keyVars, older, frame, detail, due>>
  BY DEF ReceiveBase, Served, Underway
<1>2. CASE Wanted(base[v])
  <2>1. PICK items, page : list' = [list EXCEPT
           ![v] = [items |-> items, page |-> page, older |-> "idle", failed |-> None]]
    BY <1>2 DEF ReceiveBase, Keeps
  <2> DEFINE x == [items |-> items, page |-> page, older |-> "idle", failed |-> None]
  <2>2. IsList(x) /\ x.older = "idle"
    BY ListIs
  <2> HIDE DEF x
  <2>3. list' = [list EXCEPT ![v] = x]
    BY <2>1 DEF x
  <2>4. /\ list' = [u \in Views |-> list'[u]] /\ list'[v] = x
        /\ \A u \in Views : u # v => list'[u] = list[u]
    BY <2>3, TypeNow, OneSet
  <2>5. status' = IF base[v].initial THEN [status EXCEPT ![v] = "ready"] ELSE status
    BY <1>2 DEF ReceiveBase
  <2>6. /\ \A u \in Views : u # v => status'[u] = status[u]
        /\ status' \in [Views -> {"idle", "loading", "ready", "failed"}]
        /\ status'[v] = status[v] \/ status'[v] # "loading"
        /\ base[v].initial => status'[v] # "loading"
    BY <2>5 DEF ServingInv, TypeOK
  <2> QED
    BY <1>1, <1>2, <2>2, <2>4, <2>6, BaseAnswered
<1>3. CASE ~Wanted(base[v])
  <2>1. list' = list /\ status' = status
    BY <1>3 DEF ReceiveBase, listVars
  <2> QED
    BY <1>1, <1>3, <2>1, TypeNow, BaseAnswered DEF ServingInv, TypeOK
<1> QED
  BY <1>2, <1>3

LEMMA FailBaseServing ==
    ASSUME ServingInv, NEW v \in Views, FailBase(v)
    PROVE  ServingInv'
<1>1. /\ v \in Operational /\ Underway(base[v])
      /\ base' = [base EXCEPT ![v] = NoRequest] /\ list' = list
      /\ UNCHANGED <<choiceVars, keyVars, older, frame, detail, due>>
  BY DEF FailBase, Underway
<1>2. status' = IF Wanted(base[v]) /\ base[v].initial
                THEN [status EXCEPT ![v] = "failed"] ELSE status
  BY DEF FailBase
<1>3. /\ \A u \in Views : u # v => status'[u] = status[u]
      /\ status' \in [Views -> {"idle", "loading", "ready", "failed"}]
      /\ status'[v] = status[v] \/ status'[v] # "loading"
      /\ Wanted(base[v]) /\ base[v].initial => status'[v] # "loading"
  BY <1>2 DEF ServingInv, TypeOK
<1> QED
  BY <1>1, <1>3, TypeNow, BaseAnswered

LEMMA BusinessAnswered ==
    ASSUME ServingInv, Underway(base["business"]),
           base' = [base EXCEPT !["business"] = NoRequest],
           list' = [u \in Views |-> list'[u]],
           \A u \in Views : u # "business" => list'[u] = list[u] /\ status'[u] = status[u],
           status' \in [Views -> {"idle", "loading", "ready", "failed"}],
           \/ /\ base["business"].run = selected
              /\ IsList(list'["business"]) /\ list'["business"].older = "idle"
              /\ status'["business"] # "loading"
           \/ /\ base["business"].run # selected
              /\ list'["business"] = list["business"] /\ status'["business"] = status["business"],
           UNCHANGED <<choiceVars, keyVars, older, frame, detail, due>>
    PROVE  ServingInv'
<1> USE DEF choiceVars, keyVars
<1> DEFINE b == "business"
<1>1. b \in Views /\ TypeOK /\ \A v \in Operational : v \in Views /\ v # b
  BY ViewsAre DEF ServingInv
<1>2. /\ base' = [u \in Views |-> base'[u]] /\ ~Underway(base'[b])
      /\ \A u \in Views : u # b => base'[u] = base[u]
  BY <1>1, TypeNow, OneSet DEF Underway
<1>3. TypeOK'
  BY <1>1, <1>2 DEF TypeOK
<1>4. SelectedInv'
  BY <1>1 DEF ServingInv, SelectedInv
<1>5. OperationalInv'
  BY <1>1, <1>2 DEF ServingInv, OperationalInv, Wanted
<1>6. BusinessInv'
  BY <1>1, <1>2 DEF ServingInv, BusinessInv
<1>7. FrameInv'
  BY DEF ServingInv, FrameInv, NeedsFrame
<1> QED
  BY <1>3, <1>4, <1>5, <1>6, <1>7 DEF ServingInv

LEMMA ReceiveBusinessServing ==
    ASSUME ServingInv, ReceiveBusiness
    PROVE  ServingInv'
<1> DEFINE b == "business"
<1>1. /\ b \in Views /\ Underway(base[b])
      /\ base' = [base EXCEPT ![b] = NoRequest]
      /\ UNCHANGED <<choiceVars, keyVars, older, frame, detail, due>>
  BY ViewsAre DEF ReceiveBusiness, Served, Underway
<1>2. CASE base[b].run = selected
  <2>1. PICK items, page : list' = [list EXCEPT
           ![b] = [items |-> items, page |-> page, older |-> "idle", failed |-> None]]
    BY <1>2 DEF ReceiveBusiness, Keeps
  <2> DEFINE x == [items |-> items, page |-> page, older |-> "idle", failed |-> None]
  <2>2. IsList(x) /\ x.older = "idle"
    BY ListIs
  <2> HIDE DEF x
  <2>3. list' = [list EXCEPT ![b] = x]
    BY <2>1 DEF x
  <2>4. /\ list' = [u \in Views |-> list'[u]] /\ list'[b] = x
        /\ \A u \in Views : u # b => list'[u] = list[u]
    BY <1>1, <2>3, TypeNow, OneSet
  <2>5. status' = [status EXCEPT ![b] = "ready"]
    BY <1>2 DEF ReceiveBusiness
  <2>6. /\ \A u \in Views : u # b => status'[u] = status[u]
        /\ status' \in [Views -> {"idle", "loading", "ready", "failed"}]
        /\ status'[b] # "loading"
    BY <1>1, <2>5 DEF ServingInv, TypeOK
  <2> QED
    BY <1>1, <1>2, <2>2, <2>4, <2>6, BusinessAnswered
<1>3. CASE base[b].run # selected
  <2>1. list' = list /\ status' = status
    BY <1>3 DEF ReceiveBusiness, listVars
  <2> QED
    BY <1>1, <1>3, <2>1, TypeNow, BusinessAnswered DEF ServingInv, TypeOK
<1> QED
  BY <1>2, <1>3

LEMMA FailBusinessServing ==
    ASSUME ServingInv, FailBusiness
    PROVE  ServingInv'
<1> DEFINE b == "business"
<1>1. /\ b \in Views /\ Underway(base[b])
      /\ base' = [base EXCEPT ![b] = NoRequest]
      /\ UNCHANGED <<choiceVars, keyVars, older, frame, detail, due>>
  BY ViewsAre DEF FailBusiness, Underway
<1>2. CASE base[b].run = selected
  <2>1. list' = [list EXCEPT ![b] = EmptyList] /\ status' = [status EXCEPT ![b] = "failed"]
    BY <1>2 DEF FailBusiness, Keeps
  <2>2. IsList(EmptyList) /\ EmptyList.older = "idle"
    BY DEF IsList, EmptyList
  <2>3. /\ list' = [u \in Views |-> list'[u]] /\ list'[b] = EmptyList
        /\ \A u \in Views : u # b => list'[u] = list[u]
    BY <1>1, <2>1, TypeNow, OneSet
  <2>4. /\ \A u \in Views : u # b => status'[u] = status[u]
        /\ status' \in [Views -> {"idle", "loading", "ready", "failed"}]
        /\ status'[b] # "loading"
    BY <1>1, <2>1 DEF ServingInv, TypeOK
  <2> QED
    BY <1>1, <1>2, <2>2, <2>3, <2>4, BusinessAnswered
<1>3. CASE base[b].run # selected
  <2>1. list' = list /\ status' = status
    BY <1>3 DEF FailBusiness
  <2> QED
    BY <1>1, <1>3, <2>1, TypeNow, BusinessAnswered DEF ServingInv, TypeOK
<1> QED
  BY <1>2, <1>3

\* An older page, or its failure: the list says so, unless the page is not
\* wanted any more.
LEMMA OlderAnswered ==
    ASSUME ServingInv, NEW v \in Views, Underway(older[v]),
           older' = [older EXCEPT ![v] = NoRequest],
           list' = [u \in Views |-> list'[u]],
           \A u \in Views : u # v => list'[u] = list[u] /\ status'[u] = status[u],
           status' \in [Views -> {"idle", "loading", "ready", "failed"}],
           \/ /\ IsList(list'[v]) /\ list'[v].older # "loading"
              /\ status'[v] # "loading" \/ (list'[v].page = list[v].page /\ status'[v] = status[v])
           \/ /\ ~StillWanted(v, older[v])
              /\ list'[v] = list[v] /\ status'[v] = status[v],
           UNCHANGED <<choiceVars, keyVars, base, frame, detail, due>>
    PROVE  ServingInv'
<1> USE DEF choiceVars, keyVars
<1>1. TypeOK /\ \A u \in Operational : u \in Views /\ u # "business"
  BY ViewsAre DEF ServingInv
<1>2. /\ older' = [u \in Views |-> older'[u]] /\ ~Underway(older'[v])
      /\ \A u \in Views : u # v => older'[u] = older[u]
  BY TypeNow, OneSet DEF Underway
<1>3. TypeOK'
  BY <1>1, <1>2 DEF TypeOK
<1>4. SelectedInv'
  BY <1>1 DEF ServingInv, SelectedInv
<1>5. OperationalInv'
  <2>1. ASSUME NEW u \in Operational \ {"context"}, status'[u] = "loading"
        PROVE  /\ list'[u].page = None
               /\ Underway(base'[u]) => base'[u].initial
               /\ u = view' /\ u \notin due' => Underway(base'[u]) /\ Wanted(base[u])'
    <3>1. list'[u].page = list[u].page /\ status[u] = "loading"
      BY <1>1, <2>1
    <3> QED
      BY <3>1 DEF ServingInv, OperationalInv, Wanted
  <2>2. ASSUME NEW u \in Operational \ due'
        PROVE  /\ Underway(older'[u]) => Wanted(older[u])'
               /\ u = view' /\ list'[u].older = "loading" => Underway(older'[u])
    <3>1. CASE u # v
      BY <1>1, <1>2, <3>1 DEF ServingInv, OperationalInv, Wanted
    <3>2. CASE u = v
      <4>1. StillWanted(v, older[v])
        BY <1>1, <3>2 DEF ServingInv, OperationalInv, StillWanted
      <4> QED
        BY <1>2, <3>2, <4>1
    <3> QED
      BY <3>1, <3>2
  <2> QED
    BY <2>1, <2>2 DEF OperationalInv
<1>6. BusinessInv'
  BY <1>1, <1>2, ViewsAre DEF ServingInv, BusinessInv, StillWanted
<1>7. FrameInv'
  BY DEF ServingInv, FrameInv, NeedsFrame
<1> QED
  BY <1>3, <1>4, <1>5, <1>6, <1>7 DEF ServingInv

LEMMA ReceiveOlderServing ==
    ASSUME ServingInv, NEW v \in Views, ReceiveOlder(v)
    PROVE  ServingInv'
<1>1. /\ Underway(older[v])
      /\ older' = [older EXCEPT ![v] = NoRequest]
      /\ UNCHANGED <<choiceVars, keyVars, base, frame, detail, due>>
  BY DEF ReceiveOlder, Served, Underway
<1>2. CASE StillWanted(v, older[v])
  <2> DEFINE x == Prepended(v, older[v])
  <2>1. list' = [list EXCEPT ![v] = x] /\ status' = [status EXCEPT ![v] = "ready"]
    BY <1>2 DEF ReceiveOlder, Keeps
  <2>2. PICK items, page : x = [items |-> items, page |-> page, older |-> "idle",
                                failed |-> None]
    BY DEF Prepended
  <2> HIDE DEF x
  <2>3. IsList(x) /\ x.older = "idle"
    BY <2>2 DEF IsList
  <2>4. /\ list' = [u \in Views |-> list'[u]] /\ list'[v] = x
        /\ \A u \in Views : u # v => list'[u] = list[u]
    BY <2>1, TypeNow, OneSet
  <2>5. /\ \A u \in Views : u # v => status'[u] = status[u]
        /\ status' \in [Views -> {"idle", "loading", "ready", "failed"}]
        /\ status'[v] # "loading"
    BY <2>1 DEF ServingInv, TypeOK
  <2> QED
    BY <1>1, <2>3, <2>4, <2>5, OlderAnswered
<1>3. CASE ~StillWanted(v, older[v])
  <2>1. list' = list /\ status' = status
    BY <1>3 DEF ReceiveOlder, listVars
  <2> QED
    BY <1>1, <1>3, <2>1, TypeNow, OlderAnswered DEF ServingInv, TypeOK
<1> QED
  BY <1>2, <1>3

LEMMA FailOlderServing ==
    ASSUME ServingInv, NEW v \in Views, FailOlder(v)
    PROVE  ServingInv'
<1>1. /\ Underway(older[v])
      /\ older' = [older EXCEPT ![v] = NoRequest] /\ status' = status
      /\ UNCHANGED <<choiceVars, keyVars, base, frame, detail, due>>
  BY DEF FailOlder, Underway
<1>2. CASE v = "business" /\ older[v].run # selected
  <2>1. list' = list
    BY <1>2 DEF FailOlder
  <2>2. ~StillWanted(v, older[v])
    BY <1>2 DEF StillWanted
  <2> QED
    BY <1>1, <2>1, <2>2, TypeNow, OlderAnswered DEF ServingInv, TypeOK
<1>3. CASE ~(v = "business" /\ older[v].run # selected)
  <2> DEFINE x == WithOlder(list[v], "failed", older[v].cursor)
  <2>1. list' = [list EXCEPT ![v] = x]
    BY <1>3 DEF FailOlder
  <2>2. IsList(x) /\ x.older = "failed" /\ x.page = list[v].page
    BY WithOlderIs DEF ServingInv, TypeOK
  <2> HIDE DEF x
  <2>3. /\ list' = [u \in Views |-> list'[u]] /\ list'[v] = x
        /\ \A u \in Views : u # v => list'[u] = list[u]
    BY <2>1, TypeNow, OneSet
  <2>4. status \in [Views -> {"idle", "loading", "ready", "failed"}]
    BY DEF ServingInv, TypeOK
  <2> QED
    BY <1>1, <2>2, <2>3, <2>4, OlderAnswered
<1> QED
  BY <1>2, <1>3

\* A frame, or its failure.
LEMMA DetailServing ==
    ASSUME ServingInv, ReceiveDetail \/ FailDetail
    PROVE  ServingInv'
<1>1. /\ Underway(detail) /\ detail' = NoRequest
      /\ UNCHANGED <<choiceVars, list, keyVars, base, older, due>>
  BY DEF ReceiveDetail, FailDetail, Served, Underway
<1>2. \/ status' = status
      \/ status' = [status EXCEPT !["context"] = "ready"]
      \/ status' = [status EXCEPT !["context"] = "failed"]
  BY DEF ReceiveDetail, FailDetail, FrameStatus
<1>3. /\ status' \in [Views -> {"idle", "loading", "ready", "failed"}]
      /\ \A v \in Views : v # "context" => status'[v] = status[v]
      /\ \A v \in Views : status'[v] = "loading" => status[v] = "loading"
  BY <1>2 DEF ServingInv, TypeOK
<1> USE DEF choiceVars, keyVars
<1>4. ~Underway(detail')
  BY <1>1 DEF Underway
<1>5. TypeOK'
  BY <1>1, <1>3, <1>4 DEF ServingInv, TypeOK
<1>6. SelectedInv'
  BY <1>1, <1>3 DEF ServingInv, SelectedInv
<1>7. OperationalInv'
  BY <1>1, <1>3, ViewsAre DEF ServingInv, OperationalInv, Wanted
<1>8. BusinessInv'
  BY <1>1, <1>3, ViewsAre DEF ServingInv, BusinessInv
<1>9. FrameInv'
  <2>1. ASSUME "detail" \notin due, frame' # None, NeedsFrame
        PROVE  frame'.run = selected /\ frame'.sequence = sequence
    <3>1. detail.sequence = sequence
           /\ (frame # None => frame.run = selected /\ frame.sequence = sequence)
      BY <1>1, <2>1 DEF ServingInv, FrameInv
    <3>2. CASE frame' = frame
      BY <2>1, <3>1, <3>2
    <3>3. CASE frame' # frame
      <4>1. ReceiveDetail /\ detail.run = selected
        BY <2>1, <3>3 DEF ReceiveDetail, FailDetail
      <4>2. frame' = [run |-> detail.run, sequence |-> detail.sequence]
        BY <4>1 DEF ReceiveDetail
      <4> QED
        BY <3>1, <4>1, <4>2
    <3> QED
      BY <3>2, <3>3
  <2>2. NeedsFrame' = NeedsFrame
    BY <1>1 DEF NeedsFrame
  <2> QED
    BY <1>1, <1>4, <2>1, <2>2 DEF FrameInv
<1> QED
  BY <1>5, <1>6, <1>7, <1>8, <1>9 DEF ServingInv

-----------------------------------------------------------------------------
(* What is awaited, and whose the frame is *)

LEMMA NextServing ==
    ASSUME ServingInv, [Next]_vars
    PROVE  ServingInv'
<1>1. CASE UserActs
  <2>1. ASSUME NEW r \in Runs, SelectRun(r)
        PROVE  ServingInv'
    BY <2>1, SelectRunServing
  <2>2. ASSUME NEW v \in Views, SelectView(v)
        PROVE  ServingInv'
    BY <2>2, SelectViewServing
  <2>3. ASSUME NEW f \in Filters, ChangeFilter(f)
        PROVE  ServingInv'
    BY <2>3, ChangeFilterServing
  <2>4. CASE SelectNode
    BY <2>4, SelectNodeServing
  <2>5. ASSUME NEW cursor, LoadOlder(cursor)
        PROVE  ServingInv'
    BY <2>5, LoadOlderServing
  <2>6. ASSUME NEW cursor, LoadOlderBusiness(cursor)
        PROVE  ServingInv'
    BY <2>6, LoadOlderBusinessServing
  <2>7. CASE Retry \/ RetryFrame
    BY <2>7, RetryServing
  <2> QED
    BY <1>1, <2>1, <2>2, <2>3, <2>4, <2>5, <2>6, <2>7 DEF UserActs
<1>2. CASE Flush
  BY <1>2, FlushServing
<1>3. CASE ServerReads
  BY <1>3, ServerReadsServing
<1>4. CASE Receive
  BY <1>4, ReceiveBaseServing, ReceiveOlderServing, ReceiveBusinessServing, DetailServing
     DEF Receive
<1>5. CASE Fail
  BY <1>5, FailBaseServing, FailOlderServing, FailBusinessServing, DetailServing DEF Fail
<1>6. ASSUME NEW r \in Growing, Grow(r)
      PROVE  ServingInv'
  BY <1>6, GrowServing
<1>7. CASE UNCHANGED vars
  BY <1>7, TypeNow, AskedServing DEF vars, SameAsked
<1> QED
  BY <1>1, <1>2, <1>3, <1>4, <1>5, <1>6, <1>7 DEF Next

\* The invariant of the workbench: what a view awaits is under way, or the
\* effect that will ask for it is due.
THEOREM ServingInvariant == Spec => []ServingInv
<1>1. Init => ServingInv
  BY InitServing
<1>2. ServingInv /\ [Next]_vars => ServingInv'
  BY NextServing
<1> QED
  BY <1>1, <1>2, PTL DEF Spec

\* showInitialLoading, operationalRequestKeyRef and loadOlderOperational: a
\* view that says it is loading awaits an answer that will not be discarded and
\* ends it, and "loading older" is said only while something is loaded, for any
\* runs, filters, actions and failures.
THEOREM LoadsAreAwaited == Spec => []LoadingIsAwaited
<1>1. ServingInv => LoadingIsAwaited
  <2>1. ASSUME ServingInv
        PROVE  ViewIsAwaited
    BY <2>1, ViewsAre DEF ServingInv, TypeOK, OperationalInv, BusinessInv, ViewIsAwaited,
       StillWanted, Underway
  <2>2. ASSUME ServingInv
        PROVE  OlderIsAwaited
    BY <2>2, ViewsAre DEF ServingInv, TypeOK, OperationalInv, BusinessInv, OlderIsAwaited,
       Underway
  <2> QED
    BY <2>1, <2>2 DEF LoadingIsAwaited
<1> QED
  BY <1>1, ServingInvariant, PTL

\* contextDetailRequestKeyRef: whatever answers arrive late, the frame that can be
\* seen is of the selected run and of the selected sequence.
THEOREM FramesAreOwn == Spec => []OwnFrame
<1>1. ServingInv => OwnFrame
  BY DEF ServingInv, FrameInv, OwnFrame
<1> QED
  BY <1>1, ServingInvariant, PTL

-----------------------------------------------------------------------------
(* The k-th of a set of numbers *)

Upto(S, x) == {y \in S : y <= x}

\* The rank of a number, among those of the set.
LEMMA RankIs ==
    ASSUME NEW S \in SUBSET Int, IsFiniteSet(S), NEW x \in S
    PROVE  /\ IsFiniteSet(Upto(S, x))
           /\ Cardinality(Upto(S, x)) \in 1..Cardinality(S)
<1>1. Upto(S, x) \in SUBSET S /\ x \in Upto(S, x)
  BY DEF Upto
<1>2. IsFiniteSet(Upto(S, x)) /\ Cardinality(Upto(S, x)) <= Cardinality(S)
  BY <1>1, FS_Subset
<1>3. Cardinality(Upto(S, x)) # 0
  BY <1>1, <1>2, FS_EmptySet
<1> QED
  BY <1>2, <1>3, FS_CardinalityType

LEMMA RankGrows ==
    ASSUME NEW S \in SUBSET Int, IsFiniteSet(S), NEW x \in S, NEW y \in S, x < y
    PROVE  Cardinality(Upto(S, x)) < Cardinality(Upto(S, y))
<1>0. x \in Int /\ y \in Int /\ \A z \in S : z \in Int
  OBVIOUS
<1>1. Upto(S, x) \in SUBSET Upto(S, y) /\ y \in Upto(S, y) /\ y \notin Upto(S, x)
  <2>1. \A z \in S : z <= x => z <= y
    BY <1>0
  <2>2. y <= y /\ ~(y <= x)
    BY <1>0
  <2> QED
    BY <2>1, <2>2 DEF Upto
<1>2. IsFiniteSet(Upto(S, y))
  BY RankIs
<1>3. /\ Cardinality(Upto(S, x)) <= Cardinality(Upto(S, y))
      /\ Cardinality(Upto(S, x)) # Cardinality(Upto(S, y))
  BY <1>1, <1>2, FS_Subset
<1>4. Cardinality(Upto(S, x)) \in Nat /\ Cardinality(Upto(S, y)) \in Nat
  BY RankIs, FS_CardinalityType
<1> QED
  BY <1>3, <1>4

\* Numbers are ranked one to one, so every rank is taken.
LEMMA NthIs ==
    ASSUME NEW S \in SUBSET Int, IsFiniteSet(S), NEW k \in 1..Cardinality(S)
    PROVE  Nth(S, k) \in S /\ Cardinality(Upto(S, Nth(S, k))) = k
<1> DEFINE n == Cardinality(S)
           f == [x \in S |-> Cardinality(Upto(S, x))]
<1>0. n \in Nat
  BY FS_CardinalityType
<1>1. f \in [S -> 1..n]
  BY RankIs
<1>2. \A x, y \in S : f[x] = f[y] => x = y
  <2> SUFFICES ASSUME NEW x \in S, NEW y \in S, f[x] = f[y] PROVE x = y
    OBVIOUS
  <2>1. ~(x < y) /\ ~(y < x)
    <3>1. Cardinality(Upto(S, x)) \in Nat /\ Cardinality(Upto(S, y)) \in Nat
      BY RankIs, FS_CardinalityType
    <3> QED
      BY RankGrows, <3>1
  <2> QED
    BY <2>1
<1>3. f \in Injection(S, 1..n)
  BY <1>1, <1>2 DEF Injection, IsInjective
<1>4. IsFiniteSet(1..n) /\ Cardinality(1..n) = n
  BY <1>0, FS_Interval
<1>5. f \in Surjection(S, 1..n)
  BY <1>3, <1>4, FS_Injection
<1>6. \E x \in S : Cardinality(Upto(S, x)) = k
  BY <1>5 DEF Surjection
<1> QED
  BY <1>6 DEF Nth, Upto

LEMMA NthOf ==
    ASSUME NEW S \in SUBSET Int, IsFiniteSet(S), NEW x \in S
    PROVE  Nth(S, Cardinality(Upto(S, x))) = x
<1> DEFINE k == Cardinality(Upto(S, x))
           y == Nth(S, k)
<1>1. y \in S /\ Cardinality(Upto(S, y)) = k /\ k \in Nat
  BY RankIs, NthIs
<1>2. ~(x < y) /\ ~(y < x)
  <2>1. Cardinality(Upto(S, y)) = k
    BY <1>1
  <2> HIDE DEF y
  <2> QED
    BY <1>1, <2>1, RankGrows
<1>3. x \in Int /\ y \in Int
  BY <1>1
<1> HIDE DEF y
<1>4. y = x
  BY <1>2, <1>3
<1> QED
  BY <1>4 DEF y

LEMMA NthGrows ==
    ASSUME NEW S \in SUBSET Int, IsFiniteSet(S),
           NEW j \in 1..Cardinality(S), NEW k \in 1..Cardinality(S), j < k
    PROVE  Nth(S, j) < Nth(S, k)
<1> DEFINE x == Nth(S, j)
           y == Nth(S, k)
<1>1. /\ x \in S /\ y \in S
      /\ Cardinality(Upto(S, x)) = j /\ Cardinality(Upto(S, y)) = k
  BY NthIs
<1> HIDE DEF x, y
<1>2. x # y /\ ~(y < x)
  BY <1>1, RankGrows
<1>3. x < y
  BY <1>1, <1>2
<1> QED
  BY <1>3 DEF x, y

LEMMA NthOfInterval ==
    ASSUME NEW n \in Nat, NEW k \in 1..n
    PROVE  Nth(1..n, k) = k
<1>1. Upto(1..n, k) = 1..k
  BY DEF Upto
<1>2. Cardinality(Upto(1..n, k)) = k
  BY <1>1, FS_Interval
<1>3. 1..n \in SUBSET Int /\ IsFiniteSet(1..n) /\ k \in 1..n
  BY FS_Interval
<1> QED
  BY <1>2, <1>3, NthOf

\* Of two sets, one below the other, the numbers of the lower come first.
LEMMA NthOfBoth ==
    ASSUME NEW A \in SUBSET Int, IsFiniteSet(A), NEW B \in SUBSET Int, IsFiniteSet(B),
           \A x \in A, y \in B : x < y
    PROVE  /\ IsFiniteSet(A \cup B)
           /\ Cardinality(A \cup B) = Cardinality(A) + Cardinality(B)
           /\ \A k \in 1..Cardinality(A) : Nth(A \cup B, k) = Nth(A, k)
           /\ \A k \in 1..Cardinality(B) :
                 Nth(A \cup B, Cardinality(A) + k) = Nth(B, k)
<1> DEFINE S == A \cup B
           a == Cardinality(A)
           b == Cardinality(B)
<1>0. a \in Nat /\ b \in Nat
  BY FS_CardinalityType
<1>1. A \cap B = {}
  OBVIOUS
<1>2. IsFiniteSet(S) /\ Cardinality(S) = a + b
  <2>1. IsFiniteSet(S) /\ Cardinality(S) = a + b - Cardinality(A \cap B)
    BY FS_Union
  <2>2. Cardinality(A \cap B) = 0
    BY <1>1, FS_EmptySet
  <2> QED
    BY <2>1, <2>2, <1>0
<1>3. ASSUME NEW k \in 1..a PROVE Nth(S, k) = Nth(A, k)
  <2> DEFINE x == Nth(A, k)
  <2>1. x \in A /\ Cardinality(Upto(A, x)) = k
    BY NthIs
  <2> HIDE DEF x
  <2>2. Upto(S, x) = Upto(A, x)
    <3>1. \A y \in B : ~(y <= x)
      BY <2>1
    <3> QED
      BY <3>1 DEF Upto
  <2>3. S \in SUBSET Int /\ x \in S
    BY <2>1
  <2>4. Nth(S, Cardinality(Upto(S, x))) = x
    BY <2>3, <1>2, NthOf
  <2> QED
    BY <2>1, <2>2, <2>4 DEF x
<1>4. ASSUME NEW k \in 1..b PROVE Nth(S, a + k) = Nth(B, k)
  <2> DEFINE x == Nth(B, k)
  <2>1. x \in B /\ Cardinality(Upto(B, x)) = k
    BY NthIs
  <2> HIDE DEF x
  <2>2. Upto(S, x) = A \cup Upto(B, x)
    <3>1. \A y \in A : y <= x
      BY <2>1
    <3> QED
      BY <3>1 DEF Upto
  <2>3. A \cap Upto(B, x) = {}
    BY <1>1 DEF Upto
  <2>4. IsFiniteSet(Upto(B, x))
    BY <2>1, RankIs
  <2>5. Cardinality(Upto(S, x)) = a + k
    <3>1. Cardinality(A \cup Upto(B, x)) = a + k - Cardinality(A \cap Upto(B, x))
      BY <2>1, <2>4, FS_Union
    <3>2. Cardinality(A \cap Upto(B, x)) = 0
      BY <2>3, FS_EmptySet
    <3> QED
      BY <3>1, <3>2, <2>2, <1>0
  <2>6. S \in SUBSET Int /\ x \in S
    BY <2>1
  <2>7. Nth(S, Cardinality(Upto(S, x))) = x
    BY <2>6, <1>2, NthOf
  <2> QED
    BY <2>5, <2>7 DEF x
<1> QED
  BY <1>2, <1>3, <1>4

-----------------------------------------------------------------------------
(* Rows in order *)

SequencesIn(R) == {row.sequence : row \in R}

Apart(R) == /\ IsFiniteSet(SequencesIn(R))
            /\ \A x \in R : x.sequence \in Nat
            /\ \A x, y \in R : x.sequence = y.sequence => x = y

\* A has the rows of R from some row on.
UpperRows(A, R) == /\ A \subseteq R
              /\ \A x \in A, y \in R : x.sequence <= y.sequence => y \in A

LEMMA SequencesAre ==
    ASSUME NEW R, Apart(R)
    PROVE  /\ SequencesIn(R) \in SUBSET Int
           /\ IsFiniteSet(SequencesIn(R))
           /\ Cardinality(SequencesIn(R)) \in Nat
<1>1. \A x \in R : x.sequence \in Int
  BY DEF Apart
<1>2. SequencesIn(R) \in SUBSET Int
  BY <1>1 DEF SequencesIn
<1> QED
  BY <1>2, FS_CardinalityType DEF Apart

LEMMA SomeApart ==
    ASSUME NEW R, Apart(R), NEW A \in SUBSET R
    PROVE  Apart(A)
<1>1. SequencesIn(A) \in SUBSET SequencesIn(R)
  BY DEF SequencesIn
<1>2. IsFiniteSet(SequencesIn(A))
  BY <1>1, SequencesAre, FS_Subset
<1> QED
  BY <1>2 DEF Apart

\* Every place is taken by a row with the sequence that is due there.
LEMMA InOrderRows ==
    ASSUME NEW R, SequencesIn(R) \in SUBSET Int, IsFiniteSet(SequencesIn(R))
    PROVE  LET n == Cardinality(SequencesIn(R))
           IN  /\ n \in Nat
               /\ InOrder(R) \in [1..n -> R]
               /\ InOrder(R) \in Seq(R)
               /\ Len(InOrder(R)) = n
               /\ \A k \in 1..n : InOrder(R)[k].sequence = Nth(SequencesIn(R), k)
<1> DEFINE S == SequencesIn(R)
           n == Cardinality(S)
           Row(k) == CHOOSE row \in R : row.sequence = Nth(S, k)
<1>1. S \in SUBSET Int /\ IsFiniteSet(S) /\ n \in Nat
  BY FS_CardinalityType
<1>2. ASSUME NEW k \in 1..n PROVE Row(k) \in R /\ Row(k).sequence = Nth(S, k)
  <2>1. Nth(S, k) \in S
    BY <1>1, NthIs
  <2>2. \E row \in R : row.sequence = Nth(S, k)
    BY <2>1 DEF SequencesIn
  <2> QED
    BY <2>2
<1>3. InOrder(R) = [k \in 1..n |-> Row(k)]
  BY DEF InOrder, SequencesIn
<1> HIDE DEF S, n, Row
<1>4. InOrder(R) \in [1..n -> R]
  BY <1>2, <1>3
<1>5. InOrder(R) \in Seq(R) /\ Len(InOrder(R)) = n
  BY <1>1, <1>4
<1>6. \A k \in 1..n : InOrder(R)[k].sequence = Nth(S, k)
  BY <1>2, <1>3
<1> QED
  BY <1>1, <1>4, <1>5, <1>6 DEF S, n

LEMMA InOrderIs ==
    ASSUME NEW R, Apart(R)
    PROVE  LET n == Cardinality(SequencesIn(R))
           IN  /\ n \in Nat
               /\ InOrder(R) \in [1..n -> R]
               /\ InOrder(R) \in Seq(R)
               /\ Len(InOrder(R)) = n
               /\ \A k \in 1..n : InOrder(R)[k].sequence = Nth(SequencesIn(R), k)
  BY SequencesAre, InOrderRows

LEMMA InOrderCovers ==
    ASSUME NEW R, Apart(R), NEW x \in R
    PROVE  \E k \in 1..Len(InOrder(R)) : InOrder(R)[k] = x
<1> DEFINE S == SequencesIn(R)
           k == Cardinality(Upto(S, x.sequence))
           n == Cardinality(S)
<1>1. S \in SUBSET Int /\ IsFiniteSet(S) /\ n \in Nat /\ x.sequence \in S
  BY SequencesAre DEF SequencesIn
<1>2. k \in 1..n /\ Nth(S, k) = x.sequence
  BY <1>1, RankIs, NthOf
<1>3. /\ Len(InOrder(R)) = n
      /\ InOrder(R)[k] \in R /\ InOrder(R)[k].sequence = x.sequence
  BY <1>2, InOrderIs
<1>4. InOrder(R)[k] = x
  BY <1>3 DEF Apart
<1> QED
  BY <1>2, <1>3, <1>4

LEMMA InOrderGrows ==
    ASSUME NEW R, Apart(R), NEW j \in 1..Len(InOrder(R)), NEW k \in 1..Len(InOrder(R)),
           j < k
    PROVE  InOrder(R)[j].sequence < InOrder(R)[k].sequence
<1> DEFINE S == SequencesIn(R)
           n == Cardinality(S)
<1>1. S \in SUBSET Int /\ IsFiniteSet(S) /\ n \in Nat
  BY SequencesAre
<1>2. /\ Len(InOrder(R)) = n
      /\ \A i \in 1..n : InOrder(R)[i].sequence = Nth(S, i)
  BY InOrderIs
<1>3. Nth(S, j) < Nth(S, k)
  BY <1>1, <1>2, NthGrows
<1> QED
  BY <1>2, <1>3

\* The rows of two sets, one below the other, are those of the lower and then
\* those of the upper.
LEMMA InOrderOfBoth ==
    ASSUME NEW A, Apart(A), NEW B, Apart(B),
           \A x \in A, y \in B : x.sequence < y.sequence
    PROVE  Apart(A \cup B) /\ InOrder(A \cup B) = InOrder(A) \o InOrder(B)
<1> DEFINE R == A \cup B
           a == Cardinality(SequencesIn(A))
           b == Cardinality(SequencesIn(B))
<1>1. SequencesIn(R) = SequencesIn(A) \cup SequencesIn(B)
  BY DEF SequencesIn
<1>2. /\ SequencesIn(A) \in SUBSET Int /\ IsFiniteSet(SequencesIn(A)) /\ a \in Nat
      /\ SequencesIn(B) \in SUBSET Int /\ IsFiniteSet(SequencesIn(B)) /\ b \in Nat
  BY SequencesAre
<1>3. \A x \in SequencesIn(A), y \in SequencesIn(B) : x < y
  BY DEF SequencesIn
<1>4. /\ IsFiniteSet(SequencesIn(R))
      /\ Cardinality(SequencesIn(R)) = a + b
      /\ \A k \in 1..a : Nth(SequencesIn(R), k) = Nth(SequencesIn(A), k)
      /\ \A k \in 1..b : Nth(SequencesIn(R), a + k) = Nth(SequencesIn(B), k)
  <2> DEFINE P == SequencesIn(A)
             Q == SequencesIn(B)
  <2>1. /\ P \in SUBSET Int /\ IsFiniteSet(P) /\ Q \in SUBSET Int /\ IsFiniteSet(Q)
        /\ \A x \in P, y \in Q : x < y
    BY <1>2, <1>3
  <2> HIDE DEF P, Q
  <2>2. /\ IsFiniteSet(P \cup Q)
        /\ Cardinality(P \cup Q) = Cardinality(P) + Cardinality(Q)
        /\ \A k \in 1..Cardinality(P) : Nth(P \cup Q, k) = Nth(P, k)
        /\ \A k \in 1..Cardinality(Q) : Nth(P \cup Q, Cardinality(P) + k) = Nth(Q, k)
    BY <2>1, NthOfBoth
  <2> QED
    BY <2>2, <1>1 DEF P, Q
<1>5. Apart(R)
  <2>1. \A x \in R : x.sequence \in Nat
    BY DEF Apart
  <2>2. ASSUME NEW x \in R, NEW y \in R, x.sequence = y.sequence PROVE x = y
    <3>1. /\ ~(x \in A /\ y \in B) /\ ~(x \in B /\ y \in A)
      <4>1. ~(x.sequence < y.sequence) /\ ~(y.sequence < x.sequence)
        BY <2>1, <2>2
      <4> QED
        BY <4>1
    <3> QED
      BY <3>1, <2>2 DEF Apart
  <2> QED
    BY <1>4, <2>1, <2>2 DEF Apart
<1>a. /\ InOrder(A) \in [1..a -> A] /\ InOrder(A) \in Seq(A) /\ Len(InOrder(A)) = a
      /\ \A k \in 1..a : InOrder(A)[k].sequence = Nth(SequencesIn(A), k)
  BY InOrderIs
<1>b. /\ InOrder(B) \in [1..b -> B] /\ InOrder(B) \in Seq(B) /\ Len(InOrder(B)) = b
      /\ \A k \in 1..b : InOrder(B)[k].sequence = Nth(SequencesIn(B), k)
  BY InOrderIs
<1>r. /\ InOrder(R) \in [1..(a + b) -> R] /\ InOrder(R) \in Seq(R)
      /\ Len(InOrder(R)) = a + b
      /\ \A k \in 1..(a + b) : InOrder(R)[k].sequence = Nth(SequencesIn(R), k)
  BY <1>4, <1>5, InOrderIs
<1> DEFINE s == InOrder(A)
           t == InOrder(B)
           u == InOrder(R)
<1>6. ASSUME NEW k \in 1..a PROVE u[k] = s[k]
  <2>1. k \in 1..(a + b)
    BY <1>2
  <2>2. u[k] \in R /\ s[k] \in R /\ u[k].sequence = s[k].sequence
    BY <2>1, <1>a, <1>r, <1>4
  <2> QED
    BY <2>2, <1>5 DEF Apart
<1>7. ASSUME NEW k \in 1..b PROVE u[a + k] = t[k]
  <2>1. a + k \in 1..(a + b)
    BY <1>2
  <2>2. u[a + k] \in R /\ t[k] \in R /\ u[a + k].sequence = t[k].sequence
    BY <2>1, <1>b, <1>r, <1>4
  <2> QED
    BY <2>2, <1>5 DEF Apart
<1>8. u = s \o t
  <2>1. /\ s \in Seq(R) /\ Len(s) = a /\ t \in Seq(R) /\ Len(t) = b
        /\ u \in Seq(R) /\ Len(u) = a + b
    BY <1>a, <1>b, <1>r
  <2> HIDE DEF s, t, u, R, a, b
  <2>2. s \o t \in Seq(R) /\ Len(s \o t) = a + b
    BY <2>1, <1>2
  <2>3. ASSUME NEW k \in 1..(a + b) PROVE u[k] = (s \o t)[k]
    <3>1. CASE k <= a
      BY <3>1, <2>1, <1>2, <1>6
    <3>2. CASE k > a
      <4>1. k - a \in 1..b /\ a + (k - a) = k
        BY <3>2, <1>2
      <4>2. u[k] = t[k - a]
        BY <4>1, <1>7
      <4> QED
        BY <4>1, <4>2, <3>2, <2>1, <1>2
    <3>3. k <= a \/ k > a
      BY <2>1
    <3> QED
      BY <3>1, <3>2, <3>3
  <2> QED
    BY <2>1, <2>2, <2>3
<1> QED
  BY <1>5, <1>8 DEF R

LEMMA InOrderOfNone == Apart({}) /\ InOrder({}) = <<>>
<1>1. SequencesIn({}) = {}
  BY DEF SequencesIn
<1>2. Apart({})
  BY <1>1, FS_EmptySet DEF Apart
<1>3. Cardinality(SequencesIn({})) = 0
  BY <1>1, FS_EmptySet
<1>4. InOrder({}) \in Seq({}) /\ Len(InOrder({})) = 0
  BY <1>2, <1>3, InOrderIs
<1> QED
  BY <1>2, <1>4

\* No row has a place, and only then there is no row.
LEMMA InOrderEmpty ==
    ASSUME NEW R, Apart(R)
    PROVE  /\ InOrder(R) = <<>> <=> R = {}
           /\ Len(InOrder(R)) = 0 <=> R = {}
<1>1. InOrder(R) \in Seq(R) /\ Len(InOrder(R)) \in Nat
  BY InOrderIs
<1>2. R # {} => Len(InOrder(R)) # 0
  BY <1>1, InOrderCovers
<1>3. R = {} => InOrder(R) = <<>> /\ Len(InOrder(R)) = 0
  BY InOrderOfNone
<1> QED
  BY <1>1, <1>2, <1>3

\* The rows from place j on are the rows of a tail, and those before it are
\* the rows below that tail.
LEMMA InOrderFrom ==
    ASSUME NEW R, Apart(R), NEW j \in 1..Len(InOrder(R))
    PROVE  \E A \in SUBSET R :
              /\ UpperRows(A, R)
              /\ A # {}
              /\ SubSeq(InOrder(R), j, Len(InOrder(R))) = InOrder(A)
              /\ A = R <=> j = 1
              /\ Len(InOrder(A)) = Len(InOrder(R)) - j + 1
<1> DEFINE S == SequencesIn(R)
           n == Cardinality(S)
           at == Nth(S, j)
           A == {x \in R : x.sequence >= at}
           B == {x \in R : x.sequence < at}
<1>1. S \in SUBSET Int /\ IsFiniteSet(S) /\ n \in Nat
  BY SequencesAre
<1>2. Len(InOrder(R)) = n /\ InOrder(R) \in Seq(R)
  BY InOrderIs
<1>3. at \in S /\ Cardinality(Upto(S, at)) = j /\ at \in Int
  BY <1>1, <1>2, NthIs
<1>4. \A x \in R : x.sequence \in Int
  BY DEF Apart
<1>5. /\ A \in SUBSET R /\ B \in SUBSET R /\ A \cup B = R
      /\ \A x \in B, y \in A : x.sequence < y.sequence
  <2> HIDE DEF at
  <2>1. \A x \in R : x.sequence < at \/ x.sequence >= at
    BY <1>3, <1>4
  <2>2. \A x \in B, y \in A : x.sequence < y.sequence
    BY <1>3, <1>4
  <2> QED
    BY <2>1, <2>2
<1>6. UpperRows(A, R) /\ A # {}
  <2> HIDE DEF at
  <2>1. \A x \in A, y \in R : x.sequence <= y.sequence => y.sequence >= at
    BY <1>3, <1>4
  <2>2. PICK x \in R : x.sequence = at
    BY <1>3 DEF SequencesIn
  <2>3. at >= at
    BY <1>3
  <2> QED
    BY <2>1, <2>2, <2>3 DEF UpperRows
<1>7. Apart(A) /\ Apart(B)
  BY <1>5, SomeApart
<1>8. InOrder(R) = InOrder(B) \o InOrder(A)
  <2> HIDE DEF A, B
  <2> QED
    BY <1>5, <1>7, InOrderOfBoth
<1>9. Cardinality(SequencesIn(B)) = j - 1
  <2>1. SequencesIn(B) = Upto(S, at) \ {at}
    <3> HIDE DEF at
    <3>1. \A x \in R : x.sequence < at <=> x.sequence <= at /\ x.sequence # at
      BY <1>3, <1>4
    <3> QED
      BY <3>1 DEF SequencesIn, Upto
  <2>2. at \in Upto(S, at) /\ IsFiniteSet(Upto(S, at))
    <3>1. at <= at
      BY <1>3
    <3>2. IsFiniteSet(Upto(S, at))
      BY <1>1, <1>3, RankIs
    <3> QED
      BY <1>3, <3>1, <3>2 DEF Upto
  <2>3. Cardinality(Upto(S, at) \ {at}) = j - 1
    BY <2>2, <1>3, FS_RemoveElement
  <2> QED
    BY <2>1, <2>3
<1>10. /\ InOrder(B) \in Seq(R) /\ Len(InOrder(B)) = j - 1
       /\ InOrder(A) \in Seq(R) /\ Len(InOrder(A)) \in Nat
  <2>1. InOrder(B) \in Seq(B) /\ InOrder(A) \in Seq(A)
    BY <1>7, InOrderIs
  <2>2. Len(InOrder(B)) = j - 1 /\ Len(InOrder(A)) \in Nat
    BY <1>7, <1>9, InOrderIs
  <2> HIDE DEF A, B
  <2> QED
    BY <2>1, <2>2, <1>5
<1> DEFINE s == InOrder(B)
           t == InOrder(A)
           u == InOrder(R)
<1>11. SubSeq(u, j, n) = t /\ Len(t) = n - j + 1
  <2>1. /\ s \in Seq(R) /\ Len(s) = j - 1 /\ t \in Seq(R) /\ Len(t) \in Nat
        /\ u = s \o t /\ Len(u) = n /\ j \in 1..n /\ n \in Nat
    BY <1>8, <1>10, <1>2, <1>1
  <2> HIDE DEF s, t, u, n
  <2>2. Len(t) = n - j + 1
    <3>1. Len(s \o t) = Len(s) + Len(t)
      BY <2>1
    <3>2. n = (j - 1) + Len(t)
      BY <2>1, <3>1
    <3> QED
      BY <2>1, <3>2
  <2>3. SubSeq(u, j, n) \in Seq(R) /\ Len(SubSeq(u, j, n)) = n - j + 1
    BY <2>1
  <2>4. ASSUME NEW k \in 1..(n - j + 1) PROVE SubSeq(u, j, n)[k] = t[k]
    <3>1. SubSeq(u, j, n)[k] = u[j + k - 1]
      BY <2>1
    <3>2. u[j + k - 1] = t[k]
      BY <2>1, <2>2
    <3> QED
      BY <3>1, <3>2
  <2> QED
    BY <2>1, <2>2, <2>3, <2>4
<1>12. A = R <=> j = 1
  <2>1. j = 1 <=> Len(s) = 0
    BY <1>10, <1>2, <1>1
  <2>2. Len(s) = 0 <=> B = {}
    BY <1>7, InOrderEmpty
  <2>3. B = {} <=> A = R
    <3>1. \A x \in B : x \notin A
      <4> HIDE DEF at
      <4> QED
        BY <1>3, <1>4
    <3> QED
      BY <3>1, <1>5
  <2> QED
    BY <2>1, <2>2, <2>3
<1> HIDE DEF A
<1> QED
  BY <1>5, <1>6, <1>11, <1>12, <1>2

LEMMA MaxOfTwo ==
    ASSUME NEW x \in Int, NEW y \in Int
    PROVE  Max({x, y}) = IF x >= y THEN x ELSE y
<1> DEFINE m == IF x >= y THEN x ELSE y
<1>1. m \in {x, y} /\ \A z \in {x, y} : m >= z
  OBVIOUS
<1>2. \A w \in {x, y} : (\A z \in {x, y} : w >= z) => w = m
  OBVIOUS
<1> HIDE DEF m
<1>3. Max({x, y}) = m
  BY <1>1, <1>2 DEF Max
<1> QED
  BY <1>3 DEF m

\* What is selected of rows that are in order: the rows of a tail of them, all
\* of them if none is left, and none only if there is none.
LEMMA SelectedIs ==
    ASSUME NEW R, Apart(R)
    PROVE  \E A \in SUBSET R :
              /\ UpperRows(A, R)
              /\ Selected(InOrder(R)) = InOrder(A)
              /\ A = {} => R = {}
              /\ Len(Selected(InOrder(R))) < Len(InOrder(R)) <=> A # R
<1> DEFINE s == InOrder(R)
           n == Len(s)
           j == Max({1, n - PageSize + 1})
<1>1. s \in Seq(R) /\ n \in Nat
  BY InOrderIs
<1>2. j = IF 1 >= n - PageSize + 1 THEN 1 ELSE n - PageSize + 1
  <2>1. n - PageSize + 1 \in Int
    BY <1>1, PageBounds
  <2> HIDE DEF s, n
  <2> QED
    BY <2>1, MaxOfTwo
<1>3. Selected(s) = SubSeq(s, j, n)
  BY DEF Selected
<1>4. CASE R = {}
  <2>1. s = <<>> /\ n = 0
    BY <1>4, InOrderEmpty
  <2>2. j = 1
    BY <1>2, <2>1, PageBounds
  <2> HIDE DEF j
  <2>3. Selected(s) = <<>>
    BY <1>3, <2>1, <2>2
  <2>4. UpperRows({}, R) /\ {} \in SUBSET R
    BY DEF UpperRows
  <2>5. Selected(s) = InOrder({})
    BY <2>3, InOrderOfNone
  <2>6. Len(Selected(s)) = 0
    BY <2>3
  <2> HIDE DEF s, n
  <2>7. ~(Len(Selected(s)) < Len(s))
    BY <2>1, <2>6 DEF n
  <2> QED
    BY <2>4, <2>5, <2>7, <1>4 DEF s
<1>5. CASE R # {}
  <2>1. n # 0
    BY <1>5, InOrderEmpty
  <2>2. j \in 1..n
    <3> HIDE DEF j, n
    <3> QED
      BY <2>1, <1>1, <1>2, PageBounds
  <2> HIDE DEF j
  <2>3. PICK A \in SUBSET R :
              /\ UpperRows(A, R)
              /\ A # {}
              /\ SubSeq(s, j, n) = InOrder(A)
              /\ A = R <=> j = 1
              /\ Len(InOrder(A)) = n - j + 1
    BY <2>2, InOrderFrom
  <2>4. Len(Selected(s)) < n <=> j # 1
    <3> HIDE DEF s, n
    <3> QED
      BY <2>3, <1>3, <2>2, <1>1
  <2> QED
    BY <2>3, <2>4, <1>3
<1> QED
  BY <1>4, <1>5

-----------------------------------------------------------------------------
(* The rows of a view, and its pages *)

LEMMA FirstOf ==
    ASSUME NEW R, Apart(R), R # {}
    PROVE  /\ InOrder(R) # <<>>
           /\ InOrder(R)[1] \in R
           /\ \A x \in R : InOrder(R)[1].sequence <= x.sequence
<1> DEFINE s == InOrder(R)
           n == Len(s)
<1>1. s \in Seq(R) /\ n \in Nat /\ n # 0 /\ s # <<>>
  BY InOrderIs, InOrderEmpty
<1>2. s[1] \in R
  <2> HIDE DEF s
  <2> QED
    BY <1>1 DEF n
<1>3. ASSUME NEW x \in R PROVE s[1].sequence <= x.sequence
  <2>1. PICK k \in 1..n : s[k] = x
    BY InOrderCovers
  <2>2. 1 \in 1..n
    BY <1>1
  <2>3. CASE k = 1
    <3>1. x.sequence \in Nat
      BY DEF Apart
    <3> QED
      BY <2>1, <2>3, <3>1
  <2>4. CASE k # 1
    <3>1. 1 < k
      BY <2>4
    <3>2. s[1].sequence < s[k].sequence
      BY <2>2, <3>1, InOrderGrows
    <3>3. s[1].sequence \in Nat /\ x.sequence \in Nat
      BY <1>2 DEF Apart
    <3> HIDE DEF s
    <3> QED
      BY <2>1, <3>2, <3>3
  <2> QED
    BY <2>3, <2>4
<1> QED
  BY <1>1, <1>2, <1>3

LEMMA RowSequenceIs ==
    ASSUME NEW v \in Views, NEW n \in Nat,
           NEW i \in RowNodes(v, n), NEW j \in RowNodes(v, n)
    PROVE  /\ RowSequence(v, i, n) \in 1..n
           /\ RowSequence(v, i, n) = RowSequence(v, j, n) => i = j
<1> DEFINE Ended(k) == v = "agent" /\ k \in DOMAIN ToolEnd /\ ToolEnd[k] <= n
<1>1. \A k : RowSequence(v, k, n) = IF Ended(k) THEN ToolEnd[k] ELSE k
  BY DEF RowSequence
<1>2. /\ i \in 1..n /\ j \in 1..n
      /\ v = "agent" => i \notin Range(ToolEnd) /\ j \notin Range(ToolEnd)
  BY DEF RowNodes
<1>3. \A k : Ended(k) => ToolEnd[k] \in Range(ToolEnd) /\ ToolEnd[k] \in 1..n
                         /\ k \in DOMAIN ToolEnd
  <2>1. \A k \in DOMAIN ToolEnd : ToolEnd[k] \in Nat /\ k \in Nat /\ k < ToolEnd[k]
    BY PageBounds
  <2>2. \A k \in DOMAIN ToolEnd : ToolEnd[k] \in Range(ToolEnd)
    BY DEF Range
  <2> QED
    BY <2>1, <2>2
<1>4. \A k : Ended(k) => v = "agent"
  OBVIOUS
<1> HIDE DEF Ended
<1>5. RowSequence(v, i, n) \in 1..n
  BY <1>1, <1>2, <1>3
<1>6. RowSequence(v, i, n) = RowSequence(v, j, n) => i = j
  BY <1>1, <1>2, <1>3, <1>4, ToolsEndApart
<1> QED
  BY <1>5, <1>6

LEMMA RowSetIs ==
    ASSUME NEW r \in Runs, NEW v \in Views, NEW f \in Filters, NEW n \in Nat
    PROVE  LET R == RowSet(r, v, f, n)
           IN  /\ R \in SUBSET RowType
               /\ Apart(R)
               /\ \A x, y \in R : x.id = y.id => x = y
               /\ \A x \in R : /\ x.run = r /\ x.view = v /\ x.filter = f
                               /\ x.sequence \in 1..n
<1> DEFINE R == RowSet(r, v, f, n)
           Row(i) == RowAt(r, v, f, n, i)
           I == {j \in RowNodes(v, n) : Matches(f, j)}
<1>1. R = {Row(i) : i \in I} /\ I \in SUBSET RowNodes(v, n) /\ I \in SUBSET Nat
  BY DEF RowSet, RowNodes
<1>2. \A i \in I : /\ Row(i).run = r /\ Row(i).view = v /\ Row(i).filter = f
                   /\ Row(i).id = i /\ Row(i).sequence = RowSequence(v, i, n)
                   /\ Row(i) = [run |-> r, view |-> v, filter |-> f, id |-> i,
                                sequence |-> RowSequence(v, i, n)]
  BY DEF RowAt
<1>3. \A i \in I : RowSequence(v, i, n) \in 1..n
  BY <1>1, RowSequenceIs
<1>4. \A i, j \in I : RowSequence(v, i, n) = RowSequence(v, j, n) => i = j
  BY <1>1, RowSequenceIs
<1> HIDE DEF Row, I, R
<1>5. ASSUME NEW x \in R
      PROVE  /\ x \in RowType /\ x.run = r /\ x.view = v /\ x.filter = f
             /\ x.sequence \in 1..n
  <2>1. PICK i \in I : x = Row(i)
    BY <1>1
  <2>2. i \in Nat /\ RowSequence(v, i, n) \in 1..n
    BY <1>1, <1>3
  <2>3. Row(i) \in RowType
    BY <1>2, <2>2 DEF RowType
  <2> QED
    BY <1>2, <2>1, <2>2, <2>3
<1>6. ASSUME NEW x \in R, NEW y \in R
      PROVE  /\ x.id = y.id => x = y
             /\ x.sequence = y.sequence => x = y
  <2>1. PICK i \in I : x = Row(i)
    BY <1>1
  <2>2. PICK j \in I : y = Row(j)
    BY <1>1
  <2> QED
    BY <1>2, <1>4, <2>1, <2>2
<1>7. IsFiniteSet(SequencesIn(R))
  <2>1. SequencesIn(R) \in SUBSET (1..n)
    BY <1>5 DEF SequencesIn
  <2>2. IsFiniteSet(1..n)
    BY FS_Interval
  <2> QED
    BY <2>1, <2>2, FS_Subset
<1>8. Apart(R)
  <2>1. \A x \in R : x.sequence \in Nat
    BY <1>5
  <2> QED
    BY <2>1, <1>6, <1>7 DEF Apart
<1> QED
  BY <1>5, <1>6, <1>8 DEF R

\* A page: a tail of the rows before its cursor, and the cursor of what is left.
LEMMA PageIs ==
    ASSUME NEW r \in Runs, NEW v \in Views, NEW f \in Filters, NEW n \in Nat,
           NEW fingerprint \in Nat, NEW cursor
    PROVE  LET p == Page(r, v, f, n, fingerprint, cursor)
               R == Available(RowSet(r, v, f, n), cursor)
           IN  /\ p \in PageType
               /\ p.run = r
               /\ \E A \in SUBSET R :
                     /\ UpperRows(A, R)
                     /\ p.items = InOrder(A)
                     /\ A = {} => R = {}
                     /\ A = R => p.older = None
                     /\ A # R => /\ p.older = Cursor(r, v, f, fingerprint,
                                                     InOrder(A)[1].sequence)
                                 /\ p.older \in CursorType
<1> DEFINE p == Page(r, v, f, n, fingerprint, cursor)
           R == Available(RowSet(r, v, f, n), cursor)
           s == InOrder(R)
<1>1. R \in SUBSET RowSet(r, v, f, n)
  BY DEF Available
<1>2. R \in SUBSET RowType /\ Apart(R)
  BY <1>1, RowSetIs, SomeApart
<1>3. PICK A \in SUBSET R :
         /\ UpperRows(A, R)
         /\ Selected(s) = InOrder(A)
         /\ A = {} => R = {}
         /\ Len(Selected(s)) < Len(s) <=> A # R
  <2> HIDE DEF R
  <2> QED
    BY <1>2, SelectedIs
<1>4. /\ p.run = r
      /\ p.items = Selected(s)
      /\ p.older = IF Len(Selected(s)) < Len(s)
                   THEN Cursor(r, v, f, fingerprint, Selected(s)[1].sequence) ELSE None
      /\ p = [run |-> p.run, items |-> p.items, older |-> p.older]
  BY DEF Page
<1> HIDE DEF p, R, s
<1>5. /\ p.items = InOrder(A)
      /\ A = R => p.older = None
      /\ A # R => p.older = Cursor(r, v, f, fingerprint, InOrder(A)[1].sequence)
  BY <1>3, <1>4
<1>6. ASSUME A # R PROVE p.older \in CursorType
  <2>1. A # {} /\ Apart(A)
    BY <1>3, <1>6, <1>2, SomeApart
  <2>2. InOrder(A)[1] \in RowType
    BY <2>1, <1>2, FirstOf
  <2>3. InOrder(A)[1].sequence \in Nat
    BY <2>2 DEF RowType
  <2> QED
    BY <1>5, <1>6, <2>3 DEF Cursor, CursorType
<1>7. p \in PageType
  <2>1. InOrder(A) \in Seq(A)
    BY <1>2, SomeApart, InOrderIs
  <2>2. p.items \in Seq(RowType)
    BY <2>1, <1>2, <1>5
  <2>3. p.older \in CursorType \cup {None}
    BY <1>5, <1>6
  <2> QED
    BY <1>4, <2>2, <2>3 DEF PageType
<1> QED
  BY <1>3, <1>4, <1>5, <1>6, <1>7 DEF p, R

-----------------------------------------------------------------------------
(* Older rows before the rows that are there *)

LEMMA IdsOf ==
    ASSUME NEW R, Apart(R)
    PROVE  Ids(InOrder(R)) = {x.id : x \in R}
<1> DEFINE s == InOrder(R)
<1>1. /\ s \in Seq(R) /\ Len(s) \in Nat /\ DOMAIN s = 1..Len(s)
      /\ \A k \in 1..Len(s) : s[k] \in R
  BY InOrderIs
<1>2. \A x \in R : \E k \in 1..Len(s) : s[k] = x
  BY InOrderCovers
<1> HIDE DEF s
<1>3. Ids(s) = {x.id : x \in R}
  BY <1>1, <1>2 DEF Ids
<1> QED
  BY <1>3 DEF s

LEMMA AllPlaces ==
    ASSUME NEW T, NEW s \in Seq(T)
    PROVE  AtPlaces(s, DOMAIN s) = s
<1>1. DOMAIN s = 1..Len(s) /\ Len(s) \in Nat
  OBVIOUS
<1>2. Cardinality(1..Len(s)) = Len(s)
  BY <1>1, FS_Interval
<1>3. \A k \in 1..Len(s) : Nth(1..Len(s), k) = k
  BY <1>1, NthOfInterval
<1>4. AtPlaces(s, DOMAIN s) = [k \in 1..Len(s) |-> s[k]]
  BY <1>1, <1>2, <1>3 DEF AtPlaces
<1> QED
  BY <1>1, <1>4

\* Rows below others, and both of a set that has no id twice.
LEMMA Prepending ==
    ASSUME NEW R, Apart(R), \A x, y \in R : x.id = y.id => x = y,
           NEW A \in SUBSET R, NEW B \in SUBSET R,
           \A x \in A, y \in B : x.sequence < y.sequence
    PROVE  /\ InOrder(A \cup B) = InOrder(A) \o InOrder(B)
           /\ PrependOperational(InOrder(A), InOrder(B)) = InOrder(A \cup B)
           /\ PrependBusiness(InOrder(A), InOrder(B)) = InOrder(A \cup B)
<1> DEFINE s == InOrder(A)
           t == InOrder(B)
<1>1. Apart(A) /\ Apart(B)
  BY SomeApart
<1>2. InOrder(A \cup B) = s \o t
  BY <1>1, InOrderOfBoth
<1>3. Ids(s) = {x.id : x \in A} /\ Ids(t) = {x.id : x \in B}
  BY <1>1, IdsOf
<1>4. A \cap B = {}
  <2>1. \A x \in R : ~(x.sequence < x.sequence)
    BY DEF Apart
  <2> QED
    BY <2>1
<1>5. (\A x \in A : x.id \notin Ids(t)) /\ (\A x \in B : x.id \notin Ids(s))
  BY <1>3, <1>4
<1>6. /\ s \in Seq(A) /\ Len(s) \in Nat /\ DOMAIN s = 1..Len(s)
      /\ \A k \in DOMAIN s : s[k] \in A
      /\ t \in Seq(B) /\ Len(t) \in Nat /\ DOMAIN t = 1..Len(t)
      /\ \A k \in DOMAIN t : t[k] \in B
  BY <1>1, InOrderIs
<1>7. ToSet(s) = A /\ ToSet(t) = B
  <2>1. (\A x \in A : \E k \in 1..Len(s) : s[k] = x)
        /\ (\A x \in B : \E k \in 1..Len(t) : t[k] = x)
    BY <1>1, InOrderCovers
  <2> HIDE DEF s, t
  <2>2. ToSet(s) = {s[k] : k \in 1..Len(s)} /\ ToSet(t) = {t[k] : k \in 1..Len(t)}
    BY <1>6 DEF ToSet
  <2>3. ToSet(s) = A
    BY <2>1, <2>2, <1>6
  <2>4. ToSet(t) = B
    BY <2>1, <2>2, <1>6
  <2> QED
    BY <2>3, <2>4
<1> HIDE DEF s, t
<1>8. PrependOperational(s, t) = s \o t
  <2> DEFINE place(row) == CHOOSE i \in DOMAIN t : t[i].id = row.id
             later(row) == IF row.id \in Ids(t) THEN t[place(row)] ELSE row
             I == {i \in DOMAIN t : t[i].id \notin Ids(s)}
  <2>1. PrependOperational(s, t) = [i \in DOMAIN s |-> later(s[i])] \o AtPlaces(t, I)
    BY DEF PrependOperational
  <2>2. \A i \in DOMAIN s : later(s[i]) = s[i]
    BY <1>5, <1>6
  <2>3. I = DOMAIN t
    BY <1>5, <1>6
  <2> HIDE DEF place, later, I
  <2>4. AtPlaces(t, I) = t
    BY <2>3, <1>6, AllPlaces
  <2>5. [i \in DOMAIN s |-> later(s[i])] = s
    BY <2>2, <1>6
  <2> QED
    BY <2>1, <2>4, <2>5
<1>9. PrependBusiness(s, t) = InOrder(A \cup B)
  <2>1. {row \in ToSet(t) : row.id \notin Ids(s)} = B
    BY <1>5, <1>7
  <2> QED
    BY <2>1, <1>7 DEF PrependBusiness
<1> QED
  BY <1>2, <1>8, <1>9 DEF s, t

\* Whatever is prepended to what, every row is of one of the two.
LEMMA PlacesAre ==
    ASSUME NEW T, NEW s \in Seq(T), NEW I \in SUBSET DOMAIN s
    PROVE  /\ AtPlaces(s, I) \in Seq(T)
           /\ \A k \in DOMAIN AtPlaces(s, I) :
                 \E i \in DOMAIN s : AtPlaces(s, I)[k] = s[i]
<1>1. DOMAIN s = 1..Len(s) /\ Len(s) \in Nat /\ \A i \in DOMAIN s : s[i] \in T
  OBVIOUS
<1>2. I \in SUBSET Int /\ IsFiniteSet(I) /\ Cardinality(I) \in Nat
  <2>1. IsFiniteSet(1..Len(s)) /\ I \in SUBSET (1..Len(s))
    BY <1>1, FS_Interval
  <2>2. IsFiniteSet(I)
    BY <2>1, FS_Subset
  <2> QED
    BY <2>1, <2>2, FS_CardinalityType
<1>3. \A k \in 1..Cardinality(I) : Nth(I, k) \in I
  BY <1>2, NthIs
<1> DEFINE m == Cardinality(I)
           u == AtPlaces(s, I)
<1>4. u = [k \in 1..m |-> s[Nth(I, k)]]
  BY DEF AtPlaces
<1> HIDE DEF m, u
<1>5. u \in [1..m -> T] /\ DOMAIN u = 1..m /\ m \in Nat
  BY <1>1, <1>2, <1>3, <1>4 DEF m
<1>6. \A k \in DOMAIN u : \E i \in DOMAIN s : u[k] = s[i]
  BY <1>3, <1>4, <1>5 DEF m
<1> QED
  BY <1>5, <1>6 DEF u

LEMMA OperationalRows ==
    ASSUME NEW T, NEW s \in Seq(T), NEW t \in Seq(T)
    PROVE  LET u == PrependOperational(s, t)
           IN  /\ u \in Seq(T)
               /\ Len(u) >= Len(s)
               /\ \A k \in DOMAIN u : \/ \E i \in DOMAIN s : u[k] = s[i]
                                      \/ \E i \in DOMAIN t : u[k] = t[i]
<1> DEFINE place(row) == CHOOSE i \in DOMAIN t : t[i].id = row.id
           later(row) == IF row.id \in Ids(t) THEN t[place(row)] ELSE row
           I == {i \in DOMAIN t : t[i].id \notin Ids(s)}
           p == [i \in DOMAIN s |-> later(s[i])]
           q == AtPlaces(t, I)
           u == PrependOperational(s, t)
<1>1. u = p \o q
  BY DEF PrependOperational
<1>2. \A row : row.id \in Ids(t) => place(row) \in DOMAIN t
  BY DEF Ids
<1>3. ASSUME NEW i \in DOMAIN s
      PROVE  later(s[i]) = s[i] \/ \E j \in DOMAIN t : later(s[i]) = t[j]
  <2>1. CASE s[i].id \in Ids(t)
    <3>1. place(s[i]) \in DOMAIN t
      BY <1>2, <2>1
    <3>2. later(s[i]) = t[place(s[i])]
      BY <2>1
    <3> QED
      BY <3>1, <3>2
  <2>2. CASE s[i].id \notin Ids(t)
    BY <2>2
  <2> QED
    BY <2>1, <2>2
<1>4. I \in SUBSET DOMAIN t
  OBVIOUS
<1> HIDE DEF place, later, I, u
<1>5. /\ DOMAIN s = 1..Len(s) /\ Len(s) \in Nat /\ DOMAIN t = 1..Len(t)
      /\ \A i \in DOMAIN s : s[i] \in T
      /\ \A i \in DOMAIN t : t[i] \in T
  OBVIOUS
<1>6. /\ p \in Seq(T) /\ Len(p) = Len(s)
      /\ \A k \in 1..Len(p) : \/ \E i \in DOMAIN s : p[k] = s[i]
                              \/ \E i \in DOMAIN t : p[k] = t[i]
  <2>1. p \in [1..Len(s) -> T]
    BY <1>3, <1>5
  <2>2. p \in Seq(T) /\ Len(p) = Len(s)
    <3> HIDE DEF p
    <3> QED
      BY <2>1, <1>5
  <2> QED
    BY <2>2, <1>3, <1>5
<1>7. /\ q \in Seq(T)
      /\ \A k \in DOMAIN q : \E i \in DOMAIN t : q[k] = t[i]
  BY <1>4, PlacesAre
<1> HIDE DEF p, q
<1>8. u \in Seq(T) /\ Len(u) >= Len(s) /\ DOMAIN u = 1..Len(u)
      /\ Len(u) = Len(p) + Len(q) /\ DOMAIN q = 1..Len(q) /\ Len(q) \in Nat
  BY <1>1, <1>5, <1>6, <1>7
<1>9. ASSUME NEW k \in 1..Len(u)
      PROVE  \/ \E i \in DOMAIN s : u[k] = s[i]
             \/ \E i \in DOMAIN t : u[k] = t[i]
  <2>1. CASE k <= Len(p)
    <3>1. k \in 1..Len(p) /\ u[k] = p[k]
      BY <2>1, <1>1, <1>5, <1>6, <1>7
    <3> QED
      BY <3>1, <1>6
  <2>2. CASE k > Len(p)
    <3>1. k - Len(p) \in DOMAIN q /\ u[k] = q[k - Len(p)]
      BY <2>2, <1>1, <1>5, <1>6, <1>7, <1>8
    <3> QED
      BY <3>1, <1>7
  <2>3. k <= Len(p) \/ k > Len(p)
    BY <1>5, <1>6
  <2> QED
    BY <2>1, <2>2, <2>3
<1> QED
  BY <1>8, <1>9 DEF u

LEMMA SequencesOf ==
    ASSUME NEW s \in Seq(RowType)
    PROVE  SequencesIn(ToSet(s)) \in SUBSET Int /\ IsFiniteSet(SequencesIn(ToSet(s)))
<1> DEFINE n == Len(s)
           S == SequencesIn(ToSet(s))
           f == [k \in 1..n |-> s[k].sequence]
<1>1. n \in Nat /\ DOMAIN s = 1..n /\ \A k \in 1..n : s[k] \in RowType
  OBVIOUS
<1>2. \A k \in 1..n : s[k].sequence \in Int
  BY <1>1 DEF RowType
<1>3. ToSet(s) = {s[k] : k \in 1..n}
  BY <1>1 DEF ToSet
<1>4. S = {s[k].sequence : k \in 1..n}
  BY <1>3 DEF SequencesIn
<1> HIDE DEF S, n
<1>5. f \in Surjection(1..n, S)
  BY <1>4 DEF Surjection
<1>6. IsFiniteSet(1..n)
  BY <1>1, FS_Interval
<1>7. IsFiniteSet(S)
  BY <1>5, <1>6, FS_Surjection
<1> QED
  BY <1>2, <1>4, <1>7 DEF S

LEMMA BusinessRows ==
    ASSUME NEW s \in Seq(RowType), NEW t \in Seq(RowType)
    PROVE  LET u == PrependBusiness(s, t)
           IN  /\ u \in Seq(RowType)
               /\ \A k \in DOMAIN u : \/ \E i \in DOMAIN s : u[k] = s[i]
                                      \/ \E i \in DOMAIN t : u[k] = t[i]
<1> DEFINE A == ToSet(s)
           B == {row \in ToSet(t) : row.id \notin Ids(s)}
           R == A \cup B
           u == PrependBusiness(s, t)
<1>1. u = InOrder(R)
  BY DEF PrependBusiness
<1>2. /\ \A x \in A : x \in RowType /\ \E i \in DOMAIN s : x = s[i]
      /\ \A x \in ToSet(t) : x \in RowType /\ \E i \in DOMAIN t : x = t[i]
  BY DEF ToSet
<1>3. SequencesIn(R) \in SUBSET Int /\ IsFiniteSet(SequencesIn(R))
  <2>1. SequencesIn(R) \in SUBSET (SequencesIn(A) \cup SequencesIn(ToSet(t)))
    BY DEF SequencesIn
  <2>2. /\ SequencesIn(A) \in SUBSET Int /\ IsFiniteSet(SequencesIn(A))
        /\ SequencesIn(ToSet(t)) \in SUBSET Int /\ IsFiniteSet(SequencesIn(ToSet(t)))
    BY SequencesOf
  <2>3. IsFiniteSet(SequencesIn(A) \cup SequencesIn(ToSet(t)))
    BY <2>2, FS_Union
  <2> QED
    BY <2>1, <2>2, <2>3, FS_Subset
<1>4. InOrder(R) \in Seq(R)
  BY <1>3, InOrderRows
<1>5. \A x \in R : /\ x \in RowType
                   /\ \/ \E i \in DOMAIN s : x = s[i]
                      \/ \E i \in DOMAIN t : x = t[i]
  BY <1>2
<1> HIDE DEF R, u
<1>6. u \in Seq(R) /\ \A k \in DOMAIN u : u[k] \in R
  BY <1>1, <1>4
<1>7. u \in Seq(RowType)
  BY <1>5, <1>6
<1> QED
  BY <1>5, <1>6, <1>7 DEF u

-----------------------------------------------------------------------------
(* Whose rows a list has, and from where on *)

\* What a request remembers and what has been read for it.
Asks(q) ==
    /\ q.filter \in Filters
    /\ q.is_new \in BOOLEAN
    /\ q.read \in (1..MaxEvents) \cup {None}
    /\ q.fingerprint \in (1..MaxEvents) \cup {None}
    /\ q.fingerprint # None => q.read # None

PagesTypeOK ==
    /\ events \in [Runs -> 1..MaxEvents]
    /\ filter \in [Operational -> Filters]
    /\ base_key = [v \in Operational |-> base_key[v]]
    /\ merged \in [Views -> BOOLEAN]
    /\ raced \in [Views -> BOOLEAN]

ListTyped(v) ==
    /\ list[v].items \in Seq(RowType)
    /\ list[v].page \in PageType \cup {None}
    /\ list[v].failed \in CursorType \cup {None}

AsksTyped(v) ==
    /\ Underway(base[v]) => Asks(base[v]) /\ base[v].cursor = None
    /\ Underway(older[v]) => Asks(older[v]) /\ older[v].cursor \in CursorType

\* The rows of an operational view, and the requests that will change them,
\* are of the run and the filter of its base key; the business view has no
\* filters.
OwnKey(v) ==
    IF v \in Operational
    THEN /\ \A i \in DOMAIN list[v].items :
               base_key[v] = Key(list[v].items[i].run, list[v].items[i].filter, None)
         /\ Underway(base[v]) => base_key[v] = Key(base[v].run, base[v].filter, None)
         /\ Underway(older[v]) => base_key[v] = Key(older[v].run, older[v].filter, None)
    ELSE /\ \A i \in DOMAIN list[v].items : list[v].items[i].filter = "all"
         /\ Underway(base[v]) => base[v].filter = "all"
         /\ Underway(older[v]) => older[v].filter = "all"

\* Older rows are asked for by the key that is live, and only for a list that
\* has rows; a list with a page has rows, unless there are none.
OlderLast(v) ==
    v \in Operational =>
        /\ Underway(older[v]) => Wanted(older[v]) /\ list[v].items # <<>>
        /\ list[v].page = None => list[v].items = <<>>
        /\ (list[v].page # None /\ list[v].page.older # None) => list[v].items # <<>>

\* The cursor of the older rows that are under way, or failed, is the page's,
\* unless the list was refreshed since.
CursorKept(v) ==
    ~merged[v] /\ list[v].items # <<>> =>
        /\ Underway(older[v]) => older[v].cursor = list[v].page.older
        /\ list[v].failed # None => list[v].failed = list[v].page.older

\* The rows are the end of a view of n events, and its page's cursor, made
\* when there were k events, cuts both views at their first row.
EndOf(v, items, page) ==
    items # <<>> =>
        \E n, k \in 1..MaxEvents :
           LET R == RowSet(items[1].run, v, items[1].filter, n)
               K == RowSet(items[1].run, v, items[1].filter, k)
           IN  \E B \in SUBSET R :
                  /\ UpperRows(B, R)
                  /\ items = InOrder(B)
                  /\ page.older = None => B = R
                  /\ page.older # None =>
                        /\ page.older = Cursor(items[1].run, v, items[1].filter, k,
                                               items[1].sequence)
                        /\ R \ B = {x \in K : x.sequence < items[1].sequence}

EndKept(v) == ~merged[v] /\ ~raced[v] => EndOf(v, list[v].items, list[v].page)

Content(v) == ListTyped(v) /\ AsksTyped(v) /\ OwnKey(v) /\ OlderLast(v)
              /\ CursorKept(v) /\ EndKept(v)

\* What is open has the key of what is chosen, once its effect has run.
Choice(v) ==
    IF v \in Operational
    THEN v \notin due /\ v = view /\ selected # None => base_key[v] = BaseKey(v)
    ELSE v \notin due \/ selected = None =>
            \A i \in DOMAIN list[v].items : list[v].items[i].run = selected

PagesInv == PagesTypeOK /\ \A v \in Views : Content(v) /\ Choice(v)

\* Rows of which one is the first, and the rows below it.
LEMMA RowsBelow ==
    ASSUME NEW R, Apart(R), NEW A, UpperRows(A, R), A # {}
    PROVE  /\ InOrder(A) # <<>>
           /\ InOrder(A)[1] \in A
           /\ R \ A = {x \in R : x.sequence < InOrder(A)[1].sequence}
           /\ \A x \in R \ A, y \in A : x.sequence < y.sequence
<1> DEFINE b == InOrder(A)[1]
<1>1. A \in SUBSET R /\ Apart(A)
  BY SomeApart DEF UpperRows
<1>2. InOrder(A) # <<>> /\ b \in A /\ \A y \in A : b.sequence <= y.sequence
  BY <1>1, FirstOf
<1>3. \A x \in R : x.sequence \in Nat
  BY DEF Apart
<1> HIDE DEF b
<1>4. \A x \in R, y \in A : y.sequence <= x.sequence => x \in A
  BY DEF UpperRows
<1>5. \A x \in R \ A, y \in A : x.sequence < y.sequence
  BY <1>1, <1>3, <1>4
<1>6. R \ A = {x \in R : x.sequence < b.sequence}
  <2>1. \A x \in A : ~(x.sequence < b.sequence)
    BY <1>1, <1>2, <1>3
  <2> QED
    BY <1>1, <1>2, <1>5, <2>1
<1> QED
  BY <1>2, <1>5, <1>6 DEF b

\* Where the rows of a view end, all of them are there.
LEMMA EndIs ==
    ASSUME NEW v \in Views, NEW r \in Runs, NEW f \in Filters,
           NEW n \in 1..MaxEvents, NEW k \in 1..MaxEvents,
           NEW B \in SUBSET RowSet(r, v, f, n), B # {},
           UpperRows(B, RowSet(r, v, f, n)),
           NEW page,
           page.older = None => B = RowSet(r, v, f, n),
           page.older # None =>
              page.older = Cursor(r, v, f, k, InOrder(B)[1].sequence),
           page.older # None =>
              RowSet(r, v, f, n) \ B
              = {x \in RowSet(r, v, f, k) : x.sequence < InOrder(B)[1].sequence}
    PROVE  EndOf(v, InOrder(B), page)
<1> DEFINE s == InOrder(B)
<1>1. Apart(B) /\ \A x \in B : x.run = r /\ x.filter = f
  <2>1. n \in Nat
    BY PageBounds
  <2> QED
    BY <2>1, RowSetIs, SomeApart
<1>2. s[1] \in B
  BY <1>1, FirstOf
<1>3. s[1].run = r /\ s[1].filter = f
  BY <1>1, <1>2
<1> HIDE DEF s
<1>4. LET R == RowSet(s[1].run, v, s[1].filter, n)
          K == RowSet(s[1].run, v, s[1].filter, k)
      IN  /\ B \in SUBSET R
          /\ UpperRows(B, R)
          /\ page.older = None => B = R
          /\ page.older # None =>
                /\ page.older = Cursor(s[1].run, v, s[1].filter, k, s[1].sequence)
                /\ R \ B = {x \in K : x.sequence < s[1].sequence}
  BY <1>3 DEF s
<1>5. s = InOrder(B)
  BY DEF s
<1>6. EndOf(v, s, page)
  BY <1>4, <1>5 DEF EndOf
<1> QED
  BY <1>5, <1>6

LEMMA FirstTyped ==
    ASSUME NEW T, NEW s \in Seq(T), s # <<>>
    PROVE  s[1] \in T
<1>1. Len(s) \in Nat /\ Len(s) # 0
  OBVIOUS
<1> QED
  BY <1>1

\* The newest page is the end of its view.
LEMMA EndOfNewest ==
    ASSUME NEW v \in Views, NEW r \in Runs, NEW f \in Filters, NEW n \in 1..MaxEvents
    PROVE  LET p == Page(r, v, f, n, n, None) IN EndOf(v, p.items, p)
<1> DEFINE p == Page(r, v, f, n, n, None)
           R == RowSet(r, v, f, n)
<1>0. n \in Nat
  BY PageBounds
<1>1. Available(R, None) = R
  BY DEF Available
<1>2. PICK A \in SUBSET R :
         /\ UpperRows(A, R)
         /\ p.items = InOrder(A)
         /\ A = {} => R = {}
         /\ A = R => p.older = None
         /\ A # R => p.older = Cursor(r, v, f, n, InOrder(A)[1].sequence)
  BY <1>0, <1>1, PageIs
<1>3. Apart(R)
  BY <1>0, RowSetIs
<1> HIDE DEF p
<1>4. ASSUME A = {} PROVE EndOf(v, p.items, p)
  BY <1>2, <1>4, InOrderOfNone DEF EndOf
<1>5. ASSUME A # {} PROVE EndOf(v, p.items, p)
  <2>1. A # R => R \ A = {x \in R : x.sequence < InOrder(A)[1].sequence}
    BY <1>2, <1>3, <1>5, RowsBelow
  <2>2. p.older = None => A = R
    <3>1. ASSUME A # R PROVE p.older # None
      <4>1. p.older \in CursorType
        <5>1. InOrder(A)[1].sequence \in Nat
          BY <1>2, <1>3, <1>5, RowsBelow DEF Apart
        <5> QED
          BY <1>0, <1>2, <3>1, <5>1 DEF Cursor, CursorType
      <4> QED
        BY <4>1, NoneApart
    <3> QED
      BY <3>1
  <2>3. p.older # None => A # R
    BY <1>2
  <2> HIDE DEF R
  <2>4. EndOf(v, InOrder(A), p)
    BY <1>2, <1>5, <2>1, <2>2, <2>3, EndIs DEF R
  <2> QED
    BY <1>2, <2>4
<1> QED
  BY <1>4, <1>5 DEF p

\* The page its cursor leads to is put before the end of a view: what was cut
\* off there is what the page is cut from.
LEMMA EndOfOlder ==
    ASSUME NEW v \in Views, NEW items \in Seq(RowType), items # <<>>,
           NEW page, EndOf(v, items, page), page.older # None,
           NEW r \in Runs, NEW f \in Filters, NEW n \in 1..MaxEvents,
           Accepts(page.older, r, v, f, n)
    PROVE  LET p == Page(r, v, f, n, n, page.older)
           IN  /\ EndOf(v, PrependOperational(p.items, items), p)
               /\ EndOf(v, PrependBusiness(p.items, items), p)
<1> DEFINE p == Page(r, v, f, n, n, page.older)
           b == items[1].sequence
<1>1. items[1] \in RowType
  BY FirstTyped
<1>2. PICK m \in 1..MaxEvents, k \in 1..MaxEvents :
         LET R == RowSet(items[1].run, v, items[1].filter, m)
             K == RowSet(items[1].run, v, items[1].filter, k)
         IN  \E B \in SUBSET R :
                /\ UpperRows(B, R)
                /\ items = InOrder(B)
                /\ page.older = Cursor(items[1].run, v, items[1].filter, k, b)
                /\ R \ B = {x \in K : x.sequence < b}
  BY DEF EndOf
<1>3. /\ page.older = Cursor(items[1].run, v, items[1].filter, k, b)
      /\ items[1].run = r /\ items[1].filter = f /\ k = n /\ page.older.before = b
  <2>1. page.older = Cursor(items[1].run, v, items[1].filter, k, b)
    BY <1>2
  <2> HIDE DEF b
  <2> QED
    BY <2>1 DEF Accepts, Cursor
<1> DEFINE R == RowSet(r, v, f, m)
           K == RowSet(r, v, f, n)
<1>4. PICK B \in SUBSET R :
         /\ UpperRows(B, R)
         /\ items = InOrder(B)
         /\ R \ B = {x \in K : x.sequence < b}
  BY <1>2, <1>3
<1>5. /\ m \in Nat /\ n \in Nat
      /\ R \in SUBSET RowType /\ Apart(R) /\ \A x, y \in R : x.id = y.id => x = y
  BY PageBounds, RowSetIs
<1>6. Available(K, page.older) = R \ B
  BY <1>3, <1>4 DEF Available
<1>a. PICK A \in SUBSET Available(K, page.older) :
         /\ UpperRows(A, Available(K, page.older))
         /\ p.items = InOrder(A)
         /\ A = {} => Available(K, page.older) = {}
         /\ A = Available(K, page.older) => p.older = None
         /\ A # Available(K, page.older) =>
               /\ p.older = Cursor(r, v, f, n, InOrder(A)[1].sequence)
               /\ p.older \in CursorType
  BY <1>5, PageIs
<1>8. B # {}
  BY <1>4, InOrderOfNone
<1> HIDE DEF p, b, R, K
<1>7. /\ A \in SUBSET (R \ B) /\ A \in SUBSET R
      /\ UpperRows(A, R \ B)
      /\ p.items = InOrder(A)
      /\ A = {} => R \ B = {}
      /\ A = R \ B => p.older = None
      /\ A # R \ B => /\ p.older = Cursor(r, v, f, n, InOrder(A)[1].sequence)
                      /\ p.older \in CursorType
  BY <1>6, <1>a
<1>9. \A x \in R \ B, y \in B : x.sequence < y.sequence
  BY <1>4, <1>5, <1>8, RowsBelow
<1> DEFINE C == A \cup B
<1>10. UpperRows(C, R)
  <2>1. \A x \in R : x.sequence \in Nat
    BY <1>5 DEF Apart
  <2>2. ASSUME NEW x \in C, NEW y \in R, x.sequence <= y.sequence, y \notin B
        PROVE  y \in A
    <3>1. x \in A
      <4>1. x \in B => y \in B
        BY <1>4, <2>2 DEF UpperRows
      <4> QED
        BY <2>2, <4>1
    <3> QED
      BY <1>7, <2>2, <3>1 DEF UpperRows
  <2> QED
    BY <1>4, <1>7, <2>2 DEF UpperRows
<1>11. /\ PrependOperational(p.items, items) = InOrder(C)
       /\ PrependBusiness(p.items, items) = InOrder(C)
       /\ InOrder(C) = InOrder(A) \o InOrder(B)
  <2>1. A \in SUBSET R /\ B \in SUBSET R /\ \A x \in A, y \in B : x.sequence < y.sequence
    BY <1>4, <1>7, <1>9
  <2>2. /\ InOrder(A \cup B) = InOrder(A) \o InOrder(B)
        /\ PrependOperational(InOrder(A), InOrder(B)) = InOrder(A \cup B)
        /\ PrependBusiness(InOrder(A), InOrder(B)) = InOrder(A \cup B)
    <3>1. Apart(R) /\ \A x, y \in R : x.id = y.id => x = y
      BY <1>5
    <3> HIDE DEF C
    <3> QED
      BY <2>1, <3>1, Prepending, ZenonT(60)
  <2> QED
    BY <2>2, <1>4, <1>7
<1>12. p.older = None => C = R
  BY <1>4, <1>7, NoneApart
<1>13. ASSUME p.older # None
       PROVE  /\ p.older = Cursor(r, v, f, n, InOrder(C)[1].sequence)
              /\ R \ C = {x \in K : x.sequence < InOrder(C)[1].sequence}
  <2>1. A # R \ B /\ A # {}
    BY <1>7, <1>13
  <2>2. Apart(A) /\ Apart(B) /\ Apart(R \ B)
    BY <1>4, <1>5, <1>7, SomeApart
  <2>3. InOrder(C)[1] = InOrder(A)[1]
    <3>1. InOrder(A) \in Seq(A) /\ InOrder(B) \in Seq(B) /\ Len(InOrder(A)) # 0
      BY <2>1, <2>2, InOrderIs, InOrderEmpty
    <3>2. InOrder(A) \in Seq(R) /\ InOrder(B) \in Seq(R)
      BY <3>1, <1>4, <1>7
    <3>3. \A s, t \in Seq(R) : Len(s) # 0 => (s \o t)[1] = s[1]
      OBVIOUS
    <3> HIDE DEF C
    <3> QED
      BY <1>11, <3>1, <3>2, <3>3
  <2>4. (R \ B) \ A = {x \in R \ B : x.sequence < InOrder(A)[1].sequence}
    BY <1>7, <2>1, <2>2, RowsBelow
  <2>5. InOrder(A)[1] \in R \ B
    BY <1>7, <2>1, <2>2, RowsBelow
  <2>6. InOrder(A)[1].sequence < b /\ b \in Nat /\ InOrder(A)[1].sequence \in Nat
    <3>1. InOrder(A)[1].sequence < b
      BY <1>4, <2>5
    <3>2. b \in Nat
      BY <1>1 DEF b, RowType
    <3>3. InOrder(A)[1].sequence \in Nat
      BY <2>5, <1>5 DEF Apart
    <3> QED
      BY <3>1, <3>2, <3>3
  <2>7. \A x \in K : x.sequence < InOrder(A)[1].sequence => x.sequence < b
    <3>1. \A x \in K : x.sequence \in Nat
      BY <1>5, RowSetIs DEF K, Apart
    <3> QED
      BY <3>1, <2>6
  <2>8. R \ C = {x \in K : x.sequence < InOrder(A)[1].sequence}
    BY <1>4, <2>4, <2>7
  <2> QED
    BY <1>7, <2>1, <2>3, <2>8
<1>14. EndOf(v, InOrder(C), p)
  <2>1. C \in SUBSET R /\ C # {}
    BY <1>4, <1>7, <1>8
  <2> HIDE DEF C
  <2> QED
    BY <2>1, <1>10, <1>12, <1>13, EndIs DEF R, K
<1> QED
  BY <1>11, <1>14 DEF p

\* Any page of the business view is the end of what it showed at one moment.
LEMMA EndOfSlice ==
    ASSUME NEW r \in Runs, NEW f \in Filters, NEW n \in 1..MaxEvents,
           NEW cursor \in CursorType
    PROVE  LET p == Page(r, "business", f, n, n, cursor)
           IN  EndOf("business", PrependBusiness(p.items, <<>>), p)
<1> DEFINE v == "business"
           p == Page(r, v, f, n, n, cursor)
           K == RowSet(r, v, f, n)
           R == Available(K, cursor)
           b == cursor.before
<1>1. v \in Views /\ n \in Nat
  BY PageBounds, ViewsAre
<1>2. R \in SUBSET K /\ K \in SUBSET RowType /\ Apart(K) /\ Apart(R)
      /\ \A x, y \in K : x.id = y.id => x = y
  <2>1. R \in SUBSET K
    BY DEF Available
  <2> QED
    BY <1>1, <2>1, RowSetIs, SomeApart
<1>3. PICK A \in SUBSET R :
         /\ UpperRows(A, R)
         /\ p.items = InOrder(A)
         /\ A = {} => R = {}
         /\ A = R => p.older = None
         /\ A # R => /\ p.older = Cursor(r, v, f, n, InOrder(A)[1].sequence)
                     /\ p.older \in CursorType
  BY <1>1, PageIs
<1>4. PrependBusiness(p.items, <<>>) = InOrder(A)
  <2>1. A \in SUBSET K /\ {} \in SUBSET K
    BY <1>2
  <2>2. PrependBusiness(InOrder(A), InOrder({})) = InOrder(A \cup {})
    BY <2>1, <1>2, Prepending
  <2>3. A \cup {} = A
    OBVIOUS
  <2> HIDE DEF p
  <2> QED
    BY <1>3, <2>2, <2>3, InOrderOfNone
<1>5. ASSUME A = {} PROVE EndOf(v, InOrder(A), p)
  BY <1>5, InOrderOfNone DEF EndOf
<1>6. ASSUME A # {} PROVE EndOf(v, InOrder(A), p)
  <2>1. b \in Nat /\ cursor # None
    <3>1. b \in Nat
      BY DEF CursorType
    <3> QED
      BY <3>1, NoneApart
  <2> DEFINE m == IF b - 1 <= n THEN b - 1 ELSE n
  <2>2. \A i : RowSequence(v, i, n) = i
    BY DEF RowSequence
  <2>3. /\ \A j : RowNodes(v, j) = 1..j
        /\ \A j, i : RowAt(r, v, f, j, i) = [run |-> r, view |-> v, filter |-> f, id |-> i,
                                             sequence |-> i]
    BY DEF RowNodes, RowAt, RowSequence
  <2> DEFINE Row(i) == [run |-> r, view |-> v, filter |-> f, id |-> i, sequence |-> i]
  <2>4. \A j : RowSet(r, v, f, j) = {Row(i) : i \in {h \in 1..j : Matches(f, h)}}
    BY <2>3 DEF RowSet
  <2>5. \A i : Row(i).sequence = i
    OBVIOUS
  <2> HIDE DEF Row
  <2>6. PICK x \in A : TRUE
    BY <1>6
  <2>7. x.sequence < b /\ x.sequence \in 1..n
    <3>1. x \in K
      BY <1>2, <1>3
    <3>2. x.sequence \in 1..n
      BY <3>1, <1>1, RowSetIs
    <3>3. x.sequence < b
      BY <1>3, <2>1, <2>6 DEF Available
    <3> QED
      BY <3>2, <3>3
  <2>8. m \in 1..MaxEvents /\ m <= n
    <3>1. n <= MaxEvents
      OBVIOUS
    <3> QED
      BY <1>1, <2>1, <2>7, <3>1, PageBounds
  <2>9. \A h \in 1..n : h < b <=> h \in 1..m
    BY <1>1, <2>1, <2>8
  <2>10. 1..m \in SUBSET (1..n)
    BY <2>8, <1>1
  <2> HIDE DEF m
  <2>11. R = RowSet(r, v, f, m)
    <3>1. R = {y \in K : y.sequence < b}
      BY <2>1 DEF Available
    <3>2. K = {Row(i) : i \in {h \in 1..n : Matches(f, h)}}
      BY <2>4
    <3>3. RowSet(r, v, f, m) = {Row(i) : i \in {h \in 1..m : Matches(f, h)}}
      BY <2>4
    <3> HIDE DEF R, K
    <3> QED
      BY <3>1, <3>2, <3>3, <2>5, <2>9, <2>10
  <2>12. A # R => R \ A = {y \in K : y.sequence < InOrder(A)[1].sequence}
    <3>1. /\ R \ A = {y \in R : y.sequence < InOrder(A)[1].sequence}
          /\ InOrder(A)[1] \in A
      BY <1>2, <1>3, <1>6, RowsBelow
    <3>2. R = {y \in K : y.sequence < b}
      BY <2>1 DEF Available
    <3>3. InOrder(A)[1].sequence < b /\ InOrder(A)[1].sequence \in Nat
          /\ \A y \in K : y.sequence \in Nat
      BY <3>1, <3>2, <1>2, <1>3 DEF Apart
    <3>4. \A y \in K : y.sequence < InOrder(A)[1].sequence => y.sequence < b
      BY <3>3, <2>1
    <3> HIDE DEF R, K
    <3> QED
      BY <3>1, <3>2, <3>4
  <2>13. (p.older = None => A = R) /\ (p.older # None => A # R)
    BY <1>3, NoneApart
  <2> HIDE DEF p, R, K, b
  <2>14. EndOf(v, InOrder(A), p)
    BY <1>1, <1>3, <1>6, <2>8, <2>11, <2>12, <2>13, EndIs DEF K
  <2> QED
    BY <2>14
<1> HIDE DEF p
<1>7. EndOf(v, InOrder(A), p)
  BY <1>5, <1>6
<1> QED
  BY <1>4, <1>7 DEF p

\* What the property says of rows that are the end of a view.
LEMMA EndIsContiguous ==
    ASSUME NEW v \in Views, NEW items \in Seq(RowType), items # <<>>, NEW page,
           EndOf(v, items, page)
    PROVE  \E n \in 1..MaxEvents :
              /\ IsSuffix(items, Rows(items[1].run, v, items[1].filter, n))
              /\ page.older = None => items = Rows(items[1].run, v, items[1].filter, n)
<1> DEFINE r == items[1].run
           f == items[1].filter
<1>1. r \in Runs /\ f \in Filters
  BY FirstTyped DEF RowType
<1>2. PICK n \in 1..MaxEvents :
         \E B \in SUBSET RowSet(r, v, f, n) :
            /\ UpperRows(B, RowSet(r, v, f, n))
            /\ items = InOrder(B)
            /\ page.older = None => B = RowSet(r, v, f, n)
  BY DEF EndOf
<1> DEFINE R == RowSet(r, v, f, n)
<1>3. PICK B \in SUBSET R : /\ UpperRows(B, R)
                            /\ items = InOrder(B)
                            /\ page.older = None => B = R
  BY <1>2
<1>4. n \in Nat
  BY PageBounds
<1>5. Apart(R)
  BY <1>1, <1>4, RowSetIs
<1>6. Rows(r, v, f, n) = InOrder(R)
  BY DEF Rows
<1>7. B # {} /\ Apart(B) /\ Apart(R \ B)
  BY <1>3, <1>5, InOrderOfNone, SomeApart
<1> HIDE DEF R
<1>8. InOrder(R) = InOrder(R \ B) \o items
  <2>1. \A x \in R \ B, y \in B : x.sequence < y.sequence
    BY <1>3, <1>5, <1>7, RowsBelow
  <2>2. (R \ B) \cup B = R
    BY <1>3
  <2>3. InOrder((R \ B) \cup B) = InOrder(R \ B) \o InOrder(B)
    BY <1>7, <2>1, InOrderOfBoth
  <2> QED
    BY <1>3, <2>2, <2>3
<1>9. IsSuffix(items, InOrder(R))
  <2> DEFINE s == InOrder(R \ B)
             u == InOrder(R)
             n1 == Len(items)
             m == Len(u)
  <2>1. s \in Seq(R) /\ items \in Seq(R) /\ u = s \o items
    <3>1. s \in Seq(R \ B) /\ items \in Seq(B)
      BY <1>3, <1>7, InOrderIs
    <3> HIDE DEF s
    <3> QED
      BY <3>1, <1>3, <1>8 DEF s
  <2> HIDE DEF s, u
  <2>2. /\ u \in Seq(R) /\ m = Len(s) + n1 /\ n1 \in Nat /\ m \in Nat /\ n1 <= m
        /\ Len(s) \in Nat
        /\ \A i \in 1..n1 : u[Len(s) + i] = items[i]
    BY <2>1
  <2>3. /\ Reverse(items) \in Seq(R) /\ Len(Reverse(items)) = n1
        /\ Reverse(u) \in Seq(R) /\ Len(Reverse(u)) = m
        /\ \A i \in 1..n1 : Reverse(items)[i] = items[(n1 - i) + 1]
        /\ \A i \in 1..m : Reverse(u)[i] = u[(m - i) + 1]
    <3>1. /\ Reverse(items) = [i \in 1..n1 |-> items[(n1 - i) + 1]]
          /\ Reverse(u) = [i \in 1..m |-> u[(m - i) + 1]]
      BY DEF Reverse
    <3>2. \A i \in 1..n1 : items[(n1 - i) + 1] \in R
      BY <2>1, <2>2
    <3>3. \A i \in 1..m : u[(m - i) + 1] \in R
      BY <2>2
    <3> HIDE DEF n1, m
    <3> QED
      BY <3>1, <3>2, <3>3, <2>2
  <2>4. \A i \in 1..n1 : Reverse(items)[i] = Reverse(u)[i]
    <3> HIDE DEF n1, m
    <3>1. ASSUME NEW i \in 1..n1 PROVE Reverse(items)[i] = Reverse(u)[i]
      <4>1. (n1 - i) + 1 \in 1..n1 /\ i \in 1..m
        BY <2>2
      <4>2. (m - i) + 1 = Len(s) + ((n1 - i) + 1)
        BY <2>2
      <4> QED
        BY <4>1, <4>2, <2>2, <2>3
    <3> QED
      BY <3>1
  <2>5. SubSeq(Reverse(items), 1, n1) = SubSeq(Reverse(u), 1, n1)
    <3> DEFINE p == Reverse(items)
               q == Reverse(u)
    <3>1. p \in Seq(R) /\ q \in Seq(R) /\ Len(p) = n1 /\ Len(q) = m /\ n1 <= m
          /\ n1 \in Nat /\ \A i \in 1..n1 : p[i] = q[i]
      BY <2>2, <2>3, <2>4
    <3> HIDE DEF p, q, n1, m
    <3>2. SubSeq(p, 1, n1) = SubSeq(q, 1, n1)
      BY <3>1
    <3> QED
      BY <3>2 DEF p, q
  <2> QED
    BY <2>2, <2>3, <2>5 DEF IsSuffix, IsPrefix, u
<1>10. page.older = None => items = InOrder(R)
  BY <1>3
<1> QED
  BY <1>6, <1>9, <1>10

LEMMA AnswerIs ==
    ASSUME NEW q, q.run \in Runs, q.view \in Views, Asks(q), Served(q)
    PROVE  /\ q.read \in 1..MaxEvents /\ q.fingerprint \in 1..MaxEvents
           /\ Answer(q) = Page(q.run, q.view, q.filter, q.read, q.fingerprint, q.cursor)
           /\ Answer(q) \in PageType /\ Answer(q) # None
           /\ Answer(q).run = q.run
           /\ Answer(q).items \in Seq(RowType)
           /\ \A i \in DOMAIN Answer(q).items :
                 /\ Answer(q).items[i].run = q.run
                 /\ Answer(q).items[i].filter = q.filter
           /\ Answer(q).older # None => Answer(q).items # <<>>
<1> DEFINE p == Answer(q)
           K == RowSet(q.run, q.view, q.filter, q.read)
           R == Available(K, q.cursor)
<1>1. /\ q.read \in 1..MaxEvents /\ q.fingerprint \in 1..MaxEvents
      /\ q.read \in Nat /\ q.fingerprint \in Nat
  BY PageBounds DEF Asks, Served
<1>2. p = Page(q.run, q.view, q.filter, q.read, q.fingerprint, q.cursor)
  BY DEF Answer
<1>3. q.filter \in Filters
  BY DEF Asks
<1>4. /\ Page(q.run, q.view, q.filter, q.read, q.fingerprint, q.cursor) \in PageType
      /\ Page(q.run, q.view, q.filter, q.read, q.fingerprint, q.cursor).run = q.run
      /\ \E A \in SUBSET R :
            /\ Page(q.run, q.view, q.filter, q.read, q.fingerprint, q.cursor).items = InOrder(A)
            /\ A = {} => R = {}
            /\ A = R => Page(q.run, q.view, q.filter, q.read, q.fingerprint,
                             q.cursor).older = None
  BY <1>1, <1>3, PageIs
<1>5. /\ R \in SUBSET K /\ Apart(K) /\ \A x \in K : x.run = q.run /\ x.filter = q.filter
  BY <1>1, <1>3, RowSetIs DEF Available
<1> HIDE DEF p, K, R
<1>6. PICK A \in SUBSET R : /\ p.items = InOrder(A)
                            /\ A = {} => R = {}
                            /\ A = R => p.older = None
  BY <1>2, <1>4
<1>7. p \in PageType /\ p.run = q.run
  BY <1>2, <1>4
<1>8. p # None /\ p.items \in Seq(RowType)
  BY <1>7, NoneApart DEF PageType
<1>9. Apart(A)
  BY <1>5, <1>6, SomeApart
<1>10. \A i \in DOMAIN p.items : p.items[i].run = q.run /\ p.items[i].filter = q.filter
  <2>1. p.items \in Seq(A)
    BY <1>6, <1>9, InOrderIs
  <2>2. \A i \in DOMAIN p.items : p.items[i] \in A
    BY <2>1
  <2> QED
    BY <2>2, <1>5, <1>6
<1>11. p.older # None => p.items # <<>>
  BY <1>6, <1>9, InOrderEmpty
<1> QED
  BY <1>1, <1>2, <1>7, <1>8, <1>10, <1>11 DEF p

\* What is prepended to the list of a view.
Prepends(v, s, t) == IF v = "business" THEN PrependBusiness(s, t) ELSE PrependOperational(s, t)

LEMMA PrependsAre ==
    ASSUME NEW v, NEW s \in Seq(RowType), NEW t \in Seq(RowType)
    PROVE  /\ Prepends(v, s, t) \in Seq(RowType)
           /\ \A k \in DOMAIN Prepends(v, s, t) :
                 \/ \E i \in DOMAIN s : Prepends(v, s, t)[k] = s[i]
                 \/ \E i \in DOMAIN t : Prepends(v, s, t)[k] = t[i]
  BY OperationalRows, BusinessRows DEF Prepends

LEMMA OperationalNonempty ==
    ASSUME NEW s \in Seq(RowType), NEW t \in Seq(RowType), s # <<>>
    PROVE  PrependOperational(s, t) # <<>>
<1>1. Len(s) \in Nat /\ Len(s) # 0
  OBVIOUS
<1>2. Len(PrependOperational(s, t)) >= Len(s) /\ PrependOperational(s, t) \in Seq(RowType)
  BY OperationalRows
<1> QED
  BY <1>1, <1>2

LEMMA OperationalToNone ==
    ASSUME NEW t \in Seq(RowType)
    PROVE  PrependOperational(<<>>, t) = t
<1> DEFINE I == {i \in DOMAIN t : t[i].id \notin Ids(<<>>)}
           place(row) == CHOOSE i \in DOMAIN t : t[i].id = row.id
           later(row) == IF row.id \in Ids(t) THEN t[place(row)] ELSE row
           u == AtPlaces(t, I)
           e == [i \in DOMAIN <<>> |-> later(<<>>[i])]
<1>1. PrependOperational(<<>>, t) = e \o u
  BY DEF PrependOperational
<1>2. I = DOMAIN t
  <2>1. Ids(<<>>) = {}
    <3>1. DOMAIN <<>> = {}
      OBVIOUS
    <3> QED
      BY <3>1 DEF Ids
  <2> QED
    BY <2>1
<1>3. u = t
  BY <1>2, AllPlaces
<1>4. e = <<>>
  <2>1. DOMAIN <<>> = {} /\ DOMAIN e = DOMAIN <<>>
    OBVIOUS
  <2> HIDE DEF later
  <2>2. e \in Seq({}) /\ Len(e) = 0
    BY <2>1
  <2> HIDE DEF e
  <2> QED
    BY <2>2
<1> HIDE DEF u, e
<1> QED
  BY <1>1, <1>3, <1>4

\* Fields of a list.
LEMMA ListFields ==
    ASSUME NEW l, IsList(l), NEW x, NEW y
    PROVE  /\ WithOlder(l, x, y).items = l.items /\ WithOlder(l, x, y).page = l.page
           /\ WithOlder(l, x, y).failed = y
           /\ [l EXCEPT !.older = x].items = l.items /\ [l EXCEPT !.older = x].page = l.page
           /\ [l EXCEPT !.older = x].failed = l.failed
           /\ [l EXCEPT !.items = x].items = x /\ [l EXCEPT !.items = x].page = l.page
           /\ [l EXCEPT !.items = x].failed = l.failed
<1>1. PICK items, page, state, failed :
         l = [items |-> items, page |-> page, older |-> state, failed |-> failed]
  BY DEF IsList
<1> DEFINE m == [l EXCEPT !.older = x]
           n == [l EXCEPT !.items = x]
           w == [m EXCEPT !.failed = y]
<1>2. m = [items |-> items, page |-> page, older |-> x, failed |-> failed]
  BY <1>1
<1>3. n = [items |-> x, page |-> page, older |-> state, failed |-> failed]
  BY <1>1
<1> HIDE DEF m
<1>4. w = [items |-> items, page |-> page, older |-> x, failed |-> y]
  BY <1>2
<1>5. WithOlder(l, x, y) = w
  BY DEF WithOlder, m
<1> HIDE DEF n, w
<1>6. /\ w.items = l.items /\ w.page = l.page /\ w.failed = y
      /\ m.items = l.items /\ m.page = l.page /\ m.failed = l.failed
      /\ n.items = x /\ n.page = l.page /\ n.failed = l.failed
  BY <1>1, <1>2, <1>3, <1>4
<1> QED
  BY <1>5, <1>6 DEF m, n

LEMMA EmptyListIs ==
    EmptyList.items = <<>> /\ EmptyList.page = None /\ EmptyList.failed = None
  BY DEF EmptyList

\* What a new request remembers.
LEMMA RequestAsks ==
    ASSUME NEW r, NEW v, NEW f \in Filters, NEW cursor, NEW is_new \in BOOLEAN, NEW initial
    PROVE  Asks(Request(r, v, f, cursor, is_new, initial))
<1> DEFINE q == Request(r, v, f, cursor, is_new, initial)
<1>1. /\ q.filter = f /\ q.is_new = is_new /\ q.read = None /\ q.fingerprint = None
  BY DEF Request
<1> HIDE DEF q
<1>2. Asks(q)
  BY <1>1 DEF Asks
<1> QED
  BY <1>2 DEF q

\* What the server reads for a request, and what it leaves.
LEMMA ReadForAsks ==
    ASSUME PagesTypeOK, NEW q, IsRequest(q), Asks(q)
    PROVE  Asks(ReadFor(q))
<1>1. PICK r \in Runs : \E v, f, cursor, at, read, fingerprint, is_new, initial :
         q = [run |-> r, view |-> v, filter |-> f, cursor |-> cursor, sequence |-> at,
              read |-> read, fingerprint |-> fingerprint, is_new |-> is_new,
              initial |-> initial]
  BY DEF IsRequest
<1>2. PICK v, f, cursor, at, read, fingerprint, is_new, initial :
         q = [run |-> r, view |-> v, filter |-> f, cursor |-> cursor, sequence |-> at,
              read |-> read, fingerprint |-> fingerprint, is_new |-> is_new,
              initial |-> initial]
  BY <1>1
<1> DEFINE n == events[q.run]
<1>3. n \in 1..MaxEvents /\ n # None
  <2>1. n \in 1..MaxEvents
    BY <1>2 DEF PagesTypeOK
  <2>2. n \in Nat
    BY <2>1, PageBounds
  <2> QED
    BY <2>1, <2>2, NoneApart
<1> HIDE DEF n
<1>4. /\ f \in Filters /\ is_new \in BOOLEAN
      /\ read \in (1..MaxEvents) \cup {None} /\ fingerprint \in (1..MaxEvents) \cup {None}
      /\ fingerprint # None => read # None
  BY <1>2 DEF Asks
<1>5. CASE q.read = None
  <2> DEFINE p == [q EXCEPT !.read = n]
  <2>1. ReadFor(q) = p
    BY <1>5 DEF ReadFor, n
  <2>2. p = [run |-> r, view |-> v, filter |-> f, cursor |-> cursor, sequence |-> at,
             read |-> n, fingerprint |-> fingerprint, is_new |-> is_new, initial |-> initial]
    BY <1>2
  <2> HIDE DEF p
  <2>3. p.filter = f /\ p.is_new = is_new /\ p.read = n /\ p.fingerprint = fingerprint
    BY <2>2
  <2>4. Asks(p)
    BY <1>3, <1>4, <2>3 DEF Asks
  <2> QED
    BY <2>1, <2>4
<1>6. CASE q.read # None
  <2> DEFINE p == [q EXCEPT !.fingerprint = n]
  <2>1. ReadFor(q) = p
    BY <1>6 DEF ReadFor, n
  <2>2. p = [run |-> r, view |-> v, filter |-> f, cursor |-> cursor, sequence |-> at,
             read |-> read, fingerprint |-> n, is_new |-> is_new, initial |-> initial]
    BY <1>2
  <2>5. read # None
    BY <1>2, <1>6
  <2> HIDE DEF p
  <2>3. p.filter = f /\ p.is_new = is_new /\ p.read = read /\ p.fingerprint = n
    BY <2>2
  <2>4. Asks(p)
    BY <1>3, <1>4, <2>3, <2>5 DEF Asks
  <2> QED
    BY <2>1, <2>4
<1> QED
  BY <1>5, <1>6

-----------------------------------------------------------------------------
(* What a step leaves as it is *)

LEMMA ContentSame ==
    ASSUME NEW v, Content(v),
           list'[v] = list[v], base'[v] = base[v], older'[v] = older[v],
           merged'[v] = merged[v], raced'[v] = raced[v],
           v \in Operational => base_key'[v] = base_key[v] /\ live_key'[v] = live_key[v],
           v \in Operational /\ Underway(older[v]) => older[v].view = v
    PROVE  Content(v)'
<1>1. ListTyped(v)' /\ AsksTyped(v)' /\ CursorKept(v)' /\ EndKept(v)'
  BY DEF Content, ListTyped, AsksTyped, CursorKept, EndKept
<1>2. OwnKey(v)'
  BY DEF Content, OwnKey
<1>3. OlderLast(v)'
  BY DEF Content, OlderLast, Wanted
<1> QED
  BY <1>1, <1>2, <1>3 DEF Content

\* A request that is dropped.
LEMMA ContentDropped ==
    ASSUME NEW v, Content(v),
           list'[v] = list[v], merged'[v] = merged[v], raced'[v] = raced[v],
           base'[v] = base[v] \/ base'[v] = NoRequest,
           older'[v] = older[v] \/ older'[v] = NoRequest,
           v \in Operational => base_key'[v] = base_key[v],
           v \in Operational => live_key'[v] = live_key[v] \/ older'[v] = NoRequest,
           v \in Operational /\ Underway(older[v]) => older[v].view = v
    PROVE  Content(v)'
<1> USE DEF Underway
<1>1. ListTyped(v)' /\ EndKept(v)'
  BY DEF Content, ListTyped, EndKept
<1>2. AsksTyped(v)'
  BY DEF Content, AsksTyped
<1>3. CursorKept(v)'
  BY DEF Content, CursorKept
<1>4. OwnKey(v)'
  BY DEF Content, OwnKey
<1>5. OlderLast(v)'
  BY DEF Content, OlderLast, Wanted
<1> QED
  BY <1>1, <1>2, <1>3, <1>4, <1>5 DEF Content

LEMMA ChoiceSame ==
    ASSUME NEW v, Choice(v),
           list'[v] = list[v], v \in Operational => base_key'[v] = base_key[v],
           v \in due => v \in due',
           UNCHANGED <<selected, view, filter>>
    PROVE  Choice(v)'
  BY DEF Choice, BaseKey, FilterOf, Key

LEMMA PagesNow ==
    ASSUME ServingInv, PagesInv, NEW v \in Views
    PROVE  /\ Content(v) /\ Choice(v)
           /\ IsList(list[v])
           /\ v \in Operational <=> v # "business"
           /\ Underway(base[v]) => /\ IsRequest(base[v]) /\ base[v].view = v
                                   /\ base[v].run \in Runs
           /\ Underway(older[v]) => /\ IsRequest(older[v]) /\ older[v].view = v
                                    /\ older[v].run \in Runs
<1>1. /\ IsList(list[v])
      /\ Underway(base[v]) => IsRequest(base[v]) /\ base[v].view = v
      /\ Underway(older[v]) => IsRequest(older[v]) /\ older[v].view = v
  BY DEF ServingInv, TypeOK
<1>2. \A q : IsRequest(q) => q.run \in Runs
  BY DEF IsRequest
<1> QED
  BY <1>1, <1>2, ViewsAre DEF PagesInv

-----------------------------------------------------------------------------
(* The rows when the user acts *)

LEMMA InitPages ==
    ASSUME Init
    PROVE  PagesInv
<1>1. PagesTypeOK
  <2>1. 1 \in 1..MaxEvents /\ MaxEvents \in 1..MaxEvents
    BY PageBounds
  <2>2. events \in [Runs -> 1..MaxEvents]
    BY <2>1 DEF Init
  <2>3. filter \in [Operational -> Filters]
    BY PageBounds DEF Init
  <2> QED
    BY <2>2, <2>3 DEF Init, PagesTypeOK
<1>2. ASSUME NEW v \in Views
      PROVE  Content(v) /\ Choice(v)
  <2>1. /\ list[v] = EmptyList /\ ~Underway(base[v]) /\ ~Underway(older[v])
        /\ selected = None
    BY DEF Init, Underway
  <2>2. list[v].items = <<>> /\ list[v].page = None /\ list[v].failed = None
    BY <2>1, EmptyListIs
  <2>3. DOMAIN list[v].items = {} /\ list[v].items \in Seq(RowType)
    BY <2>2
  <2>4. ListTyped(v) /\ AsksTyped(v) /\ OwnKey(v) /\ OlderLast(v) /\ CursorKept(v)
    BY <2>1, <2>2, <2>3 DEF ListTyped, AsksTyped, OwnKey, OlderLast, CursorKept
  <2>5. EndKept(v)
    BY <2>2 DEF EndKept, EndOf
  <2>6. Choice(v)
    BY <2>1, <2>3 DEF Choice
  <2> QED
    BY <2>4, <2>5, <2>6 DEF Content
<1> QED
  BY <1>1, <1>2 DEF PagesInv

\* What the user does leaves the lists and the requests as they are, but for
\* the older rows.
LEMMA ChosenPages ==
    ASSUME ServingInv, PagesInv,
           UNCHANGED <<events, listVars, keyVars, base, older>> \/
           UNCHANGED <<events, list, merged, raced, keyVars, base, older>>,
           filter' \in [Operational -> Filters],
           \A v \in Views : Choice(v)'
    PROVE  PagesInv'
<1> USE DEF listVars, keyVars
<1>1. PagesTypeOK'
  BY DEF PagesInv, PagesTypeOK
<1>2. ASSUME NEW v \in Views
      PROVE  Content(v)'
  BY PagesNow, ContentSame
<1> QED
  BY <1>1, <1>2 DEF PagesInv

LEMMA SelectRunPages ==
    ASSUME ServingInv, PagesInv, NEW r \in Runs, SelectRun(r)
    PROVE  PagesInv'
<1>1. /\ UNCHANGED <<events, list, merged, raced, keyVars, base, older>>
      /\ UNCHANGED <<view, filter>> /\ selected' = r /\ due = {}
      /\ r # selected => Effects \subseteq due'
  BY DEF SelectRun, Ready
<1>2. ASSUME NEW v \in Views
      PROVE  Choice(v)'
  <2>1. CASE r = selected
    BY <1>1, <2>1, PagesNow, ChoiceSame DEF keyVars
  <2>2. CASE r # selected
    BY <1>1, <2>2, ViewsAre DEF Choice
  <2> QED
    BY <2>1, <2>2
<1>3. filter' \in [Operational -> Filters]
  BY <1>1 DEF PagesInv, PagesTypeOK
<1> QED
  BY <1>1, <1>2, <1>3, ChosenPages

LEMMA SelectViewPages ==
    ASSUME ServingInv, PagesInv, NEW u \in Views, SelectView(u)
    PROVE  PagesInv'
<1>1. /\ UNCHANGED <<events, listVars, keyVars, base, older>>
      /\ UNCHANGED <<selected, filter>> /\ due = {}
      /\ Operational \subseteq due'
  BY DEF SelectView, Ready
<1>2. ASSUME NEW v \in Views
      PROVE  Choice(v)'
  <2>1. Choice(v)
    BY PagesNow
  <2> QED
    BY <1>1, <2>1 DEF Choice, listVars
<1>3. filter' \in [Operational -> Filters]
  BY <1>1 DEF PagesInv, PagesTypeOK
<1> QED
  BY <1>1, <1>2, <1>3, ChosenPages

LEMMA ChangeFilterPages ==
    ASSUME ServingInv, PagesInv, NEW f \in Filters, ChangeFilter(f)
    PROVE  PagesInv'
<1>1. /\ UNCHANGED <<events, list, merged, raced, keyVars, base, older>>
      /\ UNCHANGED <<selected, view>> /\ due = {} /\ view \in Operational
      /\ view \in due' /\ filter' = [filter EXCEPT ![view] = f]
  BY DEF ChangeFilter, Ready
<1>2. ASSUME NEW v \in Views
      PROVE  Choice(v)'
  <2>1. Choice(v)
    BY PagesNow
  <2> QED
    BY <1>1, <2>1 DEF Choice
<1>3. filter' \in [Operational -> Filters]
  BY <1>1 DEF PagesInv, PagesTypeOK
<1> QED
  BY <1>1, <1>2, <1>3, ChosenPages

\* A selected node, or a retry, changes nothing of the choice.
LEMMA RetryPages ==
    ASSUME ServingInv, PagesInv, SelectNode \/ Retry \/ RetryFrame
    PROVE  PagesInv'
<1>1. /\ UNCHANGED <<events, listVars, keyVars, base, older>>
      /\ UNCHANGED <<selected, view, filter>> /\ due = {}
  BY DEF SelectNode, Retry, RetryFrame, Ready, choiceVars
<1>2. ASSUME NEW v \in Views
      PROVE  Choice(v)'
  BY <1>1, PagesNow, ChoiceSame DEF listVars, keyVars
<1>3. filter' \in [Operational -> Filters]
  BY <1>1 DEF PagesInv, PagesTypeOK
<1> QED
  BY <1>1, <1>2, <1>3, ChosenPages

\* The cursor of the older rows a user can ask for is the page's, unless the
\* list was refreshed.
LEMMA CursorIs ==
    ASSUME NEW v \in Views, Content(v), list[v].page # None,
           NEW cursor, cursor \in {list[v].page.older, list[v].failed} \ {None}
    PROVE  /\ cursor \in CursorType
           /\ ~merged[v] /\ list[v].items # <<>> => cursor = list[v].page.older
<1>1. list[v].page \in PageType /\ list[v].failed \in CursorType \cup {None}
  BY DEF Content, ListTyped
<1>2. list[v].page.older \in CursorType \cup {None}
  BY <1>1 DEF PageType
<1>3. cursor \in CursorType
  BY <1>1, <1>2
<1>4. ~merged[v] /\ list[v].items # <<>> /\ list[v].failed # None =>
         list[v].failed = list[v].page.older
  BY DEF Content, CursorKept
<1> QED
  BY <1>3, <1>4

LEMMA LoadOlderPages ==
    ASSUME ServingInv, PagesInv, NEW cursor, LoadOlder(cursor)
    PROVE  PagesInv'
<1>0. PICK no \in BOOLEAN : no = FALSE
  OBVIOUS
<1>a. PICK u \in Operational : u = view
  BY DEF LoadOlder
<1> DEFINE q == Request(selected, u, filter[u], cursor, no, no)
           k == Key(selected, filter[u], cursor)
           x == WithOlder(list[u], "loading", None)
<1>1. /\ u \in Operational /\ u \in Views /\ u # "business" /\ u = view
      /\ selected \in Runs /\ due = {} /\ selected # None
      /\ UNCHANGED <<events, choiceVars, merged, raced, base_key, base, due>>
      /\ list[u].page # None /\ list[u].page.older # None
      /\ cursor \in {list[u].page.older, list[u].failed} \ {None}
  BY <1>a, ViewsAre DEF LoadOlder, Rendered, Ready, ServingInv, TypeOK
<1>2. /\ older' = [older EXCEPT ![u] = q] /\ live_key' = [live_key EXCEPT ![u] = k]
      /\ list' = [list EXCEPT ![u] = x]
  BY <1>0, <1>a DEF LoadOlder
<1>3. filter[u] \in Filters
  BY <1>1 DEF PagesInv, PagesTypeOK
<1>4. /\ q.run = selected /\ q.view = u /\ q.filter = filter[u] /\ q.cursor = cursor
      /\ Underway(q) /\ Asks(q)
  BY <1>1, <1>3, RequestIs, RequestAsks
<1>5. /\ x.items = list[u].items /\ x.page = list[u].page /\ x.failed = None
  BY <1>1, PagesNow, ListFields
<1> HIDE DEF q, x
<1>6. /\ older'[u] = q /\ \A v \in Views : v # u => older'[v] = older[v]
  BY <1>1, <1>2, TypeNow, OneSet
<1>7. /\ list'[u] = x /\ \A v \in Views : v # u => list'[v] = list[v]
  BY <1>1, <1>2, TypeNow, OneSet
<1>8. /\ live_key'[u] = k /\ \A v \in Operational : v # u => live_key'[v] = live_key[v]
  <2> HIDE DEF k
  <2> QED
    BY <1>1, <1>2, TypeNow, OneSet
<1>9. Content(u) /\ Choice(u)
  BY <1>1, PagesNow
<1>10. Content(u)'
  <2>1. ListTyped(u)'
    BY <1>5, <1>7, <1>9 DEF Content, ListTyped
  <2>2. AsksTyped(u)'
    BY <1>1, <1>4, <1>6, <1>9, CursorIs DEF Content, AsksTyped
  <2>3. OwnKey(u)'
    <3>1. base_key[u] = Key(selected, filter[u], None)
      BY <1>1, <1>9 DEF Choice, BaseKey, FilterOf
    <3> QED
      BY <1>1, <1>4, <1>5, <1>6, <1>7, <1>9, <3>1 DEF Content, OwnKey
  <2>4. OlderLast(u)'
    <3>1. list[u].items # <<>>
      BY <1>1, <1>9 DEF Content, OlderLast
    <3>2. Wanted(older[u])'
      BY <1>4, <1>6, <1>8 DEF Wanted
    <3> QED
      BY <1>1, <1>5, <1>7, <3>1, <3>2 DEF OlderLast
  <2>5. CursorKept(u)'
    BY <1>1, <1>4, <1>5, <1>6, <1>7, <1>9, CursorIs DEF CursorKept
  <2>6. EndKept(u)'
    BY <1>1, <1>5, <1>7, <1>9 DEF Content, EndKept
  <2> QED
    BY <2>1, <2>2, <2>3, <2>4, <2>5, <2>6 DEF Content
<1>11. Choice(u)'
  BY <1>1, <1>9 DEF Choice, choiceVars, BaseKey, FilterOf
<1>12. ASSUME NEW v \in Views, v # u
       PROVE  Content(v)' /\ Choice(v)'
  <2>1. /\ list'[v] = list[v] /\ base'[v] = base[v] /\ older'[v] = older[v]
        /\ merged'[v] = merged[v] /\ raced'[v] = raced[v]
        /\ v \in Operational => base_key'[v] = base_key[v] /\ live_key'[v] = live_key[v]
    BY <1>1, <1>6, <1>7, <1>8, <1>12
  <2>2. Content(v)'
    BY <2>1, PagesNow, ContentSame
  <2>3. Choice(v)'
    BY <1>1, <2>1, PagesNow, ChoiceSame DEF choiceVars
  <2> QED
    BY <2>2, <2>3
<1>13. PagesTypeOK'
  BY <1>1 DEF PagesInv, PagesTypeOK, choiceVars
<1> QED
  BY <1>10, <1>11, <1>12, <1>13 DEF PagesInv

LEMMA LoadOlderBusinessPages ==
    ASSUME ServingInv, PagesInv, NEW cursor, LoadOlderBusiness(cursor)
    PROVE  PagesInv'
<1> DEFINE b == "business"
<1>0. PICK no \in BOOLEAN : no = FALSE
  OBVIOUS
<1> DEFINE q == Request(selected, b, "all", cursor, no, no)
           x == [list[b] EXCEPT !.older = "loading"]
<1>1. /\ b \in Views /\ b \notin Operational /\ "all" \in Filters
      /\ selected \in Runs /\ due = {}
      /\ UNCHANGED <<events, choiceVars, merged, raced, keyVars, base, due>>
      /\ list[b].page # None
      /\ cursor \in {list[b].page.older, list[b].failed} \ {None}
  BY ViewsAre, PageBounds DEF LoadOlderBusiness, Rendered, Ready, ServingInv, TypeOK
<1>2. older' = [older EXCEPT ![b] = q] /\ list' = [list EXCEPT ![b] = x]
  BY <1>0 DEF LoadOlderBusiness
<1>4. /\ q.run = selected /\ q.filter = "all" /\ q.cursor = cursor
      /\ Underway(q) /\ Asks(q)
  BY <1>1, RequestIs, RequestAsks
<1>5. /\ x.items = list[b].items /\ x.page = list[b].page /\ x.failed = list[b].failed
  BY <1>1, PagesNow, ListFields
<1> HIDE DEF q, x
<1>6. /\ older'[b] = q /\ \A v \in Views : v # b => older'[v] = older[v]
  BY <1>1, <1>2, TypeNow, OneSet
<1>7. /\ list'[b] = x /\ \A v \in Views : v # b => list'[v] = list[v]
  BY <1>1, <1>2, TypeNow, OneSet
<1>9. Content(b) /\ Choice(b)
  BY <1>1, PagesNow
<1>10. Content(b)'
  <2>1. ListTyped(b)'
    BY <1>5, <1>7, <1>9 DEF Content, ListTyped
  <2>2. AsksTyped(b)'
    BY <1>1, <1>4, <1>6, <1>9, CursorIs DEF Content, AsksTyped
  <2>3. OwnKey(b)'
    BY <1>1, <1>4, <1>5, <1>6, <1>7, <1>9 DEF Content, OwnKey
  <2>4. OlderLast(b)'
    BY <1>1 DEF OlderLast
  <2>5. CursorKept(b)'
    BY <1>1, <1>4, <1>5, <1>6, <1>7, <1>9, CursorIs DEF Content, CursorKept
  <2>6. EndKept(b)'
    BY <1>1, <1>5, <1>7, <1>9 DEF Content, EndKept
  <2> QED
    BY <2>1, <2>2, <2>3, <2>4, <2>5, <2>6 DEF Content
<1>11. Choice(b)'
  BY <1>1, <1>5, <1>7, <1>9 DEF Choice, choiceVars
<1>12. ASSUME NEW v \in Views, v # b
       PROVE  Content(v)' /\ Choice(v)'
  <2>1. /\ list'[v] = list[v] /\ base'[v] = base[v] /\ older'[v] = older[v]
        /\ merged'[v] = merged[v] /\ raced'[v] = raced[v]
        /\ v \in Operational => base_key'[v] = base_key[v] /\ live_key'[v] = live_key[v]
    BY <1>1, <1>6, <1>7, <1>12 DEF keyVars
  <2>2. Content(v)'
    BY <2>1, PagesNow, ContentSame
  <2>3. Choice(v)'
    BY <1>1, <2>1, PagesNow, ChoiceSame DEF choiceVars
  <2> QED
    BY <2>2, <2>3
<1>13. PagesTypeOK'
  BY <1>1 DEF PagesInv, PagesTypeOK, choiceVars, keyVars
<1> QED
  BY <1>10, <1>11, <1>12, <1>13 DEF PagesInv

-----------------------------------------------------------------------------
(* The rows when the server reads and when the effects run *)

\* What the server has read, or not, is all that differs.
LEMMA ContentRead ==
    ASSUME NEW v, Content(v),
           list'[v] = list[v], merged'[v] = merged[v], raced'[v] = raced[v],
           v \in Operational => base_key'[v] = base_key[v] /\ live_key'[v] = live_key[v],
           Underway(base[v]) => IsRequest(base[v]),
           Underway(older[v]) => IsRequest(older[v]),
           SameAsked(base'[v], base[v]), SameAsked(older'[v], older[v]),
           Underway(base[v]) => Asks(base'[v]), Underway(older[v]) => Asks(older'[v]),
           v \in Operational /\ Underway(older[v]) => older[v].view = v
    PROVE  Content(v)'
<1>1. /\ Underway(base'[v]) <=> Underway(base[v])
      /\ Underway(older'[v]) <=> Underway(older[v])
      /\ Underway(base[v]) => /\ base'[v].run = base[v].run /\ base'[v].filter = base[v].filter
                              /\ base'[v].cursor = base[v].cursor
      /\ Underway(older[v]) => /\ older'[v].run = older[v].run
                               /\ older'[v].filter = older[v].filter
                               /\ older'[v].cursor = older[v].cursor
                               /\ older'[v].view = older[v].view
  BY RequestUnderway DEF SameAsked
<1>2. ListTyped(v)' /\ AsksTyped(v)' /\ CursorKept(v)' /\ EndKept(v)'
  BY <1>1 DEF Content, ListTyped, AsksTyped, CursorKept, EndKept
<1>3. OwnKey(v)'
  BY <1>1 DEF Content, OwnKey
<1>4. OlderLast(v)'
  BY <1>1 DEF Content, OlderLast, Wanted
<1> QED
  BY <1>2, <1>3, <1>4 DEF Content

\* One request is read for.
LEMMA ReadOneAsks ==
    ASSUME PagesTypeOK, NEW g, g = [v \in Views |-> g[v]], NEW u \in Views, IsRequest(g[u]),
           NEW h, h = [g EXCEPT ![u] = ReadFor(@)],
           \A v \in Views : Underway(g[v]) => Asks(g[v])
    PROVE  /\ \A v \in Views : SameAsked(h[v], g[v])
           /\ \A v \in Views : Underway(g[v]) => Asks(h[v])
<1> DEFINE x == ReadFor(g[u])
<1>1. h = [g EXCEPT ![u] = x]
  OBVIOUS
<1>2. Asks(x)
  BY RequestUnderway, ReadForAsks
<1> HIDE DEF x
<1>3. h[u] = x /\ \A v \in Views : v # u => h[v] = g[v]
  BY <1>1, OneSet
<1>4. \A v \in Views : SameAsked(h[v], g[v])
  BY ReadOne
<1> QED
  BY <1>2, <1>3, <1>4

LEMMA ReadsPages ==
    ASSUME ServingInv, PagesInv, ServerReads
    PROVE  PagesInv'
<1>0. /\ UNCHANGED <<events, choiceVars, listVars, keyVars, due>>
      /\ \A q : SameAsked(q, q)
  BY DEF ServerReads, SameAsked
<1>1. \A v \in Views : /\ Underway(base[v]) => Asks(base[v]) /\ IsRequest(base[v])
                       /\ Underway(older[v]) => Asks(older[v]) /\ IsRequest(older[v])
  BY PagesNow DEF Content, AsksTyped
<1>2. \A v \in Views : /\ SameAsked(base'[v], base[v]) /\ SameAsked(older'[v], older[v])
                       /\ Underway(base[v]) => Asks(base'[v])
                       /\ Underway(older[v]) => Asks(older'[v])
  <2>1. ASSUME NEW v \in Views, Unread(base[v]), base' = [base EXCEPT ![v] = ReadFor(@)]
        PROVE  \A u \in Views : /\ SameAsked(base'[u], base[u])
                                /\ Underway(base[u]) => Asks(base'[u])
    <3>1. IsRequest(base[v])
      BY <1>1, <2>1 DEF Unread, Underway
    <3> QED
      BY <1>1, <2>1, <3>1, TypeNow, ReadOneAsks DEF PagesInv
  <2>2. ASSUME NEW v \in Views, Unread(older[v]), older' = [older EXCEPT ![v] = ReadFor(@)]
        PROVE  \A u \in Views : /\ SameAsked(older'[u], older[u])
                                /\ Underway(older[u]) => Asks(older'[u])
    <3>1. IsRequest(older[v])
      BY <1>1, <2>2 DEF Unread, Underway
    <3> QED
      BY <1>1, <2>2, <3>1, TypeNow, ReadOneAsks DEF PagesInv
  <2>3. \/ /\ base' = base
           /\ older' = older \/ \E v \in Views : /\ Unread(older[v])
                                                 /\ older' = [older EXCEPT ![v] = ReadFor(@)]
        \/ /\ older' = older
           /\ \E v \in Views : Unread(base[v]) /\ base' = [base EXCEPT ![v] = ReadFor(@)]
    BY DEF ServerReads
  <2> QED
    BY <1>0, <1>1, <2>1, <2>2, <2>3
<1>3. ASSUME NEW v \in Views
      PROVE  Content(v)' /\ Choice(v)'
  <2>1. Content(v)'
    BY <1>0, <1>1, <1>2, PagesNow, ContentRead DEF listVars, keyVars
  <2>2. Choice(v)'
    BY <1>0, PagesNow, ChoiceSame DEF listVars, keyVars, choiceVars
  <2> QED
    BY <2>1, <2>2
<1>4. PagesTypeOK'
  BY <1>0 DEF PagesInv, PagesTypeOK, listVars, keyVars, choiceVars
<1> QED
  BY <1>3, <1>4 DEF PagesInv

LEMMA GrowPages ==
    ASSUME ServingInv, PagesInv, NEW r \in Growing, Grow(r)
    PROVE  PagesInv'
<1>1. /\ UNCHANGED <<choiceVars, listVars, keyVars, base, older, due>>
      /\ r \in Runs /\ events[r] < MaxEvents
      /\ events' = [events EXCEPT ![r] = @ + 1]
  BY ServingBounds DEF Grow
<1>2. events' \in [Runs -> 1..MaxEvents]
  <2>1. events \in [Runs -> 1..MaxEvents] /\ events[r] + 1 \in 1..MaxEvents
    BY <1>1, PageBounds DEF PagesInv, PagesTypeOK
  <2> QED
    BY <1>1, <2>1
<1>3. PagesTypeOK'
  BY <1>1, <1>2 DEF PagesInv, PagesTypeOK, listVars, keyVars, choiceVars
<1>4. ASSUME NEW v \in Views
      PROVE  Content(v)' /\ Choice(v)'
  <2>1. Content(v)'
    BY <1>1, PagesNow, ContentSame DEF listVars, keyVars
  <2>2. Choice(v)'
    BY <1>1, PagesNow, ChoiceSame DEF listVars, keyVars, choiceVars
  <2> QED
    BY <2>1, <2>2
<1> QED
  BY <1>3, <1>4 DEF PagesInv

\* The request of an effect.
LEMMA FlushAsks ==
    ASSUME ServingInv, PagesInv, Flush
    PROVE  /\ \A v \in Entered : Asks(base'[v])
           /\ BusinessRuns => /\ Asks(base'["business"]) /\ base'["business"].filter = "all"
                              /\ base'["business"].cursor = None
<1>1. ASSUME NEW v \in Entered
      PROVE  Asks(base'[v])
  <2>1. v \in Operational /\ v \in Views
    BY ViewsAre DEF Entered
  <2>2. PICK new \in BOOLEAN, initial \in BOOLEAN : new = IsNew(v) /\ initial = Initial(v)
    BY DEF IsNew, Initial
  <2>3. base'[v] = NewestPage(v)
    BY <2>1 DEF Flush, FlushLists
  <2>4. base'[v] = Request(selected, v, filter[v], None, new, initial)
    BY <2>2, <2>3, Zenon DEF NewestPage
  <2>5. filter[v] \in Filters
    BY <2>1 DEF PagesInv, PagesTypeOK
  <2> QED
    BY <2>4, <2>5, RequestAsks
<1>2. ASSUME BusinessRuns
      PROVE  /\ Asks(base'["business"]) /\ base'["business"].filter = "all"
             /\ base'["business"].cursor = None
  <2>1. PICK yes \in BOOLEAN : yes = TRUE
    OBVIOUS
  <2>2. "business" \in Views /\ "business" \notin Entered
    BY ViewsAre DEF Entered
  <2>3. base'["business"] = NewestRows
    BY <1>2, <2>2 DEF Flush, FlushLists
  <2>4. base'["business"] = Request(selected, "business", "all", None, yes, yes)
    BY <2>1, <2>3 DEF NewestRows
  <2>5. selected \in Runs /\ "all" \in Filters
    BY <1>2, PageBounds DEF BusinessRuns, ServingInv, TypeOK
  <2> QED
    BY <2>4, <2>5, RequestAsks, RequestIs
<1> QED
  BY <1>1, <1>2

LEMMA FlushEnteredPages ==
    ASSUME ServingInv, PagesInv, Flush, NEW v \in Entered
    PROVE  Content(v)' /\ Choice(v)'
<1>1. /\ v \in Operational /\ v \in Views /\ v = view /\ selected \in Runs
      /\ v # "business"
      /\ Underway(base'[v]) /\ base'[v].run = selected /\ base'[v].filter = filter[v]
      /\ base'[v].cursor = None /\ Asks(base'[v])
      /\ list'[v] = Refreshed(v) /\ ~Underway(older'[v])
      /\ UNCHANGED <<selected, view, filter>>
  BY FlushEntered, FlushAsks, ViewsAre DEF Flush
<1>2. /\ base_key'[v] = BaseKey(v) /\ BaseKey(v) = Key(selected, filter[v], None)
  BY <1>1 DEF Flush, FlushOperational, BaseKey, FilterOf
<1>3. /\ merged'[v] = (merged[v] /\ ~IsNew(v)) /\ raced'[v] = (raced[v] /\ ~IsNew(v))
      /\ merged[v] \in BOOLEAN /\ raced[v] \in BOOLEAN
  BY <1>1 DEF Flush, FlushLists, PagesInv, PagesTypeOK
<1>4. Content(v) /\ Choice(v) /\ IsList(list[v])
  BY <1>1, PagesNow
<1>5. CASE IsNew(v)
  <2>1. list'[v].items = <<>> /\ list'[v].page = None /\ list'[v].failed = None
    BY <1>1, <1>5, EmptyListIs DEF Refreshed
  <2>2. DOMAIN list'[v].items = {} /\ list'[v].items \in Seq(RowType)
    BY <2>1
  <2>3. ListTyped(v)' /\ AsksTyped(v)' /\ OwnKey(v)' /\ OlderLast(v)' /\ CursorKept(v)'
    BY <1>1, <1>2, <2>1, <2>2 DEF ListTyped, AsksTyped, OwnKey, OlderLast, CursorKept
  <2>4. EndKept(v)'
    BY <2>1 DEF EndKept, EndOf
  <2> QED
    BY <1>1, <1>2, <2>3, <2>4 DEF Content, Choice, BaseKey, FilterOf
<1>6. CASE ~IsNew(v)
  <2>1. /\ list'[v].items = list[v].items /\ list'[v].page = list[v].page
        /\ list'[v].failed = None
    BY <1>1, <1>4, <1>6, ListFields DEF Refreshed
  <2>2. base_key'[v] = base_key[v] /\ merged'[v] = merged[v] /\ raced'[v] = raced[v]
    BY <1>2, <1>3, <1>6 DEF IsNew
  <2>3. ListTyped(v)' /\ AsksTyped(v)'
    BY <1>1, <1>4, <2>1 DEF Content, ListTyped, AsksTyped
  <2>4. OwnKey(v)'
    BY <1>1, <1>2, <1>4, <2>1, <2>2 DEF Content, OwnKey
  <2>5. OlderLast(v)'
    BY <1>1, <1>4, <2>1 DEF Content, OlderLast
  <2>6. CursorKept(v)' /\ EndKept(v)'
    BY <1>1, <1>4, <2>1, <2>2 DEF Content, CursorKept, EndKept
  <2> QED
    BY <1>1, <1>2, <2>3, <2>4, <2>5, <2>6 DEF Content, Choice, BaseKey, FilterOf
<1> QED
  BY <1>5, <1>6

LEMMA FlushOtherPages ==
    ASSUME ServingInv, PagesInv, Flush, NEW v \in Operational, v \notin Entered
    PROVE  Content(v)' /\ Choice(v)'
<1>1. /\ v \in Views /\ list'[v] = list[v]
      /\ v \in due => /\ ~Underway(base'[v]) /\ ~Underway(older'[v])
                      /\ v = view => selected = None
      /\ v \notin due => /\ base'[v] = base[v] /\ older'[v] = older[v]
                         /\ live_key'[v] = live_key[v]
  BY FlushOther
<1>2. base_key'[v] = base_key[v] /\ merged'[v] = merged[v] /\ raced'[v] = raced[v]
      /\ UNCHANGED <<selected, view, filter>>
  BY <1>1 DEF Flush, FlushOperational, FlushLists
<1>3. Content(v)'
  BY <1>1, <1>2, PagesNow, ContentDropped DEF Underway
<1>4. Choice(v)'
  BY <1>1, <1>2, PagesNow DEF Choice, BaseKey, FilterOf
<1> QED
  BY <1>3, <1>4

LEMMA FlushBusinessPages ==
    ASSUME ServingInv, PagesInv, Flush
    PROVE  Content("business")' /\ Choice("business")'
<1> DEFINE b == "business"
<1>1. /\ b \in Views /\ b \notin Operational /\ b \notin Entered
      /\ UNCHANGED <<selected, view, filter>>
      /\ Content(b) /\ Choice(b) /\ IsList(list[b])
  BY ViewsAre, PagesNow DEF Entered, Flush
<1>2. merged'[b] = merged[b] /\ raced'[b] = raced[b]
  BY <1>1 DEF Flush, FlushLists
<1>3. CASE BusinessRuns
  <2>1. /\ Underway(base'[b]) /\ ~Underway(older'[b])
        /\ Asks(base'[b]) /\ base'[b].filter = "all" /\ base'[b].cursor = None
    BY <1>3, FlushBusiness, FlushAsks
  <2>2. PICK none : none = <<>>
    OBVIOUS
  <2>3. list'[b] = [list[b] EXCEPT !.items = none]
    BY <1>1, <1>3, <2>2 DEF Flush, FlushLists
  <2>4. /\ list'[b].items = <<>> /\ list'[b].page = list[b].page
        /\ list'[b].failed = list[b].failed
    BY <1>1, <2>2, <2>3, ListFields
  <2>5. DOMAIN list'[b].items = {} /\ list'[b].items \in Seq(RowType)
    BY <2>4
  <2>6. ListTyped(b)' /\ AsksTyped(b)' /\ OwnKey(b)' /\ OlderLast(b)' /\ CursorKept(b)'
    BY <1>1, <2>1, <2>4, <2>5
       DEF Content, ListTyped, AsksTyped, OwnKey, OlderLast, CursorKept
  <2>7. EndKept(b)'
    BY <2>4 DEF EndKept, EndOf
  <2> QED
    BY <1>1, <2>5, <2>6, <2>7 DEF Content, Choice
<1>4. CASE ~BusinessRuns
  <2>1. /\ list'[b] = list[b]
        /\ b \in due => /\ selected = None
                        /\ ~Underway(base'[b]) /\ ~Underway(older'[b])
        /\ b \notin due => base'[b] = base[b] /\ older'[b] = older[b]
    <3>1. list'[b] = list[b]
      BY <1>1, <1>4 DEF Flush, FlushLists
    <3> QED
      BY <1>4, <3>1, FlushBusiness
  <2>2. Content(b)'
    BY <1>1, <1>2, <2>1, ContentDropped DEF Underway
  <2> QED
    BY <1>1, <2>1, <2>2 DEF Choice
<1> QED
  BY <1>3, <1>4

LEMMA FlushPages ==
    ASSUME ServingInv, PagesInv, Flush
    PROVE  PagesInv'
<1>1. ASSUME NEW v \in Views
      PROVE  Content(v)' /\ Choice(v)'
  BY FlushEnteredPages, FlushOtherPages, FlushBusinessPages, ViewsAre
<1>2. PagesTypeOK'
  <2>1. UNCHANGED <<events, filter>>
        /\ base_key' = [v \in Operational |-> base_key'[v]]
    BY DEF Flush, FlushOperational
  <2>2. merged' \in [Views -> BOOLEAN] /\ raced' \in [Views -> BOOLEAN]
    <3>1. \A v \in Views : merged[v] \in BOOLEAN /\ raced[v] \in BOOLEAN
      BY DEF PagesInv, PagesTypeOK
    <3>2. \A v : IsNew(v) \in BOOLEAN
      BY DEF IsNew
    <3> QED
      BY <3>1, <3>2, Zenon DEF Flush, FlushLists
  <2> QED
    BY <2>1, <2>2 DEF PagesInv, PagesTypeOK
<1> QED
  BY <1>1, <1>2 DEF PagesInv

-----------------------------------------------------------------------------
(* The rows when an answer comes *)

\* An answer concerns one view.
LEMMA AnsweredPages ==
    ASSUME ServingInv, PagesInv, NEW v \in Views,
           UNCHANGED <<events, choiceVars, keyVars, due>>,
           \A u \in Views : u # v => /\ list'[u] = list[u] /\ base'[u] = base[u]
                                     /\ older'[u] = older[u]
                                     /\ merged'[u] = merged[u] /\ raced'[u] = raced[u],
           merged' \in [Views -> BOOLEAN], raced' \in [Views -> BOOLEAN],
           Content(v)', Choice(v)'
    PROVE  PagesInv'
<1> USE DEF choiceVars, keyVars
<1>1. PagesTypeOK'
  BY DEF PagesInv, PagesTypeOK
<1>2. ASSUME NEW u \in Views, u # v
      PROVE  Content(u)' /\ Choice(u)'
  <2>1. Content(u)'
    BY <1>2, PagesNow, ContentSame
  <2>2. Choice(u)'
    BY <1>2, PagesNow, ChoiceSame
  <2> QED
    BY <2>1, <2>2
<1> QED
  BY <1>1, <1>2 DEF PagesInv

LEMMA MergedTyped ==
    ASSUME PagesInv
    PROVE  /\ merged \in [Views -> BOOLEAN] /\ raced \in [Views -> BOOLEAN]
           /\ merged = [v \in Views |-> merged[v]] /\ raced = [v \in Views |-> raced[v]]
  BY DEF PagesInv, PagesTypeOK

\* An answer that is not wanted, or that does not come.
LEMMA DroppedPages ==
    ASSUME ServingInv, PagesInv, NEW v \in Views,
           UNCHANGED <<events, choiceVars, keyVars, due, list, merged, raced>>,
           \/ base' = [base EXCEPT ![v] = NoRequest] /\ older' = older
           \/ older' = [older EXCEPT ![v] = NoRequest] /\ base' = base
    PROVE  PagesInv'
<1>1. /\ \A u \in Views : u # v => base'[u] = base[u] /\ older'[u] = older[u]
      /\ base'[v] = base[v] \/ base'[v] = NoRequest
      /\ older'[v] = older[v] \/ older'[v] = NoRequest
  BY TypeNow, OneSet
<1>2. Content(v)'
  BY <1>1, PagesNow, ContentDropped DEF keyVars
<1>3. Choice(v)'
  BY PagesNow, ChoiceSame DEF keyVars, choiceVars
<1> QED
  BY <1>1, <1>2, <1>3, MergedTyped, AnsweredPages

LEMMA ReceiveBasePages ==
    ASSUME ServingInv, PagesInv, NEW v \in Views, ReceiveBase(v)
    PROVE  PagesInv'
<1> DEFINE q == base[v]
           p == Answer(q)
           l == list[v]
<1>1. /\ v \in Operational /\ v # "business" /\ Underway(q) /\ Served(q)
      /\ base' = [base EXCEPT ![v] = NoRequest]
      /\ UNCHANGED <<events, choiceVars, keyVars, older, due>>
  BY ViewsAre DEF ReceiveBase, Served, Underway
<1>2. CASE ~Wanted(q)
  <2>1. UNCHANGED listVars
    BY <1>2 DEF ReceiveBase
  <2> QED
    BY <1>1, <2>1, DroppedPages DEF listVars
<1>3. CASE Wanted(q)
  <2> DEFINE I == IF q.is_new THEN p.items ELSE PrependOperational(l.items, p.items)
             P == IF q.is_new \/ l.page = None THEN p ELSE l.page
             x == [items |-> I, page |-> P, older |-> "idle", failed |-> None]
  <2>1. /\ list' = [list EXCEPT ![v] = x]
        /\ merged' = [merged EXCEPT ![v] = @ \/ (~q.is_new /\ l.page # None)]
        /\ raced' = [raced EXCEPT ![v] = @ \/ Races(q)]
    BY <1>3 DEF ReceiveBase, Keeps
  <2>2. /\ Content(v) /\ Choice(v) /\ q.run \in Runs /\ q.view = v
        /\ Asks(q) /\ q.cursor = None /\ q.is_new \in BOOLEAN
    BY <1>1, PagesNow DEF Content, AsksTyped, Asks
  <2>3. /\ q.read \in 1..MaxEvents /\ q.fingerprint \in 1..MaxEvents
        /\ p = Page(q.run, q.view, q.filter, q.read, q.fingerprint, q.cursor)
        /\ p \in PageType /\ p # None /\ p.items \in Seq(RowType)
        /\ \A i \in DOMAIN p.items : p.items[i].run = q.run /\ p.items[i].filter = q.filter
        /\ p.older # None => p.items # <<>>
    BY <1>1, <2>2, AnswerIs
  <2>4. /\ l.items \in Seq(RowType) /\ l.page \in PageType \cup {None}
        /\ base_key[v] = Key(q.run, q.filter, None)
        /\ \A i \in DOMAIN l.items :
              base_key[v] = Key(l.items[i].run, l.items[i].filter, None)
        /\ l.page = None => l.items = <<>>
        /\ (l.page # None /\ l.page.older # None) => l.items # <<>>
    BY <1>1, <2>2 DEF Content, ListTyped, OwnKey, OlderLast
  <2>5. ~Underway(older[v])
    <3>1. ASSUME Underway(older[v]) PROVE FALSE
      <4>1. Wanted(older[v]) /\ older[v].cursor \in CursorType /\ older[v].view = v
        BY <1>1, <2>2, <3>1, PagesNow DEF Content, OlderLast, AsksTyped
      <4>2. Key(older[v].run, older[v].filter, older[v].cursor) = Key(q.run, q.filter, None)
        BY <1>3, <2>2, <4>1 DEF Wanted
      <4>3. older[v].cursor = None
        BY <4>2 DEF Key
      <4> QED
        BY <4>1, <4>3, NoneApart
    <3> QED
      BY <3>1
  <2>6. /\ PrependOperational(l.items, p.items) \in Seq(RowType)
        /\ \A k \in DOMAIN PrependOperational(l.items, p.items) :
              \/ \E i \in DOMAIN l.items :
                    PrependOperational(l.items, p.items)[k] = l.items[i]
              \/ \E i \in DOMAIN p.items :
                    PrependOperational(l.items, p.items)[k] = p.items[i]
        /\ l.items # <<>> => PrependOperational(l.items, p.items) # <<>>
        /\ l.page = None => PrependOperational(l.items, p.items) = p.items
    BY <2>3, <2>4, OperationalRows, OperationalNonempty, OperationalToNone
  <2> DEFINE u == PrependOperational(l.items, p.items)
  <2> HIDE DEF p, u
  <2>7. /\ I \in Seq(RowType) /\ P \in PageType
        /\ P # None
        /\ P.older # None => I # <<>>
    BY <2>2, <2>3, <2>4, <2>6, NoneApart DEF u
  <2>8. \A k \in DOMAIN I : base_key[v] = Key(I[k].run, I[k].filter, None)
    <3>1. ASSUME NEW k \in DOMAIN p.items
          PROVE  base_key[v] = Key(p.items[k].run, p.items[k].filter, None)
      BY <2>3, <2>4
    <3>2. ASSUME NEW k \in DOMAIN u
          PROVE  base_key[v] = Key(u[k].run, u[k].filter, None)
      BY <2>3, <2>4, <2>6 DEF u
    <3>3. I = p.items \/ I = u
      BY DEF u
    <3> HIDE DEF I
    <3> QED
      BY <3>1, <3>2, <3>3
  <2>9. /\ merged'[v] = (merged[v] \/ (~q.is_new /\ l.page # None))
        /\ raced'[v] = (raced[v] \/ Races(q))
        /\ \A w \in Views : w # v => merged'[w] = merged[w] /\ raced'[w] = raced[w]
        /\ merged' \in [Views -> BOOLEAN] /\ raced' \in [Views -> BOOLEAN]
    <3>1. \A w \in Views : merged[w] \in BOOLEAN /\ raced[w] \in BOOLEAN
      BY MergedTyped
    <3> QED
      BY <2>1, <2>2, <3>1, MergedTyped DEF Races
  <2>10. ~merged'[v] /\ ~raced'[v] => EndOf(v, I, P)
    <3>1. ASSUME ~merged'[v], ~raced'[v] PROVE EndOf(v, I, P)
      <4>1. (q.is_new \/ l.page = None) /\ q.read = q.fingerprint
        BY <2>2, <2>9, <3>1 DEF Races
      <4>2. I = p.items /\ P = p
        BY <2>6, <4>1
      <4>3. p = Page(q.run, v, q.filter, q.read, q.read, None)
        BY <2>2, <2>3, <4>1
      <4>4. EndOf(v, p.items, p)
        BY <2>2, <2>3, <4>3, EndOfNewest DEF Asks
      <4> QED
        BY <4>2, <4>4
    <3> QED
      BY <3>1
  <2> HIDE DEF I, P
  <2>11. x.items = I /\ x.page = P /\ x.failed = None
    OBVIOUS
  <2> HIDE DEF x
  <2>12. list'[v] = x /\ \A w \in Views : w # v => list'[w] = list[w]
    BY <2>1, TypeNow, OneSet
  <2>13. /\ ~Underway(base'[v]) /\ older'[v] = older[v]
         /\ \A w \in Views : w # v => base'[w] = base[w]
    BY <1>1, TypeNow, OneSet DEF Underway
  <2>14. /\ list'[v].items = I /\ list'[v].page = P /\ list'[v].failed = None
         /\ base_key' = base_key /\ ~Underway(older'[v])
    BY <1>1, <2>5, <2>11, <2>12, <2>13 DEF keyVars
  <2>15. ListTyped(v)' /\ AsksTyped(v)' /\ CursorKept(v)'
    BY <2>7, <2>13, <2>14 DEF ListTyped, AsksTyped, CursorKept
  <2>16. OwnKey(v)'
    BY <1>1, <2>8, <2>13, <2>14 DEF OwnKey
  <2>17. OlderLast(v)'
    BY <2>7, <2>14 DEF OlderLast
  <2>18. EndKept(v)'
    BY <2>10, <2>14 DEF EndKept
  <2>19. Content(v)'
    BY <2>15, <2>16, <2>17, <2>18 DEF Content
  <2>20. Choice(v)'
    BY <1>1, <2>2, <2>14 DEF Choice, choiceVars, BaseKey, FilterOf
  <2> QED
    BY <1>1, <2>9, <2>12, <2>13, <2>19, <2>20, AnsweredPages
<1> QED
  BY <1>2, <1>3

LEMMA ReceiveBusinessPages ==
    ASSUME ServingInv, PagesInv, ReceiveBusiness
    PROVE  PagesInv'
<1> DEFINE v == "business"
           q == base[v]
           p == Answer(q)
<1>1. /\ v \in Views /\ v \notin Operational /\ Underway(q) /\ Served(q)
      /\ base' = [base EXCEPT ![v] = NoRequest]
      /\ UNCHANGED <<events, choiceVars, keyVars, older, due>>
  BY ViewsAre DEF ReceiveBusiness, Served, Underway
<1>2. CASE q.run # selected
  <2>1. UNCHANGED listVars
    BY <1>2 DEF ReceiveBusiness
  <2> QED
    BY <1>1, <2>1, DroppedPages DEF listVars
<1>3. CASE q.run = selected
  <2> DEFINE x == [items |-> p.items, page |-> p, older |-> "idle", failed |-> None]
  <2>1. /\ list' = [list EXCEPT ![v] = x]
        /\ merged' = [merged EXCEPT ![v] = older[v] # NoRequest]
        /\ raced' = [raced EXCEPT ![v] = Races(q)]
    BY <1>3 DEF ReceiveBusiness, Keeps
  <2>2. /\ Content(v) /\ q.run \in Runs /\ q.view = v
        /\ Asks(q) /\ q.cursor = None /\ q.filter = "all"
    BY <1>1, PagesNow DEF Content, AsksTyped, OwnKey
  <2>3. /\ q.read \in 1..MaxEvents /\ q.fingerprint \in 1..MaxEvents
        /\ p = Page(q.run, q.view, q.filter, q.read, q.fingerprint, q.cursor)
        /\ p \in PageType /\ p # None /\ p.items \in Seq(RowType)
        /\ \A i \in DOMAIN p.items : p.items[i].run = q.run /\ p.items[i].filter = q.filter
    BY <1>1, <2>2, AnswerIs
  <2> HIDE DEF p
  <2>9. /\ merged'[v] = Underway(older[v])
        /\ raced'[v] = Races(q)
        /\ \A w \in Views : w # v => merged'[w] = merged[w] /\ raced'[w] = raced[w]
        /\ merged' \in [Views -> BOOLEAN] /\ raced' \in [Views -> BOOLEAN]
    BY <1>1, <2>1, MergedTyped DEF Races, Underway
  <2>10. ~raced'[v] => EndOf(v, p.items, p)
    <3>1. ASSUME ~raced'[v] PROVE EndOf(v, p.items, p)
      <4>1. q.read = q.fingerprint
        BY <2>9, <3>1 DEF Races
      <4>3. p = Page(q.run, v, q.filter, q.read, q.read, None)
        BY <2>2, <2>3, <4>1
      <4> QED
        BY <1>1, <2>2, <2>3, <4>3, EndOfNewest DEF Asks
    <3> QED
      BY <3>1
  <2>11. x.items = p.items /\ x.page = p /\ x.failed = None
    OBVIOUS
  <2> HIDE DEF x
  <2>12. list'[v] = x /\ \A w \in Views : w # v => list'[w] = list[w]
    BY <1>1, <2>1, TypeNow, OneSet
  <2>13. /\ ~Underway(base'[v]) /\ older' = older
         /\ \A w \in Views : w # v => base'[w] = base[w]
    BY <1>1, TypeNow, OneSet DEF Underway
  <2>14. list'[v].items = p.items /\ list'[v].page = p /\ list'[v].failed = None
    BY <2>11, <2>12
  <2>15. ListTyped(v)' /\ AsksTyped(v)' /\ CursorKept(v)'
    BY <2>2, <2>3, <2>9, <2>13, <2>14 DEF Content, ListTyped, AsksTyped, CursorKept
  <2>16. OwnKey(v)'
    BY <1>1, <2>2, <2>3, <2>13, <2>14 DEF Content, OwnKey
  <2>17. OlderLast(v)'
    BY <1>1 DEF OlderLast
  <2>18. EndKept(v)'
    BY <2>10, <2>14 DEF EndKept
  <2>19. Content(v)'
    BY <2>15, <2>16, <2>17, <2>18 DEF Content
  <2>20. Choice(v)'
    BY <1>1, <1>3, <2>3, <2>14 DEF Choice, choiceVars
  <2> QED
    BY <1>1, <2>9, <2>12, <2>13, <2>19, <2>20, AnsweredPages
<1> QED
  BY <1>2, <1>3

\* A first page that fails; the business view shows nothing then.
LEMMA FailPages ==
    ASSUME ServingInv, PagesInv, NEW v \in Views, FailBase(v) \/ FailBusiness
    PROVE  PagesInv'
<1> DEFINE b == "business"
<1>1. CASE FailBase(v)
  BY <1>1, DroppedPages DEF FailBase
<1>2. CASE FailBusiness /\ base[b].run # selected
  <2>1. b \in Views
    BY ViewsAre
  <2> QED
    BY <1>2, <2>1, DroppedPages DEF FailBusiness
<1>3. CASE FailBusiness /\ base[b].run = selected
  <2>1. /\ b \in Views /\ b \notin Operational
        /\ base' = [base EXCEPT ![b] = NoRequest] /\ list' = [list EXCEPT ![b] = EmptyList]
        /\ UNCHANGED <<events, choiceVars, merged, raced, keyVars, older, due>>
    BY <1>3, ViewsAre DEF FailBusiness, Keeps
  <2>2. /\ list'[b] = EmptyList /\ ~Underway(base'[b])
        /\ \A w \in Views : w # b => list'[w] = list[w] /\ base'[w] = base[w]
    BY <2>1, TypeNow, OneSet DEF Underway
  <2>3. list'[b].items = <<>> /\ list'[b].page = None /\ list'[b].failed = None
    BY <2>2, EmptyListIs
  <2>4. DOMAIN list'[b].items = {} /\ list'[b].items \in Seq(RowType)
    BY <2>3
  <2>5. Content(b)
    BY <2>1, PagesNow
  <2>6. ListTyped(b)' /\ AsksTyped(b)' /\ OwnKey(b)' /\ OlderLast(b)' /\ CursorKept(b)'
    BY <2>1, <2>2, <2>3, <2>4, <2>5
       DEF Content, ListTyped, AsksTyped, OwnKey, OlderLast, CursorKept
  <2>7. EndKept(b)'
    BY <2>3 DEF EndKept, EndOf
  <2>8. Content(b)' /\ Choice(b)'
    BY <2>1, <2>4, <2>6, <2>7 DEF Content, Choice
  <2> QED
    BY <2>1, <2>2, <2>8, MergedTyped, AnsweredPages
<1> QED
  BY <1>1, <1>2, <1>3

LEMMA ReceiveOlderPages ==
    ASSUME ServingInv, PagesInv, NEW v \in Views, ReceiveOlder(v)
    PROVE  PagesInv'
<1> DEFINE q == older[v]
           p == Answer(q)
           l == list[v]
<1>1. /\ Underway(q) /\ Served(q) /\ ~Refused(q)
      /\ older' = [older EXCEPT ![v] = NoRequest]
      /\ UNCHANGED <<events, choiceVars, keyVars, base, due>>
  BY DEF ReceiveOlder, Served, Underway
<1>2. CASE ~StillWanted(v, q)
  <2>1. UNCHANGED listVars
    BY <1>2 DEF ReceiveOlder
  <2> QED
    BY <1>1, <2>1, DroppedPages DEF listVars
<1>3. CASE StillWanted(v, q)
  <2> DEFINE I == Prepends(v, p.items, l.items)
             x == [items |-> I, page |-> p, older |-> "idle", failed |-> None]
  <2>1. /\ list' = [list EXCEPT ![v] = x] /\ merged' = merged
        /\ raced' = [raced EXCEPT ![v] = @ \/ Races(q)]
    BY <1>3 DEF ReceiveOlder, Keeps, Prepended, Prepends
  <2>2. /\ Content(v) /\ Choice(v) /\ q.run \in Runs /\ q.view = v
        /\ Asks(q) /\ q.cursor \in CursorType /\ q.filter \in Filters
        /\ v \in Operational <=> v # "business"
    BY <1>1, PagesNow DEF Content, AsksTyped, Asks
  <2>3. /\ q.read \in 1..MaxEvents /\ q.fingerprint \in 1..MaxEvents
        /\ p = Page(q.run, q.view, q.filter, q.read, q.fingerprint, q.cursor)
        /\ p \in PageType /\ p # None /\ p.items \in Seq(RowType)
        /\ \A i \in DOMAIN p.items : p.items[i].run = q.run /\ p.items[i].filter = q.filter
        /\ p.older # None => p.items # <<>>
    BY <1>1, <2>2, AnswerIs
  <2>4. l.items \in Seq(RowType) /\ l.page \in PageType \cup {None}
    BY <2>2 DEF Content, ListTyped
  <2> HIDE DEF p
  <2>5. /\ I \in Seq(RowType)
        /\ \A k \in DOMAIN I : \/ \E i \in DOMAIN p.items : I[k] = p.items[i]
                               \/ \E i \in DOMAIN l.items : I[k] = l.items[i]
    <3> DEFINE s == p.items
               t == l.items
    <3>1. s \in Seq(RowType) /\ t \in Seq(RowType)
      BY <2>3, <2>4
    <3> HIDE DEF s, t, I, x
    <3>2. Prepends(v, s, t) \in Seq(RowType)
      BY <3>1, PrependsAre
    <3>3. \A k \in DOMAIN Prepends(v, s, t) :
             \/ \E i \in DOMAIN s : Prepends(v, s, t)[k] = s[i]
             \/ \E i \in DOMAIN t : Prepends(v, s, t)[k] = t[i]
      BY <3>1, PrependsAre
    <3>4. I = Prepends(v, s, t)
      BY DEF I, s, t
    <3>5. /\ I \in Seq(RowType)
          /\ \A k \in DOMAIN I : \/ \E i \in DOMAIN s : I[k] = s[i]
                                 \/ \E i \in DOMAIN t : I[k] = t[i]
      BY <3>2, <3>3, <3>4
    <3> QED
      BY <3>5 DEF s, t
  <2>6. v \in Operational /\ p.older # None => I # <<>>
    BY <2>2, <2>3, <2>4, OperationalNonempty DEF Prepends
  <2>7. Accepts(q.cursor, q.run, v, q.filter, q.fingerprint)
    BY <1>1, <2>2, NoneApart DEF Refused
  <2>9. /\ raced'[v] = (raced[v] \/ Races(q))
        /\ \A w \in Views : w # v => raced'[w] = raced[w]
        /\ raced' \in [Views -> BOOLEAN]
    <3>1. \A w \in Views : raced[w] \in BOOLEAN
      BY MergedTyped
    <3> QED
      BY <2>1, <3>1, MergedTyped DEF Races
  <2>10. ~merged[v] /\ ~raced'[v] => EndOf(v, I, p)
    <3>1. ASSUME ~merged[v], ~raced'[v] PROVE EndOf(v, I, p)
      <4>1. ~raced[v] /\ q.read = q.fingerprint
        BY <2>9, <3>1, MergedTyped DEF Races
      <4>2. CASE l.items # <<>>
        <5>1. EndOf(v, l.items, l.page) /\ q.cursor = l.page.older
          BY <1>1, <2>2, <3>1, <4>1, <4>2 DEF Content, EndKept, CursorKept
        <5>2. l.page.older # None
          BY <2>2, <5>1, NoneApart
        <5>3. p = Page(q.run, v, q.filter, q.read, q.read, l.page.older)
              /\ Accepts(l.page.older, q.run, v, q.filter, q.read)
          BY <2>2, <2>3, <2>7, <4>1, <5>1
        <5> DEFINE pp == Page(q.run, v, q.filter, q.read, q.read, l.page.older)
        <5>4. /\ EndOf(v, PrependOperational(pp.items, l.items), pp)
              /\ EndOf(v, PrependBusiness(pp.items, l.items), pp)
          BY <2>2, <2>3, <2>4, <4>2, <5>1, <5>2, <5>3, EndOfOlder
        <5>5. pp = p
          BY <5>3
        <5> HIDE DEF pp
        <5> QED
          BY <5>4, <5>5 DEF Prepends
      <4>3. CASE l.items = <<>>
        <5>1. v = "business"
          BY <1>1, <2>2, <4>3 DEF Content, OlderLast
        <5>2. p = Page(q.run, "business", q.filter, q.read, q.read, q.cursor)
          BY <2>2, <2>3, <4>1, <5>1
        <5> DEFINE pp == Page(q.run, "business", q.filter, q.read, q.read, q.cursor)
        <5>3. EndOf("business", PrependBusiness(pp.items, <<>>), pp)
          BY <2>2, <2>3, EndOfSlice
        <5>4. pp = p
          BY <5>2
        <5> HIDE DEF pp
        <5> QED
          BY <4>3, <5>1, <5>3, <5>4 DEF Prepends
      <4> QED
        BY <4>2, <4>3
    <3> QED
      BY <3>1
  <2> HIDE DEF I
  <2>11. x.items = I /\ x.page = p /\ x.failed = None
    OBVIOUS
  <2> HIDE DEF x
  <2>12. list'[v] = x /\ \A w \in Views : w # v => list'[w] = list[w]
    BY <2>1, TypeNow, OneSet
  <2>13. /\ ~Underway(older'[v]) /\ base'[v] = base[v]
         /\ \A w \in Views : w # v => older'[w] = older[w]
    BY <1>1, TypeNow, OneSet DEF Underway
  <2>14. /\ list'[v].items = I /\ list'[v].page = p /\ list'[v].failed = None
         /\ base_key' = base_key
    BY <1>1, <2>11, <2>12 DEF keyVars
  <2>15. ListTyped(v)' /\ AsksTyped(v)' /\ CursorKept(v)'
    BY <2>2, <2>3, <2>5, <2>13, <2>14 DEF Content, ListTyped, AsksTyped, CursorKept
  <2>16. OwnKey(v)'
    <3>1. CASE v \in Operational
      <4>1. /\ base_key[v] = Key(q.run, q.filter, None)
            /\ Underway(base[v]) => base_key[v] = Key(base[v].run, base[v].filter, None)
            /\ \A i \in DOMAIN l.items :
                  base_key[v] = Key(l.items[i].run, l.items[i].filter, None)
        BY <1>1, <2>2, <3>1 DEF Content, OwnKey
      <4>2. \A k \in DOMAIN I : base_key[v] = Key(I[k].run, I[k].filter, None)
        BY <2>3, <2>5, <4>1
      <4> QED
        BY <2>13, <2>14, <3>1, <4>1, <4>2 DEF OwnKey
    <3>2. CASE v \notin Operational
      <4>1. /\ q.filter = "all"
            /\ Underway(base[v]) => base[v].filter = "all"
            /\ \A i \in DOMAIN l.items : l.items[i].filter = "all"
        BY <1>1, <2>2, <3>2 DEF Content, OwnKey
      <4>2. \A k \in DOMAIN I : I[k].filter = "all"
        BY <2>3, <2>5, <4>1
      <4> QED
        BY <2>13, <2>14, <3>2, <4>1, <4>2 DEF OwnKey
    <3> QED
      BY <3>1, <3>2
  <2>17. OlderLast(v)'
    BY <2>3, <2>6, <2>13, <2>14 DEF OlderLast
  <2>18. EndKept(v)'
    BY <2>1, <2>10, <2>14 DEF EndKept
  <2>19. Content(v)'
    BY <2>15, <2>16, <2>17, <2>18 DEF Content
  <2>20. Choice(v)'
    <3>1. CASE v \in Operational
      BY <1>1, <2>2, <2>14, <3>1 DEF Choice, choiceVars, BaseKey, FilterOf
    <3>2. CASE v \notin Operational
      <4>1. q.run = selected
        BY <1>3, <2>2, <3>2 DEF StillWanted
      <4> QED
        BY <1>1, <2>2, <2>3, <2>5, <2>14, <3>2, <4>1 DEF Choice, choiceVars
    <3> QED
      BY <3>1, <3>2
  <2>21. \A w \in Views : w # v => merged'[w] = merged[w]
    BY <2>1
  <2>22. merged' \in [Views -> BOOLEAN]
    BY <2>1, MergedTyped
  <2> QED
    BY <1>1, <2>9, <2>12, <2>13, <2>19, <2>20, <2>21, <2>22, AnsweredPages
<1> QED
  BY <1>2, <1>3

LEMMA FailOlderPages ==
    ASSUME ServingInv, PagesInv, NEW v \in Views, FailOlder(v)
    PROVE  PagesInv'
<1> DEFINE q == older[v]
           x == WithOlder(list[v], "failed", q.cursor)
<1>1. /\ Underway(q)
      /\ older' = [older EXCEPT ![v] = NoRequest]
      /\ UNCHANGED <<events, choiceVars, merged, raced, keyVars, base, due>>
      /\ list' = list \/ list' = [list EXCEPT ![v] = x]
  BY DEF FailOlder, Underway
<1>2. CASE list' = list
  BY <1>1, <1>2, DroppedPages
<1>3. CASE list' = [list EXCEPT ![v] = x]
  <2>1. /\ x.items = list[v].items /\ x.page = list[v].page /\ x.failed = q.cursor
    BY PagesNow, ListFields
  <2> HIDE DEF x
  <2>2. list'[v] = x /\ \A w \in Views : w # v => list'[w] = list[w]
    BY <1>3, TypeNow, OneSet
  <2>3. /\ ~Underway(older'[v]) /\ base'[v] = base[v]
        /\ \A w \in Views : w # v => older'[w] = older[w]
    BY <1>1, TypeNow, OneSet DEF Underway
  <2>4. /\ Content(v) /\ Choice(v)
        /\ list'[v].items = list[v].items /\ list'[v].page = list[v].page
        /\ list'[v].failed = q.cursor
        /\ merged' = merged /\ raced' = raced /\ base_key' = base_key
    BY <1>1, <2>1, <2>2, PagesNow DEF keyVars
  <2>5. ListTyped(v)'
    BY <1>1, <2>4 DEF Content, ListTyped, AsksTyped
  <2>6. AsksTyped(v)' /\ OwnKey(v)' /\ OlderLast(v)' /\ EndKept(v)'
    BY <2>3, <2>4 DEF Content, AsksTyped, OwnKey, OlderLast, EndKept
  <2>7. CursorKept(v)'
    BY <1>1, <2>3, <2>4 DEF Content, CursorKept
  <2>8. Content(v)'
    BY <2>5, <2>6, <2>7 DEF Content
  <2>9. Choice(v)'
    BY <1>1, <2>4 DEF Choice, choiceVars, BaseKey, FilterOf
  <2> QED
    BY <1>1, <2>2, <2>3, <2>8, <2>9, MergedTyped, AnsweredPages
<1> QED
  BY <1>1, <1>2, <1>3

-----------------------------------------------------------------------------
(* Whose the rows are, and that they leave no gap *)

LEMMA SamePages ==
    ASSUME ServingInv, PagesInv,
           UNCHANGED <<events, choiceVars, list, merged, raced, keyVars, base, older, due>>
    PROVE  PagesInv'
<1>1. ASSUME NEW v \in Views
      PROVE  Choice(v)'
  BY PagesNow, ChoiceSame DEF keyVars, choiceVars
<1>2. filter' \in [Operational -> Filters]
  BY DEF PagesInv, PagesTypeOK, choiceVars
<1> QED
  BY <1>1, <1>2, ChosenPages

LEMMA NextPages ==
    ASSUME ServingInv, PagesInv, [Next]_vars
    PROVE  PagesInv'
<1>1. CASE UserActs
  <2>1. ASSUME NEW r \in Runs, SelectRun(r)
        PROVE  PagesInv'
    BY <2>1, SelectRunPages
  <2>2. ASSUME NEW v \in Views, SelectView(v)
        PROVE  PagesInv'
    BY <2>2, SelectViewPages
  <2>3. ASSUME NEW f \in Filters, ChangeFilter(f)
        PROVE  PagesInv'
    BY <2>3, ChangeFilterPages
  <2>4. CASE SelectNode \/ Retry \/ RetryFrame
    BY <2>4, RetryPages
  <2>5. ASSUME NEW cursor, LoadOlder(cursor)
        PROVE  PagesInv'
    BY <2>5, LoadOlderPages
  <2>6. ASSUME NEW cursor, LoadOlderBusiness(cursor)
        PROVE  PagesInv'
    BY <2>6, LoadOlderBusinessPages
  <2> QED
    BY <1>1, <2>1, <2>2, <2>3, <2>4, <2>5, <2>6 DEF UserActs
<1>2. CASE Flush
  BY <1>2, FlushPages
<1>3. CASE ServerReads
  BY <1>3, ReadsPages
<1>4. CASE ReceiveDetail \/ FailDetail \/ UNCHANGED vars
  BY <1>4, SamePages DEF ReceiveDetail, FailDetail, vars, listVars, keyVars
<1>5. CASE Receive \/ Fail
  BY <1>4, <1>5, ReceiveBasePages, ReceiveOlderPages, ReceiveBusinessPages, FailPages,
     FailOlderPages, ViewsAre DEF Receive, Fail
<1>6. ASSUME NEW r \in Growing, Grow(r)
      PROVE  PagesInv'
  BY <1>6, GrowPages
<1> QED
  BY <1>1, <1>2, <1>3, <1>4, <1>5, <1>6 DEF Next

\* The invariant of the rows: whose they are, and from where on they are the end
\* of their view.
THEOREM PagesInvariant == Spec => []PagesInv
<1>1. Init => PagesInv
  BY InitPages
<1>2. ServingInv /\ PagesInv /\ [Next]_vars => PagesInv'
  BY NextPages
<1> QED
  BY <1>1, <1>2, ServingInvariant, PTL DEF Spec

\* operationalRequestKeyRef and contextDetailRequestKeyRef: whatever answers arrive
\* late, in another order or not at all, the rows on display are the selected
\* run's, under the filter that is set, and so is the frame, for any runs, views,
\* filters, actions and failures.
THEOREM AnswersAreOwn == Spec => []OwnAnswers
<1>1. ServingInv /\ PagesInv => OwnRows
  <2> SUFFICES ASSUME ServingInv, PagesInv, due = {}, NEW i \in DOMAIN Displayed(view)
               PROVE  /\ Displayed(view)[i].run = selected
                      /\ Displayed(view)[i].filter = FilterOf(view)
    BY DEF OwnRows
  <2>1. PICK v \in Views : v = view
    BY DEF ServingInv, TypeOK
  <2>2. Content(v) /\ Choice(v) /\ (v \in Operational <=> v # "business")
    BY PagesNow
  <2>3. CASE v = "business"
    BY <2>1, <2>2, <2>3 DEF Displayed, Content, OwnKey, Choice, FilterOf
  <2>4. CASE v # "business"
    <3>1. /\ list[v].page # None /\ list[v].page.run = selected
          /\ Displayed(view) = list[v].items
      BY <2>1, <2>4 DEF Displayed
    <3>2. selected \in Runs /\ selected # None
      <4>1. list[v].page \in PageType
        BY <2>2, <3>1 DEF Content, ListTyped
      <4> QED
        BY <3>1, <4>1, ServingBounds DEF PageType
    <3>3. base_key[v] = Key(selected, filter[v], None)
      BY <2>1, <2>2, <2>4, <3>2 DEF Choice, BaseKey, FilterOf
    <3>4. base_key[v] = Key(list[v].items[i].run, list[v].items[i].filter, None)
      BY <2>2, <2>4, <3>1 DEF Content, OwnKey
    <3> QED
      BY <2>1, <2>4, <3>1, <3>3, <3>4 DEF Key, FilterOf
  <2> QED
    BY <2>3, <2>4
<1>2. OwnRows /\ OwnFrame => OwnAnswers
  BY DEF OwnAnswers
<1> QED
  BY <1>1, <1>2, ServingInvariant, PagesInvariant, FramesAreOwn, PTL

\* _validate_expected_cursor and page of ProjectionPager: a list that was not
\* refreshed is the end of what its view showed at one moment, without a gap, a
\* row twice or one out of place, for any page size, any length of the log and
\* any order of its tools' ends.
THEOREM PagesAreContiguous == Spec => []Contiguous
<1>1. PagesInv => Contiguous
  <2> SUFFICES ASSUME PagesInv, NEW v \in Views, list[v].items # <<>>, ~merged[v], ~raced[v]
               PROVE  \E n \in 1..MaxEvents :
                         /\ IsSuffix(list[v].items,
                                     Rows(list[v].items[1].run, v, list[v].items[1].filter, n))
                         /\ list[v].page.older = None =>
                               list[v].items = Rows(list[v].items[1].run, v,
                                                    list[v].items[1].filter, n)
    BY DEF Contiguous
  <2>1. list[v].items \in Seq(RowType) /\ EndOf(v, list[v].items, list[v].page)
    BY DEF PagesInv, Content, ListTyped, EndKept
  <2> QED
    BY <2>1, EndIsContiguous
<1> QED
  BY <1>1, PagesInvariant, PTL

==============================================================================
