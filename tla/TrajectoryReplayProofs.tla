------------------------ MODULE TrajectoryReplayProofs ------------------------
(***************************************************************************)
(* Proofs about a run that is recorded and read back, for any number of    *)
(* turns, requests, tools and retries: that what an event consumes was     *)
(* produced before it; that no context frame shows the state of a later    *)
(* revision than its own; that what has ended is never shown as running,   *)
(* and keeps the outcome it was shown with; that the rows and frames a     *)
(* reader has seen stay where and what they were; and that the execution   *)
(* shown for a claim is the one it rests on.                               *)
(*                                                                         *)
(* ReplayInv says what the running handler may still append: it consumes   *)
(* only what was given, and its boundaries are those of its revision.      *)
(* LifeInv is about the order of events, those that are recorded and those *)
(* that are pending (Ahead): the projections look back from an event to    *)
(* what it belongs to, and a later event may change what they say of an    *)
(* earlier one only where that order allows it.  CiteInv says what each    *)
(* event rests on, so that the execution shown for a claim is that of the  *)
(* tools that answered with what it cites.                                 *)
(***************************************************************************)
EXTENDS TrajectoryReplay, TLAPS, FiniteSetTheorems, WellFoundedInduction

Ref == {Context, Result, ResultEvidence, Diagnosis, Fact}
       \cup ({"call", "input", "response", "answer", "view", "observation"} \X Nat)

EventTypes == ContextTypes \cup
    {"context.injected", "step.started", "model.request.started",
     "model.response.completed", "model.response.failed", "model.retry.started",
     "model.retry.exhausted", "tool.started", "tool.completed",
     "business.decision.declared", "business.claim.declared", "answer.rejected"}

EventRecord ==
    [type : EventTypes, turn : Nat \cup {None}, step : Nat \cup {None},
     request : Nat \cup {None}, tool : Nat \cup {None}, ok : BOOLEAN, result : BOOLEAN,
     produced : SUBSET Ref, consumed : SUBSET Ref, evidence : SUBSET Ref,
     artifact : Ref \cup {None}, submission : Nat \cup {None},
     before : Nat \cup {None}, after : Nat \cup {None}]

TrackedRequest == [id : Nat, settled : BOOLEAN]
ToolCall       == [tool : Nat, request : Nat]

TypeOK ==
    /\ log \in Seq(EventRecord)
    /\ pending \in Seq(EventRecord)
    /\ phase \in {"new", "idle", "turn", "ended"}
    /\ turn \in Nat
    /\ revision \in Nat
    /\ requests \in Seq(TrackedRequest)
    /\ round \in Nat \cup {None}
    /\ calls \subseteq ToolCall

-----------------------------------------------------------------------------
(* The strengthening *)

\* Evidence that is cited by the tool that answers with it.
Cited == {ResultEvidence, Diagnosis, Fact}

\* What an event may consume though none has produced it.
Unproduced == Cited \cup {Context} \cup ({"observation"} \X Nat)

\* What the events so far have produced, with what none needs to.
Given == Unproduced \cup UNION {log[i].produced : i \in DOMAIN log}

\* What a handler may leave to be appended: no event has a boundary yet, and
\* every one consumes what has been given.
Offered(given) ==
    {e \in EventRecord :
        /\ e.after = None
        /\ e.consumed \subseteq given
        /\ e.type = "context.injected" => e.produced = {}
        /\ e.type = "context.projected" => e.artifact = None
        /\ e.type = "tool.completed" => e.evidence \subseteq Cited}

\* What an appended event is: an injection names the view of its revision,
\* and no revision is ahead of the run.
Recorded(e, latest) ==
    /\ e.after # None => e.after <= latest
    /\ e.type = "context.injected" => /\ e.after # None
                                      /\ e.artifact = <<"view", e.after>>
    /\ e.type = "context.projected" => e.after # None /\ e.artifact = None
    /\ e.type = "tool.completed" => e.evidence \subseteq Cited

ProducedInv ==
    /\ pending \in Seq(Offered(Given))
    /\ \A c \in calls : \/ <<"call", c.tool>> \in Given
                        \/ \E k \in DOMAIN pending : <<"call", c.tool>> \in pending[k].produced
    /\ \A i \in DOMAIN log : \A ref \in log[i].consumed \ Unproduced :
          \E j \in DOMAIN log : j < i /\ ref \in log[j].produced

RevisionInv ==
    /\ \A i \in DOMAIN log : Recorded(log[i], revision)
    /\ \A i, j \in DOMAIN log :
          i < j /\ log[i].after # None /\ log[j].after # None => log[i].after <= log[j].after

ReplayInv == TypeOK /\ ProducedInv /\ RevisionInv

-----------------------------------------------------------------------------
(* Lemmas about the operators of the projection *)

LEMMA LeastExists ==
    ASSUME NEW S \in SUBSET Nat, S # {}
    PROVE  \E m \in S : \A n \in S : m <= n
<1>1. PICK m \in S : \A n \in S : ~(<<n, m>> \in OpToRel(<, Nat))
  BY WFMin, NatLessThanWellFounded
<1>2. \A n \in S : ~(n < m)
  BY <1>1 DEF OpToRel
<1> QED
  BY <1>2

\* A set of numbers up to n has a greatest element: the one with the least
\* distance to n.
LEMMA GreatestExists ==
    ASSUME NEW n \in Nat, NEW S \in SUBSET (0..n), S # {}
    PROVE  \E m \in S : \A k \in S : m >= k
<1> DEFINE T == {t \in Nat : n - t \in S}
<1>1. PICK s \in S : TRUE
  OBVIOUS
<1>2. n - s \in T
  BY <1>1
<1> HIDE DEF T
<1>3. T \in SUBSET Nat /\ T # {}
  BY <1>2 DEF T
<1>4. PICK t \in T : \A u \in T : t <= u
  BY <1>3, LeastExists
<1>5. t \in Nat /\ n - t \in S
  BY <1>4 DEF T
<1>6. ASSUME NEW k \in S
      PROVE  n - t >= k
  <2>1. k \in 0..n
    OBVIOUS
  <2>2. n - k \in Nat /\ n - (n - k) = k
    BY <2>1
  <2>3. n - k \in T
    BY <2>2 DEF T
  <2>4. t <= n - k
    BY <1>4, <2>3
  <2> QED
    BY <1>5, <2>1, <2>4
<1> QED
  BY <1>5, <1>6

LEMMA EarliestIs ==
    ASSUME NEW S \in SUBSET Nat, S # {}
    PROVE  Earliest(S) \in S /\ \A k \in S : Earliest(S) <= k
<1>1. \E m \in S : \A k \in S : m <= k
  BY LeastExists
<1>2. Min(S) \in S /\ \A k \in S : Min(S) <= k
  BY <1>1 DEF Min
<1> QED
  BY <1>2 DEF Earliest

LEMMA GreatestIs ==
    ASSUME NEW n \in Nat, NEW S \in SUBSET (0..n), S # {}
    PROVE  Max(S) \in S /\ \A k \in S : Max(S) >= k
<1>1. \E m \in S : \A k \in S : m >= k
  BY GreatestExists
<1> QED
  BY <1>1 DEF Max

\* The shape of the events the recorder makes.
LEMMA EventTyped ==
    ASSUME NEW type \in EventTypes, NEW t \in Nat \cup {None}
    PROVE  /\ Event(type, t) \in EventRecord
           /\ Event(type, t).type = type
           /\ Event(type, t).turn = t
           /\ Event(type, t).consumed = {} /\ Event(type, t).produced = {}
           /\ Event(type, t).evidence = {}
           /\ Event(type, t).artifact = None /\ Event(type, t).after = None
  BY DEF Event, EventRecord

LEMMA OfTyped ==
    ASSUME NEW type \in EventTypes, NEW r, r.id \in Nat, turn \in Nat
    PROVE  /\ Of(r, type) \in EventRecord
           /\ Of(r, type).type = type
           /\ Of(r, type).consumed = {} /\ Of(r, type).produced = {}
           /\ Of(r, type).evidence = {}
           /\ Of(r, type).artifact = None /\ Of(r, type).after = None
  BY EventTyped DEF Of, Event, EventRecord

LEMMA OfToolTyped ==
    ASSUME NEW type \in EventTypes, NEW c \in ToolCall, turn \in Nat
    PROVE  /\ OfTool(c, type) \in EventRecord
           /\ OfTool(c, type).type = type
           /\ OfTool(c, type).consumed = {} /\ OfTool(c, type).produced = {}
           /\ OfTool(c, type).evidence = {}
           /\ OfTool(c, type).artifact = None /\ OfTool(c, type).after = None
  BY EventTyped DEF OfTool, Event, EventRecord, ToolCall

\* What the appender adds to an event is its boundary and the view.
LEMMA BoundedIs ==
    ASSUME NEW e \in EventRecord, revision \in Nat, e.after = None
    PROVE  /\ Bounded(e) \in EventRecord
           /\ Bounded(e).type = e.type /\ Bounded(e).turn = e.turn
           /\ Bounded(e).request = e.request /\ Bounded(e).submission = e.submission
           /\ Bounded(e).step = e.step /\ Bounded(e).tool = e.tool
           /\ Bounded(e).consumed = e.consumed
           /\ Bounded(e).evidence = e.evidence
           /\ e.type = "context.injected" =>
                 /\ Bounded(e).artifact = <<"view", revision>>
                 /\ Bounded(e).produced = {<<"view", revision>>}
                 /\ Bounded(e).after = revision
           /\ e.type # "context.injected" =>
                 /\ Bounded(e).produced = e.produced
                 /\ Bounded(e).artifact = e.artifact
           /\ e.type \in ContextTypes => Bounded(e).after = revision + 1
           /\ e.type \notin ContextTypes \cup {"context.injected"} => Bounded(e).after = None
<1> DEFINE v == <<"view", revision>>
<1>1. v \in Ref
  BY DEF Ref
<1>2. "context.injected" \notin ContextTypes
  BY DEF ContextTypes
<1>3. CASE e.type \in ContextTypes
  <2>1. Bounded(e) = [e EXCEPT !.before = revision, !.after = revision + 1]
    BY <1>2, <1>3 DEF Bounded
  <2>2. revision + 1 \in Nat
    OBVIOUS
  <2> DEFINE n == revision + 1
             b == [e EXCEPT !.before = revision, !.after = n]
  <2> HIDE DEF n
  <2>3. n \in Nat
    BY <2>2 DEF n
  <2>4. b \in EventRecord
    <3> DEFINE c == [e EXCEPT !.before = revision]
    <3>1. c \in EventRecord
      BY DEF EventRecord
    <3>2. b = [c EXCEPT !.after = n]
      OBVIOUS
    <3> HIDE DEF c, b
    <3> QED
      BY <2>3, <3>1, <3>2 DEF EventRecord
  <2>5. /\ b.type = e.type /\ b.turn = e.turn /\ b.consumed = e.consumed
        /\ b.request = e.request /\ b.submission = e.submission
        /\ b.step = e.step /\ b.tool = e.tool
        /\ b.evidence = e.evidence /\ b.produced = e.produced /\ b.artifact = e.artifact
    BY DEF EventRecord
  <2>6. b.after = n
    BY DEF EventRecord
  <2>7. Bounded(e) = b
    BY <2>1 DEF n
  <2> HIDE DEF b
  <2> QED
    BY <1>2, <1>3, <2>4, <2>5, <2>6, <2>7 DEF n
<1>4. CASE e.type = "context.injected"
  <2> DEFINE b == [e EXCEPT !.before = revision, !.after = revision,
                            !.artifact = v, !.produced = {v}]
  <2>1. Bounded(e) = b
    BY <1>2, <1>4 DEF Bounded
  <2> HIDE DEF v
  <2>2. b \in EventRecord
    <3> DEFINE c == [e EXCEPT !.before = revision]
               d == [c EXCEPT !.after = revision]
               f == [d EXCEPT !.artifact = v]
               ps == {v}
    <3>1. c \in EventRecord
      BY DEF EventRecord
    <3>2. b = [f EXCEPT !.produced = ps]
      OBVIOUS
    <3> HIDE DEF c, b, ps
    <3>3. d \in EventRecord
      BY <3>1 DEF EventRecord
    <3> HIDE DEF d
    <3>4. f \in EventRecord
      BY <1>1, <3>3 DEF EventRecord
    <3>5. ps \in SUBSET Ref
      BY <1>1 DEF ps
    <3> HIDE DEF f
    <3> QED
      BY <3>2, <3>4, <3>5 DEF EventRecord
  <2>3. /\ b.type = e.type /\ b.turn = e.turn /\ b.consumed = e.consumed
        /\ b.request = e.request /\ b.submission = e.submission
        /\ b.step = e.step /\ b.tool = e.tool
        /\ b.evidence = e.evidence
    BY DEF EventRecord
  <2>4. b.artifact = v /\ b.produced = {v} /\ b.after = revision
    BY DEF EventRecord
  <2> HIDE DEF b
  <2> QED
    BY <1>2, <1>4, <2>1, <2>2, <2>3, <2>4 DEF v
<1>5. CASE e.type \notin ContextTypes \cup {"context.injected"}
  <2>1. Bounded(e) = e
    BY <1>5 DEF Bounded
  <2> QED
    BY <1>5, <2>1
<1> QED
  BY <1>3, <1>4, <1>5

-----------------------------------------------------------------------------
(* What the invariant implies *)

LEMMA ProducedImplied ==
    ASSUME ReplayInv
    PROVE  ProducedBeforeConsumed
<1> SUFFICES ASSUME NEW i \in DOMAIN log, NEW ref \in log[i].consumed,
                    ref = Result \/ ref \in Documents
             PROVE  Producer(log, ref) # None /\ Producer(log, ref) < i
  BY DEF ProducedBeforeConsumed
<1> DEFINE S == {k \in DOMAIN log : ref \in log[k].produced}
<1>1. PICK j \in DOMAIN log : j < i /\ ref \in log[j].produced
  <2>1. ref \notin {"observation"} \X Nat
    <3>1. CASE ref = Result
      BY <3>1, ReferencesApart
    <3>2. CASE ref \in Documents
      <4>1. ref[1] # "observation"
        BY <3>2 DEF Documents
      <4> QED
        BY <4>1
    <3> QED
      BY <3>1, <3>2
  <2>2. ref \notin Cited \cup {Context}
    <3>1. CASE ref = Result
      BY <3>1, ReferencesApart DEF Cited
    <3>2. CASE ref \in Documents
      <4>1. ref \in {"call", "input", "response", "answer", "view", "observation"} \X Nat
        BY <3>2 DEF Documents
      <4> QED
        BY <4>1, ReferencesApart DEF Cited
    <3> QED
      BY <3>1, <3>2
  <2>3. ref \notin Unproduced
    BY <2>1, <2>2 DEF Unproduced
  <2> QED
    BY <2>3 DEF ReplayInv, ProducedInv
<1>2. DOMAIN log \subseteq Nat /\ i \in Nat /\ j \in Nat
  BY DEF ReplayInv, TypeOK
<1>3. S \in SUBSET Nat /\ j \in S
  BY <1>1, <1>2
<1>4. Producer(log, ref) = Earliest(S)
  BY DEF Producer
<1> HIDE DEF S
<1>5. Earliest(S) \in S /\ Earliest(S) <= j
  BY <1>3, EarliestIs
<1>6. Earliest(S) \in Nat
  BY <1>3, <1>5
<1> QED
  BY <1>1, <1>2, <1>4, <1>5, <1>6, NoneApart

\* The events with a boundary up to i, the last of which is the frame's.
LEMMA RevisionIs ==
    ASSUME ReplayInv, NEW i \in DOMAIN log,
           NEW k \in 1..i, log[k].after # None
    PROVE  \E m \in k..i : /\ m \in DOMAIN log /\ log[m].after # None
                           /\ Revision(log, i) = log[m].after
<1> DEFINE S == {j \in 1..i : log[j].after # None}
<1>1. i \in Nat /\ 1..i \subseteq DOMAIN log
  BY DEF ReplayInv, TypeOK
<1>2. k \in S /\ S \in SUBSET (0..i)
  BY <1>1
<1>3. Revision(log, i) = IF S = {} THEN 0 ELSE log[Max(S)].after
  BY DEF Revision
<1>4. \A m \in S : m \in 1..i /\ log[m].after # None
  OBVIOUS
<1> HIDE DEF S
<1>5. Max(S) \in S /\ Max(S) >= k
  BY <1>1, <1>2, GreatestIs
<1>6. Revision(log, i) = log[Max(S)].after
  BY <1>2, <1>3
<1> QED
  BY <1>1, <1>4, <1>5, <1>6

LEMMA StateImplied ==
    ASSUME ReplayInv
    PROVE  StateNotAhead
<1> SUFFICES ASSUME NEW i \in DOMAIN log
             PROVE  /\ State(log, lost, i) # None =>
                          log[State(log, lost, i)].artifact[2] <= Revision(log, i)
                    /\ i \in ContextEvents(log, i) /\ ~Unavailable(log, lost, i) =>
                          /\ State(log, lost, i) # None
                          /\ log[State(log, lost, i)].artifact[2] = Revision(log, i)
  BY DEF StateNotAhead
<1> DEFINE S == {j \in ContextEvents(log, i) :
                    log[j].artifact # None /\ log[j].artifact \notin lost}
           s == State(log, lost, i)
<1>1. i \in Nat /\ i >= 1 /\ DOMAIN log \subseteq Nat /\ \A j \in DOMAIN log : j >= 1
  BY DEF ReplayInv, TypeOK
<1>2. s = Latest(S)
  BY DEF State
<1>3. \A j \in S : /\ j \in DOMAIN log /\ j <= i
                   /\ log[j].type \in {"context.injected", "context.projected"}
                   /\ log[j].artifact # None
  BY DEF ContextEvents, At
<1>4. \A j \in S : /\ log[j].after # None
                   /\ log[j].artifact = <<"view", log[j].after>>
  BY <1>3 DEF ReplayInv, RevisionInv, Recorded
<1>5. \A j \in S : log[j].artifact[2] = log[j].after
  BY <1>4
<1>6. \A j, k \in DOMAIN log : /\ j <= k /\ log[j].after # None /\ log[k].after # None
                               => log[j].after <= log[k].after
  <2> SUFFICES ASSUME NEW j \in DOMAIN log, NEW k \in DOMAIN log, j <= k,
                      log[j].after # None, log[k].after # None
               PROVE  log[j].after <= log[k].after
    OBVIOUS
  <2>1. j \in Nat /\ k \in Nat
    BY <1>1
  <2>2. CASE j = k
    <3>1. log[j] \in EventRecord
      BY DEF ReplayInv, TypeOK
    <3>2. log[j].after \in Nat
      BY <3>1 DEF EventRecord
    <3> QED
      BY <2>2, <3>2
  <2>3. CASE j < k
    BY <2>3 DEF ReplayInv, RevisionInv
  <2> QED
    BY <2>1, <2>2, <2>3
<1>7. S \in SUBSET (0..i)
  BY <1>1, <1>3
<1> HIDE DEF S
<1>8. ASSUME S # {}
      PROVE  s \in S /\ s # None /\ \A k \in S : s >= k
  <2>1. Max(S) \in S /\ \A k \in S : Max(S) >= k
    BY <1>1, <1>7, <1>8, GreatestIs
  <2>2. s = Max(S)
    BY <1>2, <1>8 DEF Latest
  <2>3. s \in Nat
    BY <1>1, <1>3, <2>1, <2>2
  <2> QED
    BY <2>1, <2>2, <2>3, NoneApart
<1>9. ASSUME s # None
      PROVE  log[s].artifact[2] <= Revision(log, i)
  <2>1. s \in S
    BY <1>2, <1>8, <1>9 DEF Latest
  <2>2. s \in 1..i /\ log[s].after # None /\ s \in DOMAIN log
    BY <1>1, <1>3, <1>4, <2>1
  <2>3. PICK m \in s..i : /\ m \in DOMAIN log /\ log[m].after # None
                          /\ Revision(log, i) = log[m].after
    BY <2>2, RevisionIs
  <2>4. s <= m
    BY <2>2, <2>3
  <2>5. log[s].after <= log[m].after
    BY <1>6, <2>2, <2>3, <2>4
  <2> QED
    BY <1>5, <2>1, <2>3, <2>5
<1>10. ASSUME i \in ContextEvents(log, i), ~Unavailable(log, lost, i)
       PROVE  s # None /\ log[s].artifact[2] = Revision(log, i)
  <2>1. i \in S
    BY <1>10 DEF S, Unavailable
  <2>2. s \in S /\ s # None /\ s >= i
    BY <1>8, <2>1
  <2>3. s = i
    BY <1>1, <1>3, <2>2
  <2>4. i \in 1..i /\ log[i].after # None
    BY <1>1, <1>4, <2>1
  <2>5. PICK m \in i..i : Revision(log, i) = log[m].after
    BY <2>4, RevisionIs
  <2>6. m = i
    BY <1>1
  <2> QED
    BY <1>5, <2>1, <2>2, <2>3, <2>5, <2>6
<1> QED
  BY <1>9, <1>10

-----------------------------------------------------------------------------
(* Lemmas about what a handler leaves to be appended *)

LEMMA ReplacedTyped ==
    ASSUME NEW S, NEW s \in Seq(S), NEW i \in DOMAIN s, NEW x \in S
    PROVE  [s EXCEPT ![i] = x] \in Seq(S)
  OBVIOUS

LEMMA EventOffered ==
    ASSUME NEW type \in EventTypes, NEW t \in Nat \cup {None}, NEW given
    PROVE  Event(type, t) \in Offered(given)
  BY EventTyped DEF Offered

LEMMA OfOffered ==
    ASSUME NEW type \in EventTypes, NEW r, r.id \in Nat, turn \in Nat, NEW given
    PROVE  Of(r, type) \in Offered(given)
  BY OfTyped DEF Offered

LEMMA OfToolOffered ==
    ASSUME NEW type \in EventTypes, NEW c \in ToolCall, turn \in Nat, NEW given
    PROVE  OfTool(c, type) \in Offered(given)
  BY OfToolTyped DEF Offered

\* Each field of an event that is offered can be given what the recorder gives it.
LEMMA OkOffered ==
    ASSUME NEW given, NEW e \in Offered(given), NEW x \in BOOLEAN
    PROVE  /\ [e EXCEPT !.ok = x] \in Offered(given)
           /\ [e EXCEPT !.ok = x].type = e.type
           /\ [e EXCEPT !.ok = x].ok = x
<1> DEFINE f == [e EXCEPT !.ok = x]
<1>1. e \in EventRecord
  BY DEF Offered
<1>2. f \in EventRecord /\ f.type = e.type /\ f.ok = x
  BY <1>1 DEF EventRecord
<1>3. /\ f.after = e.after /\ f.consumed = e.consumed /\ f.produced = e.produced
      /\ f.artifact = e.artifact /\ f.evidence = e.evidence
  BY <1>1 DEF EventRecord
<1> HIDE DEF f
<1>4. /\ f.after = None /\ f.consumed \subseteq given
      /\ f.type = "context.injected" => f.produced = {}
      /\ f.type = "context.projected" => f.artifact = None
      /\ f.type = "tool.completed" => f.evidence \subseteq Cited
  BY <1>2, <1>3 DEF Offered
<1>5. f \in Offered(given)
  BY <1>2, <1>4 DEF Offered
<1> QED
  BY <1>2, <1>5 DEF f

LEMMA ResultOffered ==
    ASSUME NEW given, NEW e \in Offered(given), NEW x \in BOOLEAN
    PROVE  /\ [e EXCEPT !.result = x] \in Offered(given)
           /\ [e EXCEPT !.result = x].type = e.type
           /\ [e EXCEPT !.result = x].result = x
<1> DEFINE f == [e EXCEPT !.result = x]
<1>1. e \in EventRecord
  BY DEF Offered
<1>2. f \in EventRecord /\ f.type = e.type /\ f.result = x
  BY <1>1 DEF EventRecord
<1>3. /\ f.after = e.after /\ f.consumed = e.consumed /\ f.produced = e.produced
      /\ f.artifact = e.artifact /\ f.evidence = e.evidence
  BY <1>1 DEF EventRecord
<1> HIDE DEF f
<1>4. /\ f.after = None /\ f.consumed \subseteq given
      /\ f.type = "context.injected" => f.produced = {}
      /\ f.type = "context.projected" => f.artifact = None
      /\ f.type = "tool.completed" => f.evidence \subseteq Cited
  BY <1>2, <1>3 DEF Offered
<1>5. f \in Offered(given)
  BY <1>2, <1>4 DEF Offered
<1> QED
  BY <1>2, <1>5 DEF f

LEMMA SubmissionOffered ==
    ASSUME NEW given, NEW e \in Offered(given), NEW x \in Nat
    PROVE  /\ [e EXCEPT !.submission = x] \in Offered(given)
           /\ [e EXCEPT !.submission = x].type = e.type
           /\ [e EXCEPT !.submission = x].submission = x
<1> DEFINE f == [e EXCEPT !.submission = x]
<1>1. e \in EventRecord
  BY DEF Offered
<1>2. f \in EventRecord /\ f.type = e.type /\ f.submission = x
  BY <1>1 DEF EventRecord
<1>3. /\ f.after = e.after /\ f.consumed = e.consumed /\ f.produced = e.produced
      /\ f.artifact = e.artifact /\ f.evidence = e.evidence
  BY <1>1 DEF EventRecord
<1> HIDE DEF f
<1>4. /\ f.after = None /\ f.consumed \subseteq given
      /\ f.type = "context.injected" => f.produced = {}
      /\ f.type = "context.projected" => f.artifact = None
      /\ f.type = "tool.completed" => f.evidence \subseteq Cited
  BY <1>2, <1>3 DEF Offered
<1>5. f \in Offered(given)
  BY <1>2, <1>4 DEF Offered
<1> QED
  BY <1>2, <1>5 DEF f

LEMMA StepOffered ==
    ASSUME NEW given, NEW e \in Offered(given), NEW x \in Nat
    PROVE  /\ [e EXCEPT !.step = x] \in Offered(given)
           /\ [e EXCEPT !.step = x].type = e.type
           /\ [e EXCEPT !.step = x].step = x
<1> DEFINE f == [e EXCEPT !.step = x]
<1>1. e \in EventRecord
  BY DEF Offered
<1>2. f \in EventRecord /\ f.type = e.type /\ f.step = x
  BY <1>1 DEF EventRecord
<1>3. /\ f.after = e.after /\ f.consumed = e.consumed /\ f.produced = e.produced
      /\ f.artifact = e.artifact /\ f.evidence = e.evidence
  BY <1>1 DEF EventRecord
<1> HIDE DEF f
<1>4. /\ f.after = None /\ f.consumed \subseteq given
      /\ f.type = "context.injected" => f.produced = {}
      /\ f.type = "context.projected" => f.artifact = None
      /\ f.type = "tool.completed" => f.evidence \subseteq Cited
  BY <1>2, <1>3 DEF Offered
<1>5. f \in Offered(given)
  BY <1>2, <1>4 DEF Offered
<1> QED
  BY <1>2, <1>5 DEF f

LEMMA ConsumedOffered ==
    ASSUME NEW given, NEW e \in Offered(given), NEW x \in SUBSET Ref, x \subseteq given
    PROVE  /\ [e EXCEPT !.consumed = x] \in Offered(given)
           /\ [e EXCEPT !.consumed = x].type = e.type
           /\ [e EXCEPT !.consumed = x].consumed = x
<1> DEFINE f == [e EXCEPT !.consumed = x]
<1>1. e \in EventRecord
  BY DEF Offered
<1>2. f \in EventRecord /\ f.type = e.type /\ f.consumed = x
  BY <1>1 DEF EventRecord
<1>3. /\ f.after = e.after /\ f.produced = e.produced /\ f.artifact = e.artifact
      /\ f.evidence = e.evidence
  BY <1>1 DEF EventRecord
<1> HIDE DEF f
<1>4. /\ f.after = None /\ f.consumed \subseteq given
      /\ f.type = "context.injected" => f.produced = {}
      /\ f.type = "context.projected" => f.artifact = None
      /\ f.type = "tool.completed" => f.evidence \subseteq Cited
  BY <1>2, <1>3 DEF Offered
<1>5. f \in Offered(given)
  BY <1>2, <1>4 DEF Offered
<1> QED
  BY <1>2, <1>5 DEF f

LEMMA ProducedOffered ==
    ASSUME NEW given, NEW e \in Offered(given), NEW x \in SUBSET Ref,
           e.type # "context.injected"
    PROVE  /\ [e EXCEPT !.produced = x] \in Offered(given)
           /\ [e EXCEPT !.produced = x].type = e.type
           /\ [e EXCEPT !.produced = x].produced = x
<1> DEFINE f == [e EXCEPT !.produced = x]
<1>1. e \in EventRecord
  BY DEF Offered
<1>2. f \in EventRecord /\ f.type = e.type /\ f.produced = x
  BY <1>1 DEF EventRecord
<1>3. /\ f.after = e.after /\ f.consumed = e.consumed /\ f.artifact = e.artifact
      /\ f.evidence = e.evidence
  BY <1>1 DEF EventRecord
<1> HIDE DEF f
<1>4. /\ f.after = None /\ f.consumed \subseteq given
      /\ f.type = "context.injected" => f.produced = {}
      /\ f.type = "context.projected" => f.artifact = None
      /\ f.type = "tool.completed" => f.evidence \subseteq Cited
  BY <1>2, <1>3 DEF Offered
<1>5. f \in Offered(given)
  BY <1>2, <1>4 DEF Offered
<1> QED
  BY <1>2, <1>5 DEF f

LEMMA ArtifactOffered ==
    ASSUME NEW given, NEW e \in Offered(given), NEW x \in Ref, e.type # "context.projected"
    PROVE  /\ [e EXCEPT !.artifact = x] \in Offered(given)
           /\ [e EXCEPT !.artifact = x].type = e.type
           /\ [e EXCEPT !.artifact = x].artifact = x
<1> DEFINE f == [e EXCEPT !.artifact = x]
<1>1. e \in EventRecord
  BY DEF Offered
<1>2. f \in EventRecord /\ f.type = e.type /\ f.artifact = x
  BY <1>1 DEF EventRecord
<1>3. /\ f.after = e.after /\ f.consumed = e.consumed /\ f.produced = e.produced
      /\ f.evidence = e.evidence
  BY <1>1 DEF EventRecord
<1> HIDE DEF f
<1>4. /\ f.after = None /\ f.consumed \subseteq given
      /\ f.type = "context.injected" => f.produced = {}
      /\ f.type = "context.projected" => f.artifact = None
      /\ f.type = "tool.completed" => f.evidence \subseteq Cited
  BY <1>2, <1>3 DEF Offered
<1>5. f \in Offered(given)
  BY <1>2, <1>4 DEF Offered
<1> QED
  BY <1>2, <1>5 DEF f

LEMMA EvidenceOffered ==
    ASSUME NEW given, NEW e \in Offered(given), NEW x \in SUBSET Ref,
           e.type = "tool.completed" => x \subseteq Cited
    PROVE  /\ [e EXCEPT !.evidence = x] \in Offered(given)
           /\ [e EXCEPT !.evidence = x].type = e.type
           /\ [e EXCEPT !.evidence = x].evidence = x
<1> DEFINE f == [e EXCEPT !.evidence = x]
<1>1. e \in EventRecord
  BY DEF Offered
<1>2. f \in EventRecord /\ f.type = e.type /\ f.evidence = x
  BY <1>1 DEF EventRecord
<1>3. /\ f.after = e.after /\ f.consumed = e.consumed /\ f.produced = e.produced
      /\ f.artifact = e.artifact
  BY <1>1 DEF EventRecord
<1> HIDE DEF f
<1>4. /\ f.after = None /\ f.consumed \subseteq given
      /\ f.type = "context.injected" => f.produced = {}
      /\ f.type = "context.projected" => f.artifact = None
      /\ f.type = "tool.completed" => f.evidence \subseteq Cited
  BY <1>2, <1>3 DEF Offered
<1>5. f \in Offered(given)
  BY <1>2, <1>4 DEF Offered
<1> QED
  BY <1>2, <1>5 DEF f

\* An event that names the document it produces.
LEMMA DocumentOffered ==
    ASSUME NEW given, NEW e \in Offered(given), NEW ref \in Ref,
           e.type \notin {"context.injected", "context.projected"}
    PROVE  LET f == [e EXCEPT !.artifact = ref, !.produced = {ref}]
           IN  f \in Offered(given) /\ f.type = e.type /\ f.produced = {ref}
<1> DEFINE d == [e EXCEPT !.artifact = ref]
           ps == {ref}
<1>1. d \in Offered(given) /\ d.type = e.type
  BY ArtifactOffered
<1>2. [e EXCEPT !.artifact = ref, !.produced = {ref}] = [d EXCEPT !.produced = ps]
  OBVIOUS
<1>3. ps \in SUBSET Ref
  OBVIOUS
<1> HIDE DEF d, ps
<1>4. LET f == [d EXCEPT !.produced = ps]
      IN  f \in Offered(given) /\ f.type = d.type /\ f.produced = ps
  BY <1>1, <1>3, ProducedOffered
<1> QED
  BY <1>1, <1>2, <1>4 DEF ps

LEMMA OfferedTyped ==
    ASSUME NEW given
    PROVE  Offered(given) \subseteq EventRecord
  BY DEF Offered

\* A handler that appends nothing itself keeps the invariant if what it leaves
\* is offered and the tools it starts announce themselves.
LEMMA HandlerKeeps ==
    ASSUME ReplayInv, UNCHANGED <<log, revision>>, pending = <<>>,
           pending' \in Seq(Offered(Given)),
           \A c \in calls' \ calls :
              \E k \in DOMAIN pending' : <<"call", c.tool>> \in pending'[k].produced
    PROVE  /\ pending' \in Seq(EventRecord)
           /\ log' \in Seq(EventRecord) /\ revision' \in Nat
           /\ ProducedInv' /\ RevisionInv'
<1>1. Given' = Given
  BY DEF Given
<1>2. Offered(Given)' = Offered(Given)
  BY <1>1 DEF Offered
<1>3. pending' \in Seq(EventRecord)
  <2>1. \A S, T : S \subseteq T => Seq(S) \subseteq Seq(T)
    OBVIOUS
  <2> QED
    BY <2>1, OfferedTyped
<1>4. \A c \in calls : <<"call", c.tool>> \in Given
  <2>1. DOMAIN pending = {}
    OBVIOUS
  <2> QED
    BY <2>1 DEF ReplayInv, ProducedInv
<1>5. \A c \in calls' : \/ <<"call", c.tool>> \in Given'
                        \/ \E k \in DOMAIN pending' : <<"call", c.tool>> \in pending'[k].produced
  BY <1>1, <1>4
<1>6. ProducedInv'
  BY <1>2, <1>5 DEF ReplayInv, ProducedInv
<1>7. RevisionInv'
  BY DEF ReplayInv, RevisionInv, Recorded
<1> QED
  BY <1>3, <1>6, <1>7 DEF ReplayInv, TypeOK

\* What may be cited was produced, or is evidence.
LEMMA KnownGiven ==
    ASSUME ReplayInv
    PROVE  /\ Known \subseteq Given /\ TurnRefs \subseteq Known /\ Known \subseteq Ref
           /\ Allowed \subseteq Given /\ Allowed \subseteq Ref
<1>1. \A i \in At(log, {"tool.completed"}) :
         /\ i \in DOMAIN log /\ log[i].evidence \subseteq Cited
         /\ log[i].produced \subseteq Ref
  <2> SUFFICES ASSUME NEW i \in At(log, {"tool.completed"})
               PROVE  /\ i \in DOMAIN log /\ log[i].evidence \subseteq Cited
                      /\ log[i].produced \subseteq Ref
    OBVIOUS
  <2>1. i \in DOMAIN log /\ log[i].type = "tool.completed"
    BY DEF At
  <2>2. log[i] \in EventRecord
    BY <2>1 DEF ReplayInv, TypeOK
  <2>3. log[i].produced \subseteq Ref
    BY <2>2 DEF EventRecord
  <2> QED
    BY <2>1, <2>3 DEF ReplayInv, RevisionInv, Recorded
<1>2. Cited \subseteq Ref
  BY DEF Cited, Ref
<1>3. ASSUME NEW ref \in Known
      PROVE  ref \in Given /\ ref \in Ref
  <2>1. PICK i \in At(log, {"tool.completed"}) : ref \in log[i].produced \cup log[i].evidence
    BY DEF Known
  <2>2. ref \in Cited \/ (i \in DOMAIN log /\ ref \in log[i].produced)
    BY <1>1, <2>1
  <2> QED
    BY <1>1, <1>2, <2>2 DEF Given, Unproduced
<1>4. TurnRefs \subseteq Known
  BY DEF TurnRefs
<1>5. Allowed \subseteq Known \cup {Context} \cup ({"observation"} \X Nat)
  BY DEF Allowed
<1>6. {Context} \cup ({"observation"} \X Nat) \subseteq Given \cap Ref
  BY DEF Given, Unproduced, Ref
<1> HIDE DEF Known, Allowed
<1> QED
  BY <1>3, <1>4, <1>5, <1>6

LEMMA Counted ==
    ASSUME log \in Seq(EventRecord), NEW types
    PROVE  Cardinality(At(log, types)) \in Nat
<1>1. At(log, types) \subseteq 1..Len(log)
  BY DEF At
<1>2. IsFiniteSet(1..Len(log))
  BY FS_Interval
<1> QED
  BY <1>1, <1>2, FS_Subset, FS_CardinalityType

LEMMA UnsettledFinite ==
    ASSUME requests \in Seq(TrackedRequest)
    PROVE  /\ Unsettled \in SUBSET Nat /\ Unsettled \subseteq DOMAIN requests
           /\ Cardinality(Unsettled) \in Nat
           /\ Unsettled # {} => Min(Unsettled) \in Unsettled
<1>1. Unsettled \subseteq 1..Len(requests) /\ Unsettled \subseteq DOMAIN requests
  BY DEF Unsettled
<1>2. IsFiniteSet(1..Len(requests))
  BY FS_Interval
<1>3. Cardinality(Unsettled) \in Nat
  BY <1>1, <1>2, FS_Subset, FS_CardinalityType
<1>4. Unsettled # {} => Earliest(Unsettled) \in Unsettled
  BY <1>1, EarliestIs
<1> QED
  BY <1>1, <1>3, <1>4 DEF Earliest

-----------------------------------------------------------------------------
(* The steps *)

LEMMA InitReplay ==
    ASSUME Init
    PROVE  ReplayInv
<1>1. TypeOK
  BY DEF Init, TypeOK
<1>2. ProducedInv
  BY DEF Init, ProducedInv
<1>3. RevisionInv
  BY DEF Init, RevisionInv
<1> QED
  BY <1>1, <1>2, <1>3 DEF ReplayInv

\* The appender: what was offered becomes the last event.
LEMMA WriteReplay ==
    ASSUME ReplayInv, Write
    PROVE  ReplayInv'
<1> DEFINE e == Head(pending)
           b == Bounded(e)
           n == Len(log) + 1
<1>1. /\ pending # <<>> /\ pending \in Seq(Offered(Given))
      /\ log \in Seq(EventRecord) /\ revision \in Nat
  BY DEF ReplayInv, TypeOK, ProducedInv, Write
<1>2. e \in Offered(Given) /\ e = pending[1]
  BY <1>1
<1>3. e \in EventRecord /\ e.after = None
  BY <1>2 DEF Offered
<1>4. /\ log' = Append(log, b) /\ pending' = Tail(pending)
      /\ revision' = IF e.type \in ContextTypes THEN revision + 1 ELSE revision
      /\ UNCHANGED <<phase, turn, requests, round, calls>>
  BY DEF Write
<1> HIDE DEF e
<1>5. /\ b \in EventRecord
      /\ b.type = e.type /\ b.consumed = e.consumed /\ b.evidence = e.evidence
      /\ e.type = "context.injected" => /\ b.artifact = <<"view", revision>>
                                        /\ b.after = revision
      /\ e.type # "context.injected" => /\ b.produced = e.produced
                                        /\ b.artifact = e.artifact
      /\ e.type \in ContextTypes => b.after = revision + 1
      /\ e.type \notin ContextTypes \cup {"context.injected"} => b.after = None
  BY <1>1, <1>3, BoundedIs
<1> HIDE DEF b
<1>6. /\ log' \in Seq(EventRecord) /\ DOMAIN log' = 1..n /\ DOMAIN log = 1..(n-1)
      /\ n \in Nat /\ n >= 1 /\ Len(log) \in Nat
      /\ log'[n] = b /\ \A i \in DOMAIN log : log'[i] = log[i]
  BY <1>1, <1>4, <1>5
<1> HIDE DEF n
<1>7. /\ DOMAIN log \subseteq DOMAIN log' /\ n \in DOMAIN log'
      /\ \A i \in DOMAIN log : i < n
      /\ \A i \in DOMAIN log' : i \in DOMAIN log \/ i = n
  <2>1. \A i \in 1..n : i \in 1..(n-1) \/ i = n
    BY <1>6
  <2>2. 1..(n-1) \subseteq 1..n /\ n \in 1..n /\ \A i \in 1..(n-1) : i < n
    BY <1>6
  <2> QED
    BY <1>6, <2>1, <2>2
<1>8. revision' \in Nat /\ revision <= revision'
  BY <1>1, <1>4
<1>9. e.produced \subseteq b.produced
  BY <1>2, <1>5 DEF Offered
<1>10. Given \subseteq Given'
  <2> SUFFICES ASSUME NEW ref \in Given
               PROVE  ref \in Given'
    OBVIOUS
  <2>1. CASE ref \in Unproduced
    BY <2>1 DEF Given
  <2>2. CASE ref \notin Unproduced
    <3>1. PICK i \in DOMAIN log : ref \in log[i].produced
      BY <2>2 DEF Given
    <3>2. i \in DOMAIN log' /\ ref \in log'[i].produced
      BY <1>6, <1>7, <3>1
    <3> QED
      BY <3>2 DEF Given
  <2> QED
    BY <2>1, <2>2
<1>11. b.produced \subseteq Given'
  BY <1>6, <1>7 DEF Given
<1>12. Offered(Given) \subseteq Offered(Given')
  BY <1>10 DEF Offered
<1>13. pending' \in Seq(Offered(Given'))
  <2>1. pending' \in Seq(Offered(Given))
    BY <1>1, <1>4
  <2>2. \A S, T : S \subseteq T => Seq(S) \subseteq Seq(T)
    OBVIOUS
  <2> QED
    BY <1>12, <2>1, <2>2
<1>14. TypeOK'
  <2>1. pending' \in Seq(EventRecord)
    BY <1>1, <1>4 DEF ReplayInv, TypeOK
  <2> QED
    BY <1>4, <1>6, <1>8, <2>1 DEF ReplayInv, TypeOK
<1>15. ProducedInv'
  <2>1. ASSUME NEW c \in calls'
        PROVE  \/ <<"call", c.tool>> \in Given'
               \/ \E k \in DOMAIN pending' : <<"call", c.tool>> \in pending'[k].produced
    <3> DEFINE ref == <<"call", c.tool>>
    <3>1. ref \in Given \/ \E k \in DOMAIN pending : ref \in pending[k].produced
      BY <1>4, <2>1 DEF ReplayInv, ProducedInv
    <3> HIDE DEF ref
    <3>2. CASE ref \in Given
      BY <1>10, <3>2 DEF ref
    <3>3. ASSUME NEW k \in DOMAIN pending, ref \in pending[k].produced
          PROVE  ref \in Given' \/ \E m \in DOMAIN pending' : ref \in pending'[m].produced
      <4>1. CASE k = 1
        <5>1. ref \in e.produced
          BY <1>2, <3>3, <4>1
        <5> QED
          BY <1>9, <1>11, <5>1
      <4>2. CASE k # 1
        <5>1. k \in 1..Len(pending) /\ Len(pending) \in Nat
          BY <1>1
        <5>2. k - 1 \in 1..(Len(pending) - 1) /\ DOMAIN pending' = 1..(Len(pending) - 1)
          BY <1>1, <1>4, <4>2, <5>1
        <5>3. pending'[k - 1] = pending[k]
          BY <1>1, <1>4, <4>2, <5>1, <5>2
        <5> QED
          BY <3>3, <5>2, <5>3
      <4> QED
        BY <4>1, <4>2
    <3> QED
      BY <3>1, <3>2, <3>3 DEF ref
  <2>2. ASSUME NEW i \in DOMAIN log', NEW ref \in log'[i].consumed \ Unproduced
        PROVE  \E j \in DOMAIN log' : j < i /\ ref \in log'[j].produced
    <3>1. CASE i \in DOMAIN log
      <4>1. ref \in log[i].consumed \ Unproduced
        BY <1>6, <2>2, <3>1
      <4>2. PICK j \in DOMAIN log : j < i /\ ref \in log[j].produced
        BY <3>1, <4>1 DEF ReplayInv, ProducedInv
      <4> QED
        BY <1>6, <1>7, <4>2
    <3>2. CASE i = n
      <4>1. ref \in Given \ Unproduced
        BY <1>2, <1>5, <1>6, <2>2, <3>2 DEF Offered
      <4>2. PICK j \in DOMAIN log : ref \in log[j].produced
        BY <4>1 DEF Given
      <4> QED
        BY <1>6, <1>7, <3>2, <4>2
    <3> QED
      BY <1>7, <3>1, <3>2
  <2>3. calls' = calls
    BY <1>4
  <2> QED
    BY <1>13, <2>1, <2>2 DEF ProducedInv
<1>16. RevisionInv'
  <2>1. ASSUME NEW i \in DOMAIN log
        PROVE  Recorded(log'[i], revision')
    <3>1. log'[i] = log[i] /\ Recorded(log[i], revision)
      BY <1>6 DEF ReplayInv, RevisionInv
    <3>2. log[i].after # None => log[i].after \in Nat
      <4>1. log[i] \in EventRecord
        BY <1>1
      <4> QED
        BY <4>1 DEF EventRecord
    <3> QED
      BY <1>1, <1>8, <3>1, <3>2 DEF Recorded
  <2>2. Recorded(b, revision')
    <3>1. /\ e.type = "context.projected" => e.artifact = None
          /\ e.type = "tool.completed" => e.evidence \subseteq Cited
      BY <1>2 DEF Offered
    <3>2. "context.projected" \in ContextTypes /\ "context.injected" \notin ContextTypes
      BY DEF ContextTypes
    <3>3. b.after # None => b.after <= revision'
      BY <1>1, <1>4, <1>5, <3>2
    <3>4. b.type = "context.injected" => b.after # None /\ b.artifact = <<"view", b.after>>
      BY <1>1, <1>5, NoneApart
    <3>5. b.type = "context.projected" => b.after # None /\ b.artifact = None
      <4>1. revision + 1 # None
        BY <1>1, NoneApart
      <4> QED
        BY <1>5, <3>1, <3>2, <4>1
    <3>6. b.type = "tool.completed" => b.evidence \subseteq Cited
      BY <1>5, <3>1
    <3> QED
      BY <3>3, <3>4, <3>5, <3>6 DEF Recorded
  <2>3. \A i \in DOMAIN log' : Recorded(log'[i], revision')
    BY <1>6, <1>7, <2>1, <2>2
  <2>4. ASSUME NEW i \in DOMAIN log', NEW j \in DOMAIN log', i < j,
               log'[i].after # None, log'[j].after # None
        PROVE  log'[i].after <= log'[j].after
    <3>1. i \in DOMAIN log
      BY <1>6, <1>7, <2>4
    <3>2. CASE j \in DOMAIN log
      BY <1>6, <2>4, <3>1, <3>2 DEF ReplayInv, RevisionInv
    <3>3. CASE j = n
      <4>1. log'[i].after <= revision
        BY <1>6, <2>4, <3>1 DEF ReplayInv, RevisionInv, Recorded
      <4>2. log'[j].after \in {revision, revision + 1}
        BY <1>5, <1>6, <2>4, <3>3
      <4>3. log'[i].after \in Nat
        <5>1. log'[i] \in EventRecord
          BY <1>1, <1>6, <3>1
        <5> QED
          BY <2>4, <5>1 DEF EventRecord
      <4> QED
        BY <1>1, <4>1, <4>2, <4>3
    <3> QED
      BY <1>7, <3>2, <3>3
  <2> QED
    BY <2>3, <2>4 DEF RevisionInv
<1> QED
  BY <1>14, <1>15, <1>16 DEF ReplayInv

LEMMA StartReplay ==
    ASSUME ReplayInv, Start
    PROVE  ReplayInv'
<1>1. /\ pending' = <<Event("analysis.started", None), Event("context.injected", None)>>
      /\ phase' = "idle" /\ pending = <<>>
      /\ UNCHANGED <<log, turn, revision, requests, round, calls>>
  BY DEF Start, Ready, ViewInjected
<1>2. /\ Event("analysis.started", None) \in Offered(Given)
      /\ Event("context.injected", None) \in Offered(Given)
  BY EventOffered DEF EventTypes, ContextTypes
<1>3. pending' \in Seq(Offered(Given))
  BY <1>1, <1>2
<1>4. /\ pending' \in Seq(EventRecord) /\ log' \in Seq(EventRecord) /\ revision' \in Nat
      /\ ProducedInv' /\ RevisionInv'
  BY <1>1, <1>3, HandlerKeeps
<1> QED
  BY <1>1, <1>4 DEF ReplayInv, TypeOK

LEMMA StartTurnReplay ==
    ASSUME ReplayInv, StartTurn
    PROVE  ReplayInv'
<1>1. /\ pending' = <<Event("turn.started", turn + 1), Event("context.injected", None)>>
      /\ phase' = "turn" /\ pending = <<>> /\ turn' = turn + 1
      /\ requests' = <<>> /\ round' = None /\ calls' = {}
      /\ UNCHANGED <<log, revision>>
  BY DEF StartTurn, Ready, ViewInjected
<1>2. turn + 1 \in Nat
  BY DEF ReplayInv, TypeOK
<1> DEFINE t == turn + 1
<1> HIDE DEF t
<1>3. /\ Event("turn.started", t) \in Offered(Given)
      /\ Event("context.injected", None) \in Offered(Given)
  BY <1>2, EventOffered DEF EventTypes, ContextTypes, t
<1>4. pending' \in Seq(Offered(Given))
  BY <1>1, <1>3 DEF t
<1>5. /\ pending' \in Seq(EventRecord) /\ log' \in Seq(EventRecord) /\ revision' \in Nat
      /\ ProducedInv' /\ RevisionInv'
  BY <1>1, <1>4, HandlerKeeps
<1> QED
  BY <1>1, <1>2, <1>5 DEF ReplayInv, TypeOK

LEMMA RequestReplay ==
    ASSUME ReplayInv, Request
    PROVE  ReplayInv'
<1> DEFINE id == RequestsSoFar + 1
           r == [id |-> id]
           o == Of(r, "model.request.started")
           ref == <<"input", id>>
           request == [o EXCEPT !.artifact = ref, !.produced = {ref}]
           step == [Event("step.started", turn) EXCEPT !.step = id]
<1>1. id \in Nat
  BY Counted DEF RequestsSoFar, ReplayInv, TypeOK
<1>2. /\ pending' = IF recording = "schema" THEN <<step, request>> ELSE <<request>>
      /\ requests' = Append(requests, [id |-> id, settled |-> FALSE])
      /\ UNCHANGED <<log, phase, turn, revision, round, calls>> /\ pending = <<>>
  BY DEF Request, MayWork, Ready
<1>3. turn \in Nat
  BY DEF ReplayInv, TypeOK
<1> HIDE DEF id
<1>4. r.id \in Nat /\ ref \in Ref
  BY <1>1 DEF Ref
<1> HIDE DEF ref, r
<1>5. o \in Offered(Given) /\ o.type = "model.request.started"
  BY <1>3, <1>4, OfOffered, OfTyped DEF EventTypes
<1> HIDE DEF o
<1>6. request \in Offered(Given)
  BY <1>4, <1>5, DocumentOffered
<1>7. step \in Offered(Given)
  <2> DEFINE e == Event("step.started", turn)
  <2>1. e \in Offered(Given)
    BY <1>3, EventOffered DEF EventTypes
  <2> HIDE DEF e
  <2>2. [e EXCEPT !.step = id] \in Offered(Given)
    BY <1>1, <2>1, StepOffered
  <2> QED
    BY <2>2 DEF e
<1> HIDE DEF request, step
<1>8. pending' \in Seq(Offered(Given))
  BY <1>2, <1>6, <1>7
<1>9. /\ pending' \in Seq(EventRecord) /\ log' \in Seq(EventRecord) /\ revision' \in Nat
      /\ ProducedInv' /\ RevisionInv'
  BY <1>2, <1>8, HandlerKeeps
<1>10. requests' \in Seq(TrackedRequest)
  BY <1>1, <1>2 DEF ReplayInv, TypeOK, TrackedRequest
<1> QED
  BY <1>2, <1>9, <1>10 DEF ReplayInv, TypeOK

\* The request that is answered, or that has failed.
LEMMA SettledTyped ==
    ASSUME ReplayInv, Unsettled # {},
           requests' = [requests EXCEPT ![Min(Unsettled)].settled = TRUE]
    PROVE  /\ requests[Min(Unsettled)] \in TrackedRequest
           /\ requests' \in Seq(TrackedRequest)
<1> DEFINE i == Min(Unsettled)
           s == [requests[i] EXCEPT !.settled = TRUE]
<1>1. requests \in Seq(TrackedRequest)
  BY DEF ReplayInv, TypeOK
<1>2. i \in DOMAIN requests
  BY <1>1, UnsettledFinite
<1>3. requests' = [requests EXCEPT ![i] = s]
  OBVIOUS
<1> HIDE DEF i
<1>4. requests[i] \in TrackedRequest
  BY <1>1, <1>2
<1>5. s \in TrackedRequest
  BY <1>4 DEF TrackedRequest
<1> HIDE DEF s
<1>6. [requests EXCEPT ![i] = s] \in Seq(TrackedRequest)
  BY <1>1, <1>2, <1>5, ReplacedTyped
<1> QED
  BY <1>3, <1>4, <1>6 DEF i

LEMMA RespondReplay ==
    ASSUME ReplayInv, NEW toolUse \in BOOLEAN, Respond(toolUse)
    PROVE  ReplayInv'
<1> DEFINE r == requests[Min(Unsettled)]
           o == Of(r, "model.response.completed")
           ref == <<"response", r.id>>
           e == [o EXCEPT !.artifact = ref, !.produced = {ref}]
<1>1. /\ pending' = <<e>> /\ Unsettled # {}
      /\ requests' = [requests EXCEPT ![Min(Unsettled)].settled = TRUE]
      /\ round' = IF toolUse THEN r.id ELSE round
      /\ UNCHANGED <<log, phase, turn, revision, calls>> /\ pending = <<>>
  BY DEF Respond, MayWork, Ready
<1>2. r \in TrackedRequest /\ requests' \in Seq(TrackedRequest)
  BY <1>1, SettledTyped
<1>3. turn \in Nat
  BY DEF ReplayInv, TypeOK
<1> HIDE DEF r
<1>4. r.id \in Nat /\ ref \in Ref
  BY <1>2 DEF Ref, TrackedRequest
<1> HIDE DEF ref
<1>5. o \in Offered(Given) /\ o.type = "model.response.completed"
  BY <1>3, <1>4, OfOffered, OfTyped DEF EventTypes
<1> HIDE DEF o
<1>6. e \in Offered(Given)
  BY <1>4, <1>5, DocumentOffered
<1> HIDE DEF e
<1>7. pending' \in Seq(Offered(Given))
  BY <1>1, <1>6
<1>8. /\ pending' \in Seq(EventRecord) /\ log' \in Seq(EventRecord) /\ revision' \in Nat
      /\ ProducedInv' /\ RevisionInv'
  BY <1>1, <1>7, HandlerKeeps
<1> QED
  BY <1>1, <1>2, <1>4, <1>8 DEF ReplayInv, TypeOK

LEMMA FailResponseReplay ==
    ASSUME ReplayInv, FailResponse
    PROVE  ReplayInv'
<1> DEFINE r == requests[Min(Unsettled)]
           o == Of(r, "model.response.failed")
           e == [o EXCEPT !.ok = FALSE]
<1>1. /\ pending' = <<e>> /\ Unsettled # {}
      /\ requests' = [requests EXCEPT ![Min(Unsettled)].settled = TRUE]
      /\ round' = None
      /\ UNCHANGED <<log, phase, turn, revision, calls>> /\ pending = <<>>
  BY DEF FailResponse, MayWork, Ready
<1>2. r \in TrackedRequest /\ requests' \in Seq(TrackedRequest)
  BY <1>1, SettledTyped
<1>3. turn \in Nat
  BY DEF ReplayInv, TypeOK
<1> HIDE DEF r
<1>4. r.id \in Nat
  BY <1>2 DEF TrackedRequest
<1>5. o \in Offered(Given)
  BY <1>3, <1>4, OfOffered DEF EventTypes
<1> HIDE DEF o
<1>6. e \in Offered(Given)
  BY <1>5, OkOffered
<1> HIDE DEF e
<1>7. pending' \in Seq(Offered(Given))
  BY <1>1, <1>6
<1>8. /\ pending' \in Seq(EventRecord) /\ log' \in Seq(EventRecord) /\ revision' \in Nat
      /\ ProducedInv' /\ RevisionInv'
  BY <1>1, <1>7, HandlerKeeps
<1> QED
  BY <1>1, <1>2, <1>8 DEF ReplayInv, TypeOK

LEMMA RetryReplay ==
    ASSUME ReplayInv, NEW type \in {"model.retry.started", "model.retry.exhausted"}, Retry(type)
    PROVE  ReplayInv'
<1> DEFINE r == requests[Len(requests)]
<1>1. /\ pending' = <<Of(r, type)>> /\ requests # <<>>
      /\ UNCHANGED <<log, phase, turn, revision, requests, round, calls>> /\ pending = <<>>
  BY DEF Retry, MayWork, Ready
<1>2. turn \in Nat /\ requests \in Seq(TrackedRequest)
  BY DEF ReplayInv, TypeOK
<1>3. r \in TrackedRequest
  BY <1>1, <1>2
<1> HIDE DEF r
<1>4. Of(r, type) \in Offered(Given)
  BY <1>2, <1>3, OfOffered DEF TrackedRequest, EventTypes
<1>5. pending' \in Seq(Offered(Given))
  BY <1>1, <1>4
<1>6. /\ pending' \in Seq(EventRecord) /\ log' \in Seq(EventRecord) /\ revision' \in Nat
      /\ ProducedInv' /\ RevisionInv'
  BY <1>1, <1>5, HandlerKeeps
<1> QED
  BY <1>1, <1>6 DEF ReplayInv, TypeOK

LEMMA StartToolReplay ==
    ASSUME ReplayInv, StartTool
    PROVE  ReplayInv'
<1> DEFINE tool == Cardinality(At(log, {"tool.started"})) + 1
           c == [tool |-> tool,
                 request |-> IF round # None THEN round ELSE requests[Len(requests)].id]
           o == OfTool(c, "tool.started")
           ref == <<"call", tool>>
           e == [o EXCEPT !.artifact = ref, !.produced = {ref}]
<1>1. /\ pending' = <<e>> /\ requests # <<>>
      /\ calls' = calls \cup {c}
      /\ UNCHANGED <<log, phase, turn, revision, requests, round>> /\ pending = <<>>
  BY DEF StartTool, MayWork, Ready
<1>2. turn \in Nat /\ requests \in Seq(TrackedRequest) /\ round \in Nat \cup {None}
  BY DEF ReplayInv, TypeOK
<1>3. tool \in Nat
  BY Counted DEF ReplayInv, TypeOK
<1> HIDE DEF tool
<1>4. requests[Len(requests)] \in TrackedRequest
  BY <1>1, <1>2
<1>5. c \in ToolCall /\ ref \in Ref /\ <<"call", c.tool>> = ref
  BY <1>2, <1>3, <1>4 DEF Ref, ToolCall, TrackedRequest
<1> HIDE DEF c, ref
<1>6. o \in Offered(Given) /\ o.type = "tool.started"
  BY <1>2, <1>5, OfToolOffered, OfToolTyped DEF EventTypes
<1> HIDE DEF o
<1>7. e \in Offered(Given) /\ e.produced = {ref}
  <2>1. o.type \notin {"context.injected", "context.projected"}
    BY <1>6
  <2> QED
    BY <1>5, <1>6, <2>1, DocumentOffered
<1> HIDE DEF e
<1>8. pending' \in Seq(Offered(Given)) /\ 1 \in DOMAIN pending' /\ pending'[1] = e
  BY <1>1, <1>7
<1>9. \A d \in calls' \ calls :
         \E k \in DOMAIN pending' : <<"call", d.tool>> \in pending'[k].produced
  BY <1>1, <1>5, <1>7, <1>8
<1>10. /\ pending' \in Seq(EventRecord) /\ log' \in Seq(EventRecord) /\ revision' \in Nat
       /\ ProducedInv' /\ RevisionInv'
  BY <1>1, <1>8, <1>9, HandlerKeeps
<1> QED
  BY <1>1, <1>5, <1>10 DEF ReplayInv, TypeOK

\* Of a finite set of numbers, the k-th has k - 1 below it.
LEMMA RankExists ==
    ASSUME NEW n \in Nat, NEW U \in SUBSET (1..n), NEW k \in 1..Cardinality(U)
    PROVE  \E i \in U : Cardinality({j \in U : j < i}) = k - 1
<1> DEFINE Below(m) == {j \in U : j < m}
           T == {m \in Nat : k <= Cardinality(Below(m))}
<1>1. IsFiniteSet(U)
  <2>1. IsFiniteSet(1..n)
    BY FS_Interval
  <2> QED
    BY <2>1, FS_Subset
<1>0. \A j \in U : j \in Nat /\ ~(j < 0) /\ j < n + 1
  OBVIOUS
<1>2. Cardinality(U) \in Nat
  BY <1>1, FS_CardinalityType
<1>3. k \in Nat /\ k >= 1 /\ k <= Cardinality(U)
  BY <1>2
<1>4. \A m : IsFiniteSet(Below(m)) /\ Cardinality(Below(m)) \in Nat
  BY <1>1, FS_Subset, FS_CardinalityType
<1>5. Below(n + 1) = U
  BY <1>0
<1>6. n + 1 \in T
  BY <1>3, <1>5
<1>7. PICK m \in T : \A t \in T : m <= t
  <2> HIDE DEF T
  <2>1. T \in SUBSET Nat
    BY DEF T
  <2> QED
    BY <1>6, <2>1, LeastExists
<1>8. m \in Nat /\ k <= Cardinality(Below(m))
  BY <1>7
<1>9. m # 0
  <2>1. Below(0) = {}
    BY <1>0
  <2>2. Cardinality(Below(0)) = 0
    BY <2>1, FS_EmptySet
  <2> QED
    BY <1>3, <1>8, <2>2
<1> DEFINE i == m - 1
<1>10. i \in Nat /\ i < m /\ m = i + 1
  BY <1>8, <1>9
<1>11. ~(k <= Cardinality(Below(i)))
  BY <1>7, <1>10
<1> HIDE DEF i
<1>12. i \in U
  <2> SUFFICES ASSUME i \notin U
               PROVE  FALSE
    OBVIOUS
  <2>1. \A j \in U : j < m <=> j < i
    BY <1>10
  <2>2. Below(m) = Below(i)
    BY <2>1
  <2> QED
    BY <1>8, <1>11, <2>2
<1>13. Below(m) = Below(i) \cup {i}
  <2>1. \A j \in U : j < m <=> (j < i \/ j = i)
    BY <1>0, <1>10
  <2> QED
    BY <1>10, <1>12, <2>1
<1>14. i \notin Below(i)
  BY <1>10
<1> HIDE DEF Below
<1>15. Cardinality(Below(m)) = Cardinality(Below(i)) + 1
  BY <1>4, <1>13, <1>14, FS_AddElement
<1>16. Cardinality(Below(i)) = k - 1
  BY <1>3, <1>4, <1>8, <1>11, <1>15
<1> QED
  BY <1>12, <1>16 DEF Below

\* What ends with its turn is one of the requests that are not settled.
LEMMA InterruptedIs ==
    ASSUME ReplayInv, NEW k \in 1..Cardinality(Unsettled)
    PROVE  \E i \in Unsettled :
              Interrupted[k] = [Of(requests[i], "model.response.failed") EXCEPT !.ok = FALSE]
<1> DEFINE P(i) == Cardinality({j \in Unsettled : j < i}) = k - 1
           c == CHOOSE i \in Unsettled : P(i)
<1>1. Unsettled \subseteq 1..Len(requests) /\ Len(requests) \in Nat
  BY DEF Unsettled, ReplayInv, TypeOK
<1>2. \E i \in Unsettled : P(i)
  BY <1>1, RankExists
<1>3. c \in Unsettled
  BY <1>2
<1>4. Interrupted[k] = [Of(requests[c], "model.response.failed") EXCEPT !.ok = FALSE]
  BY DEF Interrupted
<1> HIDE DEF c
<1> QED
  BY <1>3, <1>4

LEMMA InterruptedOffered ==
    ASSUME ReplayInv, NEW given
    PROVE  Interrupted \in Seq(Offered(given))
<1> DEFINE N == Cardinality(Unsettled)
<1>1. requests \in Seq(TrackedRequest) /\ turn \in Nat
  BY DEF ReplayInv, TypeOK
<1>2. N \in Nat /\ Unsettled \subseteq DOMAIN requests
  BY <1>1, UnsettledFinite
<1>3. ASSUME NEW k \in 1..N
      PROVE  Interrupted[k] \in Offered(given)
  <2>1. PICK i \in Unsettled :
           Interrupted[k] = [Of(requests[i], "model.response.failed") EXCEPT !.ok = FALSE]
    BY <1>3, InterruptedIs
  <2> DEFINE r == requests[i]
             o == Of(r, "model.response.failed")
  <2>2. r \in TrackedRequest
    BY <1>1, <1>2
  <2> HIDE DEF r
  <2>3. o \in Offered(given)
    BY <1>1, <2>2, OfOffered DEF EventTypes, TrackedRequest
  <2> HIDE DEF o
  <2>4. [o EXCEPT !.ok = FALSE] \in Offered(given)
    BY <2>3, OkOffered
  <2> QED
    BY <2>1, <2>4 DEF o, r
<1>4. DOMAIN Interrupted = 1..N /\ Interrupted = [k \in 1..N |-> Interrupted[k]]
  BY DEF Interrupted
<1> HIDE DEF N
<1>5. Interrupted \in [1..N -> Offered(given)]
  BY <1>3, <1>4
<1> QED
  BY <1>2, <1>5

-----------------------------------------------------------------------------
(* A tool that has completed *)

LEMMA CompletedOffered ==
    ASSUME ReplayInv, NEW c \in calls, NEW kind \in Kinds, <<"call", c.tool>> \in Given
    PROVE  [OfTool(c, "tool.completed") EXCEPT
               !.ok = kind \notin Failures, !.result = kind \in {"analysis", "query"},
               !.consumed = {<<"call", c.tool>>}, !.artifact = <<"call", c.tool>>,
               !.produced = ProducedBy(kind), !.evidence = CitedBy(kind)] \in Offered(Given)
<1> DEFINE ref == <<"call", c.tool>>
           refs == {ref}
           o == OfTool(c, "tool.completed")
           solved == kind \in {"analysis", "query"}
           fine == kind \notin Failures
           P == ProducedBy(kind)
           E == CitedBy(kind)
           e1 == [o EXCEPT !.ok = fine]
           e2 == [e1 EXCEPT !.result = solved]
           e3 == [e2 EXCEPT !.consumed = refs]
           e4 == [e3 EXCEPT !.artifact = ref]
           e5 == [e4 EXCEPT !.produced = P]
           e6 == [e5 EXCEPT !.evidence = E]
<1>1. [OfTool(c, "tool.completed") EXCEPT
          !.ok = kind \notin Failures, !.result = kind \in {"analysis", "query"},
          !.consumed = {<<"call", c.tool>>}, !.artifact = <<"call", c.tool>>,
          !.produced = ProducedBy(kind), !.evidence = CitedBy(kind)] = e6
  OBVIOUS
<1>2. c \in ToolCall /\ turn \in Nat
  BY DEF ReplayInv, TypeOK
<1>3. ref \in Ref /\ refs \in SUBSET Ref /\ refs \subseteq Given
  BY <1>2 DEF Ref, ToolCall
<1>4. P \in SUBSET Ref /\ E \in SUBSET Ref /\ E \subseteq Cited
  BY DEF ProducedBy, CitedBy, Ref, Cited
<1>5. solved \in BOOLEAN /\ fine \in BOOLEAN
  OBVIOUS
<1> HIDE DEF ref, refs, solved, fine, P, E
<1>6. o \in Offered(Given) /\ o.type = "tool.completed"
  BY <1>2, OfToolOffered, OfToolTyped DEF EventTypes
<1> HIDE DEF o
<1>7. e1 \in Offered(Given) /\ e1.type = "tool.completed"
  BY <1>5, <1>6, OkOffered
<1> HIDE DEF e1
<1>8. e2 \in Offered(Given) /\ e2.type = "tool.completed"
  BY <1>5, <1>7, ResultOffered
<1> HIDE DEF e2
<1>9. e3 \in Offered(Given) /\ e3.type = "tool.completed"
  BY <1>3, <1>8, ConsumedOffered
<1> HIDE DEF e3
<1>10. e4 \in Offered(Given) /\ e4.type = "tool.completed"
  BY <1>3, <1>9, ArtifactOffered
<1> HIDE DEF e4
<1>11. e5 \in Offered(Given) /\ e5.type = "tool.completed"
  BY <1>4, <1>10, ProducedOffered
<1> HIDE DEF e5
<1>12. e6 \in Offered(Given)
  BY <1>4, <1>11, EvidenceOffered
<1> HIDE DEF e6
<1> QED
  BY <1>1, <1>12

\* An observation of references that are known.
LEMMA ObservedOffered ==
    ASSUME ReplayInv, NEW consumed \in SUBSET Ref, NEW produced \in SUBSET Ref,
           consumed \subseteq Given
    PROVE  Observed(consumed, produced) \in Offered(Given)
<1> DEFINE p == Event("context.projected", turn)
           q == [p EXCEPT !.consumed = consumed]
           f == [q EXCEPT !.produced = produced]
<1>1. turn \in Nat
  BY DEF ReplayInv, TypeOK
<1>2. p \in Offered(Given) /\ p.type = "context.projected"
  BY <1>1, EventOffered, EventTyped DEF EventTypes, ContextTypes
<1>3. Observed(consumed, produced) = f
  BY DEF Observed
<1> HIDE DEF p
<1>4. q \in Offered(Given) /\ q.type = "context.projected"
  BY <1>2, ConsumedOffered
<1> HIDE DEF q
<1>5. f \in Offered(Given)
  BY <1>4, ProducedOffered
<1> QED
  BY <1>3, <1>5

LEMMA ObservedIs ==
    ASSUME NEW consumed, NEW produced
    PROVE  LET o == Observed(consumed, produced)
           IN  /\ o.type = "context.projected" /\ o.turn = turn /\ o.tool = None
               /\ o.consumed = consumed /\ o.produced = produced
  BY DEF Observed, Event

LEMMA FollowedOffered ==
    ASSUME ReplayInv, NEW c \in calls, NEW kind \in Kinds, kind = "query" => Result \in Known
    PROVE  Followed(c, kind) \in Seq(Offered(Given))
<1>1. c \in ToolCall /\ turn \in Nat
  BY DEF ReplayInv, TypeOK
<1>2. Known \subseteq Given /\ Allowed \subseteq Given /\ Allowed \subseteq Ref
  BY KnownGiven
<1>3. CASE kind = "decision"
  <2> DEFINE o == OfTool(c, "business.decision.declared")
             f == [o EXCEPT !.consumed = Allowed]
  <2>1. o \in Offered(Given)
    BY <1>1, OfToolOffered DEF EventTypes
  <2>2. Followed(c, kind) = <<f>>
    BY <1>3 DEF Followed, Failures
  <2> HIDE DEF o
  <2>3. f \in Offered(Given)
    BY <1>2, <2>1, ConsumedOffered
  <2> HIDE DEF f
  <2> QED
    BY <2>2, <2>3
<1>4. CASE kind \in Failures
  <2> DEFINE refs == {<<"observation", c.tool>>}
             g == Observed({}, CitedBy(kind))
             h == Observed(refs, {})
             o == Event("tool.failed", turn)
             f == [o EXCEPT !.ok = FALSE]
  <2>1. o \in Offered(Given)
    BY <1>1, EventOffered DEF EventTypes, ContextTypes
  <2>2. Followed(c, kind) = <<g, h, f>>
    BY <1>4 DEF Followed, Failures
  <2>3. CitedBy(kind) \in SUBSET Ref
    BY DEF CitedBy, Ref
  <2>4. refs \in SUBSET Ref /\ refs \subseteq Given
    BY <1>1 DEF Ref, Given, Unproduced, ToolCall
  <2> HIDE DEF o, refs
  <2>5. f \in Offered(Given)
    BY <2>1, OkOffered
  <2>6. g \in Offered(Given) /\ h \in Offered(Given)
    BY <2>3, <2>4, ObservedOffered
  <2> HIDE DEF f, g, h
  <2> QED
    BY <2>2, <2>5, <2>6
<1>5. CASE kind \notin {"decision"} \cup Failures
  <2>1. PICK consumed, produced :
           /\ Followed(c, kind) = <<Observed(consumed, produced)>>
           /\ consumed \subseteq {Context} \cup {ref \in {Result} : kind = "query"}
           /\ produced \subseteq {Context, Result} \cup Cited
    <3>1. CASE kind \in {"unopened", "refused"}
      <4>1. Followed(c, kind) = <<Observed({}, {})>>
        BY <3>1 DEF Followed, Failures
      <4> QED
        BY <4>1
    <3>2. CASE kind = "open"
      <4>1. Followed(c, kind) = <<Observed({}, {Context})>>
        BY <3>2 DEF Followed, Failures
      <4> QED
        BY <4>1
    <3>3. CASE kind = "query"
      <4>1. Followed(c, kind) = <<Observed({Result}, {})>>
        BY <3>3 DEF Followed, Failures
      <4> QED
        BY <3>3, <4>1
    <3>4. CASE kind \in {"analysis", "fact"}
      <4>1. Followed(c, kind) = <<Observed({Context}, ProducedBy(kind) \cup CitedBy(kind))>>
        BY <3>4 DEF Followed, Failures
      <4>2. ProducedBy(kind) \cup CitedBy(kind) \subseteq {Context, Result} \cup Cited
        BY DEF ProducedBy, CitedBy, Cited
      <4> QED
        BY <4>1, <4>2
    <3> QED
      BY <1>5, <3>1, <3>2, <3>3, <3>4 DEF Kinds, Failures
  <2>2. consumed \in SUBSET Ref /\ consumed \subseteq Given
    <3>1. Context \in Given /\ {Context, Result} \subseteq Ref
      BY DEF Given, Unproduced, Ref
    <3>2. kind = "query" => Result \in Given
      BY <1>2
    <3> QED
      BY <2>1, <3>1, <3>2
  <2>3. produced \in SUBSET Ref
    BY <2>1 DEF Ref, Cited
  <2>4. Observed(consumed, produced) \in Offered(Given)
    BY <2>2, <2>3, ObservedOffered
  <2> QED
    BY <2>1, <2>4
<1> QED
  BY <1>3, <1>4, <1>5

LEMMA CompleteToolReplay ==
    ASSUME ReplayInv, NEW c \in calls, NEW kind \in Kinds, CompleteTool(c, kind)
    PROVE  ReplayInv'
<1> DEFINE e == [OfTool(c, "tool.completed") EXCEPT
                    !.ok = kind \notin Failures, !.result = kind \in {"analysis", "query"},
                    !.consumed = {<<"call", c.tool>>}, !.artifact = <<"call", c.tool>>,
                    !.produced = ProducedBy(kind), !.evidence = CitedBy(kind)]
           f == Followed(c, kind)
<1>1. /\ pending = <<>> /\ pending' = <<e>> \o f
      /\ kind = "query" => Result \in Known
      /\ calls' = calls \ {c}
      /\ round' = IF calls' = {} THEN None ELSE round
      /\ UNCHANGED <<log, phase, turn, revision, requests>>
  BY DEF CompleteTool, Ready
<1>2. <<"call", c.tool>> \in Given
  <2>1. DOMAIN pending = {}
    BY <1>1
  <2> QED
    BY <2>1 DEF ReplayInv, ProducedInv
<1>3. e \in Offered(Given)
  BY <1>2, CompletedOffered
<1>4. f \in Seq(Offered(Given))
  BY <1>1, FollowedOffered
<1> HIDE DEF e, f
<1>5. pending' \in Seq(Offered(Given))
  BY <1>1, <1>3, <1>4
<1>6. calls' \ calls = {}
  BY <1>1
<1>7. /\ pending' \in Seq(EventRecord) /\ log' \in Seq(EventRecord) /\ revision' \in Nat
      /\ ProducedInv' /\ RevisionInv'
  BY <1>1, <1>5, <1>6, HandlerKeeps
<1> QED
  BY <1>1, <1>7 DEF ReplayInv, TypeOK

-----------------------------------------------------------------------------
(* The end of a turn *)

LEMMA JoinedOffered ==
    ASSUME NEW S, NEW s \in Seq(S), NEW t \in Seq(S)
    PROVE  s \o t \in Seq(S)
  OBVIOUS

LEMMA SubmitReplay ==
    ASSUME ReplayInv, NEW refs \in SUBSET Known, Submit(refs)
    PROVE  ReplayInv'
<1> DEFINE results == refs \cap {Result}
           cites == refs \ results
           ref == <<"answer", turn>>
           docs == {ref}
           a == Event("answer.submitted", turn)
           a1 == [a EXCEPT !.submission = turn]
           a2 == [a1 EXCEPT !.artifact = ref]
           a3 == [a2 EXCEPT !.consumed = results]
           a4 == [a3 EXCEPT !.evidence = cites]
           answer == [a4 EXCEPT !.produced = docs]
           b == Event("business.claim.declared", turn)
           b1 == [b EXCEPT !.submission = turn]
           b2 == [b1 EXCEPT !.consumed = results]
           claim == [b2 EXCEPT !.evidence = cites]
           audit == Event("audit.diagnostic.recorded", turn)
           done == Event("turn.completed", turn)
           claims == IF recording = "schema" /\ refs # {} THEN <<claim>> ELSE <<>>
           audits == IF Result \in refs /\ ResultEvidence \notin refs THEN <<audit>> ELSE <<>>
           O == Offered(Given)
<1>1. /\ pending' = <<answer>> \o claims \o audits \o <<done>> \o Interrupted
      /\ phase' = "idle" /\ requests' = <<>> /\ round' = None /\ calls' = {}
      /\ pending = <<>>
      /\ UNCHANGED <<log, turn, revision>>
  BY DEF Submit, Ready, Ended
<1>2. turn \in Nat
  BY DEF ReplayInv, TypeOK
<1>3. Known \subseteq Given /\ Known \subseteq Ref
  BY KnownGiven
<1>4. /\ results \in SUBSET Ref /\ results \subseteq Given
      /\ cites \in SUBSET Ref
      /\ ref \in Ref /\ docs \in SUBSET Ref
  BY <1>2, <1>3 DEF Ref
<1> HIDE DEF results, cites, ref, docs
<1>5. a \in O /\ a.type = "answer.submitted"
  BY <1>2, EventOffered, EventTyped DEF EventTypes, ContextTypes
<1> HIDE DEF a
<1>6. a1 \in O /\ a1.type = "answer.submitted"
  BY <1>2, <1>5, SubmissionOffered
<1> HIDE DEF a1
<1>7. a2 \in O /\ a2.type = "answer.submitted"
  BY <1>4, <1>6, ArtifactOffered
<1> HIDE DEF a2
<1>8. a3 \in O /\ a3.type = "answer.submitted"
  BY <1>4, <1>7, ConsumedOffered
<1> HIDE DEF a3
<1>9. a4 \in O /\ a4.type = "answer.submitted"
  BY <1>4, <1>8, EvidenceOffered
<1> HIDE DEF a4
<1>10. answer \in O
  BY <1>4, <1>9, ProducedOffered
<1>11. b \in O /\ b.type = "business.claim.declared"
  BY <1>2, EventOffered, EventTyped DEF EventTypes
<1> HIDE DEF b
<1>12. b1 \in O /\ b1.type = "business.claim.declared"
  BY <1>2, <1>11, SubmissionOffered
<1> HIDE DEF b1
<1>13. b2 \in O /\ b2.type = "business.claim.declared"
  BY <1>4, <1>12, ConsumedOffered
<1> HIDE DEF b2
<1>14. claim \in O
  BY <1>4, <1>13, EvidenceOffered
<1>15. audit \in O /\ done \in O
  BY <1>2, EventOffered DEF EventTypes, ContextTypes
<1>16. Interrupted \in Seq(O)
  BY InterruptedOffered
<1> HIDE DEF answer, claim, audit, done, O
<1>17. claims \in Seq(O) /\ audits \in Seq(O) /\ <<answer>> \in Seq(O) /\ <<done>> \in Seq(O)
  BY <1>10, <1>14, <1>15
<1> HIDE DEF claims, audits
<1>18. pending' \in Seq(O)
  BY <1>1, <1>16, <1>17, JoinedOffered
<1>19. /\ pending' \in Seq(EventRecord) /\ log' \in Seq(EventRecord) /\ revision' \in Nat
       /\ ProducedInv' /\ RevisionInv'
  BY <1>1, <1>18, HandlerKeeps DEF O
<1> QED
  BY <1>1, <1>19 DEF ReplayInv, TypeOK

LEMMA FailTurnReplay ==
    ASSUME ReplayInv, NEW rejected \in BOOLEAN, FailTurn(rejected)
    PROVE  ReplayInv'
<1> DEFINE no == Event("answer.rejected", turn)
           audit == Event("audit.diagnostic.recorded", turn)
           seen == Event("context.projected", turn)
           done == Event("turn.completed", turn)
           failed == Event("analysis.failed", None)
           first == IF rejected THEN <<no, audit>> ELSE <<>>
           O == Offered(Given)
<1>1. /\ pending' = first \o <<seen, done>> \o Interrupted \o <<failed>>
      /\ phase' = "ended" /\ requests' = <<>> /\ round' = None /\ calls' = {}
      /\ pending = <<>>
      /\ UNCHANGED <<log, turn, revision>>
  BY DEF FailTurn, Ready, Ended
<1>2. turn \in Nat
  BY DEF ReplayInv, TypeOK
<1>3. no \in O /\ audit \in O /\ seen \in O /\ done \in O /\ failed \in O
  BY <1>2, EventOffered DEF EventTypes, ContextTypes
<1>4. Interrupted \in Seq(O)
  BY InterruptedOffered
<1> HIDE DEF no, audit, seen, done, failed, O
<1>5. first \in Seq(O) /\ <<seen, done>> \in Seq(O) /\ <<failed>> \in Seq(O)
  BY <1>3
<1> HIDE DEF first
<1>6. pending' \in Seq(O)
  BY <1>1, <1>4, <1>5, JoinedOffered
<1>7. /\ pending' \in Seq(EventRecord) /\ log' \in Seq(EventRecord) /\ revision' \in Nat
      /\ ProducedInv' /\ RevisionInv'
  BY <1>1, <1>6, HandlerKeeps DEF O
<1> QED
  BY <1>1, <1>7 DEF ReplayInv, TypeOK

LEMMA CompleteReplay ==
    ASSUME ReplayInv, Complete
    PROVE  ReplayInv'
<1>1. /\ pending' = <<Event("analysis.completed", None)>> /\ pending = <<>>
      /\ phase' = "ended"
      /\ UNCHANGED <<log, turn, revision, requests, round, calls>>
  BY DEF Complete, Ready
<1>2. Event("analysis.completed", None) \in Offered(Given)
  BY EventOffered DEF EventTypes, ContextTypes
<1>3. pending' \in Seq(Offered(Given))
  BY <1>1, <1>2
<1>4. /\ pending' \in Seq(EventRecord) /\ log' \in Seq(EventRecord) /\ revision' \in Nat
      /\ ProducedInv' /\ RevisionInv'
  BY <1>1, <1>3, HandlerKeeps
<1> QED
  BY <1>1, <1>4 DEF ReplayInv, TypeOK

LEMMA SameReplay ==
    ASSUME ReplayInv,
           UNCHANGED <<log, pending, phase, turn, revision, requests, round, calls>>
    PROVE  ReplayInv'
<1>1. TypeOK'
  BY DEF ReplayInv, TypeOK
<1>2. Given' = Given
  BY DEF Given
<1>3. ProducedInv'
  BY <1>2 DEF ReplayInv, ProducedInv, Offered
<1>4. RevisionInv'
  BY DEF ReplayInv, RevisionInv
<1> QED
  BY <1>1, <1>3, <1>4 DEF ReplayInv

LEMMA NextReplay ==
    ASSUME ReplayInv, [Next]_vars
    PROVE  ReplayInv'
<1>1. CASE Write
  BY <1>1, WriteReplay
<1>2. CASE Start
  BY <1>2, StartReplay
<1>3. CASE StartTurn
  BY <1>3, StartTurnReplay
<1>4. CASE Request
  BY <1>4, RequestReplay
<1>5. ASSUME NEW toolUse \in BOOLEAN, Respond(toolUse)
      PROVE  ReplayInv'
  BY <1>5, RespondReplay
<1>6. CASE FailResponse
  BY <1>6, FailResponseReplay
<1>7. ASSUME NEW type \in {"model.retry.started", "model.retry.exhausted"}, Retry(type)
      PROVE  ReplayInv'
  BY <1>7, RetryReplay
<1>8. CASE StartTool
  BY <1>8, StartToolReplay
<1>9. ASSUME NEW c \in calls, NEW kind \in Kinds, CompleteTool(c, kind)
      PROVE  ReplayInv'
  BY <1>9, CompleteToolReplay
<1>10. ASSUME NEW refs \in SUBSET Known, Submit(refs)
       PROVE  ReplayInv'
  BY <1>10, SubmitReplay
<1>11. ASSUME NEW rejected \in BOOLEAN, FailTurn(rejected)
       PROVE  ReplayInv'
  BY <1>11, FailTurnReplay
<1>12. CASE Complete
  BY <1>12, CompleteReplay
<1>13. ASSUME NEW ref \in Losable, Lose(ref)
       PROVE  ReplayInv'
  BY <1>13, SameReplay DEF Lose
<1>14. CASE UNCHANGED vars
  BY <1>14, SameReplay DEF vars
<1> QED
  BY <1>1, <1>2, <1>3, <1>4, <1>5, <1>6, <1>7, <1>8, <1>9, <1>10, <1>11, <1>12, <1>13, <1>14
     DEF Next

-----------------------------------------------------------------------------
(* The order of the events *)

\* What is recorded, and what the running handler will record after it.
Ahead == log \o pending

Settlements == {"model.response.completed", "model.response.failed"}

\* The events of a turn come after those of earlier turns, and a turn that
\* has ended was started.
TurnInv ==
    /\ \A i \in DOMAIN Ahead : Ahead[i].turn # None => Ahead[i].turn <= turn
    /\ \A i, j \in DOMAIN Ahead :
          i < j /\ Ahead[i].turn # None /\ Ahead[j].turn # None
              => Ahead[i].turn <= Ahead[j].turn
    /\ \A j \in DOMAIN Ahead : Ahead[j].type = "turn.completed" =>
          /\ Ahead[j].turn \in Nat
          /\ \E t \in DOMAIN Ahead :
                t < j /\ Ahead[t].type = "turn.started" /\ Ahead[t].turn = Ahead[j].turn
    /\ phase = "turn" =>
          \E t \in DOMAIN Ahead : Ahead[t].type = "turn.started" /\ Ahead[t].turn = turn

\* No request is answered and failed; one that is not settled has no response.
SettleInv ==
    /\ \A i, j \in DOMAIN Ahead :
          /\ Ahead[i].type \in Settlements /\ Ahead[j].type \in Settlements
          /\ Ahead[i].request = Ahead[j].request
          => Ahead[i].type = Ahead[j].type
    /\ \A u \in Unsettled : \A i \in DOMAIN Ahead :
          Ahead[i].type \in Settlements => Ahead[i].request # requests[u].id
    /\ \A a, b \in DOMAIN requests : requests[a].id = requests[b].id => a = b
    /\ \A a \in DOMAIN requests :
          requests[a].id <= Cardinality(At(Ahead, {"model.request.started"}))
    /\ \A i \in DOMAIN Ahead : Ahead[i].type \in Settlements =>
          /\ Ahead[i].request \in Nat
          /\ Ahead[i].request <= Cardinality(At(Ahead, {"model.request.started"}))

\* A turn is answered once, and a claim comes after the answer it is made of.
AnswerInv ==
    /\ \A i \in DOMAIN Ahead :
          Ahead[i].type \in {"answer.submitted", "business.claim.declared"}
              => Ahead[i].turn \in Nat /\ Ahead[i].submission = Ahead[i].turn
    /\ \A i, j \in DOMAIN Ahead :
          /\ Ahead[i].type = "answer.submitted" /\ Ahead[j].type = "answer.submitted"
          /\ Ahead[i].turn = Ahead[j].turn
          => i = j
    /\ \A i \in DOMAIN Ahead : Ahead[i].type = "business.claim.declared" =>
          \E j \in DOMAIN Ahead :
             j < i /\ Ahead[j].type = "answer.submitted" /\ Ahead[j].turn = Ahead[i].turn
    /\ phase = "turn" =>
          \A i \in DOMAIN Ahead : Ahead[i].type = "answer.submitted" => Ahead[i].turn # turn

LifeInv == TurnInv /\ SettleInv /\ AnswerInv

LEMMA JoinIs ==
    ASSUME NEW S, NEW l \in Seq(S), NEW p \in Seq(S), NEW q, q = l \o p
    PROVE  /\ q \in Seq(S)
           /\ Len(l) \in Nat /\ Len(p) \in Nat
           /\ DOMAIN l = 1..Len(l) /\ DOMAIN p = 1..Len(p)
           /\ DOMAIN q = 1..(Len(l) + Len(p))
           /\ \A i \in DOMAIN l : i \in DOMAIN q /\ q[i] = l[i]
           /\ \A k \in DOMAIN p : Len(l) + k \in DOMAIN q /\ q[Len(l) + k] = p[k]
           /\ \A i \in DOMAIN q \ DOMAIN l :
                 i > Len(l) /\ i - Len(l) \in DOMAIN p /\ q[i] = p[i - Len(l)]
<1>1. /\ Len(l) \in Nat /\ Len(p) \in Nat
      /\ DOMAIN l = 1..Len(l) /\ DOMAIN p = 1..Len(p)
  OBVIOUS
<1>2. q \in Seq(S) /\ DOMAIN q = 1..(Len(l) + Len(p))
  OBVIOUS
<1>3. \A i \in 1..Len(l) : i \in DOMAIN q /\ q[i] = l[i]
  BY <1>1
<1>4. ASSUME NEW i \in 1..(Len(l) + Len(p)), i \notin 1..Len(l)
      PROVE  i > Len(l) /\ i - Len(l) \in 1..Len(p) /\ q[i] = p[i - Len(l)]
  <2>1. i > Len(l) /\ i - Len(l) \in 1..Len(p)
    BY <1>1, <1>4
  <2> QED
    BY <1>1, <2>1
<1>5. ASSUME NEW k \in 1..Len(p)
      PROVE  Len(l) + k \in DOMAIN q /\ q[Len(l) + k] = p[k]
  <2>1. Len(l) + k \in DOMAIN q /\ Len(l) + k > Len(l) /\ (Len(l) + k) - Len(l) = k
    BY <1>1, <1>2
  <2> QED
    BY <1>1, <1>2, <1>4, <2>1
<1> QED
  BY <1>1, <1>2, <1>3, <1>4, <1>5

LEMMA AheadIs ==
    ASSUME TypeOK
    PROVE  /\ Ahead \in Seq(EventRecord)
           /\ Len(log) \in Nat /\ Len(pending) \in Nat
           /\ DOMAIN log = 1..Len(log) /\ DOMAIN pending = 1..Len(pending)
           /\ DOMAIN Ahead = 1..(Len(log) + Len(pending))
           /\ \A i \in DOMAIN log : i \in DOMAIN Ahead /\ Ahead[i] = log[i]
           /\ \A k \in DOMAIN pending : /\ Len(log) + k \in DOMAIN Ahead
                                        /\ Ahead[Len(log) + k] = pending[k]
           /\ \A i \in DOMAIN Ahead \ DOMAIN log :
                 /\ i > Len(log) /\ i - Len(log) \in DOMAIN pending
                 /\ Ahead[i] = pending[i - Len(log)]
<1>1. log \in Seq(EventRecord) /\ pending \in Seq(EventRecord)
  BY DEF TypeOK
<1> QED
  BY <1>1, JoinIs DEF Ahead

LEMMA AheadIsNext ==
    ASSUME TypeOK'
    PROVE  /\ Ahead' \in Seq(EventRecord)
           /\ Len(log') \in Nat /\ Len(pending') \in Nat
           /\ DOMAIN log' = 1..Len(log') /\ DOMAIN pending' = 1..Len(pending')
           /\ DOMAIN Ahead' = 1..(Len(log') + Len(pending'))
           /\ \A i \in DOMAIN log' : i \in DOMAIN Ahead' /\ Ahead'[i] = log'[i]
           /\ \A k \in DOMAIN pending' : /\ Len(log') + k \in DOMAIN Ahead'
                                         /\ Ahead'[Len(log') + k] = pending'[k]
           /\ \A i \in DOMAIN Ahead' \ DOMAIN log' :
                 /\ i > Len(log') /\ i - Len(log') \in DOMAIN pending'
                 /\ Ahead'[i] = pending'[i - Len(log')]
<1>1. log' \in Seq(EventRecord) /\ pending' \in Seq(EventRecord)
  BY DEF TypeOK
<1> QED
  BY <1>1, JoinIs DEF Ahead

\* To append an event changes neither the order nor what the order is of.
LEMMA WriteAhead ==
    ASSUME ReplayInv, Write
    PROVE  /\ DOMAIN Ahead' = DOMAIN Ahead
           /\ \A i \in DOMAIN Ahead :
                 /\ Ahead'[i].type = Ahead[i].type
                 /\ Ahead'[i].turn = Ahead[i].turn
                 /\ Ahead'[i].request = Ahead[i].request
                 /\ Ahead'[i].submission = Ahead[i].submission
                 /\ Ahead'[i].step = Ahead[i].step
                 /\ Ahead'[i].tool = Ahead[i].tool
                 /\ Ahead'[i].consumed = Ahead[i].consumed
                 /\ Ahead'[i].evidence = Ahead[i].evidence
                 /\ \/ Ahead'[i].produced = Ahead[i].produced
                    \/ /\ Ahead[i].type = "context.injected"
                       /\ Ahead'[i].produced = {<<"view", revision>>}
<1> DEFINE e == Head(pending)
           b == Bounded(e)
           n == Len(log)
           p == Len(pending)
<1>1. /\ pending # <<>> /\ pending \in Seq(Offered(Given))
      /\ log \in Seq(EventRecord) /\ pending \in Seq(EventRecord) /\ revision \in Nat
      /\ TypeOK
  BY DEF ReplayInv, TypeOK, ProducedInv, Write
<1>2. e \in Offered(Given) /\ e = pending[1]
  BY <1>1
<1>3. e \in EventRecord /\ e.after = None
  BY <1>2 DEF Offered
<1>4. log' = Append(log, b) /\ pending' = Tail(pending)
  BY DEF Write
<1> HIDE DEF e
<1>5. /\ b \in EventRecord
      /\ b.type = e.type /\ b.turn = e.turn
      /\ b.request = e.request /\ b.submission = e.submission
      /\ b.step = e.step /\ b.tool = e.tool
      /\ b.consumed = e.consumed /\ b.evidence = e.evidence
      /\ \/ b.produced = e.produced
         \/ e.type = "context.injected" /\ b.produced = {<<"view", revision>>}
  BY <1>1, <1>3, BoundedIs
<1> HIDE DEF b
<1>6. /\ Len(log') = n + 1 /\ Len(pending') = p - 1 /\ p >= 1
      /\ n \in Nat /\ p \in Nat
  BY <1>1, <1>4, <1>5
<1>7. TypeOK'
  BY WriteReplay DEF ReplayInv
<1>8. DOMAIN Ahead' = 1..((n + 1) + (p - 1))
  BY <1>6, <1>7, AheadIsNext
<1>9. DOMAIN Ahead = 1..(n + p)
  BY <1>1, AheadIs
<1>10. DOMAIN Ahead' = DOMAIN Ahead
  BY <1>6, <1>8, <1>9
<1>11. ASSUME NEW i \in DOMAIN Ahead
       PROVE  \/ Ahead'[i] = Ahead[i]
              \/ Ahead'[i] = b /\ Ahead[i] = e
  <2>1. i \in 1..(n + p) /\ i \in Nat /\ DOMAIN log = 1..n /\ DOMAIN log' = 1..(n + 1)
    BY <1>1, <1>4, <1>5, <1>9
  <2>2. CASE i \in 1..n
    <3>1. Ahead[i] = log[i] /\ log'[i] = log[i] /\ i \in DOMAIN log'
      BY <1>1, <1>4, <1>5, <1>6, <2>1, <2>2, AheadIs
    <3>2. Ahead'[i] = log'[i]
      BY <1>7, <3>1, AheadIsNext
    <3> QED
      BY <3>1, <3>2
  <2>3. CASE i = n + 1
    <3>1. i \in DOMAIN log' /\ log'[i] = b /\ i \notin DOMAIN log /\ i - n = 1
      BY <1>1, <1>4, <1>5, <1>6, <2>1, <2>3
    <3>2. Ahead'[i] = log'[i]
      BY <1>7, <3>1, AheadIsNext
    <3>3. Ahead[i] = pending[1]
      BY <1>1, <3>1, AheadIs
    <3> QED
      BY <1>2, <3>1, <3>2, <3>3
  <2>4. CASE i > n + 1
    <3> DEFINE k == i - n
    <3>1. i \notin DOMAIN log /\ i \notin DOMAIN log' /\ k \in 2..p /\ i - (n + 1) = k - 1
      BY <1>6, <2>1, <2>4
    <3>2. Ahead[i] = pending[k]
      BY <1>1, <3>1, AheadIs
    <3>3. Ahead'[i] = pending'[k - 1]
      BY <1>6, <1>7, <1>10, <3>1, AheadIsNext
    <3> HIDE DEF k
    <3>4. pending'[k - 1] = pending[k]
      <4>1. k - 1 \in 1..Len(Tail(pending)) /\ (k - 1) + 1 = k
        BY <1>1, <1>4, <1>6, <3>1
      <4> QED
        BY <1>1, <1>4, <4>1
    <3> QED
      BY <3>2, <3>3, <3>4
  <2> QED
    BY <1>6, <2>1, <2>2, <2>3, <2>4
<1> QED
  BY <1>5, <1>10, <1>11

LEMMA WriteLife ==
    ASSUME ReplayInv, LifeInv, Write
    PROVE  LifeInv'
<1>1. /\ DOMAIN Ahead' = DOMAIN Ahead
      /\ \A i \in DOMAIN Ahead :
            /\ Ahead'[i].type = Ahead[i].type
            /\ Ahead'[i].turn = Ahead[i].turn
            /\ Ahead'[i].request = Ahead[i].request
            /\ Ahead'[i].submission = Ahead[i].submission
  BY WriteAhead
<1>2. UNCHANGED <<phase, turn, requests>> /\ Unsettled' = Unsettled
  BY DEF Write, Unsettled
<1>3. At(Ahead', {"model.request.started"}) = At(Ahead, {"model.request.started"})
  BY <1>1 DEF At
<1>4. TurnInv'
  BY <1>1, <1>2 DEF LifeInv, TurnInv
<1>5. SettleInv'
  BY <1>1, <1>2, <1>3 DEF LifeInv, SettleInv
<1>6. AnswerInv'
  BY <1>1, <1>2 DEF LifeInv, AnswerInv
<1> QED
  BY <1>4, <1>5, <1>6 DEF LifeInv

\* A handler leaves its events after all that is recorded.
LEMMA HandlerAhead ==
    ASSUME TypeOK, TypeOK', pending = <<>>, log' = log
    PROVE  /\ Ahead = log
           /\ Ahead' \in Seq(EventRecord) /\ DOMAIN log \subseteq DOMAIN Ahead'
           /\ \A i \in DOMAIN log : Ahead'[i] = log[i]
           /\ \A k \in DOMAIN pending' : /\ Len(log) + k \in DOMAIN Ahead'
                                         /\ Ahead'[Len(log) + k] = pending'[k]
           /\ \A i \in DOMAIN Ahead' \ DOMAIN log :
                 /\ \A j \in DOMAIN log : j < i
                 /\ i - Len(log) \in DOMAIN pending' /\ Ahead'[i] = pending'[i - Len(log)]
           /\ DOMAIN Ahead' \subseteq Nat
<1>1. log \in Seq(EventRecord) /\ Len(log) \in Nat /\ DOMAIN log = 1..Len(log)
  BY DEF TypeOK
<1>2. Ahead = log
  BY <1>1 DEF Ahead
<1>3. /\ Ahead' \in Seq(EventRecord)
      /\ \A i \in DOMAIN log' : i \in DOMAIN Ahead' /\ Ahead'[i] = log'[i]
      /\ \A k \in DOMAIN pending' : /\ Len(log') + k \in DOMAIN Ahead'
                                    /\ Ahead'[Len(log') + k] = pending'[k]
      /\ \A i \in DOMAIN Ahead' \ DOMAIN log' :
            /\ i > Len(log') /\ i - Len(log') \in DOMAIN pending'
            /\ Ahead'[i] = pending'[i - Len(log')]
  BY AheadIsNext
<1>4. DOMAIN Ahead' \subseteq Nat
  BY <1>3
<1>5. ASSUME NEW i \in DOMAIN Ahead' \ DOMAIN log, NEW j \in DOMAIN log
      PROVE  j < i
  BY <1>1, <1>3, <1>4
<1> QED
  BY <1>2, <1>3, <1>4, <1>5

LEMMA TurnKept ==
    ASSUME TypeOK, TurnInv, TypeOK', pending = <<>>, log' = log, turn' \in {turn, turn + 1},
           \A k \in DOMAIN pending' : pending'[k].turn \in {None, turn'},
           \A k \in DOMAIN pending' : pending'[k].type = "turn.completed" =>
              phase = "turn" /\ pending'[k].turn = turn,
           phase' = "turn" =>
              \/ phase = "turn" /\ turn' = turn
              \/ \E k \in DOMAIN pending' :
                    pending'[k].type = "turn.started" /\ pending'[k].turn = turn'
    PROVE  TurnInv'
<1> DEFINE n == Len(log)
<1>1. /\ Ahead = log
      /\ Ahead' \in Seq(EventRecord) /\ DOMAIN log \subseteq DOMAIN Ahead'
      /\ \A i \in DOMAIN log : Ahead'[i] = log[i]
      /\ \A k \in DOMAIN pending' : n + k \in DOMAIN Ahead' /\ Ahead'[n + k] = pending'[k]
      /\ \A i \in DOMAIN Ahead' \ DOMAIN log :
            /\ \A j \in DOMAIN log : j < i
            /\ i - n \in DOMAIN pending' /\ Ahead'[i] = pending'[i - n]
      /\ DOMAIN Ahead' \subseteq Nat
  BY HandlerAhead
<1> HIDE DEF n
<1>2. turn \in Nat /\ turn' \in Nat /\ turn <= turn'
  BY DEF TypeOK
<1>3. \A i \in DOMAIN Ahead' : Ahead'[i] \in EventRecord
  BY <1>1
<1>4. \A i \in DOMAIN Ahead' : Ahead'[i].turn # None => Ahead'[i].turn \in Nat
  BY <1>3 DEF EventRecord
<1>5. ASSUME NEW i \in DOMAIN Ahead', Ahead'[i].turn # None
      PROVE  /\ Ahead'[i].turn <= turn'
             /\ i \in DOMAIN log => Ahead'[i].turn <= turn
             /\ i \notin DOMAIN log => Ahead'[i].turn = turn'
  <2>1. CASE i \in DOMAIN log
    BY <1>1, <1>2, <1>4, <1>5, <2>1 DEF TurnInv
  <2>2. CASE i \notin DOMAIN log
    <3>1. Ahead'[i].turn = turn'
      BY <1>1, <1>5, <2>2
    <3> QED
      BY <1>2, <2>2, <3>1
  <2> QED
    BY <2>1, <2>2
<1>6. ASSUME NEW i \in DOMAIN Ahead', NEW j \in DOMAIN Ahead', i < j,
             Ahead'[i].turn # None, Ahead'[j].turn # None
      PROVE  Ahead'[i].turn <= Ahead'[j].turn
  <2>1. CASE j \in DOMAIN log
    <3>1. i \in DOMAIN log
      <4>1. i \in DOMAIN log \/ \A m \in DOMAIN log : m < i
        BY <1>1
      <4>2. i \in Nat /\ j \in Nat
        BY <1>1
      <4> QED
        BY <1>6, <2>1, <4>1, <4>2
    <3> QED
      BY <1>1, <1>6, <2>1, <3>1 DEF TurnInv
  <2>2. CASE j \notin DOMAIN log
    BY <1>5, <1>6, <2>2
  <2> QED
    BY <2>1, <2>2
<1>7. ASSUME NEW t \in DOMAIN log
      PROVE  /\ t \in DOMAIN Ahead' /\ Ahead'[t] = Ahead[t]
             /\ \A i \in DOMAIN Ahead' \ DOMAIN log : t < i
  BY <1>1
<1>8. ASSUME NEW j \in DOMAIN Ahead', Ahead'[j].type = "turn.completed"
      PROVE  /\ Ahead'[j].turn \in Nat
             /\ \E t \in DOMAIN Ahead' : /\ t < j /\ Ahead'[t].type = "turn.started"
                                         /\ Ahead'[t].turn = Ahead'[j].turn
  <2>1. CASE j \in DOMAIN log
    BY <1>1, <1>7, <1>8, <2>1 DEF TurnInv
  <2>2. CASE j \notin DOMAIN log
    <3>1. phase = "turn" /\ Ahead'[j].turn = turn
      BY <1>1, <1>8, <2>2
    <3>2. PICK t \in DOMAIN log : log[t].type = "turn.started" /\ log[t].turn = turn
      BY <1>1, <3>1 DEF TurnInv
    <3> QED
      BY <1>1, <1>2, <1>7, <2>2, <3>1, <3>2
  <2> QED
    BY <2>1, <2>2
<1>9. ASSUME phase' = "turn"
      PROVE  \E t \in DOMAIN Ahead' : Ahead'[t].type = "turn.started" /\ Ahead'[t].turn = turn'
  <2>1. CASE phase = "turn" /\ turn' = turn
    BY <1>1, <1>7, <2>1 DEF TurnInv
  <2>2. CASE \E k \in DOMAIN pending' :
                pending'[k].type = "turn.started" /\ pending'[k].turn = turn'
    BY <1>1, <2>2
  <2> QED
    BY <1>9, <2>1, <2>2
<1> QED
  BY <1>5, <1>6, <1>8, <1>9 DEF TurnInv

\* The events of a type are only added to.
LEMMA CountGrows ==
    ASSUME TypeOK, TypeOK', pending = <<>>, log' = log, NEW types
    PROVE  LET before == Cardinality(At(Ahead, types))
               after == Cardinality(At(Ahead', types))
           IN  /\ before \in Nat /\ after \in Nat /\ before <= after
               /\ before = Cardinality(At(log, types))
               /\ (\E k \in DOMAIN pending' : pending'[k].type \in types) => before < after
<1> DEFINE B == At(Ahead, types)
           A == At(Ahead', types)
           n == Len(log)
<1>1. /\ Ahead = log
      /\ Ahead' \in Seq(EventRecord) /\ DOMAIN log \subseteq DOMAIN Ahead'
      /\ \A i \in DOMAIN log : Ahead'[i] = log[i]
      /\ \A k \in DOMAIN pending' : n + k \in DOMAIN Ahead' /\ Ahead'[n + k] = pending'[k]
  BY HandlerAhead
<1>2. log \in Seq(EventRecord) /\ pending' \in Seq(EventRecord)
  BY DEF TypeOK
<1>3. B \subseteq A
  BY <1>1 DEF At
<1>4. A \subseteq 1..Len(Ahead') /\ IsFiniteSet(1..Len(Ahead'))
  BY <1>1, FS_Interval DEF At
<1>5. IsFiniteSet(A)
  BY <1>4, FS_Subset
<1>6. IsFiniteSet(B) /\ Cardinality(B) <= Cardinality(A)
      /\ (Cardinality(B) = Cardinality(A) => A = B)
  BY <1>3, <1>5, FS_Subset
<1>7. Cardinality(A) \in Nat /\ Cardinality(B) \in Nat
  BY <1>5, <1>6, FS_CardinalityType
<1>8. B = At(log, types)
  BY <1>1
<1>9. ASSUME NEW k \in DOMAIN pending', pending'[k].type \in types
      PROVE  A # B
  <2>1. n + k \in A
    BY <1>1, <1>9 DEF At
  <2>2. n + k \notin DOMAIN log
    BY <1>2
  <2>3. n + k \notin B
    BY <1>1, <2>2 DEF At
  <2> QED
    BY <2>1, <2>3
<1>10. (\E k \in DOMAIN pending' : pending'[k].type \in types) => A # B
  BY <1>9
<1>11. Cardinality(B) = Cardinality(At(log, types))
  BY <1>8
<1> HIDE DEF A, B
<1>12. (\E k \in DOMAIN pending' : pending'[k].type \in types) => Cardinality(B) < Cardinality(A)
  BY <1>6, <1>7, <1>10
<1> QED
  BY <1>6, <1>7, <1>11, <1>12 DEF A, B

LEMMA BegunGrows ==
    ASSUME TypeOK, TypeOK', pending = <<>>, log' = log
    PROVE  LET types == {"model.request.started"}
               before == Cardinality(At(Ahead, types))
               after == Cardinality(At(Ahead', types))
           IN  /\ before \in Nat /\ after \in Nat /\ before <= after
               /\ before = RequestsSoFar
               /\ (\E k \in DOMAIN pending' : pending'[k].type \in types) => before < after
  BY CountGrows DEF RequestsSoFar

\* A handler with no response among its events.
LEMMA SettleQuiet ==
    ASSUME TypeOK, SettleInv, TypeOK', pending = <<>>, log' = log, requests' \in {requests, <<>>},
           \A k \in DOMAIN pending' : pending'[k].type \notin Settlements
    PROVE  SettleInv'
<1> DEFINE types == {"model.request.started"}
           before == Cardinality(At(Ahead, types))
           after == Cardinality(At(Ahead', types))
<1>1. /\ Ahead = log
      /\ \A i \in DOMAIN log : Ahead'[i] = log[i]
      /\ \A i \in DOMAIN Ahead' \ DOMAIN log :
            i - Len(log) \in DOMAIN pending' /\ Ahead'[i] = pending'[i - Len(log)]
  BY HandlerAhead
<1>2. before \in Nat /\ after \in Nat /\ before <= after
  BY BegunGrows
<1>3. \A i \in DOMAIN Ahead' : Ahead'[i].type \in Settlements =>
         i \in DOMAIN log /\ Ahead'[i] = Ahead[i]
  BY <1>1
<1>4. DOMAIN requests' \subseteq DOMAIN requests
      /\ \A a \in DOMAIN requests' : requests'[a] = requests[a]
  OBVIOUS
<1>5. Unsettled' \subseteq Unsettled
  BY <1>4 DEF Unsettled
<1>6. \A a \in DOMAIN requests : requests[a].id \in Nat
  <2>1. \A a \in DOMAIN requests : requests[a] \in TrackedRequest
    BY DEF TypeOK
  <2> QED
    BY <2>1 DEF TrackedRequest
<1>7. \A i, j \in DOMAIN Ahead' :
         /\ Ahead'[i].type \in Settlements /\ Ahead'[j].type \in Settlements
         /\ Ahead'[i].request = Ahead'[j].request
         => Ahead'[i].type = Ahead'[j].type
  BY <1>1, <1>3 DEF SettleInv
<1>8. \A u \in Unsettled' : \A i \in DOMAIN Ahead' :
         Ahead'[i].type \in Settlements => Ahead'[i].request # requests'[u].id
  BY <1>1, <1>3, <1>4, <1>5 DEF SettleInv, Unsettled
<1>9. \A a, b \in DOMAIN requests' : requests'[a].id = requests'[b].id => a = b
  BY <1>4 DEF SettleInv
<1> HIDE DEF before, after
<1>10. \A a \in DOMAIN requests' : requests'[a].id <= after
  <2>1. \A a \in DOMAIN requests : requests[a].id <= before
    BY DEF SettleInv, before
  <2> QED
    BY <1>2, <1>4, <1>6, <2>1
<1>11. \A i \in DOMAIN Ahead' : Ahead'[i].type \in Settlements =>
          Ahead'[i].request \in Nat /\ Ahead'[i].request <= after
  <2>1. \A i \in DOMAIN Ahead : Ahead[i].type \in Settlements =>
           Ahead[i].request \in Nat /\ Ahead[i].request <= before
    BY DEF SettleInv, before
  <2> QED
    BY <1>1, <1>2, <1>3, <2>1
<1> QED
  BY <1>7, <1>8, <1>9, <1>10, <1>11 DEF SettleInv, after

\* A handler with neither an answer nor a claim among its events.
LEMMA AnswerQuiet ==
    ASSUME TypeOK, TurnInv, AnswerInv, TypeOK', pending = <<>>, log' = log,
           \A k \in DOMAIN pending' :
              pending'[k].type \notin {"answer.submitted", "business.claim.declared"},
           phase' = "turn" => (phase = "turn" /\ turn' = turn) \/ turn' = turn + 1
    PROVE  AnswerInv'
<1> DEFINE Types == {"answer.submitted", "business.claim.declared"}
<1>1. /\ Ahead = log
      /\ \A i \in DOMAIN log : i \in DOMAIN Ahead' /\ Ahead'[i] = log[i]
      /\ \A i \in DOMAIN Ahead' \ DOMAIN log :
            i - Len(log) \in DOMAIN pending' /\ Ahead'[i] = pending'[i - Len(log)]
  BY HandlerAhead
<1>2. \A i \in DOMAIN Ahead' : Ahead'[i].type \in Types =>
         i \in DOMAIN log /\ Ahead'[i] = Ahead[i]
  BY <1>1
<1>3. ASSUME phase' = "turn", NEW i \in DOMAIN Ahead', Ahead'[i].type = "answer.submitted"
      PROVE  Ahead'[i].turn # turn'
  <2>1. i \in DOMAIN Ahead /\ Ahead'[i] = Ahead[i] /\ Ahead[i].type = "answer.submitted"
    BY <1>1, <1>2, <1>3
  <2>2. CASE phase = "turn" /\ turn' = turn
    BY <2>1, <2>2 DEF AnswerInv
  <2>3. CASE turn' = turn + 1
    <3>1. Ahead[i].turn \in Nat
      BY <2>1 DEF AnswerInv
    <3>2. Ahead[i].turn # None /\ turn \in Nat
      BY <3>1, NoneApart DEF TypeOK
    <3>3. Ahead[i].turn <= turn
      BY <2>1, <3>2 DEF TurnInv
    <3> QED
      BY <2>1, <2>3, <3>1, <3>2, <3>3
  <2> QED
    BY <1>3, <2>2, <2>3
<1>4. \A i \in DOMAIN Ahead' : Ahead'[i].type \in Types =>
         Ahead'[i].turn \in Nat /\ Ahead'[i].submission = Ahead'[i].turn
  BY <1>1, <1>2 DEF AnswerInv
<1>5. \A i, j \in DOMAIN Ahead' :
         /\ Ahead'[i].type = "answer.submitted" /\ Ahead'[j].type = "answer.submitted"
         /\ Ahead'[i].turn = Ahead'[j].turn
         => i = j
  BY <1>1, <1>2 DEF AnswerInv
<1>6. \A i \in DOMAIN Ahead' : Ahead'[i].type = "business.claim.declared" =>
         \E j \in DOMAIN Ahead' :
            j < i /\ Ahead'[j].type = "answer.submitted" /\ Ahead'[j].turn = Ahead'[i].turn
  BY <1>1, <1>2 DEF AnswerInv
<1> QED
  BY <1>3, <1>4, <1>5, <1>6 DEF AnswerInv

-----------------------------------------------------------------------------
(* The steps, again *)

\* The events of no consequence for the order: those a turn, a request and an
\* answer begin and end with are left out.
Quiet(t) ==
    {e \in EventRecord :
        /\ e.turn \in {None, t}
        /\ e.type \notin {"turn.completed", "answer.submitted", "business.claim.declared"}
        /\ e.type \notin Settlements}

LEMMA QuietLife ==
    ASSUME TypeOK, LifeInv, TypeOK', pending = <<>>, log' = log,
           UNCHANGED <<turn, requests>>, phase' \in {phase, "idle", "ended"},
           pending' \in Seq(Quiet(turn))
    PROVE  LifeInv'
<1>1. \A k \in DOMAIN pending' : pending'[k] \in Quiet(turn)
  OBVIOUS
<1>2. \A k \in DOMAIN pending' :
         /\ pending'[k].turn \in {None, turn'}
         /\ pending'[k].type # "turn.completed"
         /\ pending'[k].type \notin {"answer.submitted", "business.claim.declared"}
         /\ pending'[k].type \notin Settlements
  BY <1>1 DEF Quiet
<1>3. phase' = "turn" => phase = "turn" /\ turn' = turn
  OBVIOUS
<1>4. TurnInv'
  BY <1>2, <1>3, TurnKept DEF LifeInv
<1>5. SettleInv'
  BY <1>2, SettleQuiet DEF LifeInv
<1>6. AnswerInv'
  BY <1>2, <1>3, AnswerQuiet DEF LifeInv
<1> QED
  BY <1>4, <1>5, <1>6 DEF LifeInv

LEMMA StartLife ==
    ASSUME ReplayInv, LifeInv, Start
    PROVE  LifeInv'
<1>1. /\ pending' = <<Event("analysis.started", None), Event("context.injected", None)>>
      /\ phase' = "idle" /\ pending = <<>> /\ log' = log
      /\ UNCHANGED <<turn, requests>>
  BY DEF Start, Ready, ViewInjected
<1>2. /\ Event("analysis.started", None) \in Quiet(turn)
      /\ Event("context.injected", None) \in Quiet(turn)
  <2> DEFINE e == Event("analysis.started", None)
             f == Event("context.injected", None)
  <2>1. /\ e.type = "analysis.started" /\ e.turn = None
        /\ f.type = "context.injected" /\ f.turn = None
    BY DEF Event
  <2>2. e \in Offered(Given) /\ f \in Offered(Given)
    BY EventOffered DEF EventTypes, ContextTypes
  <2> HIDE DEF e, f
  <2>3. e \in Quiet(turn) /\ f \in Quiet(turn)
    BY <2>1, <2>2, OfferedTyped DEF Quiet, Settlements
  <2> QED
    BY <2>3 DEF e, f
<1>3. pending' \in Seq(Quiet(turn))
  BY <1>1, <1>2
<1>4. TypeOK /\ TypeOK'
  BY StartReplay DEF ReplayInv
<1> QED
  BY <1>1, <1>3, <1>4, QuietLife

LEMMA CompleteLife ==
    ASSUME ReplayInv, LifeInv, Complete
    PROVE  LifeInv'
<1>1. /\ pending' = <<Event("analysis.completed", None)>>
      /\ phase' = "ended" /\ pending = <<>> /\ log' = log
      /\ UNCHANGED <<turn, requests>>
  BY DEF Complete, Ready
<1>2. Event("analysis.completed", None) \in Quiet(turn)
  <2> DEFINE e == Event("analysis.completed", None)
  <2>1. e.type = "analysis.completed" /\ e.turn = None
    BY DEF Event
  <2>2. e \in Offered(Given)
    BY EventOffered DEF EventTypes, ContextTypes
  <2> HIDE DEF e
  <2>3. e \in Quiet(turn)
    BY <2>1, <2>2, OfferedTyped DEF Quiet, Settlements
  <2> QED
    BY <2>3 DEF e
<1>3. pending' \in Seq(Quiet(turn))
  BY <1>1, <1>2
<1>4. TypeOK /\ TypeOK'
  BY CompleteReplay DEF ReplayInv
<1> QED
  BY <1>1, <1>3, <1>4, QuietLife

LEMMA RetryLife ==
    ASSUME ReplayInv, LifeInv,
           NEW type \in {"model.retry.started", "model.retry.exhausted"}, Retry(type)
    PROVE  LifeInv'
<1> DEFINE e == Of(requests[Len(requests)], type)
<1>1. /\ pending' = <<e>>
      /\ phase' = phase /\ pending = <<>> /\ log' = log
      /\ UNCHANGED <<turn, requests>>
  BY DEF Retry, MayWork, Ready
<1>2. TypeOK /\ TypeOK'
  BY RetryReplay DEF ReplayInv
<1>3. pending' \in Seq(EventRecord)
  BY <1>2 DEF TypeOK
<1>4. e \in EventRecord
  <2>1. pending'[1] = e /\ 1 \in DOMAIN pending'
    BY <1>1
  <2> QED
    BY <1>3, <2>1
<1>5. e.type = type /\ e.turn = turn
  BY DEF Of, Event
<1> HIDE DEF e
<1>6. e \in Quiet(turn)
  BY <1>4, <1>5 DEF Quiet, Settlements
<1>7. pending' \in Seq(Quiet(turn))
  BY <1>1, <1>6
<1> QED
  BY <1>1, <1>2, <1>7, QuietLife

LEMMA StartToolLife ==
    ASSUME ReplayInv, LifeInv, StartTool
    PROVE  LifeInv'
<1> DEFINE tool == Cardinality(At(log, {"tool.started"})) + 1
           c == [tool |-> tool,
                 request |-> IF round # None THEN round ELSE requests[Len(requests)].id]
           ref == <<"call", tool>>
           e == [OfTool(c, "tool.started") EXCEPT !.artifact = ref, !.produced = {ref}]
<1>1. /\ pending' = <<e>>
      /\ phase' = phase /\ pending = <<>> /\ log' = log
      /\ UNCHANGED <<turn, requests>>
  BY DEF StartTool, MayWork, Ready
<1> HIDE DEF c, ref
<1>2. TypeOK /\ TypeOK'
  BY StartToolReplay DEF ReplayInv
<1>3. pending' \in Seq(EventRecord)
  BY <1>2 DEF TypeOK
<1>4. e \in EventRecord
  <2>1. pending'[1] = e /\ 1 \in DOMAIN pending'
    BY <1>1
  <2> QED
    BY <1>3, <2>1
<1>5. e.type = "tool.started" /\ e.turn = turn
  BY DEF OfTool, Event
<1> HIDE DEF e
<1>6. e \in Quiet(turn)
  BY <1>4, <1>5 DEF Quiet, Settlements
<1>7. pending' \in Seq(Quiet(turn))
  BY <1>1, <1>6
<1> QED
  BY <1>1, <1>2, <1>7, QuietLife

LEMMA CompleteToolLife ==
    ASSUME ReplayInv, LifeInv, NEW c \in calls, NEW kind \in Kinds, CompleteTool(c, kind)
    PROVE  LifeInv'
<1> DEFINE e == [OfTool(c, "tool.completed") EXCEPT
                    !.ok = kind \notin Failures, !.result = kind \in {"analysis", "query"},
                    !.consumed = {<<"call", c.tool>>}, !.artifact = <<"call", c.tool>>,
                    !.produced = ProducedBy(kind), !.evidence = CitedBy(kind)]
           f == Followed(c, kind)
           Types == {"tool.completed", "business.decision.declared", "context.projected",
                     "tool.failed"}
<1>1. /\ pending' = <<e>> \o f
      /\ kind = "query" => Result \in Known
      /\ phase' = phase /\ pending = <<>> /\ log' = log
      /\ UNCHANGED <<turn, requests>>
  BY DEF CompleteTool, Ready
<1>2. TypeOK /\ TypeOK'
  BY CompleteToolReplay DEF ReplayInv
<1>3. <<"call", c.tool>> \in Given
  <2>1. DOMAIN pending = {}
    BY <1>1
  <2> QED
    BY <2>1 DEF ReplayInv, ProducedInv
<1>4. e \in EventRecord
  BY <1>3, CompletedOffered, OfferedTyped
<1>5. e.type = "tool.completed" /\ e.turn = turn
  BY DEF OfTool, Event
<1>6. f \in Seq(EventRecord)
  <2>1. f \in Seq(Offered(Given))
    BY <1>1, FollowedOffered
  <2>2. \A S, T : S \subseteq T => Seq(S) \subseteq Seq(T)
    OBVIOUS
  <2> QED
    BY <2>1, <2>2, OfferedTyped
<1> HIDE DEF e
<1>7. e \in Quiet(turn)
  BY <1>4, <1>5 DEF Quiet, Settlements
<1>8. \A k \in DOMAIN f : f[k].type \in Types /\ f[k].turn = turn
  <2>1. CASE kind = "decision"
    <3> DEFINE g == [OfTool(c, "business.decision.declared") EXCEPT !.consumed = Allowed]
    <3>1. f = <<g>>
      BY <2>1 DEF Followed, Failures
    <3>2. g.type \in Types /\ g.turn = turn
      BY DEF OfTool, Event
    <3> HIDE DEF f, g
    <3> QED
      BY <3>1, <3>2
  <2>2. CASE kind \in Failures
    <3> DEFINE g == Observed({}, CitedBy(kind))
               h == Observed({<<"observation", c.tool>>}, {})
               x == [Event("tool.failed", turn) EXCEPT !.ok = FALSE]
    <3>1. f = <<g, h, x>>
      BY <2>2 DEF Followed, Failures
    <3>2. /\ g.type \in Types /\ g.turn = turn /\ h.type \in Types /\ h.turn = turn
          /\ x.type \in Types /\ x.turn = turn
      BY ObservedIs DEF Event
    <3> HIDE DEF f, g, h, x
    <3> QED
      BY <3>1, <3>2
  <2>3. CASE kind \notin {"decision"} \cup Failures
    <3>1. PICK consumed, produced : f = <<Observed(consumed, produced)>>
      BY <2>3 DEF Followed, Kinds, Failures
    <3> DEFINE g == Observed(consumed, produced)
    <3>2. g.type \in Types /\ g.turn = turn
      BY ObservedIs
    <3> HIDE DEF f, g
    <3> QED
      BY <3>1, <3>2 DEF g
  <2> QED
    BY <2>1, <2>2, <2>3
<1> HIDE DEF f
<1>9. ASSUME NEW k \in DOMAIN f
      PROVE  f[k] \in Quiet(turn)
  <2>1. f[k] \in EventRecord
    BY <1>6
  <2> QED
    BY <1>8, <2>1 DEF Quiet, Settlements
<1>10. f \in Seq(Quiet(turn))
  <2>1. DOMAIN f = 1..Len(f) /\ Len(f) \in Nat /\ f = [k \in 1..Len(f) |-> f[k]]
    BY <1>6
  <2>2. f \in [1..Len(f) -> Quiet(turn)]
    BY <1>9, <2>1
  <2> QED
    BY <2>1, <2>2
<1>11. pending' \in Seq(Quiet(turn))
  BY <1>1, <1>7, <1>10
<1> QED
  BY <1>1, <1>2, <1>11, QuietLife

LEMMA StartTurnLife ==
    ASSUME ReplayInv, LifeInv, StartTurn
    PROVE  LifeInv'
<1> DEFINE e == Event("turn.started", turn + 1)
           f == Event("context.injected", None)
<1>1. /\ pending' = <<e, f>>
      /\ phase' = "turn" /\ pending = <<>> /\ log' = log
      /\ turn' = turn + 1 /\ requests' = <<>>
  BY DEF StartTurn, Ready, ViewInjected
<1>2. TypeOK /\ TypeOK'
  BY StartTurnReplay DEF ReplayInv
<1>3. e.type = "turn.started" /\ e.turn = turn' /\ f.type = "context.injected" /\ f.turn = None
  BY <1>1 DEF Event
<1> HIDE DEF e, f
<1>4. 1 \in DOMAIN pending' /\ pending'[1] = e /\ \A k \in DOMAIN pending' : pending'[k] \in {e, f}
  BY <1>1
<1>5. \A k \in DOMAIN pending' :
         /\ pending'[k].turn \in {None, turn'}
         /\ pending'[k].type # "turn.completed"
         /\ pending'[k].type \notin {"answer.submitted", "business.claim.declared"}
         /\ pending'[k].type \notin Settlements
  BY <1>3, <1>4 DEF Settlements
<1>6. TurnInv'
  BY <1>1, <1>2, <1>3, <1>4, <1>5, TurnKept DEF LifeInv
<1>7. SettleInv'
  BY <1>1, <1>2, <1>5, SettleQuiet DEF LifeInv
<1>8. AnswerInv'
  BY <1>1, <1>2, <1>5, AnswerQuiet DEF LifeInv
<1> QED
  BY <1>6, <1>7, <1>8 DEF LifeInv

\* A request is given a number that no request has had.
LEMMA RequestLife ==
    ASSUME ReplayInv, LifeInv, Request
    PROVE  LifeInv'
<1> DEFINE id == RequestsSoFar + 1
           types == {"model.request.started"}
           before == Cardinality(At(Ahead, types))
           after == Cardinality(At(Ahead', types))
           e == [Of([id |-> id], "model.request.started") EXCEPT
                    !.artifact = <<"input", id>>, !.produced = {<<"input", id>>}]
           s == [Event("step.started", turn) EXCEPT !.step = id]
           new == [id |-> id, settled |-> FALSE]
           n == Len(requests)
<1>1. /\ pending' = IF recording = "schema" THEN <<s, e>> ELSE <<e>>
      /\ requests' = Append(requests, new)
      /\ phase' = phase /\ turn' = turn /\ pending = <<>> /\ log' = log
  BY DEF Request, MayWork, Ready
<1>2. TypeOK /\ TypeOK'
  BY RequestReplay DEF ReplayInv
<1>3. e.type = "model.request.started" /\ e.turn = turn /\ s.type = "step.started" /\ s.turn = turn
  BY DEF Of, Event
<1> HIDE DEF e, s
<1>4. /\ \A k \in DOMAIN pending' : pending'[k] \in {e, s}
      /\ \E k \in DOMAIN pending' : pending'[k] = e
  <2>1. CASE recording = "schema"
    <3>1. 2 \in DOMAIN pending' /\ pending'[2] = e
      BY <1>1, <2>1
    <3> QED
      BY <1>1, <2>1, <3>1
  <2>2. CASE recording # "schema"
    <3>1. 1 \in DOMAIN pending' /\ pending'[1] = e
      BY <1>1, <2>2
    <3> QED
      BY <1>1, <2>2, <3>1
  <2> QED
    BY <2>1, <2>2
<1>5. \A k \in DOMAIN pending' :
         /\ pending'[k].turn \in {None, turn'}
         /\ pending'[k].type # "turn.completed"
         /\ pending'[k].type \notin {"answer.submitted", "business.claim.declared"}
         /\ pending'[k].type \notin Settlements
  BY <1>1, <1>3, <1>4 DEF Settlements
<1>6. TurnInv'
  BY <1>1, <1>2, <1>5, TurnKept DEF LifeInv
<1>7. AnswerInv'
  BY <1>1, <1>2, <1>5, AnswerQuiet DEF LifeInv
<1>8. /\ before \in Nat /\ after \in Nat /\ before < after /\ id = before + 1
  <2>1. \E k \in DOMAIN pending' : pending'[k].type \in types
    BY <1>3, <1>4
  <2> QED
    BY <1>1, <1>2, <2>1, BegunGrows
<1>9. /\ Ahead = log
      /\ \A i \in DOMAIN log : Ahead'[i] = log[i]
      /\ \A i \in DOMAIN Ahead' \ DOMAIN log :
            i - Len(log) \in DOMAIN pending' /\ Ahead'[i] = pending'[i - Len(log)]
  BY <1>1, <1>2, HandlerAhead
<1>10. \A i \in DOMAIN Ahead' : Ahead'[i].type \in Settlements =>
          i \in DOMAIN Ahead /\ Ahead'[i] = Ahead[i]
  BY <1>5, <1>9
<1>11. \A a \in DOMAIN requests : requests[a].id \in Nat /\ requests[a].id <= before
  <2>1. \A a \in DOMAIN requests : requests[a] \in TrackedRequest
    BY <1>2 DEF TypeOK
  <2> QED
    BY <2>1 DEF TrackedRequest, LifeInv, SettleInv
<1>12. \A i \in DOMAIN Ahead : Ahead[i].type \in Settlements =>
          Ahead[i].request \in Nat /\ Ahead[i].request <= before
  BY DEF LifeInv, SettleInv
<1> HIDE DEF before, after, id
<1>13. new.id = id
  OBVIOUS
<1> HIDE DEF new
<1>14. /\ \A a \in DOMAIN requests : requests'[a] = requests[a]
       /\ \A a \in DOMAIN requests' : a \in DOMAIN requests \/ (a = n + 1 /\ requests'[a] = new)
  <2>1. requests \in Seq(TrackedRequest)
    BY <1>2 DEF TypeOK
  <2>2. DOMAIN requests' = 1..(n + 1) /\ DOMAIN requests = 1..n /\ n \in Nat
    BY <1>1, <2>1
  <2>3. \A a \in 1..(n + 1) : a \in 1..n \/ a = n + 1
    BY <2>2
  <2>4. requests'[n + 1] = new
    BY <1>1, <2>1
  <2> QED
    BY <1>1, <2>1, <2>2, <2>3, <2>4
<1>15. SettleInv'
  <2>1. \A i, j \in DOMAIN Ahead' :
           /\ Ahead'[i].type \in Settlements /\ Ahead'[j].type \in Settlements
           /\ Ahead'[i].request = Ahead'[j].request
           => Ahead'[i].type = Ahead'[j].type
    BY <1>10 DEF LifeInv, SettleInv
  <2>2. ASSUME NEW u \in Unsettled', NEW i \in DOMAIN Ahead', Ahead'[i].type \in Settlements
        PROVE  Ahead'[i].request # requests'[u].id
    <3>1. i \in DOMAIN Ahead /\ Ahead'[i] = Ahead[i]
      BY <1>10, <2>2
    <3>2. u \in DOMAIN requests' /\ ~requests'[u].settled
      BY DEF Unsettled
    <3>3. CASE u \in DOMAIN requests
      <4>1. u \in Unsettled
        BY <1>14, <3>2, <3>3 DEF Unsettled
      <4> QED
        BY <1>14, <2>2, <3>1, <3>3, <4>1 DEF LifeInv, SettleInv
    <3>4. CASE u \notin DOMAIN requests
      <4>1. requests'[u].id = before + 1
        BY <1>8, <1>13, <1>14, <3>2, <3>4
      <4> QED
        BY <1>8, <1>12, <2>2, <3>1, <4>1
    <3> QED
      BY <3>3, <3>4
  <2>3. ASSUME NEW a \in DOMAIN requests', NEW b \in DOMAIN requests',
               requests'[a].id = requests'[b].id
        PROVE  a = b
    <3>1. CASE a \in DOMAIN requests /\ b \in DOMAIN requests
      BY <1>14, <2>3, <3>1 DEF LifeInv, SettleInv
    <3>2. CASE a \in DOMAIN requests /\ b \notin DOMAIN requests
      BY <1>8, <1>11, <1>13, <1>14, <2>3, <3>2
    <3>3. CASE a \notin DOMAIN requests /\ b \in DOMAIN requests
      BY <1>8, <1>11, <1>13, <1>14, <2>3, <3>3
    <3>4. CASE a \notin DOMAIN requests /\ b \notin DOMAIN requests
      BY <1>14, <3>4
    <3> QED
      BY <3>1, <3>2, <3>3, <3>4
  <2>4. \A a \in DOMAIN requests' : requests'[a].id <= after
    BY <1>8, <1>11, <1>13, <1>14
  <2>5. \A i \in DOMAIN Ahead' : Ahead'[i].type \in Settlements =>
           Ahead'[i].request \in Nat /\ Ahead'[i].request <= after
    BY <1>8, <1>10, <1>12
  <2> QED
    BY <2>1, <2>2, <2>3, <2>4, <2>5 DEF SettleInv, after
<1> QED
  BY <1>6, <1>7, <1>15 DEF LifeInv

\* The one response that settles a request.
LEMMA SettleOne ==
    ASSUME ReplayInv, LifeInv, TypeOK', pending = <<>>, log' = log,
           phase' = phase, turn' = turn,
           Unsettled # {},
           requests' = [requests EXCEPT ![Min(Unsettled)].settled = TRUE],
           NEW e, pending' = <<e>>, e.turn = turn, e.type \in Settlements,
           e.request = requests[Min(Unsettled)].id
    PROVE  LifeInv'
<1> DEFINE i == Min(Unsettled)
           before == Cardinality(At(Ahead, {"model.request.started"}))
           after == Cardinality(At(Ahead', {"model.request.started"}))
<1>1. TypeOK /\ requests \in Seq(TrackedRequest)
  BY DEF ReplayInv, TypeOK
<1>2. i \in Unsettled /\ i \in DOMAIN requests
  BY <1>1, UnsettledFinite
<1>3. \A k \in DOMAIN pending' : pending'[k] = e
  OBVIOUS
<1>4. \A k \in DOMAIN pending' :
         /\ pending'[k].turn \in {None, turn'}
         /\ pending'[k].type # "turn.completed"
         /\ pending'[k].type \notin {"answer.submitted", "business.claim.declared"}
  BY <1>3 DEF Settlements
<1>5. TurnInv'
  BY <1>1, <1>4, TurnKept DEF LifeInv
<1>6. AnswerInv'
  BY <1>1, <1>4, AnswerQuiet DEF LifeInv
<1>7. before \in Nat /\ after \in Nat /\ before <= after
  BY <1>1, BegunGrows
<1>8. /\ Ahead = log
      /\ \A m \in DOMAIN log : Ahead'[m] = log[m]
      /\ \A m \in DOMAIN Ahead' \ DOMAIN log :
            m - Len(log) \in DOMAIN pending' /\ Ahead'[m] = pending'[m - Len(log)]
  BY <1>1, HandlerAhead
<1>9. \A m \in DOMAIN Ahead' : \/ m \in DOMAIN Ahead /\ Ahead'[m] = Ahead[m]
                               \/ m \notin DOMAIN Ahead /\ Ahead'[m] = e
  BY <1>3, <1>8
<1>10. /\ DOMAIN requests' = DOMAIN requests
       /\ \A a \in DOMAIN requests : requests'[a].id = requests[a].id
       /\ \A a \in DOMAIN requests : ~requests'[a].settled => a \in Unsettled /\ a # i
  <2>1. \A a \in DOMAIN requests : requests[a] \in TrackedRequest
    BY <1>1
  <2>2. DOMAIN requests' = DOMAIN requests
    OBVIOUS
  <2>3. \A a \in DOMAIN requests : a # i => requests'[a] = requests[a]
    OBVIOUS
  <2>4. requests'[i] = [requests[i] EXCEPT !.settled = TRUE]
    BY <1>2
  <2>5. requests'[i].id = requests[i].id /\ requests'[i].settled = TRUE
    BY <1>2, <2>1, <2>4 DEF TrackedRequest
  <2> QED
    BY <2>2, <2>3, <2>5 DEF Unsettled
<1>11. \A a \in DOMAIN requests : requests[a].id \in Nat /\ requests[a].id <= before
  <2>1. \A a \in DOMAIN requests : requests[a] \in TrackedRequest
    BY <1>1
  <2> QED
    BY <2>1 DEF TrackedRequest, LifeInv, SettleInv
<1>12. \A m \in DOMAIN Ahead : Ahead[m].type \in Settlements =>
          /\ Ahead[m].request \in Nat /\ Ahead[m].request <= before
          /\ Ahead[m].request # e.request
  BY <1>2 DEF LifeInv, SettleInv
<1>13. \A a \in DOMAIN requests : a # i => requests[a].id # e.request
  BY <1>2 DEF LifeInv, SettleInv
<1>14. e.request = requests[i].id
  OBVIOUS
<1> HIDE DEF before, after, i
<1>15. SettleInv'
  <2>1. ASSUME NEW m \in DOMAIN Ahead', NEW j \in DOMAIN Ahead',
               Ahead'[m].type \in Settlements, Ahead'[j].type \in Settlements,
               Ahead'[m].request = Ahead'[j].request
        PROVE  Ahead'[m].type = Ahead'[j].type
    <3>1. CASE m \in DOMAIN Ahead /\ j \in DOMAIN Ahead
      BY <1>9, <2>1, <3>1 DEF LifeInv, SettleInv
    <3>2. CASE m \notin DOMAIN Ahead /\ j \notin DOMAIN Ahead
      BY <1>9, <3>2
    <3>3. CASE m \in DOMAIN Ahead /\ j \notin DOMAIN Ahead
      BY <1>9, <1>12, <2>1, <3>3
    <3>4. CASE m \notin DOMAIN Ahead /\ j \in DOMAIN Ahead
      BY <1>9, <1>12, <2>1, <3>4
    <3> QED
      BY <3>1, <3>2, <3>3, <3>4
  <2>2. ASSUME NEW u \in Unsettled', NEW m \in DOMAIN Ahead', Ahead'[m].type \in Settlements
        PROVE  Ahead'[m].request # requests'[u].id
    <3>1. u \in DOMAIN requests /\ u \in Unsettled /\ u # i /\ requests'[u].id = requests[u].id
      BY <1>10 DEF Unsettled
    <3>2. CASE m \in DOMAIN Ahead
      BY <1>9, <2>2, <3>1, <3>2 DEF LifeInv, SettleInv
    <3>3. CASE m \notin DOMAIN Ahead
      BY <1>9, <1>13, <3>1, <3>3
    <3> QED
      BY <3>2, <3>3
  <2>3. \A a, b \in DOMAIN requests' : requests'[a].id = requests'[b].id => a = b
    BY <1>10 DEF LifeInv, SettleInv
  <2>4. \A a \in DOMAIN requests' : requests'[a].id <= after
    BY <1>7, <1>10, <1>11
  <2>5. ASSUME NEW m \in DOMAIN Ahead', Ahead'[m].type \in Settlements
        PROVE  Ahead'[m].request \in Nat /\ Ahead'[m].request <= after
    <3>1. CASE m \in DOMAIN Ahead
      BY <1>7, <1>9, <1>12, <2>5, <3>1
    <3>2. CASE m \notin DOMAIN Ahead
      BY <1>2, <1>7, <1>9, <1>11, <1>14, <3>2
    <3> QED
      BY <3>1, <3>2
  <2> QED
    BY <2>1, <2>2, <2>3, <2>4, <2>5 DEF SettleInv, after
<1> QED
  BY <1>5, <1>6, <1>15 DEF LifeInv

LEMMA RespondLife ==
    ASSUME ReplayInv, LifeInv, NEW toolUse \in BOOLEAN, Respond(toolUse)
    PROVE  LifeInv'
<1> DEFINE r == requests[Min(Unsettled)]
           e == [Of(r, "model.response.completed") EXCEPT
                    !.artifact = <<"response", r.id>>, !.produced = {<<"response", r.id>>}]
<1>1. /\ pending' = <<e>> /\ Unsettled # {}
      /\ requests' = [requests EXCEPT ![Min(Unsettled)].settled = TRUE]
      /\ phase' = phase /\ turn' = turn /\ pending = <<>> /\ log' = log
  BY DEF Respond, MayWork, Ready
<1>2. TypeOK'
  BY RespondReplay DEF ReplayInv
<1>3. e.turn = turn /\ e.type \in Settlements /\ e.request = r.id
  BY DEF Of, Event, Settlements
<1> HIDE DEF e
<1> QED
  BY <1>1, <1>2, <1>3, SettleOne

LEMMA FailResponseLife ==
    ASSUME ReplayInv, LifeInv, FailResponse
    PROVE  LifeInv'
<1> DEFINE r == requests[Min(Unsettled)]
           e == [Of(r, "model.response.failed") EXCEPT !.ok = FALSE]
<1>1. /\ pending' = <<e>> /\ Unsettled # {}
      /\ requests' = [requests EXCEPT ![Min(Unsettled)].settled = TRUE]
      /\ phase' = phase /\ turn' = turn /\ pending = <<>> /\ log' = log
  BY DEF FailResponse, MayWork, Ready
<1>2. TypeOK'
  BY FailResponseReplay DEF ReplayInv
<1>3. e.turn = turn /\ e.type \in Settlements /\ e.request = r.id
  BY DEF Of, Event, Settlements
<1> HIDE DEF e
<1> QED
  BY <1>1, <1>2, <1>3, SettleOne

\* What is appended as a turn ends, but for its answer: the requests that are
\* not settled fail.
Closing ==
    {e \in EventRecord :
        /\ e.turn \in {None, turn}
        /\ e.type = "turn.completed" => e.turn = turn
        /\ e.type \in Settlements =>
              /\ e.type = "model.response.failed"
              /\ \E u \in Unsettled : e.request = requests[u].id
        /\ e.type # "answer.submitted"
        /\ e.type = "business.claim.declared" => e.turn = turn /\ e.submission = turn}

LEMMA ClosingEvent ==
    ASSUME turn \in Nat, NEW t \in {None, turn}, NEW type \in EventTypes,
           type \notin Settlements \cup {"answer.submitted", "business.claim.declared"},
           type = "turn.completed" => t = turn
    PROVE  Event(type, t) \in {e \in Closing : e.type # "business.claim.declared"}
<1> DEFINE e == Event(type, t)
<1>1. e.type = type /\ e.turn = t
  BY DEF Event
<1>2. e \in EventRecord
  <2>1. t \in Nat \cup {None}
    OBVIOUS
  <2> QED
    BY <2>1, EventTyped
<1> HIDE DEF e
<1>3. e \in {f \in Closing : f.type # "business.claim.declared"}
  BY <1>1, <1>2 DEF Closing
<1> QED
  BY <1>3 DEF e

LEMMA InterruptedClosing ==
    ASSUME ReplayInv
    PROVE  Interrupted \in Seq({e \in Closing : e.type # "business.claim.declared"})
<1> DEFINE N == Cardinality(Unsettled)
           S == {e \in Closing : e.type # "business.claim.declared"}
<1>1. requests \in Seq(TrackedRequest) /\ turn \in Nat
  BY DEF ReplayInv, TypeOK
<1>2. N \in Nat
  BY <1>1, UnsettledFinite
<1>3. Interrupted \in Seq(Offered(Given))
  BY InterruptedOffered
<1>4. DOMAIN Interrupted = 1..N /\ Interrupted = [k \in 1..N |-> Interrupted[k]]
  BY DEF Interrupted
<1>5. ASSUME NEW k \in 1..N
      PROVE  Interrupted[k] \in S
  <2> DEFINE x == Interrupted[k]
  <2>1. x \in EventRecord
    <3>1. k \in DOMAIN Interrupted
      BY <1>4
    <3>2. Interrupted[k] \in Offered(Given)
      BY <1>3, <3>1
    <3> QED
      BY <3>2, OfferedTyped
  <2>2. PICK i \in Unsettled :
           x = [Of(requests[i], "model.response.failed") EXCEPT !.ok = FALSE]
    BY <1>5, InterruptedIs
  <2> HIDE DEF x
  <2>3. x.type = "model.response.failed" /\ x.turn = turn /\ x.request = requests[i].id
    BY <2>2 DEF Of, Event
  <2>4. x \in S
    BY <2>1, <2>3 DEF Closing, Settlements
  <2> QED
    BY <2>4 DEF x
<1> HIDE DEF N, S
<1>6. Interrupted \in [1..N -> S]
  BY <1>4, <1>5
<1>7. Interrupted \in Seq(S)
  BY <1>2, <1>6
<1> QED
  BY <1>7 DEF S

LEMMA SettleEnd ==
    ASSUME TypeOK, SettleInv, TypeOK', pending = <<>>, log' = log, requests' = <<>>,
           \A k \in DOMAIN pending' : pending'[k].type \in Settlements =>
              /\ pending'[k].type = "model.response.failed"
              /\ \E u \in Unsettled : pending'[k].request = requests[u].id
    PROVE  SettleInv'
<1> DEFINE before == Cardinality(At(Ahead, {"model.request.started"}))
           after == Cardinality(At(Ahead', {"model.request.started"}))
<1>1. before \in Nat /\ after \in Nat /\ before <= after
  BY BegunGrows
<1>2. /\ Ahead = log
      /\ \A m \in DOMAIN log : Ahead'[m] = log[m]
      /\ \A m \in DOMAIN Ahead' \ DOMAIN log :
            m - Len(log) \in DOMAIN pending' /\ Ahead'[m] = pending'[m - Len(log)]
  BY HandlerAhead
<1>3. \A m \in DOMAIN Ahead' : Ahead'[m].type \in Settlements =>
         \/ m \in DOMAIN Ahead /\ Ahead'[m] = Ahead[m]
         \/ /\ m \notin DOMAIN Ahead /\ Ahead'[m].type = "model.response.failed"
            /\ \E u \in Unsettled : Ahead'[m].request = requests[u].id
  BY <1>2
<1>4. \A u \in Unsettled : requests[u].id \in Nat /\ requests[u].id <= before
  <2>1. \A a \in DOMAIN requests : requests[a] \in TrackedRequest
    BY DEF TypeOK
  <2> QED
    BY <2>1 DEF TrackedRequest, SettleInv, Unsettled
<1>5. \A m \in DOMAIN Ahead : Ahead[m].type \in Settlements =>
         /\ Ahead[m].request \in Nat /\ Ahead[m].request <= before
         /\ \A u \in Unsettled : Ahead[m].request # requests[u].id
  BY DEF SettleInv
<1>6. DOMAIN requests' = {} /\ Unsettled' = {}
  BY DEF Unsettled
<1>7. ASSUME NEW m \in DOMAIN Ahead', NEW j \in DOMAIN Ahead',
             Ahead'[m].type \in Settlements, Ahead'[j].type \in Settlements,
             Ahead'[m].request = Ahead'[j].request
      PROVE  Ahead'[m].type = Ahead'[j].type
  <2>1. CASE m \in DOMAIN Ahead /\ j \in DOMAIN Ahead
    BY <1>3, <1>7, <2>1 DEF SettleInv
  <2>2. CASE m \notin DOMAIN Ahead /\ j \notin DOMAIN Ahead
    BY <1>3, <1>7, <2>2
  <2>3. CASE m \in DOMAIN Ahead /\ j \notin DOMAIN Ahead
    BY <1>3, <1>5, <1>7, <2>3
  <2>4. CASE m \notin DOMAIN Ahead /\ j \in DOMAIN Ahead
    BY <1>3, <1>5, <1>7, <2>4
  <2> QED
    BY <2>1, <2>2, <2>3, <2>4
<1> HIDE DEF before, after
<1>8. ASSUME NEW m \in DOMAIN Ahead', Ahead'[m].type \in Settlements
      PROVE  Ahead'[m].request \in Nat /\ Ahead'[m].request <= after
  <2>1. CASE m \in DOMAIN Ahead
    BY <1>1, <1>3, <1>5, <1>8, <2>1
  <2>2. CASE m \notin DOMAIN Ahead
    BY <1>1, <1>3, <1>4, <1>8, <2>2
  <2> QED
    BY <2>1, <2>2
<1> QED
  BY <1>6, <1>7, <1>8 DEF SettleInv, after

LEMMA FailTurnLife ==
    ASSUME ReplayInv, LifeInv, NEW rejected \in BOOLEAN, FailTurn(rejected)
    PROVE  LifeInv'
<1> DEFINE no == Event("answer.rejected", turn)
           audit == Event("audit.diagnostic.recorded", turn)
           seen == Event("context.projected", turn)
           done == Event("turn.completed", turn)
           failed == Event("analysis.failed", None)
           first == IF rejected THEN <<no, audit>> ELSE <<>>
           S == {e \in Closing : e.type # "business.claim.declared"}
<1>1. /\ pending' = first \o <<seen, done>> \o Interrupted \o <<failed>>
      /\ phase = "turn" /\ phase' = "ended" /\ requests' = <<>>
      /\ pending = <<>> /\ turn' = turn /\ log' = log
  BY DEF FailTurn, Ready, Ended
<1>2. turn \in Nat /\ TypeOK
  BY DEF ReplayInv, TypeOK
<1>3. TypeOK'
  BY FailTurnReplay DEF ReplayInv
<1>4. no \in S /\ audit \in S /\ seen \in S /\ done \in S /\ failed \in S
  BY <1>2, ClosingEvent DEF EventTypes, ContextTypes, Settlements
<1>5. Interrupted \in Seq(S)
  BY InterruptedClosing
<1>6. \A e \in S :
         /\ e.turn \in {None, turn'}
         /\ e.type = "turn.completed" => phase = "turn" /\ e.turn = turn
         /\ e.type \in Settlements =>
               /\ e.type = "model.response.failed"
               /\ \E u \in Unsettled : e.request = requests[u].id
         /\ e.type \notin {"answer.submitted", "business.claim.declared"}
  BY <1>1 DEF Closing
<1> HIDE DEF no, audit, seen, done, failed, S
<1>7. first \in Seq(S) /\ <<seen, done>> \in Seq(S) /\ <<failed>> \in Seq(S)
  BY <1>4
<1> HIDE DEF first
<1>8. pending' \in Seq(S)
  BY <1>1, <1>5, <1>7, JoinedOffered
<1>9. \A k \in DOMAIN pending' : pending'[k] \in S
  BY <1>8
<1>10. TurnInv'
  BY <1>1, <1>2, <1>3, <1>6, <1>9, TurnKept DEF LifeInv
<1>11. SettleInv'
  BY <1>1, <1>2, <1>3, <1>6, <1>9, SettleEnd DEF LifeInv
<1>12. AnswerInv'
  BY <1>1, <1>2, <1>3, <1>6, <1>9, AnswerQuiet DEF LifeInv
<1> QED
  BY <1>10, <1>11, <1>12 DEF LifeInv

\* The one answer of a turn.
LEMMA AnswerOne ==
    ASSUME TypeOK, TurnInv, AnswerInv, TypeOK', pending = <<>>, log' = log,
           phase = "turn", phase' = "idle",
           1 \in DOMAIN pending', pending'[1].type = "answer.submitted",
           pending'[1].turn = turn, pending'[1].submission = turn,
           \A k \in DOMAIN pending' : k # 1 =>
              /\ pending'[k].type # "answer.submitted"
              /\ pending'[k].type = "business.claim.declared" =>
                    pending'[k].turn = turn /\ pending'[k].submission = turn
    PROVE  AnswerInv'
<1> DEFINE n == Len(log)
           a == n + 1
<1>1. /\ Ahead = log
      /\ \A i \in DOMAIN log : i \in DOMAIN Ahead' /\ Ahead'[i] = log[i]
      /\ a \in DOMAIN Ahead' /\ Ahead'[a] = pending'[1]
      /\ \A i \in DOMAIN Ahead' \ DOMAIN log :
            i - n \in DOMAIN pending' /\ Ahead'[i] = pending'[i - n]
      /\ DOMAIN Ahead' \subseteq Nat
  BY HandlerAhead
<1>2. /\ turn \in Nat /\ n \in Nat /\ DOMAIN log = 1..n /\ pending' \in Seq(EventRecord)
      /\ DOMAIN pending' = 1..Len(pending')
  BY DEF TypeOK
<1>3. a \notin DOMAIN log
  BY <1>2
<1>4. ASSUME NEW i \in DOMAIN Ahead' \ DOMAIN log, i # a
      PROVE  /\ a < i
             /\ Ahead'[i].type # "answer.submitted"
             /\ Ahead'[i].type = "business.claim.declared" =>
                   Ahead'[i].turn = turn /\ Ahead'[i].submission = turn
  <2>1. i \in Nat /\ i - n \in 1..Len(pending') /\ Len(pending') \in Nat
    BY <1>1, <1>2
  <2>2. a < i /\ i - n # 1
    BY <1>2, <1>4, <2>1
  <2> QED
    BY <1>1, <1>2, <2>1, <2>2
<1>5. /\ Ahead'[a].type = "answer.submitted" /\ Ahead'[a].turn = turn
      /\ Ahead'[a].submission = turn
  BY <1>1
<1> HIDE DEF a, n
<1>6. ASSUME NEW i \in DOMAIN Ahead',
             Ahead'[i].type \in {"answer.submitted", "business.claim.declared"}
      PROVE  Ahead'[i].turn \in Nat /\ Ahead'[i].submission = Ahead'[i].turn
  <2>1. CASE i \in DOMAIN log
    BY <1>1, <1>6, <2>1 DEF AnswerInv
  <2>2. CASE i = a
    BY <1>2, <1>5, <2>2
  <2>3. CASE i \notin DOMAIN log /\ i # a
    BY <1>2, <1>4, <1>6, <2>3
  <2> QED
    BY <2>1, <2>2, <2>3
<1>7. \A i \in DOMAIN Ahead' : Ahead'[i].type = "answer.submitted" =>
         \/ i \in DOMAIN log /\ Ahead'[i] = Ahead[i] /\ Ahead[i].turn # turn
         \/ i = a
  BY <1>1, <1>4 DEF AnswerInv
<1>8. ASSUME NEW i \in DOMAIN Ahead', NEW j \in DOMAIN Ahead',
             Ahead'[i].type = "answer.submitted", Ahead'[j].type = "answer.submitted",
             Ahead'[i].turn = Ahead'[j].turn
      PROVE  i = j
  BY <1>1, <1>5, <1>7, <1>8 DEF AnswerInv
<1>9. ASSUME NEW i \in DOMAIN Ahead', Ahead'[i].type = "business.claim.declared"
      PROVE  \E j \in DOMAIN Ahead' : /\ j < i /\ Ahead'[j].type = "answer.submitted"
                                      /\ Ahead'[j].turn = Ahead'[i].turn
  <2>1. CASE i \in DOMAIN log
    BY <1>1, <1>9, <2>1 DEF AnswerInv
  <2>2. CASE i \notin DOMAIN log
    <3>1. i # a
      BY <1>5, <1>9
    <3> QED
      BY <1>1, <1>4, <1>5, <1>9, <2>2, <3>1
  <2> QED
    BY <2>1, <2>2
<1>10. phase' # "turn"
  OBVIOUS
<1> QED
  BY <1>6, <1>8, <1>9, <1>10 DEF AnswerInv

LEMMA SubmitLife ==
    ASSUME ReplayInv, LifeInv, NEW refs \in SUBSET Known, Submit(refs)
    PROVE  LifeInv'
<1> DEFINE results == refs \cap {Result}
           answer == [Event("answer.submitted", turn) EXCEPT
                         !.submission = turn, !.artifact = <<"answer", turn>>,
                         !.consumed = results, !.evidence = refs \ results,
                         !.produced = {<<"answer", turn>>}]
           claim == [Event("business.claim.declared", turn) EXCEPT
                        !.submission = turn, !.consumed = results, !.evidence = refs \ results]
           audit == Event("audit.diagnostic.recorded", turn)
           done == Event("turn.completed", turn)
           claims == IF recording = "schema" /\ refs # {} THEN <<claim>> ELSE <<>>
           audits == IF Result \in refs /\ ResultEvidence \notin refs THEN <<audit>> ELSE <<>>
           rest == claims \o audits \o <<done>> \o Interrupted
<1>1. /\ pending' = <<answer>> \o claims \o audits \o <<done>> \o Interrupted
      /\ phase = "turn" /\ phase' = "idle" /\ requests' = <<>>
      /\ pending = <<>> /\ turn' = turn /\ log' = log
  BY DEF Submit, Ready, Ended
<1>2. turn \in Nat /\ TypeOK
  BY DEF ReplayInv, TypeOK
<1>3. TypeOK'
  BY SubmitReplay DEF ReplayInv
<1>4. answer.type = "answer.submitted" /\ answer.turn = turn /\ answer.submission = turn
  BY DEF Event
<1>5. claim \in Closing
  <2>1. claim.type = "business.claim.declared" /\ claim.turn = turn /\ claim.submission = turn
    BY DEF Event
  <2>2. claim \in EventRecord
    <3> DEFINE b == Event("business.claim.declared", turn)
               b1 == [b EXCEPT !.submission = turn]
               cites == refs \ results
               b2 == [b1 EXCEPT !.consumed = results]
    <3>1. results \in SUBSET Ref /\ cites \in SUBSET Ref /\ results \subseteq Given
      BY KnownGiven
    <3>2. claim = [b2 EXCEPT !.evidence = cites]
      OBVIOUS
    <3> HIDE DEF cites, results, claim
    <3>3. b \in Offered(Given) /\ b.type = "business.claim.declared"
      BY <1>2, EventOffered, EventTyped DEF EventTypes
    <3> HIDE DEF b
    <3>4. b1 \in Offered(Given) /\ b1.type = "business.claim.declared"
      BY <1>2, <3>3, SubmissionOffered
    <3> HIDE DEF b1
    <3>5. b2 \in Offered(Given) /\ b2.type = "business.claim.declared"
      BY <3>1, <3>4, ConsumedOffered
    <3> HIDE DEF b2
    <3>6. [b2 EXCEPT !.evidence = cites] \in Offered(Given)
      BY <3>1, <3>5, EvidenceOffered
    <3> QED
      BY <3>2, <3>6, OfferedTyped
  <2> HIDE DEF claim
  <2> QED
    BY <2>1, <2>2 DEF Closing, Settlements
<1>6. audit \in Closing /\ done \in Closing
  BY <1>2, ClosingEvent DEF EventTypes, ContextTypes, Settlements
<1>7. Interrupted \in Seq(Closing)
  <2> DEFINE S == {e \in Closing : e.type # "business.claim.declared"}
  <2>1. Interrupted \in Seq(S) /\ S \subseteq Closing
    BY InterruptedClosing
  <2>2. \A A, B : A \subseteq B => Seq(A) \subseteq Seq(B)
    OBVIOUS
  <2> HIDE DEF S
  <2> QED
    BY <2>1, <2>2
<1> HIDE DEF answer, claim, audit, done
<1>8. claims \in Seq(Closing) /\ audits \in Seq(Closing) /\ <<done>> \in Seq(Closing)
  BY <1>5, <1>6
<1> HIDE DEF claims, audits
<1>9. rest \in Seq(Closing)
  BY <1>7, <1>8, JoinedOffered
<1>10. pending' = <<answer>> \o rest
  BY <1>1, <1>7, <1>8
<1> HIDE DEF rest
<1>11. /\ 1 \in DOMAIN pending' /\ pending'[1] = answer
       /\ \A k \in DOMAIN pending' : k # 1 => pending'[k] \in Closing
  <2> DEFINE q == <<answer>> \o rest
  <2>1. Len(rest) \in Nat /\ DOMAIN q = 1..(1 + Len(rest)) /\ q[1] = answer
        /\ DOMAIN rest = 1..Len(rest)
    BY <1>9
  <2>2. ASSUME NEW k \in 1..(1 + Len(rest)), k # 1
        PROVE  q[k] \in Closing
    <3>1. k - 1 \in DOMAIN rest /\ q[k] = rest[k - 1]
      BY <1>9, <2>1, <2>2
    <3> QED
      BY <1>9, <3>1
  <2> HIDE DEF q
  <2>3. pending' = q
    BY <1>10 DEF q
  <2> QED
    BY <2>1, <2>2, <2>3
<1>12. \A k \in DOMAIN pending' :
         /\ pending'[k].turn \in {None, turn'}
         /\ pending'[k].type = "turn.completed" => phase = "turn" /\ pending'[k].turn = turn
         /\ pending'[k].type \in Settlements =>
               /\ pending'[k].type = "model.response.failed"
               /\ \E u \in Unsettled : pending'[k].request = requests[u].id
         /\ k # 1 =>
               /\ pending'[k].type # "answer.submitted"
               /\ pending'[k].type = "business.claim.declared" =>
                     pending'[k].turn = turn /\ pending'[k].submission = turn
  <2>1. \A e \in Closing :
         /\ e.turn \in {None, turn}
         /\ e.type = "turn.completed" => e.turn = turn
         /\ e.type \in Settlements =>
               /\ e.type = "model.response.failed"
               /\ \E u \in Unsettled : e.request = requests[u].id
         /\ e.type # "answer.submitted"
         /\ e.type = "business.claim.declared" => e.turn = turn /\ e.submission = turn
    BY DEF Closing
  <2>2. answer.type \notin Settlements \cup {"turn.completed"}
    BY <1>4 DEF Settlements
  <2> QED
    BY <1>1, <1>4, <1>11, <2>1, <2>2
<1>13. TurnInv'
  BY <1>1, <1>2, <1>3, <1>12, TurnKept DEF LifeInv
<1>14. SettleInv'
  BY <1>1, <1>2, <1>3, <1>12, SettleEnd DEF LifeInv
<1>15. AnswerInv'
  BY <1>1, <1>2, <1>3, <1>4, <1>11, <1>12, AnswerOne DEF LifeInv
<1> QED
  BY <1>13, <1>14, <1>15 DEF LifeInv

LEMMA SameLife ==
    ASSUME LifeInv, UNCHANGED <<log, pending, phase, turn, requests>>
    PROVE  LifeInv'
<1>1. Ahead' = Ahead /\ Unsettled' = Unsettled
  BY DEF Ahead, Unsettled
<1>2. TurnInv'
  BY <1>1 DEF LifeInv, TurnInv
<1>3. SettleInv'
  BY <1>1 DEF LifeInv, SettleInv
<1>4. AnswerInv'
  BY <1>1 DEF LifeInv, AnswerInv
<1> QED
  BY <1>2, <1>3, <1>4 DEF LifeInv

LEMMA InitLife ==
    ASSUME Init
    PROVE  LifeInv
<1>1. /\ Ahead = <<>> /\ DOMAIN Ahead = {}
      /\ DOMAIN requests = {} /\ Unsettled = {} /\ phase = "new"
  BY DEF Init, Ahead, Unsettled
<1>2. TurnInv
  BY <1>1 DEF TurnInv
<1>3. SettleInv
  BY <1>1 DEF SettleInv
<1>4. AnswerInv
  BY <1>1 DEF AnswerInv
<1> QED
  BY <1>2, <1>3, <1>4 DEF LifeInv

LEMMA NextLife ==
    ASSUME ReplayInv, LifeInv, [Next]_vars
    PROVE  LifeInv'
<1>1. CASE Write
  BY <1>1, WriteLife
<1>2. CASE Start
  BY <1>2, StartLife
<1>3. CASE StartTurn
  BY <1>3, StartTurnLife
<1>4. CASE Request
  BY <1>4, RequestLife
<1>5. ASSUME NEW toolUse \in BOOLEAN, Respond(toolUse)
      PROVE  LifeInv'
  BY <1>5, RespondLife
<1>6. CASE FailResponse
  BY <1>6, FailResponseLife
<1>7. ASSUME NEW type \in {"model.retry.started", "model.retry.exhausted"}, Retry(type)
      PROVE  LifeInv'
  BY <1>7, RetryLife
<1>8. CASE StartTool
  BY <1>8, StartToolLife
<1>9. ASSUME NEW c \in calls, NEW kind \in Kinds, CompleteTool(c, kind)
      PROVE  LifeInv'
  BY <1>9, CompleteToolLife
<1>10. ASSUME NEW refs \in SUBSET Known, Submit(refs)
       PROVE  LifeInv'
  BY <1>10, SubmitLife
<1>11. ASSUME NEW rejected \in BOOLEAN, FailTurn(rejected)
       PROVE  LifeInv'
  BY <1>11, FailTurnLife
<1>12. CASE Complete
  BY <1>12, CompleteLife
<1>13. ASSUME NEW ref \in Losable, Lose(ref)
       PROVE  LifeInv'
  BY <1>13, SameLife DEF Lose
<1>14. CASE UNCHANGED vars
  BY <1>14, SameLife DEF vars
<1> QED
  BY <1>1, <1>2, <1>3, <1>4, <1>5, <1>6, <1>7, <1>8, <1>9, <1>10, <1>11, <1>12, <1>13, <1>14
     DEF Next

-----------------------------------------------------------------------------
(* How the projections grow with the log *)

\* m is l and one more event, the n-th.
Extended(l, m, n) ==
    /\ l \in Seq(EventRecord) /\ m \in Seq(EventRecord)
    /\ n \in Nat /\ n \notin DOMAIN l
    /\ DOMAIN m = DOMAIN l \cup {n}
    /\ DOMAIN l \subseteq Nat
    /\ \A i \in DOMAIN l : i < n /\ m[i] = l[i]

LEMMA LogExtended ==
    ASSUME ReplayInv, [Next]_vars, log' # log
    PROVE  Write /\ Extended(log, log', Len(log) + 1)
<1>1. Write
  BY DEF Next, vars, Start, StartTurn, Request, Respond, FailResponse, Retry, StartTool,
         CompleteTool, Submit, FailTurn, Complete, Lose
<1>2. log \in Seq(EventRecord)
  BY DEF ReplayInv, TypeOK
<1>3. log' \in Seq(EventRecord)
  BY <1>1, WriteReplay DEF ReplayInv, TypeOK
<1> DEFINE b == Bounded(Head(pending))
           n == Len(log) + 1
<1>4. log' = Append(log, b)
  BY <1>1 DEF Write
<1> HIDE DEF b
<1>5. Len(log) \in Nat /\ DOMAIN log = 1..Len(log) /\ DOMAIN log' = 1..n
      /\ \A i \in DOMAIN log : log'[i] = log[i]
  BY <1>2, <1>4
<1>6. \A i \in 1..n : i \in 1..Len(log) \/ i = n
  BY <1>5
<1>7. n \in Nat /\ n \notin 1..Len(log) /\ n \in 1..n /\ 1..Len(log) \subseteq 1..n
      /\ \A i \in 1..Len(log) : i < n
  BY <1>5
<1> QED
  BY <1>1, <1>2, <1>3, <1>5, <1>6, <1>7 DEF Extended

\* What is recorded comes before what will be.
LEMMA AheadPrefix ==
    ASSUME TypeOK, NEW j \in DOMAIN log
    PROVE  /\ j \in DOMAIN Ahead /\ Ahead[j] = log[j]
           /\ \A t \in DOMAIN Ahead : t < j => t \in DOMAIN log /\ Ahead[t] = log[t]
<1>1. /\ Len(log) \in Nat /\ Len(pending) \in Nat /\ DOMAIN log = 1..Len(log)
      /\ DOMAIN Ahead = 1..(Len(log) + Len(pending))
      /\ \A i \in DOMAIN log : i \in DOMAIN Ahead /\ Ahead[i] = log[i]
  BY AheadIs
<1>2. ASSUME NEW t \in DOMAIN Ahead, t < j
      PROVE  t \in DOMAIN log
  BY <1>1, <1>2
<1> QED
  BY <1>1, <1>2

LEMMA AheadPrefixNext ==
    ASSUME TypeOK'
    PROVE  \A j \in DOMAIN log' : j \in DOMAIN Ahead' /\ Ahead'[j] = log'[j]
  BY AheadIsNext

LEMMA AtGrows ==
    ASSUME NEW l, NEW m, NEW n, Extended(l, m, n), NEW types
    PROVE  /\ At(l, types) \subseteq At(m, types)
           /\ At(m, types) \subseteq At(l, types) \cup {n}
           /\ At(l, types) \subseteq DOMAIN l
           /\ \A j \in At(m, types) : \A i \in DOMAIN l : j < i => j \in At(l, types)
<1>1. n \in Nat /\ \A i \in DOMAIN l : i \in Nat /\ i < n /\ i \in DOMAIN m /\ m[i] = l[i]
  BY DEF Extended
<1>2. DOMAIN m = DOMAIN l \cup {n}
  BY DEF Extended
<1>3. \A i \in DOMAIN l : ~(n < i)
  BY <1>1
<1> QED
  BY <1>1, <1>2, <1>3 DEF At

LEMMA NodesGrow ==
    ASSUME NEW l, NEW m, NEW n, Extended(l, m, n)
    PROVE  AgentNodes(l) \subseteq AgentNodes(m)
<1>1. \A i \in DOMAIN l : i \in Nat /\ i < n /\ i \in DOMAIN m /\ m[i] = l[i]
  BY DEF Extended
<1>2. \A types : /\ At(l, types) \subseteq At(m, types) /\ At(l, types) \subseteq DOMAIN l
                 /\ \A j \in At(m, types) : \A i \in DOMAIN l : j < i => j \in At(l, types)
  BY AtGrows
<1>3. ASSUME NEW i \in Turns(l)
      PROVE  i \in Turns(m)
  <2>1. i \in At(l, {"turn.started"})
        /\ \A j \in At(l, {"turn.started"}) : j < i => l[j].turn # l[i].turn
    BY DEF Turns
  <2>2. i \in DOMAIN l /\ i \in At(m, {"turn.started"})
    BY <1>2, <2>1
  <2>3. ASSUME NEW j \in At(m, {"turn.started"}), j < i
        PROVE  m[j].turn # m[i].turn
    <3>1. j \in At(l, {"turn.started"}) /\ j \in DOMAIN l
      BY <1>2, <2>2, <2>3
    <3> QED
      BY <1>1, <2>1, <2>2, <2>3, <3>1
  <2> QED
    BY <2>2, <2>3 DEF Turns
<1>4. ASSUME NEW i \in Steps(l)
      PROVE  i \in Steps(m)
  <2>1. /\ i \in At(l, {"step.started"})
        /\ \E t \in Turns(l) : t < i /\ l[t].turn = l[i].turn
        /\ \A j \in At(l, {"step.started"}) :
              j < i => <<l[j].turn, l[j].step>> # <<l[i].turn, l[i].step>>
    BY DEF Steps
  <2>2. i \in DOMAIN l /\ i \in At(m, {"step.started"})
    BY <1>2, <2>1
  <2>3. PICK t \in Turns(l) : t < i /\ l[t].turn = l[i].turn
    BY <2>1
  <2>4. t \in Turns(m) /\ t \in DOMAIN l
    BY <1>2, <1>3 DEF Turns
  <2>5. ASSUME NEW j \in At(m, {"step.started"}), j < i
        PROVE  <<m[j].turn, m[j].step>> # <<m[i].turn, m[i].step>>
    <3>1. j \in At(l, {"step.started"}) /\ j \in DOMAIN l
      BY <1>2, <2>2, <2>5
    <3> QED
      BY <1>1, <2>1, <2>2, <2>5, <3>1
  <2>6. t < i /\ m[t].turn = m[i].turn
    BY <1>1, <2>2, <2>3, <2>4
  <2> QED
    BY <2>2, <2>4, <2>5, <2>6 DEF Steps
<1>5. ASSUME NEW i \in Requests(l)
      PROVE  i \in Requests(m)
  <2>1. i \in At(l, {"model.request.started"})
    BY DEF Requests
  <2>2. PICK s \in Steps(l) :
           /\ s < i /\ SameStep(l[s], l[i])
           /\ \A j \in At(l, {"model.request.started"}) :
                 s < j /\ j < i => ~SameStep(l[j], l[i])
    BY DEF Requests
  <2>3. i \in DOMAIN l /\ i \in At(m, {"model.request.started"})
    BY <1>2, <2>1
  <2>4. s \in Steps(m) /\ s \in DOMAIN l
    BY <1>2, <1>4 DEF Steps
  <2>5. ASSUME NEW j \in At(m, {"model.request.started"}), s < j, j < i
        PROVE  ~SameStep(m[j], m[i])
    <3>1. j \in At(l, {"model.request.started"}) /\ j \in DOMAIN l
      BY <1>2, <2>3, <2>5
    <3> QED
      BY <1>1, <2>2, <2>3, <2>5, <3>1
  <2>6. s < i /\ SameStep(m[s], m[i])
    BY <1>1, <2>2, <2>3, <2>4
  <2> QED
    BY <2>3, <2>4, <2>5, <2>6 DEF Requests
<1>6. ASSUME NEW i \in Tools(l)
      PROVE  i \in Tools(m)
  <2>1. /\ i \in At(l, {"tool.started"})
        /\ \A j \in At(l, {"tool.started"}) :
              j < i => l[j].tool # l[i].tool \/ ~SameRequest(l[j], l[i])
    BY DEF Tools
  <2>2. PICK r \in Requests(l) : r < i /\ SameRequest(l[r], l[i])
    BY DEF Tools
  <2>3. i \in DOMAIN l /\ i \in At(m, {"tool.started"})
    BY <1>2, <2>1
  <2>4. r \in Requests(m) /\ r \in DOMAIN l
    BY <1>2, <1>5 DEF Requests
  <2>5. ASSUME NEW j \in At(m, {"tool.started"}), j < i
        PROVE  m[j].tool # m[i].tool \/ ~SameRequest(m[j], m[i])
    <3>1. j \in At(l, {"tool.started"}) /\ j \in DOMAIN l
      BY <1>2, <2>3, <2>5
    <3> QED
      BY <1>1, <2>1, <2>3, <2>5, <3>1
  <2>6. r < i /\ SameRequest(m[r], m[i])
    BY <1>1, <2>2, <2>3, <2>4
  <2> QED
    BY <2>3, <2>4, <2>5, <2>6 DEF Tools
<1> QED
  BY <1>3, <1>4, <1>5, <1>6 DEF AgentNodes

LEMMA LatestIs ==
    ASSUME NEW n \in Nat, NEW S \in SUBSET (0..n)
    PROVE  /\ S # {} => Latest(S) \in S /\ Latest(S) # None /\ \A k \in S : Latest(S) >= k
           /\ S = {} => Latest(S) = None
<1>1. \A k \in 0..n : k # None
  BY NoneApart
<1> QED
  BY <1>1, GreatestIs DEF Latest

LEMMA EarliestGrows ==
    ASSUME NEW n \in Nat, NEW S, NEW T, S # {}, \A k \in S : k \in Nat /\ k < n,
           S \subseteq T, T \subseteq S \cup {n}
    PROVE  Earliest(T) = Earliest(S) /\ Earliest(S) \in S
<1>1. S \in SUBSET Nat /\ T \in SUBSET Nat /\ T # {}
  OBVIOUS
<1>2. Earliest(S) \in S /\ \A k \in S : Earliest(S) <= k
  BY <1>1, EarliestIs
<1>3. Earliest(T) \in T /\ \A k \in T : Earliest(T) <= k
  BY <1>1, EarliestIs
<1>4. Earliest(T) <= Earliest(S)
  BY <1>2, <1>3
<1>5. Earliest(T) \in S
  BY <1>2, <1>3, <1>4
<1>6. Earliest(S) <= Earliest(T)
  BY <1>2, <1>5
<1>7. Earliest(S) \in Nat /\ Earliest(T) \in Nat
  BY <1>2, <1>5
<1>8. Earliest(T) = Earliest(S)
  BY <1>4, <1>6, <1>7
<1> QED
  BY <1>2, <1>8

\* No event that is recorded fails a turn or completes a step.
LEMMA RecordedTypes ==
    ASSUME NEW l \in Seq(EventRecord), NEW i \in DOMAIN l
    PROVE  /\ l[i].type \in EventTypes
           /\ l[i].turn \in Nat \cup {None}
           /\ l[i].type \notin {"turn.failed", "step.completed", "step.failed",
                                "model.retry.scheduled"}
<1>1. l[i] \in EventRecord
  OBVIOUS
<1>2. {"turn.failed", "step.completed", "step.failed", "model.retry.scheduled"}
         \cap EventTypes = {}
  BY DEF EventTypes, ContextTypes
<1> QED
  BY <1>1, <1>2 DEF EventRecord

LEMMA ExtendedIs ==
    ASSUME NEW l, NEW m, NEW n, Extended(l, m, n)
    PROVE  /\ n \in Nat /\ n \notin DOMAIN l /\ n \in DOMAIN m
           /\ DOMAIN l \in SUBSET Nat /\ DOMAIN m \in SUBSET Nat
           /\ DOMAIN l \in SUBSET (0..n) /\ DOMAIN m \in SUBSET (0..n)
           /\ \A i \in DOMAIN l : i \in Nat /\ i < n /\ i \in DOMAIN m /\ m[i] = l[i]
           /\ \A i \in DOMAIN m : i \in DOMAIN l \/ i = n
<1>1. /\ n \in Nat /\ n \notin DOMAIN l /\ DOMAIN m = DOMAIN l \cup {n} /\ DOMAIN l \subseteq Nat
      /\ \A i \in DOMAIN l : i < n /\ m[i] = l[i]
  BY DEF Extended
<1>2. \A i \in DOMAIN l : i \in Nat /\ i < n
  BY <1>1
<1>3. \A i \in DOMAIN l : i \in 0..n
  BY <1>1, <1>2
<1>4. n \in 0..n
  BY <1>1
<1> QED
  BY <1>1, <1>2, <1>3, <1>4

\* An event ends a node of the type it is of.
LEMMA NodeTypes ==
    ASSUME NEW l, NEW i \in AgentNodes(l)
    PROVE  /\ i \in DOMAIN l
           /\ l[i].type \in {"turn.started", "step.started", "model.request.started",
                             "tool.started"}
  BY DEF AgentNodes, Turns, Steps, Requests, Tools, At

LEMMA EndKept ==
    ASSUME NEW l, NEW m, NEW n, Extended(l, m, n),
           \A i, j \in DOMAIN m :
              /\ m[i].type \in Settlements /\ m[j].type \in Settlements
              /\ m[i].request = m[j].request
              => m[i].type = m[j].type,
           NEW i \in AgentNodes(l), NodeEnd(l, i) # None
    PROVE  /\ NodeEnd(m, i) # None
           /\ Outcome(m[NodeEnd(m, i)]) = Outcome(l[NodeEnd(l, i)])
<1>0. l \in Seq(EventRecord) /\ m \in Seq(EventRecord)
  BY DEF Extended
<1>1. /\ n \in Nat /\ n \notin DOMAIN l /\ n \in DOMAIN m
      /\ DOMAIN l \in SUBSET Nat /\ DOMAIN m \in SUBSET Nat
      /\ DOMAIN l \in SUBSET (0..n) /\ DOMAIN m \in SUBSET (0..n)
      /\ \A k \in DOMAIN l : k \in Nat /\ k < n /\ k \in DOMAIN m /\ m[k] = l[k]
      /\ \A k \in DOMAIN m : k \in DOMAIN l \/ k = n
  BY ExtendedIs
<1>2. i \in DOMAIN l /\ m[i] = l[i]
      /\ l[i].type \in {"turn.started", "step.started", "model.request.started", "tool.started"}
  BY <1>1, NodeTypes
<1>3. CASE l[i].type = "turn.started"
  <2> DEFINE S == {j \in At(l, {"turn.completed", "turn.failed"}) :
                      j > i /\ l[j].turn = l[i].turn}
             T == {j \in At(m, {"turn.completed", "turn.failed"}) :
                      j > i /\ m[j].turn = m[i].turn}
  <2>1. NodeEnd(l, i) = Latest(S) /\ NodeEnd(m, i) = Latest(T)
    BY <1>2, <1>3 DEF NodeEnd, TurnEnd
  <2>2. S \in SUBSET DOMAIN l /\ T \in SUBSET DOMAIN m /\ S \subseteq T
    BY <1>1, <1>2 DEF At
  <2>3. /\ \A j \in S : l[j].type \in {"turn.completed", "turn.failed"}
        /\ \A j \in T : m[j].type \in {"turn.completed", "turn.failed"}
    BY DEF At
  <2> HIDE DEF S, T
  <2>4. S # {} /\ T # {}
    BY <1>1, <2>1, <2>2, LatestIs
  <2>5. Latest(S) \in S /\ Latest(T) \in T /\ Latest(T) # None
    BY <1>1, <2>2, <2>4, LatestIs
  <2>6. l[Latest(S)].type = "turn.completed" /\ m[Latest(T)].type = "turn.completed"
    BY <1>0, <2>2, <2>3, <2>5, RecordedTypes
  <2> QED
    BY <2>1, <2>5, <2>6 DEF Outcome
<1>4. CASE l[i].type = "step.started"
  <2>1. {j \in At(l, {"step.completed"}) : j > i /\ SameStep(l[j], l[i])} = {}
    BY <1>0, RecordedTypes DEF At
  <2>2. NodeEnd(l, i) = None
    BY <1>4, <2>1 DEF NodeEnd, StepEnd, Latest
  <2> QED
    BY <2>2
<1>5. CASE l[i].type = "model.request.started"
  <2> DEFINE S == {j \in At(l, {"model.response.completed", "model.response.failed"}) :
                      j > i /\ SameRequest(l[j], l[i])}
             T == {j \in At(m, {"model.response.completed", "model.response.failed"}) :
                      j > i /\ SameRequest(m[j], m[i])}
  <2>1. NodeEnd(l, i) = Latest(S) /\ NodeEnd(m, i) = Latest(T)
    BY <1>2, <1>5 DEF NodeEnd, RequestEnd
  <2>2. S \in SUBSET DOMAIN l /\ T \in SUBSET DOMAIN m /\ S \subseteq T
    BY <1>1, <1>2 DEF At
  <2>3. \A j \in T : m[j].type \in Settlements /\ m[j].request = m[i].request
    BY DEF At, SameRequest, Settlements
  <2> HIDE DEF S, T
  <2>4. S # {} /\ T # {}
    BY <1>1, <2>1, <2>2, LatestIs
  <2>5. Latest(S) \in S /\ Latest(T) \in T /\ Latest(T) # None
    BY <1>1, <2>2, <2>4, LatestIs
  <2>6. l[Latest(S)] = m[Latest(S)] /\ Latest(S) \in T
    BY <1>1, <2>2, <2>5
  <2>7. m[Latest(S)].type = m[Latest(T)].type /\ m[Latest(T)].type \in Settlements
    BY <2>2, <2>3, <2>5, <2>6
  <2> QED
    BY <2>1, <2>5, <2>6, <2>7 DEF Outcome, Settlements
<1>6. CASE l[i].type = "tool.started"
  <2> DEFINE S == {j \in At(l, {"tool.completed", "tool.failed"}) :
                      j > i /\ SameRequest(l[j], l[i]) /\ l[j].tool = l[i].tool}
             T == {j \in At(m, {"tool.completed", "tool.failed"}) :
                      j > i /\ SameRequest(m[j], m[i]) /\ m[j].tool = m[i].tool}
  <2>1. NodeEnd(l, i) = Earliest(S) /\ NodeEnd(m, i) = Earliest(T)
    BY <1>2, <1>6 DEF NodeEnd, ToolEnd
  <2>2. S \in SUBSET DOMAIN l /\ S \subseteq T /\ T \subseteq S \cup {n}
    BY <1>1, <1>2 DEF At
  <2> HIDE DEF S, T
  <2>3. S # {}
    BY <2>1 DEF Earliest
  <2>4. Earliest(T) = Earliest(S) /\ Earliest(S) \in S
    BY <1>1, <2>2, <2>3, EarliestGrows
  <2> QED
    BY <1>1, <2>1, <2>2, <2>4
<1> QED
  BY <1>2, <1>3, <1>4, <1>5, <1>6

LEMMA ClosedKept ==
    ASSUME NEW l, NEW m, NEW n, Extended(l, m, n), NEW t, ClosedTurn(l, t)
    PROVE  ClosedTurn(m, t)
<1>1. \A i \in DOMAIN l : i \in DOMAIN m /\ m[i] = l[i]
  BY ExtendedIs
<1>2. \A types : At(l, types) \subseteq At(m, types) /\ At(l, types) \subseteq DOMAIN l
  BY AtGrows
<1>3. CASE Closed(l)
  BY <1>2, <1>3 DEF Closed, ClosedTurn
<1>4. CASE \E j \in At(l, {"turn.completed", "turn.failed"}) :
             /\ l[j].turn = t
             /\ \E s \in At(l, {"turn.started"}) : s < j /\ l[s].turn = t
  <2>1. PICK j \in At(l, {"turn.completed", "turn.failed"}) :
             /\ l[j].turn = t
             /\ \E s \in At(l, {"turn.started"}) : s < j /\ l[s].turn = t
    BY <1>4
  <2>2. PICK s \in At(l, {"turn.started"}) : s < j /\ l[s].turn = t
    BY <2>1
  <2>3. /\ j \in At(m, {"turn.completed", "turn.failed"}) /\ m[j].turn = t
        /\ s \in At(m, {"turn.started"}) /\ m[s].turn = t
    BY <1>1, <1>2, <2>1, <2>2
  <2> QED
    BY <2>2, <2>3 DEF ClosedTurn
<1> QED
  BY <1>3, <1>4 DEF ClosedTurn

LEMMA StatusGrows ==
    ASSUME ReplayInv, TypeOK', SettleInv', [Next]_vars
    PROVE  [StatusKept]_log
<1> SUFFICES ASSUME log' # log
             PROVE  StatusKept
  OBVIOUS
<1> DEFINE n == Len(log) + 1
<1>1. Extended(log, log', n)
  BY LogExtended
<1> HIDE DEF n
<1>2. AgentNodes(log) \subseteq AgentNodes(log')
  BY <1>1, NodesGrow
<1>3. ASSUME NEW i \in DOMAIN log', NEW j \in DOMAIN log',
             log'[i].type \in Settlements, log'[j].type \in Settlements,
             log'[i].request = log'[j].request
      PROVE  log'[i].type = log'[j].type
  <2>1. i \in DOMAIN Ahead' /\ Ahead'[i] = log'[i] /\ j \in DOMAIN Ahead' /\ Ahead'[j] = log'[j]
    BY AheadPrefixNext
  <2> QED
    BY <1>3, <2>1 DEF SettleInv
<1>4. ASSUME NEW i \in AgentNodes(log)
      PROVE  /\ Status(log, i) \in {"completed", "failed"} => Status(log', i) = Status(log, i)
             /\ Status(log, i) = "interrupted" => Status(log', i) # "running"
  <2>1. NodeEnd(log, i) # None =>
           /\ NodeEnd(log', i) # None
           /\ Outcome(log'[NodeEnd(log', i)]) = Outcome(log[NodeEnd(log, i)])
    BY <1>1, <1>3, EndKept
  <2>2. i \in DOMAIN log /\ log'[i] = log[i]
    BY <1>1, ExtendedIs, NodeTypes
  <2>3. ClosedTurn(log, log[i].turn) => ClosedTurn(log', log'[i].turn)
    BY <1>1, <2>2, ClosedKept
  <2>4. \A e : Outcome(e) \in {"completed", "failed"}
    BY DEF Outcome
  <2> QED
    BY <2>1, <2>3, <2>4 DEF Status
<1> QED
  BY <1>2, <1>4 DEF StatusKept

\* What a turn or the analysis has ended is closed.
LEMMA NothingRuns ==
    ASSUME TypeOK, TurnInv
    PROVE  NothingRunsAfterTheEnd
<1> SUFFICES ASSUME NEW i \in AgentNodes(log),
                    NEW j \in At(log, {"turn.completed", "turn.failed", "analysis.completed",
                                       "analysis.failed"}),
                    log[j].turn \in {log[i].turn, None}
             PROVE  Status(log, i) # "running"
  BY DEF NothingRunsAfterTheEnd
<1>1. log \in Seq(EventRecord) /\ j \in DOMAIN log
      /\ log[j].type \in {"turn.completed", "turn.failed", "analysis.completed",
                          "analysis.failed"}
  BY DEF TypeOK, At
<1>2. log[j].type # "turn.failed"
  BY <1>1, RecordedTypes
<1>3. ClosedTurn(log, log[i].turn)
  <2>1. CASE log[j].type = "turn.completed"
    <3>1. j \in DOMAIN Ahead /\ Ahead[j] = log[j]
          /\ \A t \in DOMAIN Ahead : t < j => t \in DOMAIN log /\ Ahead[t] = log[t]
      BY <1>1, AheadPrefix
    <3>2. Ahead[j].turn \in Nat
      BY <2>1, <3>1 DEF TurnInv
    <3>3. PICK t \in DOMAIN Ahead :
             t < j /\ Ahead[t].type = "turn.started" /\ Ahead[t].turn = Ahead[j].turn
      BY <2>1, <3>1 DEF TurnInv
    <3>4. t \in DOMAIN log /\ log[t].type = "turn.started" /\ log[t].turn = log[j].turn
      BY <3>1, <3>3
    <3>5. log[j].turn = log[i].turn
      BY <3>1, <3>2, NoneApart
    <3>6. t \in At(log, {"turn.started"}) /\ j \in At(log, {"turn.completed", "turn.failed"})
      BY <1>1, <2>1, <3>4 DEF At
    <3> QED
      BY <3>3, <3>4, <3>5, <3>6 DEF ClosedTurn
  <2>2. CASE log[j].type \in {"analysis.completed", "analysis.failed"}
    <3>1. j \in At(log, {"analysis.completed", "analysis.failed"})
      BY <1>1, <2>2 DEF At
    <3> QED
      BY <3>1 DEF Closed, ClosedTurn
  <2> QED
    BY <1>1, <1>2, <2>1, <2>2
<1>4. \A e : Outcome(e) # "running"
  BY DEF Outcome
<1> QED
  BY <1>3, <1>4 DEF Status

\* Where a tool is shown: at the first event that ends it.
LEMMA ToolEndIs ==
    ASSUME NEW l, DOMAIN l \in SUBSET Nat, NEW i, ToolEnd(l, i) # None
    PROVE  /\ ToolEnd(l, i) \in At(l, {"tool.completed", "tool.failed"})
           /\ SameRequest(l[ToolEnd(l, i)], l[i]) /\ l[ToolEnd(l, i)].tool = l[i].tool
<1> DEFINE S == {j \in At(l, {"tool.completed", "tool.failed"}) :
                    j > i /\ SameRequest(l[j], l[i]) /\ l[j].tool = l[i].tool}
<1>1. ToolEnd(l, i) = Earliest(S)
  BY DEF ToolEnd
<1>2. S \in SUBSET Nat
  BY DEF At
<1>3. S # {}
  BY <1>1 DEF Earliest
<1>4. Earliest(S) \in S
  BY <1>2, <1>3, EarliestIs
<1> QED
  BY <1>1, <1>4

LEMMA RowsUnique ==
    ASSUME TypeOK
    PROVE  AgentRowsUnique
<1>1. log \in Seq(EventRecord) /\ DOMAIN log \in SUBSET Nat
  BY DEF TypeOK
\* A row is where its node is, or it is that of a tool, where the tool ended.
<1> DEFINE Own(a)  == a.sequence = a.node
           Tool(a) == /\ a.node \in Tools(log)
                      /\ ToolEnd(log, a.node) # None /\ a.sequence = ToolEnd(log, a.node)
<1>2. ASSUME NEW a \in AgentRows(log)
      PROVE  /\ a = [node |-> a.node, sequence |-> a.sequence]
             /\ \/ Own(a) /\ a.node \in DOMAIN log
                          /\ log[a.node].type \notin {"tool.completed", "tool.failed"}
                \/ Tool(a)
  <2>1. CASE \E i \in AgentNodes(log) : a = [node |-> i, sequence |-> RowSequence(log, i)]
    <3>1. PICK i \in AgentNodes(log) : a = [node |-> i, sequence |-> RowSequence(log, i)]
      BY <2>1
    <3>2. i \in DOMAIN log
          /\ log[i].type \in {"turn.started", "step.started", "model.request.started",
                              "tool.started"}
      BY NodeTypes
    <3>3. log[i].type = "tool.started" => i \in Tools(log)
      BY DEF AgentNodes, Turns, Steps, Requests, Tools, At
    <3>4. a.node = i /\ a.sequence = RowSequence(log, i)
      BY <3>1
    <3> QED
      BY <3>1, <3>2, <3>3, <3>4 DEF RowSequence
  <2>2. CASE \E i \in Retries(log) \cup Responses(log) : a = [node |-> i, sequence |-> i]
    <3>1. PICK i \in Retries(log) \cup Responses(log) : a = [node |-> i, sequence |-> i]
      BY <2>2
    <3>2. i \in DOMAIN log
          /\ log[i].type \in {"model.retry.scheduled", "model.retry.started",
                              "model.retry.exhausted", "model.response.completed"}
      BY DEF Retries, Responses, At
    <3> QED
      BY <3>1, <3>2
  <2> QED
    BY <2>1, <2>2 DEF AgentRows
<1>3. ASSUME NEW a, Tool(a)
      PROVE  /\ a.sequence \in DOMAIN log
             /\ log[a.sequence].type \in {"tool.completed", "tool.failed"}
             /\ SameRequest(log[a.sequence], log[a.node])
             /\ log[a.sequence].tool = log[a.node].tool
  BY <1>1, <1>3, ToolEndIs DEF At
<1>4. ASSUME NEW i \in Tools(log), NEW k \in Tools(log),
             SameRequest(log[i], log[k]), log[i].tool = log[k].tool
      PROVE  i = k
  <2>1. i \in At(log, {"tool.started"}) /\ k \in At(log, {"tool.started"}) /\ i \in Nat /\ k \in Nat
    BY <1>1 DEF Tools, At
  <2>2. ~(i < k)
    BY <1>4, <2>1 DEF Tools
  <2>3. SameRequest(log[k], log[i])
    BY <1>4 DEF SameRequest, SameStep
  <2>4. ~(k < i)
    BY <1>4, <2>1, <2>3 DEF Tools
  <2> QED
    BY <2>1, <2>2, <2>4
<1>5. ASSUME NEW a \in AgentRows(log), NEW b \in AgentRows(log), a.sequence = b.sequence
      PROVE  a.node = b.node
  <2>1. CASE Own(a) /\ Own(b)
    BY <1>5, <2>1
  <2>2. CASE Tool(a) /\ Tool(b)
    <3>1. SameRequest(log[a.node], log[b.node]) /\ log[a.node].tool = log[b.node].tool
      BY <1>3, <1>5, <2>2 DEF SameRequest, SameStep
    <3> QED
      BY <1>4, <2>2, <3>1
  <2>3. CASE Tool(a) /\ ~Tool(b)
    BY <1>2, <1>3, <1>5, <2>3
  <2>4. CASE Tool(b) /\ ~Tool(a)
    BY <1>2, <1>3, <1>5, <2>4
  <2> QED
    BY <1>2, <2>1, <2>2, <2>3, <2>4
<1> QED
  BY <1>2, <1>5 DEF AgentRowsUnique

-----------------------------------------------------------------------------
(* What a reader has seen of the frames *)

LEMMA ReferencesGrow ==
    ASSUME NEW l, NEW m, NEW n, Extended(l, m, n)
    PROVE  References(l) \subseteq References(m)
<1>1. \A i \in DOMAIN l : i \in DOMAIN m /\ m[i] = l[i]
  BY ExtendedIs
<1> QED
  BY <1>1 DEF References

LEMMA FramesGrow ==
    ASSUME ReplayInv, [Next]_vars
    PROVE  [FramesKept]_log
<1> SUFFICES ASSUME log' # log
             PROVE  FramesKept
  OBVIOUS
<1> DEFINE n == Len(log) + 1
<1>1. Write /\ Extended(log, log', n)
  BY LogExtended
<1> HIDE DEF n
<1>2. lost' = lost
  BY <1>1 DEF Write
<1>3. n \in Nat /\ \A i \in DOMAIN log : i \in Nat /\ i < n /\ log'[i] = log[i]
  BY <1>1, ExtendedIs
<1>4. \A types : /\ At(log, types) \subseteq At(log', types)
                 /\ At(log', types) \subseteq At(log, types) \cup {n}
                 /\ At(log, types) \subseteq DOMAIN log
  BY <1>1, AtGrows
<1>5. ASSUME NEW i \in DOMAIN log
      PROVE  State(log, lost, i) = State(log', lost, i)
  <2>1. ContextEvents(log, i) = ContextEvents(log', i)
    BY <1>3, <1>4 DEF ContextEvents
  <2>2. ContextEvents(log, i) \subseteq DOMAIN log
    BY <1>4 DEF ContextEvents
  <2>3. {j \in ContextEvents(log, i) : log[j].artifact # None /\ log[j].artifact \notin lost}
         = {j \in ContextEvents(log', i) :
               log'[j].artifact # None /\ log'[j].artifact \notin lost}
    BY <1>3, <2>1, <2>2
  <2> QED
    BY <2>3 DEF State
<1>6. ASSUME NEW i \in DOMAIN log, RequestRef(log, i) # None
      PROVE  RequestRef(log', i) = RequestRef(log, i)
  <2> DEFINE S == {j \in At(log, {"model.request.started"}) : j >= i}
             T == {j \in At(log', {"model.request.started"}) : j >= i}
  <2>1. /\ RequestRef(log, i) = IF Earliest(S) = None THEN None ELSE log[Earliest(S)].artifact
        /\ RequestRef(log', i) = IF Earliest(T) = None THEN None ELSE log'[Earliest(T)].artifact
    BY DEF RequestRef
  <2>2. S \subseteq DOMAIN log /\ S \subseteq T /\ T \subseteq S \cup {n}
    BY <1>4
  <2> HIDE DEF S, T
  <2>3. S # {}
    BY <1>6, <2>1 DEF Earliest
  <2>4. \A k \in S : k \in Nat /\ k < n
    BY <1>3, <2>2
  <2>5. Earliest(T) = Earliest(S) /\ Earliest(S) \in S
    BY <1>3, <2>2, <2>3, <2>4, EarliestGrows
  <2> QED
    BY <1>3, <2>1, <2>2, <2>5
<1>7. ASSUME NEW i \in DOMAIN log, PublicRequestRef(log, lost, i) # None
      PROVE  PublicRequestRef(log, lost, i) = PublicRequestRef(log', lost, i)
  <2>1. RequestRef(log, i) # None /\ Verified(log, lost, RequestRef(log, i))
        /\ PublicRequestRef(log, lost, i) = RequestRef(log, i)
    BY <1>7 DEF PublicRequestRef
  <2>2. RequestRef(log', i) = RequestRef(log, i)
    BY <1>6, <2>1
  <2>3. Verified(log', lost, RequestRef(log, i))
    BY <1>1, <2>1, ReferencesGrow DEF Verified
  <2> QED
    BY <2>1, <2>2, <2>3 DEF PublicRequestRef
<1> QED
  BY <1>5, <1>7 DEF FramesKept

-----------------------------------------------------------------------------
(* What a reader has seen of the business page *)

LEMMA NodeSequence ==
    ASSUME NEW l, NEW i, NEW node \in NodesOf(l, i)
    PROVE  node.sequences[1] = i /\ l[i].turn # None
<1>1. l[i].turn # None
  BY DEF NodesOf
<1>2. CASE l[i].type = "business.claim.declared"
  <2>1. node = [kind |-> "claim", sequences |-> <<i, Submission(l, i)>>,
                refs |-> l[i].consumed \cup l[i].evidence]
    BY <1>1, <1>2 DEF NodesOf
  <2>2. node.sequences = <<i, Submission(l, i)>>
    BY <2>1
  <2> QED
    BY <1>1, <2>2
<1>3. CASE l[i].type # "business.claim.declared"
  <2>1. \E kind, refs : node = BusinessNode(i, kind, refs)
    BY <1>1, <1>3 DEF NodesOf
  <2>2. node.sequences = <<i>>
    BY <2>1 DEF BusinessNode
  <2> QED
    BY <1>1, <2>2
<1> QED
  BY <1>2, <1>3

\* A claim is of the answer it was made of, whatever is recorded later.
LEMMA SubmissionKept ==
    ASSUME ReplayInv, AnswerInv, Write, NEW n, Extended(log, log', n),
           NEW i \in DOMAIN log, log[i].type = "business.claim.declared"
    PROVE  Submission(log', i) = Submission(log, i)
<1>1. /\ n \in DOMAIN log'
      /\ \A k \in DOMAIN log : k \in Nat /\ k < n /\ k \in DOMAIN log' /\ log'[k] = log[k]
      /\ \A k \in DOMAIN log' : k \in DOMAIN log \/ k = n
  BY ExtendedIs
<1>2. TypeOK /\ TypeOK'
  BY WriteReplay DEF ReplayInv
<1>3. /\ i \in DOMAIN Ahead /\ Ahead[i] = log[i]
      /\ \A t \in DOMAIN Ahead : t < i => t \in DOMAIN log /\ Ahead[t] = log[t]
  BY <1>2, AheadPrefix
<1>4. PICK j \in DOMAIN Ahead :
         j < i /\ Ahead[j].type = "answer.submitted" /\ Ahead[j].turn = Ahead[i].turn
  BY <1>3 DEF AnswerInv
<1>5. j \in DOMAIN log
  BY <1>3, <1>4
<1>6. n \in DOMAIN Ahead /\ Ahead[n].type = log'[n].type /\ Ahead[n].turn = log'[n].turn
  BY <1>1, <1>2, AheadPrefixNext, WriteAhead
<1>7. ~(log'[n].type = "answer.submitted" /\ log'[n].turn = log[i].turn)
  BY <1>1, <1>3, <1>4, <1>5, <1>6 DEF AnswerInv
<1>8. {k \in At(log', {"answer.submitted"}) :
          log'[k].turn = log'[i].turn /\ log'[k].submission = log'[i].submission}
       = {k \in At(log, {"answer.submitted"}) :
            log[k].turn = log[i].turn /\ log[k].submission = log[i].submission}
  BY <1>1, <1>7 DEF At
<1> QED
  BY <1>8 DEF Submission

LEMMA NodesKept ==
    ASSUME ReplayInv, AnswerInv, Write, NEW n, Extended(log, log', n), NEW i \in DOMAIN log
    PROVE  NodesOf(log', i) = NodesOf(log, i)
<1>1. log'[i] = log[i]
  BY ExtendedIs
<1>2. IsResult(log', i) = IsResult(log, i)
  BY <1>1 DEF IsResult
<1>3. CASE log[i].type = "business.claim.declared"
  <2>1. Submission(log', i) = Submission(log, i)
    BY <1>3, SubmissionKept
  <2> QED
    BY <1>1, <1>3, <2>1 DEF NodesOf
<1>4. CASE log[i].type # "business.claim.declared"
  BY <1>1, <1>2, <1>4 DEF NodesOf
<1> QED
  BY <1>3, <1>4

\* A row of a later event of the problem, or of a later problem, comes after.
LEMMA RowAfter ==
    ASSUME NEW l \in Seq(EventRecord),
           \A i, j \in DOMAIN l :
              i < j /\ l[i].turn # None /\ l[j].turn # None => l[i].turn <= l[j].turn,
           NEW a \in DOMAIN l, NEW b \in DOMAIN l, a < b, l[a].turn # None, l[b].turn # None
    PROVE  RowBefore(l, a, b)
<1> DEFINE Sharing(s) == {i \in DOMAIN l : l[i].turn = l[s].turn}
           begins(s) == Min(Sharing(s))
<1>1. DOMAIN l \in SUBSET Nat /\ l[a].turn \in Nat /\ l[b].turn \in Nat
  <2>1. DOMAIN l \in SUBSET Nat
    OBVIOUS
  <2>2. l[a].turn \in Nat \cup {None} /\ l[b].turn \in Nat \cup {None}
    BY RecordedTypes
  <2> QED
    BY <2>1, <2>2
<1>2. ASSUME NEW s \in DOMAIN l
      PROVE  begins(s) \in DOMAIN l /\ l[begins(s)].turn = l[s].turn
  <2>1. Sharing(s) # {} /\ Sharing(s) \in SUBSET Nat
    BY <1>1
  <2>2. Earliest(Sharing(s)) \in Sharing(s) /\ Earliest(Sharing(s)) = begins(s)
    BY <2>1, EarliestIs DEF Earliest
  <2> QED
    BY <2>2
<1>3. begins(a) \in DOMAIN l /\ l[begins(a)].turn = l[a].turn
      /\ begins(b) \in DOMAIN l /\ l[begins(b)].turn = l[b].turn
  BY <1>2
<1>4. begins(a) < begins(b) \/ (begins(a) = begins(b) /\ a < b)
  <2>1. CASE l[a].turn = l[b].turn
    BY <2>1
  <2>2. CASE l[a].turn # l[b].turn
    <3> HIDE DEF begins
    <3>1. l[a].turn <= l[b].turn
      BY <1>1
    <3>2. begins(a) \in Nat /\ begins(b) \in Nat /\ begins(a) # begins(b)
      BY <1>1, <1>3, <2>2
    <3>3. ~(begins(b) < begins(a))
      BY <1>1, <1>3, <2>2, <3>1
    <3> QED
      BY <3>2, <3>3
  <2> QED
    BY <2>1, <2>2
<1> QED
  BY <1>4 DEF RowBefore

LEMMA RowsGrow ==
    ASSUME ReplayInv, TypeOK', TurnInv', AnswerInv, [Next]_vars
    PROVE  [BusinessRowsKept]_log
<1> SUFFICES ASSUME log' # log
             PROVE  BusinessRowsKept
  OBVIOUS
<1> DEFINE n == Len(log) + 1
<1>1. Write /\ Extended(log, log', n)
  BY LogExtended
<1> HIDE DEF n
<1>2. /\ n \in Nat /\ n \in DOMAIN log' /\ n \notin DOMAIN log
      /\ \A i \in DOMAIN log : i \in Nat /\ i < n /\ i \in DOMAIN log' /\ log'[i] = log[i]
      /\ \A i \in DOMAIN log' : i \in DOMAIN log \/ i = n
  BY <1>1, ExtendedIs
<1>3. \A i \in DOMAIN log : NodesOf(log', i) = NodesOf(log, i)
  BY <1>1, NodesKept
<1>4. BusinessNodes(log') = BusinessNodes(log) \cup NodesOf(log', n)
  BY <1>2, <1>3 DEF BusinessNodes
<1>5. \A r \in RowSequences(log) : r \in DOMAIN log /\ log[r].turn # None
  BY NodeSequence DEF RowSequences, BusinessNodes
<1>6. \A node \in NodesOf(log', n) : node.sequences[1] = n /\ log'[n].turn # None
  BY NodeSequence
<1>7. \A node \in BusinessNodes(log) : node.sequences[1] \in RowSequences(log)
  BY DEF RowSequences
<1>8. BusinessNodes(log) = {node \in BusinessNodes(log') :
                              node.sequences[1] \in RowSequences(log)}
  BY <1>2, <1>4, <1>5, <1>6, <1>7
<1>9. \A i, j \in DOMAIN log' :
         i < j /\ log'[i].turn # None /\ log'[j].turn # None => log'[i].turn <= log'[j].turn
  BY AheadPrefixNext DEF TurnInv
<1>10. ASSUME NEW node \in BusinessNodes(log'), node.sequences[1] \notin RowSequences(log),
              NEW r \in RowSequences(log)
       PROVE  RowBefore(log', r, node.sequences[1])
  <2>1. node.sequences[1] = n /\ log'[n].turn # None
    BY <1>4, <1>6, <1>7, <1>10
  <2>2. r \in DOMAIN log' /\ r < n /\ log'[r].turn # None
    BY <1>2, <1>5
  <2>3. log' \in Seq(EventRecord)
    BY DEF TypeOK
  <2> QED
    BY <1>2, <1>9, <2>1, <2>2, <2>3, RowAfter
<1> QED
  BY <1>8, <1>10 DEF BusinessRowsKept

-----------------------------------------------------------------------------
(* Theorems *)

\* The invariant of a recorded run: what the running handler has still to
\* append consumes only what was given, what is appended consumes what was
\* produced before it, and the revisions of the boundaries do not decrease.
THEOREM ReplayInvariant == Spec => []ReplayInv
<1>1. Init => ReplayInv
  BY InitReplay
<1>2. ReplayInv /\ [Next]_vars => ReplayInv'
  BY NextReplay
<1> QED
  BY <1>1, <1>2, PTL DEF Spec

\* The recorder, at every prefix of its log: a result, a view, a request, a
\* response or a tool's call that an event consumes was produced by an earlier
\* event, which the projection shows as its producer.  Of evidence, of contexts
\* and of the observations that limitations are about this is not so.
THEOREM ConsumedWasProduced == Spec => []ProducedBeforeConsumed
<1>1. ReplayInv => ProducedBeforeConsumed
  BY ProducedImplied
<1> QED
  BY <1>1, ReplayInvariant, PTL

\* project_context, at every prefix and whatever views are lost: no frame
\* shows the state of a later revision than its own, and one that is not
\* marked as unavailable shows exactly that of its own.
THEOREM FramesNotAhead == Spec => []StateNotAhead
<1>1. ReplayInv => StateNotAhead
  BY StateImplied
<1> QED
  BY <1>1, ReplayInvariant, PTL

\* The order of a recorded run: turns follow one another, a turn that has ended
\* was started, no request is both answered and failed, and a claim comes after
\* the one answer of its turn, in what is recorded and what will be.
THEOREM LifeInvariant == Spec => [](ReplayInv /\ LifeInv)
<1>1. Init => ReplayInv /\ LifeInv
  BY InitReplay, InitLife
<1>2. (ReplayInv /\ LifeInv) /\ [Next]_vars => (ReplayInv /\ LifeInv)'
  BY NextReplay, NextLife
<1> QED
  BY <1>1, <1>2, PTL DEF Spec

\* end_turn and close_at_boundary, at every prefix: when a turn or the analysis
\* has ended none of its turns, steps, requests and tools is shown as running, and no later event changes how a
\* node that had completed or failed is shown, or lets an interrupted one run again.
THEOREM EndsAreFinal == Spec => EndIsFinal
<1>1. ReplayInv /\ LifeInv => NothingRunsAfterTheEnd
  BY NothingRuns DEF ReplayInv, LifeInv
<1>2. (ReplayInv /\ LifeInv) /\ (ReplayInv /\ LifeInv)' /\ [Next]_vars => [StatusKept]_log
  BY StatusGrows DEF ReplayInv, LifeInv
<1> QED
  BY <1>1, <1>2, LifeInvariant, PTL DEF Spec, EndIsFinal

\* agent_page, business_causal_rows and public_context_frame: at every prefix the
\* rows of the agent page have places of their own, and with every event that is
\* recorded the rows of the business page keep their place and their nodes, a new
\* row comes after them, and a frame that was shown keeps its state and its request.
THEOREM PagesStay == Spec => PagesStable
<1>1. ReplayInv /\ LifeInv => AgentRowsUnique
  BY RowsUnique DEF ReplayInv
<1>2. (ReplayInv /\ LifeInv) /\ (ReplayInv /\ LifeInv)' /\ [Next]_vars
         => [BusinessRowsKept]_log /\ [FramesKept]_log
  BY RowsGrow, FramesGrow DEF ReplayInv, LifeInv
<1> QED
  BY <1>1, <1>2, LifeInvariant, PTL DEF Spec, PagesStable

-----------------------------------------------------------------------------
(* What a claim rests on *)

\* What a claim may cite.
Answers == {Result} \cup Cited

SameCall(a, b) == SameRequest(a, b) /\ a.tool = b.tool

\* A tool that completed before event j answered with ref.
Answered(q, j, ref) ==
    \E i \in DOMAIN q : /\ i < j /\ q[i].type = "tool.completed"
                        /\ ref \in q[i].produced \cup q[i].evidence

\* What comes before a step, a request or a tool in its turn.
StepBacked(q, j) ==
    \E i \in DOMAIN q : i < j /\ q[i].type = "turn.started" /\ q[i].turn = q[j].turn
RequestBacked(q, j, rec) ==
    /\ q[j].step = q[j].request
    /\ rec = "schema" => /\ j - 1 \in DOMAIN q
                         /\ q[j - 1].type = "step.started" /\ SameStep(q[j - 1], q[j])
ToolBacked(q, j) ==
    /\ \E i \in DOMAIN q :
          i < j /\ q[i].type = "model.request.started" /\ SameRequest(q[i], q[j])
    /\ (q[j].produced \cup q[j].consumed \cup q[j].evidence) \cap Answers = {}

\* What a completion, a decision and a claim repeat of what came before them.
CompletionBacked(q, j) ==
    /\ \E i \in DOMAIN q : i < j /\ q[i].type = "tool.started" /\ SameCall(q[i], q[j])
    /\ q[j].consumed \cap Answers = {}
    /\ q[j].produced \subseteq {Result} /\ q[j].evidence \subseteq Cited
DecisionBacked(q, j) ==
    /\ q[j].produced = {} /\ q[j].evidence = {}
    /\ \A ref \in q[j].consumed \cap Answers : Answered(q, j, ref)
ClaimBacked(q, j, rec) ==
    /\ rec = "schema"
    /\ \A ref \in q[j].consumed \cup q[j].evidence : Answered(q, j, ref)

ToolTypes == {"tool.started", "tool.completed", "business.decision.declared"}

Backed(q, j, rec) ==
    /\ q[j].tool # None <=> q[j].type \in ToolTypes
    /\ q[j].type = "step.started" => StepBacked(q, j)
    /\ q[j].type = "model.request.started" => RequestBacked(q, j, rec)
    /\ q[j].type = "tool.started" => ToolBacked(q, j)
    /\ q[j].type = "tool.completed" => CompletionBacked(q, j)
    /\ q[j].type = "business.decision.declared" => DecisionBacked(q, j)
    /\ q[j].type = "business.claim.declared" => ClaimBacked(q, j, rec)
    /\ Result \in q[j].produced => q[j].type = "tool.completed" \/ Answered(q, j, Result)

BackedInv == \A j \in DOMAIN Ahead : Backed(Ahead, j, recording)

\* Steps and tools are numbered in the order they begin in.
NumberedInv ==
    /\ \A i, j \in DOMAIN Ahead :
          /\ Ahead[i].type = "step.started" /\ Ahead[j].type = "step.started"
          /\ Ahead[i].step = Ahead[j].step
          => i = j
    /\ \A i \in DOMAIN Ahead : Ahead[i].type = "step.started" =>
          /\ Ahead[i].step \in Nat
          /\ Ahead[i].step <= Cardinality(At(Ahead, {"model.request.started"}))
    /\ \A i, j \in DOMAIN Ahead :
          /\ Ahead[i].type = "tool.started" /\ Ahead[j].type = "tool.started"
          /\ Ahead[i].tool = Ahead[j].tool
          => i = j
    /\ \A i \in DOMAIN Ahead : Ahead[i].type = "tool.started" =>
          /\ Ahead[i].tool \in Nat
          /\ Ahead[i].tool <= Cardinality(At(Ahead, {"tool.started"}))
    /\ \A i, j \in DOMAIN Ahead :
          /\ Ahead[i].type = "tool.completed" /\ Ahead[j].type = "tool.completed"
          /\ Ahead[i].tool = Ahead[j].tool
          => i = j

\* What the recorder holds of this turn has begun in it.
Begins(e, t, id) ==
    e.type = "model.request.started" /\ e.turn = t /\ e.step = id /\ e.request = id
Calls(e, t, c) ==
    /\ e.type = "tool.started" /\ e.turn = t
    /\ e.step = c.request /\ e.request = c.request /\ e.tool = c.tool

HeldInv ==
    /\ \A c \in calls : \E i \in DOMAIN Ahead : Calls(Ahead[i], turn, c)
    /\ \A c \in calls : \A j \in DOMAIN Ahead :
          Ahead[j].type = "tool.completed" => Ahead[j].tool # c.tool
    /\ \A a \in DOMAIN requests : \E i \in DOMAIN Ahead : Begins(Ahead[i], turn, requests[a].id)
    /\ round # None => \E i \in DOMAIN Ahead : Begins(Ahead[i], turn, round)

CiteInv == BackedInv /\ NumberedInv /\ HeldInv

LEMMA InitCite ==
    ASSUME Init
    PROVE  CiteInv
<1>1. /\ Ahead = <<>> /\ DOMAIN Ahead = {}
      /\ DOMAIN requests = {} /\ calls = {} /\ round = None
  BY DEF Init, Ahead
<1> QED
  BY <1>1 DEF CiteInv, BackedInv, NumberedInv, HeldInv

LEMMA SameCite ==
    ASSUME CiteInv, UNCHANGED <<log, pending, recording, turn, requests, round, calls>>
    PROVE  CiteInv'
<1>1. Ahead' = Ahead
  BY DEF Ahead
<1> QED
  BY <1>1 DEF CiteInv, BackedInv, NumberedInv, HeldInv

LEMMA WriteCite ==
    ASSUME ReplayInv, CiteInv, Write
    PROVE  CiteInv'
<1> DEFINE q == Ahead
           p == Ahead'
<1>1. /\ DOMAIN p = DOMAIN q
      /\ \A i \in DOMAIN q :
            /\ p[i].type = q[i].type
            /\ p[i].turn = q[i].turn
            /\ p[i].request = q[i].request
            /\ p[i].step = q[i].step
            /\ p[i].tool = q[i].tool
            /\ p[i].consumed = q[i].consumed
            /\ p[i].evidence = q[i].evidence
            /\ \/ p[i].produced = q[i].produced
               \/ /\ q[i].type = "context.injected"
                  /\ p[i].produced = {<<"view", revision>>}
  BY WriteAhead
<1>2. UNCHANGED <<recording, turn, requests, round, calls>>
  BY DEF Write
<1>3. At(Ahead', {"model.request.started"}) = At(Ahead, {"model.request.started"})
      /\ At(Ahead', {"tool.started"}) = At(Ahead, {"tool.started"})
  BY <1>1 DEF At
<1>4. NumberedInv'
  BY <1>1, <1>2, <1>3 DEF CiteInv, NumberedInv
<1>5. HeldInv'
  BY <1>1, <1>2 DEF CiteInv, HeldInv, Begins, Calls
<1>6. ASSUME NEW j \in DOMAIN p
      PROVE  Backed(p, j, recording)
  <2> HIDE DEF p, q
  <2>1. Backed(q, j, recording) /\ j \in DOMAIN q
    BY <1>1 DEF CiteInv, BackedInv, q
  <2>2. \A ref : Answered(q, j, ref) => Answered(p, j, ref)
    BY <1>1 DEF Answered
  <2>3. q[j].type = "step.started" => StepBacked(p, j)
    BY <1>1, <2>1 DEF Backed, StepBacked
  <2>4. q[j].type = "model.request.started" => RequestBacked(p, j, recording)
    BY <1>1, <2>1 DEF Backed, RequestBacked, SameStep
  <2>5. q[j].type = "tool.started" => ToolBacked(p, j)
    BY <1>1, <2>1 DEF Backed, ToolBacked, SameRequest, SameStep
  <2>6. q[j].type = "tool.completed" => CompletionBacked(p, j)
    BY <1>1, <2>1 DEF Backed, CompletionBacked, SameCall, SameRequest, SameStep
  <2>7. q[j].type = "business.decision.declared" => DecisionBacked(p, j)
    BY <1>1, <2>1, <2>2 DEF Backed, DecisionBacked
  <2>8. q[j].type = "business.claim.declared" => ClaimBacked(p, j, recording)
    BY <1>1, <2>1, <2>2 DEF Backed, ClaimBacked
  <2>9. Result # <<"view", revision>>
    <3>1. revision \in Nat
      BY DEF ReplayInv, TypeOK
    <3> QED
      BY <3>1, ReferencesApart
  <2>10. Result \in p[j].produced => q[j].type = "tool.completed" \/ Answered(p, j, Result)
    BY <1>1, <2>1, <2>2, <2>9 DEF Backed
  <2> QED
    BY <1>1, <2>1, <2>3, <2>4, <2>5, <2>6, <2>7, <2>8, <2>10 DEF Backed
<1>7. BackedInv'
  BY <1>2, <1>6 DEF BackedInv
<1> QED
  BY <1>4, <1>5, <1>7 DEF CiteInv

\* What backs an event of q backs it in every continuation of q.
LEMMA BackedGrows ==
    ASSUME NEW q, NEW p, NEW rec, DOMAIN q \subseteq DOMAIN p,
           \A i \in DOMAIN q : p[i] = q[i],
           NEW j \in DOMAIN q, Backed(q, j, rec)
    PROVE  Backed(p, j, rec)
<1>1. p[j] = q[j]
  OBVIOUS
<1>2. \A ref : Answered(q, j, ref) => Answered(p, j, ref)
  BY DEF Answered
<1>3. q[j].type = "step.started" => StepBacked(p, j)
  BY <1>1 DEF Backed, StepBacked
<1>4. q[j].type = "model.request.started" => RequestBacked(p, j, rec)
  BY <1>1 DEF Backed, RequestBacked
<1>5. q[j].type = "tool.started" => ToolBacked(p, j)
  BY <1>1 DEF Backed, ToolBacked
<1>6. q[j].type = "tool.completed" => CompletionBacked(p, j)
  BY <1>1 DEF Backed, CompletionBacked
<1>7. q[j].type = "business.decision.declared" => DecisionBacked(p, j)
  BY <1>1, <1>2 DEF Backed, DecisionBacked
<1>8. q[j].type = "business.claim.declared" => ClaimBacked(p, j, rec)
  BY <1>1, <1>2 DEF Backed, ClaimBacked
<1> QED
  BY <1>1, <1>2, <1>3, <1>4, <1>5, <1>6, <1>7, <1>8 DEF Backed

\* A handler keeps the invariant when each event it leaves is backed, the steps
\* and tools it begins are new, and what it holds has begun.
LEMMA HandlerCites ==
    ASSUME TypeOK, TypeOK', CiteInv, pending = <<>>, log' = log, recording' = recording,
           \A k \in DOMAIN pending' : Backed(Ahead', Len(log) + k, recording),
           \A k, m \in DOMAIN pending' :
              /\ pending'[k].type = pending'[m].type
              /\ pending'[k].type \in {"step.started", "tool.started", "tool.completed"}
              => k = m,
           \A k \in DOMAIN pending' : pending'[k].type = "step.started" =>
              /\ pending'[k].step = RequestsSoFar + 1
              /\ \E m \in DOMAIN pending' : pending'[m].type = "model.request.started",
           \A k \in DOMAIN pending' : pending'[k].type = "tool.started" =>
              pending'[k].tool = Cardinality(At(log, {"tool.started"})) + 1,
           \A k \in DOMAIN pending' : pending'[k].type = "tool.completed" =>
              /\ \A j \in DOMAIN log :
                    log[j].type = "tool.completed" => log[j].tool # pending'[k].tool
              /\ \A c \in calls' : pending'[k].tool # c.tool,
           turn' = turn \/ (calls' = {} /\ requests' = <<>> /\ round' = None),
           \A c \in calls' \ calls :
              /\ \E k \in DOMAIN pending' : Calls(pending'[k], turn, c)
              /\ \A j \in DOMAIN log :
                    log[j].type = "tool.completed" => log[j].tool # c.tool,
           \A a \in DOMAIN requests' :
              \/ \E b \in DOMAIN requests : requests'[a].id = requests[b].id
              \/ \E k \in DOMAIN pending' : Begins(pending'[k], turn, requests'[a].id),
           \/ round' \in {round, None}
           \/ \E b \in DOMAIN requests : round' = requests[b].id
    PROVE  CiteInv'
<1> DEFINE n == Len(log)
           q == Ahead
           p == Ahead'
<1>1. /\ q = log
      /\ DOMAIN log \subseteq DOMAIN p
      /\ \A i \in DOMAIN log : p[i] = log[i]
      /\ \A k \in DOMAIN pending' : n + k \in DOMAIN p /\ p[n + k] = pending'[k]
      /\ \A i \in DOMAIN p \ DOMAIN log :
            i - n \in DOMAIN pending' /\ p[i] = pending'[i - n]
      /\ DOMAIN p \subseteq Nat
  BY HandlerAhead
<1>2. n \in Nat
  BY DEF TypeOK
<1> HIDE DEF p, q, n
<1>3. \A i \in DOMAIN p \ DOMAIN log : i = n + (i - n)
  BY <1>1, <1>2
<1>4. ASSUME NEW j \in DOMAIN p
      PROVE  Backed(p, j, recording)
  <2>1. CASE j \in DOMAIN log
    <3>1. Backed(q, j, recording)
      BY <1>1, <2>1 DEF CiteInv, BackedInv, q
    <3> QED
      BY <1>1, <2>1, <3>1, BackedGrows
  <2>2. CASE j \notin DOMAIN log
    <3>1. Backed(p, n + (j - n), recording)
      BY <1>1, <2>2 DEF p, n
    <3> QED
      BY <1>3, <2>2, <3>1
  <2> QED
    BY <2>1, <2>2
<1>5. BackedInv'
  BY <1>4 DEF BackedInv, p
<1>6. ASSUME NEW i \in DOMAIN p, NEW j \in DOMAIN p, i \notin DOMAIN log, j \notin DOMAIN log,
             p[i].type = p[j].type,
             p[i].type \in {"step.started", "tool.started", "tool.completed"}
      PROVE  i = j
  <2>1. i - n = j - n
    BY <1>1, <1>6
  <2> QED
    BY <1>1, <1>2, <2>1
<1>7. NumberedInv'
  <2> DEFINE R == {"model.request.started"}
             T == {"tool.started"}
             r0 == Cardinality(At(q, R))
             r1 == Cardinality(At(p, R))
             t0 == Cardinality(At(q, T))
             t1 == Cardinality(At(p, T))
  <2>1. /\ r0 \in Nat /\ r1 \in Nat /\ r0 <= r1 /\ r0 = RequestsSoFar
        /\ (\E k \in DOMAIN pending' : pending'[k].type \in R) => r0 < r1
    BY BegunGrows DEF p, q
  <2>2. /\ t0 \in Nat /\ t1 \in Nat /\ t0 <= t1 /\ t0 = Cardinality(At(log, T))
        /\ (\E k \in DOMAIN pending' : pending'[k].type \in T) => t0 < t1
    BY CountGrows DEF p, q
  <2>3. /\ \A i, j \in DOMAIN log :
              /\ log[i].type = "step.started" /\ log[j].type = "step.started"
              /\ log[i].step = log[j].step
              => i = j
        /\ \A i \in DOMAIN log : log[i].type = "step.started" =>
              log[i].step \in Nat /\ log[i].step <= r0
        /\ \A i, j \in DOMAIN log :
              /\ log[i].type = "tool.started" /\ log[j].type = "tool.started"
              /\ log[i].tool = log[j].tool
              => i = j
        /\ \A i \in DOMAIN log : log[i].type = "tool.started" =>
              log[i].tool \in Nat /\ log[i].tool <= t0
        /\ \A i, j \in DOMAIN log :
              /\ log[i].type = "tool.completed" /\ log[j].type = "tool.completed"
              /\ log[i].tool = log[j].tool
              => i = j
    BY <1>1 DEF CiteInv, NumberedInv, q
  <2>4. ASSUME NEW i \in DOMAIN p, i \notin DOMAIN log, p[i].type = "step.started"
        PROVE  p[i].step = r0 + 1 /\ r0 < r1
    BY <1>1, <2>1, <2>4
  <2>5. ASSUME NEW i \in DOMAIN p, i \notin DOMAIN log, p[i].type = "tool.started"
        PROVE  p[i].tool = t0 + 1 /\ t0 < t1
    BY <1>1, <2>2, <2>5
  <2>6. ASSUME NEW i \in DOMAIN p, i \notin DOMAIN log, p[i].type = "tool.completed"
        PROVE  \A j \in DOMAIN log : log[j].type = "tool.completed" => log[j].tool # p[i].tool
    BY <1>1, <2>6
  <2> HIDE DEF r0, r1, t0, t1
  <2>7. ASSUME NEW i \in DOMAIN p, p[i].type = "step.started"
        PROVE  /\ p[i].step \in Nat /\ p[i].step <= r1
               /\ i \in DOMAIN log => p[i].step <= r0
    BY <1>1, <2>1, <2>3, <2>4, <2>7
  <2>8. ASSUME NEW i \in DOMAIN p, p[i].type = "tool.started"
        PROVE  /\ p[i].tool \in Nat /\ p[i].tool <= t1
               /\ i \in DOMAIN log => p[i].tool <= t0
    BY <1>1, <2>2, <2>3, <2>5, <2>8
  <2>9. ASSUME NEW i \in DOMAIN p, NEW j \in DOMAIN p,
               p[i].type = "step.started", p[j].type = "step.started", p[i].step = p[j].step
        PROVE  i = j
    <3>1. i \in DOMAIN log <=> j \in DOMAIN log
      BY <2>1, <2>4, <2>7, <2>9
    <3> QED
      BY <1>1, <1>6, <2>3, <2>9, <3>1
  <2>10. ASSUME NEW i \in DOMAIN p, NEW j \in DOMAIN p,
                p[i].type = "tool.started", p[j].type = "tool.started", p[i].tool = p[j].tool
         PROVE  i = j
    <3>1. i \in DOMAIN log <=> j \in DOMAIN log
      BY <2>2, <2>5, <2>8, <2>10
    <3> QED
      BY <1>1, <1>6, <2>3, <2>10, <3>1
  <2>11. ASSUME NEW i \in DOMAIN p, NEW j \in DOMAIN p,
                p[i].type = "tool.completed", p[j].type = "tool.completed", p[i].tool = p[j].tool
         PROVE  i = j
    <3>1. i \in DOMAIN log <=> j \in DOMAIN log
      BY <1>1, <2>6, <2>11
    <3> QED
      BY <1>1, <1>6, <2>3, <2>11, <3>1
  <2> QED
    BY <2>7, <2>8, <2>9, <2>10, <2>11 DEF NumberedInv, p, r1, t1
<1>8. HeldInv'
  <2>1. /\ \A c \in calls : \E i \in DOMAIN log : Calls(log[i], turn, c)
        /\ \A c \in calls : \A j \in DOMAIN log :
              log[j].type = "tool.completed" => log[j].tool # c.tool
        /\ \A a \in DOMAIN requests : \E i \in DOMAIN log : Begins(log[i], turn, requests[a].id)
        /\ round # None => \E i \in DOMAIN log : Begins(log[i], turn, round)
    BY <1>1 DEF CiteInv, HeldInv, q
  <2>2. CASE calls' = {} /\ requests' = <<>> /\ round' = None
    <3>1. DOMAIN requests' = {}
      BY <2>2
    <3> QED
      BY <2>2, <3>1 DEF HeldInv
  <2>3. CASE turn' = turn
    <3>1. ASSUME NEW c \in calls'
          PROVE  \E i \in DOMAIN p : Calls(p[i], turn', c)
      <4>1. CASE c \in calls
        BY <1>1, <2>1, <2>3, <4>1
      <4>2. CASE c \notin calls
        <5>1. PICK k \in DOMAIN pending' : Calls(pending'[k], turn, c)
          BY <4>2
        <5> QED
          BY <1>1, <2>3, <5>1
      <4> QED
        BY <4>1, <4>2
    <3>2. ASSUME NEW c \in calls', NEW j \in DOMAIN p, p[j].type = "tool.completed"
          PROVE  p[j].tool # c.tool
      <4>1. CASE j \in DOMAIN log
        BY <1>1, <2>1, <3>2, <4>1
      <4>2. CASE j \notin DOMAIN log
        BY <1>1, <3>2, <4>2
      <4> QED
        BY <4>1, <4>2
    <3>3. ASSUME NEW a \in DOMAIN requests'
          PROVE  \E i \in DOMAIN p : Begins(p[i], turn', requests'[a].id)
      <4>1. CASE \E b \in DOMAIN requests : requests'[a].id = requests[b].id
        BY <1>1, <2>1, <2>3, <4>1
      <4>2. CASE \E k \in DOMAIN pending' : Begins(pending'[k], turn, requests'[a].id)
        BY <1>1, <2>3, <4>2
      <4> QED
        BY <4>1, <4>2
    <3>4. ASSUME round' # None
          PROVE  \E i \in DOMAIN p : Begins(p[i], turn', round')
      BY <1>1, <2>1, <2>3, <3>4
    <3> QED
      BY <3>1, <3>2, <3>3, <3>4 DEF HeldInv, p
  <2> QED
    BY <2>2, <2>3
<1> QED
  BY <1>5, <1>7, <1>8 DEF CiteInv

\* The events that nothing is cited from and that begin nothing.
Plain ==
    {e \in EventRecord :
        /\ e.type \notin ToolTypes \cup {"step.started", "model.request.started",
                                         "business.claim.declared"}
        /\ e.tool = None
        /\ Result \notin e.produced}

LEMMA PlainBacked ==
    ASSUME NEW q, NEW j, NEW rec, q[j] \in Plain
    PROVE  Backed(q, j, rec)
  BY DEF Plain, Backed, ToolTypes

LEMMA PlainTypes ==
    \A e \in Plain : e.type \notin {"step.started", "tool.started", "tool.completed"}
  BY DEF Plain, ToolTypes

\* A handler that leaves such events.
LEMMA PlainCites ==
    ASSUME TypeOK, TypeOK', CiteInv, pending = <<>>, log' = log, recording' = recording,
           \A k \in DOMAIN pending' : pending'[k] \in Plain,
           turn' = turn \/ (calls' = {} /\ requests' = <<>> /\ round' = None),
           calls' \subseteq calls,
           \A a \in DOMAIN requests' :
              \E b \in DOMAIN requests : requests'[a].id = requests[b].id,
           \/ round' \in {round, None}
           \/ \E b \in DOMAIN requests : round' = requests[b].id
    PROVE  CiteInv'
<1>1. \A k \in DOMAIN pending' : Ahead'[Len(log) + k] = pending'[k]
  BY HandlerAhead
<1>2. \A k \in DOMAIN pending' : Backed(Ahead', Len(log) + k, recording)
  BY <1>1, PlainBacked
<1>3. \A k \in DOMAIN pending' :
         pending'[k].type \notin {"step.started", "tool.started", "tool.completed"}
  BY PlainTypes
<1> QED
  BY <1>2, <1>3, HandlerCites

LEMMA PlainEvent ==
    ASSUME NEW type \in EventTypes, NEW t \in Nat \cup {None},
           type \notin ToolTypes \cup {"step.started", "model.request.started",
                                       "business.claim.declared"}
    PROVE  Event(type, t) \in Plain
<1> DEFINE e == Event(type, t)
<1>1. e \in EventRecord /\ e.type = type /\ e.produced = {}
  BY EventTyped
<1>2. e.tool = None
  BY DEF Event
<1> HIDE DEF e
<1> QED
  BY <1>1, <1>2 DEF Plain, e

LEMMA PlainFailed ==
    ASSUME turn \in Nat, NEW r \in TrackedRequest
    PROVE  [Of(r, "model.response.failed") EXCEPT !.ok = FALSE] \in Plain
<1> DEFINE e == [Of(r, "model.response.failed") EXCEPT !.ok = FALSE]
<1>1. e \in EventRecord
  <2> DEFINE o == Of(r, "model.response.failed")
  <2>1. o \in EventRecord
    BY OfTyped DEF EventTypes, TrackedRequest
  <2> HIDE DEF o
  <2> QED
    BY <2>1 DEF EventRecord, o
<1>2. e.type = "model.response.failed" /\ e.tool = None /\ e.produced = {}
  BY DEF Of, Event
<1> HIDE DEF e
<1> QED
  BY <1>1, <1>2 DEF Plain, ToolTypes, e

LEMMA PlainInterrupted ==
    ASSUME ReplayInv
    PROVE  Interrupted \in Seq(Plain)
<1> DEFINE N == Cardinality(Unsettled)
<1>1. requests \in Seq(TrackedRequest) /\ turn \in Nat
  BY DEF ReplayInv, TypeOK
<1>2. N \in Nat /\ Unsettled \subseteq DOMAIN requests
  BY <1>1, UnsettledFinite
<1>3. ASSUME NEW k \in 1..N
      PROVE  Interrupted[k] \in Plain
  <2>1. PICK i \in Unsettled :
           Interrupted[k] = [Of(requests[i], "model.response.failed") EXCEPT !.ok = FALSE]
    BY <1>3, InterruptedIs
  <2>2. requests[i] \in TrackedRequest
    BY <1>1, <1>2
  <2> QED
    BY <1>1, <2>1, <2>2, PlainFailed
<1>4. DOMAIN Interrupted = 1..N /\ Interrupted = [k \in 1..N |-> Interrupted[k]]
  BY DEF Interrupted
<1> HIDE DEF N
<1>5. Interrupted \in [1..N -> Plain]
  BY <1>3, <1>4
<1> QED
  BY <1>2, <1>5

LEMMA StartCite ==
    ASSUME ReplayInv, CiteInv, Start
    PROVE  CiteInv'
<1> DEFINE e == Event("analysis.started", None)
           f == Event("context.injected", None)
<1>1. /\ pending' = <<e, f>> /\ pending = <<>>
      /\ UNCHANGED <<log, recording, turn, requests, round, calls>>
  BY DEF Start, Ready, ViewInjected
<1>2. e \in Plain /\ f \in Plain
  BY PlainEvent DEF EventTypes, ContextTypes, ToolTypes
<1> HIDE DEF e, f
<1>3. \A k \in DOMAIN pending' : pending'[k] \in Plain
  BY <1>1, <1>2
<1>4. TypeOK /\ TypeOK'
  BY StartReplay DEF ReplayInv
<1> QED
  BY <1>1, <1>3, <1>4, PlainCites

LEMMA StartTurnCite ==
    ASSUME ReplayInv, CiteInv, StartTurn
    PROVE  CiteInv'
<1> DEFINE e == Event("turn.started", turn + 1)
           f == Event("context.injected", None)
<1>1. /\ pending' = <<e, f>> /\ pending = <<>>
      /\ calls' = {} /\ requests' = <<>> /\ round' = None
      /\ UNCHANGED <<log, recording>>
  BY DEF StartTurn, Ready, ViewInjected
<1>2. turn + 1 \in Nat
  BY DEF ReplayInv, TypeOK
<1>3. e \in Plain /\ f \in Plain
  BY <1>2, PlainEvent DEF EventTypes, ContextTypes, ToolTypes
<1> HIDE DEF e, f
<1>4. \A k \in DOMAIN pending' : pending'[k] \in Plain
  BY <1>1, <1>3
<1>5. TypeOK /\ TypeOK' /\ DOMAIN requests' = {}
  BY <1>1, StartTurnReplay DEF ReplayInv
<1> QED
  BY <1>1, <1>4, <1>5, PlainCites

LEMMA CompleteCite ==
    ASSUME ReplayInv, CiteInv, Complete
    PROVE  CiteInv'
<1> DEFINE e == Event("analysis.completed", None)
<1>1. /\ pending' = <<e>> /\ pending = <<>>
      /\ UNCHANGED <<log, recording, turn, requests, round, calls>>
  BY DEF Complete, Ready
<1>2. e \in Plain
  BY PlainEvent DEF EventTypes, ContextTypes, ToolTypes
<1> HIDE DEF e
<1>3. \A k \in DOMAIN pending' : pending'[k] \in Plain
  BY <1>1, <1>2
<1>4. TypeOK /\ TypeOK'
  BY CompleteReplay DEF ReplayInv
<1> QED
  BY <1>1, <1>3, <1>4, PlainCites

LEMMA RetryCite ==
    ASSUME ReplayInv, CiteInv,
           NEW type \in {"model.retry.started", "model.retry.exhausted"}, Retry(type)
    PROVE  CiteInv'
<1> DEFINE r == requests[Len(requests)]
           e == Of(r, type)
<1>1. /\ pending' = <<e>> /\ pending = <<>> /\ requests # <<>>
      /\ UNCHANGED <<log, recording, turn, requests, round, calls>>
  BY DEF Retry, MayWork, Ready
<1>2. TypeOK /\ TypeOK'
  BY RetryReplay DEF ReplayInv
<1>3. r \in TrackedRequest /\ turn \in Nat
  BY <1>1, <1>2 DEF TypeOK
<1> HIDE DEF r
<1>4. e \in EventRecord /\ e.type = type /\ e.produced = {}
  BY <1>3, OfTyped DEF EventTypes, TrackedRequest
<1>5. e.tool = None
  BY DEF Of, Event
<1> HIDE DEF e
<1>6. e \in Plain
  BY <1>4, <1>5 DEF Plain, ToolTypes
<1>7. \A k \in DOMAIN pending' : pending'[k] \in Plain
  BY <1>1, <1>6
<1> QED
  BY <1>1, <1>2, <1>7, PlainCites

LEMMA RespondCite ==
    ASSUME ReplayInv, CiteInv, NEW toolUse \in BOOLEAN, Respond(toolUse)
    PROVE  CiteInv'
<1> DEFINE u == Min(Unsettled)
           id == requests[u].id
           ref == <<"response", id>>
           e == [Of(requests[u], "model.response.completed") EXCEPT
                    !.artifact = ref, !.produced = {ref}]
<1>1. /\ pending' = <<e>> /\ pending = <<>> /\ Unsettled # {}
      /\ requests' = [requests EXCEPT ![u].settled = TRUE]
      /\ round' = IF toolUse THEN requests[u].id ELSE round
      /\ UNCHANGED <<log, recording, turn, calls>>
  BY DEF Respond, MayWork, Ready
<1>2. TypeOK /\ TypeOK'
  BY RespondReplay DEF ReplayInv
<1>3. /\ requests \in Seq(TrackedRequest)
      /\ u \in DOMAIN requests
  <2>1. requests \in Seq(TrackedRequest)
    BY <1>2 DEF TypeOK
  <2> QED
    BY <1>1, <2>1, UnsettledFinite
<1> HIDE DEF u
<1>4. id \in Nat
  <2>1. requests[u] \in TrackedRequest
    BY <1>3
  <2> QED
    BY <2>1 DEF TrackedRequest
<1>5. ref # Result
  BY <1>4, ReferencesApart
<1>6. e.type = "model.response.completed" /\ e.tool = None /\ e.produced = {ref}
  BY DEF Of, Event
<1>7. e \in EventRecord
  <2>1. pending' \in Seq(EventRecord)
    BY <1>2 DEF TypeOK
  <2>2. 1 \in DOMAIN pending' /\ pending'[1] = e
    BY <1>1
  <2> QED
    BY <2>1, <2>2
<1> HIDE DEF e, ref
<1>8. e \in Plain
  BY <1>5, <1>6, <1>7 DEF Plain, ToolTypes
<1>9. \A k \in DOMAIN pending' : pending'[k] \in Plain
  BY <1>1, <1>8
<1>10. \A a \in DOMAIN requests' : a \in DOMAIN requests /\ requests'[a].id = requests[a].id
  <2>1. \A a \in DOMAIN requests : requests[a] \in TrackedRequest
    BY <1>3
  <2> QED
    BY <1>1, <1>3, <2>1 DEF TrackedRequest
<1> QED
  BY <1>1, <1>2, <1>3, <1>9, <1>10, PlainCites

LEMMA FailResponseCite ==
    ASSUME ReplayInv, CiteInv, FailResponse
    PROVE  CiteInv'
<1> DEFINE u == Min(Unsettled)
           e == [Of(requests[u], "model.response.failed") EXCEPT !.ok = FALSE]
<1>1. /\ pending' = <<e>> /\ pending = <<>> /\ Unsettled # {}
      /\ requests' = [requests EXCEPT ![u].settled = TRUE]
      /\ round' = None
      /\ UNCHANGED <<log, recording, turn, calls>>
  BY DEF FailResponse, MayWork, Ready
<1>2. TypeOK /\ TypeOK'
  BY FailResponseReplay DEF ReplayInv
<1>3. /\ requests \in Seq(TrackedRequest) /\ turn \in Nat
      /\ u \in DOMAIN requests
  <2>1. requests \in Seq(TrackedRequest) /\ turn \in Nat
    BY <1>2 DEF TypeOK
  <2> QED
    BY <1>1, <2>1, UnsettledFinite
<1> HIDE DEF u
<1>4. e \in Plain
  BY <1>3, PlainFailed
<1> HIDE DEF e
<1>5. \A k \in DOMAIN pending' : pending'[k] \in Plain
  BY <1>1, <1>4
<1>6. \A a \in DOMAIN requests' : a \in DOMAIN requests /\ requests'[a].id = requests[a].id
  <2>1. \A a \in DOMAIN requests : requests[a] \in TrackedRequest
    BY <1>3
  <2> QED
    BY <1>1, <1>3, <2>1 DEF TrackedRequest
<1> QED
  BY <1>1, <1>2, <1>5, <1>6, PlainCites

LEMMA FailTurnCite ==
    ASSUME ReplayInv, CiteInv, NEW rejected \in BOOLEAN, FailTurn(rejected)
    PROVE  CiteInv'
<1> DEFINE no == Event("answer.rejected", turn)
           audit == Event("audit.diagnostic.recorded", turn)
           seen == Event("context.projected", turn)
           done == Event("turn.completed", turn)
           failed == Event("analysis.failed", None)
           first == IF rejected THEN <<no, audit>> ELSE <<>>
<1>1. /\ pending' = first \o <<seen, done>> \o Interrupted \o <<failed>>
      /\ requests' = <<>> /\ round' = None /\ calls' = {}
      /\ pending = <<>> /\ UNCHANGED <<log, recording, turn>>
  BY DEF FailTurn, Ready, Ended
<1>2. turn \in Nat /\ TypeOK
  BY DEF ReplayInv, TypeOK
<1>3. TypeOK'
  BY FailTurnReplay DEF ReplayInv
<1>4. no \in Plain /\ audit \in Plain /\ seen \in Plain /\ done \in Plain /\ failed \in Plain
  BY <1>2, PlainEvent DEF EventTypes, ContextTypes, ToolTypes
<1>5. Interrupted \in Seq(Plain)
  BY PlainInterrupted
<1> HIDE DEF no, audit, seen, done, failed
<1>6. first \in Seq(Plain) /\ <<seen, done>> \in Seq(Plain) /\ <<failed>> \in Seq(Plain)
  BY <1>4
<1> HIDE DEF first
<1>7. pending' \in Seq(Plain)
  BY <1>1, <1>5, <1>6, JoinedOffered
<1>8. \A k \in DOMAIN pending' : pending'[k] \in Plain
  BY <1>7
<1>9. DOMAIN requests' = {}
  BY <1>1
<1> QED
  BY <1>1, <1>2, <1>3, <1>8, <1>9, PlainCites

\* The step and the request that are begun together.
LEMMA RequestCite ==
    ASSUME ReplayInv, LifeInv, CiteInv, Request
    PROVE  CiteInv'
<1> DEFINE id == RequestsSoFar + 1
           ref == <<"input", id>>
           e == [Of([id |-> id], "model.request.started") EXCEPT
                    !.artifact = ref, !.produced = {ref}]
           s == [Event("step.started", turn) EXCEPT !.step = id]
           new == [id |-> id, settled |-> FALSE]
           n == Len(log)
           m == Len(requests)
<1>1. /\ pending' = IF recording = "schema" THEN <<s, e>> ELSE <<e>>
      /\ requests' = Append(requests, new)
      /\ phase = "turn" /\ pending = <<>>
      /\ UNCHANGED <<log, recording, turn, round, calls>>
  BY DEF Request, MayWork, Ready
<1>2. TypeOK /\ TypeOK'
  BY RequestReplay DEF ReplayInv
<1>3. turn \in Nat /\ log \in Seq(EventRecord) /\ requests \in Seq(TrackedRequest)
      /\ n \in Nat /\ m \in Nat
  BY <1>2 DEF TypeOK
<1>4. id \in Nat
  BY <1>3, Counted DEF RequestsSoFar
<1>5. /\ e.type = "model.request.started" /\ e.turn = turn /\ e.step = id /\ e.request = id
      /\ e.tool = None /\ e.produced = {ref}
      /\ s.type = "step.started" /\ s.turn = turn /\ s.step = id
      /\ s.tool = None /\ s.produced = {}
  BY DEF Of, Event
<1>6. ref # Result
  BY <1>4, ReferencesApart
<1>7. new.id = id
  OBVIOUS
<1>8. id = RequestsSoFar + 1
  OBVIOUS
<1> HIDE DEF e, s, ref, new, id, m
<1>9. /\ Ahead = log
      /\ DOMAIN log \subseteq DOMAIN Ahead'
      /\ \A i \in DOMAIN log : Ahead'[i] = log[i]
      /\ \A k \in DOMAIN pending' : n + k \in DOMAIN Ahead' /\ Ahead'[n + k] = pending'[k]
  BY <1>1, <1>2, HandlerAhead
<1>10. DOMAIN log = 1..n
  BY <1>3
<1>11. Begins(e, turn, id)
  BY <1>5 DEF Begins
<1>12. PICK t \in DOMAIN log : log[t].type = "turn.started" /\ log[t].turn = turn
  BY <1>1, <1>9 DEF LifeInv, TurnInv
<1>13. CASE recording = "schema"
  <2>1. /\ pending' = <<s, e>> /\ DOMAIN pending' = {1, 2}
        /\ pending'[1] = s /\ pending'[2] = e
    BY <1>1, <1>13
  <2>2. /\ n + 1 \in DOMAIN Ahead' /\ Ahead'[n + 1] = s
        /\ n + 2 \in DOMAIN Ahead' /\ Ahead'[n + 2] = e
    BY <1>9, <2>1
  <2>3. t < n + 1 /\ t \in DOMAIN Ahead' /\ Ahead'[t] = log[t]
    BY <1>3, <1>9, <1>10, <1>12
  <2>4. StepBacked(Ahead', n + 1)
    BY <1>5, <1>12, <2>2, <2>3 DEF StepBacked
  <2>5. Backed(Ahead', n + 1, recording)
    BY <1>5, <2>2, <2>4 DEF Backed, ToolTypes
  <2>6. (n + 2) - 1 = n + 1
    BY <1>3
  <2>7. RequestBacked(Ahead', n + 2, recording)
    BY <1>5, <2>2, <2>6 DEF RequestBacked, SameStep
  <2>8. Backed(Ahead', n + 2, recording)
    BY <1>5, <1>6, <2>2, <2>7 DEF Backed, ToolTypes
  <2>9. /\ \A k \in DOMAIN pending' : Backed(Ahead', n + k, recording)
        /\ \A k, l \in DOMAIN pending' : pending'[k].type = pending'[l].type => k = l
        /\ \A k \in DOMAIN pending' : pending'[k].type \notin {"tool.started", "tool.completed"}
        /\ \A k \in DOMAIN pending' : pending'[k].type = "step.started" =>
              /\ pending'[k].step = RequestsSoFar + 1
              /\ \E l \in DOMAIN pending' : pending'[l].type = "model.request.started"
        /\ \E k \in DOMAIN pending' : Begins(pending'[k], turn, id)
    BY <1>5, <1>8, <1>11, <2>1, <2>5, <2>8
  <2>10. \A a \in DOMAIN requests' :
            \/ \E b \in DOMAIN requests : requests'[a].id = requests[b].id
            \/ \E k \in DOMAIN pending' : Begins(pending'[k], turn, requests'[a].id)
    BY <1>1, <1>3, <1>7, <2>9 DEF m
  <2> QED
    BY <1>1, <1>2, <2>9, <2>10, HandlerCites
<1>14. CASE recording # "schema"
  <2>1. /\ pending' = <<e>> /\ DOMAIN pending' = {1} /\ pending'[1] = e
    BY <1>1, <1>14
  <2>2. n + 1 \in DOMAIN Ahead' /\ Ahead'[n + 1] = e
    BY <1>9, <2>1
  <2>3. RequestBacked(Ahead', n + 1, recording)
    BY <1>5, <1>14, <2>2 DEF RequestBacked
  <2>4. Backed(Ahead', n + 1, recording)
    BY <1>5, <1>6, <2>2, <2>3 DEF Backed, ToolTypes
  <2>5. /\ \A k \in DOMAIN pending' : Backed(Ahead', n + k, recording)
        /\ \A k, l \in DOMAIN pending' : pending'[k].type = pending'[l].type => k = l
        /\ \A k \in DOMAIN pending' :
              pending'[k].type \notin {"step.started", "tool.started", "tool.completed"}
        /\ \E k \in DOMAIN pending' : Begins(pending'[k], turn, id)
    BY <1>5, <1>11, <2>1, <2>4
  <2>6. \A a \in DOMAIN requests' :
            \/ \E b \in DOMAIN requests : requests'[a].id = requests[b].id
            \/ \E k \in DOMAIN pending' : Begins(pending'[k], turn, requests'[a].id)
    BY <1>1, <1>3, <1>7, <2>5 DEF m
  <2> QED
    BY <1>1, <1>2, <2>5, <2>6, HandlerCites
<1> QED
  BY <1>13, <1>14

LEMMA StartToolCite ==
    ASSUME ReplayInv, CiteInv, StartTool
    PROVE  CiteInv'
<1> DEFINE tool == Cardinality(At(log, {"tool.started"})) + 1
           id == IF round # None THEN round ELSE requests[Len(requests)].id
           c == [tool |-> tool, request |-> id]
           ref == <<"call", tool>>
           e == [OfTool(c, "tool.started") EXCEPT !.artifact = ref, !.produced = {ref}]
           n == Len(log)
<1>1. /\ pending' = <<e>> /\ pending = <<>> /\ requests # <<>>
      /\ calls' = calls \cup {c}
      /\ UNCHANGED <<log, recording, turn, requests, round>>
  BY DEF StartTool, MayWork, Ready
<1>2. TypeOK /\ TypeOK'
  BY StartToolReplay DEF ReplayInv
<1>3. /\ turn \in Nat /\ log \in Seq(EventRecord) /\ requests \in Seq(TrackedRequest)
      /\ n \in Nat /\ None \notin Nat
  BY <1>2, NoneApart DEF TypeOK
<1>4. tool \in Nat
  BY <1>3, Counted
<1>5. /\ e.type = "tool.started" /\ e.turn = turn /\ e.step = id /\ e.request = id
      /\ e.tool = tool /\ e.produced = {ref} /\ e.consumed = {} /\ e.evidence = {}
  BY DEF OfTool, Event
<1>6. ref \notin Answers
  BY <1>4, ReferencesApart DEF Answers, Cited
<1>7. c.tool = tool /\ c.request = id
  OBVIOUS
<1>8. tool = Cardinality(At(log, {"tool.started"})) + 1
  OBVIOUS
<1>9. round # None \/ id = requests[Len(requests)].id
  OBVIOUS
<1>10. round # None => id = round
  OBVIOUS
<1> HIDE DEF e, ref, c, tool, id
<1>11. /\ Ahead = log
       /\ DOMAIN log \subseteq DOMAIN Ahead'
       /\ \A i \in DOMAIN log : Ahead'[i] = log[i]
       /\ \A k \in DOMAIN pending' : n + k \in DOMAIN Ahead' /\ Ahead'[n + k] = pending'[k]
  BY <1>1, <1>2, HandlerAhead
<1>12. DOMAIN log = 1..n
  BY <1>3
<1>13. PICK i \in DOMAIN log : Begins(log[i], turn, id)
  <2>1. Len(requests) \in DOMAIN requests
    BY <1>1, <1>3
  <2> QED
    BY <1>9, <1>10, <1>11, <2>1 DEF CiteInv, HeldInv
<1>14. /\ pending' = <<e>> /\ DOMAIN pending' = {1} /\ pending'[1] = e
  BY <1>1
<1>15. n + 1 \in DOMAIN Ahead' /\ Ahead'[n + 1] = e
  BY <1>11, <1>14
<1>16. i < n + 1 /\ i \in DOMAIN Ahead' /\ Ahead'[i] = log[i]
  BY <1>3, <1>11, <1>12
<1>17. SameRequest(log[i], e)
  BY <1>5, <1>13 DEF Begins, SameRequest, SameStep
<1>18. ToolBacked(Ahead', n + 1)
  BY <1>5, <1>6, <1>13, <1>15, <1>16, <1>17 DEF ToolBacked, Begins
<1>19. Result # ref
  BY <1>6 DEF Answers
<1>20. Backed(Ahead', n + 1, recording)
  BY <1>3, <1>4, <1>5, <1>15, <1>18, <1>19 DEF Backed, ToolTypes
<1>21. ASSUME NEW j \in DOMAIN log, log[j].type = "tool.completed"
       PROVE  log[j].tool # tool
  <2>1. PICK m \in DOMAIN log : log[m].type = "tool.started" /\ SameCall(log[m], log[j])
    BY <1>11, <1>21 DEF CiteInv, BackedInv, Backed, CompletionBacked
  <2>2. log[m].tool \in Nat /\ log[m].tool < tool
    <3>1. log[m].tool \in Nat /\ log[m].tool <= Cardinality(At(log, {"tool.started"}))
      BY <1>11, <2>1 DEF CiteInv, NumberedInv
    <3>2. Cardinality(At(log, {"tool.started"})) \in Nat
      BY <1>3, Counted
    <3> QED
      BY <1>8, <3>1, <3>2
  <2> QED
    BY <1>4, <2>1, <2>2 DEF SameCall
<1>22. Calls(e, turn, c)
  BY <1>5, <1>7 DEF Calls
<1>23. /\ \A k \in DOMAIN pending' : Backed(Ahead', n + k, recording)
       /\ \A k, l \in DOMAIN pending' : pending'[k].type = pending'[l].type => k = l
       /\ \A k \in DOMAIN pending' : pending'[k].type \notin {"step.started", "tool.completed"}
       /\ \A k \in DOMAIN pending' :
             pending'[k].tool = Cardinality(At(log, {"tool.started"})) + 1
       /\ \A d \in calls' \ calls :
             /\ \E k \in DOMAIN pending' : Calls(pending'[k], turn, d)
             /\ \A j \in DOMAIN log :
                   log[j].type = "tool.completed" => log[j].tool # d.tool
  BY <1>1, <1>5, <1>7, <1>8, <1>14, <1>20, <1>21, <1>22
<1> QED
  BY <1>1, <1>2, <1>23, HandlerCites

\* What the recorder knows was answered.
LEMMA KnownAnswered ==
    ASSUME TypeOK, TypeOK', CiteInv, pending = <<>>, log' = log, NEW ref \in Known,
           NEW k \in DOMAIN pending'
    PROVE  Answered(Ahead', Len(log) + k, ref) /\ ref \in Answers
<1>1. /\ Ahead = log
      /\ DOMAIN log \subseteq DOMAIN Ahead'
      /\ \A i \in DOMAIN log : Ahead'[i] = log[i]
  BY HandlerAhead
<1>2. PICK i \in DOMAIN log : /\ log[i].type = "tool.completed"
                              /\ ref \in log[i].produced \cup log[i].evidence
  BY DEF Known, At
<1>3. i < Len(log) + k
  BY DEF TypeOK
<1>4. log[i].produced \subseteq {Result} /\ log[i].evidence \subseteq Cited
  BY <1>1, <1>2 DEF CiteInv, BackedInv, Backed, CompletionBacked
<1> QED
  BY <1>1, <1>2, <1>3, <1>4 DEF Answered, Answers

\* The completion of a call, with what follows from it.
LEMMA CompletionEvent ==
    ASSUME ReplayInv, NEW c \in calls, NEW kind \in Kinds, <<"call", c.tool>> \in Given
    PROVE  LET e == [OfTool(c, "tool.completed") EXCEPT
                        !.ok = kind \notin Failures, !.result = kind \in {"analysis", "query"},
                        !.consumed = {<<"call", c.tool>>}, !.artifact = <<"call", c.tool>>,
                        !.produced = ProducedBy(kind), !.evidence = CitedBy(kind)]
           IN  /\ e \in EventRecord
               /\ e.type = "tool.completed" /\ e.turn = turn /\ e.step = c.request
               /\ e.request = c.request /\ e.tool = c.tool
               /\ e.consumed = {<<"call", c.tool>>}
               /\ e.produced = ProducedBy(kind) /\ e.evidence = CitedBy(kind)
               /\ c.tool \in Nat
<1> DEFINE e == [OfTool(c, "tool.completed") EXCEPT
                    !.ok = kind \notin Failures, !.result = kind \in {"analysis", "query"},
                    !.consumed = {<<"call", c.tool>>}, !.artifact = <<"call", c.tool>>,
                    !.produced = ProducedBy(kind), !.evidence = CitedBy(kind)]
<1>1. e \in EventRecord
  BY CompletedOffered, OfferedTyped
<1>2. /\ e.type = "tool.completed" /\ e.turn = turn /\ e.step = c.request
      /\ e.request = c.request /\ e.tool = c.tool
      /\ e.consumed = {<<"call", c.tool>>}
      /\ e.produced = ProducedBy(kind) /\ e.evidence = CitedBy(kind)
  BY DEF OfTool, Event
<1>3. c.tool \in Nat
  BY DEF ReplayInv, TypeOK, ToolCall
<1> QED
  BY <1>1, <1>2, <1>3

\* What follows a completion is plain, a decision, or the projection of what
\* the tool has answered.
LEMMA FollowedIs ==
    ASSUME ReplayInv, NEW c \in calls, NEW kind \in Kinds
    PROVE  LET f == Followed(c, kind)
           IN  \A k \in DOMAIN f :
                  /\ f[k].type \in {"business.decision.declared", "context.projected",
                                    "tool.failed"}
                  /\ f[k].tool # None <=> f[k].type = "business.decision.declared"
                  /\ f[k].type = "business.decision.declared" =>
                        f[k].produced = {} /\ f[k].evidence = {} /\ f[k].consumed = Allowed
                  /\ Result \in f[k].produced => Result \in ProducedBy(kind)
<1>1. c.tool \in Nat /\ None \notin Nat
  BY NoneApart DEF ReplayInv, TypeOK, ToolCall
<1> DEFINE F(f) == \A k \in DOMAIN f :
                  /\ f[k].type \in {"business.decision.declared", "context.projected",
                                    "tool.failed"}
                  /\ f[k].tool # None <=> f[k].type = "business.decision.declared"
                  /\ f[k].type = "business.decision.declared" =>
                        f[k].produced = {} /\ f[k].evidence = {} /\ f[k].consumed = Allowed
                  /\ Result \in f[k].produced => Result \in ProducedBy(kind)
<1>2. Result \notin CitedBy(kind) /\ Result # Context
  BY ReferencesApart DEF CitedBy
<1>3. CASE kind = "decision"
  <2> DEFINE g == [OfTool(c, "business.decision.declared") EXCEPT !.consumed = Allowed]
  <2>1. Followed(c, kind) = <<g>>
    BY <1>3 DEF Followed, Failures
  <2>2. /\ g.type = "business.decision.declared" /\ g.tool = c.tool
        /\ g.produced = {} /\ g.evidence = {} /\ g.consumed = Allowed
    BY DEF OfTool, Event
  <2> HIDE DEF g
  <2>3. F(<<g>>)
    BY <1>1, <2>2
  <2> QED
    BY <2>1, <2>3
<1>4. CASE kind \in Failures
  <2> DEFINE g == Observed({}, CitedBy(kind))
             h == Observed({<<"observation", c.tool>>}, {})
             x == [Event("tool.failed", turn) EXCEPT !.ok = FALSE]
  <2>1. Followed(c, kind) = <<g, h, x>>
    BY <1>4 DEF Followed, Failures
  <2>2. /\ g.type = "context.projected" /\ g.tool = None /\ Result \notin g.produced
        /\ h.type = "context.projected" /\ h.tool = None /\ h.produced = {}
    BY <1>2, ObservedIs
  <2>3. x.type = "tool.failed" /\ x.tool = None /\ x.produced = {}
    BY DEF Event
  <2> HIDE DEF g, h, x
  <2>4. F(<<g, h, x>>)
    BY <2>2, <2>3
  <2> QED
    BY <2>1, <2>4
<1>5. CASE kind \notin {"decision"} \cup Failures
  <2>1. PICK consumed, produced :
           /\ Followed(c, kind) = <<Observed(consumed, produced)>>
           /\ Result \in produced => Result \in ProducedBy(kind)
    BY <1>2, <1>5 DEF Followed, Kinds, Failures
  <2> DEFINE g == Observed(consumed, produced)
  <2>2. g.type = "context.projected" /\ g.tool = None /\ g.produced = produced
    BY ObservedIs
  <2> HIDE DEF g
  <2>3. F(<<g>>)
    BY <2>1, <2>2
  <2> QED
    BY <2>1, <2>3 DEF g
<1> QED
  BY <1>3, <1>4, <1>5

LEMMA CompleteToolCite ==
    ASSUME ReplayInv, CiteInv, NEW c \in calls, NEW kind \in Kinds, CompleteTool(c, kind)
    PROVE  CiteInv'
<1> DEFINE e == [OfTool(c, "tool.completed") EXCEPT
                    !.ok = kind \notin Failures, !.result = kind \in {"analysis", "query"},
                    !.consumed = {<<"call", c.tool>>}, !.artifact = <<"call", c.tool>>,
                    !.produced = ProducedBy(kind), !.evidence = CitedBy(kind)]
           f == Followed(c, kind)
           n == Len(log)
<1>1. /\ pending = <<>> /\ pending' = <<e>> \o f
      /\ kind = "query" => Result \in Known
      /\ calls' = calls \ {c}
      /\ round' = IF calls' = {} THEN None ELSE round
      /\ UNCHANGED <<log, recording, turn, requests>>
  BY DEF CompleteTool, Ready
<1>2. TypeOK /\ TypeOK' /\ None \notin Nat
  BY CompleteToolReplay, NoneApart DEF ReplayInv
<1>3. <<"call", c.tool>> \in Given
  <2>1. DOMAIN pending = {}
    BY <1>1
  <2> QED
    BY <2>1 DEF ReplayInv, ProducedInv
<1>4. /\ e \in EventRecord
      /\ e.type = "tool.completed" /\ e.turn = turn /\ e.step = c.request
      /\ e.request = c.request /\ e.tool = c.tool
      /\ e.consumed = {<<"call", c.tool>>}
      /\ e.produced = ProducedBy(kind) /\ e.evidence = CitedBy(kind)
      /\ c.tool \in Nat
  BY <1>3, CompletionEvent
<1>5. \A k \in DOMAIN f :
         /\ f[k].type \in {"business.decision.declared", "context.projected", "tool.failed"}
         /\ f[k].tool # None <=> f[k].type = "business.decision.declared"
         /\ f[k].type = "business.decision.declared" =>
               f[k].produced = {} /\ f[k].evidence = {} /\ f[k].consumed = Allowed
         /\ Result \in f[k].produced => Result \in ProducedBy(kind)
  BY FollowedIs
<1>6. f \in Seq(Offered(Given))
  BY <1>1, FollowedOffered
<1> HIDE DEF e, f
<1>7. /\ Ahead = log
      /\ DOMAIN log \subseteq DOMAIN Ahead'
      /\ \A i \in DOMAIN log : Ahead'[i] = log[i]
      /\ \A k \in DOMAIN pending' : n + k \in DOMAIN Ahead' /\ Ahead'[n + k] = pending'[k]
  BY <1>1, <1>2, HandlerAhead
<1>8. log \in Seq(EventRecord) /\ n \in Nat /\ DOMAIN log = 1..n
  BY <1>2 DEF TypeOK
<1>9. /\ DOMAIN pending' = 1..(1 + Len(f)) /\ Len(f) \in Nat
      /\ pending'[1] = e
      /\ \A k \in DOMAIN pending' : k # 1 => k > 1 /\ k - 1 \in DOMAIN f /\ pending'[k] = f[k - 1]
  BY <1>1, <1>6
<1>10. \A k \in DOMAIN pending' : k # 1 =>
         /\ pending'[k].type \in {"business.decision.declared", "context.projected",
                                  "tool.failed"}
         /\ pending'[k].tool # None <=> pending'[k].type = "business.decision.declared"
         /\ pending'[k].type = "business.decision.declared" =>
               /\ pending'[k].produced = {} /\ pending'[k].evidence = {}
               /\ pending'[k].consumed = Allowed
         /\ Result \in pending'[k].produced => Result \in ProducedBy(kind)
  BY <1>5, <1>9
<1>11. n + 1 \in DOMAIN Ahead' /\ Ahead'[n + 1] = e
  BY <1>7, <1>9
<1>12. Backed(Ahead', n + 1, recording)
  <2>1. PICK i \in DOMAIN log : Calls(log[i], turn, c)
    BY <1>7 DEF CiteInv, HeldInv
  <2>2. i < n + 1 /\ i \in DOMAIN Ahead' /\ Ahead'[i] = log[i]
    BY <1>7, <1>8
  <2>3. SameCall(log[i], e)
    BY <1>4, <2>1 DEF Calls, SameCall, SameRequest, SameStep
  <2>4. <<"call", c.tool>> \notin Answers
    BY <1>4, ReferencesApart DEF Answers, Cited
  <2>5. ProducedBy(kind) \subseteq {Result} /\ CitedBy(kind) \subseteq Cited
    BY DEF ProducedBy, CitedBy, Cited
  <2>6. CompletionBacked(Ahead', n + 1)
    BY <1>4, <1>11, <2>1, <2>2, <2>3, <2>4, <2>5 DEF CompletionBacked, Calls
  <2> QED
    BY <1>2, <1>4, <1>11, <2>6 DEF Backed, ToolTypes
<1>13. ASSUME NEW k \in DOMAIN pending', k # 1
       PROVE  Backed(Ahead', n + k, recording)
  <2>1. k \in Nat /\ 1 < k
    BY <1>9, <1>13
  <2>2. Ahead'[n + k] = pending'[k]
    BY <1>7
  <2>3. \A ref \in Allowed \cap Answers : Answered(Ahead', n + k, ref)
    <3>1. Context \notin Answers
      BY ReferencesApart DEF Answers, Cited
    <3>2. ASSUME NEW ref \in {"observation"} \X Nat
          PROVE  ref \notin Answers
      <4>1. ref \in {"call", "input", "response", "answer", "view", "observation"} \X Nat
        OBVIOUS
      <4> QED
        BY <4>1, ReferencesApart DEF Answers, Cited
    <3>3. Allowed \cap Answers \subseteq Known
      BY <3>1, <3>2 DEF Allowed
    <3> QED
      BY <1>1, <1>2, <3>3, KnownAnswered
  <2>4. Result \in pending'[k].produced => Answered(Ahead', n + k, Result)
    <3>1. n + 1 < n + k
      BY <1>8, <2>1
    <3> QED
      BY <1>4, <1>10, <1>11, <1>13, <3>1 DEF Answered
  <2>5. pending'[k].type = "business.decision.declared" => DecisionBacked(Ahead', n + k)
    BY <1>10, <1>13, <2>2, <2>3 DEF DecisionBacked
  <2> QED
    BY <1>10, <1>13, <2>2, <2>4, <2>5 DEF Backed, ToolTypes
<1>14. ASSUME NEW k \in DOMAIN pending', pending'[k].type = "tool.completed"
       PROVE  /\ k = 1
              /\ \A j \in DOMAIN log :
                    log[j].type = "tool.completed" => log[j].tool # pending'[k].tool
              /\ \A d \in calls' : pending'[k].tool # d.tool
  <2>1. k = 1
    BY <1>10, <1>14
  <2>2. pending'[k].tool = c.tool
    BY <1>4, <1>9, <2>1
  <2>3. \A j \in DOMAIN log : log[j].type = "tool.completed" => log[j].tool # c.tool
    BY <1>7 DEF CiteInv, HeldInv
  <2>4. ASSUME NEW d \in calls', d.tool = c.tool
        PROVE  FALSE
    <3>1. d \in calls /\ d # c
      BY <1>1
    <3>2. PICK i \in DOMAIN log : Calls(log[i], turn, c)
      BY <1>7 DEF CiteInv, HeldInv
    <3>3. PICK j \in DOMAIN log : Calls(log[j], turn, d)
      BY <1>7, <3>1 DEF CiteInv, HeldInv
    <3>4. i = j
      BY <1>7, <2>4, <3>2, <3>3 DEF CiteInv, NumberedInv, Calls
    <3>5. c.request = d.request
      BY <3>2, <3>3, <3>4 DEF Calls
    <3>6. c \in ToolCall /\ d \in ToolCall
      BY <1>2, <3>1 DEF TypeOK
    <3> QED
      BY <2>4, <3>1, <3>5, <3>6 DEF ToolCall
  <2> QED
    BY <2>1, <2>2, <2>3, <2>4
<1>15. \A k \in DOMAIN pending' :
          /\ pending'[k].type \notin {"step.started", "tool.started"}
          /\ pending'[k].type = "tool.completed" =>
              /\ \A j \in DOMAIN log :
                    log[j].type = "tool.completed" => log[j].tool # pending'[k].tool
              /\ \A d \in calls' : pending'[k].tool # d.tool
  BY <1>4, <1>9, <1>10, <1>14
<1>16. \A k, m \in DOMAIN pending' :
          /\ pending'[k].type = pending'[m].type
          /\ pending'[k].type \in {"step.started", "tool.started", "tool.completed"}
          => k = m
  BY <1>14, <1>15
<1>17. \A k \in DOMAIN pending' : Backed(Ahead', n + k, recording)
  BY <1>12, <1>13
<1>18. calls' \ calls = {} /\ round' \in {round, None}
  BY <1>1
<1> QED
  BY <1>1, <1>2, <1>15, <1>16, <1>17, <1>18, HandlerCites

LEMMA SubmitCite ==
    ASSUME ReplayInv, CiteInv, NEW refs \in SUBSET Known, Submit(refs)
    PROVE  CiteInv'
<1> DEFINE results == refs \cap {Result}
           doc == <<"answer", turn>>
           answer == [Event("answer.submitted", turn) EXCEPT
                         !.submission = turn, !.artifact = doc,
                         !.consumed = results, !.evidence = refs \ results,
                         !.produced = {doc}]
           claim == [Event("business.claim.declared", turn) EXCEPT
                        !.submission = turn, !.consumed = results, !.evidence = refs \ results]
           audit == Event("audit.diagnostic.recorded", turn)
           done == Event("turn.completed", turn)
           claims == IF recording = "schema" /\ refs # {} THEN <<claim>> ELSE <<>>
           audits == IF Result \in refs /\ ResultEvidence \notin refs THEN <<audit>> ELSE <<>>
           Declared == IF recording = "schema" THEN {claim} ELSE {}
           S == Plain \cup Declared
           n == Len(log)
<1>1. /\ pending' = <<answer>> \o claims \o audits \o <<done>> \o Interrupted
      /\ requests' = <<>> /\ round' = None /\ calls' = {}
      /\ pending = <<>> /\ UNCHANGED <<log, recording, turn>>
  BY DEF Submit, Ready, Ended
<1>2. turn \in Nat /\ TypeOK
  BY DEF ReplayInv, TypeOK
<1>3. TypeOK'
  BY SubmitReplay DEF ReplayInv
<1>4. answer.type = "answer.submitted" /\ answer.tool = None /\ answer.produced = {doc}
  BY DEF Event
<1>5. /\ claim.type = "business.claim.declared" /\ claim.tool = None
      /\ claim.produced = {} /\ claim.consumed \cup claim.evidence = refs
  BY DEF Event
<1>6. doc # Result
  BY <1>2, ReferencesApart
<1>7. answer \in EventRecord
  <2>2. pending' \in Seq(EventRecord)
    BY <1>3 DEF TypeOK
  <2>3. 1 \in DOMAIN pending' /\ pending'[1] = answer
    <3>1. Interrupted \in Seq(Plain)
      BY PlainInterrupted
    <3> HIDE DEF answer, claim, audit, done
    <3>2. (claims = <<>> \/ claims = <<claim>>) /\ (audits = <<>> \/ audits = <<audit>>)
      OBVIOUS
    <3> HIDE DEF claims, audits
    <3> DEFINE T == {claim, audit, done} \cup Plain
               rest == claims \o audits \o <<done>> \o Interrupted
    <3>3. claims \in Seq(T) /\ audits \in Seq(T) /\ <<done>> \in Seq(T) /\ Interrupted \in Seq(T)
      <4>1. claim \in T /\ audit \in T /\ done \in T /\ Plain \subseteq T
        OBVIOUS
      <4>2. \A A, B : A \subseteq B => Seq(A) \subseteq Seq(B)
        OBVIOUS
      <4> HIDE DEF T
      <4>3. Interrupted \in Seq(T)
        BY <3>1, <4>1, <4>2
      <4>4. <<>> \in Seq(T) /\ <<claim>> \in Seq(T) /\ <<audit>> \in Seq(T) /\ <<done>> \in Seq(T)
        BY <4>1
      <4>5. claims \in Seq(T) /\ audits \in Seq(T)
        BY <3>2, <4>4
      <4> QED
        BY <4>3, <4>4, <4>5
    <3>4. rest \in Seq(T)
      BY <3>3, JoinedOffered
    <3>5. pending' = <<answer>> \o rest
      BY <1>1, <3>3
    <3> HIDE DEF rest, T
    <3> QED
      BY <3>4, <3>5
  <2> HIDE DEF answer
  <2> QED
    BY <2>2, <2>3
<1> HIDE DEF answer, doc
<1>8. answer \in Plain
  BY <1>4, <1>6, <1>7 DEF Plain, ToolTypes
<1>9. audit \in Plain /\ done \in Plain
  BY <1>2, PlainEvent DEF EventTypes, ContextTypes, ToolTypes
<1>10. Interrupted \in Seq(S)
  <2>1. Interrupted \in Seq(Plain) /\ Plain \subseteq S
    BY PlainInterrupted
  <2>2. \A A, B : A \subseteq B => Seq(A) \subseteq Seq(B)
    OBVIOUS
  <2> HIDE DEF S
  <2> QED
    BY <2>1, <2>2
<1> HIDE DEF claim, audit, done
<1>11. <<answer>> \in Seq(S) /\ claims \in Seq(S) /\ audits \in Seq(S) /\ <<done>> \in Seq(S)
  <2>1. answer \in S /\ audit \in S /\ done \in S /\ (recording = "schema" => claim \in S)
    BY <1>8, <1>9
  <2> HIDE DEF S
  <2> QED
    BY <2>1
<1> HIDE DEF claims, audits
<1>12. pending' \in Seq(S)
  <2> HIDE DEF S
  <2> QED
    BY <1>1, <1>10, <1>11, JoinedOffered
<1>13. \A k \in DOMAIN pending' : Ahead'[n + k] = pending'[k]
  BY <1>1, <1>2, <1>3, HandlerAhead
<1>14. ASSUME NEW k \in DOMAIN pending'
       PROVE  /\ Backed(Ahead', n + k, recording)
              /\ pending'[k].type \notin {"step.started", "tool.started", "tool.completed"}
  <2>1. pending'[k] \in S
    BY <1>12
  <2>2. CASE pending'[k] \in Plain
    BY <1>13, <2>2, PlainBacked, PlainTypes
  <2>3. CASE pending'[k] \notin Plain
    <3>1. pending'[k] = claim /\ recording = "schema"
      BY <2>1, <2>3
    <3>2. \A ref \in refs : Answered(Ahead', n + k, ref)
      BY <1>1, <1>2, <1>3, KnownAnswered
    <3>3. Ahead'[n + k] = claim
      BY <1>13, <3>1
    <3>4. ClaimBacked(Ahead', n + k, recording)
      BY <1>5, <3>1, <3>2, <3>3 DEF ClaimBacked
    <3> QED
      BY <1>5, <3>1, <3>3, <3>4 DEF Backed, ToolTypes
  <2> QED
    BY <2>2, <2>3
<1>15. DOMAIN requests' = {}
  BY <1>1
<1> QED
  BY <1>1, <1>2, <1>3, <1>14, <1>15, HandlerCites

LEMMA NextCite ==
    ASSUME ReplayInv, LifeInv, CiteInv, [Next]_vars
    PROVE  CiteInv'
<1>1. CASE Write
  BY <1>1, WriteCite
<1>2. CASE Start
  BY <1>2, StartCite
<1>3. CASE StartTurn
  BY <1>3, StartTurnCite
<1>4. CASE Request
  BY <1>4, RequestCite
<1>5. ASSUME NEW toolUse \in BOOLEAN, Respond(toolUse)
      PROVE  CiteInv'
  BY <1>5, RespondCite
<1>6. CASE FailResponse
  BY <1>6, FailResponseCite
<1>7. ASSUME NEW type \in {"model.retry.started", "model.retry.exhausted"}, Retry(type)
      PROVE  CiteInv'
  BY <1>7, RetryCite
<1>8. CASE StartTool
  BY <1>8, StartToolCite
<1>9. ASSUME NEW c \in calls, NEW kind \in Kinds, CompleteTool(c, kind)
      PROVE  CiteInv'
  BY <1>9, CompleteToolCite
<1>10. ASSUME NEW refs \in SUBSET Known, Submit(refs)
       PROVE  CiteInv'
  BY <1>10, SubmitCite
<1>11. ASSUME NEW rejected \in BOOLEAN, FailTurn(rejected)
       PROVE  CiteInv'
  BY <1>11, FailTurnCite
<1>12. CASE Complete
  BY <1>12, CompleteCite
<1>13. ASSUME NEW ref \in Losable, Lose(ref)
       PROVE  CiteInv'
  BY <1>13, SameCite DEF Lose
<1>14. CASE UNCHANGED vars
  BY <1>14, SameCite DEF vars
<1> QED
  BY <1>1, <1>2, <1>3, <1>4, <1>5, <1>6, <1>7, <1>8, <1>9, <1>10, <1>11, <1>12, <1>13, <1>14
     DEF Next

\* Of the log itself, which is where the projections read.
LEMMA LogCited ==
    ASSUME TypeOK, CiteInv
    PROVE  /\ DOMAIN log \in SUBSET Nat
           /\ \A j \in DOMAIN log : Backed(log, j, recording)
           /\ \A i, j \in DOMAIN log :
                 /\ log[i].type = "step.started" /\ log[j].type = "step.started"
                 /\ log[i].step = log[j].step
                 => i = j
           /\ \A i, j \in DOMAIN log :
                 /\ log[i].type = "tool.started" /\ log[j].type = "tool.started"
                 /\ log[i].tool = log[j].tool
                 => i = j
           /\ \A i, j \in DOMAIN log :
                 /\ log[i].type = "tool.completed" /\ log[j].type = "tool.completed"
                 /\ log[i].tool = log[j].tool
                 => i = j
<1>1. /\ Ahead \in Seq(EventRecord) /\ Len(log) \in Nat
      /\ DOMAIN log = 1..Len(log)
      /\ \A i \in DOMAIN log : i \in DOMAIN Ahead /\ Ahead[i] = log[i]
  BY AheadIs
<1>2. \A i \in DOMAIN Ahead : \A j \in DOMAIN log : i < j \/ i = j - 1 => i \in DOMAIN Ahead
  OBVIOUS
<1>3. DOMAIN Ahead = 1..Len(Ahead) /\ Len(Ahead) \in Nat
  BY <1>1
<1>4. \A i \in DOMAIN Ahead : \A j \in DOMAIN log : i < j => i \in DOMAIN log
  BY <1>1, <1>3
<1>5. ASSUME NEW j \in DOMAIN log
      PROVE  Backed(log, j, recording)
  <2>1. Backed(Ahead, j, recording) /\ Ahead[j] = log[j]
    BY <1>1 DEF CiteInv, BackedInv
  <2>2. \A ref : Answered(Ahead, j, ref) => Answered(log, j, ref)
    BY <1>1, <1>4 DEF Answered
  <2>3. log[j].type = "step.started" => StepBacked(log, j)
    BY <1>1, <1>4, <2>1 DEF Backed, StepBacked
  <2>4. log[j].type = "model.request.started" => RequestBacked(log, j, recording)
    <3>1. j - 1 < j
      BY <1>1
    <3> QED
      BY <1>1, <1>4, <2>1, <3>1 DEF Backed, RequestBacked
  <2>5. log[j].type = "tool.started" => ToolBacked(log, j)
    BY <1>1, <1>4, <2>1 DEF Backed, ToolBacked
  <2>6. log[j].type = "tool.completed" => CompletionBacked(log, j)
    BY <1>1, <1>4, <2>1 DEF Backed, CompletionBacked
  <2>7. log[j].type = "business.decision.declared" => DecisionBacked(log, j)
    BY <1>1, <2>1, <2>2 DEF Backed, DecisionBacked
  <2>8. log[j].type = "business.claim.declared" => ClaimBacked(log, j, recording)
    BY <1>1, <2>1, <2>2 DEF Backed, ClaimBacked
  <2> QED
    BY <2>1, <2>2, <2>3, <2>4, <2>5, <2>6, <2>7, <2>8 DEF Backed
<1> QED
  BY <1>1, <1>5 DEF CiteInv, NumberedInv

\* The tool whose completion is w, and where it is shown.
LEMMA ToolOf ==
    ASSUME TypeOK, CiteInv, NEW w \in DOMAIN log, log[w].type = "tool.completed"
    PROVE  \E i \in DOMAIN log :
              /\ log[i].type = "tool.started" /\ i < w /\ SameCall(log[i], log[w])
              /\ \A j \in At(log, {"tool.started"}) : log[j].tool = log[w].tool => j = i
              /\ ToolEnd(log, i) = w
<1>1. /\ DOMAIN log \in SUBSET Nat
      /\ \A j \in DOMAIN log : Backed(log, j, recording)
      /\ \A i, j \in DOMAIN log :
            /\ log[i].type = "tool.started" /\ log[j].type = "tool.started"
            /\ log[i].tool = log[j].tool
            => i = j
      /\ \A i, j \in DOMAIN log :
            /\ log[i].type = "tool.completed" /\ log[j].type = "tool.completed"
            /\ log[i].tool = log[j].tool
            => i = j
  BY LogCited
<1>2. PICK i \in DOMAIN log :
         /\ i < w /\ log[i].type = "tool.started" /\ SameCall(log[i], log[w])
  BY <1>1 DEF Backed, CompletionBacked
<1> DEFINE S == {j \in At(log, {"tool.completed", "tool.failed"}) :
                    j > i /\ SameRequest(log[j], log[i]) /\ log[j].tool = log[i].tool}
<1>3. w \in S
  BY <1>2 DEF At, SameCall, SameRequest, SameStep
<1>4. ASSUME NEW j \in S
      PROVE  j = w
  <2>1. j \in DOMAIN log /\ log[j].type \in {"tool.completed", "tool.failed"}
        /\ log[j].tool = log[w].tool
    BY <1>2 DEF At, SameCall
  <2>2. log[w].tool # None
    BY <1>1 DEF Backed, ToolTypes
  <2>3. log[j].type = "tool.completed"
    BY <1>1, <2>1, <2>2 DEF Backed, ToolTypes
  <2> QED
    BY <1>1, <2>1, <2>3
<1>5. ToolEnd(log, i) = Earliest(S) /\ S \in SUBSET Nat
  BY <1>1 DEF ToolEnd, At
<1> HIDE DEF S
<1>6. ToolEnd(log, i) = w
  BY <1>3, <1>4, <1>5, EarliestIs
<1>7. \A j \in At(log, {"tool.started"}) : log[j].tool = log[w].tool => j = i
  BY <1>1, <1>2 DEF At, SameCall
<1> QED
  BY <1>2, <1>6, <1>7

\* The owner of a reference that was answered with is an event of no tool, or
\* the completion that answered with it.
LEMMA OwnerIs ==
    ASSUME TypeOK, CiteInv, NEW ref \in Answers, NEW c \in DOMAIN log, Answered(log, c, ref)
    PROVE  /\ Owner(log, ref) \in DOMAIN log
           /\ log[Owner(log, ref)].tool # None =>
                 /\ log[Owner(log, ref)].type = "tool.completed"
                 /\ ref \in log[Owner(log, ref)].produced \cup log[Owner(log, ref)].evidence
<1> DEFINE P == {i \in DOMAIN log : ref \in log[i].produced}
           C == Consumers(log, ref)
           w == Owner(log, ref)
<1>1. /\ DOMAIN log \in SUBSET Nat
      /\ \A j \in DOMAIN log : Backed(log, j, recording)
  BY LogCited
<1>2. P \in SUBSET Nat /\ C \in SUBSET Nat /\ C \subseteq DOMAIN log /\ P \subseteq DOMAIN log
  BY <1>1 DEF Consumers
<1>3. PICK a \in DOMAIN log : /\ log[a].type = "tool.completed"
                              /\ ref \in log[a].produced \cup log[a].evidence
  BY DEF Answered
<1>4. a \in P \/ a \in C
  BY <1>3 DEF Consumers
<1>5. Producer(log, ref) = Earliest(P)
  BY DEF Producer
<1>6. \A j \in P : ref \in log[j].produced
  OBVIOUS
<1>7. \A j \in DOMAIN log : ref \in log[j].produced => j \in P
  OBVIOUS
<1>8. \A j \in C : ref \in log[j].consumed \cup log[j].evidence
  BY DEF Consumers
<1>9. \A j \in DOMAIN log : ref \in log[j].consumed \cup log[j].evidence => j \in C
  BY DEF Consumers
<1> HIDE DEF P, C
<1>10. CASE P # {}
  <2>1. Earliest(P) \in P
    BY <1>2, <1>10, EarliestIs
  <2>2. Earliest(P) # None
    BY <1>2, <2>1, NoneApart
  <2>3. w \in P
    BY <1>5, <2>1, <2>2 DEF Owner
  <2>4. w \in DOMAIN log /\ ref \in log[w].produced
    BY <1>2, <1>6, <2>3
  <2>5. Backed(log, w, recording)
    BY <1>1, <2>4
  <2> HIDE DEF w
  <2>6. log[w].tool # None => log[w].type = "tool.completed"
    BY <2>4, <2>5 DEF Backed, ToolTypes, ToolBacked, DecisionBacked
  <2> QED
    BY <2>4, <2>6 DEF w
<1>11. CASE P = {}
  <2>1. a \in C
    BY <1>4, <1>11
  <2>2. Earliest(C) \in C /\ \A j \in C : Earliest(C) <= j
    BY <1>2, <2>1, EarliestIs
  <2>3. w = Earliest(C)
    BY <1>5, <1>11 DEF Owner, Earliest, C
  <2>4. w \in C /\ w \in DOMAIN log /\ ref \in log[w].consumed \cup log[w].evidence
        /\ \A j \in C : w <= j
    BY <1>2, <1>8, <2>2, <2>3
  <2>5. Backed(log, w, recording)
    BY <1>1, <2>4
  <2> HIDE DEF w
  <2>6. log[w].type # "tool.started"
    BY <2>4, <2>5 DEF Backed, ToolBacked
  <2>7. log[w].type # "business.decision.declared"
    <3> SUFFICES ASSUME log[w].type = "business.decision.declared"
                 PROVE  FALSE
      OBVIOUS
    <3>1. Answered(log, w, ref)
      BY <2>4, <2>5 DEF Backed, DecisionBacked
    <3>2. PICK b \in DOMAIN log : b < w /\ ref \in log[b].produced \cup log[b].evidence
      BY <3>1 DEF Answered
    <3>3. b \in C
      BY <1>7, <1>9, <1>11, <3>2
    <3> QED
      BY <1>1, <2>4, <3>2, <3>3
  <2>8. log[w].type = "tool.completed" => ref \in log[w].evidence
    BY <2>4, <2>5 DEF Backed, CompletionBacked
  <2> QED
    BY <2>4, <2>5, <2>6, <2>7, <2>8 DEF Backed, ToolTypes, w
<1> QED
  BY <1>10, <1>11

\* A tool of the log is a node of the agent's tree, and so is its request.
LEMMA ToolNode ==
    ASSUME TypeOK, CiteInv, recording = "schema",
           NEW i \in DOMAIN log, log[i].type = "tool.started"
    PROVE  /\ i \in Tools(log)
           /\ \E r \in Requests(log) : r < i /\ SameRequest(log[r], log[i])
<1>1. /\ DOMAIN log \in SUBSET Nat
      /\ \A j \in DOMAIN log : Backed(log, j, recording)
      /\ \A k, j \in DOMAIN log :
            /\ log[k].type = "step.started" /\ log[j].type = "step.started"
            /\ log[k].step = log[j].step
            => k = j
      /\ \A k, j \in DOMAIN log :
            /\ log[k].type = "tool.started" /\ log[j].type = "tool.started"
            /\ log[k].tool = log[j].tool
            => k = j
  BY LogCited
<1>2. PICK r \in DOMAIN log :
         r < i /\ log[r].type = "model.request.started" /\ SameRequest(log[r], log[i])
  BY <1>1 DEF Backed, ToolBacked
<1> DEFINE s == r - 1
<1>3. s \in DOMAIN log /\ log[s].type = "step.started" /\ SameStep(log[s], log[r])
  BY <1>1, <1>2 DEF Backed, RequestBacked
<1>4. r \in Nat /\ s < r /\ \A j \in DOMAIN log : ~(s < j /\ j < r)
  BY <1>1
<1> HIDE DEF s
<1> DEFINE T == {t \in DOMAIN log : log[t].type = "turn.started" /\ log[t].turn = log[s].turn}
<1>5. PICK u \in T : u < s
  BY <1>1, <1>3 DEF Backed, StepBacked
<1>6. T \in SUBSET Nat /\ T # {}
  BY <1>1, <1>5
<1>7. PICK t \in T : \A v \in T : t <= v
  <2> HIDE DEF T
  <2> QED
    BY <1>6, LeastExists
<1>8. t \in Turns(log)
  <2>1. t \in At(log, {"turn.started"})
    BY DEF At
  <2>2. ASSUME NEW j \in At(log, {"turn.started"}), j < t
        PROVE  log[j].turn # log[t].turn
    <3>1. j \in DOMAIN log /\ j \in Nat /\ t \in Nat /\ log[j].type = "turn.started"
      BY <1>1 DEF At
    <3>2. j \notin T
      BY <1>7, <2>2, <3>1
    <3> QED
      BY <3>1, <3>2
  <2> QED
    BY <2>1, <2>2 DEF Turns
<1>9. t < s
  <2>1. t <= u /\ t \in Nat /\ u \in Nat /\ s \in Nat
    BY <1>1, <1>3, <1>5, <1>7
  <2> QED
    BY <1>5, <2>1
<1>10. s \in Steps(log)
  <2>1. s \in At(log, {"step.started"})
    BY <1>3 DEF At
  <2>2. \A j \in At(log, {"step.started"}) :
           j < s => <<log[j].turn, log[j].step>> # <<log[s].turn, log[s].step>>
    BY <1>1, <1>3 DEF At
  <2> QED
    BY <1>8, <1>9, <2>1, <2>2 DEF Steps
<1>11. r \in Requests(log)
  <2>1. r \in At(log, {"model.request.started"})
    BY <1>2 DEF At
  <2>2. \A j \in At(log, {"model.request.started"}) :
           s < j /\ j < r => ~SameStep(log[j], log[r])
    BY <1>4 DEF At
  <2> QED
    BY <1>3, <1>4, <1>10, <2>1, <2>2 DEF Requests
<1>12. i \in Tools(log)
  <2>1. i \in At(log, {"tool.started"})
    BY DEF At
  <2>2. \A j \in At(log, {"tool.started"}) :
           j < i => log[j].tool # log[i].tool \/ ~SameRequest(log[j], log[i])
    BY <1>1 DEF At
  <2> QED
    BY <1>2, <1>11, <2>1, <2>2 DEF Tools
<1> QED
  BY <1>2, <1>11, <1>12

\* What a claim proves: what it cites and can still be verified.
LEMMA ClaimProof ==
    ASSUME TypeOK, LifeInv, NEW c \in Claims
    PROVE  LET cited == (log[c].consumed \cup log[c].evidence) \ lost
           IN  /\ c \in DOMAIN log /\ log[c].type = "business.claim.declared"
               /\ Proof(log, lost, c) = [sequence |-> c, lineage |-> TRUE, refs |-> cited,
                                         owners |-> {log[Owner(log, ref)] : ref \in cited}]
<1> DEFINE refs == log[c].consumed \cup log[c].evidence
           cited == refs \ lost
           node == [kind |-> "claim", sequences |-> <<c, Submission(log, c)>>, refs |-> refs]
           N == {n \in BusinessNodes(log) : n.sequences[1] = c}
<1>1. /\ c \in DOMAIN log /\ log[c].type = "business.claim.declared"
      /\ Submission(log, c) # None
  BY DEF Claims, At
<1>2. log[c].turn \in Nat
  <2>1. c \in DOMAIN Ahead /\ Ahead[c] = log[c]
    BY <1>1, AheadIs
  <2> QED
    BY <1>1, <2>1 DEF LifeInv, AnswerInv
<1>3. NodesOf(log, c) = {node}
  BY <1>1, <1>2, NoneApart DEF NodesOf
<1>4. N = {node}
  <2>1. \A i \in DOMAIN log : \A n \in NodesOf(log, i) : n.sequences[1] = i
    BY NodeSequence
  <2>2. NodesOf(log, c) \subseteq BusinessNodes(log)
    BY <1>1 DEF BusinessNodes
  <2>3. ASSUME NEW n \in N
        PROVE  n = node
    <3>1. PICK i \in DOMAIN log : n \in NodesOf(log, i)
      BY DEF BusinessNodes
    <3>2. i = c
      BY <2>1, <3>1
    <3> QED
      BY <1>3, <3>1, <3>2
  <2>4. node \in N
    BY <1>1, <1>3, <2>1, <2>2
  <2> QED
    BY <2>3, <2>4
<1>5. node.refs = refs /\ node.kind = "claim"
  OBVIOUS
<1> HIDE DEF node
<1>6. UNION {n.refs : n \in N} = refs
  BY <1>4, <1>5
<1>7. (\E n \in N : n.refs # {} \/ n.kind \in {"claim", "verified-result"}) = TRUE
  BY <1>4, <1>5
<1>8. ASSUME NEW ref \in refs
      PROVE  ref \in References(log) /\ c \in RecordSequences(log, ref)
  BY <1>1 DEF References, RecordSequences, Consumers
<1>9. {ref \in UNION {n.refs : n \in N} : Verified(log, lost, ref) /\ c \in RecordSequences(log, ref)}
         = cited
  BY <1>6, <1>8 DEF Verified
<1> HIDE DEF N, refs, cited
<1> QED
  BY <1>1, <1>7, <1>9 DEF Proof, N, refs, cited

LEMMA SliceExact ==
    ASSUME TypeOK, LifeInv, CiteInv
    PROVE  ClaimSliceExact
<1> SUFFICES ASSUME NEW c \in Claims
             PROVE  LET slice == Slice(log, lost, c)
                        cited == (log[c].consumed \cup log[c].evidence) \ lost
                    IN  /\ slice # None =>
                             \A i \in slice.tools : EndRefs(log, i) \cap cited # {}
                        /\ Result \in cited /\ OneTurn(cited) =>
                             /\ slice # None
                             /\ \E i \in slice.tools : ToolEnd(log, i) = Producer(log, Result)
  BY DEF ClaimSliceExact
<1> DEFINE slice == Slice(log, lost, c)
           cited == (log[c].consumed \cup log[c].evidence) \ lost
           owners == {log[Owner(log, ref)] : ref \in cited}
           proof == [sequence |-> c, lineage |-> TRUE, refs |-> cited, owners |-> owners]
           scoped == {r \in Requests(log) : InScope(log, proof, r)}
           turns == {log[r].turn : r \in scoped}
           tools == UNION {ScopedTools(log, proof, r) : r \in scoped}
<1>1. /\ c \in DOMAIN log /\ log[c].type = "business.claim.declared"
      /\ Proof(log, lost, c) = proof
  BY ClaimProof
<1>2. /\ DOMAIN log \in SUBSET Nat
      /\ \A j \in DOMAIN log : Backed(log, j, recording)
  BY LogCited
<1>3. recording = "schema" /\ \A ref \in cited : Answered(log, c, ref)
  BY <1>1, <1>2 DEF Backed, ClaimBacked
<1>4. \A ref \in cited : ref \in Answers
  <2> SUFFICES ASSUME NEW ref \in cited
               PROVE  ref \in Answers
    OBVIOUS
  <2>1. PICK i \in DOMAIN log : /\ log[i].type = "tool.completed"
                                /\ ref \in log[i].produced \cup log[i].evidence
    BY <1>3 DEF Answered
  <2> QED
    BY <1>2, <2>1 DEF Backed, CompletionBacked, Answers
<1>5. proof.lineage = TRUE /\ proof.refs = cited /\ proof.owners = owners
  OBVIOUS
<1>6. ScopedTurns(log, proof, scoped) = turns
  BY DEF ScopedTurns
<1>7. slice = IF Cardinality(turns) # 1 THEN None
              ELSE [turn |-> CHOOSE t \in turns : TRUE, requests |-> scoped, tools |-> tools]
  BY <1>1, <1>6 DEF Slice
<1>8. ASSUME NEW ref \in cited, log[Owner(log, ref)].tool # None
      PROVE  LET w == Owner(log, ref)
             IN  /\ w \in DOMAIN log /\ log[w].type = "tool.completed"
                 /\ ref \in log[w].produced \cup log[w].evidence
  BY <1>1, <1>3, <1>4, <1>8, OwnerIs
<1>9. ASSUME NEW i \in Tools(log), ToolMatches(log, proof, i)
      PROVE  EndRefs(log, i) \cap cited # {}
  <2>1. CASE EndRefs(log, i) \cap proof.refs # {}
    BY <1>5, <2>1
  <2>2. CASE \E o \in proof.owners : o.tool # None /\ o.tool = log[i].tool
    <3>1. PICK ref \in cited : /\ log[Owner(log, ref)].tool # None
                               /\ log[Owner(log, ref)].tool = log[i].tool
      BY <1>5, <2>2
    <3> DEFINE w == Owner(log, ref)
    <3>2. /\ w \in DOMAIN log /\ log[w].type = "tool.completed"
          /\ ref \in log[w].produced \cup log[w].evidence
      BY <1>8, <3>1
    <3> HIDE DEF w
    <3>3. PICK j \in DOMAIN log :
             /\ \A k \in At(log, {"tool.started"}) : log[k].tool = log[w].tool => k = j
             /\ ToolEnd(log, j) = w
      BY <3>2, ToolOf
    <3>4. i = j
      <4>1. i \in At(log, {"tool.started"})
        BY DEF Tools
      <4> QED
        BY <3>1, <3>3, <4>1 DEF w
    <3>5. w # None
      BY <1>2, <3>2, NoneApart
    <3>6. EndRefs(log, i) = log[w].produced \cup log[w].evidence
      BY <3>3, <3>4, <3>5 DEF EndRefs
    <3> QED
      BY <3>2, <3>6
  <2> QED
    BY <1>5, <1>9, <2>1, <2>2 DEF ToolMatches
<1>10. ASSUME slice # None
       PROVE  \A i \in slice.tools : EndRefs(log, i) \cap cited # {}
  <2>1. slice.tools = tools
    <3> HIDE DEF slice, turns, scoped, tools
    <3> QED
      BY <1>7, <1>10
  <2>2. ASSUME NEW i \in tools
        PROVE  i \in Tools(log) /\ ToolMatches(log, proof, i)
    BY DEF ScopedTools
  <2> QED
    BY <1>9, <2>1, <2>2
<1>11. ASSUME Result \in cited, OneTurn(cited)
       PROVE  /\ slice # None
              /\ \E i \in slice.tools : ToolEnd(log, i) = Producer(log, Result)
  <2> DEFINE P == {i \in DOMAIN log : Result \in log[i].produced}
             w == Producer(log, Result)
  <2>1. w = Earliest(P) /\ P \in SUBSET Nat
    BY <1>2 DEF Producer
  <2>2. P # {}
    <3>1. PICK i \in DOMAIN log : /\ log[i].type = "tool.completed"
                                  /\ Result \in log[i].produced \cup log[i].evidence
      BY <1>3, <1>11 DEF Answered
    <3>2. log[i].evidence \subseteq Cited
      BY <1>2, <3>1 DEF Backed, CompletionBacked
    <3>3. Result \notin Cited
      BY ReferencesApart DEF Cited
    <3> QED
      BY <3>1, <3>2, <3>3
  <2>3. w \in P /\ \A j \in P : w <= j
    <3> HIDE DEF P, w
    <3> QED
      BY <2>1, <2>2, EarliestIs
  <2>4. w \in DOMAIN log /\ w \in Nat /\ Result \in log[w].produced /\ w # None
    BY <1>2, <2>3, NoneApart
  <2>5. log[w].type = "tool.completed"
    <3> SUFFICES ASSUME Answered(log, w, Result)
                 PROVE  FALSE
      BY <1>2, <2>4 DEF Backed
    <3>1. PICK i \in DOMAIN log : /\ i < w /\ log[i].type = "tool.completed"
                                  /\ Result \in log[i].produced \cup log[i].evidence
      BY DEF Answered
    <3>2. log[i].evidence \subseteq Cited
      BY <1>2, <3>1 DEF Backed, CompletionBacked
    <3>3. Result \notin Cited
      BY ReferencesApart DEF Cited
    <3>4. i \in P
      BY <3>1, <3>2, <3>3
    <3>5. i \in Nat
      BY <1>2
    <3> HIDE DEF P, w
    <3> QED
      BY <2>3, <2>4, <3>1, <3>4, <3>5
  <2>6. Owner(log, Result) = w
    BY <2>4 DEF Owner
  <2> HIDE DEF P, w
  <2>7. PICK i \in DOMAIN log :
           /\ log[i].type = "tool.started" /\ SameCall(log[i], log[w]) /\ ToolEnd(log, i) = w
    BY <2>4, <2>5, ToolOf
  <2>8. PICK r \in Requests(log) : r < i /\ SameRequest(log[r], log[i])
    BY <1>3, <2>7, ToolNode
  <2>9. i \in Tools(log)
    BY <1>3, <2>7, ToolNode
  <2>10. log[w] \in owners
    BY <1>11, <2>6
  <2>11. /\ log[w].tool = log[i].tool /\ log[w].tool # None
         /\ log[w].request = log[r].request /\ log[w].step = log[r].step
         /\ log[w].turn = log[r].turn
    <3>1. log[w].tool # None
      BY <1>2, <2>4, <2>5 DEF Backed, ToolTypes
    <3> QED
      BY <2>7, <2>8, <3>1 DEF SameCall, SameRequest, SameStep
  <2>12. i \in ScopedTools(log, proof, r)
    <3>1. ToolMatches(log, proof, i)
      BY <1>5, <2>10, <2>11 DEF ToolMatches
    <3>2. SameRequest(log[i], log[r])
      BY <2>8 DEF SameRequest, SameStep
    <3> QED
      BY <2>9, <3>1, <3>2 DEF ScopedTools
  <2>13. InScope(log, proof, r)
    BY <1>5, <2>10, <2>11, <2>12 DEF InScope
  <2>14. r \in scoped /\ i \in tools
    BY <2>12, <2>13
  <2>15. ASSUME NEW x \in scoped
         PROVE  log[x].turn = log[w].turn
    <3>1. PICK o \in owners : o.turn = log[x].turn
      BY <1>5 DEF InScope
    <3>2. PICK ref \in cited : o = log[Owner(log, ref)]
      OBVIOUS
    <3>3. log[Owner(log, ref)].turn = log[Owner(log, Result)].turn
      BY <1>11, <3>2 DEF OneTurn
    <3> QED
      BY <2>6, <3>1, <3>2, <3>3
  <2>16. turns = {log[w].turn}
    BY <2>14, <2>15, <2>11
  <2>17. Cardinality(turns) = 1
    BY <2>16, FS_Singleton
  <2>18. slice = [turn |-> CHOOSE t \in turns : TRUE, requests |-> scoped, tools |-> tools]
    BY <1>7, <2>17
  <2>19. slice # None
    <3>1. (CHOOSE t \in turns : TRUE) \in Nat \cup {None}
      <4>1. log[w] \in EventRecord
        BY <2>4 DEF TypeOK
      <4>2. log[w].turn \in Nat \cup {None}
        BY <4>1 DEF EventRecord
      <4> QED
        BY <2>16, <4>2
    <3>2. scoped \in SUBSET Nat
      BY <1>2 DEF Requests, At
    <3>3. tools \in SUBSET Nat
      BY <1>2 DEF ScopedTools, Tools, At
    <3> HIDE DEF slice, turns, scoped, tools
    <3>4. slice \in [turn : Nat \cup {None}, requests : SUBSET Nat, tools : SUBSET Nat]
      BY <2>18, <3>1, <3>2, <3>3
    <3> QED
      BY <3>4, NoneApart
  <2>20. slice.tools = tools
    BY <2>18
  <2> QED
    BY <2>7, <2>14, <2>19, <2>20 DEF w
<1> QED
  BY <1>10, <1>11

\* Every event is backed by those before it, from the start on.
THEOREM CiteInvariant == Spec => [](ReplayInv /\ LifeInv /\ CiteInv)
<1>1. Init => ReplayInv /\ LifeInv /\ CiteInv
  BY InitReplay, InitLife, InitCite
<1>2. ReplayInv /\ LifeInv /\ CiteInv /\ [Next]_vars => (ReplayInv /\ LifeInv /\ CiteInv)'
  BY NextReplay, NextLife, NextCite
<1> QED
  BY <1>1, <1>2, PTL DEF Spec

\* The execution a claim is said to rest on is that of what it cites.
THEOREM SlicesExact == Spec => []ClaimSliceExact
<1>1. ReplayInv /\ LifeInv /\ CiteInv => ClaimSliceExact
  BY SliceExact DEF ReplayInv
<1> QED
  BY <1>1, CiteInvariant, PTL

================================================================================
