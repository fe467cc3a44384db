------------------------- MODULE RequestCaptureProofs -------------------------
(***************************************************************************)
(* Proofs, for any number of turns, requests, tools, retries and faults,   *)
(* that acknowledged requests are durable and recorded once and in order,  *)
(* that each is settled exactly once, that every event has its cause, and  *)
(* that the record of an answered turn is complete and right.              *)
(***************************************************************************)
EXTENDS RequestCapture, TLAPS, FiniteSetTheorems, WellFoundedInduction

EventTypes == {"context", "request.started", "response.completed", "response.failed",
               "retry.started", "tool.started", "tool.completed"}
Document       == [turn : Nat, source : Nat \cup {None}]
EventRecord    == [type : EventTypes, turn : Nat, request : Nat \cup {None},
                   tool : Tools \cup {None}, parent : Nat \cup {None}, of : Nat \cup {None}]
TrackedRequest == [index : Nat, sequence : Nat, settled : BOOLEAN]
ToolState      == [tool : Tools \cup {None}, request : Nat, sequence : Nat]
Capture        == [requests : Seq(TrackedRequest), round : Nat \cup {None},
                   tools : SUBSET ToolState]

TypeOK ==
    /\ pi \in {"waiting", "hook", "captured", "provider", "round", "dead"}
    /\ stdin \in BOOLEAN
    /\ called \subseteq Tools /\ running \subseteq Tools
    /\ stdout \in Seq(OutputLine)
    /\ documents \in Seq(Document)
    /\ tools \in 0..MaxTools /\ retries \in 0..MaxRetries /\ faults \in 0..MaxFaults
    /\ turn \in 0..Turns
    /\ source \in Nat \cup {None}
    /\ capture \in Capture
    /\ capture.round \in DOMAIN capture.requests \cup {None}
    /\ \A state \in capture.tools : state.request \in DOMAIN capture.requests
    /\ seen \subseteq Nat /\ acks \subseteq Nat
    /\ log \in Seq(EventRecord)
    /\ line \in OutputLine \cup {None}
    /\ client \in {"between", "prompting", "answered", "failing", "closed"}
    /\ answered \subseteq 0..Turns

-----------------------------------------------------------------------------
(* The strengthenings *)

\* The n-th event is the start of a request.
IsStart(n) == n \in DOMAIN log /\ log[n].type = "request.started"

\* Every acknowledged request is recorded; the requests Pi has made in the
\* turn and the adapter has not looked at come after all that are recorded.
OrderInv ==
    /\ seen = acks
    /\ \A i \in acks : \E n \in DOMAIN log : IsStart(n) /\ log[n].request = i
    /\ \A n \in DOMAIN log : IsStart(n) => log[n].request \in DOMAIN documents
    /\ \A i \in DOMAIN documents : documents[i].turn <= turn
    /\ client = "prompting" =>
         \A i \in DOMAIN documents : documents[i].turn = turn /\ i \notin seen =>
             \A n \in DOMAIN log : IsStart(n) => log[n].request < i
    /\ \A m, n \in DOMAIN log : IsStart(m) /\ IsStart(n) /\ m < n => log[m].request < log[n].request

\* A settlement is of an acknowledged request and the only one of it; the
\* requests without one are those the turn still tracks as unsettled.
SettleInv ==
    /\ \A m, n \in DOMAIN log : log[m].type \in Settlements /\ log[n].type \in Settlements
                                  /\ log[m].request = log[n].request => m = n
    /\ \A n \in DOMAIN log : log[n].type \in Settlements => log[n].request \in acks
    /\ \A k \in DOMAIN capture.requests : capture.requests[k].index \in acks
    /\ \A j, k \in DOMAIN capture.requests :
          capture.requests[j].index = capture.requests[k].index => j = k
    /\ \A k \in Unsettled : \A n \in DOMAIN log :
          log[n].type \in Settlements => log[n].request # capture.requests[k].index
    /\ \A i \in acks : \/ \E n \in DOMAIN log : log[n].type \in Settlements /\ log[n].request = i
                       \/ \E k \in Unsettled : capture.requests[k].index = i
    /\ client \in {"between", "closed"} => capture = NoCapture

\* A context event of turn t.
IsContext(n, t) == n \in DOMAIN log /\ log[n].type = "context" /\ log[n].turn = t

\* What Pi and the adapter hold on to, to be a cause later, is an event of the
\* right kind, request and turn; and nothing happens before the first turn.
HeldInv ==
    /\ turn = 0 => /\ client = "between" /\ ~stdin /\ pi \in {"waiting", "dead"}
                   /\ called = {} /\ running = {}
    /\ turn # 0 => IsContext(source, turn)
    /\ \A i \in DOMAIN documents : IsContext(documents[i].source, documents[i].turn)
    /\ \A k \in DOMAIN capture.requests :
         LET n == capture.requests[k].sequence IN
         /\ n \in DOMAIN log
         /\ log[n].type = "request.started" /\ log[n].turn = turn
         /\ log[n].request = capture.requests[k].index
    /\ \A state \in capture.tools :
         LET n == state.sequence IN
         /\ n \in DOMAIN log
         /\ log[n].type = "tool.started" /\ log[n].turn = turn
         /\ log[n].request = capture.requests[state.request].index
         /\ log[n].tool = state.tool
    /\ client \in {"between", "closed"} => capture = NoCapture

CauseInv ==
    /\ HeldInv
    /\ \A n \in DOMAIN log : log[n].type # "context" => log[n].parent \in DOMAIN log
    /\ CausesHold

-----------------------------------------------------------------------------
(* Ascending order *)

\* Every set of numbers that is not empty has a least number.
LEMMA LeastExists ==
    ASSUME NEW S \in SUBSET Nat, S # {}
    PROVE  \E m \in S : \A n \in S : m <= n
<1>1. \E m \in S : \A n \in S : ~(<<n, m>> \in OpToRel(<, Nat))
  BY WFMin, NatLessThanWellFounded
<1>2. PICK m \in S : \A n \in S : ~(<<n, m>> \in OpToRel(<, Nat))
  BY <1>1
<1>3. \A n \in S : ~(n < m)
  BY <1>2 DEF OpToRel
<1>4. \A n \in S : n \in Nat
  OBVIOUS
<1> QED
  BY <1>3, <1>4

\* Whether every set of n numbers can be put in ascending order.
Orders(S, order) == /\ order \in [1..Cardinality(S) -> S]
                    /\ \A i, j \in 1..Cardinality(S) : i < j => order[i] < order[j]
Orderable(n) == \A S \in SUBSET Nat :
                    IsFiniteSet(S) /\ Cardinality(S) = n => \E order : Orders(S, order)

\* One more number can be put in order, too: the least of them goes first.
LEMMA OneMoreOrderable ==
    ASSUME NEW n \in Nat, n # 0, Orderable(n - 1)
    PROVE  Orderable(n)
<1>1. SUFFICES ASSUME NEW S \in SUBSET Nat, IsFiniteSet(S), Cardinality(S) = n
               PROVE  \E order : Orders(S, order)
  BY DEF Orderable
<1>2. S # {}
  BY <1>1, FS_EmptySet
<1>3. PICK least \in S : \A m \in S : least <= m
  BY <1>2, LeastExists
<1> DEFINE rest == S \ {least}
<1>4. IsFiniteSet(rest) /\ Cardinality(rest) = n - 1
  BY <1>1, <1>3, FS_RemoveElement
<1>5. rest \in SUBSET Nat
  OBVIOUS
<1>6. PICK tail : Orders(rest, tail)
  <2> HIDE DEF rest
  <2> QED
    BY <1>4, <1>5 DEF Orderable
<1> DEFINE order == [i \in 1..n |-> IF i = 1 THEN least ELSE tail[i - 1]]
<1>7. \A i \in 1..n : i # 1 => i - 1 \in 1..(n - 1)
  OBVIOUS
<1>8. \A i \in 1..n : i # 1 => tail[i - 1] \in rest
  BY <1>4, <1>6, <1>7 DEF Orders
<1>9. order \in [1..n -> S]
  BY <1>8
<1>10. ASSUME NEW i \in 1..n, NEW j \in 1..n, i < j PROVE order[i] < order[j]
  <2>1. j # 1 /\ order[j] = tail[j - 1] /\ tail[j - 1] \in rest
    BY <1>8, <1>10
  <2>2. CASE i = 1
    <3>1. least <= tail[j - 1] /\ least # tail[j - 1] /\ tail[j - 1] \in Nat /\ least \in Nat
      BY <1>3, <2>1
    <3>2. order[i] = least
      BY <2>2
    <3> HIDE DEF order, rest
    <3> QED
      BY <2>1, <3>1, <3>2
  <2>3. CASE i # 1
    <3>1. /\ order[i] = tail[i - 1]
          /\ i - 1 \in 1..(n - 1) /\ j - 1 \in 1..(n - 1) /\ i - 1 < j - 1
      BY <1>10, <2>3
    <3>2. tail[i - 1] < tail[j - 1]
      BY <1>4, <1>6, <3>1 DEF Orders
    <3> QED
      BY <2>1, <3>1, <3>2
  <2> QED
    BY <2>2, <2>3
<1>11. Orders(S, order)
  BY <1>1, <1>9, <1>10 DEF Orders
<1> QED
  BY <1>11

\* Every finite set of numbers can be put in ascending order.
LEMMA OrderExists == \A n \in Nat : Orderable(n)
<1>1. SUFFICES ASSUME \E n \in Nat : ~Orderable(n) PROVE FALSE
  OBVIOUS
<1> DEFINE failures == {n \in Nat : ~Orderable(n)}
<1>2. failures \in SUBSET Nat /\ failures # {}
  BY <1>1
<1>3. PICK m \in failures : \A n \in failures : m <= n
  <2> HIDE DEF failures
  <2> QED
    BY <1>2, LeastExists
<1>4. Orderable(0)
  <2>1. SUFFICES ASSUME NEW S \in SUBSET Nat, IsFiniteSet(S), Cardinality(S) = 0
                 PROVE  \E order : Orders(S, order)
    BY DEF Orderable
  <2>2. Orders(S, [i \in 1..0 |-> 0])
    BY <2>1 DEF Orders
  <2> QED
    BY <2>2
<1>5. m # 0 /\ m \in Nat /\ m - 1 \in Nat
  BY <1>3, <1>4
<1>6. Orderable(m - 1)
  BY <1>3, <1>5
<1> QED
  BY <1>3, <1>5, <1>6, OneMoreOrderable

\* Ascending lists every number of a finite set, once, each before the
\* greater ones.
LEMMA AscendingOrder ==
    ASSUME NEW S \in SUBSET Nat, IsFiniteSet(S)
    PROVE  LET order == Ascending(S) IN
           /\ order \in Seq(S)
           /\ \A i, j \in DOMAIN order : i < j => order[i] < order[j]
           /\ \A i, j \in DOMAIN order : order[i] = order[j] => i = j
           /\ ToSet(order) = S
<1> DEFINE order == Ascending(S)
           n == Cardinality(S)
<1>1. n \in Nat
  BY FS_CardinalityType
<1>2. \E o \in [1..n -> S] : \A i, j \in 1..n : i < j => o[i] < o[j]
  <2>1. Orderable(n)
    BY <1>1, OrderExists
  <2> QED
    BY <2>1 DEF Orderable, Orders
<1>3. /\ order \in [1..n -> S]
      /\ \A i, j \in 1..n : i < j => order[i] < order[j]
  BY <1>2 DEF Ascending
<1> HIDE DEF order, n
<1>4. order \in Seq(S)
  <2>1. order = [i \in 1..n |-> order[i]] /\ \A i \in 1..n : order[i] \in S
    BY <1>3
  <2> QED
    BY <1>1, <2>1, <1>3
<1>5. DOMAIN order = 1..n
  BY <1>3
<1>6. \A i, j \in 1..n : order[i] = order[j] => i = j
  <2> SUFFICES ASSUME NEW i \in 1..n, NEW j \in 1..n, order[i] = order[j] PROVE i = j
    OBVIOUS
  <2>1. order[i] \in Nat /\ order[j] \in Nat
    BY <1>3
  <2>2. ~(i < j) /\ ~(j < i)
    BY <1>3, <2>1
  <2> QED
    BY <1>1, <2>2
<1>7. order \in Injection(1..n, S)
  BY <1>3, <1>6 DEF Injection, IsInjective
<1>8. IsFiniteSet(1..n) /\ Cardinality(1..n) = n
  BY <1>1, FS_Interval
<1>9. order \in Surjection(1..n, S)
  BY <1>7, <1>8, FS_Injection DEF n
<1>10. \A x \in S : \E i \in 1..n : order[i] = x
  BY <1>9 DEF Surjection
<1>11. ToSet(order) = S
  BY <1>3, <1>5, <1>10 DEF ToSet
<1> QED
  BY <1>3, <1>4, <1>5, <1>6, <1>11 DEF order

\* The first unsettled request is one of them.
LEMMA FirstUnsettledIs ==
    ASSUME TypeOK, Unsettled # {}
    PROVE  FirstUnsettled \in DOMAIN capture.requests /\ FirstUnsettled \in Unsettled
<1>1. capture.requests \in Seq(TrackedRequest)
  BY DEF TypeOK, Capture
<1>2. Unsettled \in SUBSET Nat
  BY <1>1 DEF Unsettled
<1>3. \E i \in Unsettled : \A j \in Unsettled : i <= j
  BY <1>2, LeastExists
<1>4. FirstUnsettled \in Unsettled
  BY <1>3 DEF FirstUnsettled
<1> QED
  BY <1>4 DEF Unsettled

-----------------------------------------------------------------------------
(* Sequences *)

LEMMA AppendKeeps ==
    ASSUME NEW S, NEW s \in Seq(S), NEW e \in S
    PROVE  /\ Append(s, e) \in Seq(S)
           /\ DOMAIN s = 1..Len(s) /\ Len(s) \in Nat
           /\ DOMAIN Append(s, e) = 1..(Len(s) + 1) /\ Len(Append(s, e)) = Len(s) + 1
           /\ \A i \in DOMAIN s : i \in DOMAIN Append(s, e) /\ Append(s, e)[i] = s[i]
           /\ Append(s, e)[Len(s) + 1] = e
  OBVIOUS

LEMMA ConcatKeeps ==
    ASSUME NEW S, NEW s \in Seq(S), NEW t \in Seq(S)
    PROVE  /\ s \o t \in Seq(S)
           /\ DOMAIN s = 1..Len(s) /\ Len(s) \in Nat
           /\ DOMAIN t = 1..Len(t) /\ Len(t) \in Nat
           /\ Len(s \o t) = Len(s) + Len(t) /\ DOMAIN (s \o t) = 1..(Len(s) + Len(t))
           /\ \A i \in 1..Len(s) : (s \o t)[i] = s[i]
           /\ \A j \in 1..Len(t) : (s \o t)[Len(s) + j] = t[j]
  OBVIOUS

LEMMA ShortSequences ==
    ASSUME NEW S, NEW a \in S, NEW b \in S
    PROVE  /\ <<a>> \in Seq(S)
           /\ <<a, b>> \in Seq(S)
           /\ \A s \in Seq(S) : s \o <<a>> \in Seq(S) /\ s \o <<a, b>> \in Seq(S)
  OBVIOUS

-----------------------------------------------------------------------------
(* Types *)

LEMMA TypeInit == Init => TypeOK
<1> SUFFICES ASSUME Init PROVE TypeOK
  OBVIOUS
<1>1. /\ capture \in Capture /\ capture.round = None /\ capture.tools = {}
  BY DEF Init, NoCapture, Capture
<1>3. called \subseteq Tools /\ running \subseteq Tools
  BY DEF Init
<1>2. /\ tools \in 0..MaxTools /\ retries \in 0..MaxRetries /\ faults \in 0..MaxFaults
      /\ turn \in 0..Turns
  BY CaptureBounds DEF Init
<1>4. /\ stdout \in Seq(OutputLine) /\ documents \in Seq(Document) /\ log \in Seq(EventRecord)
      /\ seen \subseteq Nat /\ acks \subseteq Nat /\ answered \subseteq 0..Turns
  BY DEF Init
<1> QED
  BY <1>1, <1>2, <1>3, <1>4 DEF Init, TypeOK

LEMMA EventFields ==
    \A type, request, tool, parent, of :
        LET e == Event(type, request, tool, parent, of) IN
        /\ e.type = type /\ e.turn = turn /\ e.request = request
        /\ e.tool = tool /\ e.parent = parent /\ e.of = of
  BY DEF Event

\* An event made of parts of the right type is one.
LEMMA EventTyped ==
    ASSUME TypeOK, NEW type \in EventTypes, NEW request \in Nat \cup {None},
           NEW tool \in Tools \cup {None}, NEW parent \in Nat \cup {None},
           NEW of \in Nat \cup {None}
    PROVE  Event(type, request, tool, parent, of) \in EventRecord
<1>1. turn \in Nat
  BY DEF TypeOK
<1> QED
  BY <1>1 DEF Event, EventRecord

\* What Pi writes is a line of its output.
LEMMA LineTyped ==
    ASSUME TypeOK
    PROVE  /\ \A x \in Tools : /\ Line("tool_start", "", x) \in OutputLine
                               /\ Line("tool_end", "", x) \in OutputLine
           /\ Line("response", "failed", None) \in OutputLine
           /\ Line("retry_start", "", None) \in OutputLine
           /\ \A what \in {"toolUse", "stop", "error"} :
                 Line("message_end", what, None) \in OutputLine
           /\ \A what \in {"answer", "empty", "error", "retry"} :
                 Line("agent_end", what, None) \in OutputLine
<1>1. Request \in Nat
  BY DEF Request, TypeOK
<1> QED
  BY <1>1 DEF Line, OutputLine

\* Pi's steps keep the types.
LEMMA TypePi ==
    ASSUME TypeOK, PiStep \/ PiDies
    PROVE  TypeOK'
<1> USE DEF piVars, adapterVars
<1>1. ASSUME stdout' \in Seq(OutputLine), documents' \in Seq(Document),
             pi' \in {"waiting", "hook", "captured", "provider", "round", "dead"},
             stdin' \in BOOLEAN, called' \subseteq Tools, running' \subseteq Tools,
             tools' \in 0..MaxTools, retries' \in 0..MaxRetries
      PROVE  TypeOK'
  <2>1. UNCHANGED <<faults, turn, source, capture, seen, acks, log, line, client, answered>>
    BY DEF PiStep, PiDies
  <2> QED
    BY <1>1, <2>1 DEF TypeOK
<1>2. /\ stdout \in Seq(OutputLine) /\ documents \in Seq(Document)
      /\ pi \in {"waiting", "hook", "captured", "provider", "round", "dead"}
      /\ stdin \in BOOLEAN /\ called \subseteq Tools /\ running \subseteq Tools
      /\ tools \in 0..MaxTools /\ retries \in 0..MaxRetries /\ turn \in Nat
      /\ source \in Nat \cup {None}
  BY DEF TypeOK
<1>3. CASE AcceptPrompt
  BY <1>1, <1>2, <1>3 DEF AcceptPrompt
<1>4. CASE RefusePrompt
  <2>1. stdout' \in Seq(OutputLine)
    BY <1>2, <1>4, LineTyped, ShortSequences DEF RefusePrompt, Emit
  <2> QED
    BY <1>1, <1>2, <1>4, <2>1 DEF RefusePrompt
<1>5. CASE Hook
  BY <1>1, <1>2, <1>5 DEF Hook, Document
<1>6. CASE CallProvider
  BY <1>1, <1>2, <1>6 DEF CallProvider
<1>7. CASE UseTools
  <2>1. PICK last \in tools + 1 .. MaxTools : called' = tools + 1 .. last /\ tools' = last
    BY <1>7 DEF UseTools
  <2>2. called' \subseteq Tools /\ tools' \in 0..MaxTools
    BY <1>2, <2>1, CaptureBounds DEF Tools
  <2>3. stdout' \in Seq(OutputLine)
    BY <1>2, <1>7, LineTyped, ShortSequences DEF UseTools, Emit
  <2> QED
    BY <1>1, <1>2, <1>7, <2>2, <2>3 DEF UseTools
<1>8. CASE Answer
  <2>1. PICK what \in {"answer", "empty"} :
           stdout' = stdout \o <<Line("message_end", "stop", None), Line("agent_end", what, None)>>
    BY <1>8 DEF Answer, Emit
  <2>2. /\ Line("message_end", "stop", None) \in OutputLine
        /\ Line("agent_end", what, None) \in OutputLine
    BY LineTyped
  <2>3. stdout' \in Seq(OutputLine)
    BY <1>2, <2>1, <2>2, ShortSequences
  <2> QED
    BY <1>1, <1>2, <1>8, <2>3 DEF Answer
<1>9. CASE FailAttempt
  <2>1. PICK ended \in {<<>>, <<Line("message_end", "error", None)>>} :
          \/ stdout' = stdout \o
                 (ended \o <<Line("agent_end", "retry", None), Line("retry_start", "", None)>>)
          \/ stdout' = stdout \o (ended \o <<Line("agent_end", "error", None)>>)
    BY <1>9 DEF FailAttempt, Emit
  <2>2. ended \in Seq(OutputLine)
    <3>1. <<>> \in Seq(OutputLine)
      OBVIOUS
    <3>2. Line("message_end", "error", None) \in OutputLine
      BY LineTyped
    <3>3. <<Line("message_end", "error", None)>> \in Seq(OutputLine)
      BY <3>2, ShortSequences
    <3> QED
      BY <2>1, <3>1, <3>3
  <2>3. stdout' \in Seq(OutputLine)
    <3>1. /\ ended \o <<Line("agent_end", "retry", None), Line("retry_start", "", None)>>
               \in Seq(OutputLine)
          /\ ended \o <<Line("agent_end", "error", None)>> \in Seq(OutputLine)
      BY <2>2, LineTyped, ShortSequences
    <3>2. /\ stdout \o (ended \o <<Line("agent_end", "retry", None), Line("retry_start", "", None)>>)
               \in Seq(OutputLine)
          /\ stdout \o (ended \o <<Line("agent_end", "error", None)>>) \in Seq(OutputLine)
      BY <1>2, <3>1, ConcatKeeps
    <3> QED
      BY <2>1, <3>2
  <2>4. retries' \in 0..MaxRetries
    <3>1. retries' = retries \/ (retries < MaxRetries /\ retries' = retries + 1)
      BY <1>9 DEF FailAttempt
    <3> QED
      BY <1>2, <3>1, CaptureBounds
  <2>5. pi' \in {"waiting", "hook"}
    BY <1>9 DEF FailAttempt
  <2> QED
    BY <1>1, <1>2, <1>9, <2>3, <2>4, <2>5 DEF FailAttempt
<1>10. CASE \E x \in Tools : StartTool(x) \/ EndTool(x)
  <2>1. PICK x \in Tools : StartTool(x) \/ EndTool(x)
    BY <1>10
  <2>2. \E l \in OutputLine : stdout' = stdout \o <<l>>
    BY <2>1, LineTyped DEF StartTool, EndTool, Emit
  <2>3. stdout' \in Seq(OutputLine)
    BY <1>2, <2>2, ShortSequences
  <2> QED
    BY <1>1, <1>2, <2>1, <2>3 DEF StartTool, EndTool
<1>11. CASE PiDies
  BY <1>1, <1>2, <1>11 DEF PiDies, Die
<1> QED
  BY <1>3, <1>4, <1>5, <1>6, <1>7, <1>8, <1>9, <1>10, <1>11 DEF PiStep

\* What the adapter looks at are the documents of the turn it has not seen,
\* in the order of the requests.
LEMMA FreshIs ==
    ASSUME TypeOK
    PROVE  /\ Fresh \in Seq(Nat)
           /\ ToSet(Fresh) = InTurn(turn) \ seen
           /\ \A j \in 1..Len(Fresh) : Fresh[j] \in InTurn(turn) \ seen
           /\ \A i, j \in 1..Len(Fresh) : i < j => Fresh[i] < Fresh[j]
           /\ \A i, j \in 1..Len(Fresh) : Fresh[i] = Fresh[j] => i = j
<1> DEFINE S == InTurn(turn) \ seen
<1>1. documents \in Seq(Document) /\ Len(documents) \in Nat
  BY DEF TypeOK
<1>2. S \subseteq 1..Len(documents) /\ S \in SUBSET Nat
  BY <1>1 DEF InTurn
<1>3. IsFiniteSet(S)
  <2>1. IsFiniteSet(1..Len(documents))
    BY <1>1, FS_Interval
  <2> HIDE DEF S
  <2> QED
    BY <1>2, <2>1, FS_Subset
<1> HIDE DEF S
<1>4. /\ Fresh \in Seq(S)
      /\ \A i, j \in DOMAIN Fresh : i < j => Fresh[i] < Fresh[j]
      /\ \A i, j \in DOMAIN Fresh : Fresh[i] = Fresh[j] => i = j
      /\ ToSet(Fresh) = S
  BY <1>2, <1>3, AscendingOrder DEF Fresh, S
<1>5. DOMAIN Fresh = 1..Len(Fresh) /\ \A j \in 1..Len(Fresh) : Fresh[j] \in S
  BY <1>4
<1>6. Fresh \in Seq(Nat)
  <2>1. Len(Fresh) \in Nat /\ Fresh = [j \in 1..Len(Fresh) |-> Fresh[j]]
    BY <1>4
  <2>2. \A j \in 1..Len(Fresh) : Fresh[j] \in Nat
    BY <1>2, <1>5
  <2> HIDE DEF S
  <2> QED
    BY <2>1, <2>2, <1>4
<1> QED
  BY <1>4, <1>5, <1>6 DEF S

\* One look at the documents records a prefix of what is fresh, and tracks
\* and acknowledges a prefix of what it records.
FreshPrefix(order) == /\ order \in Seq(Nat)
                      /\ Len(order) <= Len(Fresh)
                      /\ \A j \in 1..Len(order) : order[j] = Fresh[j]
Looks(kept, recorded) ==
    /\ FreshPrefix(kept) /\ FreshPrefix(recorded)
    /\ Len(kept) <= Len(recorded)
    /\ log' = log \o Started(recorded)
    /\ acks' = acks \cup ToSet(kept)
    /\ seen' = seen \cup ToSet(kept)
    /\ capture' = [capture EXCEPT !.requests = @ \o Tracked(kept)]
    /\ source' = source

LEMMA DrainLooks ==
    ASSUME TypeOK, Drain
    PROVE  Looks(Fresh, Fresh)
BY FreshIs DEF Drain, Looks, FreshPrefix

LEMMA FaultLooks ==
    ASSUME TypeOK, DrainFault
    PROVE  \E kept, recorded \in Seq(Nat) : Looks(kept, recorded)
<1>1. Fresh \in Seq(Nat)
  BY FreshIs
<1>2. PICK n \in 1..Len(Fresh) :
          LET kept == SubSeq(Fresh, 1, n - 1) IN
          /\ \/ log' = log \o Started(kept)
             \/ log' = log \o Started(SubSeq(Fresh, 1, n))
          /\ acks' = acks \cup ToSet(kept)
          /\ seen' = seen \cup ToSet(kept)
          /\ capture' = [capture EXCEPT !.requests = @ \o Tracked(kept)]
  BY DEF DrainFault
<1>3. ASSUME NEW k \in 0..n
      PROVE  FreshPrefix(SubSeq(Fresh, 1, k)) /\ Len(SubSeq(Fresh, 1, k)) = k
  <2>1. k <= Len(Fresh) /\ Len(Fresh) \in Nat /\ k \in Nat
    BY <1>1, <1>2
  <2> QED
    BY <1>1, <2>1 DEF FreshPrefix
<1>4. n - 1 \in 0..n /\ n \in 0..n /\ n - 1 <= n
  BY <1>2
<1>5. source' = source
  BY DEF DrainFault
<1>6. /\ FreshPrefix(SubSeq(Fresh, 1, n - 1)) /\ Len(SubSeq(Fresh, 1, n - 1)) = n - 1
      /\ FreshPrefix(SubSeq(Fresh, 1, n)) /\ Len(SubSeq(Fresh, 1, n)) = n
  BY <1>3, <1>4
<1>7. CASE log' = log \o Started(SubSeq(Fresh, 1, n - 1))
  <2>1. Looks(SubSeq(Fresh, 1, n - 1), SubSeq(Fresh, 1, n - 1))
    BY <1>2, <1>4, <1>5, <1>6, <1>7 DEF Looks
  <2> QED
    BY <1>6, <2>1 DEF FreshPrefix
<1>8. CASE log' = log \o Started(SubSeq(Fresh, 1, n))
  <2>1. Looks(SubSeq(Fresh, 1, n - 1), SubSeq(Fresh, 1, n))
    BY <1>2, <1>4, <1>5, <1>6, <1>8 DEF Looks
  <2> QED
    BY <1>6, <2>1 DEF FreshPrefix
<1> QED
  BY <1>2, <1>7, <1>8

\* Recording requests: an event of each, after what the log has, and the
\* first of them tracked with the place of its event.
LEMMA LooksEffect ==
    ASSUME TypeOK, NEW kept, NEW recorded, Looks(kept, recorded)
    PROVE  /\ log' \in Seq(EventRecord)
           /\ Len(log) \in Nat /\ Len(recorded) \in Nat /\ Len(kept) \in Nat
           /\ DOMAIN log = 1..Len(log)
           /\ DOMAIN log' = 1..(Len(log) + Len(recorded))
           /\ \A i \in 1..Len(log) : log'[i] = log[i]
           /\ \A j \in 1..Len(recorded) :
                 log'[Len(log) + j] = Event("request.started", Fresh[j], None,
                                            documents[Fresh[j]].source, Fresh[j])
           /\ capture' \in Capture
           /\ capture'.round = capture.round /\ capture'.tools = capture.tools
           /\ DOMAIN capture.requests = 1..Len(capture.requests) /\ Len(capture.requests) \in Nat
           /\ DOMAIN capture'.requests = 1..(Len(capture.requests) + Len(kept))
           /\ \A k \in 1..Len(capture.requests) : capture'.requests[k] = capture.requests[k]
           /\ \A j \in 1..Len(kept) :
                 capture'.requests[Len(capture.requests) + j]
                     = [index |-> Fresh[j], sequence |-> Len(log) + j, settled |-> FALSE]
<1>1. /\ log \in Seq(EventRecord) /\ capture \in Capture /\ capture.requests \in Seq(TrackedRequest)
      /\ documents \in Seq(Document) /\ turn \in Nat
  BY DEF TypeOK, Capture
<1>2. /\ kept \in Seq(Nat) /\ recorded \in Seq(Nat)
      /\ Len(kept) \in Nat /\ Len(recorded) \in Nat /\ Len(recorded) <= Len(Fresh)
      /\ Len(kept) <= Len(recorded)
      /\ DOMAIN kept = 1..Len(kept) /\ DOMAIN recorded = 1..Len(recorded)
      /\ \A j \in 1..Len(kept) : kept[j] = Fresh[j]
      /\ \A j \in 1..Len(recorded) : recorded[j] = Fresh[j]
  BY DEF Looks, FreshPrefix
<1>3. Len(Fresh) \in Nat /\ \A j \in 1..Len(Fresh) : Fresh[j] \in InTurn(turn) \ seen
  BY FreshIs
<1>4. \A j \in 1..Len(recorded) : j \in 1..Len(Fresh)
  BY <1>2, <1>3
<1>5. \A j \in 1..Len(recorded) : /\ Fresh[j] \in Nat
                                  /\ documents[Fresh[j]].source \in Nat \cup {None}
  <2> SUFFICES ASSUME NEW j \in 1..Len(recorded)
               PROVE  Fresh[j] \in Nat /\ documents[Fresh[j]].source \in Nat \cup {None}
    OBVIOUS
  <2>1. Fresh[j] \in DOMAIN documents
    BY <1>3, <1>4 DEF InTurn
  <2>2. documents[Fresh[j]] \in Document /\ Fresh[j] \in Nat
    BY <1>1, <2>1
  <2> QED
    BY <2>2 DEF Document
<1> DEFINE new == Started(recorded)
<1>6. /\ new \in Seq(EventRecord) /\ Len(new) = Len(recorded)
      /\ \A j \in 1..Len(recorded) : new[j] = Event("request.started", Fresh[j], None,
                                                    documents[Fresh[j]].source, Fresh[j])
  <2>1. new = [j \in 1..Len(recorded) |-> Event("request.started", recorded[j], None,
                                                documents[recorded[j]].source, recorded[j])]
    BY <1>2 DEF Started
  <2>2. \A j \in 1..Len(recorded) :
           Event("request.started", recorded[j], None, documents[recorded[j]].source, recorded[j])
               \in EventRecord
    BY <1>1, <1>2, <1>5 DEF Event, EventRecord, EventTypes
  <2> QED
    BY <1>2, <2>1, <2>2
<1>7. log' = log \o new
  BY DEF Looks
<1> HIDE DEF new
<1>8. /\ log' \in Seq(EventRecord)
      /\ Len(log) \in Nat
      /\ DOMAIN log = 1..Len(log)
      /\ DOMAIN log' = 1..(Len(log) + Len(recorded))
      /\ \A i \in 1..Len(log) : log'[i] = log[i]
      /\ \A j \in 1..Len(recorded) : log'[Len(log) + j] = new[j]
  <2>1. /\ log \o new \in Seq(EventRecord)
        /\ DOMAIN log = 1..Len(log) /\ Len(log) \in Nat
        /\ DOMAIN (log \o new) = 1..(Len(log) + Len(new))
        /\ \A i \in 1..Len(log) : (log \o new)[i] = log[i]
        /\ \A j \in 1..Len(new) : (log \o new)[Len(log) + j] = new[j]
    <3>1. log \in Seq(EventRecord) /\ new \in Seq(EventRecord)
      BY <1>1, <1>6
    <3> QED
      BY <3>1, ConcatKeeps
  <2> QED
    BY <1>6, <1>7, <2>1
<1> DEFINE more == Tracked(kept)
<1>9. /\ more \in Seq(TrackedRequest) /\ Len(more) = Len(kept)
      /\ \A j \in 1..Len(kept) :
            more[j] = [index |-> Fresh[j], sequence |-> Len(log) + j, settled |-> FALSE]
  <2>1. more = [j \in 1..Len(kept) |->
                   [index |-> kept[j], sequence |-> Len(log) + j, settled |-> FALSE]]
    BY <1>2 DEF Tracked
  <2>2. \A j \in 1..Len(kept) :
           [index |-> kept[j], sequence |-> Len(log) + j, settled |-> FALSE] \in TrackedRequest
    BY <1>2, <1>8 DEF TrackedRequest
  <2>3. \A j \in 1..Len(kept) :
           more[j] = [index |-> Fresh[j], sequence |-> Len(log) + j, settled |-> FALSE]
    BY <1>2, <2>1
  <2>4. Len(more) = Len(kept)
    BY <1>2, <2>1
  <2>5. more \in [1..Len(kept) -> TrackedRequest]
    BY <2>1, <2>2
  <2> HIDE DEF more
  <2>6. more \in Seq(TrackedRequest)
    <3>1. Len(kept) \in Nat
      BY <1>2
    <3> QED
      BY <3>1, <2>5
  <2> QED
    BY <2>3, <2>4, <2>6
<1>10. capture' = [capture EXCEPT !.requests = @ \o more]
  BY DEF Looks
<1> HIDE DEF more
<1>11. /\ capture'.requests = capture.requests \o more
       /\ capture'.round = capture.round /\ capture'.tools = capture.tools
       /\ capture' = [requests |-> capture'.requests, round |-> capture.round,
                      tools |-> capture.tools]
  BY <1>1, <1>10 DEF Capture
<1>12. /\ capture'.requests \in Seq(TrackedRequest)
       /\ DOMAIN capture.requests = 1..Len(capture.requests) /\ Len(capture.requests) \in Nat
       /\ DOMAIN capture'.requests = 1..(Len(capture.requests) + Len(kept))
       /\ \A k \in 1..Len(capture.requests) : capture'.requests[k] = capture.requests[k]
       /\ \A j \in 1..Len(kept) : capture'.requests[Len(capture.requests) + j] = more[j]
  <2> DEFINE old == capture.requests
  <2>1. /\ old \o more \in Seq(TrackedRequest)
        /\ DOMAIN old = 1..Len(old) /\ Len(old) \in Nat
        /\ DOMAIN (old \o more) = 1..(Len(old) + Len(more))
        /\ \A k \in 1..Len(old) : (old \o more)[k] = old[k]
        /\ \A j \in 1..Len(more) : (old \o more)[Len(old) + j] = more[j]
    <3>1. old \in Seq(TrackedRequest) /\ more \in Seq(TrackedRequest)
      BY <1>1, <1>9
    <3> HIDE DEF old
    <3> QED
      BY <3>1, ConcatKeeps
  <2> QED
    BY <1>9, <1>11, <2>1
<1>13. capture' \in Capture
  BY <1>1, <1>11, <1>12 DEF Capture
<1> QED
  BY <1>2, <1>6, <1>8, <1>9, <1>11, <1>12, <1>13

\* The steps that look at the documents.
LookStep == Poll \/ TakeLine \/ CaptureFault

LEMMA LookLooks ==
    ASSUME TypeOK, LookStep
    PROVE  /\ \E kept, recorded : Looks(kept, recorded)
           /\ client = "prompting" /\ client' \in {"prompting", "failing"}
           /\ client' = "prompting" => Looks(Fresh, Fresh)
           /\ UNCHANGED <<pi, stdin, called, running, documents, tools, retries, turn, answered>>
<1>1. CASE Poll \/ TakeLine
  <2>1. Looks(Fresh, Fresh)
    BY <1>1, DrainLooks DEF Poll, TakeLine
  <2> QED
    BY <1>1, <2>1 DEF Poll, TakeLine, piVars
<1>2. CASE CaptureFault
  BY <1>2, FaultLooks DEF CaptureFault, piVars
<1> QED
  BY <1>1, <1>2 DEF LookStep

LEMMA TypeLook ==
    ASSUME TypeOK, LookStep
    PROVE  TypeOK'
<1>1. PICK kept, recorded : Looks(kept, recorded)
  BY LookLooks
<1>2. /\ log' \in Seq(EventRecord) /\ capture' \in Capture
      /\ capture'.round = capture.round /\ capture'.tools = capture.tools
      /\ DOMAIN capture.requests \subseteq DOMAIN capture'.requests
  BY <1>1, LooksEffect
<1>3. acks' \subseteq Nat /\ seen' \subseteq Nat /\ source' \in Nat \cup {None}
  <2>1. ToSet(kept) \subseteq Nat
    BY <1>1 DEF Looks, FreshPrefix, ToSet
  <2> QED
    BY <1>1, <2>1 DEF Looks, TypeOK
<1>4. line' \in OutputLine \cup {None} /\ stdout' \in Seq(OutputLine)
  <2>1. \/ line' = line /\ stdout' = stdout
        \/ stdout # <<>> /\ line' = Head(stdout) /\ stdout' = Tail(stdout)
    BY DEF LookStep, Poll, TakeLine, CaptureFault, piVars
  <2>2. stdout \in Seq(OutputLine) /\ line \in OutputLine \cup {None}
    BY DEF TypeOK
  <2>3. stdout # <<>> => Head(stdout) \in OutputLine /\ Tail(stdout) \in Seq(OutputLine)
    BY <2>2
  <2> QED
    BY <2>1, <2>2, <2>3
<1>5. faults' \in 0..MaxFaults
  <2>1. faults' = faults \/ (faults < MaxFaults /\ faults' = faults + 1)
    BY DEF LookStep, Poll, TakeLine, CaptureFault, Drain, DrainFault
  <2> QED
    BY <2>1, CaptureBounds DEF TypeOK
<1> QED
  BY <1>2, <1>3, <1>4, <1>5, LookLooks DEF TypeOK

\* The client's line is one of Pi's.
LEMMA HandledLine ==
    ASSUME TypeOK, line # None
    PROVE  line \in OutputLine /\ line.of \in Nat /\ line.tool \in Tools \cup {None}
BY DEF TypeOK, OutputLine

\* A response or a failure settles the first unsettled request.
LEMMA SettleEffect ==
    ASSUME TypeOK, line # None, CompleteResponse \/ FailResponse
    PROVE  \E type \in Settlements :
             LET i == FirstUnsettled
                 e == Event(type, capture.requests[i].index, None, capture.requests[i].sequence,
                            line.of)
             IN  /\ i \in Unsettled /\ i \in DOMAIN capture.requests
                 /\ e \in EventRecord
                 /\ log' = Append(log, e)
                 /\ capture' \in Capture
                 /\ DOMAIN capture'.requests = DOMAIN capture.requests
                 /\ \A k \in DOMAIN capture.requests :
                       /\ capture'.requests[k].index = capture.requests[k].index
                       /\ capture'.requests[k].sequence = capture.requests[k].sequence
                       /\ capture'.requests[k].settled <=> capture.requests[k].settled \/ k = i
                 /\ capture'.tools = capture.tools
                 /\ capture'.round \in {capture.round, i, None}
                 /\ source' = source
<1> DEFINE i == FirstUnsettled
<1>1. /\ capture \in Capture /\ capture.requests \in Seq(TrackedRequest)
      /\ capture.round \in Nat \cup {None} /\ turn \in Nat
  BY DEF TypeOK, Capture
<1>2. Unsettled # {}
  BY DEF CompleteResponse, FailResponse
<1>3. i \in Unsettled /\ i \in DOMAIN capture.requests /\ i \in Nat
  BY <1>1, <1>2, FirstUnsettledIs
<1>4. capture.requests[i] \in TrackedRequest
  BY <1>1, <1>3
<1>5. /\ capture.requests[i].index \in Nat
      /\ capture.requests[i].sequence \in Nat
      /\ capture.requests[i] = [index |-> capture.requests[i].index,
                                sequence |-> capture.requests[i].sequence,
                                settled |-> capture.requests[i].settled]
  BY <1>4 DEF TrackedRequest
<1>6. PICK type \in Settlements, round \in {capture.round, i, None} :
          /\ log' = Append(log, Event(type, capture.requests[i].index, None,
                                      capture.requests[i].sequence, line.of))
          /\ capture' = [Settle EXCEPT !.round = round]
          /\ source' = source
  <2>1. CASE CompleteResponse
    BY <2>1 DEF CompleteResponse, Record, Settlements, Settle
  <2>2. CASE FailResponse
    BY <2>2 DEF FailResponse, Record, Settlements
  <2> QED
    BY <2>1, <2>2
<1>7. Event(type, capture.requests[i].index, None, capture.requests[i].sequence, line.of)
          \in EventRecord
  BY <1>1, <1>5, HandledLine DEF Event, EventRecord, EventTypes, Settlements
<1> DEFINE old == capture.requests
           new == [old EXCEPT ![i].settled = TRUE]
<1>8. /\ new \in Seq(TrackedRequest)
      /\ DOMAIN new = DOMAIN old
      /\ \A k \in DOMAIN old : /\ new[k].index = old[k].index
                               /\ new[k].sequence = old[k].sequence
                               /\ new[k].settled <=> old[k].settled \/ k = i
  <2> HIDE DEF i
  <2>1. DOMAIN new = DOMAIN old
    OBVIOUS
  <2>2. \A k \in DOMAIN old : k # i => new[k] = old[k]
    OBVIOUS
  <2>3. new[i] = [old[i] EXCEPT !.settled = TRUE]
    BY <1>3
  <2>4. /\ new[i].index = old[i].index
        /\ new[i].sequence = old[i].sequence
        /\ new[i].settled
        /\ new[i] \in TrackedRequest
    BY <1>5, <2>3 DEF TrackedRequest
  <2>5. \A k \in DOMAIN old : new[k] \in TrackedRequest
    BY <1>1, <2>2, <2>4
  <2>6. new \in Seq(TrackedRequest)
    BY <1>1, <1>3, <2>4
  <2> HIDE DEF new, old
  <2> QED
    BY <2>1, <2>2, <2>4, <2>6
<1>9. /\ capture'.requests = new /\ capture'.round = round /\ capture'.tools = capture.tools
      /\ capture' = [requests |-> new, round |-> round, tools |-> capture.tools]
  BY <1>1, <1>6 DEF Settle, Capture
<1>10. capture.tools \in SUBSET ToolState /\ round \in Nat \cup {None}
  BY <1>1, <1>3 DEF Capture
<1>11. capture' \in Capture
  <2> HIDE DEF new
  <2> QED
    BY <1>8, <1>9, <1>10 DEF Capture
<1> HIDE DEF new
<1> QED
  BY <1>3, <1>6, <1>7, <1>8, <1>9, <1>11

\* A request that is tracked.
LEMMA TrackedTyped ==
    ASSUME TypeOK, NEW i \in DOMAIN capture.requests
    PROVE  capture.requests[i].index \in Nat /\ capture.requests[i].sequence \in Nat
<1>1. capture.requests[i] \in TrackedRequest
  BY DEF TypeOK, Capture
<1> QED
  BY <1>1 DEF TrackedRequest

LEMMA CurrentIs ==
    ASSUME TypeOK, Current # 0
    PROVE  Current \in DOMAIN capture.requests
BY DEF TypeOK, Capture, Current

LEMMA RetryTyped ==
    ASSUME TypeOK, line # None, Current # 0
    PROVE  Event("retry.started", capture.requests[Current].index, None,
                 capture.requests[Current].sequence, line.of) \in EventRecord
<1>1. Current \in DOMAIN capture.requests
  BY CurrentIs
<1>2. /\ capture.requests[Current].index \in Nat
      /\ capture.requests[Current].sequence \in Nat
  BY <1>1, TrackedTyped
<1>3. line.of \in Nat /\ "retry.started" \in EventTypes
  BY HandledLine DEF EventTypes
<1> QED
  BY <1>2, <1>3, EventTyped

\* A tool starts under the request of the round, or the current one.
LEMMA ToolStartEffect ==
    ASSUME TypeOK, line # None, RecordToolStart
    PROVE  LET r == ToolRequest
               e == Event("tool.started", capture.requests[r].index, line.tool,
                          capture.requests[r].sequence, line.of)
               state == [tool |-> line.tool, request |-> r, sequence |-> Len(log) + 1]
           IN  /\ r \in DOMAIN capture.requests
               /\ e \in EventRecord
               /\ log' = Append(log, e)
               /\ capture' \in Capture
               /\ capture'.requests = capture.requests
               /\ capture'.round = capture.round
               /\ capture'.tools = capture.tools \cup {state}
               /\ source' = source
<1> DEFINE r == ToolRequest
           state == [tool |-> line.tool, request |-> r, sequence |-> Len(log) + 1]
<1>1. r \in DOMAIN capture.requests /\ r \in Nat
  <2>1. ToolRequest # 0
    BY DEF RecordToolStart
  <2>2. ToolRequest \in DOMAIN capture.requests
    BY <2>1, CurrentIs DEF TypeOK, ToolRequest
  <2> QED
    BY <2>2 DEF TypeOK, Capture
<1>2. Event("tool.started", capture.requests[r].index, line.tool,
            capture.requests[r].sequence, line.of) \in EventRecord
  <2>1. capture.requests[r].index \in Nat /\ capture.requests[r].sequence \in Nat
    BY <1>1, TrackedTyped
  <2>2. line.of \in Nat /\ line.tool \in Tools \cup {None} /\ "tool.started" \in EventTypes
    BY HandledLine DEF EventTypes
  <2> QED
    BY <2>1, <2>2, EventTyped
<1>3. state \in ToolState
  BY <1>1, HandledLine DEF TypeOK, ToolState
<1> HIDE DEF r
<1>4. capture' = [capture EXCEPT !.tools = @ \cup {state}]
  BY DEF RecordToolStart, r
<1>5. /\ log' = Append(log, Event("tool.started", capture.requests[r].index, line.tool,
                                  capture.requests[r].sequence, line.of))
      /\ source' = source
  BY DEF RecordToolStart, Record, r
<1> HIDE DEF state
<1>6. /\ capture'.requests = capture.requests
      /\ capture'.round = capture.round
      /\ capture'.tools = capture.tools \cup {state}
      /\ capture' \in Capture
  BY <1>3, <1>4 DEF TypeOK, Capture
<1> QED
  BY <1>1, <1>2, <1>5, <1>6 DEF r, state

\* A tool ends: its completion, and the context event of the projection.
LEMMA ToolEndEffect ==
    ASSUME TypeOK, line # None, NEW state \in capture.tools, CompleteTool(state)
    PROVE  LET e == Event("tool.completed", capture.requests[state.request].index, line.tool,
                          state.sequence, line.of)
               c == Event("context", None, None, None, None)
           IN  /\ state.request \in DOMAIN capture.requests
               /\ e \in EventRecord /\ c \in EventRecord
               /\ log' = log \o <<e, c>>
               /\ log' \in Seq(EventRecord)
               /\ capture' \in Capture
               /\ capture'.requests = capture.requests
               /\ capture'.round \in {capture.round, None}
               /\ capture'.tools \subseteq capture.tools
               /\ source' = Len(log) + 2
<1>1. state.request \in DOMAIN capture.requests /\ state.sequence \in Nat
  BY DEF TypeOK, Capture, ToolState
<1>2. /\ Event("tool.completed", capture.requests[state.request].index, line.tool,
               state.sequence, line.of) \in EventRecord
      /\ Event("context", None, None, None, None) \in EventRecord
  <2>1. capture.requests[state.request].index \in Nat
    BY <1>1, TrackedTyped
  <2>2. /\ line.of \in Nat /\ line.tool \in Tools \cup {None}
        /\ {"tool.completed", "context"} \subseteq EventTypes
    BY HandledLine DEF EventTypes
  <2> QED
    BY <1>1, <2>1, <2>2, EventTyped
<1> DEFINE round == IF capture.tools = {state} THEN None ELSE capture.round
<1>3. capture' = [capture EXCEPT !.tools = @ \ {state}, !.round = round]
  BY DEF CompleteTool
<1>4. round \in {capture.round, None} /\ round \in Nat \cup {None}
  BY DEF TypeOK, Capture
<1> HIDE DEF round
<1>5. /\ capture'.requests = capture.requests
      /\ capture'.round = round
      /\ capture'.tools = capture.tools \ {state}
      /\ capture' \in Capture
  BY <1>3, <1>4 DEF TypeOK, Capture
<1>6. /\ log' = log \o <<Event("tool.completed", capture.requests[state.request].index, line.tool,
                               state.sequence, line.of),
                         Event("context", None, None, None, None)>>
      /\ source' = Len(log) + 2
  BY DEF CompleteTool
<1>7. log' \in Seq(EventRecord)
  BY <1>2, <1>6, ShortSequences DEF TypeOK
<1> QED
  BY <1>1, <1>2, <1>4, <1>5, <1>6, <1>7

\* The end of a turn fails each unsettled request, once.
LEMMA InterruptedIs ==
    ASSUME TypeOK
    PROVE  /\ Interrupted \in Seq(EventRecord)
           /\ \E open \in Seq(Nat) :
                 /\ Len(open) = Len(Interrupted)
                 /\ \A j \in 1..Len(open) :
                       /\ open[j] \in Unsettled /\ open[j] \in DOMAIN capture.requests
                       /\ Interrupted[j] = Event("response.failed",
                              capture.requests[open[j]].index, None,
                              capture.requests[open[j]].sequence,
                              capture.requests[open[j]].index)
                 /\ \A i, j \in 1..Len(open) : open[i] = open[j] => i = j
                 /\ \A k \in Unsettled : \E j \in 1..Len(open) : open[j] = k
<1> DEFINE open == Ascending(Unsettled)
<1>1. capture.requests \in Seq(TrackedRequest) /\ Len(capture.requests) \in Nat /\ turn \in Nat
  BY DEF TypeOK, Capture
<1>2. Unsettled \subseteq 1..Len(capture.requests) /\ Unsettled \in SUBSET Nat
  BY <1>1 DEF Unsettled
<1>3. IsFiniteSet(Unsettled)
  <2>1. IsFiniteSet(1..Len(capture.requests))
    BY <1>1, FS_Interval
  <2> QED
    BY <1>2, <2>1, FS_Subset
<1>4. /\ open \in Seq(Unsettled)
      /\ \A i, j \in DOMAIN open : open[i] = open[j] => i = j
      /\ ToSet(open) = Unsettled
  BY <1>2, <1>3, AscendingOrder
<1>5. Interrupted = [j \in DOMAIN open |->
            Event("response.failed", capture.requests[open[j]].index, None,
                  capture.requests[open[j]].sequence, capture.requests[open[j]].index)]
  BY DEF Interrupted
<1> HIDE DEF open
<1>6. /\ Len(open) \in Nat /\ DOMAIN open = 1..Len(open)
      /\ \A j \in 1..Len(open) : open[j] \in Unsettled
  BY <1>4
<1>7. \A k \in Unsettled : \E j \in 1..Len(open) : open[j] = k
  BY <1>4, <1>6 DEF ToSet
<1>8. open \in Seq(Nat)
  <2>1. open = [j \in 1..Len(open) |-> open[j]]
    BY <1>4
  <2> QED
    BY <1>2, <1>4, <1>6, <2>1
<1>9. \A j \in 1..Len(open) : open[j] \in DOMAIN capture.requests
  BY <1>6 DEF Unsettled
<1>10. \A j \in 1..Len(open) :
          Event("response.failed", capture.requests[open[j]].index, None,
                capture.requests[open[j]].sequence, capture.requests[open[j]].index)
              \in EventRecord
  BY <1>1, <1>9, TrackedTyped DEF Event, EventRecord, EventTypes
<1>11. Interrupted \in Seq(EventRecord) /\ Len(Interrupted) = Len(open)
  BY <1>5, <1>6, <1>10
<1> QED
  BY <1>4, <1>5, <1>6, <1>7, <1>8, <1>9, <1>11

LEMMA TypeHandle ==
    ASSUME TypeOK, HandleLine
    PROVE  TypeOK'
<1>1. line # None /\ Handle
  BY DEF HandleLine
<1>2. /\ UNCHANGED <<piVars, seen, acks, faults, turn, answered>>
      /\ line' = None
      /\ client' \in {"between", "prompting", "answered", "failing", "closed"}
  BY DEF HandleLine, TypeOK
<1>3. SUFFICES /\ log' \in Seq(EventRecord)
               /\ capture' \in Capture
               /\ capture'.round \in DOMAIN capture'.requests \cup {None}
               /\ \A state \in capture'.tools : state.request \in DOMAIN capture'.requests
               /\ source' \in Nat \cup {None}
  BY <1>2 DEF TypeOK, piVars
<1>4. log \in Seq(EventRecord) /\ Len(log) \in Nat
  BY DEF TypeOK
<1>5. CASE CompleteResponse \/ FailResponse
  <2>1. PICK type \in Settlements :
             LET i == FirstUnsettled
                 e == Event(type, capture.requests[i].index, None, capture.requests[i].sequence,
                            line.of)
             IN  /\ i \in DOMAIN capture.requests
                 /\ e \in EventRecord
                 /\ log' = Append(log, e)
                 /\ capture' \in Capture
                 /\ DOMAIN capture'.requests = DOMAIN capture.requests
                 /\ capture'.tools = capture.tools
                 /\ capture'.round \in {capture.round, i, None}
                 /\ source' = source
    BY <1>1, <1>5, SettleEffect
  <2> QED
    BY <1>4, <2>1, AppendKeeps DEF TypeOK
<1>6. CASE UNCHANGED <<log, capture, source>>
  BY <1>6 DEF TypeOK
<1>7. CASE StartRetry
  <2>1. Current \in DOMAIN capture.requests
    BY <1>7, CurrentIs DEF StartRetry
  <2>2. Event("retry.started", capture.requests[Current].index, None,
              capture.requests[Current].sequence, line.of) \in EventRecord
    BY <1>1, <1>7, RetryTyped DEF StartRetry
  <2>3. log' \in Seq(EventRecord)
    BY <1>4, <1>7, <2>2, AppendKeeps DEF StartRetry, Record
  <2> QED
    BY <1>7, <2>3 DEF StartRetry, TypeOK
<1>8. CASE RecordToolStart
  <2>1. /\ ToolRequest \in DOMAIN capture.requests
        /\ \E e \in EventRecord : log' = Append(log, e)
        /\ capture' \in Capture
        /\ capture'.requests = capture.requests
        /\ capture'.round = capture.round
        /\ \A state \in capture'.tools : state \in capture.tools \/ state.request = ToolRequest
        /\ source' = source
    BY <1>1, <1>8, ToolStartEffect
  <2> QED
    BY <1>4, <2>1, AppendKeeps DEF TypeOK
<1>9. CASE RecordToolCompletion
  <2>1. PICK state \in capture.tools : CompleteTool(state)
    BY <1>9 DEF RecordToolCompletion
  <2>2. /\ log' \in Seq(EventRecord)
        /\ capture' \in Capture
        /\ capture'.requests = capture.requests
        /\ capture'.round \in {capture.round, None}
        /\ capture'.tools \subseteq capture.tools
        /\ source' = Len(log) + 2
    BY <1>1, <2>1, ToolEndEffect
  <2> QED
    BY <1>4, <2>2 DEF TypeOK
<1> QED
  BY <1>1, <1>5, <1>6, <1>7, <1>8, <1>9 DEF Handle, EndAgent

LEMMA TypeTurn ==
    ASSUME TypeOK, BeginTurn \/ EndTurn \/ RefuseLine \/ Eof
    PROVE  TypeOK'
<1>1. CASE BeginTurn
  <2>1. turn' \in 0..Turns
    BY <1>1, CaptureBounds DEF BeginTurn, TypeOK
  <2>2. [Event("context", None, None, None, None) EXCEPT !.turn = turn'] \in EventRecord
    BY <2>1, CaptureBounds DEF TypeOK, Event, EventRecord, EventTypes
  <2>3. log' \in Seq(EventRecord) /\ Len(log') \in Nat
    BY <1>1, <2>2, AppendKeeps DEF BeginTurn, TypeOK
  <2> QED
    BY <1>1, <2>1, <2>3 DEF BeginTurn, TypeOK
<1>2. CASE EndTurn
  <2>1. log' \in Seq(EventRecord)
    BY <1>2, InterruptedIs, ConcatKeeps DEF EndTurn, TypeOK
  <2>2. capture' \in Capture /\ capture'.round = None /\ capture'.tools = {}
    BY <1>2 DEF EndTurn, NoCapture, Capture
  <2> QED
    BY <1>2, <2>1, <2>2, CaptureBounds DEF EndTurn, TypeOK
<1>3. CASE RefuseLine
  BY <1>3 DEF RefuseLine, TypeOK, piVars, adapterVars
<1>4. CASE Eof
  BY <1>4 DEF Eof, TypeOK, piVars, adapterVars
<1> QED
  BY <1>1, <1>2, <1>3, <1>4

LEMMA TypeStep ==
    ASSUME TypeOK, [Next]_vars
    PROVE  TypeOK'
<1>1. CASE UNCHANGED vars
  BY <1>1 DEF TypeOK, vars, piVars, adapterVars
<1>2. CASE PiStep \/ PiDies
  BY <1>2, TypePi
<1>3. CASE ClientStep
  BY <1>3, TypeLook, TypeHandle, TypeTurn DEF ClientStep, LookStep
<1> QED
  BY <1>1, <1>2, <1>3 DEF Next

\* What Pi writes, what the adapter keeps and what it records always has the
\* shape the code relies on, and every bound is kept.
THEOREM CaptureTypeCorrect == Spec => []TypeOK
<1>1. Init => TypeOK
  BY TypeInit
<1>2. TypeOK /\ [Next]_vars => TypeOK'
  BY TypeStep
<1> QED
  BY <1>1, <1>2, PTL DEF Spec

-----------------------------------------------------------------------------
(* Requests are recorded in the order they are made *)

\* The log keeps what it has.
LogGrows == /\ DOMAIN log \subseteq DOMAIN log'
            /\ \A n \in DOMAIN log : log'[n] = log[n]

LEMMA AppendAdds ==
    ASSUME TypeOK, NEW e \in EventRecord, log' = Append(log, e)
    PROVE  /\ LogGrows
           /\ Len(log) + 1 \in DOMAIN log' /\ Len(log) + 1 \notin DOMAIN log
           /\ \A n \in DOMAIN log : n < Len(log) + 1
           /\ log'[Len(log) + 1] = e
           /\ \A n \in DOMAIN log' : n \notin DOMAIN log => n = Len(log) + 1
<1>1. log \in Seq(EventRecord) /\ DOMAIN log = 1..Len(log) /\ Len(log) \in Nat
  BY DEF TypeOK
<1>2. /\ DOMAIN log' = 1..(Len(log) + 1)
      /\ \A n \in DOMAIN log : log'[n] = log[n]
      /\ log'[Len(log) + 1] = e
  BY <1>1, AppendKeeps
<1> QED
  BY <1>1, <1>2 DEF LogGrows

LEMMA ConcatAdds ==
    ASSUME TypeOK, NEW more \in Seq(EventRecord), log' = log \o more
    PROVE  /\ LogGrows
           /\ \A j \in 1..Len(more) : /\ Len(log) + j \in DOMAIN log'
                                      /\ Len(log) + j \notin DOMAIN log
                                      /\ log'[Len(log) + j] = more[j]
           /\ \A n \in DOMAIN log' : n \notin DOMAIN log =>
                 \E j \in 1..Len(more) : n = Len(log) + j
<1>1. log \in Seq(EventRecord) /\ DOMAIN log = 1..Len(log) /\ Len(log) \in Nat
  BY DEF TypeOK
<1>2. /\ DOMAIN log' = 1..(Len(log) + Len(more)) /\ Len(more) \in Nat
      /\ \A n \in DOMAIN log : log'[n] = log[n]
      /\ \A j \in 1..Len(more) : log'[Len(log) + j] = more[j]
  BY <1>1, ConcatKeeps
<1>3. \A n \in DOMAIN log' : n \notin DOMAIN log =>
         n - Len(log) \in 1..Len(more) /\ n = Len(log) + (n - Len(log))
  BY <1>1, <1>2
<1>4. LogGrows
  BY <1>1, <1>2 DEF LogGrows
<1> QED
  BY <1>1, <1>2, <1>3, <1>4

\* A line settles a request, or adds no start and no settlement and leaves the
\* tracked requests alone.
OtherTypes == {"retry.started", "tool.started", "tool.completed", "context"}
HandlesOther == /\ LogGrows
                /\ \A n \in DOMAIN log' : n \notin DOMAIN log => log'[n].type \in OtherTypes
                /\ capture'.requests = capture.requests

\* The lines that settle nothing.
LEMMA OtherLines ==
    ASSUME TypeOK, line # None,
           \/ UNCHANGED <<log, capture, source>>
           \/ StartRetry \/ RecordToolStart \/ RecordToolCompletion
    PROVE  HandlesOther
<1>1. CASE UNCHANGED <<log, capture, source>>
  BY <1>1 DEF HandlesOther, LogGrows
<1>2. CASE StartRetry
  <2>1. Event("retry.started", capture.requests[Current].index, None,
              capture.requests[Current].sequence, line.of) \in EventRecord
    BY <1>2, RetryTyped DEF StartRetry
  <2>2. \E e \in EventRecord : log' = Append(log, e) /\ e.type = "retry.started"
    BY <1>2, <2>1 DEF StartRetry, Record, Event
  <2>3. capture' = capture
    BY <1>2 DEF StartRetry
  <2> QED
    BY <2>2, <2>3, AppendAdds DEF HandlesOther, OtherTypes
<1>3. CASE RecordToolStart
  <2>1. /\ \E e \in EventRecord : log' = Append(log, e) /\ e.type = "tool.started"
        /\ capture'.requests = capture.requests
    BY <1>3, ToolStartEffect, EventFields
  <2> QED
    BY <2>1, AppendAdds DEF HandlesOther, OtherTypes
<1>4. CASE RecordToolCompletion
  <2>1. PICK state \in capture.tools : CompleteTool(state)
    BY <1>4 DEF RecordToolCompletion
  <2>2. \E e, c \in EventRecord : /\ log' = log \o <<e, c>>
                                  /\ e.type = "tool.completed" /\ c.type = "context"
    BY <2>1, ToolEndEffect DEF Event
  <2>3. PICK e \in EventRecord, c \in EventRecord :
           log' = log \o <<e, c>> /\ e.type = "tool.completed" /\ c.type = "context"
    BY <2>2
  <2> DEFINE more == <<e, c>>
  <2>4. /\ more \in Seq(EventRecord) /\ log' = log \o more
        /\ \A j \in 1..Len(more) : more[j].type \in OtherTypes
    BY <2>3 DEF OtherTypes
  <2> HIDE DEF more
  <2>5. LogGrows /\ \A n \in DOMAIN log' : n \notin DOMAIN log => log'[n].type \in OtherTypes
    <3>1. /\ LogGrows
          /\ \A j \in 1..Len(more) : log'[Len(log) + j] = more[j]
          /\ \A n \in DOMAIN log' : n \notin DOMAIN log => \E j \in 1..Len(more) : n = Len(log) + j
      BY <2>4, ConcatAdds
    <3> QED
      BY <2>4, <3>1
  <2>6. capture'.requests = capture.requests
    BY <2>1, ToolEndEffect
  <2> QED
    BY <2>5, <2>6 DEF HandlesOther
<1> QED
  BY <1>1, <1>2, <1>3, <1>4

LEMMA HandleCases ==
    ASSUME TypeOK, HandleLine
    PROVE  CompleteResponse \/ FailResponse \/ HandlesOther
  BY OtherLines DEF HandleLine, Handle, EndAgent

\* The client handles lines and ends turns without recording a request.
LEMMA OthersRecordNone ==
    ASSUME TypeOK, HandleLine \/ EndTurn
    PROVE  /\ LogGrows
           /\ \A n \in DOMAIN log' : n \notin DOMAIN log => log'[n].type # "request.started"
<1>1. CASE HandleLine
  <2>1. CASE CompleteResponse \/ FailResponse
    <3>1. line # None
      BY <1>1 DEF HandleLine
    <3>2. \E e \in EventRecord : log' = Append(log, e) /\ e.type \in Settlements
      BY <2>1, <3>1, SettleEffect, EventFields
    <3> QED
      BY <3>2, AppendAdds DEF Settlements
  <2>2. CASE HandlesOther
    BY <2>2 DEF HandlesOther, OtherTypes
  <2> QED
    BY <1>1, <2>1, <2>2, HandleCases
<1>2. CASE EndTurn
  <2>1. \A j \in 1..Len(Interrupted) : Interrupted[j].type = "response.failed"
    <3>1. PICK open \in Seq(Nat) :
             /\ Len(open) = Len(Interrupted)
             /\ \A j \in 1..Len(open) :
                   Interrupted[j] = Event("response.failed",
                       capture.requests[open[j]].index, None,
                       capture.requests[open[j]].sequence, capture.requests[open[j]].index)
      BY InterruptedIs
    <3>2. ASSUME NEW j \in 1..Len(open)
          PROVE  Interrupted[j].type = "response.failed"
      BY <3>1, EventFields
    <3> QED
      BY <3>1, <3>2
  <2>2. log' = log \o Interrupted /\ Interrupted \in Seq(EventRecord)
    BY <1>2, InterruptedIs DEF EndTurn
  <2>3. /\ LogGrows
        /\ \A j \in 1..Len(Interrupted) : log'[Len(log) + j] = Interrupted[j]
        /\ \A n \in DOMAIN log' : n \notin DOMAIN log =>
              \E j \in 1..Len(Interrupted) : n = Len(log) + j
    BY <2>2, ConcatAdds
  <2> QED
    BY <2>1, <2>3
<1> QED
  BY <1>1, <1>2

\* A log without a start more keeps the order.
LEMMA OrderKept ==
    ASSUME OrderInv, LogGrows, UNCHANGED <<documents, seen, acks, turn>>,
           \A n \in DOMAIN log' : n \notin DOMAIN log => log'[n].type # "request.started",
           client' = "prompting" => client = "prompting"
    PROVE  OrderInv'
<1>1. \A n \in DOMAIN log' : log'[n].type = "request.started" =>
          n \in DOMAIN log /\ log[n].type = "request.started" /\ log'[n] = log[n]
  BY DEF LogGrows
<1>2. \A n \in DOMAIN log : n \in DOMAIN log' /\ log'[n] = log[n]
  BY DEF LogGrows
<1> QED
  BY <1>1, <1>2 DEF OrderInv, IsStart

\* Recording the fresh requests, all of them before more are handled, keeps
\* the order: they come after those recorded before.
LEMMA OrderLook ==
    ASSUME TypeOK, OrderInv, LookStep
    PROVE  OrderInv'
<1>1. PICK kept, recorded : /\ Looks(kept, recorded)
                            /\ client' = "prompting" => kept = Fresh /\ recorded = Fresh
  BY LookLooks
<1>2. /\ client = "prompting"
      /\ UNCHANGED <<documents, turn>>
  BY LookLooks
<1>3. /\ Len(log) \in Nat /\ Len(recorded) \in Nat /\ Len(kept) \in Nat
      /\ DOMAIN log = 1..Len(log)
      /\ DOMAIN log' = 1..(Len(log) + Len(recorded))
      /\ \A n \in 1..Len(log) : log'[n] = log[n]
      /\ \A j \in 1..Len(recorded) : /\ log'[Len(log) + j].type = "request.started"
                                     /\ log'[Len(log) + j].request = Fresh[j]
  <2>1. \A j \in 1..Len(recorded) :
           log'[Len(log) + j] = Event("request.started", Fresh[j], None,
                                      documents[Fresh[j]].source, Fresh[j])
    BY <1>1, LooksEffect
  <2>2. \A j \in 1..Len(recorded) : /\ log'[Len(log) + j].type = "request.started"
                                    /\ log'[Len(log) + j].request = Fresh[j]
    BY <2>1, EventFields
  <2> QED
    BY <1>1, <2>2, LooksEffect
<1>4. /\ Len(kept) <= Len(recorded) /\ Len(recorded) <= Len(Fresh) /\ Len(Fresh) \in Nat
      /\ ToSet(kept) = {Fresh[j] : j \in 1..Len(kept)}
      /\ acks' = acks \cup ToSet(kept)
      /\ seen' = seen \cup ToSet(kept)
  <2>1. DOMAIN kept = 1..Len(kept) /\ \A j \in 1..Len(kept) : kept[j] = Fresh[j]
    BY <1>1 DEF Looks, FreshPrefix
  <2>2. ToSet(kept) = {Fresh[j] : j \in 1..Len(kept)}
    BY <2>1 DEF ToSet
  <2> QED
    BY <1>1, <2>2, FreshIs DEF Looks, FreshPrefix
<1>5. /\ \A j \in 1..Len(Fresh) : /\ Fresh[j] \in DOMAIN documents /\ Fresh[j] \in Nat
                                  /\ documents[Fresh[j]].turn = turn /\ Fresh[j] \notin seen
      /\ \A i, j \in 1..Len(Fresh) : i < j => Fresh[i] < Fresh[j]
  <2>1. documents \in Seq(Document)
    BY DEF TypeOK
  <2> QED
    BY <2>1, FreshIs DEF InTurn
<1>6. \A n \in DOMAIN log' : n \notin DOMAIN log =>
         \E j \in 1..Len(recorded) : n = Len(log) + j /\ j \in 1..Len(Fresh)
  <2> SUFFICES ASSUME NEW n \in DOMAIN log', n \notin DOMAIN log
               PROVE  \E j \in 1..Len(recorded) : n = Len(log) + j /\ j \in 1..Len(Fresh)
    OBVIOUS
  <2>1. n - Len(log) \in 1..Len(recorded) /\ n = Len(log) + (n - Len(log))
        /\ n - Len(log) \in 1..Len(Fresh)
    BY <1>3, <1>4
  <2> QED
    BY <2>1
<1>7. \A n \in DOMAIN log : n \in DOMAIN log' /\ log'[n] = log[n]
  BY <1>3
<1>8. seen' = acks'
  BY <1>4 DEF OrderInv
<1>9. ASSUME NEW i \in acks'
      PROVE  \E n \in DOMAIN log' : log'[n].type = "request.started" /\ log'[n].request = i
  <2>1. CASE i \in acks
    BY <1>7, <2>1 DEF OrderInv, IsStart
  <2>2. CASE i \notin acks
    <3>1. PICK j \in 1..Len(kept) : i = Fresh[j]
      BY <1>4, <1>9, <2>2
    <3>2. j \in 1..Len(recorded) /\ Len(log) + j \in DOMAIN log'
      BY <1>3, <1>4, <3>1
    <3> QED
      BY <1>3, <3>1, <3>2
  <2> QED
    BY <2>1, <2>2
<1>10. ASSUME NEW n \in DOMAIN log', log'[n].type = "request.started"
       PROVE  log'[n].request \in DOMAIN documents
  BY <1>3, <1>5, <1>6, <1>7, <1>10 DEF OrderInv, IsStart
<1>11. ASSUME NEW m \in DOMAIN log', NEW n \in DOMAIN log', m < n,
              log'[m].type = "request.started", log'[n].type = "request.started"
       PROVE  log'[m].request < log'[n].request
  <2>1. CASE n \in DOMAIN log
    <3>1. m \in DOMAIN log
      BY <1>3, <1>11, <2>1
    <3> QED
      BY <1>7, <1>11, <2>1, <3>1 DEF OrderInv, IsStart
  <2>2. CASE n \notin DOMAIN log
    <3>1. PICK j \in 1..Len(recorded) : n = Len(log) + j /\ j \in 1..Len(Fresh)
      BY <1>6, <2>2
    <3>2. log'[n].request = Fresh[j]
      BY <1>3, <3>1
    <3>3. CASE m \in DOMAIN log
      BY <1>2, <1>5, <1>7, <1>11, <3>1, <3>2, <3>3 DEF OrderInv, IsStart
    <3>4. CASE m \notin DOMAIN log
      <4>1. PICK i \in 1..Len(recorded) : m = Len(log) + i /\ i \in 1..Len(Fresh)
        BY <1>6, <3>4
      <4>2. i < j
        BY <1>3, <1>11, <3>1, <4>1
      <4> QED
        BY <1>3, <1>5, <3>1, <3>2, <4>1, <4>2
    <3> QED
      BY <3>3, <3>4
  <2> QED
    BY <2>1, <2>2
<1>12. ASSUME client' = "prompting", NEW i \in DOMAIN documents,
              documents[i].turn = turn, i \notin seen'
       PROVE  FALSE
  <2>1. i \in InTurn(turn) \ seen
    BY <1>4, <1>12 DEF InTurn
  <2>2. i \in ToSet(Fresh)
    BY <2>1, FreshIs
  <2> QED
    BY <1>1, <1>4, <1>12, <2>2
<1> QED
  BY <1>2, <1>8, <1>9, <1>10, <1>11, <1>12 DEF OrderInv, IsStart

LEMMA OrderStep ==
    ASSUME TypeOK, OrderInv, [Next]_vars
    PROVE  OrderInv'
<1>1. CASE UNCHANGED vars
  BY <1>1, OrderKept DEF vars, piVars, adapterVars, LogGrows
<1>2. CASE PiStep \/ PiDies
  <2>1. UNCHANGED <<log, seen, acks, turn, client>>
    BY <1>2 DEF PiStep, PiDies, adapterVars
  <2>2. CASE UNCHANGED documents
    BY <2>1, <2>2, OrderKept DEF LogGrows
  <2>3. CASE Hook
    <3>1. documents \in Seq(Document) /\ turn \in Nat /\ [turn |-> turn, source |-> source] \in Document
      BY CaptureBounds DEF TypeOK, Document
    <3>2. /\ DOMAIN documents = 1..Len(documents) /\ Len(documents) \in Nat
          /\ DOMAIN documents' = 1..(Len(documents) + 1)
          /\ \A i \in DOMAIN documents : documents'[i] = documents[i]
          /\ documents'[Len(documents) + 1].turn = turn
      BY <2>3, <3>1, AppendKeeps DEF Hook
    <3>3. \A i \in DOMAIN documents' : i \in DOMAIN documents \/ i = Len(documents) + 1
      BY <3>2
    <3>4. \A i \in DOMAIN documents : i \in DOMAIN documents' /\ i < Len(documents) + 1
      BY <3>2
    <3>5. \A n \in DOMAIN log : IsStart(n) =>
             log[n].request \in DOMAIN documents' /\ log[n].request < Len(documents) + 1
      BY <3>4 DEF OrderInv
    <3>6. \A i \in DOMAIN documents' : documents'[i].turn <= turn
      BY <3>1, <3>2, <3>3 DEF OrderInv
    <3>7. client = "prompting" =>
            \A i \in DOMAIN documents' : documents'[i].turn = turn /\ i \notin seen =>
               \A n \in DOMAIN log : IsStart(n) => log[n].request < i
      BY <3>2, <3>3, <3>5 DEF OrderInv
    <3> QED
      BY <2>1, <3>5, <3>6, <3>7 DEF OrderInv, IsStart
  <2> QED
    BY <1>2, <2>2, <2>3
       DEF PiStep, PiDies, AcceptPrompt, RefusePrompt, CallProvider, UseTools, Answer, FailAttempt,
           StartTool, EndTool, Die
<1>3. CASE LookStep
  BY <1>3, OrderLook
<1>4. CASE HandleLine \/ EndTurn
  <2>1. /\ UNCHANGED <<documents, seen, acks, turn>>
        /\ client' = "prompting" => client = "prompting"
    BY <1>4 DEF HandleLine, EndTurn, piVars
  <2> QED
    BY <1>4, <2>1, OthersRecordNone, OrderKept
<1>5. CASE RefuseLine \/ Eof
  BY <1>5, OrderKept DEF RefuseLine, Eof, piVars, adapterVars, LogGrows
<1>6. CASE BeginTurn
  <2>1. log \in Seq(EventRecord) /\ turn \in Nat
        /\ [Event("context", None, None, None, None) EXCEPT !.turn = turn'] \in EventRecord
    BY <1>6, CaptureBounds DEF BeginTurn, TypeOK, Event, EventRecord, EventTypes
  <2>2. [Event("context", None, None, None, None) EXCEPT !.turn = turn'].type = "context"
    BY DEF Event
  <2>3. /\ DOMAIN log = 1..Len(log) /\ Len(log) \in Nat
        /\ DOMAIN log' = 1..(Len(log) + 1)
        /\ \A n \in DOMAIN log : log'[n] = log[n]
        /\ log'[Len(log) + 1].type = "context"
    BY <1>6, <2>1, <2>2, AppendKeeps DEF BeginTurn
  <2>4. \A n \in DOMAIN log' : log'[n].type = "request.started" =>
           n \in DOMAIN log /\ log'[n] = log[n]
    BY <2>3
  <2>5. \A n \in DOMAIN log : n \in DOMAIN log' /\ log'[n] = log[n]
    BY <2>3
  <2>6. \A i \in DOMAIN documents : documents[i].turn <= turn' /\ documents[i].turn # turn'
    <3>1. \A i \in DOMAIN documents : documents[i].turn \in Nat
      <4>1. \A i \in DOMAIN documents : documents[i] \in Document
        BY DEF TypeOK
      <4> QED
        BY <4>1 DEF Document
    <3> QED
      BY <1>6, <2>1, <3>1 DEF BeginTurn, OrderInv
  <2>7. UNCHANGED <<documents, seen, acks>>
    BY <1>6 DEF BeginTurn
  <2> QED
    BY <2>4, <2>5, <2>6, <2>7 DEF OrderInv, IsStart
<1> QED
  BY <1>1, <1>2, <1>3, <1>4, <1>5, <1>6 DEF Next, ClientStep, LookStep

\* A request is acknowledged only once its start is durable, each start is
\* recorded once, and in the order Pi made the requests, however far Pi is
\* ahead of the adapter and wherever recording fails.
THEOREM AcksDurable == Spec => []AcksAreDurable
<1>1. Init => TypeOK /\ OrderInv
  BY TypeInit DEF Init, OrderInv
<1>2. TypeOK /\ OrderInv /\ [Next]_vars => TypeOK' /\ OrderInv'
  BY TypeStep, OrderStep
<1>3. OrderInv => AcksAreDurable
  BY DEF OrderInv, AcksAreDurable, OfRequest, Events, IsStart
<1> QED
  BY <1>1, <1>2, <1>3, PTL DEF Spec

-----------------------------------------------------------------------------
(* Each acknowledged request is settled once *)

\* A step without a settlement and without a request more keeps what is
\* settled.
LEMMA SettleKept ==
    ASSUME SettleInv, LogGrows, UNCHANGED acks,
           \A n \in DOMAIN log' : n \notin DOMAIN log => log'[n].type \notin Settlements,
           capture'.requests = capture.requests,
           client' \in {"between", "closed"} => capture' = NoCapture
    PROVE  SettleInv'
<1>1. \A n \in DOMAIN log' : log'[n].type \in Settlements =>
          n \in DOMAIN log /\ log'[n] = log[n]
  BY DEF LogGrows
<1>2. \A n \in DOMAIN log : n \in DOMAIN log' /\ log'[n] = log[n]
  BY DEF LogGrows
<1> QED
  BY <1>1, <1>2 DEF SettleInv, Unsettled

\* The requests of a look are acknowledged for the first time, and tracked.
LEMMA SettleLook ==
    ASSUME TypeOK, OrderInv, SettleInv, LookStep
    PROVE  SettleInv'
<1>1. PICK kept, recorded : Looks(kept, recorded)
  BY LookLooks
<1>2. client' \in {"prompting", "failing"}
  BY LookLooks
<1> DEFINE old == Len(capture.requests)
<1>3. /\ Len(log) \in Nat /\ Len(recorded) \in Nat /\ Len(kept) \in Nat /\ old \in Nat
      /\ DOMAIN log = 1..Len(log)
      /\ DOMAIN log' = 1..(Len(log) + Len(recorded))
      /\ \A n \in 1..Len(log) : log'[n] = log[n]
      /\ DOMAIN capture.requests = 1..old
      /\ DOMAIN capture'.requests = 1..(old + Len(kept))
      /\ \A k \in 1..old : capture'.requests[k] = capture.requests[k]
      /\ \A j \in 1..Len(kept) : /\ capture'.requests[old + j].index = Fresh[j]
                                 /\ capture'.requests[old + j].settled = FALSE
  <2>1. \A j \in 1..Len(kept) :
           capture'.requests[old + j] = [index |-> Fresh[j], sequence |-> Len(log) + j,
                                         settled |-> FALSE]
    BY <1>1, LooksEffect
  <2>2. \A j \in 1..Len(kept) : /\ capture'.requests[old + j].index = Fresh[j]
                                /\ capture'.requests[old + j].settled = FALSE
    <3> SUFFICES ASSUME NEW j \in 1..Len(kept)
                 PROVE  /\ capture'.requests[old + j].index = Fresh[j]
                        /\ capture'.requests[old + j].settled = FALSE
      OBVIOUS
    <3> DEFINE x == capture'.requests[old + j]
    <3>1. x = [index |-> Fresh[j], sequence |-> Len(log) + j, settled |-> FALSE]
      BY <2>1
    <3> HIDE DEF x
    <3>2. x.index = Fresh[j] /\ x.settled = FALSE
      BY <3>1
    <3> QED
      BY <3>2 DEF x
  <2> QED
    BY <1>1, <2>2, LooksEffect
<1>4. \A j \in 1..Len(recorded) : log'[Len(log) + j].type = "request.started"
  BY <1>1, LooksEffect, EventFields
<1>5. /\ Len(kept) <= Len(Fresh) /\ Len(Fresh) \in Nat
      /\ acks' = acks \cup {Fresh[j] : j \in 1..Len(kept)}
  <2>1. DOMAIN kept = 1..Len(kept) /\ \A j \in 1..Len(kept) : kept[j] = Fresh[j]
    BY <1>1 DEF Looks, FreshPrefix
  <2>2. ToSet(kept) = {Fresh[j] : j \in 1..Len(kept)}
    BY <2>1 DEF ToSet
  <2> QED
    BY <1>1, <2>2, FreshIs DEF Looks, FreshPrefix
<1>6. \A j \in 1..Len(kept) : j \in 1..Len(Fresh) /\ Fresh[j] \notin acks
  <2>1. \A j \in 1..Len(kept) : j \in 1..Len(Fresh)
    BY <1>3, <1>5
  <2> QED
    BY <2>1, FreshIs DEF OrderInv
<1>7. \A i, j \in 1..Len(kept) : Fresh[i] = Fresh[j] => i = j
  BY <1>6, FreshIs
<1>8. \A n \in DOMAIN log' : log'[n].type \in Settlements =>
         n \in DOMAIN log /\ log'[n] = log[n]
  <2> SUFFICES ASSUME NEW n \in DOMAIN log', n \notin DOMAIN log
               PROVE  log'[n].type = "request.started"
    BY <1>3 DEF Settlements
  <2>1. n - Len(log) \in 1..Len(recorded) /\ n = Len(log) + (n - Len(log))
    BY <1>3
  <2> QED
    BY <1>4, <2>1
<1>9. \A n \in DOMAIN log : n \in DOMAIN log' /\ log'[n] = log[n]
  BY <1>3
<1>10. \A k \in DOMAIN capture'.requests :
          \/ k \in DOMAIN capture.requests /\ capture'.requests[k] = capture.requests[k]
          \/ \E j \in 1..Len(kept) : k = old + j
  <2> SUFFICES ASSUME NEW k \in DOMAIN capture'.requests, k \notin DOMAIN capture.requests
               PROVE  \E j \in 1..Len(kept) : k = old + j
    BY <1>3
  <2>1. k - old \in 1..Len(kept) /\ k = old + (k - old)
    BY <1>3
  <2> QED
    BY <2>1
<1>11. \A k \in DOMAIN capture.requests :
          k \in DOMAIN capture'.requests /\ capture'.requests[k] = capture.requests[k]
  BY <1>3
<1>12. \A j \in 1..Len(kept) : old + j \in DOMAIN capture'.requests
  BY <1>3
<1> HIDE DEF old
<1>13. ASSUME NEW k \in DOMAIN capture'.requests
       PROVE  capture'.requests[k].index \in acks'
  <2>1. CASE k \in DOMAIN capture.requests
    BY <1>5, <1>11, <2>1 DEF SettleInv
  <2>2. CASE k \notin DOMAIN capture.requests
    <3>1. PICK j \in 1..Len(kept) : k = old + j
      BY <1>10, <2>2
    <3> QED
      BY <1>3, <1>5, <3>1
  <2> QED
    BY <2>1, <2>2
<1>14. ASSUME NEW j \in DOMAIN capture'.requests, NEW k \in DOMAIN capture'.requests,
              capture'.requests[j].index = capture'.requests[k].index
       PROVE  j = k
  <2>1. CASE j \in DOMAIN capture.requests /\ k \in DOMAIN capture.requests
    BY <1>11, <1>14, <2>1 DEF SettleInv
  <2>2. CASE j \in DOMAIN capture.requests /\ k \notin DOMAIN capture.requests
    <3>1. PICK i \in 1..Len(kept) : k = old + i
      BY <1>10, <2>2
    <3>2. capture'.requests[k].index \notin acks
      BY <1>3, <1>6, <3>1
    <3>3. capture'.requests[j].index \in acks
      BY <1>11, <2>2 DEF SettleInv
    <3> QED
      BY <1>14, <3>2, <3>3
  <2>3. CASE j \notin DOMAIN capture.requests /\ k \in DOMAIN capture.requests
    <3>1. PICK i \in 1..Len(kept) : j = old + i
      BY <1>10, <2>3
    <3>2. capture'.requests[j].index \notin acks
      BY <1>3, <1>6, <3>1
    <3>3. capture'.requests[k].index \in acks
      BY <1>11, <2>3 DEF SettleInv
    <3> QED
      BY <1>14, <3>2, <3>3
  <2>4. CASE j \notin DOMAIN capture.requests /\ k \notin DOMAIN capture.requests
    <3>1. PICK l \in 1..Len(kept) : j = old + l
      BY <1>10, <2>4
    <3>2. PICK m \in 1..Len(kept) : k = old + m
      BY <1>10, <2>4
    <3>3. Fresh[l] = Fresh[m]
      BY <1>3, <1>14, <3>1, <3>2
    <3> QED
      BY <1>7, <3>1, <3>2, <3>3
  <2> QED
    BY <2>1, <2>2, <2>3, <2>4
<1>15. ASSUME NEW k \in DOMAIN capture'.requests, ~capture'.requests[k].settled,
              NEW n \in DOMAIN log', log'[n].type \in Settlements
       PROVE  log'[n].request # capture'.requests[k].index
  <2>1. n \in DOMAIN log /\ log'[n] = log[n] /\ log[n].request \in acks
    BY <1>8, <1>15 DEF SettleInv
  <2>2. CASE k \in DOMAIN capture.requests
    BY <1>11, <1>15, <2>1, <2>2 DEF SettleInv, Unsettled
  <2>3. CASE k \notin DOMAIN capture.requests
    <3>1. PICK j \in 1..Len(kept) : k = old + j
      BY <1>10, <2>3
    <3>2. capture'.requests[k].index \notin acks
      BY <1>3, <1>6, <3>1
    <3> QED
      BY <2>1, <3>2
  <2> QED
    BY <2>2, <2>3
<1>16. ASSUME NEW i \in acks'
       PROVE  \/ \E n \in DOMAIN log' : log'[n].type \in Settlements /\ log'[n].request = i
              \/ \E k \in DOMAIN capture'.requests :
                    ~capture'.requests[k].settled /\ capture'.requests[k].index = i
  <2>1. CASE i \in acks
    BY <1>9, <1>11, <2>1 DEF SettleInv, Unsettled
  <2>2. CASE i \notin acks
    BY <1>3, <1>5, <1>12, <1>16, <2>2
  <2> QED
    BY <2>1, <2>2
<1>17. \A m, n \in DOMAIN log' :
          /\ log'[m].type \in Settlements /\ log'[n].type \in Settlements
          /\ log'[m].request = log'[n].request
          => m = n
  BY <1>8 DEF SettleInv
<1>18. \A n \in DOMAIN log' : log'[n].type \in Settlements => log'[n].request \in acks'
  BY <1>5, <1>8 DEF SettleInv
<1> QED
  BY <1>2, <1>13, <1>14, <1>15, <1>16, <1>17, <1>18 DEF SettleInv, Unsettled

\* A response settles the first unsettled request, which was not settled.
LEMMA SettleResponse ==
    ASSUME TypeOK, SettleInv, HandleLine, CompleteResponse \/ FailResponse
    PROVE  SettleInv'
<1> DEFINE i == FirstUnsettled
<1>1. line # None /\ UNCHANGED acks /\ client' \notin {"between", "closed"}
  BY DEF HandleLine
<1>2. PICK e \in EventRecord :
          /\ e.type \in Settlements /\ e.request = capture.requests[i].index
          /\ i \in Unsettled /\ i \in DOMAIN capture.requests
          /\ log' = Append(log, e)
          /\ DOMAIN capture'.requests = DOMAIN capture.requests
          /\ \A k \in DOMAIN capture.requests :
                /\ capture'.requests[k].index = capture.requests[k].index
                /\ capture'.requests[k].settled <=> capture.requests[k].settled \/ k = i
  BY <1>1, SettleEffect, EventFields
<1> HIDE DEF i
<1>3. /\ \A n \in DOMAIN log : n \in DOMAIN log' /\ log'[n] = log[n]
      /\ Len(log) + 1 \in DOMAIN log' /\ Len(log) + 1 \notin DOMAIN log
      /\ log'[Len(log) + 1] = e
      /\ \A n \in DOMAIN log' : n \notin DOMAIN log => n = Len(log) + 1
  BY <1>2, AppendAdds DEF LogGrows
<1>4. \A n \in DOMAIN log : log[n].type \in Settlements => log[n].request # e.request
  BY <1>2 DEF SettleInv
<1>5. \A m, n \in DOMAIN log' :
          /\ log'[m].type \in Settlements /\ log'[n].type \in Settlements
          /\ log'[m].request = log'[n].request
          => m = n
  BY <1>3, <1>4 DEF SettleInv
<1>6. \A n \in DOMAIN log' : log'[n].type \in Settlements => log'[n].request \in acks'
  BY <1>1, <1>2, <1>3 DEF SettleInv
<1>7. ASSUME NEW k \in DOMAIN capture'.requests, ~capture'.requests[k].settled,
             NEW n \in DOMAIN log', log'[n].type \in Settlements
      PROVE  log'[n].request # capture'.requests[k].index
  <2>1. k \in Unsettled /\ k # i /\ k \in DOMAIN capture.requests
    BY <1>2, <1>7 DEF Unsettled
  <2>2. capture.requests[k].index # e.request
    BY <1>2, <2>1 DEF SettleInv
  <2> QED
    BY <1>2, <1>3, <1>7, <2>1, <2>2 DEF SettleInv
<1>8. ASSUME NEW j \in acks'
      PROVE  \/ \E n \in DOMAIN log' : log'[n].type \in Settlements /\ log'[n].request = j
             \/ \E k \in DOMAIN capture'.requests :
                   ~capture'.requests[k].settled /\ capture'.requests[k].index = j
  <2>1. CASE j = e.request
    BY <1>2, <1>3, <2>1
  <2>2. CASE j # e.request
    BY <1>1, <1>2, <1>3, <2>2 DEF SettleInv, Unsettled
  <2> QED
    BY <2>1, <2>2
<1> QED
  BY <1>1, <1>2, <1>5, <1>6, <1>7, <1>8 DEF SettleInv, Unsettled

\* The end of a turn settles every request that is not, and forgets them all.
LEMMA SettleEnd ==
    ASSUME TypeOK, SettleInv, EndTurn
    PROVE  SettleInv'
<1>1. PICK open \in Seq(Nat) :
         /\ Len(open) = Len(Interrupted)
         /\ \A j \in 1..Len(open) :
               /\ open[j] \in Unsettled /\ open[j] \in DOMAIN capture.requests
               /\ Interrupted[j] = Event("response.failed",
                      capture.requests[open[j]].index, None,
                      capture.requests[open[j]].sequence, capture.requests[open[j]].index)
         /\ \A i, j \in 1..Len(open) : open[i] = open[j] => i = j
         /\ \A k \in Unsettled : \E j \in 1..Len(open) : open[j] = k
  BY InterruptedIs
<1>2. /\ LogGrows
      /\ \A j \in 1..Len(open) : /\ Len(log) + j \in DOMAIN log'
                                 /\ log'[Len(log) + j] = Interrupted[j]
      /\ \A m \in DOMAIN log' : m \notin DOMAIN log => \E j \in 1..Len(open) : m = Len(log) + j
  <2>1. log' = log \o Interrupted /\ Interrupted \in Seq(EventRecord)
    BY InterruptedIs DEF EndTurn
  <2>2. /\ LogGrows
        /\ \A j \in 1..Len(Interrupted) : /\ Len(log) + j \in DOMAIN log'
                                          /\ log'[Len(log) + j] = Interrupted[j]
        /\ \A m \in DOMAIN log' : m \notin DOMAIN log =>
              \E j \in 1..Len(Interrupted) : m = Len(log) + j
    BY <2>1, ConcatAdds
  <2> QED
    BY <1>1, <2>2
<1>3. \A j \in 1..Len(open) :
         /\ log'[Len(log) + j].type \in Settlements
         /\ log'[Len(log) + j].request = capture.requests[open[j]].index
  BY <1>1, <1>2, EventFields DEF Settlements
<1>4. \A m \in DOMAIN log : m \in DOMAIN log' /\ log'[m] = log[m]
  BY <1>2 DEF LogGrows
<1>5. /\ UNCHANGED acks /\ capture' = NoCapture
      /\ Unsettled' = {} /\ DOMAIN capture'.requests = {}
  BY DEF EndTurn, NoCapture, Unsettled
<1>6. ASSUME NEW l \in DOMAIN log', NEW m \in DOMAIN log',
             log'[l].type \in Settlements, log'[m].type \in Settlements,
             log'[l].request = log'[m].request
      PROVE  l = m
  <2>1. CASE l \in DOMAIN log /\ m \in DOMAIN log
    BY <1>4, <1>6, <2>1 DEF SettleInv
  <2>2. CASE l \in DOMAIN log /\ m \notin DOMAIN log
    <3>1. PICK j \in 1..Len(open) : m = Len(log) + j
      BY <1>2, <2>2
    <3>2. open[j] \in Unsettled /\ log'[m].request = capture.requests[open[j]].index
      BY <1>1, <1>3, <3>1
    <3>3. log[l].type \in Settlements /\ log[l].request = log'[m].request
      BY <1>4, <1>6, <2>2
    <3> QED
      BY <2>2, <3>2, <3>3 DEF SettleInv
  <2>3. CASE l \notin DOMAIN log /\ m \in DOMAIN log
    <3>1. PICK j \in 1..Len(open) : l = Len(log) + j
      BY <1>2, <2>3
    <3>2. open[j] \in Unsettled /\ log'[l].request = capture.requests[open[j]].index
      BY <1>1, <1>3, <3>1
    <3>3. log[m].type \in Settlements /\ log[m].request = log'[l].request
      BY <1>4, <1>6, <2>3
    <3> QED
      BY <2>3, <3>2, <3>3 DEF SettleInv
  <2>4. CASE l \notin DOMAIN log /\ m \notin DOMAIN log
    <3>1. PICK i \in 1..Len(open) : l = Len(log) + i
      BY <1>2, <2>4
    <3>2. PICK j \in 1..Len(open) : m = Len(log) + j
      BY <1>2, <2>4
    <3>3. capture.requests[open[i]].index = capture.requests[open[j]].index
      BY <1>3, <1>6, <3>1, <3>2
    <3>4. open[i] = open[j]
      BY <1>1, <3>3 DEF SettleInv
    <3> QED
      BY <1>1, <3>1, <3>2, <3>4
  <2> QED
    BY <2>1, <2>2, <2>3, <2>4
<1>7. ASSUME NEW m \in DOMAIN log', log'[m].type \in Settlements
      PROVE  log'[m].request \in acks'
  <2>1. CASE m \in DOMAIN log
    BY <1>4, <1>5, <1>7, <2>1 DEF SettleInv
  <2>2. CASE m \notin DOMAIN log
    <3>1. PICK j \in 1..Len(open) : m = Len(log) + j
      BY <1>2, <1>7, <2>2
    <3>2. open[j] \in Unsettled /\ log'[m].request = capture.requests[open[j]].index
      BY <1>1, <1>3, <3>1
    <3>3. open[j] \in DOMAIN capture.requests
      BY <1>1, <3>1
    <3> QED
      BY <1>5, <3>2, <3>3 DEF SettleInv
  <2> QED
    BY <2>1, <2>2
<1>8. ASSUME NEW i \in acks'
      PROVE  \E m \in DOMAIN log' : log'[m].type \in Settlements /\ log'[m].request = i
  <2>1. CASE \E m \in DOMAIN log : log[m].type \in Settlements /\ log[m].request = i
    BY <1>4, <2>1
  <2>2. CASE \E k \in Unsettled : capture.requests[k].index = i
    <3>1. PICK k \in Unsettled : capture.requests[k].index = i
      BY <2>2
    <3>2. PICK j \in 1..Len(open) : open[j] = k
      BY <1>1
    <3>3. Len(log) + j \in DOMAIN log'
      BY <1>2
    <3> QED
      BY <1>3, <3>1, <3>2, <3>3
  <2> QED
    BY <1>5, <1>8, <2>1, <2>2 DEF SettleInv
<1> QED
  BY <1>5, <1>6, <1>7, <1>8 DEF SettleInv

LEMMA SettleStep ==
    ASSUME TypeOK, OrderInv, SettleInv, [Next]_vars
    PROVE  SettleInv'
<1>1. CASE UNCHANGED vars \/ PiStep \/ PiDies
  <2>1. UNCHANGED <<log, acks, capture, client>>
    BY <1>1 DEF vars, piVars, adapterVars, PiStep, PiDies
  <2> QED
    BY <2>1 DEF SettleInv, Unsettled
<1>2. CASE LookStep
  BY <1>2, SettleLook
<1>3. CASE HandleLine
  <2>1. CASE HandlesOther
    <3>1. UNCHANGED acks /\ client' \notin {"between", "closed"}
      BY <1>3 DEF HandleLine
    <3>2. \A n \in DOMAIN log' : n \notin DOMAIN log => log'[n].type \notin Settlements
      BY <2>1 DEF HandlesOther, OtherTypes, Settlements
    <3> QED
      BY <2>1, <3>1, <3>2, SettleKept DEF HandlesOther
  <2> QED
    BY <1>3, <2>1, HandleCases, SettleResponse
<1>4. CASE EndTurn
  BY <1>4, SettleEnd
<1>5. CASE RefuseLine \/ Eof
  <2>1. UNCHANGED <<log, acks, capture>> /\ client' = "failing"
    BY <1>5 DEF RefuseLine, Eof, adapterVars
  <2> QED
    BY <2>1 DEF SettleInv, Unsettled
<1>6. CASE BeginTurn
  <2> DEFINE e == [Event("context", None, None, None, None) EXCEPT !.turn = turn']
  <2>1. e \in EventRecord /\ e.type = "context"
    BY <1>6, CaptureBounds DEF BeginTurn, TypeOK, Event, EventRecord, EventTypes
  <2>2. log' = Append(log, e) /\ UNCHANGED <<acks, capture>> /\ client' = "prompting"
    BY <1>6 DEF BeginTurn
  <2> HIDE DEF e
  <2>3. LogGrows /\ \A n \in DOMAIN log' : n \notin DOMAIN log => log'[n].type = "context"
    BY <2>1, <2>2, AppendAdds
  <2> QED
    BY <2>2, <2>3, SettleKept DEF Settlements
<1> QED
  BY <1>1, <1>2, <1>3, <1>4, <1>5, <1>6 DEF Next, ClientStep, LookStep

\* Every acknowledged request is settled exactly once by the time its turn is
\* closed, by its response, by the failure of its attempt or by the end of the
\* turn, and never twice.
THEOREM RequestsSettled == Spec => []SettledOnce
<1>1. Init => TypeOK /\ OrderInv /\ SettleInv
  <2> SUFFICES ASSUME Init PROVE OrderInv /\ SettleInv
    BY TypeInit
  <2>1. OrderInv
    BY DEF Init, OrderInv
  <2>2. SettleInv
    BY DEF Init, SettleInv, Unsettled, NoCapture
  <2> QED
    BY <2>1, <2>2
<1>2. TypeOK /\ OrderInv /\ SettleInv /\ [Next]_vars => TypeOK' /\ OrderInv' /\ SettleInv'
  BY TypeStep, OrderStep, SettleStep
<1>3. SettleInv => SettledOnce
  <2> SUFFICES ASSUME SettleInv, NEW i \in acks
               PROVE  /\ Cardinality(OfRequest(i, Settlements)) <= 1
                      /\ client \in {"between", "closed"} => OfRequest(i, Settlements) # {}
    BY DEF SettledOnce
  <2>1. \A m, n \in OfRequest(i, Settlements) : m = n
    BY DEF SettleInv, OfRequest
  <2>2. OfRequest(i, Settlements) = {} \/ \E n : OfRequest(i, Settlements) = {n}
    BY <2>1
  <2>3. Cardinality(OfRequest(i, Settlements)) <= 1
    <3>1. Cardinality({}) = 0 /\ \A n : Cardinality({n}) = 1
      BY FS_EmptySet, FS_Singleton
    <3>2. Cardinality(OfRequest(i, Settlements)) \in {0, 1}
      BY <2>2, <3>1
    <3> QED
      BY <3>2
  <2>4. client \in {"between", "closed"} => Unsettled = {}
    BY DEF SettleInv, Unsettled, NoCapture
  <2>5. client \in {"between", "closed"} => OfRequest(i, Settlements) # {}
    BY <2>4 DEF SettleInv, OfRequest
  <2> QED
    BY <2>3, <2>5
<1> QED
  BY <1>1, <1>2, <1>3, PTL DEF Spec

-----------------------------------------------------------------------------
(* Causes *)

\* A new event is the context event of a turn or of a tool, or it has a cause
\* among those the log has.
NewCaused(n) ==
    \/ log'[n].type = "context" /\ log'[n].parent = None
    \/ \E p \in DOMAIN log :
          /\ log'[n].parent = p /\ p < n
          /\ log[p].turn = log'[n].turn
          /\ \/ log'[n].type = "request.started" /\ log[p].type = "context"
             \/ /\ log'[n].type \in Settlements \cup {"retry.started", "tool.started"}
                /\ log[p].type = "request.started" /\ log[p].request = log'[n].request
             \/ /\ log'[n].type = "tool.completed" /\ log[p].type = "tool.started"
                /\ log[p].request = log'[n].request /\ log[p].tool = log'[n].tool

LEMMA CausesKept ==
    ASSUME TypeOK, TypeOK', CauseInv, LogGrows,
           \A n \in DOMAIN log' : n \notin DOMAIN log => NewCaused(n)
    PROVE  /\ \A n \in DOMAIN log' : log'[n].type # "context" => log'[n].parent \in DOMAIN log'
           /\ CausesHold'
<1> DEFINE Caused(n) ==
             /\ log'[n].type # "context" => log'[n].parent \in DOMAIN log'
             /\ HasCause(log[n])'
             /\ log'[n].parent # None =>
                   log'[n].parent < n /\ log'[log'[n].parent].turn = log'[n].turn
<1>1. \A n \in DOMAIN log : n \in DOMAIN log' /\ log'[n] = log[n]
  BY DEF LogGrows
<1>2. /\ DOMAIN log \subseteq Nat /\ DOMAIN log' \subseteq Nat
      /\ \A n \in DOMAIN log : log[n].type \in EventTypes
      /\ \A n \in DOMAIN log' : log'[n].type \in EventTypes
  <2>1. log \in Seq(EventRecord) /\ log' \in Seq(EventRecord)
    BY DEF TypeOK
  <2>2. \A n \in DOMAIN log : log[n] \in EventRecord
    BY <2>1
  <2>3. \A n \in DOMAIN log' : log'[n] \in EventRecord
    BY <2>1
  <2> QED
    BY <2>1, <2>2, <2>3 DEF EventRecord
<1>3. ASSUME NEW n \in DOMAIN log PROVE Caused(n)
  <2>1. /\ log[n].type # "context" => log[n].parent \in DOMAIN log
        /\ HasCause(log[n])
        /\ log[n].parent # None => log[n].parent < n /\ log[log[n].parent].turn = log[n].turn
    BY DEF CauseInv, CausesHold, CauseOf
  <2>2. log'[n] = log[n] /\ log[n].type \in EventTypes
    BY <1>1, <1>2
  <2>3. CASE log[n].type = "context"
    BY <2>1, <2>2, <2>3 DEF HasCause, Settlements
  <2>4. CASE log[n].type # "context"
    <3>1. log[n].parent \in DOMAIN log /\ log'[log[n].parent] = log[log[n].parent]
          /\ log[n].parent \in DOMAIN log' /\ log[n].parent \in Nat /\ log[n].parent # None
      BY <1>1, <1>2, <2>1, <2>4, NoneApart
    <3> QED
      BY <2>1, <2>2, <2>4, <3>1 DEF HasCause, CauseOf, EventTypes, Settlements
  <2> QED
    BY <2>3, <2>4
<1>4. ASSUME NEW n \in DOMAIN log', n \notin DOMAIN log PROVE Caused(n)
  <2>1. CASE log'[n].type = "context" /\ log'[n].parent = None
    BY <2>1 DEF HasCause, Settlements
  <2>2. ASSUME NEW p \in DOMAIN log,
               log'[n].parent = p, p < n, log[p].turn = log'[n].turn,
               \/ log'[n].type = "request.started" /\ log[p].type = "context"
               \/ /\ log'[n].type \in Settlements \cup {"retry.started", "tool.started"}
                  /\ log[p].type = "request.started" /\ log[p].request = log'[n].request
               \/ /\ log'[n].type = "tool.completed" /\ log[p].type = "tool.started"
                  /\ log[p].request = log'[n].request /\ log[p].tool = log'[n].tool
        PROVE  Caused(n)
    <3>1. p \in DOMAIN log' /\ log'[p] = log[p]
      BY <1>1
    <3> QED
      BY <2>2, <3>1 DEF HasCause, CauseOf, Settlements
  <2> QED
    BY <1>4, <2>1, <2>2 DEF NewCaused
<1>5. \A n \in DOMAIN log' : Caused(n)
  BY <1>3, <1>4
<1> QED
  BY <1>5 DEF CausesHold, CauseOf

\* What is held stays what it was when the log grows in the turn.
LEMMA HeldKept ==
    ASSUME TypeOK, HeldInv, LogGrows, UNCHANGED <<documents, source, turn>>, turn # 0,
           \A k \in DOMAIN capture'.requests :
              /\ k \in DOMAIN capture.requests
              /\ capture'.requests[k].index = capture.requests[k].index
              /\ capture'.requests[k].sequence = capture.requests[k].sequence,
           capture'.tools \subseteq capture.tools,
           \A state \in capture'.tools : state.request \in DOMAIN capture'.requests,
           client' \in {"between", "closed"} => capture' = NoCapture
    PROVE  HeldInv'
<1>1. \A n \in DOMAIN log : n \in DOMAIN log' /\ log'[n] = log[n]
  BY DEF LogGrows
<1>2. /\ turn' # 0 => IsContext(source, turn)'
      /\ \A i \in DOMAIN documents' : IsContext(documents[i].source, documents[i].turn)'
  BY <1>1 DEF HeldInv, IsContext
<1>3. \A k \in DOMAIN capture'.requests :
         LET n == capture'.requests[k].sequence IN
         /\ n \in DOMAIN log'
         /\ log'[n].type = "request.started" /\ log'[n].turn = turn
         /\ log'[n].request = capture'.requests[k].index
  BY <1>1 DEF HeldInv
<1>4. \A state \in capture'.tools :
         LET n == state.sequence IN
         /\ n \in DOMAIN log'
         /\ log'[n].type = "tool.started" /\ log'[n].turn = turn
         /\ log'[n].request = capture'.requests[state.request].index
         /\ log'[n].tool = state.tool
  BY <1>1 DEF HeldInv
<1> QED
  BY <1>2, <1>3, <1>4 DEF HeldInv

LEMMA CausePi ==
    ASSUME TypeOK, CauseInv, PiStep \/ PiDies
    PROVE  CauseInv'
<1>1. UNCHANGED <<log, capture, source, turn, client>>
  BY DEF PiStep, PiDies, adapterVars
<1>2. CausesHold' /\ \A n \in DOMAIN log' : log'[n].type # "context" => log'[n].parent \in DOMAIN log'
  BY <1>1 DEF CauseInv, CausesHold, HasCause, CauseOf
<1>3. turn = 0 => /\ ~stdin' /\ pi' \in {"waiting", "dead"} /\ called' = {} /\ running' = {}
                  /\ UNCHANGED documents
  BY DEF CauseInv, HeldInv, PiStep, PiDies, AcceptPrompt, RefusePrompt, Hook, CallProvider, UseTools,
         Answer, FailAttempt, StartTool, EndTool, Die
<1>4. CASE UNCHANGED documents
  <2>1. HeldInv'
    BY <1>1, <1>3, <1>4 DEF CauseInv, HeldInv, IsContext
  <2> QED
    BY <1>2, <2>1 DEF CauseInv
<1>5. CASE Hook
  <2>1. turn # 0
    BY <1>5 DEF Hook, CauseInv, HeldInv
  <2>2. documents \in Seq(Document) /\ [turn |-> turn, source |-> source] \in Document
    BY CaptureBounds DEF TypeOK, Document
  <2>3. /\ DOMAIN documents = 1..Len(documents) /\ Len(documents) \in Nat
        /\ DOMAIN documents' = 1..(Len(documents) + 1)
        /\ \A i \in DOMAIN documents : documents'[i] = documents[i]
        /\ documents'[Len(documents) + 1] = [turn |-> turn, source |-> source]
    BY <1>5, <2>2, AppendKeeps DEF Hook
  <2>4. \A i \in DOMAIN documents' : i \in DOMAIN documents \/ i = Len(documents) + 1
    BY <2>3
  <2>5. \A i \in DOMAIN documents' : IsContext(documents'[i].source, documents'[i].turn)
    BY <2>1, <2>3, <2>4 DEF CauseInv, HeldInv
  <2>6. HeldInv'
    BY <1>1, <2>1, <2>5 DEF CauseInv, HeldInv, IsContext
  <2> QED
    BY <1>2, <2>6 DEF CauseInv
<1> QED
  BY <1>4, <1>5
     DEF PiStep, PiDies, AcceptPrompt, RefusePrompt, CallProvider, UseTools, Answer, FailAttempt,
         StartTool, EndTool, Die

\* A request that is recorded has the context its document names for a cause.
LEMMA CauseLook ==
    ASSUME TypeOK, TypeOK', CauseInv, LookStep
    PROVE  CauseInv'
<1>1. PICK kept, recorded : Looks(kept, recorded)
  BY LookLooks
<1>2. /\ client = "prompting" /\ client' \in {"prompting", "failing"}
      /\ UNCHANGED <<documents, turn, source>>
  BY <1>1, LookLooks DEF Looks
<1>3. turn # 0
  BY <1>2 DEF CauseInv, HeldInv
<1> DEFINE old == Len(capture.requests)
           start(j) == Event("request.started", Fresh[j], None, documents[Fresh[j]].source, Fresh[j])
           tracked(j) == [index |-> Fresh[j], sequence |-> Len(log) + j, settled |-> FALSE]
<1>4. /\ Len(log) \in Nat /\ Len(recorded) \in Nat /\ Len(kept) \in Nat /\ old \in Nat
      /\ DOMAIN log = 1..Len(log)
      /\ DOMAIN log' = 1..(Len(log) + Len(recorded))
      /\ \A n \in 1..Len(log) : log'[n] = log[n]
      /\ \A j \in 1..Len(recorded) : log'[Len(log) + j] = start(j)
      /\ DOMAIN capture.requests = 1..old
      /\ DOMAIN capture'.requests = 1..(old + Len(kept))
      /\ \A k \in 1..old : capture'.requests[k] = capture.requests[k]
      /\ \A j \in 1..Len(kept) : capture'.requests[old + j] = tracked(j)
      /\ capture'.tools = capture.tools
  BY <1>1, LooksEffect
<1>5. Len(kept) <= Len(recorded) /\ Len(recorded) <= Len(Fresh) /\ Len(Fresh) \in Nat
  BY <1>1, FreshIs DEF Looks, FreshPrefix
<1>6. LogGrows
  BY <1>4 DEF LogGrows
<1>7. \A j \in 1..Len(Fresh) : IsContext(documents[Fresh[j]].source, turn)
  BY FreshIs DEF InTurn, CauseInv, HeldInv
<1>8. \A j \in 1..Len(recorded) :
         /\ log'[Len(log) + j].type = "request.started" /\ log'[Len(log) + j].turn = turn
         /\ log'[Len(log) + j].request = Fresh[j]
         /\ log'[Len(log) + j].parent = documents[Fresh[j]].source
  <2> HIDE DEF start
  <2>1. \A j \in 1..Len(recorded) : /\ start(j).type = "request.started" /\ start(j).turn = turn
                                    /\ start(j).request = Fresh[j]
                                    /\ start(j).parent = documents[Fresh[j]].source
    BY EventFields DEF start
  <2> QED
    BY <1>4, <2>1
<1>9. ASSUME NEW n \in DOMAIN log', n \notin DOMAIN log PROVE NewCaused(n)
  <2> HIDE DEF start, tracked, old
  <2>1. /\ n - Len(log) \in 1..Len(recorded) /\ n = Len(log) + (n - Len(log))
        /\ n - Len(log) \in 1..Len(Fresh)
    <3>1. /\ Len(log) \in Nat /\ Len(recorded) \in Nat
          /\ DOMAIN log = 1..Len(log) /\ DOMAIN log' = 1..(Len(log) + Len(recorded))
      BY <1>4
    <3>2. n - Len(log) \in 1..Len(recorded) /\ n = Len(log) + (n - Len(log))
      BY <1>9, <3>1
    <3> QED
      BY <1>5, <3>1, <3>2
  <2>2. PICK j \in 1..Len(recorded) : n = Len(log) + j /\ j \in 1..Len(Fresh)
    BY <2>1
  <2>3. IsContext(documents[Fresh[j]].source, turn)
    BY <1>7, <2>2
  <2>4. documents[Fresh[j]].source < n
    BY <1>4, <2>2, <2>3 DEF IsContext
  <2> QED
    BY <1>8, <2>2, <2>3, <2>4 DEF NewCaused, IsContext
<1>10. \A k \in DOMAIN capture'.requests :
          \/ k \in DOMAIN capture.requests /\ capture'.requests[k] = capture.requests[k]
          \/ \E j \in 1..Len(kept) : k = old + j
  <2> SUFFICES ASSUME NEW k \in DOMAIN capture'.requests, k \notin DOMAIN capture.requests
               PROVE  \E j \in 1..Len(kept) : k = old + j
    BY <1>4
  <2> HIDE DEF start, tracked, old
  <2>1. k - old \in 1..Len(kept) /\ k = old + (k - old)
    BY <1>4
  <2> QED
    BY <2>1
<1> HIDE DEF old
<1>11. ASSUME NEW k \in DOMAIN capture'.requests
       PROVE  LET n == capture'.requests[k].sequence IN
              /\ n \in DOMAIN log'
              /\ log'[n].type = "request.started" /\ log'[n].turn = turn
              /\ log'[n].request = capture'.requests[k].index
  <2>1. CASE k \in DOMAIN capture.requests
    BY <1>4, <1>6, <2>1 DEF CauseInv, HeldInv, LogGrows
  <2>2. CASE k \notin DOMAIN capture.requests
    <3>1. PICK j \in 1..Len(kept) : k = old + j
      BY <1>10, <2>2
    <3>2. capture'.requests[k] = tracked(j)
      BY <1>4, <3>1
    <3>3. capture'.requests[k].sequence = Len(log) + j /\ capture'.requests[k].index = Fresh[j]
      BY <3>2
    <3>4. j \in 1..Len(recorded) /\ Len(log) + j \in DOMAIN log'
      BY <1>4, <1>5
    <3> QED
      BY <1>8, <3>3, <3>4
  <2> QED
    BY <2>1, <2>2
<1>12. ASSUME NEW state \in capture'.tools
       PROVE  LET n == state.sequence IN
              /\ n \in DOMAIN log'
              /\ log'[n].type = "tool.started" /\ log'[n].turn = turn
              /\ log'[n].request = capture'.requests[state.request].index
              /\ log'[n].tool = state.tool
  <2>1. state \in capture.tools /\ state.request \in DOMAIN capture.requests
    BY <1>4 DEF TypeOK
  <2>2. capture'.requests[state.request] = capture.requests[state.request]
    BY <1>4, <2>1
  <2> QED
    BY <1>6, <2>1, <2>2 DEF CauseInv, HeldInv, LogGrows
<1>13. HeldInv'
  <2>1. /\ IsContext(source, turn)'
        /\ \A i \in DOMAIN documents' : IsContext(documents[i].source, documents[i].turn)'
    BY <1>2, <1>3, <1>6 DEF CauseInv, HeldInv, IsContext, LogGrows
  <2> QED
    BY <1>2, <1>3, <1>11, <1>12, <2>1 DEF HeldInv
<1>14. /\ \A n \in DOMAIN log' : log'[n].type # "context" => log'[n].parent \in DOMAIN log'
       /\ CausesHold'
  BY <1>6, <1>9, CausesKept
<1> QED
  BY <1>13, <1>14 DEF CauseInv

\* A line has the request or the tool it is recorded under for a cause.
LEMMA CauseHandle ==
    ASSUME TypeOK, TypeOK', CauseInv, HandleLine
    PROVE  CauseInv'
<1>1. /\ line # None /\ Handle
      /\ UNCHANGED <<documents, turn>>
      /\ client = "prompting" /\ client' \notin {"between", "closed"}
  BY DEF HandleLine, piVars
<1>2. turn # 0
  BY <1>1 DEF CauseInv, HeldInv
<1>3. \A n \in DOMAIN log : n \in Nat
  BY DEF TypeOK
<1>4. SUFFICES /\ HeldInv' /\ LogGrows
               /\ \A n \in DOMAIN log' : n \notin DOMAIN log => NewCaused(n)
  BY CausesKept DEF CauseInv
<1>5. \A k \in DOMAIN capture.requests :
         LET n == capture.requests[k].sequence IN
         /\ n \in DOMAIN log
         /\ log[n].type = "request.started" /\ log[n].turn = turn
         /\ log[n].request = capture.requests[k].index
  BY DEF CauseInv, HeldInv
<1>6. ASSUME NEW e \in EventRecord, NEW k \in DOMAIN capture.requests, log' = Append(log, e),
             e.type \in Settlements \cup {"retry.started", "tool.started"},
             e.turn = turn, e.request = capture.requests[k].index,
             e.parent = capture.requests[k].sequence
      PROVE  LogGrows /\ \A n \in DOMAIN log' : n \notin DOMAIN log => NewCaused(n)
  <2>1. LogGrows
    BY <1>6, AppendAdds
  <2>2. ASSUME NEW n \in DOMAIN log', n \notin DOMAIN log PROVE NewCaused(n)
    <3>1. log'[n] = e /\ \A m \in DOMAIN log : m < n
      BY <1>6, <2>2, AppendAdds
    <3> QED
      BY <1>5, <1>6, <3>1 DEF NewCaused
  <2> QED
    BY <2>1, <2>2
<1>7. CASE CompleteResponse \/ FailResponse
  <2>1. PICK type \in Settlements :
           LET i == FirstUnsettled
               e == Event(type, capture.requests[i].index, None, capture.requests[i].sequence,
                          line.of)
           IN  /\ i \in DOMAIN capture.requests
               /\ e \in EventRecord
               /\ log' = Append(log, e)
               /\ DOMAIN capture'.requests = DOMAIN capture.requests
               /\ \A k \in DOMAIN capture.requests :
                     /\ capture'.requests[k].index = capture.requests[k].index
                     /\ capture'.requests[k].sequence = capture.requests[k].sequence
               /\ capture'.tools = capture.tools
               /\ source' = source
    BY <1>1, <1>7, SettleEffect
  <2>2. LogGrows /\ \A n \in DOMAIN log' : n \notin DOMAIN log => NewCaused(n)
    BY <1>6, <2>1, EventFields
  <2>3. HeldInv'
    BY <1>1, <1>2, <2>1, <2>2, HeldKept DEF TypeOK, CauseInv
  <2> QED
    BY <2>2, <2>3
<1>8. CASE UNCHANGED <<log, capture, source>>
  <2>1. LogGrows /\ \A n \in DOMAIN log' : n \in DOMAIN log
    BY <1>8 DEF LogGrows
  <2>2. HeldInv'
    BY <1>1, <1>2, <1>8, <2>1, HeldKept DEF TypeOK, CauseInv
  <2> QED
    BY <2>1, <2>2
<1>9. CASE StartRetry
  <2>1. Current \in DOMAIN capture.requests
    BY <1>9, CurrentIs DEF StartRetry
  <2> DEFINE e == Event("retry.started", capture.requests[Current].index, None,
                        capture.requests[Current].sequence, line.of)
  <2>2. e \in EventRecord
    BY <1>1, <1>9, RetryTyped DEF StartRetry
  <2>3. log' = Append(log, e) /\ UNCHANGED <<capture, source>>
    BY <1>9 DEF StartRetry, Record
  <2>4. LogGrows /\ \A n \in DOMAIN log' : n \notin DOMAIN log => NewCaused(n)
    BY <1>6, <2>1, <2>2, <2>3, EventFields
  <2>5. HeldInv'
    BY <1>1, <1>2, <2>3, <2>4, HeldKept DEF TypeOK, CauseInv
  <2> QED
    BY <2>4, <2>5
<1>10. CASE RecordToolStart
  <2> DEFINE r == ToolRequest
             e == Event("tool.started", capture.requests[r].index, line.tool,
                        capture.requests[r].sequence, line.of)
             state == [tool |-> line.tool, request |-> r, sequence |-> Len(log) + 1]
  <2>1. /\ r \in DOMAIN capture.requests
        /\ e \in EventRecord
        /\ log' = Append(log, e)
        /\ capture'.requests = capture.requests
        /\ capture'.tools = capture.tools \cup {state}
        /\ source' = source
    BY <1>1, <1>10, ToolStartEffect
  <2>2. /\ e.type = "tool.started" /\ e.turn = turn /\ e.request = capture.requests[r].index
        /\ e.tool = line.tool /\ e.parent = capture.requests[r].sequence
    BY EventFields
  <2>3. /\ state.tool = line.tool /\ state.request = r /\ state.sequence = Len(log) + 1
    OBVIOUS
  <2> HIDE DEF e, state, r
  <2>4. LogGrows /\ \A n \in DOMAIN log' : n \notin DOMAIN log => NewCaused(n)
    BY <1>6, <2>1, <2>2
  <2>5. Len(log) + 1 \in DOMAIN log' /\ log'[Len(log) + 1] = e
    BY <2>1, AppendAdds
  <2>6. \A s \in capture'.tools :
          LET n == s.sequence IN
          /\ n \in DOMAIN log'
          /\ log'[n].type = "tool.started" /\ log'[n].turn = turn
          /\ log'[n].request = capture'.requests[s.request].index
          /\ log'[n].tool = s.tool
    <3> SUFFICES ASSUME NEW s \in capture'.tools
                 PROVE  LET n == s.sequence IN
                        /\ n \in DOMAIN log'
                        /\ log'[n].type = "tool.started" /\ log'[n].turn = turn
                        /\ log'[n].request = capture'.requests[s.request].index
                        /\ log'[n].tool = s.tool
      OBVIOUS
    <3>1. CASE s \in capture.tools
      BY <2>1, <2>4, <3>1 DEF CauseInv, HeldInv, LogGrows
    <3>2. CASE s = state
      BY <2>1, <2>2, <2>3, <2>5, <3>2
    <3> QED
      BY <2>1, <3>1, <3>2
  <2>7. \A k \in DOMAIN capture'.requests :
          LET n == capture'.requests[k].sequence IN
          /\ n \in DOMAIN log'
          /\ log'[n].type = "request.started" /\ log'[n].turn = turn
          /\ log'[n].request = capture'.requests[k].index
    BY <1>5, <2>1, <2>4 DEF LogGrows
  <2>8. /\ IsContext(source, turn)'
        /\ \A i \in DOMAIN documents' : IsContext(documents[i].source, documents[i].turn)'
    BY <1>1, <1>2, <2>1, <2>4 DEF CauseInv, HeldInv, IsContext, LogGrows
  <2>9. HeldInv'
    BY <1>1, <1>2, <2>6, <2>7, <2>8 DEF HeldInv
  <2> QED
    BY <2>4, <2>9
<1>11. CASE RecordToolCompletion
  <2>1. PICK state \in capture.tools : state.tool = line.tool /\ CompleteTool(state)
    BY <1>11 DEF RecordToolCompletion
  <2> DEFINE e == Event("tool.completed", capture.requests[state.request].index, line.tool,
                        state.sequence, line.of)
             c == Event("context", None, None, None, None)
             more == <<e, c>>
  <2>2. /\ e \in EventRecord /\ c \in EventRecord
        /\ log' = log \o more
        /\ capture'.requests = capture.requests
        /\ capture'.tools \subseteq capture.tools
        /\ source' = Len(log) + 2
    BY <1>1, <2>1, ToolEndEffect
  <2>3. /\ e.type = "tool.completed" /\ e.turn = turn
        /\ e.request = capture.requests[state.request].index
        /\ e.tool = line.tool /\ e.parent = state.sequence
        /\ c.type = "context" /\ c.turn = turn /\ c.parent = None
    BY EventFields
  <2> HIDE DEF e, c
  <2>4. more \in Seq(EventRecord) /\ Len(more) = 2 /\ more[1] = e /\ more[2] = c
    BY <2>2
  <2> HIDE DEF more
  <2>5. /\ LogGrows
        /\ \A j \in 1..2 : /\ Len(log) + j \in DOMAIN log' /\ Len(log) + j \notin DOMAIN log
                           /\ log'[Len(log) + j] = more[j]
        /\ \A n \in DOMAIN log' : n \notin DOMAIN log => \E j \in 1..2 : n = Len(log) + j
    BY <2>2, <2>4, ConcatAdds
  <2>6. DOMAIN log = 1..Len(log) /\ Len(log) \in Nat
    BY DEF TypeOK
  <2>7. log'[Len(log) + 1] = e /\ log'[Len(log) + 2] = c /\ Len(log) + 2 \in DOMAIN log'
    BY <2>4, <2>5
  <2>8. /\ state.sequence \in DOMAIN log
        /\ log[state.sequence].type = "tool.started" /\ log[state.sequence].turn = turn
        /\ log[state.sequence].request = capture.requests[state.request].index
        /\ log[state.sequence].tool = line.tool
    BY <2>1 DEF CauseInv, HeldInv
  <2>9. ASSUME NEW n \in DOMAIN log', n \notin DOMAIN log PROVE NewCaused(n)
    <3>1. n = Len(log) + 1 \/ n = Len(log) + 2
      BY <2>5, <2>9
    <3>2. CASE n = Len(log) + 1
      <4>1. state.sequence < n
        BY <2>6, <2>8, <3>2
      <4> QED
        BY <2>3, <2>7, <2>8, <3>2, <4>1 DEF NewCaused
    <3>3. CASE n = Len(log) + 2
      BY <2>3, <2>7, <3>3 DEF NewCaused
    <3> QED
      BY <3>1, <3>2, <3>3
  <2>10. \A s \in capture'.tools :
          LET n == s.sequence IN
          /\ n \in DOMAIN log'
          /\ log'[n].type = "tool.started" /\ log'[n].turn = turn
          /\ log'[n].request = capture'.requests[s.request].index
          /\ log'[n].tool = s.tool
    BY <2>2, <2>5 DEF CauseInv, HeldInv, LogGrows
  <2>11. \A k \in DOMAIN capture'.requests :
          LET n == capture'.requests[k].sequence IN
          /\ n \in DOMAIN log'
          /\ log'[n].type = "request.started" /\ log'[n].turn = turn
          /\ log'[n].request = capture'.requests[k].index
    BY <1>5, <2>2, <2>5 DEF LogGrows
  <2>12. \A i \in DOMAIN documents' : IsContext(documents[i].source, documents[i].turn)'
    BY <1>1, <2>5 DEF CauseInv, HeldInv, IsContext, LogGrows
  <2>13. IsContext(source, turn)'
    BY <1>1, <2>2, <2>3, <2>7 DEF IsContext
  <2>14. HeldInv'
    BY <1>1, <1>2, <2>10, <2>11, <2>12, <2>13 DEF HeldInv
  <2> QED
    BY <2>5, <2>9, <2>14
<1> QED
  BY <1>1, <1>7, <1>8, <1>9, <1>10, <1>11 DEF Handle, EndAgent

\* A turn begins with a context event, and its end fails requests that were
\* recorded in it.
LEMMA CauseTurn ==
    ASSUME TypeOK, TypeOK', CauseInv, BeginTurn \/ EndTurn \/ RefuseLine \/ Eof
    PROVE  CauseInv'
<1>1. CASE BeginTurn
  <2> DEFINE e == [Event("context", None, None, None, None) EXCEPT !.turn = turn']
  <2>1. /\ e \in EventRecord /\ e.type = "context" /\ e.parent = None /\ e.turn = turn'
    BY <1>1, CaptureBounds DEF BeginTurn, TypeOK, Event, EventRecord, EventTypes
  <2>2. /\ log' = Append(log, e) /\ source' = Len(log')
        /\ UNCHANGED <<documents, capture>>
        /\ turn' = turn + 1 /\ turn \in Nat
        /\ client = "between" /\ client' = "prompting"
    BY <1>1, CaptureBounds DEF BeginTurn, TypeOK
  <2> HIDE DEF e
  <2>3. /\ LogGrows
        /\ Len(log) + 1 \in DOMAIN log' /\ log'[Len(log) + 1] = e
        /\ \A n \in DOMAIN log' : n \notin DOMAIN log => n = Len(log) + 1
    BY <2>1, <2>2, AppendAdds
  <2>4. \A n \in DOMAIN log' : n \notin DOMAIN log => NewCaused(n)
    BY <2>1, <2>3 DEF NewCaused
  <2>5. source' = Len(log) + 1
    BY <2>1, <2>2, AppendKeeps DEF TypeOK
  <2>6. IsContext(source, turn)'
    BY <2>1, <2>3, <2>5 DEF IsContext
  <2>7. \A i \in DOMAIN documents' : IsContext(documents[i].source, documents[i].turn)'
    BY <2>2, <2>3 DEF CauseInv, HeldInv, IsContext, LogGrows
  <2>8. DOMAIN capture'.requests = {} /\ capture'.tools = {}
    BY <2>2 DEF CauseInv, HeldInv, NoCapture
  <2>9. HeldInv'
    BY <2>2, <2>6, <2>7, <2>8 DEF HeldInv
  <2> QED
    BY <2>3, <2>4, <2>9, CausesKept DEF CauseInv
<1>2. CASE EndTurn
  <2>1. PICK open \in Seq(Nat) :
           /\ Len(open) = Len(Interrupted)
           /\ \A j \in 1..Len(open) :
                 /\ open[j] \in Unsettled /\ open[j] \in DOMAIN capture.requests
                 /\ Interrupted[j] = Event("response.failed",
                        capture.requests[open[j]].index, None,
                        capture.requests[open[j]].sequence, capture.requests[open[j]].index)
    BY InterruptedIs
  <2>2. log' = log \o Interrupted /\ Interrupted \in Seq(EventRecord)
    BY <1>2, InterruptedIs DEF EndTurn
  <2>3. /\ LogGrows
        /\ \A j \in 1..Len(Interrupted) : /\ Len(log) + j \in DOMAIN log'
                                          /\ log'[Len(log) + j] = Interrupted[j]
        /\ \A n \in DOMAIN log' : n \notin DOMAIN log =>
              \E j \in 1..Len(Interrupted) : n = Len(log) + j
    BY <2>2, ConcatAdds
  <2>4. ASSUME NEW n \in DOMAIN log', n \notin DOMAIN log PROVE NewCaused(n)
    <3>1. PICK j \in 1..Len(open) : n = Len(log) + j
      BY <2>1, <2>3, <2>4
    <3> DEFINE k == open[j]
    <3>2. /\ k \in DOMAIN capture.requests
          /\ log'[n].type = "response.failed" /\ log'[n].turn = turn
          /\ log'[n].request = capture.requests[k].index
          /\ log'[n].parent = capture.requests[k].sequence
      BY <2>1, <2>3, <3>1, EventFields
    <3> HIDE DEF k
    <3>3. /\ capture.requests[k].sequence \in DOMAIN log
          /\ log[capture.requests[k].sequence].type = "request.started"
          /\ log[capture.requests[k].sequence].turn = turn
          /\ log[capture.requests[k].sequence].request = capture.requests[k].index
      BY <3>2 DEF CauseInv, HeldInv
    <3>4. capture.requests[k].sequence < n
      <4>1. DOMAIN log = 1..Len(log) /\ Len(log) \in Nat
        BY DEF TypeOK
      <4>2. Len(open) \in Nat
        OBVIOUS
      <4> QED
        BY <3>1, <3>3, <4>1, <4>2
    <3> QED
      BY <3>2, <3>3, <3>4 DEF NewCaused, Settlements
  <2>5. /\ UNCHANGED <<documents, turn, source>> /\ client # "between"
        /\ capture' = NoCapture /\ DOMAIN capture'.requests = {} /\ capture'.tools = {}
    BY <1>2 DEF EndTurn, NoCapture
  <2>6. turn # 0
    BY <2>5 DEF CauseInv, HeldInv
  <2>7. HeldInv'
    BY <2>3, <2>5, <2>6, HeldKept DEF CauseInv
  <2> QED
    BY <2>3, <2>4, <2>7, CausesKept DEF CauseInv
<1>3. CASE RefuseLine \/ Eof
  <2>1. /\ UNCHANGED <<log, capture, source, turn, documents>>
        /\ client = "prompting" /\ client' = "failing"
    BY <1>3 DEF RefuseLine, Eof, piVars, adapterVars
  <2>2. LogGrows /\ \A n \in DOMAIN log' : n \in DOMAIN log
    BY <2>1 DEF LogGrows
  <2>3. turn # 0
    BY <2>1 DEF CauseInv, HeldInv
  <2>4. HeldInv'
    BY <2>1, <2>2, <2>3, HeldKept DEF TypeOK, CauseInv
  <2> QED
    BY <2>2, <2>4, CausesKept DEF CauseInv
<1> QED
  BY <1>1, <1>2, <1>3

LEMMA CauseStep ==
    ASSUME TypeOK, TypeOK', CauseInv, [Next]_vars
    PROVE  CauseInv'
<1>1. CASE UNCHANGED vars
  BY <1>1 DEF vars, piVars, adapterVars, CauseInv, HeldInv, IsContext, CausesHold, HasCause, CauseOf
<1>2. CASE PiStep \/ PiDies
  BY <1>2, CausePi
<1>3. CASE ClientStep
  BY <1>3, CauseLook, CauseHandle, CauseTurn DEF ClientStep, LookStep
<1> QED
  BY <1>1, <1>2, <1>3 DEF Next

\* Causes precede their effects, are of the right kind, of the same request
\* and tool, and stay in their turn, in every log the adapter can write.
THEOREM CausesAreKept == Spec => []CausesHold
<1>1. Init => TypeOK /\ CauseInv
  <2> SUFFICES ASSUME Init PROVE CauseInv
    BY TypeInit
  <2>1. HeldInv
    BY DEF Init, HeldInv, NoCapture
  <2>2. CausesHold /\ DOMAIN log = {}
    BY DEF Init, CausesHold
  <2> QED
    BY <2>1, <2>2 DEF CauseInv
<1>2. TypeOK /\ CauseInv /\ [Next]_vars => TypeOK' /\ CauseInv'
  BY TypeStep, CauseStep
<1>3. CauseInv => CausesHold
  BY DEF CauseInv
<1> QED
  BY <1>1, <1>2, <1>3, PTL DEF Spec

-----------------------------------------------------------------------------
(* What an answered turn has *)

\* The lines Pi has written and the adapter has not handled.
Unread == (IF line = None THEN <<>> ELSE <<line>>) \o stdout
At(p)  == Unread[p]

\* Pi writes nothing until it is prompted again.
Quiet == pi \in {"waiting", "dead"} /\ ~stdin

EndsPrompt(l) == \/ l.what \in {"answer", "empty"} \/ l.type = "response"
                 \/ (l.type = "agent_end" /\ l.what = "error")
EndsAttempt(l) == l.type \in {"message_end", "agent_end"}
Retries(l)     == l.type = "agent_end" /\ l.what = "retry"

\* What is unread is in the order of the requests it is about; the attempts
\* end one after the other, each message before its agent.
OrderedOutput ==
    /\ \A p \in DOMAIN Unread : At(p).of <= Len(documents)
    /\ \A p, q \in DOMAIN Unread : p < q => At(p).of <= At(q).of
    /\ \A p, q \in DOMAIN Unread :
          p < q /\ EndsAttempt(At(p)) /\ At(q).type = "message_end" => At(p).of < At(q).of
Shaped(p) ==
    /\ At(p).type = "message_end" => At(p).of \in InTurn(turn)
    /\ At(p).type = "response" => At(p).what = "failed"
    /\ At(p).what = "stop" => At(p).type = "message_end"
    /\ At(p).what = "answer" => At(p).type = "agent_end"
    /\ Retries(At(p)) => p + 1 \in DOMAIN Unread /\ At(p + 1).type = "retry_start"
    /\ EndsPrompt(At(p)) => p = Len(Unread)
    /\ EndsPrompt(At(p)) \/ At(p).what = "stop" => Quiet
    /\ At(p).what \in {"stop", "answer"} => At(p).of = Len(documents)
    /\ At(p).what = "answer" /\ p # 1 => At(p - 1).what = "stop"
OutputInv == OrderedOutput /\ \A p \in DOMAIN Unread : Shaped(p)

\* The request Pi is at is of this turn, and no line has ended it; a prompt
\* that waits is the first thing of its turn.
AttemptInv ==
    /\ pi \in {"captured", "provider"} =>
          /\ Len(documents) \in InTurn(turn)
          /\ \A p \in DOMAIN Unread : EndsAttempt(At(p)) => At(p).of < Len(documents)
    /\ stdin => pi \in {"waiting", "dead"} /\ InTurn(turn) = {}
    /\ pi # "round" => called = {} /\ running = {}

\* The documents up to the line that is handled have been looked at, and the
\* requests are tracked in their order.
LookedInv ==
    /\ line # None => \A d \in InTurn(turn) : d <= line.of => d \in seen
    /\ \A j, k \in DOMAIN capture.requests :
          j < k => capture.requests[j].index < capture.requests[k].index
    /\ \A k \in DOMAIN capture.requests : capture.requests[k].index \in InTurn(turn) \cap seen
    /\ \A d \in InTurn(turn) \cap seen :
          \E k \in DOMAIN capture.requests : capture.requests[k].index = d

\* Nothing Pi ran is lost, unless Pi died before it answered.
Ends(p, x) == p \in DOMAIN Unread /\ At(p).type = "tool_end" /\ At(p).tool = x
Completed(x, t) == \E n \in DOMAIN log : /\ log[n].type = "tool.completed"
                                         /\ log[n].turn = t /\ log[n].tool = x
Whole == pi = "dead" => \E p \in DOMAIN Unread : At(p).what = "answer"
ToolsKept ==
    /\ \A n \in DOMAIN log : log[n].type = "tool.started" /\ log[n].turn = turn =>
          \/ Completed(log[n].tool, turn)
          \/ log[n].tool \in running
          \/ \E p \in DOMAIN Unread : Ends(p, log[n].tool)
    /\ \A p \in DOMAIN Unread : At(p).type = "tool_start" =>
          \/ At(p).tool \in running
          \/ \E q \in DOMAIN Unread : p < q /\ Ends(q, At(p).tool)
ToolsInv == Whole => ToolsKept

\* The requests that are tracked as settled, and those of which Pi must have
\* written how they ended.
Settled(d) == \E k \in DOMAIN capture.requests :
                 capture.requests[k].index = d /\ capture.requests[k].settled
Ended(d) == d \in InTurn(turn) /\ (d < Len(documents) \/ pi \in {"hook", "round"})

\* Every settlement of the turn is under the request it is of.
Exact(t) == \A n \in DOMAIN log :
               log[n].turn = t /\ log[n].type \in Settlements => log[n].of = log[n].request

\* Whether a line was written, when the attempt at request d ended.
Marks(p, d) == p \in DOMAIN Unread /\ At(p).of = d
               /\ (At(p).type = "message_end" \/ Retries(At(p)))

\* The unread lines are those of the requests that are not settled.
InStep ==
    /\ Exact(turn)
    /\ \A d, e \in InTurn(turn) : d < e /\ Settled(e) => Settled(d)
    /\ \A p \in DOMAIN Unread : At(p).type = "message_end" => ~Settled(At(p).of)
    /\ \A d \in InTurn(turn) : Ended(d) /\ ~Settled(d) => \E p \in DOMAIN Unread : Marks(p, d)
    /\ pi \in {"captured", "provider"} => ~Settled(Len(documents))

\* The end of an attempt, which was retried, has settled the request after it:
\* the next message to end is of m, the last request that is settled, and there
\* will be no request left for the last one.
AheadAt(m) ==
    /\ m \in InTurn(turn)
    /\ \A d \in InTurn(turn) : Settled(d) <=> d <= m
    /\ \A p \in DOMAIN Unread : At(p).type = "message_end" => At(p).of >= m
    /\ \A d \in InTurn(turn) : Ended(d) /\ d >= m => \E p \in DOMAIN Unread : Marks(p, d)
RetryLogged(n) == n \in DOMAIN log /\ log[n].type = "retry.started" /\ log[n].turn = turn
RetryUnread(p) == p \in DOMAIN Unread /\ At(p).type = "retry_start"
OneAhead ==
    /\ (\E n \in DOMAIN log : RetryLogged(n)) \/ \E p \in DOMAIN Unread : RetryUnread(p)
    /\ \A p \in DOMAIN Unread : ~Retries(At(p))
    /\ 1 \in DOMAIN Unread => At(1).what # "answer"
    /\ \E m \in InTurn(turn) : AheadAt(m)

\* The turn has, or will have, two retries in the log.
RetriedAgain ==
    \/ \E m, n \in DOMAIN log : m # n /\ RetryLogged(m) /\ RetryLogged(n)
    \/ \E n \in DOMAIN log, p \in DOMAIN Unread : RetryLogged(n) /\ RetryUnread(p)
    \/ \E p, q \in DOMAIN Unread : p # q /\ RetryUnread(p) /\ RetryUnread(q)

ModeInv == InStep \/ OneAhead \/ RetriedAgain

PromptInv == OutputInv /\ AttemptInv /\ LookedInv /\ ToolsInv /\ ModeInv

\* What the property says of one turn.
ExactTurn(t) ==
    /\ InTurn(t) \subseteq acks
    /\ \A n \in DOMAIN log :
          log[n].type = "tool.started" /\ log[n].turn = t => Completed(log[n].tool, t)
    /\ RetriedOnce(t) => Exact(t)

AnsweredInv ==
    /\ client = "prompting" => PromptInv
    /\ client \in {"answered", "between"} =>
          stdout = <<>> /\ line = None /\ Quiet /\ called = {} /\ running = {}
    /\ client = "answered" => ExactTurn(turn)
    /\ \A n \in DOMAIN log : log[n].turn <= turn
    /\ \A t \in answered : t < turn \/ (t = turn /\ client = "between")
    /\ \A t \in answered : ExactTurn(t)

-----------------------------------------------------------------------------
(* Unread lines *)

LEMMA UnreadTyped ==
    ASSUME TypeOK
    PROVE  /\ Unread \in Seq(OutputLine)
           /\ Len(Unread) \in Nat /\ DOMAIN Unread = 1..Len(Unread)
           /\ \A p \in DOMAIN Unread : At(p) \in OutputLine /\ At(p).of \in Nat
<1>1. stdout \in Seq(OutputLine) /\ line \in OutputLine \cup {None}
  BY DEF TypeOK
<1>2. Unread \in Seq(OutputLine)
  <2>1. CASE line = None
    BY <1>1, <2>1 DEF Unread
  <2>2. CASE line # None
    <3>1. <<line>> \in Seq(OutputLine)
      BY <1>1, <2>2
    <3>2. <<line>> \o stdout \in Seq(OutputLine)
      BY <1>1, <3>1, ConcatKeeps
    <3> QED
      BY <2>2, <3>2 DEF Unread
  <2> QED
    BY <2>1, <2>2
<1>3. \A p \in DOMAIN Unread : At(p) \in OutputLine
  BY <1>2 DEF At
<1>4. \A l \in OutputLine : l.of \in Nat
  BY DEF OutputLine
<1>5. Len(Unread) \in Nat /\ DOMAIN Unread = 1..Len(Unread)
  BY <1>2
<1> QED
  BY <1>2, <1>3, <1>4, <1>5

\* What Pi writes comes after what is unread.
LEMMA EmitUnread ==
    ASSUME TypeOK, NEW lines \in Seq(OutputLine), stdout' = stdout \o lines, line' = line
    PROVE  /\ Unread' \in Seq(OutputLine) /\ Len(Unread') = Len(Unread) + Len(lines)
           /\ DOMAIN Unread' = 1..(Len(Unread) + Len(lines)) /\ Len(lines) \in Nat
           /\ \A p \in DOMAIN Unread : p \in DOMAIN Unread' /\ At(p)' = At(p)
           /\ \A j \in DOMAIN lines : /\ Len(Unread) + j \in DOMAIN Unread'
                                      /\ Unread'[Len(Unread) + j] = lines[j]
           /\ \A p \in DOMAIN Unread' : p \notin DOMAIN Unread =>
                 \E j \in DOMAIN lines : p = Len(Unread) + j
<1> DEFINE u == Unread
<1>1. u \in Seq(OutputLine) /\ stdout \in Seq(OutputLine) /\ line \in OutputLine \cup {None}
  BY UnreadTyped DEF TypeOK
<1>2. Unread' = u \o lines
  <2>1. CASE line = None
    BY <1>1, <2>1 DEF Unread
  <2>2. CASE line # None
    <3>1. <<line>> \in Seq(OutputLine)
      BY <1>1, <2>2
    <3>2. (<<line>> \o stdout) \o lines = <<line>> \o (stdout \o lines)
      BY <1>1, <3>1
    <3> QED
      BY <2>2, <3>2 DEF Unread
  <2> QED
    BY <2>1, <2>2
<1>3. /\ u \o lines \in Seq(OutputLine)
      /\ DOMAIN u = 1..Len(u) /\ Len(u) \in Nat
      /\ DOMAIN lines = 1..Len(lines) /\ Len(lines) \in Nat
      /\ Len(u \o lines) = Len(u) + Len(lines)
      /\ DOMAIN (u \o lines) = 1..(Len(u) + Len(lines))
      /\ \A i \in 1..Len(u) : (u \o lines)[i] = u[i]
      /\ \A j \in 1..Len(lines) : (u \o lines)[Len(u) + j] = lines[j]
  <2> HIDE DEF u
  <2> QED
    BY <1>1, ConcatKeeps
<1> HIDE DEF u
<1>4. /\ DOMAIN Unread' = 1..(Len(u) + Len(lines))
      /\ \A p \in DOMAIN u : p \in DOMAIN Unread' /\ Unread'[p] = u[p]
      /\ \A j \in DOMAIN lines : Len(u) + j \in DOMAIN Unread' /\ Unread'[Len(u) + j] = lines[j]
  BY <1>2, <1>3
<1>5. \A p \in DOMAIN Unread' : p \notin DOMAIN u => \E j \in DOMAIN lines : p = Len(u) + j
  <2> SUFFICES ASSUME NEW p \in 1..(Len(u) + Len(lines)), p \notin 1..Len(u)
               PROVE  \E j \in 1..Len(lines) : p = Len(u) + j
    BY <1>3, <1>4
  <2>1. p - Len(u) \in 1..Len(lines) /\ p = Len(u) + (p - Len(u))
    BY <1>3
  <2> QED
    BY <2>1
<1> QED
  BY <1>2, <1>3, <1>4, <1>5 DEF u, At

\* A line is handled: the others move up.
LEMMA PopUnread ==
    ASSUME TypeOK, line # None, line' = None, stdout' = stdout
    PROVE  /\ 1 \in DOMAIN Unread /\ At(1) = line
           /\ Len(Unread') \in Nat /\ Len(Unread) = Len(Unread') + 1
           /\ DOMAIN Unread = 1..(Len(Unread') + 1) /\ DOMAIN Unread' = 1..Len(Unread')
           /\ \A p \in DOMAIN Unread' : /\ p \in Nat
                                        /\ p + 1 \in DOMAIN Unread /\ p + 1 # 1
                                        /\ At(p)' = At(p + 1)
           /\ \A p \in DOMAIN Unread : p # 1 => /\ p \in Nat /\ p - 1 \in DOMAIN Unread'
                                                /\ At(p - 1)' = At(p) /\ (p - 1) + 1 = p
<1>1. stdout \in Seq(OutputLine) /\ line \in OutputLine
  BY DEF TypeOK
<1>2. Unread' = stdout /\ Unread = <<line>> \o stdout
  BY <1>1 DEF Unread
<1>3. /\ Len(stdout) \in Nat /\ DOMAIN stdout = 1..Len(stdout)
      /\ Len(<<line>> \o stdout) = Len(stdout) + 1
      /\ DOMAIN (<<line>> \o stdout) = 1..(Len(stdout) + 1)
      /\ (<<line>> \o stdout)[1] = line
      /\ \A p \in 1..Len(stdout) : (<<line>> \o stdout)[p + 1] = stdout[p]
  BY <1>1
<1>4. \A p \in 1..(Len(stdout) + 1) : p # 1 =>
         p - 1 \in 1..Len(stdout) /\ (<<line>> \o stdout)[p] = stdout[p - 1]
  <2> SUFFICES ASSUME NEW p \in 1..(Len(stdout) + 1), p # 1
               PROVE  p - 1 \in 1..Len(stdout) /\ (<<line>> \o stdout)[p] = stdout[p - 1]
    OBVIOUS
  <2>1. p - 1 \in 1..Len(stdout) /\ (p - 1) + 1 = p
    BY <1>3
  <2> QED
    BY <1>3, <2>1
<1> QED
  BY <1>2, <1>3, <1>4 DEF At

\* Reading a line leaves it unread.
LEMMA TakeUnread ==
    ASSUME TypeOK, LookStep
    PROVE  Unread' = Unread
<1>1. stdout \in Seq(OutputLine)
  BY DEF TypeOK
<1>2. CASE TakeLine
  <2>1. stdout # <<>> /\ line = None /\ line' = Head(stdout) /\ stdout' = Tail(stdout)
    BY <1>2 DEF TakeLine
  <2>2. Head(stdout) \in OutputLine /\ <<Head(stdout)>> \o Tail(stdout) = stdout
    BY <1>1, <2>1
  <2>3. Head(stdout) # None
    BY <2>2, NoneApart
  <2> QED
    BY <1>1, <2>1, <2>2, <2>3 DEF Unread
<1>3. CASE Poll \/ CaptureFault
  BY <1>3 DEF Poll, CaptureFault, piVars, Unread
<1> QED
  BY <1>2, <1>3 DEF LookStep

-----------------------------------------------------------------------------
(* Pi writes *)

\* What the lines are that Pi writes in one step.
GoodLine(lines, j) ==
    /\ lines[j].of = Len(documents)
    /\ lines[j].type = "message_end" => j = 1 /\ pi = "provider"
    /\ lines[j].type = "response" => lines[j].what = "failed"
    /\ lines[j].what = "stop" => lines[j].type = "message_end"
    /\ lines[j].what = "answer" => /\ lines[j].type = "agent_end"
                                   /\ j # 1 /\ lines[j - 1].what = "stop"
    /\ Retries(lines[j]) => j + 1 \in DOMAIN lines /\ lines[j + 1].type = "retry_start"
    /\ EndsPrompt(lines[j]) => j = Len(lines)
    /\ EndsPrompt(lines[j]) \/ lines[j].what = "stop" => Quiet'
Emits(lines) ==
    /\ lines \in Seq(OutputLine)
    /\ stdout' = stdout \o lines
    /\ UNCHANGED <<line, documents, turn, log, capture, seen, acks, client, answered>>
    /\ ~Quiet
    /\ \A j \in DOMAIN lines : GoodLine(lines, j)

\* No line that ends a prompt, or the message before it, is unread while Pi
\* goes on.
LEMMA NotQuiet ==
    ASSUME OutputInv, ~Quiet
    PROVE  \A p \in DOMAIN Unread : /\ ~EndsPrompt(At(p)) /\ At(p).what # "stop"
                                    /\ At(p).what # "answer"
BY DEF OutputInv, Shaped, EndsPrompt

LEMMA OrderEmits ==
    ASSUME TypeOK, OutputInv, AttemptInv, NEW lines, Emits(lines)
    PROVE  OrderedOutput'
<1> DEFINE n == Len(Unread)
           d == Len(documents)
<1>1. /\ n \in Nat /\ DOMAIN Unread = 1..n
      /\ \A p \in DOMAIN Unread : At(p).of \in Nat
  BY UnreadTyped
<1>2. /\ lines \in Seq(OutputLine) /\ stdout' = stdout \o lines /\ line' = line
      /\ documents' = documents /\ d \in Nat
  BY DEF Emits, TypeOK
<1>3. /\ \A p \in DOMAIN Unread : p \in DOMAIN Unread' /\ At(p)' = At(p)
      /\ \A j \in DOMAIN lines : Unread'[n + j] = lines[j]
      /\ \A p \in DOMAIN Unread' : p \notin DOMAIN Unread => \E j \in DOMAIN lines : p = n + j
  BY <1>2, EmitUnread
<1>4. DOMAIN lines = 1..Len(lines) /\ Len(lines) \in Nat
  BY <1>2
<1>5. \A j \in DOMAIN lines : /\ lines[j].of = d
                              /\ lines[j].type = "message_end" => j = 1 /\ pi = "provider"
  BY DEF Emits, GoodLine
<1>6. /\ \A p \in DOMAIN Unread : At(p).of <= d
      /\ \A p, q \in DOMAIN Unread : p < q => At(p).of <= At(q).of
      /\ \A p, q \in DOMAIN Unread :
            p < q /\ EndsAttempt(At(p)) /\ At(q).type = "message_end" => At(p).of < At(q).of
  BY DEF OutputInv, OrderedOutput
<1>7. pi = "provider" => \A p \in DOMAIN Unread : EndsAttempt(At(p)) => At(p).of < d
  BY DEF AttemptInv
<1> HIDE DEF n, d
<1>8. \A p \in DOMAIN Unread' :
         \/ p \in DOMAIN Unread /\ At(p)' = At(p)
         \/ /\ p \notin DOMAIN Unread /\ p \in Nat /\ p > n /\ At(p)'.of = d
            /\ At(p)'.type = "message_end" => p = n + 1 /\ pi = "provider"
  <2> SUFFICES ASSUME NEW p \in DOMAIN Unread', p \notin DOMAIN Unread
               PROVE  /\ p \in Nat /\ p > n /\ At(p)'.of = d
                      /\ At(p)'.type = "message_end" => p = n + 1 /\ pi = "provider"
    BY <1>3
  <2>1. PICK j \in DOMAIN lines : p = n + j
    BY <1>3
  <2>2. At(p)' = lines[j]
    BY <1>3, <2>1 DEF At
  <2>3. j \in Nat /\ j > 0
    BY <1>4
  <2> QED
    BY <1>1, <1>5, <2>1, <2>2, <2>3
<1>9. d' = d
  BY <1>2 DEF d
<1>10. \A p \in DOMAIN Unread' : At(p)'.of <= d
  BY <1>2, <1>6, <1>8
<1>11. \A p, q \in DOMAIN Unread' : p < q => At(p)'.of <= At(q)'.of
  <2> SUFFICES ASSUME NEW p \in DOMAIN Unread', NEW q \in DOMAIN Unread', p < q
               PROVE  At(p)'.of <= At(q)'.of
    OBVIOUS
  <2>1. CASE q \in DOMAIN Unread
    <3>1. p \in DOMAIN Unread
      BY <1>1, <1>8, <2>1
    <3> QED
      BY <1>3, <1>6, <2>1, <3>1
  <2>2. CASE q \notin DOMAIN Unread
    <3>1. At(q)'.of = d
      BY <1>8, <2>2
    <3> QED
      BY <1>10, <3>1
  <2> QED
    BY <2>1, <2>2
<1>12. \A p, q \in DOMAIN Unread' :
          p < q /\ EndsAttempt(At(p))' /\ At(q)'.type = "message_end" => At(p)'.of < At(q)'.of
  <2> SUFFICES ASSUME NEW p \in DOMAIN Unread', NEW q \in DOMAIN Unread', p < q,
                      EndsAttempt(At(p))', At(q)'.type = "message_end"
               PROVE  At(p)'.of < At(q)'.of
    OBVIOUS
  <2>1. CASE q \in DOMAIN Unread
    <3>1. p \in DOMAIN Unread
      BY <1>1, <1>8, <2>1
    <3> QED
      BY <1>3, <1>6, <2>1, <3>1 DEF EndsAttempt
  <2>2. CASE q \notin DOMAIN Unread
    <3>1. q = n + 1 /\ pi = "provider" /\ At(q)'.of = d
      BY <1>8, <2>2
    <3>2. p \in DOMAIN Unread
      BY <1>1, <1>8, <3>1
    <3> QED
      BY <1>3, <1>7, <3>1, <3>2 DEF EndsAttempt
  <2> QED
    BY <2>1, <2>2
<1> QED
  BY <1>9, <1>10, <1>11, <1>12 DEF OrderedOutput, d

LEMMA ShapeEmits ==
    ASSUME TypeOK, OutputInv, AttemptInv, NEW lines, Emits(lines)
    PROVE  \A p \in DOMAIN Unread' : Shaped(p)'
<1> DEFINE n == Len(Unread)
           N == Len(Unread')
<1>1. n \in Nat /\ DOMAIN Unread = 1..n
  BY UnreadTyped
<1>2. /\ lines \in Seq(OutputLine) /\ stdout' = stdout \o lines /\ line' = line
      /\ documents' = documents /\ turn' = turn /\ ~Quiet
      /\ \A j \in DOMAIN lines : GoodLine(lines, j)
  BY DEF Emits
<1>3. /\ \A p \in DOMAIN Unread : p \in DOMAIN Unread' /\ At(p)' = At(p)
      /\ \A j \in DOMAIN lines : n + j \in DOMAIN Unread' /\ Unread'[n + j] = lines[j]
      /\ \A p \in DOMAIN Unread' : p \notin DOMAIN Unread => \E j \in DOMAIN lines : p = n + j
      /\ N = n + Len(lines)
  BY <1>2, EmitUnread
<1>4. DOMAIN lines = 1..Len(lines) /\ Len(lines) \in Nat
  BY <1>2
<1>5. InTurn(turn)' = InTurn(turn)
  BY <1>2 DEF InTurn
<1> HIDE DEF n, N
<1>6. ASSUME NEW p \in DOMAIN Unread PROVE Shaped(p)'
  <2>1. /\ Shaped(p) /\ ~EndsPrompt(At(p)) /\ At(p).what # "stop" /\ At(p).what # "answer"
        /\ At(p)' = At(p)
    BY <1>2, <1>3, NotQuiet DEF OutputInv
  <2>2. Retries(At(p)) => p + 1 \in DOMAIN Unread' /\ At(p + 1)'.type = "retry_start"
    BY <1>3, <2>1 DEF Shaped
  <2> QED
    BY <1>2, <1>5, <2>1, <2>2 DEF Shaped, Retries, EndsPrompt
<1>7. ASSUME NEW p \in DOMAIN Unread', p \notin DOMAIN Unread PROVE Shaped(p)'
  <2>1. PICK j \in DOMAIN lines : p = n + j
    BY <1>3, <1>7
  <2>2. At(p)' = lines[j] /\ GoodLine(lines, j) /\ j \in Nat /\ j > 0
    BY <1>2, <1>3, <1>4, <2>1 DEF At
  <2>3. Retries(lines[j]) => p + 1 \in DOMAIN Unread' /\ At(p + 1)'.type = "retry_start"
    <3> SUFFICES ASSUME Retries(lines[j])
                 PROVE  p + 1 \in DOMAIN Unread' /\ At(p + 1)'.type = "retry_start"
      OBVIOUS
    <3>1. j + 1 \in DOMAIN lines /\ lines[j + 1].type = "retry_start" /\ p + 1 = n + (j + 1)
      BY <1>1, <2>1, <2>2 DEF GoodLine
    <3>2. p + 1 \in DOMAIN Unread' /\ Unread'[p + 1] = lines[j + 1]
      BY <1>3, <3>1
    <3> QED
      BY <3>1, <3>2 DEF At
  <2>4. lines[j].what = "answer" /\ p # 1 => At(p - 1)'.what = "stop"
    <3> SUFFICES ASSUME lines[j].what = "answer" PROVE At(p - 1)'.what = "stop"
      OBVIOUS
    <3>1. j - 1 \in DOMAIN lines /\ lines[j - 1].what = "stop" /\ p - 1 = n + (j - 1)
      BY <1>1, <1>4, <2>1, <2>2 DEF GoodLine
    <3>2. Unread'[p - 1] = lines[j - 1]
      BY <1>3, <3>1
    <3> QED
      BY <3>1, <3>2 DEF At
  <2>5. lines[j].type = "message_end" => lines[j].of \in InTurn(turn)
    BY <2>2 DEF GoodLine, AttemptInv
  <2>6. EndsPrompt(lines[j]) => p = N
    BY <1>3, <2>1, <2>2 DEF GoodLine
  <2>7. lines[j].what \in {"stop", "answer"} => lines[j].of = Len(documents)
    BY <2>2 DEF GoodLine
  <2>8. /\ EndsPrompt(lines[j]) \/ lines[j].what = "stop" => Quiet'
        /\ lines[j].type = "response" => lines[j].what = "failed"
        /\ lines[j].what = "stop" => lines[j].type = "message_end"
        /\ lines[j].what = "answer" => lines[j].type = "agent_end"
    BY <2>2 DEF GoodLine
  <2> QED
    BY <1>2, <1>5, <2>2, <2>3, <2>4, <2>5, <2>6, <2>7, <2>8 DEF Shaped, Retries, EndsPrompt, N
<1> QED
  BY <1>6, <1>7

LEMMA OutputEmits ==
    ASSUME TypeOK, OutputInv, AttemptInv, NEW lines, Emits(lines)
    PROVE  OutputInv'
BY OrderEmits, ShapeEmits DEF OutputInv

\* What one step of Pi writes, and what it leaves behind.
Writes(lines) ==
    /\ Emits(lines)
    /\ pi # "dead" /\ pi' \in {"waiting", "hook", "round"} /\ ~stdin'
    /\ pi' # "round" => called' = {} /\ running' = {}
    /\ \A x \in running : \/ x \in running'
                          \/ \E j \in DOMAIN lines : lines[j].type = "tool_end" /\ lines[j].tool = x
    /\ \A j \in DOMAIN lines : lines[j].type = "tool_start" => lines[j].tool \in running'
    /\ pi' # "waiting" /\ pi \notin {"hook", "round"} =>
          \E j \in DOMAIN lines : lines[j].type = "message_end" \/ Retries(lines[j])

LEMMA SameLists ==
    ASSUME NEW S, NEW s \in Seq(S), NEW t \in Seq(S), Len(s) = Len(t),
           \A i \in 1..Len(s) : s[i] = t[i]
    PROVE  s = t
  OBVIOUS

LEMMA ConcatIs ==
    ASSUME NEW S, NEW u \in Seq(S), NEW v \in Seq(S), NEW t \in Seq(S),
           Len(t) = Len(u) + Len(v),
           \A i \in 1..Len(u) : t[i] = u[i], \A j \in 1..Len(v) : t[Len(u) + j] = v[j]
    PROVE  u \o v = t
<1> DEFINE w == u \o v
<1>1. /\ w \in Seq(S) /\ Len(w) = Len(u) + Len(v) /\ Len(u) \in Nat /\ Len(v) \in Nat
      /\ \A i \in 1..Len(u) : w[i] = u[i]
      /\ \A j \in 1..Len(v) : w[Len(u) + j] = v[j]
  BY ConcatKeeps
<1> HIDE DEF w
<1>2. ASSUME NEW i \in 1..Len(w) PROVE w[i] = t[i]
  <2>1. CASE i \in 1..Len(u)
    BY <1>1, <2>1
  <2>2. CASE i \notin 1..Len(u)
    <3>1. i - Len(u) \in 1..Len(v) /\ i = Len(u) + (i - Len(u))
      BY <1>1, <2>2
    <3> QED
      BY <1>1, <3>1
  <2> QED
    BY <2>1, <2>2
<1>3. w = t
  BY <1>1, <1>2, SameLists
<1> QED
  BY <1>3 DEF w

\* The lines of a failed attempt, as one list.
LEMMA JoinLines ==
    ASSUME NEW a \in OutputLine, NEW b \in OutputLine, NEW c \in OutputLine
    PROVE  <<a>> \o <<b>> = <<a, b>> /\ <<a>> \o <<b, c>> = <<a, b, c>>
<1> DEFINE one == <<a>>
           two == <<b, c>>
           three == <<a, b, c>>
           last == <<b>>
           pair == <<a, b>>
<1>1. /\ one \in Seq(OutputLine) /\ Len(one) = 1 /\ one[1] = a
      /\ last \in Seq(OutputLine) /\ Len(last) = 1 /\ last[1] = b
      /\ two \in Seq(OutputLine) /\ Len(two) = 2 /\ two[1] = b /\ two[2] = c
  OBVIOUS
<1>2. /\ pair \in Seq(OutputLine) /\ Len(pair) = 2 /\ pair[1] = a /\ pair[1 + 1] = b
      /\ three \in Seq(OutputLine) /\ Len(three) = 3
      /\ three[1] = a /\ three[1 + 1] = b /\ three[1 + 2] = c
  OBVIOUS
<1> HIDE DEF one, two, three, last, pair
<1>3. one \o last = pair
  <2>1. /\ Len(pair) = Len(one) + Len(last) /\ \A i \in 1..Len(one) : pair[i] = one[i]
        /\ \A j \in 1..Len(last) : pair[Len(one) + j] = last[j]
    BY <1>1, <1>2
  <2> QED
    BY <1>1, <1>2, <2>1, ConcatIs
<1>4. one \o two = three
  <2>1. /\ Len(three) = Len(one) + Len(two) /\ \A i \in 1..Len(one) : three[i] = one[i]
        /\ \A j \in 1..Len(two) : three[Len(one) + j] = two[j]
    BY <1>1, <1>2
  <2> QED
    BY <1>1, <1>2, <2>1, ConcatIs
<1> QED
  BY <1>3, <1>4 DEF one, two, three, last, pair

LEMMA WritesTools ==
    ASSUME TypeOK, AttemptInv, PiStep, UseTools \/ \E x \in Tools : StartTool(x) \/ EndTool(x)
    PROVE  \E lines : Writes(lines)
<1>1. UNCHANGED <<line, turn, log, capture, seen, acks, client, answered>>
  BY DEF PiStep, adapterVars
<1>2. CASE UseTools
  <2> DEFINE l == Line("message_end", "toolUse", None)
  <2>1. l \in OutputLine
    BY LineTyped
  <2>2. /\ l.type = "message_end" /\ l.what = "toolUse" /\ l.of = Len(documents)
    BY DEF Line, Request
  <2>3. /\ stdout' = stdout \o <<l>> /\ documents' = documents
        /\ pi = "provider" /\ pi' = "round" /\ stdin' = stdin /\ running' = running
    BY <1>2 DEF UseTools, Emit
  <2> HIDE DEF l
  <2>4. ~stdin /\ running = {} /\ ~Quiet
    BY <2>3 DEF AttemptInv, Quiet
  <2>5. Emits(<<l>>)
    BY <1>1, <2>1, <2>2, <2>3, <2>4 DEF Emits, GoodLine, Retries, EndsPrompt
  <2>6. Writes(<<l>>)
    BY <2>1, <2>2, <2>3, <2>4, <2>5 DEF Writes
  <2> QED
    BY <2>6
<1>3. ASSUME NEW tool \in Tools, StartTool(tool) PROVE \E lines : Writes(lines)
  <2> DEFINE l == Line("tool_start", "", tool)
  <2>1. l \in OutputLine
    BY LineTyped
  <2>2. /\ l.type = "tool_start" /\ l.what = "" /\ l.tool = tool /\ l.of = Len(documents)
    BY DEF Line, Request
  <2>3. /\ stdout' = stdout \o <<l>> /\ documents' = documents /\ called # {}
        /\ pi' = pi /\ stdin' = stdin /\ running' = running \cup {tool}
    BY <1>3 DEF StartTool, Emit
  <2> HIDE DEF l
  <2>4. ~stdin /\ pi = "round" /\ ~Quiet
    BY <2>3 DEF AttemptInv, Quiet
  <2> DEFINE lines == <<l>>
  <2>5. /\ lines \in Seq(OutputLine) /\ DOMAIN lines = {1} /\ Len(lines) = 1 /\ lines[1] = l
        /\ stdout' = stdout \o lines
    BY <2>1, <2>3
  <2> HIDE DEF lines
  <2>6. Emits(lines)
    BY <1>1, <2>2, <2>3, <2>4, <2>5 DEF Emits, GoodLine, Retries, EndsPrompt
  <2>7. Writes(lines)
    BY <2>2, <2>3, <2>4, <2>5, <2>6 DEF Writes
  <2> QED
    BY <2>7
<1>4. ASSUME NEW tool \in Tools, EndTool(tool) PROVE \E lines : Writes(lines)
  <2> DEFINE l == Line("tool_end", "", tool)
  <2>1. l \in OutputLine
    BY LineTyped
  <2>2. /\ l.type = "tool_end" /\ l.what = "" /\ l.tool = tool /\ l.of = Len(documents)
    BY DEF Line, Request
  <2>3. /\ stdout' = stdout \o <<l>> /\ documents' = documents /\ running # {}
        /\ pi' = IF called = {} /\ running' = {} THEN "hook" ELSE pi
        /\ stdin' = stdin /\ running' = running \ {tool} /\ called' = called
    BY <1>4 DEF EndTool, Emit
  <2> HIDE DEF l
  <2>4. ~stdin /\ pi = "round" /\ ~Quiet
    BY <2>3 DEF AttemptInv, Quiet
  <2> DEFINE lines == <<l>>
  <2>5. /\ lines \in Seq(OutputLine) /\ DOMAIN lines = {1} /\ Len(lines) = 1 /\ lines[1] = l
        /\ stdout' = stdout \o lines
    BY <2>1, <2>3
  <2> HIDE DEF lines
  <2>6. Emits(lines)
    BY <1>1, <2>2, <2>3, <2>4, <2>5 DEF Emits, GoodLine, Retries, EndsPrompt
  <2>7. Writes(lines)
    BY <2>2, <2>3, <2>4, <2>5, <2>6 DEF Writes
  <2> QED
    BY <2>7
<1> QED
  BY <1>2, <1>3, <1>4

LEMMA WritesEnds ==
    ASSUME TypeOK, AttemptInv, PiStep, RefusePrompt \/ Answer \/ FailAttempt
    PROVE  \E lines : Writes(lines)
<1>1. /\ UNCHANGED <<line, turn, log, capture, seen, acks, client, answered>>
      /\ documents' = documents /\ called' = called /\ running' = running
  BY DEF PiStep, adapterVars, RefusePrompt, Answer, FailAttempt
<1>2. /\ called = {} /\ running = {} /\ ~Quiet /\ pi # "dead" /\ pi \notin {"hook", "round"}
      /\ pi = "provider" => ~stdin
  BY DEF RefusePrompt, Answer, FailAttempt, AttemptInv, Quiet
<1>3. CASE RefusePrompt
  <2> DEFINE l == Line("response", "failed", None)
  <2>1. l \in OutputLine
    BY LineTyped
  <2>2. /\ l.type = "response" /\ l.what = "failed" /\ l.of = Len(documents)
    BY DEF Line, Request
  <2>3. stdout' = stdout \o <<l>> /\ ~stdin' /\ pi' = "waiting"
    BY <1>3 DEF RefusePrompt, Emit
  <2> HIDE DEF l
  <2>4. Emits(<<l>>)
    BY <1>1, <1>2, <2>1, <2>2, <2>3 DEF Emits, GoodLine, Retries, EndsPrompt, Quiet
  <2>5. Writes(<<l>>)
    BY <1>1, <1>2, <2>1, <2>2, <2>3, <2>4 DEF Writes
  <2> QED
    BY <2>5
<1>4. CASE Answer
  <2>1. PICK what \in {"answer", "empty"} :
           stdout' = stdout \o <<Line("message_end", "stop", None), Line("agent_end", what, None)>>
    BY <1>4 DEF Answer, Emit
  <2> DEFINE l == Line("message_end", "stop", None)
             m == Line("agent_end", what, None)
  <2>2. l \in OutputLine /\ m \in OutputLine
    BY LineTyped
  <2>3. /\ l.type = "message_end" /\ l.what = "stop" /\ l.of = Len(documents)
        /\ m.type = "agent_end" /\ m.what = what /\ m.of = Len(documents)
    BY DEF Line, Request
  <2>4. stdout' = stdout \o <<l, m>> /\ ~stdin' /\ pi = "provider" /\ pi' = "waiting"
    BY <1>2, <1>4, <2>1 DEF Answer
  <2> HIDE DEF l, m
  <2>5. Emits(<<l, m>>)
    BY <1>1, <1>2, <2>1, <2>2, <2>3, <2>4 DEF Emits, GoodLine, Retries, EndsPrompt, Quiet
  <2>6. Writes(<<l, m>>)
    BY <1>1, <1>2, <2>1, <2>2, <2>3, <2>4, <2>5 DEF Writes
  <2> QED
    BY <2>6
<1>5. CASE FailAttempt
  <2> DEFINE e == Line("message_end", "error", None)
             r == Line("agent_end", "retry", None)
             s == Line("retry_start", "", None)
             f == Line("agent_end", "error", None)
  <2>1. e \in OutputLine /\ r \in OutputLine /\ s \in OutputLine /\ f \in OutputLine
    BY LineTyped
  <2>2. /\ e.type = "message_end" /\ e.what = "error" /\ e.of = Len(documents)
        /\ r.type = "agent_end" /\ r.what = "retry" /\ r.of = Len(documents)
        /\ s.type = "retry_start" /\ s.what = "" /\ s.of = Len(documents)
        /\ f.type = "agent_end" /\ f.what = "error" /\ f.of = Len(documents)
    BY DEF Line, Request
  <2>3. /\ pi = "provider" /\ ~stdin'
        /\ \E ended \in {<<>>, <<e>>} :
              \/ pi' = "hook" /\ stdout' = stdout \o (ended \o <<r, s>>)
              \/ pi' = "waiting" /\ stdout' = stdout \o (ended \o <<f>>)
    BY <1>2, <1>5 DEF FailAttempt, Emit
  <2> HIDE DEF e, r, s, f
  <2>9. /\ <<>> \o <<r, s>> = <<r, s>> /\ <<e>> \o <<r, s>> = <<e, r, s>>
        /\ <<>> \o <<f>> = <<f>> /\ <<e>> \o <<f>> = <<e, f>>
    <3>1. <<>> \o <<r, s>> = <<r, s>>
      BY <2>1, JoinLines
    <3>2. <<e>> \o <<r, s>> = <<e, r, s>>
      BY <2>1, JoinLines
    <3>3. <<>> \o <<f>> = <<f>>
      BY <2>1, JoinLines
    <3>4. <<e>> \o <<f>> = <<e, f>>
      BY <2>1, JoinLines
    <3> QED
      BY <3>1, <3>2, <3>3, <3>4
  <2>4. \/ pi' = "hook" /\ stdout' = stdout \o <<r, s>>
        \/ pi' = "hook" /\ stdout' = stdout \o <<e, r, s>>
        \/ pi' = "waiting" /\ stdout' = stdout \o <<f>>
        \/ pi' = "waiting" /\ stdout' = stdout \o <<e, f>>
    <3>1. PICK ended \in {<<>>, <<e>>} :
              \/ pi' = "hook" /\ stdout' = stdout \o (ended \o <<r, s>>)
              \/ pi' = "waiting" /\ stdout' = stdout \o (ended \o <<f>>)
      BY <2>3
    <3>2. CASE ended = <<>>
      BY <2>9, <3>1, <3>2
    <3>3. CASE ended = <<e>>
      BY <2>9, <3>1, <3>3
    <3> QED
      BY <3>1, <3>2, <3>3
  <2>5. CASE pi' = "hook" /\ stdout' = stdout \o <<r, s>>
    <3> DEFINE lines == <<r, s>>
    <3>1. /\ lines \in Seq(OutputLine) /\ DOMAIN lines = {1, 2} /\ Len(lines) = 2
          /\ lines[1] = r /\ lines[2] = s
          /\ stdout' = stdout \o lines
      BY <2>1, <2>5
    <3> HIDE DEF lines
    <3>2. Emits(lines)
      <4>1. GoodLine(lines, 1)
        <5>1. 1 + 1 \in DOMAIN lines /\ lines[1 + 1] = s
          BY <3>1
        <5>2. /\ lines[1].type = "agent_end" /\ lines[1].what = "retry"
              /\ lines[1].of = Len(documents) /\ lines[1 + 1].type = "retry_start"
          BY <2>2, <3>1, <5>1
        <5> QED
          BY <5>1, <5>2 DEF GoodLine, EndsPrompt
      <4>2. GoodLine(lines, 2)
        BY <2>2, <2>3, <3>1 DEF GoodLine, Retries, EndsPrompt
      <4> QED
        BY <1>1, <1>2, <2>5, <3>1, <4>1, <4>2 DEF Emits
    <3>3. Writes(lines)
      BY <1>1, <1>2, <2>2, <2>3, <2>5, <3>1, <3>2 DEF Writes, Retries
    <3> QED
      BY <3>3
  <2>6. CASE pi' = "hook" /\ stdout' = stdout \o <<e, r, s>>
    <3> DEFINE lines == <<e, r, s>>
    <3>1. /\ lines \in Seq(OutputLine) /\ DOMAIN lines = {1, 2, 3} /\ Len(lines) = 3
          /\ lines[1] = e /\ lines[2] = r /\ lines[3] = s
          /\ stdout' = stdout \o lines
      BY <2>1, <2>6
    <3> HIDE DEF lines
    <3>2. Emits(lines)
      <4>1. GoodLine(lines, 1)
        BY <2>2, <2>3, <3>1 DEF GoodLine, Retries, EndsPrompt
      <4>2. GoodLine(lines, 2)
        <5>1. 2 + 1 \in DOMAIN lines /\ lines[2 + 1] = s
          BY <3>1
        <5>2. /\ lines[2].type = "agent_end" /\ lines[2].what = "retry"
              /\ lines[2].of = Len(documents) /\ lines[2 + 1].type = "retry_start"
          BY <2>2, <3>1, <5>1
        <5> QED
          BY <5>1, <5>2 DEF GoodLine, EndsPrompt
      <4>3. GoodLine(lines, 3)
        BY <2>2, <2>3, <3>1 DEF GoodLine, Retries, EndsPrompt
      <4> QED
        BY <1>1, <1>2, <2>6, <3>1, <4>1, <4>2, <4>3 DEF Emits
    <3>3. Writes(lines)
      BY <1>1, <1>2, <2>2, <2>3, <2>6, <3>1, <3>2 DEF Writes, Retries
    <3> QED
      BY <3>3
  <2>7. CASE pi' = "waiting" /\ stdout' = stdout \o <<f>>
    <3> DEFINE lines == <<f>>
    <3>1. /\ lines \in Seq(OutputLine) /\ DOMAIN lines = {1} /\ Len(lines) = 1
          /\ lines[1] = f
          /\ stdout' = stdout \o lines
      BY <2>1, <2>7
    <3> HIDE DEF lines
    <3>2. Emits(lines)
      BY <1>1, <1>2, <2>2, <2>3, <2>7, <3>1 DEF Emits, GoodLine, Retries, EndsPrompt, Quiet
    <3>3. Writes(lines)
      BY <1>1, <1>2, <2>2, <2>3, <2>7, <3>1, <3>2 DEF Writes, Retries
    <3> QED
      BY <3>3
  <2>8. CASE pi' = "waiting" /\ stdout' = stdout \o <<e, f>>
    <3> DEFINE lines == <<e, f>>
    <3>1. /\ lines \in Seq(OutputLine) /\ DOMAIN lines = {1, 2} /\ Len(lines) = 2
          /\ lines[1] = e /\ lines[2] = f
          /\ stdout' = stdout \o lines
      BY <2>1, <2>8
    <3> HIDE DEF lines
    <3>2. Emits(lines)
      BY <1>1, <1>2, <2>2, <2>3, <2>8, <3>1 DEF Emits, GoodLine, Retries, EndsPrompt, Quiet
    <3>3. Writes(lines)
      BY <1>1, <1>2, <2>2, <2>3, <2>8, <3>1, <3>2 DEF Writes, Retries
    <3> QED
      BY <3>3
  <2> QED
    BY <2>4, <2>5, <2>6, <2>7, <2>8
<1> QED
  BY <1>3, <1>4, <1>5

\* Requests of the turn are documents.
LEMMA TurnRequests ==
    ASSUME TypeOK
    PROVE  /\ Len(documents) \in Nat /\ DOMAIN documents = 1..Len(documents)
           /\ \A d \in InTurn(turn) : d \in Nat /\ d >= 1 /\ d <= Len(documents)
<1>1. documents \in Seq(Document)
  BY DEF TypeOK
<1> QED
  BY <1>1 DEF InTurn

\* What Pi has written, as a step of Pi leaves it.
LEMMA WrittenLines ==
    ASSUME TypeOK, NEW lines, Writes(lines)
    PROVE  /\ \A p \in DOMAIN Unread : p \in DOMAIN Unread' /\ At(p)' = At(p) /\ p \in Nat
           /\ \A j \in DOMAIN lines :
                 /\ Len(Unread) + j \in DOMAIN Unread' /\ Unread'[Len(Unread) + j] = lines[j]
                 /\ \A p \in DOMAIN Unread : p < Len(Unread) + j
           /\ \A p \in DOMAIN Unread' : p \notin DOMAIN Unread =>
                 \E j \in DOMAIN lines : p = Len(Unread) + j /\ At(p)' = lines[j]
           /\ InTurn(turn)' = InTurn(turn)
           /\ UNCHANGED <<line, documents, turn, log, capture, seen, acks, client, answered>>
           /\ \A j \in DOMAIN lines : GoodLine(lines, j)
<1>1. /\ lines \in Seq(OutputLine) /\ stdout' = stdout \o lines
      /\ UNCHANGED <<line, documents, turn, log, capture, seen, acks, client, answered>>
      /\ \A j \in DOMAIN lines : GoodLine(lines, j)
  BY DEF Writes, Emits
<1>2. /\ \A p \in DOMAIN Unread : p \in DOMAIN Unread' /\ At(p)' = At(p)
      /\ \A j \in DOMAIN lines : /\ Len(Unread) + j \in DOMAIN Unread'
                                 /\ Unread'[Len(Unread) + j] = lines[j]
      /\ \A p \in DOMAIN Unread' : p \notin DOMAIN Unread =>
            \E j \in DOMAIN lines : p = Len(Unread) + j
  BY <1>1, EmitUnread
<1>3. Len(Unread) \in Nat /\ DOMAIN Unread = 1..Len(Unread) /\ DOMAIN lines = 1..Len(lines)
  BY <1>1, UnreadTyped
<1>4. \A p \in DOMAIN Unread : p \in Nat /\ \A j \in DOMAIN lines : p < Len(Unread) + j
  BY <1>3
<1>5. \A p \in DOMAIN Unread' : p \notin DOMAIN Unread =>
         \E j \in DOMAIN lines : p = Len(Unread) + j /\ At(p)' = lines[j]
  BY <1>2 DEF At
<1>6. InTurn(turn)' = InTurn(turn)
  BY <1>1 DEF InTurn
<1> QED
  BY <1>1, <1>2, <1>4, <1>5, <1>6

LEMMA AttemptWrites ==
    ASSUME TypeOK, AttemptInv, LookedInv, NEW lines, Writes(lines)
    PROVE  AttemptInv' /\ LookedInv'
<1>1. InTurn(turn)' = InTurn(turn) /\ UNCHANGED <<line, capture, seen>>
  BY WrittenLines
<1>2. AttemptInv'
  BY DEF Writes, AttemptInv
<1>3. LookedInv'
  BY <1>1 DEF LookedInv
<1> QED
  BY <1>2, <1>3

LEMMA ToolsWrites ==
    ASSUME TypeOK, ToolsInv, NEW lines, Writes(lines)
    PROVE  ToolsInv'
<1>1. ToolsKept
  BY DEF Writes, ToolsInv, Whole
<1>2. log' = log /\ turn' = turn
  BY WrittenLines
<1>3. ASSUME NEW x, x \in running, x \notin running'
      PROVE  \E q \in DOMAIN Unread' : (\A p \in DOMAIN Unread : p < q) /\ Ends(q, x)'
  <2>1. PICK j \in DOMAIN lines : lines[j].type = "tool_end" /\ lines[j].tool = x
    BY <1>3 DEF Writes
  <2>2. PICK q : q = Len(Unread) + j
    OBVIOUS
  <2>3. q \in DOMAIN Unread' /\ Unread'[q] = lines[j] /\ \A p \in DOMAIN Unread : p < q
    BY <2>2, WrittenLines
  <2>4. Ends(q, x)'
    BY <2>1, <2>3 DEF Ends, At
  <2> QED
    BY <2>3, <2>4
<1>4. \A p, x : Ends(p, x) => Ends(p, x)'
  BY WrittenLines DEF Ends
<1>5. ASSUME NEW n \in DOMAIN log', log'[n].type = "tool.started", log'[n].turn = turn'
      PROVE  \/ Completed(log[n].tool, turn)'
             \/ (log[n].tool \in running)'
             \/ \E p \in DOMAIN Unread' : Ends(p, log[n].tool)'
  <2>1. \/ Completed(log[n].tool, turn)
        \/ log[n].tool \in running
        \/ \E p \in DOMAIN Unread : Ends(p, log[n].tool)
    BY <1>1, <1>2, <1>5 DEF ToolsKept
  <2>2. CASE Completed(log[n].tool, turn)
    BY <1>2, <2>2 DEF Completed
  <2>3. CASE log[n].tool \in running
    <3>1. CASE log[n].tool \in running'
      BY <1>2, <3>1
    <3>2. CASE log[n].tool \notin running'
      <4>1. PICK x : x = log[n].tool
        OBVIOUS
      <4>2. PICK q \in DOMAIN Unread' : Ends(q, x)'
        BY <1>3, <2>3, <3>2, <4>1
      <4> QED
        BY <1>2, <4>1, <4>2
    <3> QED
      BY <3>1, <3>2
  <2>4. CASE \E p \in DOMAIN Unread : Ends(p, log[n].tool)
    BY <1>2, <1>4, <2>4 DEF Ends
  <2> QED
    BY <2>1, <2>2, <2>3, <2>4
<1>6. ASSUME NEW p \in DOMAIN Unread', At(p)'.type = "tool_start"
      PROVE  \/ (At(p).tool \in running)'
             \/ \E q \in DOMAIN Unread' : p < q /\ Ends(q, At(p).tool)'
  <2>1. CASE p \in DOMAIN Unread
    <3>1. PICK x : x = At(p).tool
      OBVIOUS
    <3>2. At(p)' = At(p)
      BY <2>1, WrittenLines
    <3>3. x \in running \/ \E q \in DOMAIN Unread : p < q /\ Ends(q, x)
      BY <1>1, <1>6, <2>1, <3>1, <3>2 DEF ToolsKept
    <3>4. CASE x \in running'
      BY <3>1, <3>2, <3>4
    <3>5. CASE x \in running /\ x \notin running'
      <4>1. PICK q \in DOMAIN Unread' : (\A k \in DOMAIN Unread : k < q) /\ Ends(q, x)'
        BY <1>3, <3>5
      <4> QED
        BY <2>1, <3>1, <3>2, <4>1
    <3>6. CASE \E q \in DOMAIN Unread : p < q /\ Ends(q, x)
      <4>1. PICK q \in DOMAIN Unread : p < q /\ Ends(q, x)
        BY <3>6
      <4>2. q \in DOMAIN Unread' /\ Ends(q, x)'
        BY <1>4, <4>1, WrittenLines
      <4> QED
        BY <3>1, <3>2, <4>1, <4>2
    <3> QED
      BY <3>3, <3>4, <3>5, <3>6
  <2>2. CASE p \notin DOMAIN Unread
    <3>1. PICK j \in DOMAIN lines : At(p)' = lines[j]
      BY <2>2, WrittenLines
    <3>2. lines[j].tool \in running'
      BY <1>6, <3>1 DEF Writes
    <3> QED
      BY <3>1, <3>2
  <2> QED
    BY <2>1, <2>2
<1>7. ToolsKept'
  BY <1>5, <1>6 DEF ToolsKept
<1> QED
  BY <1>7 DEF ToolsInv

\* A log with an end of the attempt more: where the marks are.
LEMMA ModeWrites ==
    ASSUME TypeOK, OutputInv, AttemptInv, LookedInv, ModeInv, NEW lines, Writes(lines)
    PROVE  ModeInv'
<1>1. /\ InTurn(turn)' = InTurn(turn)
      /\ UNCHANGED <<line, documents, turn, log, capture, seen, acks, client, answered>>
  BY WrittenLines
<1>2. /\ \A d : Settled(d)' <=> Settled(d)
      /\ Exact(turn)' <=> Exact(turn)
      /\ \A n : RetryLogged(n)' <=> RetryLogged(n)
  BY <1>1 DEF Settled, Exact, RetryLogged
<1>3. \A p, d : Marks(p, d) => Marks(p, d)'
  BY WrittenLines DEF Marks, Retries
<1>4. \A p : RetryUnread(p) => RetryUnread(p)'
  BY WrittenLines DEF RetryUnread
<1>5. ASSUME NEW d \in InTurn(turn), Ended(d)', ~Ended(d)
      PROVE  \E p \in DOMAIN Unread' : Marks(p, d)'
  <2>1. /\ d = Len(documents)
        /\ pi' \in {"hook", "round"} /\ pi \notin {"hook", "round"}
    BY <1>1, <1>5, TurnRequests DEF Ended
  <2>2. PICK j \in DOMAIN lines : lines[j].type = "message_end" \/ Retries(lines[j])
    BY <2>1 DEF Writes
  <2>3. lines[j].of = d
    BY <2>1, WrittenLines DEF GoodLine
  <2>4. PICK p : p = Len(Unread) + j
    OBVIOUS
  <2>5. p \in DOMAIN Unread' /\ Unread'[p] = lines[j]
    BY <2>4, WrittenLines
  <2>6. Marks(p, d)'
    BY <2>2, <2>3, <2>5 DEF Marks, At, Retries
  <2> QED
    BY <2>5, <2>6
<1>6. \A p \in DOMAIN Unread' : p \notin DOMAIN Unread =>
         /\ At(p)'.type = "message_end" => At(p)'.of = Len(documents) /\ pi = "provider"
         /\ p = 1 => At(p)'.what # "answer"
  <2> SUFFICES ASSUME NEW p \in DOMAIN Unread', p \notin DOMAIN Unread
               PROVE  /\ At(p)'.type = "message_end" =>
                             At(p)'.of = Len(documents) /\ pi = "provider"
                      /\ p = 1 => At(p)'.what # "answer"
    OBVIOUS
  <2>1. PICK j \in DOMAIN lines : p = Len(Unread) + j /\ At(p)' = lines[j]
    BY WrittenLines
  <2>2. GoodLine(lines, j)
    BY WrittenLines
  <2>3. p = 1 => j = 1
    <3>1. Len(Unread) \in Nat /\ j \in Nat /\ j >= 1
      BY UnreadTyped DEF Writes, Emits
    <3> QED
      BY <2>1, <3>1
  <2> QED
    BY <2>1, <2>2, <2>3 DEF GoodLine
<1>7. \A p \in DOMAIN Unread : p \in DOMAIN Unread' /\ At(p)' = At(p)
  BY WrittenLines
<1>8. CASE InStep
  <2>1. \A d, e \in InTurn(turn)' : d < e /\ Settled(e)' => Settled(d)'
    BY <1>1, <1>2, <1>8 DEF InStep
  <2>2. \A p \in DOMAIN Unread' : At(p)'.type = "message_end" => ~Settled(At(p)'.of)
    BY <1>6, <1>7, <1>8 DEF InStep
  <2>3. \A p \in DOMAIN Unread' : At(p)'.type = "message_end" => ~Settled(At(p).of)'
    BY <1>1, <2>2 DEF Settled
  <2>4. ASSUME NEW d \in InTurn(turn)', Ended(d)', ~Settled(d)'
        PROVE  \E p \in DOMAIN Unread' : Marks(p, d)'
    <3>1. CASE Ended(d)
      <4>1. PICK p \in DOMAIN Unread : Marks(p, d)
        BY <1>1, <1>2, <1>8, <2>4, <3>1 DEF InStep
      <4> QED
        BY <1>3, <1>7, <4>1
    <3> QED
      BY <1>1, <1>5, <2>4, <3>1
  <2>5. pi' \notin {"captured", "provider"}
    BY DEF Writes
  <2>6. InStep'
    BY <1>2, <1>8, <2>1, <2>3, <2>4, <2>5 DEF InStep
  <2> QED
    BY <2>6 DEF ModeInv
<1>9. CASE RetriedAgain
  <2>1. \/ \E m, n \in DOMAIN log : m # n /\ RetryLogged(m) /\ RetryLogged(n)
        \/ \E n \in DOMAIN log, p \in DOMAIN Unread : RetryLogged(n) /\ RetryUnread(p)
        \/ \E p, q \in DOMAIN Unread : p # q /\ RetryUnread(p) /\ RetryUnread(q)
    BY <1>9 DEF RetriedAgain
  <2>2. RetriedAgain'
    BY <1>1, <1>2, <1>4, <1>7, <2>1 DEF RetriedAgain
  <2> QED
    BY <2>2 DEF ModeInv
<1>10. CASE OneAhead /\ \E j \in DOMAIN lines : Retries(lines[j])
  <2>1. PICK j \in DOMAIN lines : Retries(lines[j])
    BY <1>10
  <2>2. j + 1 \in DOMAIN lines /\ lines[j + 1].type = "retry_start"
    BY <2>1, WrittenLines DEF GoodLine
  <2>3. PICK q : q = Len(Unread) + (j + 1)
    OBVIOUS
  <2>4. /\ q \in DOMAIN Unread' /\ Unread'[q].type = "retry_start"
        /\ \A p \in DOMAIN Unread : p < q /\ p \in Nat
    BY <2>2, <2>3, WrittenLines
  <2>5. RetryUnread(q)' /\ \A p \in DOMAIN Unread : p # q
    BY <2>4 DEF RetryUnread, At
  <2>6. (\E n \in DOMAIN log : RetryLogged(n)) \/ \E p \in DOMAIN Unread : RetryUnread(p)
    BY <1>10 DEF OneAhead
  <2>7. RetriedAgain'
    BY <1>1, <1>2, <1>4, <1>7, <2>4, <2>5, <2>6 DEF RetriedAgain
  <2> QED
    BY <2>7 DEF ModeInv
<1>11. CASE OneAhead /\ ~\E j \in DOMAIN lines : Retries(lines[j])
  <2>1. PICK m \in InTurn(turn) : AheadAt(m)
    BY <1>11 DEF OneAhead
  <2>2. (\E n \in DOMAIN log' : RetryLogged(n)') \/ \E p \in DOMAIN Unread' : RetryUnread(p)'
    BY <1>1, <1>2, <1>4, <1>7, <1>11 DEF OneAhead
  <2>3. \A p \in DOMAIN Unread' : ~Retries(At(p))'
    <3>1. \A p \in DOMAIN Unread' : p \notin DOMAIN Unread =>
             \E j \in DOMAIN lines : At(p)' = lines[j]
      BY WrittenLines
    <3> QED
      BY <1>7, <1>11, <3>1 DEF OneAhead, Retries
  <2>4. 1 \in DOMAIN Unread' => At(1)'.what # "answer"
    BY <1>6, <1>7, <1>11 DEF OneAhead
  <2>5. m \in InTurn(turn)' /\ \A d \in InTurn(turn)' : Settled(d)' <=> d <= m
    BY <1>1, <1>2, <2>1 DEF AheadAt
  <2>6. \A p \in DOMAIN Unread' : At(p)'.type = "message_end" => At(p)'.of >= m
    BY <1>6, <1>7, <2>1, TurnRequests DEF AheadAt
  <2>7. ASSUME NEW d \in InTurn(turn)', Ended(d)', d >= m
        PROVE  \E p \in DOMAIN Unread' : Marks(p, d)'
    <3>1. CASE Ended(d)
      <4>1. PICK p \in DOMAIN Unread : Marks(p, d)
        BY <1>1, <2>1, <2>7, <3>1 DEF AheadAt
      <4> QED
        BY <1>3, <1>7, <4>1
    <3> QED
      BY <1>1, <1>5, <2>7, <3>1
  <2>8. AheadAt(m)'
    BY <2>5, <2>6, <2>7 DEF AheadAt
  <2>9. OneAhead'
    BY <1>1, <2>1, <2>2, <2>3, <2>4, <2>8 DEF OneAhead
  <2> QED
    BY <2>9 DEF ModeInv
<1> QED
  BY <1>8, <1>9, <1>10, <1>11 DEF ModeInv

LEMMA PromptWrites ==
    ASSUME TypeOK, PromptInv, NEW lines, Writes(lines)
    PROVE  PromptInv'
<1>1. OutputInv'
  BY OutputEmits DEF PromptInv, Writes
<1> QED
  BY <1>1, AttemptWrites, ToolsWrites, ModeWrites DEF PromptInv

-----------------------------------------------------------------------------
(* Pi goes on without writing *)

\* A prompt accepted, a call of the provider, the end of Pi, or nothing.
Silent == /\ AcceptPrompt \/ CallProvider \/ Die \/ UNCHANGED piVars
          /\ UNCHANGED <<adapterVars, turn, line, client, answered>>

LEMMA SilentKeeps ==
    ASSUME TypeOK, Silent
    PROVE  /\ UNCHANGED <<documents, stdout, line, turn, log, capture, seen, acks, client, answered>>
           /\ Unread' = Unread /\ InTurn(turn)' = InTurn(turn)
<1>1. UNCHANGED <<documents, stdout, line, turn, log, capture, seen, acks, client, answered>>
  BY DEF Silent, AcceptPrompt, CallProvider, Die, adapterVars, piVars
<1> QED
  BY <1>1 DEF Unread, InTurn

LEMMA PromptSilent ==
    ASSUME TypeOK, PromptInv, Silent
    PROVE  PromptInv'
<1>1. /\ UNCHANGED <<documents, stdout, line, turn, log, capture, seen, acks, client, answered>>
      /\ Unread' = Unread /\ InTurn(turn)' = InTurn(turn)
  BY SilentKeeps
<1>2. \A p : At(p)' = At(p)
  BY <1>1 DEF At
<1>3. /\ OutputInv /\ AttemptInv /\ LookedInv /\ ToolsInv /\ ModeInv
      /\ stdin => pi \in {"waiting", "dead"} /\ InTurn(turn) = {}
  BY DEF PromptInv, AttemptInv
<1>4. Quiet => Quiet'
  BY DEF Quiet, Silent, AcceptPrompt, CallProvider, Die, piVars
<1>5. OrderedOutput'
  BY <1>1, <1>2, <1>3 DEF OutputInv, OrderedOutput, EndsAttempt
<1>6. ASSUME NEW p \in DOMAIN Unread PROVE Shaped(p)'
  BY <1>1, <1>2, <1>3, <1>4 DEF OutputInv, Shaped, EndsPrompt, Retries
<1>7. OutputInv'
  BY <1>1, <1>5, <1>6 DEF OutputInv
<1>8. AttemptInv'
  BY <1>1, <1>2, <1>3 DEF AttemptInv, EndsAttempt, Silent, AcceptPrompt, CallProvider, Die, piVars
<1>9. LookedInv'
  BY <1>1, <1>3 DEF LookedInv
<1>10. ToolsInv'
  <2>1. CASE AcceptPrompt \/ CallProvider
    <3>1. pi # "dead" /\ running' = running
      BY <2>1 DEF AcceptPrompt, CallProvider
    <3>2. ToolsKept
      BY <1>3, <3>1 DEF ToolsInv, Whole
    <3>3. ToolsKept'
      BY <1>1, <1>2, <3>1, <3>2 DEF ToolsKept, Completed, Ends
    <3> QED
      BY <3>3 DEF ToolsInv
  <2>2. CASE Die
    <3>1. SUFFICES ASSUME Whole' PROVE ToolsKept'
      BY DEF ToolsInv
    <3>2. PICK p \in DOMAIN Unread : At(p).what = "answer"
      BY <1>1, <1>2, <2>2, <3>1 DEF Whole, Die
    <3>3. Quiet
      BY <1>3, <3>2 DEF OutputInv, Shaped, EndsPrompt
    <3>4. running = {} /\ running' = running /\ pi # "dead"
      BY <1>3, <2>2, <3>3 DEF AttemptInv, Quiet, Die
    <3>5. ToolsKept
      BY <1>3, <3>4 DEF ToolsInv, Whole
    <3> QED
      BY <1>1, <1>2, <3>4, <3>5 DEF ToolsKept, Completed, Ends
  <2>3. CASE UNCHANGED piVars
    <3>1. pi' = pi /\ running' = running
      BY <2>3 DEF piVars
    <3>2. Whole' => Whole
      BY <1>1, <1>2, <3>1 DEF Whole
    <3>3. ToolsKept => ToolsKept'
      BY <1>1, <1>2, <3>1 DEF ToolsKept, Completed, Ends
    <3> QED
      BY <1>3, <3>2, <3>3 DEF ToolsInv
  <2> QED
    BY <2>1, <2>2, <2>3 DEF Silent
<1>11. \A d : Ended(d)' => Ended(d)
  <2>1. stdin /\ AcceptPrompt => InTurn(turn) = {}
    BY <1>3
  <2> QED
    BY <1>1, <2>1 DEF Ended, Silent, AcceptPrompt, CallProvider, Die, piVars
<1>12. /\ \A d : Settled(d)' <=> Settled(d)
       /\ Exact(turn)' <=> Exact(turn)
       /\ \A n : RetryLogged(n)' <=> RetryLogged(n)
       /\ \A p : RetryUnread(p)' <=> RetryUnread(p)
       /\ \A p, d : Marks(p, d)' <=> Marks(p, d)
  BY <1>1, <1>2 DEF Settled, Exact, RetryLogged, RetryUnread, Marks, Retries
<1>13. ASSUME InStep PROVE ModeInv'
  <2>1. pi' \in {"captured", "provider"} => pi \in {"captured", "provider"}
    BY DEF Silent, AcceptPrompt, CallProvider, Die, piVars
  <2>2. \A p \in DOMAIN Unread' : At(p)'.type = "message_end" => ~Settled(At(p).of)'
    BY <1>1, <1>2, <1>12, <1>13 DEF InStep, Settled
  <2>3. \A d \in InTurn(turn)' : Ended(d)' /\ ~Settled(d)' => \E p \in DOMAIN Unread' : Marks(p, d)'
    BY <1>1, <1>11, <1>12, <1>13 DEF InStep
  <2>4. pi' \in {"captured", "provider"} => ~Settled(Len(documents))'
    BY <1>1, <2>1, <1>13 DEF InStep, Settled
  <2>5. InStep'
    BY <1>1, <1>12, <1>13, <2>2, <2>3, <2>4 DEF InStep
  <2> QED
    BY <2>5 DEF ModeInv
<1>14. ASSUME OneAhead PROVE ModeInv'
  <2>1. PICK m \in InTurn(turn) : AheadAt(m)
    BY <1>14 DEF OneAhead
  <2>2. AheadAt(m)'
    BY <1>1, <1>2, <1>11, <1>12, <2>1 DEF AheadAt
  <2>3. OneAhead'
    BY <1>1, <1>2, <1>12, <1>14, <2>1, <2>2 DEF OneAhead, Retries
  <2> QED
    BY <2>3 DEF ModeInv
<1>15. ASSUME RetriedAgain PROVE ModeInv'
  <2>1. RetriedAgain'
    BY <1>1, <1>12, <1>15 DEF RetriedAgain
  <2> QED
    BY <2>1 DEF ModeInv
<1>16. ModeInv'
  BY <1>3, <1>13, <1>14, <1>15 DEF ModeInv
<1> QED
  BY <1>7, <1>8, <1>9, <1>10, <1>16 DEF PromptInv

-----------------------------------------------------------------------------
(* Pi makes a request *)

HookStep == Hook /\ UNCHANGED <<adapterVars, turn, line, client, answered>>

LEMMA HookEffect ==
    ASSUME TypeOK, HookStep
    PROVE  /\ UNCHANGED <<stdout, line, turn, log, capture, seen, acks, client, answered,
                          stdin, called, running>>
           /\ Unread' = Unread
           /\ pi = "hook" /\ pi' = "captured"
           /\ Len(documents) \in Nat /\ Len(documents)' = Len(documents) + 1
           /\ DOMAIN documents = 1..Len(documents)
           /\ DOMAIN documents' = 1..(Len(documents) + 1)
           /\ \A d \in DOMAIN documents : documents'[d] = documents[d]
           /\ documents'[Len(documents) + 1].turn = turn
           /\ InTurn(turn)' = InTurn(turn) \cup {Len(documents) + 1}
           /\ \A t : t # turn => InTurn(t)' = InTurn(t)
<1>1. documents \in Seq(Document) /\ turn \in Nat /\ [turn |-> turn, source |-> source] \in Document
  BY CaptureBounds DEF TypeOK, Document
<1>2. documents' = Append(documents, [turn |-> turn, source |-> source])
  BY DEF HookStep, Hook
<1>3. /\ DOMAIN documents = 1..Len(documents) /\ Len(documents) \in Nat
      /\ DOMAIN documents' = 1..(Len(documents) + 1) /\ Len(documents') = Len(documents) + 1
      /\ \A d \in DOMAIN documents : documents'[d] = documents[d]
      /\ documents'[Len(documents) + 1].turn = turn
  BY <1>1, <1>2, AppendKeeps
<1>4. /\ UNCHANGED <<stdout, line, turn, log, capture, seen, acks, client, answered,
                     stdin, called, running>>
      /\ pi = "hook" /\ pi' = "captured"
  BY DEF HookStep, Hook, adapterVars
<1>5. \A d \in DOMAIN documents' : d \in DOMAIN documents \/ d = Len(documents) + 1
  BY <1>3
<1>6. DOMAIN documents \subseteq DOMAIN documents' /\ Len(documents) + 1 \in DOMAIN documents'
  BY <1>3
<1>7. InTurn(turn)' = InTurn(turn) \cup {Len(documents) + 1}
  BY <1>3, <1>4, <1>5, <1>6 DEF InTurn
<1>8. \A t : t # turn => InTurn(t)' = InTurn(t)
  BY <1>3, <1>5, <1>6 DEF InTurn
<1>9. Unread' = Unread
  BY <1>4 DEF Unread
<1> QED
  BY <1>3, <1>4, <1>7, <1>8, <1>9

LEMMA PromptHook ==
    ASSUME TypeOK, OrderInv, PromptInv, HookStep
    PROVE  PromptInv'
<1> DEFINE n == Len(documents)
<1>1. /\ UNCHANGED <<stdout, line, turn, log, capture, seen, acks, client, answered,
                     stdin, called, running>>
      /\ Unread' = Unread
      /\ pi = "hook" /\ pi' = "captured"
      /\ n \in Nat /\ Len(documents)' = n + 1
      /\ InTurn(turn)' = InTurn(turn) \cup {n + 1}
  BY HookEffect
<1>2. \A p : At(p)' = At(p)
  BY <1>1 DEF At
<1>3. OutputInv /\ AttemptInv /\ LookedInv /\ ToolsInv /\ ModeInv /\ ~Quiet /\ ~stdin
  BY <1>1 DEF PromptInv, AttemptInv, Quiet
<1>4. \A d \in InTurn(turn) : d \in Nat /\ d >= 1 /\ d <= n
  BY TurnRequests
<1>5. \A p \in DOMAIN Unread : /\ ~EndsPrompt(At(p)) /\ At(p).what # "stop"
                               /\ At(p).what # "answer" /\ At(p).of \in Nat /\ At(p).of <= n
  BY <1>3, NotQuiet, UnreadTyped DEF OutputInv, OrderedOutput
<1>6. n + 1 \notin seen
  <2>1. \A i \in acks : \E k \in DOMAIN log : IsStart(k) /\ log[k].request = i
    BY DEF OrderInv
  <2>2. \A k \in DOMAIN log : IsStart(k) => log[k].request \in DOMAIN documents
    BY DEF OrderInv
  <2>3. n + 1 \notin DOMAIN documents
    BY HookEffect
  <2> QED
    BY <2>1, <2>2, <2>3 DEF OrderInv
<1> HIDE DEF n
<1>7. OrderedOutput'
  <2>1. \A p \in DOMAIN Unread : At(p).of <= n + 1
    BY <1>1, <1>5
  <2> QED
    BY <1>1, <1>2, <1>3, <2>1 DEF OutputInv, OrderedOutput, EndsAttempt, n
<1>8. ASSUME NEW p \in DOMAIN Unread PROVE Shaped(p)'
  BY <1>1, <1>2, <1>3, <1>5 DEF OutputInv, Shaped, EndsPrompt, Retries
<1>9. OutputInv'
  BY <1>1, <1>7, <1>8 DEF OutputInv
<1>10. AttemptInv'
  <2>1. Len(documents)' \in InTurn(turn)'
    BY <1>1
  <2>2. \A p \in DOMAIN Unread' : At(p)'.of < Len(documents)'
    BY <1>1, <1>2, <1>5
  <2> QED
    BY <1>1, <1>3, <2>1, <2>2 DEF AttemptInv
<1>11. LookedInv'
  <2>1. line # None => line.of \in Nat /\ line.of <= n
    <3>1. line # None => 1 \in DOMAIN Unread /\ At(1) = line
      <4> SUFFICES ASSUME line # None PROVE 1 \in DOMAIN Unread /\ At(1) = line
        OBVIOUS
      <4>1. stdout \in Seq(OutputLine) /\ line \in OutputLine
        BY DEF TypeOK
      <4>2. Unread = <<line>> \o stdout
        BY DEF Unread
      <4>3. Unread \in Seq(OutputLine) /\ Len(Unread) = Len(stdout) + 1 /\ Unread[1] = line
            /\ Len(stdout) \in Nat
        BY <4>1, <4>2
      <4> QED
        BY <4>3 DEF At
    <3> QED
      BY <1>5, <3>1
  <2>2. line' # None => \A d \in InTurn(turn)' : d <= line'.of => d \in seen'
    <3> SUFFICES ASSUME line' # None, NEW d \in InTurn(turn)', d <= line'.of
                 PROVE  d \in seen'
      OBVIOUS
    <3>1. d # n + 1
      BY <1>1, <2>1
    <3> QED
      BY <1>1, <1>3, <3>1 DEF LookedInv
  <2>3. InTurn(turn)' \cap seen' = InTurn(turn) \cap seen
    BY <1>1, <1>6
  <2> QED
    BY <1>1, <1>3, <2>2, <2>3 DEF LookedInv
<1>12. ToolsInv'
  <2>1. ToolsKept
    BY <1>1, <1>3 DEF ToolsInv, Whole
  <2>2. ToolsKept'
    BY <1>1, <1>2, <2>1 DEF ToolsKept, Completed, Ends
  <2> QED
    BY <2>2 DEF ToolsInv
<1>13. /\ \A d : Settled(d)' <=> Settled(d)
       /\ Exact(turn)' <=> Exact(turn)
       /\ \A k : RetryLogged(k)' <=> RetryLogged(k)
       /\ \A p : RetryUnread(p)' <=> RetryUnread(p)
       /\ \A p, d : Marks(p, d)' <=> Marks(p, d)
  BY <1>1, <1>2 DEF Settled, Exact, RetryLogged, RetryUnread, Marks, Retries
<1>14. \A d : Settled(d) => d \in InTurn(turn) /\ d \in Nat /\ d <= n
  BY <1>3, <1>4 DEF Settled, LookedInv
<1>15. \A d : Ended(d)' => Ended(d)
  <2> SUFFICES ASSUME NEW d, Ended(d)' PROVE Ended(d)
    OBVIOUS
  <2>1. d \in InTurn(turn)' /\ d < n + 1
    BY <1>1 DEF Ended
  <2>2. d \in InTurn(turn)
    BY <1>1, <2>1
  <2> QED
    BY <1>1, <2>2 DEF Ended
<1>16. ASSUME InStep PROVE ModeInv'
  <2>1. \A d, e \in InTurn(turn)' : d < e /\ Settled(e)' => Settled(d)'
    <3> SUFFICES ASSUME NEW d \in InTurn(turn)', NEW e \in InTurn(turn)', d < e, Settled(e)
                 PROVE  Settled(d)
      BY <1>13
    <3>1. e \in InTurn(turn) /\ e <= n /\ e \in Nat
      BY <1>14
    <3>2. d \in InTurn(turn)
      BY <1>1, <3>1
    <3> QED
      BY <1>16, <3>1, <3>2 DEF InStep
  <2>2. \A p \in DOMAIN Unread' : At(p)'.type = "message_end" => ~Settled(At(p).of)'
    BY <1>1, <1>2, <1>16 DEF InStep, Settled
  <2>3. \A d \in InTurn(turn)' : Ended(d)' /\ ~Settled(d)' => \E p \in DOMAIN Unread' : Marks(p, d)'
    BY <1>1, <1>13, <1>15, <1>16 DEF InStep, Ended
  <2>4. ~Settled(Len(documents))'
    <3>1. ~Settled(n + 1)
      BY <1>1, <1>14
    <3> QED
      BY <1>1, <3>1 DEF Settled
  <2>5. InStep'
    BY <1>13, <1>16, <2>1, <2>2, <2>3, <2>4 DEF InStep
  <2> QED
    BY <2>5 DEF ModeInv
<1>17. ASSUME OneAhead PROVE ModeInv'
  <2>1. PICK m \in InTurn(turn) : AheadAt(m)
    BY <1>17 DEF OneAhead
  <2>2. \A d \in InTurn(turn)' : Settled(d)' <=> d <= m
    <3>1. ~(n + 1 <= m) /\ ~Settled(n + 1)
      BY <1>1, <1>4, <1>14
    <3> QED
      BY <1>1, <1>13, <2>1, <3>1 DEF AheadAt
  <2>3. \A d \in InTurn(turn)' : Ended(d)' /\ d >= m => \E p \in DOMAIN Unread' : Marks(p, d)'
    BY <1>1, <1>13, <1>15, <2>1 DEF AheadAt, Ended
  <2>4. m \in InTurn(turn)' /\ AheadAt(m)'
    BY <1>1, <1>2, <2>1, <2>2, <2>3 DEF AheadAt
  <2>5. OneAhead'
    BY <1>1, <1>2, <1>13, <1>17, <2>4 DEF OneAhead, Retries
  <2> QED
    BY <2>5 DEF ModeInv
<1>18. ASSUME RetriedAgain PROVE ModeInv'
  <2>1. RetriedAgain'
    BY <1>1, <1>13, <1>18 DEF RetriedAgain
  <2> QED
    BY <2>1 DEF ModeInv
<1>19. ModeInv'
  BY <1>3, <1>16, <1>17, <1>18 DEF ModeInv
<1> QED
  BY <1>9, <1>10, <1>11, <1>12, <1>19 DEF PromptInv

\* However Pi goes on, what holds of a prompt is kept.
LEMMA PromptPi ==
    ASSUME TypeOK, OrderInv, PromptInv, PiStep \/ PiDies
    PROVE  PromptInv'
<1>1. CASE Silent
  BY <1>1, PromptSilent
<1>2. CASE HookStep
  BY <1>2, PromptHook
<1>3. CASE PiStep /\ (UseTools \/ \E x \in Tools : StartTool(x) \/ EndTool(x))
  <2>1. PICK lines : Writes(lines)
    BY <1>3, WritesTools DEF PromptInv
  <2> QED
    BY <2>1, PromptWrites
<1>4. CASE PiStep /\ (RefusePrompt \/ Answer \/ FailAttempt)
  <2>1. PICK lines : Writes(lines)
    BY <1>4, WritesEnds DEF PromptInv
  <2> QED
    BY <2>1, PromptWrites
<1> QED
  BY <1>1, <1>2, <1>3, <1>4 DEF PiStep, PiDies, Silent, HookStep

-----------------------------------------------------------------------------
(* The adapter looks at the documents *)

\* A look that goes well records all the requests of the turn, after those
\* recorded before, as not settled.
LEMMA LookedAll ==
    ASSUME TypeOK, OrderInv, LookStep, client' = "prompting"
    PROVE  /\ UNCHANGED <<pi, stdin, called, running, documents, turn, answered>>
           /\ InTurn(turn) \subseteq seen' /\ seen' \subseteq seen \cup InTurn(turn)
           /\ LogGrows
           /\ \A n \in DOMAIN log' : n \notin DOMAIN log =>
                 log'[n].type = "request.started" /\ log'[n].turn = turn
           /\ \A k \in DOMAIN capture.requests :
                 /\ k \in DOMAIN capture'.requests
                 /\ capture'.requests[k] = capture.requests[k]
           /\ \A k \in DOMAIN capture'.requests : k \notin DOMAIN capture.requests =>
                 \E j \in 1..Len(Fresh) :
                     /\ k = Len(capture.requests) + j
                     /\ capture'.requests[k].index = Fresh[j] /\ ~capture'.requests[k].settled
           /\ \A j \in 1..Len(Fresh) : \E k \in DOMAIN capture'.requests :
                 capture'.requests[k].index = Fresh[j]
           /\ DOMAIN capture.requests = 1..Len(capture.requests) /\ Len(capture.requests) \in Nat
<1> DEFINE old == capture.requests
           new == capture'.requests
<1>1. /\ Looks(Fresh, Fresh)
      /\ UNCHANGED <<pi, stdin, called, running, documents, turn, answered>>
  BY LookLooks
<1>2. seen' = seen \cup (InTurn(turn) \ seen)
  BY <1>1, FreshIs DEF Looks
<1>3. /\ Len(log) \in Nat /\ Len(Fresh) \in Nat
      /\ DOMAIN log = 1..Len(log) /\ DOMAIN log' = 1..(Len(log) + Len(Fresh))
      /\ \A n \in 1..Len(log) : log'[n] = log[n]
      /\ \A j \in 1..Len(Fresh) :
            log'[Len(log) + j] = Event("request.started", Fresh[j], None,
                                       documents[Fresh[j]].source, Fresh[j])
      /\ DOMAIN old = 1..Len(old) /\ Len(old) \in Nat
      /\ DOMAIN new = 1..(Len(old) + Len(Fresh))
      /\ \A k \in 1..Len(old) : new[k] = old[k]
      /\ \A j \in 1..Len(Fresh) :
            new[Len(old) + j] = [index |-> Fresh[j], sequence |-> Len(log) + j, settled |-> FALSE]
  BY <1>1, LooksEffect
<1>4. \A j \in 1..Len(Fresh) : /\ log'[Len(log) + j].type = "request.started"
                               /\ log'[Len(log) + j].turn = turn
  BY <1>3, EventFields
<1> HIDE DEF old, new
<1>5. \A n \in DOMAIN log' : n \notin DOMAIN log =>
         n - Len(log) \in 1..Len(Fresh) /\ n = Len(log) + (n - Len(log))
  BY <1>3
<1>6. \A k \in DOMAIN new : k \notin DOMAIN old =>
         k - Len(old) \in 1..Len(Fresh) /\ k = Len(old) + (k - Len(old))
  BY <1>3
<1>7. \A j \in 1..Len(Fresh) : /\ Len(old) + j \in DOMAIN new
                               /\ new[Len(old) + j].index = Fresh[j]
                               /\ ~new[Len(old) + j].settled
  <2> SUFFICES ASSUME NEW j \in 1..Len(Fresh)
               PROVE  /\ Len(old) + j \in DOMAIN new
                      /\ new[Len(old) + j].index = Fresh[j] /\ ~new[Len(old) + j].settled
    OBVIOUS
  <2>1. Len(old) + j \in DOMAIN new
    BY <1>3
  <2>2. new[Len(old) + j] = [index |-> Fresh[j], sequence |-> Len(log) + j, settled |-> FALSE]
    BY <1>3
  <2> QED
    BY <2>1, <2>2
<1>8. LogGrows
  BY <1>3 DEF LogGrows
<1>9. \A n \in DOMAIN log' : n \notin DOMAIN log =>
         log'[n].type = "request.started" /\ log'[n].turn = turn
  BY <1>4, <1>5
<1>10. \A k \in DOMAIN old : k \in DOMAIN new /\ new[k] = old[k]
  BY <1>3
<1>11. \A k \in DOMAIN new : k \notin DOMAIN old =>
          \E j \in 1..Len(Fresh) : /\ k = Len(old) + j
                                   /\ new[k].index = Fresh[j] /\ ~new[k].settled
  BY <1>6, <1>7
<1>12. \A j \in 1..Len(Fresh) : \E k \in DOMAIN new : new[k].index = Fresh[j]
  BY <1>7
<1> QED
  BY <1>1, <1>2, <1>3, <1>8, <1>9, <1>10, <1>11, <1>12 DEF old, new

LEMMA LookedLook ==
    ASSUME TypeOK, OrderInv, LookedInv, LookStep, client' = "prompting"
    PROVE  LookedInv'
<1> DEFINE old == capture.requests
           new == capture'.requests
<1>1. /\ UNCHANGED <<documents, turn>>
      /\ InTurn(turn) \subseteq seen' /\ seen' \subseteq seen \cup InTurn(turn)
      /\ \A k \in DOMAIN old : k \in DOMAIN new /\ new[k] = old[k]
      /\ \A k \in DOMAIN new : k \notin DOMAIN old =>
            \E j \in 1..Len(Fresh) : k = Len(old) + j /\ new[k].index = Fresh[j]
      /\ \A j \in 1..Len(Fresh) : \E k \in DOMAIN new : new[k].index = Fresh[j]
      /\ DOMAIN old = 1..Len(old) /\ Len(old) \in Nat
  BY LookedAll
<1>2. InTurn(turn)' = InTurn(turn)
  BY <1>1 DEF InTurn
<1>3. /\ ToSet(Fresh) = InTurn(turn) \ seen
      /\ \A j \in 1..Len(Fresh) : Fresh[j] \in InTurn(turn) \ seen
      /\ \A i, j \in 1..Len(Fresh) : i < j => Fresh[i] < Fresh[j]
      /\ Fresh \in Seq(Nat)
  BY FreshIs
<1>4. client = "prompting"
  BY LookLooks
<1>5. /\ \A j, k \in DOMAIN old : j < k => old[j].index < old[k].index
      /\ \A k \in DOMAIN old : old[k].index \in InTurn(turn) \cap seen
      /\ \A d \in InTurn(turn) \cap seen : \E k \in DOMAIN old : old[k].index = d
  BY DEF LookedInv
<1>6. \A k \in DOMAIN old, j \in 1..Len(Fresh) : old[k].index < Fresh[j]
  <2> SUFFICES ASSUME NEW k \in DOMAIN old, NEW j \in 1..Len(Fresh)
               PROVE  old[k].index < Fresh[j]
    OBVIOUS
  <2>1. old[k].index \in acks
    BY <1>5 DEF OrderInv
  <2>2. PICK n \in DOMAIN log : IsStart(n) /\ log[n].request = old[k].index
    BY <2>1 DEF OrderInv
  <2>3. Fresh[j] \in DOMAIN documents /\ documents[Fresh[j]].turn = turn /\ Fresh[j] \notin seen
    BY <1>3 DEF InTurn
  <2> HIDE DEF old
  <2> QED
    BY <1>4, <2>2, <2>3 DEF OrderInv
<1> HIDE DEF old, new
<1>7. \A j, k \in DOMAIN new : j < k => new[j].index < new[k].index
  <2> SUFFICES ASSUME NEW j \in DOMAIN new, NEW k \in DOMAIN new, j < k
               PROVE  new[j].index < new[k].index
    OBVIOUS
  <2>1. CASE k \in DOMAIN old
    <3>1. j \in DOMAIN old
      <4>1. j \notin DOMAIN old => \E i \in 1..Len(Fresh) : j = Len(old) + i
        BY <1>1
      <4> QED
        BY <1>1, <2>1, <4>1
    <3> QED
      BY <1>1, <1>5, <2>1, <3>1
  <2>2. CASE k \notin DOMAIN old
    <3>1. PICK b \in 1..Len(Fresh) : k = Len(old) + b /\ new[k].index = Fresh[b]
      BY <1>1, <2>2
    <3>2. CASE j \in DOMAIN old
      BY <1>1, <1>6, <3>1, <3>2
    <3>3. CASE j \notin DOMAIN old
      <4>1. PICK a \in 1..Len(Fresh) : j = Len(old) + a /\ new[j].index = Fresh[a]
        BY <1>1, <3>3
      <4>2. a < b
        BY <1>1, <1>3, <3>1, <4>1
      <4> QED
        BY <1>3, <3>1, <4>1, <4>2
    <3> QED
      BY <3>2, <3>3
  <2> QED
    BY <2>1, <2>2
<1>8. \A k \in DOMAIN new : new[k].index \in InTurn(turn) \cap seen'
  <2> SUFFICES ASSUME NEW k \in DOMAIN new PROVE new[k].index \in InTurn(turn)
    BY <1>1
  <2>1. CASE k \in DOMAIN old
    BY <1>1, <1>5, <2>1
  <2>2. CASE k \notin DOMAIN old
    BY <1>1, <1>3, <2>2
  <2> QED
    BY <2>1, <2>2
<1>9. \A d \in InTurn(turn) \cap seen' : \E k \in DOMAIN new : new[k].index = d
  <2> SUFFICES ASSUME NEW d \in InTurn(turn) PROVE \E k \in DOMAIN new : new[k].index = d
    OBVIOUS
  <2>1. CASE d \in seen
    <3>1. PICK k \in DOMAIN old : old[k].index = d
      BY <1>5, <2>1
    <3> QED
      BY <1>1, <3>1
  <2>2. CASE d \notin seen
    <3>1. d \in ToSet(Fresh)
      BY <1>3, <2>2
    <3>2. PICK j \in 1..Len(Fresh) : d = Fresh[j]
      BY <1>3, <3>1 DEF ToSet
    <3> QED
      BY <1>1, <3>2
  <2> QED
    BY <2>1, <2>2
<1> QED
  BY <1>1, <1>2, <1>7, <1>8, <1>9 DEF LookedInv, old, new

LEMMA PromptLook ==
    ASSUME TypeOK, OrderInv, PromptInv, LookStep, client' = "prompting"
    PROVE  PromptInv'
<1>1. /\ UNCHANGED <<pi, stdin, called, running, documents, turn>>
      /\ LogGrows
      /\ \A n \in DOMAIN log' : n \notin DOMAIN log => log'[n].type = "request.started"
  BY LookedAll
<1>2. Unread' = Unread /\ InTurn(turn)' = InTurn(turn)
  BY <1>1, TakeUnread DEF InTurn
<1>3. \A p : At(p)' = At(p)
  BY <1>2 DEF At
<1>4. Quiet' <=> Quiet
  BY <1>1 DEF Quiet
<1>5. OutputInv'
  <2>1. OrderedOutput'
    BY <1>1, <1>2, <1>3 DEF PromptInv, OutputInv, OrderedOutput, EndsAttempt
  <2>2. ASSUME NEW p \in DOMAIN Unread PROVE Shaped(p)'
    BY <1>1, <1>2, <1>3, <1>4 DEF PromptInv, OutputInv, Shaped, EndsPrompt, Retries
  <2> QED
    BY <1>2, <2>1, <2>2 DEF OutputInv
<1>6. AttemptInv'
  BY <1>1, <1>2, <1>3 DEF PromptInv, AttemptInv, EndsAttempt
<1>7. LookedInv'
  BY LookedLook DEF PromptInv
<1>8. /\ \A n \in DOMAIN log : n \in DOMAIN log' /\ log'[n] = log[n]
      /\ \A n \in DOMAIN log' : log'[n].type # "request.started" =>
            n \in DOMAIN log /\ log'[n] = log[n]
  BY <1>1 DEF LogGrows
<1>9. ToolsInv'
  <2>1. Whole' => Whole
    BY <1>1, <1>2, <1>3 DEF Whole
  <2>2. \A x, t : Completed(x, t)' <=> Completed(x, t)
    BY <1>8 DEF Completed
  <2>3. \A p, x : Ends(p, x)' <=> Ends(p, x)
    BY <1>2, <1>3 DEF Ends
  <2>4. ASSUME ToolsKept PROVE ToolsKept'
    <3>1. ASSUME NEW n \in DOMAIN log', log'[n].type = "tool.started", log'[n].turn = turn
          PROVE  \/ Completed(log[n].tool, turn)'
                 \/ (log[n].tool \in running)'
                 \/ \E p \in DOMAIN Unread' : Ends(p, log[n].tool)'
      <4>1. n \in DOMAIN log /\ log'[n] = log[n]
        BY <1>8, <3>1
      <4> QED
        BY <1>1, <1>2, <1>3, <1>8, <2>2, <2>3, <2>4, <3>1, <4>1 DEF ToolsKept, Completed, Ends
    <3>2. \A p \in DOMAIN Unread' : At(p)'.type = "tool_start" =>
            \/ (At(p).tool \in running)'
            \/ \E q \in DOMAIN Unread' : p < q /\ Ends(q, At(p).tool)'
      BY <1>1, <1>2, <1>3, <2>4 DEF ToolsKept, Ends
    <3> QED
      BY <1>1, <3>1, <3>2 DEF ToolsKept
  <2> QED
    BY <2>1, <2>4 DEF ToolsInv, PromptInv
<1>10. \A d : Settled(d)' <=> Settled(d)
  <2>1. \A k \in DOMAIN capture.requests :
           k \in DOMAIN capture'.requests /\ capture'.requests[k] = capture.requests[k]
    BY LookedAll
  <2>2. \A k \in DOMAIN capture'.requests :
           k \notin DOMAIN capture.requests => ~capture'.requests[k].settled
    BY LookedAll
  <2> QED
    BY <2>1, <2>2 DEF Settled
<1>11. /\ Exact(turn)' <=> Exact(turn)
       /\ \A n : RetryLogged(n)' <=> RetryLogged(n)
       /\ \A p : RetryUnread(p)' <=> RetryUnread(p)
       /\ \A p, d : Marks(p, d)' <=> Marks(p, d)
       /\ \A d : Ended(d)' <=> Ended(d)
  <2>1. Exact(turn)' <=> Exact(turn)
    <3>1. \A n \in DOMAIN log' : log'[n].type \in Settlements => log'[n].type # "request.started"
      BY DEF Settlements
    <3> QED
      BY <1>1, <1>8, <3>1 DEF Exact
  <2>2. \A n : RetryLogged(n)' <=> RetryLogged(n)
    BY <1>1, <1>8 DEF RetryLogged
  <2> QED
    BY <1>1, <1>2, <1>3, <2>1, <2>2 DEF RetryUnread, Marks, Retries, Ended
<1>12. ASSUME InStep PROVE ModeInv'
  <2>1. \A p \in DOMAIN Unread' : At(p)'.type = "message_end" => ~Settled(At(p).of)'
    <3>1. \A p \in DOMAIN Unread' : At(p)'.type = "message_end" => ~Settled(At(p)'.of)
      BY <1>2, <1>3, <1>12 DEF InStep
    <3>2. \A p \in DOMAIN Unread' : Settled(At(p).of)' <=> Settled(At(p)'.of)
      <4> SUFFICES ASSUME NEW p \in DOMAIN Unread' PROVE Settled(At(p).of)' <=> Settled(At(p)'.of)
        OBVIOUS
      <4>1. PICK d : d = At(p)'.of
        OBVIOUS
      <4>2. Settled(At(p).of)' <=> Settled(d)'
        BY <4>1 DEF Settled
      <4> QED
        BY <1>10, <4>1, <4>2
    <3> QED
      BY <3>1, <3>2
  <2>2. pi' \in {"captured", "provider"} => ~Settled(Len(documents))'
    <3>1. PICK n : n = Len(documents)
      OBVIOUS
    <3>2. Settled(Len(documents))' <=> Settled(n)'
      BY <1>1, <3>1 DEF Settled
    <3> QED
      BY <1>1, <1>10, <1>12, <3>1, <3>2 DEF InStep
  <2>3. InStep'
    BY <1>2, <1>10, <1>11, <1>12, <2>1, <2>2 DEF InStep
  <2> QED
    BY <2>3 DEF ModeInv
<1>13. ASSUME OneAhead PROVE ModeInv'
  <2>1. PICK m \in InTurn(turn) : AheadAt(m)
    BY <1>13 DEF OneAhead
  <2>2. AheadAt(m)'
    BY <1>2, <1>3, <1>10, <1>11, <2>1 DEF AheadAt
  <2>3. (\E n \in DOMAIN log' : RetryLogged(n)') \/ \E p \in DOMAIN Unread' : RetryUnread(p)'
    BY <1>2, <1>8, <1>11, <1>13 DEF OneAhead
  <2>4. OneAhead'
    BY <1>2, <1>3, <1>13, <2>1, <2>2, <2>3 DEF OneAhead, Retries
  <2> QED
    BY <2>4 DEF ModeInv
<1>14. ASSUME RetriedAgain PROVE ModeInv'
  <2>1. RetriedAgain'
    BY <1>2, <1>8, <1>11, <1>14 DEF RetriedAgain
  <2> QED
    BY <2>1 DEF ModeInv
<1>15. ModeInv'
  BY <1>12, <1>13, <1>14 DEF ModeInv, PromptInv
<1> QED
  BY <1>5, <1>6, <1>7, <1>9, <1>15 DEF PromptInv

-----------------------------------------------------------------------------
(* A line is handled *)

LEMMA HandlePops ==
    ASSUME TypeOK, HandleLine
    PROVE  /\ UNCHANGED <<pi, stdin, called, running, documents, turn, seen, acks, answered>>
           /\ InTurn(turn)' = InTurn(turn) /\ line # None /\ Handle /\ line' = None
           /\ 1 \in DOMAIN Unread /\ At(1) = line
           /\ Len(Unread') \in Nat /\ Len(Unread) = Len(Unread') + 1
           /\ DOMAIN Unread' = 1..Len(Unread')
           /\ \A p \in DOMAIN Unread' : /\ p \in Nat /\ p + 1 \in DOMAIN Unread /\ p + 1 # 1
                                        /\ At(p)' = At(p + 1)
           /\ \A q \in DOMAIN Unread : q \in Nat /\ q >= 1 /\
                 (q # 1 => \E p \in DOMAIN Unread' : p + 1 = q /\ At(p)' = At(q))
<1>1. /\ UNCHANGED <<pi, stdin, called, running, documents, turn, seen, acks, answered>>
      /\ line # None /\ Handle /\ line' = None /\ stdout' = stdout
  BY DEF HandleLine, piVars
<1>2. InTurn(turn)' = InTurn(turn)
  BY <1>1 DEF InTurn
<1>3. /\ 1 \in DOMAIN Unread /\ At(1) = line
      /\ Len(Unread') \in Nat /\ Len(Unread) = Len(Unread') + 1
      /\ DOMAIN Unread' = 1..Len(Unread')
      /\ \A p \in DOMAIN Unread' : /\ p \in Nat /\ p + 1 \in DOMAIN Unread /\ p + 1 # 1
                                   /\ At(p)' = At(p + 1)
  BY <1>1, PopUnread
<1>4. \A q \in DOMAIN Unread : q # 1 => \E p \in DOMAIN Unread' : p + 1 = q /\ At(p)' = At(q)
  <2>1. \A q \in DOMAIN Unread : q # 1 => /\ q - 1 \in DOMAIN Unread'
                                          /\ (q - 1) + 1 = q
    BY <1>1, PopUnread
  <2> QED
    BY <1>3, <2>1
<1>5. \A q \in DOMAIN Unread : q \in Nat /\ q >= 1
  BY UnreadTyped
<1> QED
  BY <1>1, <1>2, <1>3, <1>4, <1>5

\* A line after which the prompt goes on does not end it.
LEMMA GoesOn ==
    ASSUME TypeOK, OutputInv, HandleLine, client' = "prompting"
    PROVE  ~EndsPrompt(line) /\ line.what # "answer"
<1>1. Shaped(1) /\ At(1) = line
  BY HandlePops DEF OutputInv
<1>2. line.type = "response" => line.what = "failed"
  BY <1>1 DEF Shaped
<1>3. line.what \notin {"answer", "empty", "failed"}
  BY DEF HandleLine
<1>4. ~(line.type = "agent_end" /\ line.what = "error")
  BY <1>3 DEF HandleLine
<1> QED
  BY <1>2, <1>3, <1>4 DEF EndsPrompt

LEMMA OutputHandle ==
    ASSUME TypeOK, OutputInv, AttemptInv, HandleLine
    PROVE  OutputInv' /\ AttemptInv'
<1>1. /\ UNCHANGED <<pi, stdin, called, running, documents, turn>>
      /\ InTurn(turn)' = InTurn(turn)
      /\ Len(Unread') \in Nat /\ Len(Unread) = Len(Unread') + 1
      /\ \A p \in DOMAIN Unread' : p \in Nat /\ p + 1 \in DOMAIN Unread /\ At(p)' = At(p + 1)
      /\ DOMAIN Unread' = 1..Len(Unread')
      /\ DOMAIN Unread = 1..Len(Unread)
  BY HandlePops, UnreadTyped
<1>2. Quiet' <=> Quiet
  BY <1>1 DEF Quiet
<1>3. OrderedOutput
  BY DEF OutputInv
<1>4. OrderedOutput'
  <2>1. \A p \in DOMAIN Unread' : At(p)'.of <= Len(documents)
    BY <1>1, <1>3 DEF OrderedOutput
  <2>2. ASSUME NEW p \in DOMAIN Unread', NEW q \in DOMAIN Unread', p < q
        PROVE  /\ At(p)'.of <= At(q)'.of
               /\ EndsAttempt(At(p))' /\ At(q)'.type = "message_end" => At(p)'.of < At(q)'.of
    <3>1. PICK a, b \in DOMAIN Unread : a = p + 1 /\ b = q + 1
      BY <1>1
    <3>2. a < b /\ At(p)' = At(a) /\ At(q)' = At(b)
      BY <1>1, <2>2, <3>1
    <3> QED
      BY <1>3, <3>2 DEF OrderedOutput, EndsAttempt
  <2> QED
    BY <1>1, <2>1, <2>2 DEF OrderedOutput
<1>5. ASSUME NEW p \in DOMAIN Unread' PROVE Shaped(p)'
  <2>1. PICK q \in DOMAIN Unread : q = p + 1 /\ q # 1
    BY <1>1
  <2>2. Shaped(q) /\ At(p)' = At(q) /\ p \in Nat /\ p >= 1
    BY <1>1, <2>1 DEF OutputInv
  <2>3. Retries(At(q)) => p + 1 \in DOMAIN Unread' /\ At(p + 1)'.type = "retry_start"
    <3> SUFFICES ASSUME Retries(At(q))
                 PROVE  p + 1 \in DOMAIN Unread' /\ At(p + 1)'.type = "retry_start"
      OBVIOUS
    <3>1. q + 1 \in DOMAIN Unread /\ At(q + 1).type = "retry_start"
      BY <2>2 DEF Shaped
    <3>2. q \in DOMAIN Unread'
      BY <1>1, <2>1, <2>2, <3>1
    <3>3. At(q)' = At(q + 1)
      BY <1>1, <3>2
    <3> QED
      BY <2>1, <3>1, <3>2, <3>3
  <2>4. EndsPrompt(At(q)) => p = Len(Unread')
    BY <1>1, <2>1, <2>2 DEF Shaped
  <2>5. At(q).what = "answer" /\ p # 1 => At(p - 1)'.what = "stop"
    <3> SUFFICES ASSUME At(q).what = "answer", p # 1 PROVE At(p - 1)'.what = "stop"
      OBVIOUS
    <3>1. At(q - 1).what = "stop" /\ q - 1 = p
      BY <2>1, <2>2 DEF Shaped
    <3>2. p - 1 \in DOMAIN Unread' /\ (p - 1) + 1 = p
      BY <1>1, <2>2
    <3>3. At(p - 1)' = At(p)
      BY <1>1, <3>2
    <3> QED
      BY <3>1, <3>3
  <2> QED
    BY <1>1, <1>2, <2>2, <2>3, <2>4, <2>5 DEF Shaped, EndsPrompt, Retries
<1>6. AttemptInv'
  BY <1>1 DEF AttemptInv, EndsAttempt
<1> QED
  BY <1>4, <1>5, <1>6 DEF OutputInv

\* The request that is settled next is the first of the turn that is not.
LEMMA LeastOpen ==
    ASSUME TypeOK, OrderInv, LookedInv, client = "prompting", Unsettled # {}
    PROVE  LET e == capture.requests[FirstUnsettled].index IN
           /\ e \in InTurn(turn) \cap seen /\ ~Settled(e)
           /\ \A d \in InTurn(turn) : ~Settled(d) => e <= d
<1> DEFINE i == FirstUnsettled
           e == capture.requests[i].index
<1>1. capture.requests \in Seq(TrackedRequest)
  BY DEF TypeOK, Capture
<1>2. Unsettled \in SUBSET Nat
  BY <1>1 DEF Unsettled
<1>3. \E k \in Unsettled : \A j \in Unsettled : k <= j
  BY <1>2, LeastExists
<1>4. i \in Unsettled /\ \A j \in Unsettled : i <= j
  BY <1>3 DEF FirstUnsettled
<1> HIDE DEF i
<1>5. i \in DOMAIN capture.requests /\ ~capture.requests[i].settled
  BY <1>4 DEF Unsettled
<1>6. \A k \in DOMAIN capture.requests : k \in Nat /\ capture.requests[k].index \in Nat
  BY <1>1, TrackedTyped
<1>7. /\ \A j, k \in DOMAIN capture.requests :
            j < k => capture.requests[j].index < capture.requests[k].index
      /\ e \in InTurn(turn) \cap seen
      /\ \A d \in InTurn(turn) \cap seen :
            \E k \in DOMAIN capture.requests : capture.requests[k].index = d
  BY <1>5 DEF LookedInv
<1>8. ~Settled(e)
  <2> SUFFICES ASSUME NEW k \in DOMAIN capture.requests, capture.requests[k].index = e
               PROVE  ~capture.requests[k].settled
    BY DEF Settled
  <2>1. ~(k < i) /\ ~(i < k)
    BY <1>5, <1>6, <1>7
  <2>2. k = i
    BY <1>5, <1>6, <2>1
  <2> QED
    BY <1>5, <2>2
<1>9. ASSUME NEW d \in InTurn(turn), ~Settled(d) PROVE e <= d
  <2>1. CASE d \in seen
    <3>1. PICK k \in DOMAIN capture.requests : capture.requests[k].index = d
      BY <1>7, <2>1
    <3>2. k \in Unsettled
      BY <1>9, <3>1 DEF Settled, Unsettled
    <3>3. i <= k
      BY <1>4, <3>2
    <3>4. i = k \/ i < k
      BY <1>5, <1>6, <3>3
    <3>5. CASE i = k
      BY <1>6, <3>1, <3>5
    <3>6. CASE i < k
      <4>1. e < d /\ e \in Nat /\ d \in Nat
        BY <1>5, <1>6, <1>7, <3>1, <3>6
      <4> QED
        BY <4>1
    <3> QED
      BY <3>4, <3>5, <3>6
  <2>2. CASE d \notin seen
    <3>1. PICK n \in DOMAIN log : IsStart(n) /\ log[n].request = e
      BY <1>7 DEF OrderInv
    <3>2. d \in DOMAIN documents /\ documents[d].turn = turn
      BY <1>9 DEF InTurn
    <3>3. e < d
      BY <2>2, <3>1, <3>2 DEF OrderInv
    <3>4. e \in Nat /\ d \in Nat
      BY <1>5, <1>6, <1>9, TurnRequests
    <3> QED
      BY <3>3, <3>4
  <2> QED
    BY <2>1, <2>2
<1> QED
  BY <1>7, <1>8, <1>9 DEF i

LEMMA AllSettled ==
    ASSUME LookedInv, Unsettled = {}
    PROVE  \A d \in InTurn(turn) \cap seen : Settled(d)
BY DEF LookedInv, Unsettled, Settled

\* A response, or a failure, settles that request, and says what the line is of.
Settles(e) ==
    /\ e \in InTurn(turn) \cap seen /\ ~Settled(e)
    /\ \A d \in InTurn(turn) : ~Settled(d) => e <= d
    /\ \A d : Settled(d)' <=> Settled(d) \/ d = e
    /\ LogGrows
    /\ \A n \in DOMAIN log' : n \notin DOMAIN log =>
          /\ log'[n].type \in Settlements /\ log'[n].turn = turn
          /\ log'[n].request = e /\ log'[n].of = line.of

\* No tracked request is lost, or takes another's place.
SameRequests ==
    /\ DOMAIN capture'.requests = DOMAIN capture.requests
    /\ \A k \in DOMAIN capture.requests :
          capture'.requests[k].index = capture.requests[k].index

LEMMA SettlesOne ==
    ASSUME TypeOK, OrderInv, LookedInv, HandleLine, CompleteResponse \/ FailResponse
    PROVE  SameRequests /\ \E e \in InTurn(turn) : Settles(e)
<1> DEFINE i == FirstUnsettled
           e == capture.requests[i].index
<1>1. client = "prompting" /\ line # None /\ Unsettled # {}
  BY DEF HandleLine, CompleteResponse, FailResponse
<1>2. PICK type \in Settlements :
          LET s == Event(type, e, None, capture.requests[i].sequence, line.of) IN
          /\ i \in Unsettled /\ i \in DOMAIN capture.requests
          /\ s \in EventRecord /\ log' = Append(log, s)
          /\ DOMAIN capture'.requests = DOMAIN capture.requests
          /\ \A k \in DOMAIN capture.requests :
                /\ capture'.requests[k].index = capture.requests[k].index
                /\ capture'.requests[k].settled <=> capture.requests[k].settled \/ k = i
  BY <1>1, SettleEffect
<1>3. /\ e \in InTurn(turn) \cap seen /\ ~Settled(e)
      /\ \A d \in InTurn(turn) : ~Settled(d) => e <= d
  BY <1>1, LeastOpen
<1> DEFINE s == Event(type, e, None, capture.requests[i].sequence, line.of)
<1>4. s.type = type /\ s.turn = turn /\ s.request = e /\ s.of = line.of
  BY EventFields
<1>5. s \in EventRecord /\ log' = Append(log, s)
  BY <1>2
<1> HIDE DEF s
<1>6. /\ LogGrows
      /\ \A n \in DOMAIN log' : n \notin DOMAIN log => log'[n] = s
  BY <1>5, AppendAdds
<1> HIDE DEF i
<1>7. ASSUME NEW d PROVE Settled(d)' <=> Settled(d) \/ d = e
  <2>1. ASSUME NEW k \in DOMAIN capture.requests, capture.requests[k].index = e PROVE k = i
    <3>1. /\ \A j, l \in DOMAIN capture.requests :
                j < l => capture.requests[j].index < capture.requests[l].index
          /\ k \in Nat /\ i \in Nat /\ i \in DOMAIN capture.requests /\ e \in Nat
      <4>1. \A j, l \in DOMAIN capture.requests :
               j < l => capture.requests[j].index < capture.requests[l].index
        BY DEF LookedInv
      <4>2. i \in DOMAIN capture.requests
        BY <1>2
      <4>3. e \in Nat
        BY <4>2, TrackedTyped
      <4>4. capture.requests \in Seq(TrackedRequest)
        BY DEF TypeOK, Capture
      <4>5. k \in Nat /\ i \in Nat
        BY <4>2, <4>4
      <4> QED
        BY <4>1, <4>2, <4>3, <4>5
    <3>2. ~(k < i) /\ ~(i < k)
      BY <2>1, <3>1
    <3> QED
      BY <3>1, <3>2
  <2> QED
    BY <1>2, <2>1 DEF Settled
<1>8. Settles(e)
  BY <1>3, <1>4, <1>6, <1>7 DEF Settles
<1> QED
  BY <1>2, <1>3, <1>8 DEF SameRequests

LEMMA LookedHandle ==
    ASSUME TypeOK, OrderInv, LookedInv, HandleLine
    PROVE  LookedInv' /\ SameRequests
<1>1. SameRequests
  <2>1. CASE CompleteResponse \/ FailResponse
    BY <2>1, SettlesOne
  <2>2. CASE HandlesOther
    BY <2>2 DEF HandlesOther, SameRequests
  <2> QED
    BY <2>1, <2>2, HandleCases
<1>2. UNCHANGED <<seen, turn>> /\ InTurn(turn)' = InTurn(turn) /\ line' = None
  BY HandlePops
<1>3. LookedInv'
  BY <1>1, <1>2 DEF LookedInv, SameRequests
<1> QED
  BY <1>1, <1>3

\* What a line adds to the log is of the turn; tools are recorded as they are
\* reported, and so are retries.
LEMMA HandleAdds ==
    ASSUME TypeOK, HandleLine
    PROVE  /\ LogGrows
           /\ \A n \in DOMAIN log' : n \notin DOMAIN log =>
                 /\ log'[n].turn = turn
                 /\ log'[n].type = "tool.started" => line.type = "tool_start"
                                                     /\ log'[n].tool = line.tool
           /\ line.type = "tool_end" =>
                 \E n \in DOMAIN log' : /\ log'[n].type = "tool.completed"
                                        /\ log'[n].turn = turn /\ log'[n].tool = line.tool
           /\ line.type = "retry_start" =>
                 \E n \in DOMAIN log' : /\ n \notin DOMAIN log
                                        /\ log'[n].type = "retry.started" /\ log'[n].turn = turn
<1>1. line # None /\ Handle
  BY DEF HandleLine
<1>2. CASE line.type \in {"response", "message_end", "agent_end"}
         /\ (CompleteResponse \/ FailResponse)
  <2>1. \E e \in EventRecord : /\ log' = Append(log, e)
                               /\ e.type \in Settlements /\ e.turn = turn
    BY <1>1, <1>2, SettleEffect, EventFields
  <2>2. PICK e \in EventRecord : log' = Append(log, e) /\ e.type \in Settlements /\ e.turn = turn
    BY <2>1
  <2>3. LogGrows /\ \A n \in DOMAIN log' : n \notin DOMAIN log => log'[n] = e
    BY <2>2, AppendAdds
  <2> QED
    BY <1>2, <2>2, <2>3 DEF Settlements
<1>3. CASE line.type = "agent_end" /\ UNCHANGED <<log, capture, source>>
  BY <1>3 DEF LogGrows
<1>4. CASE line.type = "retry_start" /\ StartRetry
  <2> DEFINE e == Event("retry.started", capture.requests[Current].index, None,
                        capture.requests[Current].sequence, line.of)
  <2>1. e \in EventRecord /\ log' = Append(log, e)
    BY <1>1, <1>4, RetryTyped DEF StartRetry, Record
  <2>2. e.type = "retry.started" /\ e.turn = turn
    BY EventFields
  <2> HIDE DEF e
  <2>3. /\ LogGrows
        /\ Len(log) + 1 \in DOMAIN log' /\ Len(log) + 1 \notin DOMAIN log
        /\ log'[Len(log) + 1] = e
        /\ \A n \in DOMAIN log' : n \notin DOMAIN log => n = Len(log) + 1
    BY <2>1, AppendAdds
  <2> QED
    BY <1>4, <2>2, <2>3
<1>5. CASE line.type = "tool_start" /\ RecordToolStart
  <2>1. \E e \in EventRecord : /\ log' = Append(log, e)
                               /\ e.type = "tool.started" /\ e.turn = turn /\ e.tool = line.tool
    BY <1>1, <1>5, ToolStartEffect, EventFields
  <2>2. PICK e \in EventRecord : /\ log' = Append(log, e)
                                 /\ e.type = "tool.started" /\ e.turn = turn /\ e.tool = line.tool
    BY <2>1
  <2>3. LogGrows /\ \A n \in DOMAIN log' : n \notin DOMAIN log => log'[n] = e
    BY <2>2, AppendAdds
  <2> QED
    BY <1>5, <2>2, <2>3
<1>6. CASE line.type = "tool_end" /\ RecordToolCompletion
  <2>1. PICK state \in capture.tools : CompleteTool(state)
    BY <1>6 DEF RecordToolCompletion
  <2> DEFINE e == Event("tool.completed", capture.requests[state.request].index, line.tool,
                        state.sequence, line.of)
             c == Event("context", None, None, None, None)
  <2>2. /\ e.type = "tool.completed" /\ e.turn = turn /\ e.tool = line.tool
        /\ c.type = "context" /\ c.turn = turn
    BY EventFields
  <2>3. e \in EventRecord /\ c \in EventRecord /\ log' = log \o <<e, c>>
    BY <1>1, <2>1, ToolEndEffect
  <2> HIDE DEF e, c
  <2> DEFINE more == <<e, c>>
  <2>4. /\ more \in Seq(EventRecord) /\ log' = log \o more /\ Len(more) = 2
        /\ more[1] = e /\ more[2] = c
    BY <2>3
  <2> HIDE DEF more
  <2>5. /\ LogGrows
        /\ \A j \in 1..2 : Len(log) + j \in DOMAIN log' /\ log'[Len(log) + j] = more[j]
        /\ \A n \in DOMAIN log' : n \notin DOMAIN log => \E j \in 1..2 : n = Len(log) + j
    BY <2>4, ConcatAdds
  <2>6. Len(log) + 1 \in DOMAIN log' /\ log'[Len(log) + 1] = e
    BY <2>4, <2>5
  <2>7. \A n \in DOMAIN log' : n \notin DOMAIN log => log'[n] = e \/ log'[n] = c
    <3> SUFFICES ASSUME NEW n \in DOMAIN log', n \notin DOMAIN log
                 PROVE  log'[n] = e \/ log'[n] = c
      OBVIOUS
    <3>1. PICK j \in 1..2 : n = Len(log) + j
      BY <2>5
    <3>2. log'[n] = more[j] /\ (j = 1 \/ j = 2)
      BY <2>5, <3>1
    <3> QED
      BY <2>4, <3>2
  <2> QED
    BY <1>6, <2>2, <2>5, <2>6, <2>7
<1> QED
  BY <1>1, <1>2, <1>3, <1>4, <1>5, <1>6 DEF Handle, EndAgent

LEMMA ToolsHandle ==
    ASSUME TypeOK, ToolsInv, HandleLine
    PROVE  ToolsInv'
<1>1. /\ UNCHANGED <<pi, running, turn>>
      /\ 1 \in DOMAIN Unread /\ At(1) = line
      /\ \A p \in DOMAIN Unread' : /\ p \in Nat /\ p + 1 \in DOMAIN Unread /\ p + 1 # 1
                                   /\ At(p)' = At(p + 1)
      /\ \A q \in DOMAIN Unread : q \in Nat /\ q >= 1 /\
            (q # 1 => \E p \in DOMAIN Unread' : p + 1 = q /\ At(p)' = At(q))
  BY HandlePops
<1>2. /\ LogGrows
      /\ \A n \in DOMAIN log' : n \notin DOMAIN log =>
            (log'[n].type = "tool.started" => line.type = "tool_start" /\ log'[n].tool = line.tool)
      /\ line.type = "tool_end" =>
            \E n \in DOMAIN log' : /\ log'[n].type = "tool.completed"
                                   /\ log'[n].turn = turn /\ log'[n].tool = line.tool
  BY HandleAdds
<1>3. Whole' => Whole
  BY <1>1 DEF Whole
<1>4. SUFFICES ASSUME ToolsKept PROVE ToolsKept'
  BY <1>3 DEF ToolsInv
<1>5. ASSUME NEW q \in DOMAIN Unread, NEW x, Ends(q, x), q # 1
      PROVE  \E p \in DOMAIN Unread' : p + 1 = q /\ Ends(p, x)'
  <2>1. PICK p \in DOMAIN Unread' : p + 1 = q /\ At(p)' = At(q)
    BY <1>1, <1>5
  <2> QED
    BY <1>5, <2>1 DEF Ends
<1>6. ASSUME NEW x, Ends(1, x) PROVE Completed(x, turn)'
  BY <1>1, <1>2, <1>6 DEF Ends, Completed
<1>7. ASSUME NEW n \in DOMAIN log', log'[n].type = "tool.started", log'[n].turn = turn'
      PROVE  \/ Completed(log[n].tool, turn)'
             \/ (log[n].tool \in running)'
             \/ \E p \in DOMAIN Unread' : Ends(p, log[n].tool)'
  <2>1. PICK x : x = log'[n].tool
    OBVIOUS
  <2>2. CASE n \in DOMAIN log
    <3>1. log'[n] = log[n]
      BY <1>2, <2>2 DEF LogGrows
    <3>2. \/ Completed(x, turn)
          \/ x \in running
          \/ \E q \in DOMAIN Unread : Ends(q, x)
      BY <1>1, <1>4, <1>7, <2>1, <2>2, <3>1 DEF ToolsKept
    <3>3. CASE Completed(x, turn)
      <4>1. Completed(x, turn)'
        BY <1>1, <1>2, <3>3 DEF Completed, LogGrows
      <4> QED
        BY <2>1, <4>1 DEF Completed
    <3>4. CASE x \in running
      BY <1>1, <2>1, <3>4
    <3>5. CASE \E q \in DOMAIN Unread : Ends(q, x)
      <4>1. PICK q \in DOMAIN Unread : Ends(q, x)
        BY <3>5
      <4>2. CASE q = 1
        <5>1. Completed(x, turn)'
          BY <1>6, <4>1, <4>2
        <5> QED
          BY <2>1, <5>1 DEF Completed
      <4>3. CASE q # 1
        <5>1. PICK p \in DOMAIN Unread' : Ends(p, x)'
          BY <1>5, <4>1, <4>3
        <5> QED
          BY <2>1, <5>1 DEF Ends
      <4> QED
        BY <4>2, <4>3
    <3> QED
      BY <3>2, <3>3, <3>4, <3>5
  <2>3. CASE n \notin DOMAIN log
    <3>1. At(1).type = "tool_start" /\ At(1).tool = x
      BY <1>1, <1>2, <1>7, <2>1, <2>3
    <3>2. x \in running \/ \E q \in DOMAIN Unread : 1 < q /\ Ends(q, x)
      BY <1>1, <1>4, <3>1 DEF ToolsKept
    <3>3. CASE x \in running
      BY <1>1, <2>1, <3>3
    <3>4. CASE \E q \in DOMAIN Unread : 1 < q /\ Ends(q, x)
      <4>1. PICK p \in DOMAIN Unread' : Ends(p, x)'
        BY <1>5, <3>4
      <4> QED
        BY <2>1, <4>1 DEF Ends
    <3> QED
      BY <3>2, <3>3, <3>4
  <2> QED
    BY <2>2, <2>3
<1>8. ASSUME NEW p \in DOMAIN Unread', At(p)'.type = "tool_start"
      PROVE  \/ (At(p).tool \in running)'
             \/ \E q \in DOMAIN Unread' : p < q /\ Ends(q, At(p).tool)'
  <2>1. PICK a \in DOMAIN Unread, x \in {At(p + 1).tool} : a = p + 1 /\ x = At(a).tool /\ At(p)' = At(a) /\ p \in Nat
    BY <1>1
  <2>2. x \in running \/ \E b \in DOMAIN Unread : a < b /\ Ends(b, x)
    BY <1>4, <1>8, <2>1 DEF ToolsKept
  <2>3. CASE x \in running
    BY <1>1, <2>1, <2>3
  <2>4. CASE \E b \in DOMAIN Unread : a < b /\ Ends(b, x)
    <3>1. PICK b \in DOMAIN Unread : a < b /\ Ends(b, x)
      BY <2>4
    <3>2. b # 1 /\ a \in Nat /\ b \in Nat
      BY <1>1, <2>1, <3>1
    <3>3. PICK q \in DOMAIN Unread' : q + 1 = b /\ Ends(q, x)'
      BY <1>5, <3>1, <3>2
    <3>4. p < q
      BY <1>1, <2>1, <3>1, <3>2, <3>3
    <3> QED
      BY <2>1, <3>3, <3>4 DEF Ends
  <2> QED
    BY <2>2, <2>3, <2>4
<1> QED
  BY <1>7, <1>8 DEF ToolsKept

\* A retry that is read is in the log.
LEMMA RetriedHandle ==
    ASSUME TypeOK, RetriedAgain, HandleLine
    PROVE  RetriedAgain'
<1>1. /\ turn' = turn /\ At(1) = line
      /\ \A q \in DOMAIN Unread : q # 1 => \E p \in DOMAIN Unread' : p + 1 = q /\ At(p)' = At(q)
  BY HandlePops
<1>2. /\ LogGrows
      /\ line.type = "retry_start" =>
            \E n \in DOMAIN log' : /\ n \notin DOMAIN log
                                   /\ log'[n].type = "retry.started" /\ log'[n].turn = turn
  BY HandleAdds
<1>3. \A n \in DOMAIN log : RetryLogged(n) => n \in DOMAIN log' /\ RetryLogged(n)'
  BY <1>1, <1>2 DEF RetryLogged, LogGrows
<1>4. RetryUnread(1) => \E n \in DOMAIN log' : n \notin DOMAIN log /\ RetryLogged(n)'
  BY <1>1, <1>2 DEF RetryUnread, RetryLogged
<1>5. \A q \in DOMAIN Unread : RetryUnread(q) /\ q # 1 =>
         \E p \in DOMAIN Unread' : p + 1 = q /\ RetryUnread(p)'
  BY <1>1 DEF RetryUnread
<1>6. CASE \E m, n \in DOMAIN log : m # n /\ RetryLogged(m) /\ RetryLogged(n)
  BY <1>3, <1>6 DEF RetriedAgain
<1>7. CASE \E n \in DOMAIN log, p \in DOMAIN Unread : RetryLogged(n) /\ RetryUnread(p)
  <2>1. PICK n \in DOMAIN log, p \in DOMAIN Unread : RetryLogged(n) /\ RetryUnread(p)
    BY <1>7
  <2>2. n \in DOMAIN log' /\ RetryLogged(n)'
    BY <1>3, <2>1
  <2>3. CASE p = 1
    <3>1. PICK m \in DOMAIN log' : m \notin DOMAIN log /\ RetryLogged(m)'
      BY <1>4, <2>1, <2>3
    <3> QED
      BY <2>1, <2>2, <3>1 DEF RetriedAgain
  <2>4. CASE p # 1
    <3>1. \E q \in DOMAIN Unread' : RetryUnread(q)'
      BY <1>5, <2>1, <2>4
    <3> QED
      BY <2>2, <3>1 DEF RetriedAgain
  <2> QED
    BY <2>3, <2>4
<1>8. CASE \E p, q \in DOMAIN Unread : p # q /\ RetryUnread(p) /\ RetryUnread(q)
  <2>1. PICK p, q \in DOMAIN Unread : p # q /\ q # 1 /\ RetryUnread(p) /\ RetryUnread(q)
    BY <1>8
  <2>2. PICK b \in DOMAIN Unread' : b + 1 = q /\ RetryUnread(b)'
    BY <1>5, <2>1
  <2>3. CASE p = 1
    <3>1. PICK m \in DOMAIN log' : m \notin DOMAIN log /\ RetryLogged(m)'
      BY <1>4, <2>1, <2>3
    <3> QED
      BY <2>2, <3>1 DEF RetriedAgain
  <2>4. CASE p # 1
    <3>1. PICK a \in DOMAIN Unread' : a + 1 = p /\ RetryUnread(a)'
      BY <1>5, <2>1, <2>4
    <3>2. a # b
      BY <2>1, <2>2, <3>1
    <3> QED
      BY <2>2, <3>1, <3>2 DEF RetriedAgain
  <2> QED
    BY <2>3, <2>4
<1> QED
  BY <1>6, <1>7, <1>8 DEF RetriedAgain

\* A line that settles nothing, and none was to be settled, leaves the lines
\* in step with the requests, or one ahead of them.
LEMMA ModeOther ==
    ASSUME TypeOK, OutputInv, LookedInv, ModeInv, HandleLine,
           HandlesOther, line.type # "message_end", Retries(line) => Unsettled = {}
    PROVE  ModeInv'
<1>1. /\ UNCHANGED <<pi, documents, turn>> /\ InTurn(turn)' = InTurn(turn)
      /\ line # None /\ 1 \in DOMAIN Unread /\ At(1) = line
      /\ \A p \in DOMAIN Unread' : /\ p + 1 \in DOMAIN Unread /\ p + 1 # 1
                                   /\ At(p)' = At(p + 1)
      /\ \A q \in DOMAIN Unread : q # 1 => \E p \in DOMAIN Unread' : p + 1 = q /\ At(p)' = At(q)
  BY HandlePops
<1>2. /\ LogGrows
      /\ \A n \in DOMAIN log' : n \notin DOMAIN log => log'[n].type \in OtherTypes
      /\ capture'.requests = capture.requests
  BY DEF HandlesOther
<1>3. \A d : Settled(d)' <=> Settled(d)
  BY <1>2 DEF Settled
<1>4. Exact(turn) => Exact(turn)'
  BY <1>1, <1>2 DEF Exact, LogGrows, OtherTypes, Settlements
<1>5. \A d : Ended(d)' <=> Ended(d)
  BY <1>1 DEF Ended
<1>6. ASSUME NEW d, NEW p \in DOMAIN Unread, Marks(p, d), p # 1
      PROVE  \E q \in DOMAIN Unread' : Marks(q, d)'
  <2>1. PICK q \in DOMAIN Unread' : At(q)' = At(p)
    BY <1>1, <1>6
  <2> QED
    BY <1>6, <2>1 DEF Marks, Retries
<1>7. ASSUME InStep PROVE ModeInv'
  <2>1. \A p \in DOMAIN Unread' : At(p)'.type = "message_end" => ~Settled(At(p).of)'
    <3> SUFFICES ASSUME NEW p \in DOMAIN Unread', At(p)'.type = "message_end"
                 PROVE  ~Settled(At(p).of)'
      OBVIOUS
    <3>1. PICK d : d = At(p + 1).of
      OBVIOUS
    <3>2. At(p)'.of = d /\ ~Settled(d)
      BY <1>1, <1>7, <3>1 DEF InStep
    <3> QED
      BY <1>2, <3>2 DEF Settled
  <2>2. ASSUME NEW d \in InTurn(turn), Ended(d), ~Settled(d)
        PROVE  \E q \in DOMAIN Unread' : Marks(q, d)'
    <3>1. PICK p \in DOMAIN Unread : Marks(p, d)
      BY <1>7, <2>2 DEF InStep
    <3>2. p # 1
      <4>1. SUFFICES ASSUME p = 1 PROVE FALSE
        OBVIOUS
      <4>2. Retries(line) /\ line.of = d
        BY <1>1, <3>1, <4>1 DEF Marks
      <4>3. d \in Nat /\ d <= line.of
        BY <2>2, <4>2, TurnRequests
      <4>4. d \in seen
        BY <1>1, <2>2, <4>3 DEF LookedInv
      <4>5. Settled(d)
        BY <2>2, <4>2, <4>4, AllSettled
      <4> QED
        BY <2>2, <4>5
    <3> QED
      BY <1>6, <3>1, <3>2
  <2>3. pi' \in {"captured", "provider"} => ~Settled(Len(documents))'
    BY <1>1, <1>2, <1>7 DEF InStep, Settled
  <2>4. InStep'
    BY <1>1, <1>3, <1>4, <1>5, <1>7, <2>1, <2>2, <2>3 DEF InStep
  <2> QED
    BY <2>4 DEF ModeInv
<1>8. ASSUME OneAhead PROVE ModeInv'
  <2>1. PICK m \in InTurn(turn) : AheadAt(m)
    BY <1>8 DEF OneAhead
  <2>2. ~Retries(line)
    BY <1>1, <1>8 DEF OneAhead
  <2>3. ASSUME NEW d \in InTurn(turn), Ended(d), d >= m
        PROVE  \E q \in DOMAIN Unread' : Marks(q, d)'
    <3>1. PICK p \in DOMAIN Unread : Marks(p, d)
      BY <2>1, <2>3 DEF AheadAt
    <3>2. p # 1
      BY <1>1, <2>2, <3>1 DEF Marks
    <3> QED
      BY <1>6, <3>1, <3>2
  <2>4. \A p \in DOMAIN Unread' : At(p)'.type = "message_end" => At(p)'.of >= m
    BY <1>1, <2>1 DEF AheadAt
  <2>5. AheadAt(m)'
    BY <1>1, <1>3, <1>5, <2>1, <2>3, <2>4 DEF AheadAt
  <2>6. (\E n \in DOMAIN log' : RetryLogged(n)') \/ \E p \in DOMAIN Unread' : RetryUnread(p)'
    <3>1. CASE \E n \in DOMAIN log : RetryLogged(n)
      BY <1>1, <1>2, <3>1 DEF RetryLogged, LogGrows
    <3>2. CASE \E p \in DOMAIN Unread : RetryUnread(p)
      <4>1. PICK p \in DOMAIN Unread : RetryUnread(p)
        BY <3>2
      <4>2. CASE p = 1
        BY <1>1, <4>1, <4>2, HandleAdds DEF RetryUnread, RetryLogged
      <4>3. CASE p # 1
        BY <1>1, <4>1, <4>3 DEF RetryUnread
      <4> QED
        BY <4>2, <4>3
    <3> QED
      BY <1>8, <3>1, <3>2 DEF OneAhead
  <2>7. \A p \in DOMAIN Unread' : ~Retries(At(p))'
    BY <1>1, <1>8 DEF OneAhead, Retries
  <2>8. 1 \in DOMAIN Unread' => At(1)'.what # "answer"
    <3> SUFFICES ASSUME 1 \in DOMAIN Unread', At(1)'.what = "answer" PROVE FALSE
      OBVIOUS
    <3>2. PICK q \in DOMAIN Unread : q = 1 + 1 /\ At(q).what = "answer" /\ q # 1
      BY <1>1
    <3>3. At(1).what = "stop"
      BY <3>2 DEF OutputInv, Shaped
    <3>4. At(1).type = "message_end"
      BY <1>1, <3>3 DEF OutputInv, Shaped
    <3> QED
      BY <1>1, <3>4
  <2>9. OneAhead'
    BY <1>1, <2>1, <2>5, <2>6, <2>7, <2>8 DEF OneAhead
  <2> QED
    BY <2>9 DEF ModeInv
<1>9. ASSUME RetriedAgain PROVE ModeInv'
  BY <1>9, RetriedHandle DEF ModeInv
<1> QED
  BY <1>7, <1>8, <1>9 DEF ModeInv

\* The lines behind the end of an attempt.
LEMMA BehindEnd ==
    ASSUME TypeOK, OutputInv, AttemptInv, HandleLine, EndsAttempt(line)
    PROVE  /\ line.of \in Nat /\ line.of <= Len(documents)
           /\ \A p \in DOMAIN Unread : line.of <= At(p).of /\ At(p).of \in Nat
           /\ \A p \in DOMAIN Unread : p # 1 /\ At(p).type = "message_end" => line.of < At(p).of
           /\ \A p \in DOMAIN Unread : At(p).type = "message_end" => At(p).of \in InTurn(turn)
           /\ pi \in {"captured", "provider"} => line.of < Len(documents)
<1>1. /\ 1 \in DOMAIN Unread /\ At(1) = line
      /\ \A q \in DOMAIN Unread : q \in Nat /\ q >= 1
  BY HandlePops
<1>2. /\ \A p \in DOMAIN Unread : At(p).of <= Len(documents) /\ At(p).of \in Nat
      /\ \A p, q \in DOMAIN Unread : p < q => At(p).of <= At(q).of
      /\ \A p, q \in DOMAIN Unread :
            p < q /\ EndsAttempt(At(p)) /\ At(q).type = "message_end" => At(p).of < At(q).of
  BY UnreadTyped DEF OutputInv, OrderedOutput
<1>3. \A q \in DOMAIN Unread : q # 1 => 1 < q
  BY <1>1
<1>4. \A p \in DOMAIN Unread : At(p).type = "message_end" => At(p).of \in InTurn(turn)
  BY DEF OutputInv, Shaped
<1>5. pi \in {"captured", "provider"} => line.of < Len(documents)
  BY <1>1 DEF AttemptInv
<1>6. \A p \in DOMAIN Unread : line.of <= At(p).of
  <2> SUFFICES ASSUME NEW p \in DOMAIN Unread PROVE line.of <= At(p).of
    OBVIOUS
  <2>1. CASE p = 1
    BY <1>1, <1>2, <2>1
  <2>2. CASE p # 1
    BY <1>1, <1>2, <1>3, <2>2
  <2> QED
    BY <2>1, <2>2
<1> QED
  BY <1>1, <1>2, <1>3, <1>4, <1>5, <1>6

\* The marks that are left, when a line is handled.
LEMMA MarksLeft ==
    ASSUME TypeOK, HandleLine, NEW d, NEW p \in DOMAIN Unread, Marks(p, d), p # 1
    PROVE  \E q \in DOMAIN Unread' : Marks(q, d)'
<1>1. PICK q \in DOMAIN Unread' : At(q)' = At(p)
  BY HandlePops
<1> QED
  BY <1>1 DEF Marks, Retries

\* The line is of the request that is settled: they stay in step.
LEMMA InStepStays ==
    ASSUME TypeOK, OutputInv, AttemptInv, LookedInv, InStep, HandleLine, EndsAttempt(line),
           NEW e \in InTurn(turn), Settles(e), line.of = e
    PROVE  InStep'
<1>1. /\ UNCHANGED <<pi, documents, turn>> /\ InTurn(turn)' = InTurn(turn)
      /\ At(1) = line
      /\ \A p \in DOMAIN Unread' : p + 1 \in DOMAIN Unread /\ p + 1 # 1 /\ At(p)' = At(p + 1)
  BY HandlePops
<1>2. /\ ~Settled(e) /\ LogGrows
      /\ \A d \in InTurn(turn) : ~Settled(d) => e <= d
      /\ \A d : Settled(d)' <=> Settled(d) \/ d = e
      /\ \A n \in DOMAIN log' : n \notin DOMAIN log => log'[n].request = e /\ log'[n].of = e
  BY DEF Settles
<1>3. \A d \in InTurn(turn) : d \in Nat
  BY TurnRequests
<1>4. Exact(turn)'
  BY <1>1, <1>2 DEF InStep, Exact, LogGrows
<1>5. ASSUME NEW d \in InTurn(turn)', NEW f \in InTurn(turn)', d < f, Settled(f)'
      PROVE  Settled(d)'
  <2>1. CASE Settled(f)
    BY <1>1, <1>2, <1>5, <2>1 DEF InStep
  <2>2. CASE f = e
    <3>1. ~(e <= d)
      BY <1>1, <1>3, <1>5, <2>2
    <3> QED
      BY <1>1, <1>2, <3>1
  <2> QED
    BY <1>2, <1>5, <2>1, <2>2
<1>6. ASSUME NEW p \in DOMAIN Unread', At(p)'.type = "message_end"
      PROVE  ~Settled(At(p).of)'
  <2>1. PICK d : d = At(p)'.of
    OBVIOUS
  <2>2. ~Settled(d) /\ e < d /\ d \in Nat
    BY <1>1, <1>6, <2>1, BehindEnd DEF InStep
  <2>3. ~Settled(d)'
    BY <1>2, <1>3, <2>2
  <2> QED
    BY <2>1, <2>3 DEF Settled
<1>7. ASSUME NEW d \in InTurn(turn)', Ended(d)', ~Settled(d)'
      PROVE  \E p \in DOMAIN Unread' : Marks(p, d)'
  <2>1. d \in InTurn(turn) /\ Ended(d) /\ ~Settled(d) /\ d # e
    BY <1>1, <1>2, <1>7 DEF Ended
  <2>2. PICK p \in DOMAIN Unread : Marks(p, d)
    BY <2>1 DEF InStep
  <2>3. p # 1
    BY <1>1, <2>1, <2>2 DEF Marks
  <2> QED
    BY <2>2, <2>3, MarksLeft
<1>8. pi' \in {"captured", "provider"} => ~Settled(Len(documents))'
  <2>1. PICK d : d = Len(documents)
    OBVIOUS
  <2>2. pi \in {"captured", "provider"} => ~Settled(d) /\ e < d
    BY <2>1, BehindEnd DEF InStep
  <2>3. pi \in {"captured", "provider"} => ~Settled(d)'
    BY <1>2, <1>3, <2>2
  <2> QED
    BY <1>1, <2>1, <2>3 DEF Settled
<1> QED
  BY <1>4, <1>5, <1>6, <1>7, <1>8 DEF InStep

\* The line is of another request: an attempt that was retried, and its
\* message has settled its request.
LEMMA GetsAhead ==
    ASSUME TypeOK, OutputInv, AttemptInv, LookedInv, InStep, HandleLine,
           line.type = "message_end" \/ Retries(line),
           NEW e \in InTurn(turn), Settles(e), line.of # e
    PROVE  OneAhead' \/ RetriedAgain'
<1>1. /\ UNCHANGED <<pi, documents, turn>> /\ InTurn(turn)' = InTurn(turn)
      /\ 1 \in DOMAIN Unread /\ At(1) = line
      /\ \A p \in DOMAIN Unread' : /\ p + 1 \in DOMAIN Unread /\ p + 1 # 1 /\ p \in Nat
                                   /\ At(p)' = At(p + 1)
      /\ \A q \in DOMAIN Unread : q # 1 => \E p \in DOMAIN Unread' : p + 1 = q /\ At(p)' = At(q)
  BY HandlePops
<1>2. /\ ~Settled(e) /\ LogGrows
      /\ \A d \in InTurn(turn) : ~Settled(d) => e <= d
      /\ \A d : Settled(d)' <=> Settled(d) \/ d = e
  BY DEF Settles
<1>3. \A d \in InTurn(turn) : d \in Nat
  BY TurnRequests
<1>4. EndsAttempt(line)
  BY DEF EndsAttempt, Retries
<1>5. ~(line.of \in InTurn(turn) /\ ~Settled(line.of))
  <2> SUFFICES ASSUME line.of \in InTurn(turn), ~Settled(line.of) PROVE FALSE
    OBVIOUS
  <2>1. e < line.of /\ line.of <= Len(documents)
    BY <1>2, <1>3, <1>4, BehindEnd
  <2>2. Ended(e)
    BY <1>3, <1>4, <2>1, BehindEnd, TurnRequests DEF Ended
  <2>3. PICK p \in DOMAIN Unread : Marks(p, e)
    BY <1>2, <2>2 DEF InStep
  <2>4. line.of <= e
    BY <1>4, <2>3, BehindEnd DEF Marks
  <2> QED
    BY <1>3, <1>4, <2>1, <2>4, BehindEnd
<1>6. Retries(line)
  <2>1. line.type = "message_end" => line.of \in InTurn(turn) /\ ~Settled(line.of)
    BY <1>1, <1>4, BehindEnd DEF InStep
  <2> QED
    BY <1>5, <2>1
<1>7. PICK r \in DOMAIN Unread' : r + 1 = 2 /\ At(r)'.type = "retry_start"
  <2>1. 1 + 1 \in DOMAIN Unread /\ At(1 + 1).type = "retry_start"
    BY <1>1, <1>6 DEF OutputInv, Shaped
  <2>2. PICK q \in DOMAIN Unread : q = 1 + 1 /\ At(q).type = "retry_start" /\ q # 1
    BY <2>1
  <2> QED
    BY <1>1, <2>2
<1>8. r = 1 /\ RetryUnread(r)'
  BY <1>1, <1>7 DEF RetryUnread
<1>9. CASE \E p \in DOMAIN Unread' : Retries(At(p))'
  <2>1. PICK p \in DOMAIN Unread' : Retries(At(p))'
    BY <1>9
  <2>2. PICK q \in DOMAIN Unread : q = p + 1 /\ Retries(At(q))
    BY <1>1, <2>1 DEF Retries
  <2>3. q + 1 \in DOMAIN Unread /\ At(q + 1).type = "retry_start" /\ q + 1 # 1
    BY <1>1, <2>2 DEF OutputInv, Shaped
  <2>4. PICK s \in DOMAIN Unread' : s + 1 = q + 1 /\ At(s)'.type = "retry_start"
    BY <1>1, <2>3
  <2>5. s # r /\ RetryUnread(s)'
    <3>1. s = p + 1 /\ p >= 1 /\ p \in Nat
      <4>1. DOMAIN Unread' = 1..Len(Unread')
        BY HandlePops
      <4> QED
        BY <1>1, <2>2, <2>4, <4>1
    <3> QED
      BY <1>8, <2>4, <3>1 DEF RetryUnread
  <2>6. RetriedAgain'
    BY <1>8, <2>5 DEF RetriedAgain
  <2> QED
    BY <2>6
<1>10. CASE ~\E p \in DOMAIN Unread' : Retries(At(p))'
  <2>1. \A d \in InTurn(turn)' : Settled(d)' <=> d <= e
    <3> SUFFICES ASSUME NEW d \in InTurn(turn) PROVE Settled(d) \/ d = e <=> d <= e
      BY <1>1, <1>2
    <3>1. CASE d < e
      BY <1>2, <1>3, <3>1
    <3>2. CASE d = e
      BY <1>3, <3>2
    <3>3. CASE e < d
      BY <1>2, <1>3, <3>3 DEF InStep
    <3> QED
      BY <1>3, <3>1, <3>2, <3>3
  <2>2. \A p \in DOMAIN Unread' : At(p)'.type = "message_end" => At(p)'.of >= e
    <3> SUFFICES ASSUME NEW p \in DOMAIN Unread', At(p)'.type = "message_end"
                 PROVE  At(p)'.of >= e
      OBVIOUS
    <3>1. PICK d : d = At(p)'.of
      OBVIOUS
    <3>2. d \in InTurn(turn) /\ ~Settled(d)
      BY <1>1, <1>4, <3>1, BehindEnd DEF InStep
    <3> QED
      BY <1>2, <1>3, <3>1, <3>2
  <2>3. ASSUME NEW d \in InTurn(turn)', Ended(d)', d >= e
        PROVE  \E p \in DOMAIN Unread' : Marks(p, d)'
    <3>1. d \in InTurn(turn) /\ Ended(d)
      BY <1>1, <2>3 DEF Ended
    <3>2. ~Settled(d)
      <4>1. CASE d = e
        BY <1>2, <4>1
      <4>2. CASE d # e
        BY <1>2, <1>3, <2>3, <3>1, <4>2 DEF InStep
      <4> QED
        BY <4>1, <4>2
    <3>3. PICK p \in DOMAIN Unread : Marks(p, d)
      BY <3>1, <3>2 DEF InStep
    <3>4. p # 1
      BY <1>1, <1>5, <3>1, <3>2, <3>3 DEF Marks
    <3> QED
      BY <3>3, <3>4, MarksLeft
  <2>4. AheadAt(e)'
    BY <1>1, <2>1, <2>2, <2>3 DEF AheadAt
  <2>5. 1 \in DOMAIN Unread' => At(1)'.what # "answer"
    <3>1. At(1)'.type = "retry_start"
      BY <1>7, <1>8
    <3>2. PICK q \in DOMAIN Unread : q = 1 + 1 /\ At(q) = At(1)'
      BY <1>1, <1>8
    <3> QED
      BY <3>1, <3>2 DEF OutputInv, Shaped
  <2>6. OneAhead'
    BY <1>1, <1>8, <1>10, <2>4, <2>5 DEF OneAhead
  <2> QED
    BY <2>6
<1> QED
  BY <1>9, <1>10

\* One ahead, the message is of the last request that is settled, and settles
\* the next: there is one, unless the line is of the last request of all.
LEMMA StaysAhead ==
    ASSUME TypeOK, OutputInv, AttemptInv, LookedInv, OneAhead, HandleLine,
           line.type = "message_end" \/ Retries(line), NEW e \in InTurn(turn), Settles(e)
    PROVE  OneAhead'
<1>1. /\ UNCHANGED <<pi, documents, turn>> /\ InTurn(turn)' = InTurn(turn)
      /\ 1 \in DOMAIN Unread /\ At(1) = line
      /\ \A p \in DOMAIN Unread' : p + 1 \in DOMAIN Unread /\ p + 1 # 1 /\ At(p)' = At(p + 1)
      /\ \A q \in DOMAIN Unread : q # 1 => \E p \in DOMAIN Unread' : p + 1 = q /\ At(p)' = At(q)
  BY HandlePops
<1>2. /\ ~Settled(e) /\ LogGrows
      /\ \A d \in InTurn(turn) : ~Settled(d) => e <= d
      /\ \A d : Settled(d)' <=> Settled(d) \/ d = e
  BY DEF Settles
<1>3. \A d \in InTurn(turn) : d \in Nat /\ d <= Len(documents)
  BY TurnRequests
<1>4. line.type = "message_end" /\ EndsAttempt(line) /\ line.type # "retry_start"
  BY <1>1 DEF OneAhead, EndsAttempt
<1>5. PICK m \in InTurn(turn) : AheadAt(m)
  BY DEF OneAhead
<1>6. m < e /\ m < Len(documents) /\ Len(documents) \in Nat
  <2>1. ~(e <= m)
    BY <1>2, <1>5 DEF AheadAt
  <2> QED
    BY <1>3, <2>1, TurnRequests
<1>7. line.of = m
  <2>1. line.of >= m
    BY <1>1, <1>4, <1>5 DEF AheadAt
  <2>2. Ended(m)
    BY <1>6 DEF Ended
  <2>3. PICK p \in DOMAIN Unread : Marks(p, m)
    BY <1>3, <1>5, <2>2 DEF AheadAt
  <2>4. line.of <= m
    BY <1>4, <2>3, BehindEnd DEF Marks
  <2> QED
    BY <1>3, <1>4, <2>1, <2>4, BehindEnd
<1>8. \A d \in InTurn(turn)' : Settled(d)' <=> d <= e
  <2> SUFFICES ASSUME NEW d \in InTurn(turn) PROVE Settled(d) \/ d = e <=> d <= e
    BY <1>1, <1>2
  <2>1. Settled(d) <=> d <= m
    BY <1>5 DEF AheadAt
  <2>2. CASE d <= m
    BY <1>3, <1>6, <2>1, <2>2
  <2>3. CASE ~(d <= m)
    BY <1>2, <1>3, <2>1, <2>3
  <2> QED
    BY <2>2, <2>3
<1>9. \A p \in DOMAIN Unread' : At(p)'.type = "message_end" => At(p)'.of >= e
  <2> SUFFICES ASSUME NEW p \in DOMAIN Unread', At(p)'.type = "message_end"
               PROVE  At(p)'.of >= e
    OBVIOUS
  <2>1. PICK d : d = At(p)'.of
    OBVIOUS
  <2>2. d \in InTurn(turn) /\ m < d
    BY <1>1, <1>4, <1>7, <2>1, BehindEnd
  <2>3. ~Settled(d)
    BY <1>3, <1>5, <2>2 DEF AheadAt
  <2> QED
    BY <1>2, <1>3, <2>1, <2>2, <2>3
<1>10. ASSUME NEW d \in InTurn(turn)', Ended(d)', d >= e
       PROVE  \E p \in DOMAIN Unread' : Marks(p, d)'
  <2>1. d \in InTurn(turn) /\ Ended(d) /\ d > m /\ d >= m
    BY <1>1, <1>3, <1>6, <1>10 DEF Ended
  <2>2. PICK p \in DOMAIN Unread : Marks(p, d)
    BY <1>5, <2>1 DEF AheadAt
  <2>3. p # 1
    BY <1>1, <1>3, <1>7, <2>1, <2>2 DEF Marks
  <2> QED
    BY <2>2, <2>3, MarksLeft
<1>11. AheadAt(e)'
  BY <1>1, <1>8, <1>9, <1>10 DEF AheadAt
<1>12. (\E n \in DOMAIN log' : RetryLogged(n)') \/ \E p \in DOMAIN Unread' : RetryUnread(p)'
  <2>1. CASE \E n \in DOMAIN log : RetryLogged(n)
    BY <1>1, <1>2, <2>1 DEF RetryLogged, LogGrows
  <2>2. CASE \E p \in DOMAIN Unread : RetryUnread(p)
    BY <1>1, <1>4, <2>2 DEF RetryUnread
  <2> QED
    BY <2>1, <2>2 DEF OneAhead
<1>13. \A p \in DOMAIN Unread' : ~Retries(At(p))'
  BY <1>1 DEF OneAhead, Retries
<1>14. 1 \in DOMAIN Unread' => At(1)'.what # "answer"
  <2> SUFFICES ASSUME 1 \in DOMAIN Unread', At(1)'.what = "answer" PROVE FALSE
    OBVIOUS
  <2>1. PICK q \in DOMAIN Unread : q = 1 + 1 /\ At(q).what = "answer" /\ q # 1
    BY <1>1
  <2>2. At(1).what = "stop"
    BY <2>1 DEF OutputInv, Shaped
  <2>3. At(1).of = Len(documents)
    BY <1>1, <2>2 DEF OutputInv, Shaped
  <2> QED
    BY <1>1, <1>3, <1>6, <1>7, <2>3
<1> QED
  BY <1>1, <1>11, <1>12, <1>13, <1>14 DEF OneAhead

\* However a line is handled, if the prompt goes on.
LEMMA ModeHandle ==
    ASSUME TypeOK, OrderInv, OutputInv, AttemptInv, LookedInv, ModeInv, HandleLine,
           client' = "prompting"
    PROVE  ModeInv'
<1>1. line # None /\ Handle
  BY DEF HandleLine
<1>2. ~EndsPrompt(line)
  BY GoesOn
<1>3. CASE (line.type = "message_end" \/ Retries(line)) /\ (CompleteResponse \/ FailResponse)
  <2>1. PICK e \in InTurn(turn) : Settles(e)
    BY <1>3, SettlesOne
  <2>2. EndsAttempt(line)
    BY <1>3 DEF EndsAttempt, Retries
  <2>3. CASE InStep /\ line.of = e
    BY <2>1, <2>2, <2>3, InStepStays DEF ModeInv
  <2>4. CASE InStep /\ line.of # e
    BY <1>3, <2>1, <2>4, GetsAhead DEF ModeInv
  <2>5. CASE OneAhead
    BY <1>3, <2>1, <2>5, StaysAhead DEF ModeInv
  <2>6. CASE RetriedAgain
    BY <2>6, RetriedHandle DEF ModeInv
  <2> QED
    BY <2>3, <2>4, <2>5, <2>6 DEF ModeInv
<1>4. CASE /\ line.type # "message_end" /\ (Retries(line) => Unsettled = {})
           /\ \/ UNCHANGED <<log, capture, source>>
              \/ StartRetry \/ RecordToolStart \/ RecordToolCompletion
  <2>1. HandlesOther
    BY <1>1, <1>4, OtherLines
  <2> QED
    BY <1>4, <2>1, ModeOther
<1> QED
  BY <1>1, <1>2, <1>3, <1>4 DEF Handle, EndAgent, EndsPrompt, Retries

LEMMA PromptHandle ==
    ASSUME TypeOK, OrderInv, PromptInv, HandleLine, client' = "prompting"
    PROVE  PromptInv'
BY OutputHandle, LookedHandle, ToolsHandle, ModeHandle DEF PromptInv

-----------------------------------------------------------------------------
(* A turn is answered *)

\* What is said of a turn stays true, once it gets no more events and requests.
LEMMA ExactKept ==
    ASSUME NEW t, ExactTurn(t), LogGrows, acks \subseteq acks', InTurn(t)' \subseteq InTurn(t),
           \A n \in DOMAIN log' : n \notin DOMAIN log => log'[n].turn # t
    PROVE  ExactTurn(t)'
<1>1. /\ \A n \in DOMAIN log' : log'[n].turn = t => n \in DOMAIN log /\ log'[n] = log[n]
      /\ \A n \in DOMAIN log : n \in DOMAIN log' /\ log'[n] = log[n]
  BY DEF LogGrows
<1>2. InTurn(t)' \subseteq acks'
  BY DEF ExactTurn
<1>3. ASSUME NEW n \in DOMAIN log', log'[n].type = "tool.started", log'[n].turn = t
      PROVE  Completed(log[n].tool, t)'
  <2>1. Completed(log[n].tool, t) /\ log'[n] = log[n]
    BY <1>1, <1>3 DEF ExactTurn
  <2> QED
    BY <1>1, <2>1 DEF Completed
<1>4. RetriedOnce(t)' => RetriedOnce(t)
  BY <1>1 DEF RetriedOnce, Events
<1>5. Exact(t) => Exact(t)'
  BY <1>1 DEF Exact
<1> QED
  BY <1>2, <1>3, <1>4, <1>5 DEF ExactTurn

\* The line that returns the answer is the last, and says the same of its turn.
LEMMA AnswerReturns ==
    ASSUME TypeOK, OrderInv, PromptInv, HandleLine, client' = "answered"
    PROVE  /\ stdout' = <<>> /\ line' = None /\ Quiet' /\ called' = {} /\ running' = {}
           /\ ExactTurn(turn)'
<1>1. line.what = "answer"
  BY DEF HandleLine
<1>2. /\ UNCHANGED <<pi, stdin, called, running, documents, turn, seen, acks>>
      /\ InTurn(turn)' = InTurn(turn) /\ line # None /\ Handle /\ line' = None
      /\ 1 \in DOMAIN Unread /\ At(1) = line
      /\ Len(Unread') \in Nat /\ Len(Unread) = Len(Unread') + 1
  BY HandlePops
<1>3. /\ OutputInv /\ AttemptInv /\ LookedInv /\ ToolsInv /\ ModeInv
      /\ Shaped(1)
  BY <1>2 DEF PromptInv, OutputInv
<1>4. /\ line.type = "agent_end" /\ Len(Unread) = 1 /\ Quiet /\ line.of = Len(documents)
  BY <1>1, <1>2, <1>3 DEF Shaped, EndsPrompt
<1>5. stdout' = <<>>
  <2>1. Unread' = <<>> \o stdout /\ stdout \in Seq(OutputLine) /\ stdout' = stdout
    BY <1>2 DEF Unread, TypeOK, HandleLine, piVars
  <2>2. Len(stdout) = 0
    <3>1. Unread' = stdout
      BY <2>1
    <3>2. \A n, k \in Nat : k = n + 1 /\ k = 1 => n = 0
      OBVIOUS
    <3>3. Len(Unread) = 1 /\ Len(Unread) \in Nat /\ Len(Unread) = Len(Unread') + 1 /\ Len(Unread') \in Nat
      BY <1>2, <1>4, UnreadTyped
    <3>4. Len(Unread') = 0
      BY ONLY <3>2, <3>3
    <3> QED
      BY <3>1, <3>4
  <2> QED
    BY <2>1, <2>2
<1>6. called = {} /\ running = {}
  BY <1>3, <1>4 DEF AttemptInv, Quiet
<1>7. Quiet'
  BY <1>2, <1>4 DEF Quiet
<1>8. UNCHANGED <<log, capture, source>>
  BY <1>1, <1>2, <1>4 DEF Handle, EndAgent
<1>9. DOMAIN Unread = {1}
  BY <1>4, UnreadTyped
<1>10. InTurn(turn) \subseteq acks
  <2>1. \A d \in InTurn(turn) : d <= line.of => d \in seen
    BY <1>2, <1>3 DEF LookedInv
  <2> QED
    BY <1>4, <2>1, TurnRequests DEF OrderInv
<1>11. ASSUME NEW n \in DOMAIN log, log[n].type = "tool.started", log[n].turn = turn
       PROVE  Completed(log[n].tool, turn)
  <2>1. Whole
    BY <1>1, <1>2 DEF Whole
  <2>2. ToolsKept
    BY <1>3, <2>1 DEF ToolsInv
  <2>3. ~\E p \in DOMAIN Unread : Ends(p, log[n].tool)
    BY <1>2, <1>4, <1>9 DEF Ends
  <2> QED
    BY <1>6, <1>11, <2>2, <2>3 DEF ToolsKept
<1>12. RetriedOnce(turn) => Exact(turn)
  <2>1. CASE InStep
    BY <2>1 DEF InStep
  <2>2. CASE OneAhead
    BY <1>1, <1>2, <2>2 DEF OneAhead
  <2>3. CASE RetriedAgain
    <3>1. \A p \in DOMAIN Unread : ~RetryUnread(p)
      BY <1>2, <1>4, <1>9 DEF RetryUnread
    <3>2. \E m, n \in DOMAIN log : m # n /\ RetryLogged(m) /\ RetryLogged(n)
      BY <2>3, <3>1 DEF RetriedAgain
    <3> QED
      BY <3>2 DEF RetryLogged, RetriedOnce, Events
  <2> QED
    BY <1>3, <2>1, <2>2, <2>3 DEF ModeInv
<1>13. ExactTurn(turn)
  BY <1>10, <1>11, <1>12 DEF ExactTurn
<1>14. ExactTurn(turn)'
  BY <1>2, <1>8, <1>13 DEF ExactTurn, Completed, RetriedOnce, Events, Exact
<1> QED
  BY <1>2, <1>5, <1>6, <1>7, <1>14

LEMMA AnsweredPi ==
    ASSUME TypeOK, OrderInv, AnsweredInv, Silent \/ PiStep \/ PiDies
    PROVE  AnsweredInv'
<1>1. UNCHANGED <<log, turn, client, answered, acks, line>>
  BY DEF Silent, PiStep, PiDies, adapterVars
<1>2. client = "prompting" => PromptInv'
  BY PromptPi, PromptSilent DEF AnsweredInv
<1>3. ASSUME client \in {"answered", "between"}
      PROVE  stdout' = <<>> /\ documents' = documents /\ Quiet' /\ called' = {} /\ running' = {}
  <2>1. stdout = <<>> /\ Quiet /\ called = {} /\ running = {}
    BY <1>3 DEF AnsweredInv
  <2>2. Silent
    BY <2>1 DEF Quiet, Silent, PiStep, PiDies, AcceptPrompt, RefusePrompt, Hook, CallProvider,
                UseTools, Answer, FailAttempt, StartTool, EndTool
  <2> QED
    BY <2>1, <2>2 DEF Silent, AcceptPrompt, CallProvider, Die, piVars, Quiet
<1>4. ASSUME NEW t, t \in answered \/ (client = "answered" /\ t = turn)
      PROVE  InTurn(t)' = InTurn(t)
  <2>1. CASE documents' = documents
    BY <2>1 DEF InTurn
  <2>2. CASE documents' # documents
    <3>1. HookStep
      BY <2>2 DEF HookStep, Silent, PiStep, PiDies, AcceptPrompt, RefusePrompt, CallProvider,
                  UseTools, Answer, FailAttempt, StartTool, EndTool, Die, piVars
    <3>2. client \notin {"answered", "between"}
      BY <1>3, <2>2
    <3>3. t \in answered /\ turn \in Nat /\ answered \subseteq Nat
      BY <1>4, <3>2 DEF TypeOK
    <3>4. t # turn
      BY <3>2, <3>3 DEF AnsweredInv
    <3> QED
      BY <3>1, <3>4, HookEffect
  <2> QED
    BY <2>1, <2>2
<1>5. LogGrows /\ acks \subseteq acks' /\ \A n \in DOMAIN log' : n \in DOMAIN log
  BY <1>1 DEF LogGrows
<1>6. ASSUME NEW t, t \in answered \/ (client = "answered" /\ t = turn)
      PROVE  ExactTurn(t)'
  <2>1. ExactTurn(t)
    BY <1>6 DEF AnsweredInv
  <2>2. InTurn(t)' \subseteq InTurn(t)
    BY <1>4, <1>6
  <2> QED
    BY <1>5, <2>1, <2>2, ExactKept
<1>7. client = "answered" => ExactTurn(turn)'
  <2>1. PICK t : t = turn
    OBVIOUS
  <2>2. client = "answered" => ExactTurn(t)'
    BY <1>6, <2>1
  <2> QED
    BY <1>1, <2>1, <2>2 DEF ExactTurn, InTurn, RetriedOnce, Exact, Completed
<1> QED
  BY <1>1, <1>2, <1>3, <1>6, <1>7 DEF AnsweredInv

\* The client's steps within a turn add events of the turn.
LEMMA LookAdds ==
    ASSUME TypeOK, LookStep
    PROVE  /\ LogGrows /\ acks \subseteq acks' /\ UNCHANGED <<documents, turn, answered>>
           /\ \A n \in DOMAIN log' : n \notin DOMAIN log => log'[n].turn = turn
<1>1. PICK kept, recorded : Looks(kept, recorded)
  BY LookLooks
<1>2. /\ Len(log) \in Nat /\ Len(recorded) \in Nat
      /\ DOMAIN log = 1..Len(log) /\ DOMAIN log' = 1..(Len(log) + Len(recorded))
      /\ \A n \in 1..Len(log) : log'[n] = log[n]
      /\ \A j \in 1..Len(recorded) :
            log'[Len(log) + j] = Event("request.started", Fresh[j], None,
                                       documents[Fresh[j]].source, Fresh[j])
  BY <1>1, LooksEffect
<1>3. \A j \in 1..Len(recorded) : log'[Len(log) + j].turn = turn
  BY <1>2, EventFields
<1>4. \A n \in DOMAIN log' : n \notin DOMAIN log =>
         n - Len(log) \in 1..Len(recorded) /\ n = Len(log) + (n - Len(log))
  BY <1>2
<1>5. \A n \in DOMAIN log' : n \notin DOMAIN log => log'[n].turn = turn
  BY <1>3, <1>4
<1>6. LogGrows
  BY <1>2 DEF LogGrows
<1> QED
  BY <1>1, <1>5, <1>6, LookLooks DEF Looks

LEMMA EndAdds ==
    ASSUME TypeOK, EndTurn
    PROVE  /\ LogGrows
           /\ \A n \in DOMAIN log' : n \notin DOMAIN log =>
                 /\ log'[n].turn = turn /\ log'[n].type = "response.failed"
                 /\ log'[n].of = log'[n].request
<1>1. PICK open \in Seq(Nat) :
         /\ Len(open) = Len(Interrupted)
         /\ \A j \in 1..Len(open) :
               Interrupted[j] = Event("response.failed", capture.requests[open[j]].index, None,
                                      capture.requests[open[j]].sequence,
                                      capture.requests[open[j]].index)
  BY InterruptedIs
<1>2. ASSUME NEW j \in 1..Len(Interrupted)
      PROVE  /\ Interrupted[j].turn = turn /\ Interrupted[j].type = "response.failed"
             /\ Interrupted[j].of = Interrupted[j].request
  BY <1>1, EventFields
<1>3. log' = log \o Interrupted /\ Interrupted \in Seq(EventRecord)
  BY InterruptedIs DEF EndTurn
<1>4. /\ LogGrows
      /\ \A j \in 1..Len(Interrupted) : log'[Len(log) + j] = Interrupted[j]
      /\ \A n \in DOMAIN log' : n \notin DOMAIN log =>
            \E j \in 1..Len(Interrupted) : n = Len(log) + j
  BY <1>3, ConcatAdds
<1>5. ASSUME NEW n \in DOMAIN log', n \notin DOMAIN log
      PROVE  \E j \in 1..Len(Interrupted) : log'[n] = Interrupted[j]
  BY <1>4, <1>5
<1> QED
  BY <1>2, <1>4, <1>5

LEMMA BeginAdds ==
    ASSUME TypeOK, BeginTurn
    PROVE  \E e \in EventRecord : log' = Append(log, e) /\ e.type = "context" /\ e.turn = turn'
<1> DEFINE e == [Event("context", None, None, None, None) EXCEPT !.turn = turn']
<1>1. turn' \in Nat
  BY CaptureBounds DEF BeginTurn, TypeOK
<1>2. e \in EventRecord /\ e.type = "context" /\ e.turn = turn'
  BY <1>1, CaptureBounds DEF TypeOK, Event, EventRecord, EventTypes
<1>3. log' = Append(log, e)
  BY DEF BeginTurn
<1> QED
  BY <1>2, <1>3

\* A turn begins with nothing of it anywhere.
LEMMA TurnBegins ==
    ASSUME TypeOK, OrderInv, SettleInv, AnsweredInv, BeginTurn
    PROVE  PromptInv'
<1>1. /\ stdout' = <<>> /\ line' = None /\ called' = {} /\ running' = {}
      /\ pi' \in {"waiting", "dead"} /\ documents' = documents
      /\ turn' = turn + 1 /\ turn \in Nat /\ capture' = NoCapture
  BY DEF AnsweredInv, Quiet, BeginTurn, SettleInv, TypeOK
<1>2. Unread' = <<>>
  BY <1>1 DEF Unread
<1>3. DOMAIN Unread' = {}
  BY <1>2
<1>4. InTurn(turn)' = {}
  <2>1. documents \in Seq(Document) /\ \A i \in DOMAIN documents : documents[i].turn <= turn
    BY DEF TypeOK, OrderInv
  <2>2. \A i \in DOMAIN documents : documents[i].turn \in Nat
    <3>1. \A d \in Document : d.turn \in Nat
      BY DEF Document
    <3>2. \A i \in DOMAIN documents : documents[i] \in Document
      BY <2>1
    <3> QED
      BY <3>1, <3>2
  <2>3. \A i \in DOMAIN documents : documents[i].turn # turn + 1
    BY <1>1, <2>1, <2>2
  <2> QED
    BY <1>1, <2>3 DEF InTurn
<1>5. \A n \in DOMAIN log' : log'[n].turn = turn' => log'[n].type = "context"
  <2>1. PICK e \in EventRecord : log' = Append(log, e) /\ e.type = "context"
    BY BeginAdds
  <2>2. log \in Seq(EventRecord) /\ \A n \in DOMAIN log : log[n].turn <= turn
    BY DEF TypeOK, AnsweredInv
  <2>3. \A n \in DOMAIN log : log[n].turn \in Nat
    <3>1. \A f \in EventRecord : f.turn \in Nat
      BY DEF EventRecord
    <3>2. \A n \in DOMAIN log : log[n] \in EventRecord
      BY <2>2
    <3> QED
      BY <3>1, <3>2
  <2>4. \A n \in DOMAIN log : log[n].turn # turn + 1
    BY <1>1, <2>2, <2>3
  <2>5. \A n \in DOMAIN log' : (n \in DOMAIN log /\ log'[n] = log[n]) \/ log'[n] = e
    BY <2>1, <2>2, AppendAdds
  <2> QED
    BY <1>1, <2>1, <2>4, <2>5
<1>6. OutputInv'
  BY <1>3 DEF OutputInv, OrderedOutput
<1>7. AttemptInv'
  BY <1>1, <1>4 DEF AttemptInv
<1>8. LookedInv'
  BY <1>1, <1>4 DEF LookedInv, NoCapture
<1>9. ToolsInv'
  BY <1>3, <1>5 DEF ToolsInv, ToolsKept
<1>10. InStep'
  <2>1. Exact(turn)'
    BY <1>5 DEF Exact, Settlements
  <2> QED
    BY <1>1, <1>3, <1>4, <2>1 DEF InStep
<1> QED
  BY <1>6, <1>7, <1>8, <1>9, <1>10 DEF PromptInv, ModeInv

\* The turn that was answered ends as it was, and what ends it is right.
LEMMA TurnEnds ==
    ASSUME TypeOK, AnsweredInv, EndTurn, client = "answered"
    PROVE  ExactTurn(turn)'
<1>1. /\ LogGrows
      /\ \A n \in DOMAIN log' : n \notin DOMAIN log =>
            log'[n].type = "response.failed" /\ log'[n].of = log'[n].request
  BY EndAdds
<1>2. UNCHANGED <<documents, acks, turn>> /\ ExactTurn(turn)
  BY DEF EndTurn, AnsweredInv
<1>3. InTurn(turn)' \subseteq acks'
  BY <1>2 DEF ExactTurn, InTurn
<1>4. ASSUME NEW n \in DOMAIN log', log'[n].type = "tool.started", log'[n].turn = turn
      PROVE  Completed(log[n].tool, turn)'
  <2>1. n \in DOMAIN log /\ log'[n] = log[n]
    BY <1>1, <1>4 DEF LogGrows
  <2>2. Completed(log[n].tool, turn)
    BY <1>2, <1>4, <2>1 DEF ExactTurn
  <2>3. PICK m \in DOMAIN log : /\ log[m].type = "tool.completed" /\ log[m].turn = turn
                                /\ log[m].tool = log[n].tool
    BY <2>2 DEF Completed
  <2>4. m \in DOMAIN log' /\ log'[m] = log[m]
    BY <1>1 DEF LogGrows
  <2> QED
    BY <1>2, <2>1, <2>3, <2>4 DEF Completed
<1>5. RetriedOnce(turn)' => RetriedOnce(turn)
  BY <1>1, <1>2 DEF RetriedOnce, Events, LogGrows
<1>6. Exact(turn) => Exact(turn)'
  BY <1>1, <1>2 DEF Exact, LogGrows
<1> QED
  BY <1>2, <1>3, <1>4, <1>5, <1>6 DEF ExactTurn

\* Past turns get nothing more.
LEMMA PastKept ==
    ASSUME TypeOK, AnsweredInv, NEW t \in answered, t # turn,
           LogGrows, acks \subseteq acks', documents' = documents,
           \A n \in DOMAIN log' : n \notin DOMAIN log => log'[n].turn = turn
    PROVE  ExactTurn(t)'
<1>1. ExactTurn(t) /\ InTurn(t)' = InTurn(t)
  BY DEF AnsweredInv, InTurn
<1> QED
  BY <1>1, ExactKept

LEMMA TurnsKept ==
    ASSUME TypeOK, AnsweredInv, LogGrows, turn' = turn,
           \A n \in DOMAIN log' : n \notin DOMAIN log => log'[n].turn = turn
    PROVE  \A n \in DOMAIN log' : log'[n].turn <= turn'
<1>1. turn \in Nat /\ \A n \in DOMAIN log : log[n].turn <= turn
  BY DEF TypeOK, AnsweredInv
<1>2. \A n \in DOMAIN log' : (n \in DOMAIN log /\ log'[n] = log[n]) \/ log'[n].turn = turn
  BY DEF LogGrows
<1>3. turn <= turn
  BY <1>1
<1> QED
  BY <1>1, <1>2, <1>3

\* The past turns, when the client is within a turn.
LEMMA PastStays ==
    ASSUME TypeOK, AnsweredInv, client = "prompting", LogGrows, acks \subseteq acks',
           documents' = documents, turn' = turn, answered' = answered,
           \A n \in DOMAIN log' : n \notin DOMAIN log => log'[n].turn = turn
    PROVE  /\ (\A t \in answered : t < turn)' /\ (\A t \in answered : ExactTurn(t))'
           /\ client' \in {"prompting", "failing"} /\ (client' = "prompting" => PromptInv')
              => AnsweredInv'
<1>1. turn \in Nat /\ answered \subseteq Nat /\ \A t \in answered : t < turn
  BY DEF TypeOK, AnsweredInv
<1>2. ASSUME NEW t \in answered
      PROVE  ExactTurn(t)'
  <2>1. t # turn
    BY <1>1
  <2> QED
    BY <2>1, PastKept
<1>3. \A n \in DOMAIN log' : log'[n].turn <= turn'
  BY TurnsKept
<1> QED
  BY <1>1, <1>2, <1>3 DEF AnsweredInv

\* Whatever happens, past turns stay exact, and the turn that goes on has the
\* invariant until it is answered.
LEMMA AnsweredStep ==
    ASSUME TypeOK, OrderInv, SettleInv, AnsweredInv, [Next]_vars
    PROVE  AnsweredInv'
<1>1. CASE UNCHANGED vars
  <2>1. Silent
    BY <1>1 DEF Silent, vars, adapterVars
  <2> QED
    BY <2>1, AnsweredPi
<1>2. CASE PiStep \/ PiDies
  BY <1>2, AnsweredPi
<1>3. CASE LookStep
  <2>1. client = "prompting" /\ client' \in {"prompting", "failing"}
    BY <1>3, LookLooks
  <2>2. /\ LogGrows /\ acks \subseteq acks' /\ UNCHANGED <<documents, turn, answered>>
        /\ \A n \in DOMAIN log' : n \notin DOMAIN log => log'[n].turn = turn
    BY <1>3, LookAdds
  <2>3. client' = "prompting" => PromptInv'
    BY <1>3, <2>1, PromptLook DEF AnsweredInv
  <2> QED
    BY <2>1, <2>2, <2>3, PastStays, TurnsKept
<1>4. CASE HandleLine
  <2>1. client = "prompting" /\ client' \in {"prompting", "answered", "failing"}
    BY <1>4 DEF HandleLine
  <2>2. /\ LogGrows /\ UNCHANGED <<documents, acks, turn, answered>>
        /\ \A n \in DOMAIN log' : n \notin DOMAIN log => log'[n].turn = turn
    BY <1>4, HandleAdds, HandlePops
  <2>3. client' = "prompting" => PromptInv'
    BY <1>4, <2>1, PromptHandle DEF AnsweredInv
  <2>4. CASE client' = "answered"
    <3>1. PromptInv
      BY <2>1 DEF AnsweredInv
    <3>2. /\ stdout' = <<>> /\ line' = None /\ Quiet' /\ called' = {} /\ running' = {}
          /\ ExactTurn(turn)'
      BY <1>4, <2>4, <3>1, AnswerReturns
    <3>3. \A n \in DOMAIN log' : log'[n].turn <= turn'
      BY <2>2, TurnsKept
    <3>4. (\A t \in answered : t < turn)' /\ (\A t \in answered : ExactTurn(t))'
      BY <2>1, <2>2, PastStays
    <3> QED
      BY <2>4, <3>2, <3>3, <3>4 DEF AnsweredInv
  <2>5. CASE client' # "answered"
    BY <2>1, <2>2, <2>3, <2>5, PastStays, TurnsKept
  <2> QED
    BY <2>4, <2>5
<1>5. CASE RefuseLine \/ Eof
  <2>1. client = "prompting" /\ client' = "failing" /\ UNCHANGED <<documents, log, acks, turn, answered>>
    BY <1>5 DEF RefuseLine, Eof, piVars, adapterVars
  <2>2. LogGrows /\ acks \subseteq acks' /\ \A n \in DOMAIN log' : n \in DOMAIN log
    BY <2>1 DEF LogGrows
  <2> QED
    BY <2>1, <2>2, PastStays, TurnsKept DEF AnsweredInv
<1>6. CASE BeginTurn
  <2>1. PromptInv'
    BY <1>6, TurnBegins
  <2>2. /\ client = "between" /\ client' = "prompting" /\ turn \in Nat /\ turn' = turn + 1
        /\ UNCHANGED <<documents, acks, answered>>
    BY <1>6 DEF BeginTurn, TypeOK
  <2>3. PICK e \in EventRecord : log' = Append(log, e) /\ e.turn = turn'
    BY <1>6, BeginAdds
  <2>4. LogGrows /\ \A n \in DOMAIN log' : n \notin DOMAIN log => log'[n].turn = turn'
    BY <2>3, AppendAdds
  <2>5. \A n \in DOMAIN log' : log'[n].turn <= turn'
    <3>1. \A n \in DOMAIN log : log[n].turn \in Nat /\ log[n].turn <= turn
      <4>1. \A f \in EventRecord : f.turn \in Nat
        BY DEF EventRecord
      <4>2. \A n \in DOMAIN log : log[n] \in EventRecord
        BY DEF TypeOK
      <4> QED
        BY <4>1, <4>2 DEF AnsweredInv
    <3>2. \A n \in DOMAIN log' : (n \in DOMAIN log /\ log'[n] = log[n]) \/ log'[n].turn = turn'
      BY <2>4 DEF LogGrows
    <3>3. \A k \in Nat : k <= turn => k <= turn + 1
      BY <2>2
    <3>4. turn' <= turn'
      BY <2>2
    <3> QED
      BY <2>2, <3>1, <3>2, <3>3, <3>4
  <2>6. ASSUME NEW t \in answered
        PROVE  t < turn' /\ ExactTurn(t)'
    <3>1. t \in Nat /\ (t < turn \/ t = turn) /\ ExactTurn(t)
      BY <2>2 DEF AnsweredInv, TypeOK
    <3>2. t < turn' /\ t # turn'
      BY <2>2, <3>1
    <3>3. InTurn(t)' = InTurn(t)
      BY <2>2 DEF InTurn
    <3>4. \A n \in DOMAIN log' : n \notin DOMAIN log => log'[n].turn # t
      BY <2>4, <3>2
    <3> QED
      BY <2>2, <2>4, <3>1, <3>2, <3>3, <3>4, ExactKept
  <2> QED
    BY <2>1, <2>2, <2>5, <2>6 DEF AnsweredInv
<1>7. CASE EndTurn
  <2>1. /\ LogGrows /\ UNCHANGED <<documents, acks, turn, stdout, line, stdin>>
        /\ \A n \in DOMAIN log' : n \notin DOMAIN log => log'[n].turn = turn
    BY <1>7, EndAdds DEF EndTurn
  <2>2. \A n \in DOMAIN log' : log'[n].turn <= turn'
    BY <2>1, TurnsKept
  <2>3. ASSUME NEW t \in answered
        PROVE  t < turn /\ ExactTurn(t)'
    <3>1. client # "between" /\ t \in Nat /\ turn \in Nat
      BY <1>7 DEF EndTurn, TypeOK
    <3>2. t < turn
      BY <3>1 DEF AnsweredInv
    <3>3. t # turn
      BY <3>1, <3>2
    <3> QED
      BY <2>1, <3>2, <3>3, PastKept
  <2>4. CASE client = "answered"
    <3>1. ExactTurn(turn)'
      BY <1>7, <2>4, TurnEnds
    <3>2. /\ client' = "between" /\ answered' = answered \cup {turn}
          /\ pi' = pi /\ called' = called /\ running' = running
      BY <1>7, <2>4 DEF EndTurn
    <3>3. stdout' = <<>> /\ line' = None /\ Quiet' /\ called' = {} /\ running' = {}
      BY <2>1, <2>4, <3>2 DEF AnsweredInv, Quiet
    <3>4. ASSUME NEW t \in answered'
          PROVE  (t < turn' \/ t = turn') /\ ExactTurn(t)'
      <4>1. CASE t \in answered
        BY <2>1, <2>3, <4>1
      <4>2. CASE t = turn
        BY <2>1, <3>1, <4>2 DEF ExactTurn, InTurn, Completed, RetriedOnce, Exact
      <4> QED
        BY <3>2, <4>1, <4>2
    <3> QED
      BY <2>2, <3>2, <3>3, <3>4 DEF AnsweredInv
  <2>5. CASE client # "answered"
    <3>1. client' = "closed" /\ answered' = answered
      BY <1>7, <2>5 DEF EndTurn
    <3> QED
      BY <2>1, <2>2, <2>3, <3>1 DEF AnsweredInv
  <2> QED
    BY <2>4, <2>5
<1> QED
  BY <1>1, <1>2, <1>3, <1>4, <1>5, <1>6, <1>7 DEF Next, ClientStep, LookStep

LEMMA AnsweredIsExact ==
    ASSUME TypeOK, CauseInv, AnsweredInv
    PROVE  AnsweredTurnsExact
<1> SUFFICES ASSUME NEW t \in answered
             PROVE  /\ InTurn(t) \subseteq acks
                    /\ {log[n].tool : n \in {m \in Events("tool.started") : log[m].turn = t}}
                          = {log[n].tool : n \in {m \in Events("tool.completed") : log[m].turn = t}}
                    /\ RetriedOnce(t) => Exact(t)
  BY DEF AnsweredTurnsExact, Exact
<1>1. ExactTurn(t)
  BY DEF AnsweredInv
<1>2. \A n \in DOMAIN log : log[n].type = "tool.started" /\ log[n].turn = t =>
         \E m \in DOMAIN log : /\ log[m].type = "tool.completed" /\ log[m].turn = t
                               /\ log[m].tool = log[n].tool
  BY <1>1 DEF ExactTurn, Completed
<1>3. ASSUME NEW n \in DOMAIN log, log[n].type = "tool.completed", log[n].turn = t
      PROVE  \E m \in DOMAIN log : /\ log[m].type = "tool.started" /\ log[m].turn = t
                                   /\ log[m].tool = log[n].tool
  <2>1. log[n].parent \in DOMAIN log
    BY <1>3 DEF CauseInv
  <2>2. HasCause(log[n]) /\ (log[n].parent # None => CauseOf(log[n]).turn = t)
    BY <1>3 DEF CauseInv, CausesHold
  <2>3. CauseOf(log[n]).type = "tool.started" /\ CauseOf(log[n]).tool = log[n].tool
    BY <1>3, <2>2 DEF HasCause, Settlements
  <2>4. log[n].parent # None
    BY <2>1, NoneApart DEF TypeOK
  <2> QED
    BY <2>1, <2>2, <2>3, <2>4 DEF CauseOf
<1> QED
  BY <1>1, <1>2, <1>3 DEF ExactTurn, Events

\* The record of an answered turn is complete, however far Pi was ahead of the
\* adapter: every request Pi made is acknowledged, the tools with a start are
\* those with a completion, and, when Pi retried at most once in the turn, every
\* settlement is under the request it is of (capture.py on_raw_event,
\* drain_model_requests, end_turn).
THEOREM AnsweredAreExact == Spec => []AnsweredTurnsExact
<1>1. Init => TypeOK /\ OrderInv /\ SettleInv /\ CauseInv /\ AnsweredInv
  <2> SUFFICES ASSUME Init PROVE OrderInv /\ SettleInv /\ CauseInv /\ AnsweredInv
    BY TypeInit
  <2>1. OrderInv
    BY DEF Init, OrderInv
  <2>2. SettleInv
    BY DEF Init, SettleInv, Unsettled, NoCapture
  <2>3. HeldInv
    BY DEF Init, HeldInv, NoCapture
  <2>4. CausesHold /\ DOMAIN log = {}
    BY DEF Init, CausesHold
  <2>5. AnsweredInv
    BY <2>4 DEF Init, AnsweredInv, Quiet
  <2> QED
    BY <2>1, <2>2, <2>3, <2>4, <2>5 DEF CauseInv
<1>2. /\ TypeOK /\ OrderInv /\ SettleInv /\ CauseInv /\ AnsweredInv /\ [Next]_vars
      => TypeOK' /\ OrderInv' /\ SettleInv' /\ CauseInv' /\ AnsweredInv'
  BY TypeStep, OrderStep, SettleStep, CauseStep, AnsweredStep
<1>3. TypeOK /\ CauseInv /\ AnsweredInv => AnsweredTurnsExact
  BY AnsweredIsExact
<1> QED
  BY <1>1, <1>2, <1>3, PTL DEF Spec
=============================================================================
