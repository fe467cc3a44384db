------------------------ MODULE ContextProjectionProofs ------------------------
(***************************************************************************)
(* Proofs, for any documents of the simulator and any number of turns,     *)
(* calls and outages, that what the context says of results and            *)
(* calculations is what their documents say, that no result is silently    *)
(* absent, that the active baseline moves for a reason, and that what the  *)
(* reducer refuses never keeps a turn from being closed.                   *)
(*                                                                         *)
(* The argument: CallInv says what a tool call is and that the one being   *)
(* projected is of the active turn; PlaceInv that what is left to append   *)
(* is a suffix of the stages of its kind; ProgressInv what the stages that *)
(* are done have left registered; and EndedInv what a projection that is   *)
(* over has, unless its failure was traced.  LinkInv adds that the stages  *)
(* up to the baseline are never refused, so that without an outage every   *)
(* context a turn consumed gets its baseline.                              *)
(***************************************************************************)
EXTENDS ContextProjection, TLAPS, FiniteSetTheorems

StageNames == {"admit", "observation", "baseline", "result", "evidence", "fact", "domain",
               "limitation", "diagnostic"}

TypeOK ==
    /\ Ctx!TypeOK
    /\ stored \subseteq Context \cup Result
    /\ made \in [Call -> ToolCall \cup {None}]
    /\ call \in ToolCall \cup {None}
    /\ todo \in Seq(StageNames)
    /\ failure \in [Call -> Failure \cup {None}]
    /\ submitted \subseteq Turn
    /\ faults \in 0..MaxFaults

-----------------------------------------------------------------------------
(* The strengthenings *)

\* A call Pi can make names a result exactly when its operation has one, of
\* the call's own context, and derives only what has a parent.
WellFormed(x) ==
    /\ x.kind \in {"analyse", "rank"} <=> x.result # None
    /\ x.result # None => ContextOf[x.result] = x.context
    /\ x.kind = "derive" => ParentOf[x.context] # None

\* Every call that was made is well formed and under its own id; the one being
\* projected is one of them, of the active turn, and has not failed; what is
\* observed was made.
CallInv ==
    /\ \A o \in Call : made[o] # None => made[o].id = o /\ WellFormed(made[o])
    /\ ~Idle => /\ made[call.id] = call
                /\ current_turn # None /\ current_turn.id = call.turn
    /\ \A o \in Call : observations[o] # None =>
          made[o] # None /\ observations[o].produced = Produced(made[o])

\* The number of stages done.
Passed == Len(Stages[call.kind]) - Len(todo)

\* What is left to append is a suffix of the stages of the call's kind.
PlaceInv ==
    ~Idle => /\ Len(todo) \in 1..Len(Stages[call.kind])
             /\ \A i \in 1..Len(todo) : todo[i] = Stages[call.kind][Passed + i]

Done(stage) == \E i \in 1..Passed : Stages[call.kind][i] = stage

\* What the stages that are done have left registered.
ProgressInv ==
    ~Idle => /\ Done("baseline") => baselines[call.context] # None
             /\ Done("result") => results[call.result] # None
             /\ Done("evidence") => evidence[EvidenceFor(call)] # None

\* A projection that is over registered what its call produced, or its
\* failure was traced.
Over(o) == made[o] # None /\ failure[o] = None /\ (Idle \/ call.id # o)
EndedInv ==
    \A o \in Call : Over(o) =>
        /\ made[o].kind \in {"open", "derive", "get", "analyse", "describe"} =>
              baselines[made[o].context] # None
        /\ made[o].kind = "analyse" => results[made[o].result] # None
        /\ made[o].kind \in {"analyse", "describe"} => evidence[EvidenceFor(made[o])] # None

\* A baseline has the revision of its document, a registered result its
\* baseline, and a located calculation its result and its evidence.
GroundInv ==
    /\ \A c \in Context : baselines[c] \in {None, RevisionOf[c]}
    /\ active_context # None => baselines[active_context] # None
    /\ ResultsGrounded
    /\ CalculationsGrounded

\* A stored context was opened or derived by a call, the context of a stored
\* result is stored, and so is a context a call only uses.
Opened(c) == \E o \in Call : /\ made[o] # None /\ made[o].kind \in {"open", "derive"}
                            /\ made[o].context = c
StoredInv ==
    /\ \A c \in stored \cap Context : Opened(c)
    /\ \A r \in stored \cap Result : ContextOf[r] \in stored
    /\ ~Idle /\ call.kind \in {"get", "analyse", "describe"} => call.context \in stored

-----------------------------------------------------------------------------
(* The events of the reducer *)

\* Context records and calls, as far as they are read.
LEMMA CallTyped ==
    ASSUME TypeOK, CallInv, ~Idle
    PROVE  /\ call \in ToolCall /\ call.id \in Call /\ call.turn \in Turn
           /\ call.context \in Context /\ call.result \in Result \cup {None}
           /\ RevisionOf[call.context] \in Revision
           /\ call.kind \in {"open", "derive", "get", "analyse", "describe", "rank", "failed", "diverged"}
           /\ call.kind \in {"analyse", "rank"} => call.result \in Result
                                                   /\ ContextOf[call.result] = call.context
           /\ made[call.id] = call
           /\ current_turn # None /\ current_turn \in Ctx!ActiveTurn /\ current_turn.id = call.turn
           /\ current_turn.id \in Turn
<1>1. call \in ToolCall
  BY DEF TypeOK, Idle
<1>2. /\ call.id \in Call /\ call.turn \in Turn /\ call.context \in Context
      /\ call.result \in Result \cup {None}
      /\ call.kind \in {"open", "derive", "get", "analyse", "describe", "rank", "failed", "diverged"}
  BY <1>1 DEF ToolCall
<1>3. RevisionOf[call.context] \in Revision
  BY <1>2, DocumentsAreLinked
<1>4. made[call.id] = call /\ made[call.id] # None
  BY <1>1, NoneApart DEF CallInv
<1>5. WellFormed(call)
  BY <1>2, <1>4 DEF CallInv
<1>6. current_turn # None /\ current_turn \in Ctx!ActiveTurn /\ current_turn.id = call.turn
  BY DEF CallInv, TypeOK, Ctx!TypeOK
<1> QED
  BY <1>1, <1>2, <1>3, <1>4, <1>5, <1>6 DEF WellFormed

\* The references of a call are references.
LEMMA RefsTyped ==
    ASSUME TypeOK, CallInv, ~Idle
    PROVE  /\ Consumed(call) \subseteq Ctx!Ref /\ Produced(call) \subseteq Ctx!Ref
           /\ call.kind \in {"analyse", "describe"} => EvidenceFor(call) \in Evidence
           /\ EvidenceRefs(call) \subseteq Ctx!Ref
<1>1. /\ call.context \in Context /\ call.result \in Result \cup {None}
      /\ call.kind \in {"open", "derive", "get", "analyse", "describe", "rank", "failed", "diverged"}
      /\ call.kind \in {"analyse", "rank"} => call.result \in Result
  BY CallTyped
<1>2. WellFormed(call)
  BY CallTyped, NoneApart DEF CallInv
<1>3. call.kind = "derive" => ParentOf[call.context] \in Context
  BY <1>1, <1>2, DocumentsAreLinked DEF WellFormed
<1>4. /\ EvidenceOf[call.context] \in Evidence
      /\ DiagnosisOf[call.context] \in Evidence
      /\ call.kind \in {"analyse", "rank"} => EvidenceOf[call.result] \in Evidence
  BY <1>1, DocumentsAreLinked
<1> QED
  BY <1>1, <1>3, <1>4 DEF Consumed, Produced, EvidenceFor, EvidenceRefs, Ctx!Ref

\* What a turn has accumulated can grow.
LEMMA MergeTyped ==
    ASSUME current_turn \in Ctx!ActiveTurn, NEW consumed \in SUBSET Ctx!Ref,
           NEW produced \in SUBSET Ctx!Ref
    PROVE  LET merged == Ctx!MergeTurnRefs(consumed, produced) IN
           /\ merged \in Ctx!ActiveTurn /\ merged # None /\ merged.id = current_turn.id
<1>1. /\ Ctx!MergeTurnRefs(consumed, produced) \in Ctx!ActiveTurn
      /\ Ctx!MergeTurnRefs(consumed, produced).id = current_turn.id
  BY DEF Ctx!MergeTurnRefs, Ctx!ActiveTurn
<1> QED
  BY <1>1, NoneApart

\* What the stage that is next says of the call and of the stages before it.
LEMMA StageFacts ==
    ASSUME TypeOK, CallInv, PlaceInv, ~Idle
    PROVE  /\ Head(todo) = "result" => call.kind = "analyse" /\ Done("baseline")
           /\ Head(todo) = "baseline" =>
                 call.kind \in {"open", "derive", "get", "analyse", "describe"}
           /\ Head(todo) = "evidence" => call.kind \in {"analyse", "describe"}
           /\ Head(todo) = "fact" => call.kind \in {"analyse", "rank"}
           /\ Head(todo) = "domain" => call.kind \notin {"failed", "diverged"}
           /\ Head(todo) = "domain" /\ call.kind = "analyse" =>
                 Done("result") /\ Done("evidence")
           /\ Len(todo) = 1 =>
                 /\ call.kind \in {"open", "derive", "get", "analyse", "describe"} =>
                       Done("baseline") /\ Head(todo) = "domain"
                 /\ call.kind = "analyse" => Done("result")
                 /\ call.kind \in {"analyse", "describe"} => Done("evidence")
<1> DEFINE next == Passed + 1
<1>1. todo \in Seq(StageNames) /\ Len(todo) \in 1..Len(Stages[call.kind])
  BY DEF TypeOK, PlaceInv
<1>2. Head(todo) = Stages[call.kind][next]
  <2>1. 1 \in 1..Len(todo) /\ Head(todo) = todo[1]
    BY <1>1
  <2> QED
    BY <2>1 DEF PlaceInv
<1> HIDE DEF next
<1>3. call.kind \in {"open", "derive", "get", "analyse", "describe", "rank", "failed", "diverged"}
  BY CallTyped
<1>4. \A s : Done(s) <=> \E i \in 1..Passed : Stages[call.kind][i] = s
  BY DEF Done
<1>5. CASE call.kind \in {"open", "derive", "get"}
  <2>1. Stages[call.kind] = <<"admit", "observation", "baseline", "domain">>
    BY <1>5 DEF Stages, OpenStages, DeriveStages
  <2>2. Len(Stages[call.kind]) = 4
    BY <2>1
  <2>3. Passed = 4 - Len(todo) /\ Passed \in 0..3 /\ (Len(todo) = 1 => Passed = 3)
    <3>1. Len(todo) \in 1..4
      BY <1>1, <2>2
    <3>2. Passed = 4 - Len(todo)
      BY <2>2 DEF Passed
    <3> QED
      <4> DEFINE left == Len(todo)
                 done == Passed
      <4>1. left \in 1..4 /\ done = 4 - left
        BY <3>1, <3>2
      <4> HIDE DEF left, done
      <4>2. done \in 0..3 /\ (left = 1 => done = 3)
        BY <4>1
      <4> QED
        BY <4>1, <4>2 DEF left, done
  <2>4. /\ Stages[call.kind][1] = "admit"
        /\ Stages[call.kind][2] = "observation"
        /\ Stages[call.kind][3] = "baseline"
        /\ Stages[call.kind][4] = "domain"
    BY <2>1
  <2>5. CASE Passed = 0
    <3>1. next = 1
      BY <2>5 DEF next
    <3> QED
      BY <1>2, <1>4, <1>5, <2>3, <2>4, <2>5, <3>1
  <2>6. CASE Passed = 1
    <3>1. next = 2
      BY <2>6 DEF next
    <3> QED
      BY <1>2, <1>4, <1>5, <2>3, <2>4, <2>6, <3>1
  <2>7. CASE Passed = 2
    <3>1. next = 3
      BY <2>7 DEF next
    <3> QED
      BY <1>2, <1>4, <1>5, <2>3, <2>4, <2>7, <3>1
  <2>8. CASE Passed = 3
    <3>1. next = 4
      BY <2>8 DEF next
    <3> QED
      BY <1>2, <1>4, <1>5, <2>3, <2>4, <2>8, <3>1
  <2> QED
    BY <2>3, <2>5, <2>6, <2>7, <2>8
<1>6. CASE call.kind = "analyse"
  <2>1. Stages[call.kind]
            = <<"admit", "observation", "baseline", "result", "evidence", "fact", "domain">>
    BY <1>6 DEF Stages, AnalyseStages
  <2>2. Len(Stages[call.kind]) = 7
    BY <2>1
  <2>3. Passed = 7 - Len(todo) /\ Passed \in 0..6 /\ (Len(todo) = 1 => Passed = 6)
    <3>1. Len(todo) \in 1..7
      BY <1>1, <2>2
    <3>2. Passed = 7 - Len(todo)
      BY <2>2 DEF Passed
    <3> QED
      <4> DEFINE left == Len(todo)
                 done == Passed
      <4>1. left \in 1..7 /\ done = 7 - left
        BY <3>1, <3>2
      <4> HIDE DEF left, done
      <4>2. done \in 0..6 /\ (left = 1 => done = 6)
        BY <4>1
      <4> QED
        BY <4>1, <4>2 DEF left, done
  <2>4. /\ Stages[call.kind][1] = "admit"
        /\ Stages[call.kind][2] = "observation"
        /\ Stages[call.kind][3] = "baseline"
        /\ Stages[call.kind][4] = "result"
        /\ Stages[call.kind][5] = "evidence"
        /\ Stages[call.kind][6] = "fact"
        /\ Stages[call.kind][7] = "domain"
    BY <2>1
  <2>5. CASE Passed = 0
    <3>1. next = 1
      BY <2>5 DEF next
    <3> QED
      BY <1>2, <1>4, <1>6, <2>3, <2>4, <2>5, <3>1
  <2>6. CASE Passed = 1
    <3>1. next = 2
      BY <2>6 DEF next
    <3> QED
      BY <1>2, <1>4, <1>6, <2>3, <2>4, <2>6, <3>1
  <2>7. CASE Passed = 2
    <3>1. next = 3
      BY <2>7 DEF next
    <3> QED
      BY <1>2, <1>4, <1>6, <2>3, <2>4, <2>7, <3>1
  <2>8. CASE Passed = 3
    <3>1. next = 4
      BY <2>8 DEF next
    <3> QED
      BY <1>2, <1>4, <1>6, <2>3, <2>4, <2>8, <3>1
  <2>9. CASE Passed = 4
    <3>1. next = 5
      BY <2>9 DEF next
    <3> QED
      BY <1>2, <1>4, <1>6, <2>3, <2>4, <2>9, <3>1
  <2>10. CASE Passed = 5
    <3>1. next = 6
      BY <2>10 DEF next
    <3> QED
      BY <1>2, <1>4, <1>6, <2>3, <2>4, <2>10, <3>1
  <2>11. CASE Passed = 6
    <3>1. next = 7
      BY <2>11 DEF next
    <3> QED
      BY <1>2, <1>4, <1>6, <2>3, <2>4, <2>11, <3>1
  <2> QED
    BY <2>3, <2>5, <2>6, <2>7, <2>8, <2>9, <2>10, <2>11
<1>7. CASE call.kind = "describe"
  <2>1. Stages[call.kind] = <<"admit", "observation", "baseline", "evidence", "domain">>
    BY <1>7 DEF Stages, DescribeStages
  <2>2. Len(Stages[call.kind]) = 5
    BY <2>1
  <2>3. Passed = 5 - Len(todo) /\ Passed \in 0..4 /\ (Len(todo) = 1 => Passed = 4)
    <3>1. Len(todo) \in 1..5
      BY <1>1, <2>2
    <3>2. Passed = 5 - Len(todo)
      BY <2>2 DEF Passed
    <3> QED
      <4> DEFINE left == Len(todo)
                 done == Passed
      <4>1. left \in 1..5 /\ done = 5 - left
        BY <3>1, <3>2
      <4> HIDE DEF left, done
      <4>2. done \in 0..4 /\ (left = 1 => done = 4)
        BY <4>1
      <4> QED
        BY <4>1, <4>2 DEF left, done
  <2>4. /\ Stages[call.kind][1] = "admit"
        /\ Stages[call.kind][2] = "observation"
        /\ Stages[call.kind][3] = "baseline"
        /\ Stages[call.kind][4] = "evidence"
        /\ Stages[call.kind][5] = "domain"
    BY <2>1
  <2>5. CASE Passed = 0
    <3>1. next = 1
      BY <2>5 DEF next
    <3> QED
      BY <1>2, <1>4, <1>7, <2>3, <2>4, <2>5, <3>1
  <2>6. CASE Passed = 1
    <3>1. next = 2
      BY <2>6 DEF next
    <3> QED
      BY <1>2, <1>4, <1>7, <2>3, <2>4, <2>6, <3>1
  <2>7. CASE Passed = 2
    <3>1. next = 3
      BY <2>7 DEF next
    <3> QED
      BY <1>2, <1>4, <1>7, <2>3, <2>4, <2>7, <3>1
  <2>8. CASE Passed = 3
    <3>1. next = 4
      BY <2>8 DEF next
    <3> QED
      BY <1>2, <1>4, <1>7, <2>3, <2>4, <2>8, <3>1
  <2>9. CASE Passed = 4
    <3>1. next = 5
      BY <2>9 DEF next
    <3> QED
      BY <1>2, <1>4, <1>7, <2>3, <2>4, <2>9, <3>1
  <2> QED
    BY <2>3, <2>5, <2>6, <2>7, <2>8, <2>9
<1>8. CASE call.kind = "rank"
  <2>1. Stages[call.kind] = <<"admit", "observation", "fact", "domain">>
    BY <1>8 DEF Stages, RankStages
  <2>2. Len(Stages[call.kind]) = 4
    BY <2>1
  <2>3. Passed = 4 - Len(todo) /\ Passed \in 0..3 /\ (Len(todo) = 1 => Passed = 3)
    <3>1. Len(todo) \in 1..4
      BY <1>1, <2>2
    <3>2. Passed = 4 - Len(todo)
      BY <2>2 DEF Passed
    <3> QED
      <4> DEFINE left == Len(todo)
                 done == Passed
      <4>1. left \in 1..4 /\ done = 4 - left
        BY <3>1, <3>2
      <4> HIDE DEF left, done
      <4>2. done \in 0..3 /\ (left = 1 => done = 3)
        BY <4>1
      <4> QED
        BY <4>1, <4>2 DEF left, done
  <2>4. /\ Stages[call.kind][1] = "admit"
        /\ Stages[call.kind][2] = "observation"
        /\ Stages[call.kind][3] = "fact"
        /\ Stages[call.kind][4] = "domain"
    BY <2>1
  <2>5. CASE Passed = 0
    <3>1. next = 1
      BY <2>5 DEF next
    <3> QED
      BY <1>2, <1>4, <1>8, <2>3, <2>4, <2>5, <3>1
  <2>6. CASE Passed = 1
    <3>1. next = 2
      BY <2>6 DEF next
    <3> QED
      BY <1>2, <1>4, <1>8, <2>3, <2>4, <2>6, <3>1
  <2>7. CASE Passed = 2
    <3>1. next = 3
      BY <2>7 DEF next
    <3> QED
      BY <1>2, <1>4, <1>8, <2>3, <2>4, <2>7, <3>1
  <2>8. CASE Passed = 3
    <3>1. next = 4
      BY <2>8 DEF next
    <3> QED
      BY <1>2, <1>4, <1>8, <2>3, <2>4, <2>8, <3>1
  <2> QED
    BY <2>3, <2>5, <2>6, <2>7, <2>8
<1>9. CASE call.kind \in {"failed", "diverged"}
  <2>1. Stages[call.kind] = <<"observation", "limitation", "diagnostic">>
    BY <1>9 DEF Stages, FailedStages
  <2>2. Len(Stages[call.kind]) = 3
    BY <2>1
  <2>3. Passed = 3 - Len(todo) /\ Passed \in 0..2 /\ (Len(todo) = 1 => Passed = 2)
    <3>1. Len(todo) \in 1..3
      BY <1>1, <2>2
    <3>2. Passed = 3 - Len(todo)
      BY <2>2 DEF Passed
    <3> QED
      <4> DEFINE left == Len(todo)
                 done == Passed
      <4>1. left \in 1..3 /\ done = 3 - left
        BY <3>1, <3>2
      <4> HIDE DEF left, done
      <4>2. done \in 0..2 /\ (left = 1 => done = 2)
        BY <4>1
      <4> QED
        BY <4>1, <4>2 DEF left, done
  <2>4. /\ Stages[call.kind][1] = "observation"
        /\ Stages[call.kind][2] = "limitation"
        /\ Stages[call.kind][3] = "diagnostic"
    BY <2>1
  <2>5. CASE Passed = 0
    <3>1. next = 1
      BY <2>5 DEF next
    <3> QED
      BY <1>2, <1>4, <1>9, <2>3, <2>4, <2>5, <3>1
  <2>6. CASE Passed = 1
    <3>1. next = 2
      BY <2>6 DEF next
    <3> QED
      BY <1>2, <1>4, <1>9, <2>3, <2>4, <2>6, <3>1
  <2>7. CASE Passed = 2
    <3>1. next = 3
      BY <2>7 DEF next
    <3> QED
      BY <1>2, <1>4, <1>9, <2>3, <2>4, <2>7, <3>1
  <2> QED
    BY <2>3, <2>5, <2>6, <2>7
<1> QED
  BY <1>3, <1>5, <1>6, <1>7, <1>8, <1>9

\* A stage that is done is one of the stages of the kind.
LEMMA DoneFits ==
    ASSUME TypeOK, CallInv, PlaceInv, ~Idle
    PROVE  /\ Done("result") => call.kind = "analyse"
           /\ Done("evidence") => call.kind \in {"analyse", "describe"}
<1>1. call.kind \in {"open", "derive", "get", "analyse", "describe", "rank", "failed", "diverged"}
  BY CallTyped
<1> DEFINE stages == Stages[call.kind]
<1>2. /\ Len(todo) \in 1..Len(stages) /\ Passed = Len(stages) - Len(todo)
  BY DEF PlaceInv, Passed
<1>3. ASSUME NEW s, Done(s), Len(stages) \in Nat
      PROVE  \E i \in 1..Len(stages) : stages[i] = s
  <2> DEFINE n == Len(stages)
             l == Len(todo)
             p == Passed
  <2>1. PICK i \in 1..p : stages[i] = s
    BY <1>3 DEF Done
  <2>2. n \in Nat /\ l \in 1..n /\ p = n - l /\ i \in 1..p
    BY <1>2, <1>3
  <2> HIDE DEF n, l, p
  <2>3. i \in 1..n
    BY <2>2
  <2> QED
    BY <2>1, <2>3 DEF n
<1>4. CASE call.kind \in {"open", "derive", "get"}
  <2>1. stages = <<"admit", "observation", "baseline", "domain">>
    BY <1>4 DEF Stages, OpenStages, DeriveStages
  <2> QED
    BY <1>3, <2>1
<1>5. CASE call.kind = "rank"
  <2>1. stages = <<"admit", "observation", "fact", "domain">>
    BY <1>5 DEF Stages, RankStages
  <2> QED
    BY <1>3, <2>1
<1>6. CASE call.kind \in {"failed", "diverged"}
  <2>1. stages = <<"observation", "limitation", "diagnostic">>
    BY <1>6 DEF Stages, FailedStages
  <2> QED
    BY <1>3, <2>1
<1>7. CASE call.kind = "describe"
  <2>1. stages = <<"admit", "observation", "baseline", "evidence", "domain">>
    BY <1>7 DEF Stages, DescribeStages
  <2> QED
    BY <1>3, <1>7, <2>1
<1>8. CASE call.kind = "analyse"
  BY <1>8
<1> QED
  BY <1>1, <1>4, <1>5, <1>6, <1>7, <1>8

\* What an event of a projection changes of the records.
RecordsAfter(stage) ==
    /\ baselines' = IF stage = "baseline"
                    THEN [baselines EXCEPT ![call.context] = RevisionOf[call.context]]
                    ELSE baselines
    /\ active_context' = IF stage = "baseline" THEN call.context ELSE active_context
    /\ results' = IF stage = "result"
                  THEN [results EXCEPT ![call.result] =
                           [turn |-> call.turn, revision |-> RevisionOf[call.context]]]
                  ELSE results
    /\ evidence' = IF stage = "evidence"
                   THEN [evidence EXCEPT ![EvidenceFor(call)] =
                            [refs |-> EvidenceRefs(call), simulator |-> TRUE]]
                   ELSE evidence
    /\ calculations' = IF stage = "domain" /\ call.kind = "analyse"
                       THEN [calculations EXCEPT ![call.result] =
                                [context |-> call.context, revision |-> RevisionOf[call.context],
                                 turn |-> call.turn]]
                       ELSE calculations
    /\ observations' = IF stage = "observation"
                       THEN [observations EXCEPT ![call.id] =
                                [turn |-> call.turn, ranking |-> call.kind = "rank",
                                 consumed |-> Consumed(call), produced |-> Produced(call)]]
                       ELSE observations

LEMMA AppendEffect ==
    ASSUME TypeOK, CallInv, PlaceInv, ~Idle, NEW stage, stage = Head(todo),
           AppendEvent(stage, call)
    PROVE  RecordsAfter(stage)
<1> USE DEF Ctx!turnVars, Ctx!recordVars, Ctx!noteVars, Ctx!domainVars, contextVars
<1>1. CASE stage = "admit" /\ Admit(call)
  BY <1>1 DEF Admit, MayAdmit, RecordsAfter
<1>2. CASE stage = "observation" /\
           Ctx!RecordObservation(call.turn, call.id, call.kind = "rank", Consumed(call),
                                 Produced(call))
  BY <1>2 DEF Ctx!RecordObservation, Ctx!MayRecordObservation, Ctx!ObservationOf, RecordsAfter
<1>3. CASE stage = "baseline" /\
           Ctx!OpenSimulatorContext(call.turn, call.context, RevisionOf[call.context])
  BY <1>3 DEF Ctx!OpenSimulatorContext, Ctx!MayOpenContext, RecordsAfter
<1>4. CASE stage = "result" /\
           Ctx!RegisterResult(call.turn, call.result, RevisionOf[call.context])
  BY <1>4 DEF Ctx!RegisterResult, Ctx!MayRegisterResult, RecordsAfter
<1>5. CASE stage = "evidence" /\
           Ctx!RegisterEvidence(None, EvidenceFor(call), EvidenceRefs(call), TRUE)
  BY <1>5 DEF Ctx!RegisterEvidence, Ctx!MayRegisterEvidence, RecordsAfter
<1>6. CASE stage = "fact" /\ Ctx!RecordVerifiedFact(call.id, {EvidenceFor(call)})
  BY <1>6 DEF Ctx!RecordVerifiedFact, Ctx!MayRecordFact, RecordsAfter
<1>7. CASE stage = "domain" /\ ProjectDomain(call)
  <2>1. "calculation" \in DomainParts(call) <=> call.kind = "analyse"
    <3>1. call.kind \in {"open", "derive", "get", "analyse", "describe", "rank", "failed", "diverged"}
      BY CallTyped
    <3>2. call.kind \notin {"failed", "diverged"}
      BY <1>7, StageFacts
    <3>3. CASE call.kind \in {"open", "derive", "get"}
      BY <3>3 DEF DomainParts
    <3>4. CASE call.kind = "analyse"
      BY <3>4 DEF DomainParts
    <3>5. CASE call.kind \in {"describe", "rank"}
      BY <3>5 DEF DomainParts
    <3> QED
      BY <3>1, <3>2, <3>3, <3>4, <3>5
  <2> QED
    BY <1>7, <2>1 DEF ProjectDomain, LocationOf, Ctx!ProjectDomainState,
                      Ctx!MayProjectDomain, Ctx!DomainRecordOf, RecordsAfter
<1>8. CASE stage = "limitation" /\ Ctx!RecordLimitation(<<call.id, "tool">>, call.turn)
  BY <1>8 DEF Ctx!RecordLimitation, Ctx!MayRecordLimitation, RecordsAfter
<1>9. CASE stage = "diagnostic" /\ Ctx!RecordDiagnostic
  BY <1>9 DEF Ctx!RecordDiagnostic, Ctx!MayRecordDiagnostic, RecordsAfter
<1> QED
  BY <1>1, <1>2, <1>3, <1>4, <1>5, <1>6, <1>7, <1>8, <1>9
     DEF AppendEvent, PromoteFact

\* Those records keep their types.
LEMMA RecordsTyped ==
    ASSUME TypeOK, CallInv, PlaceInv, ~Idle, RecordsAfter(Head(todo))
    PROVE  /\ baselines' \in [Context -> Revision \cup {None}]
           /\ active_context' \in Context \cup {None}
           /\ results' \in [Result -> Ctx!ResultRecord \cup {None}]
           /\ evidence' \in [Evidence -> Ctx!EvidenceRecord \cup {None}]
           /\ calculations' \in [Result -> Ctx!DomainRecord \cup {None}]
           /\ observations' \in [Call -> Ctx!ObservationRecord \cup {None}]
<1>1. /\ call.id \in Call /\ call.turn \in Turn /\ call.context \in Context
      /\ RevisionOf[call.context] \in Revision
      /\ call.kind \in {"analyse", "rank"} => call.result \in Result
  BY CallTyped
<1>2. /\ baselines \in [Context -> Revision \cup {None}]
      /\ active_context \in Context \cup {None}
      /\ results \in [Result -> Ctx!ResultRecord \cup {None}]
      /\ evidence \in [Evidence -> Ctx!EvidenceRecord \cup {None}]
      /\ calculations \in [Result -> Ctx!DomainRecord \cup {None}]
      /\ observations \in [Call -> Ctx!ObservationRecord \cup {None}]
  BY DEF TypeOK, Ctx!TypeOK
<1>3. /\ baselines' \in [Context -> Revision \cup {None}]
      /\ active_context' \in Context \cup {None}
  BY <1>1, <1>2 DEF RecordsAfter
<1>4. results' \in [Result -> Ctx!ResultRecord \cup {None}]
  <2> DEFINE record == [turn |-> call.turn, revision |-> RevisionOf[call.context]]
  <2>1. record \in Ctx!ResultRecord
    BY <1>1 DEF Ctx!ResultRecord
  <2>2. results' = IF Head(todo) = "result" THEN [results EXCEPT ![call.result] = record]
                   ELSE results
    BY DEF RecordsAfter
  <2> HIDE DEF record
  <2> QED
    BY <1>1, <1>2, <2>1, <2>2
<1>5. evidence' \in [Evidence -> Ctx!EvidenceRecord \cup {None}]
  <2> DEFINE record == [refs |-> EvidenceRefs(call), simulator |-> TRUE]
  <2>1. record \in Ctx!EvidenceRecord
    BY RefsTyped DEF Ctx!EvidenceRecord
  <2>2. evidence' = IF Head(todo) = "evidence"
                    THEN [evidence EXCEPT ![EvidenceFor(call)] = record] ELSE evidence
    BY DEF RecordsAfter
  <2> HIDE DEF record
  <2> QED
    BY <1>2, <2>1, <2>2
<1>6. calculations' \in [Result -> Ctx!DomainRecord \cup {None}]
  <2> DEFINE record == [context |-> call.context, revision |-> RevisionOf[call.context],
                        turn |-> call.turn]
  <2>1. record \in Ctx!DomainRecord
    BY <1>1 DEF Ctx!DomainRecord
  <2>2. calculations' = IF Head(todo) = "domain" /\ call.kind = "analyse"
                        THEN [calculations EXCEPT ![call.result] = record] ELSE calculations
    BY DEF RecordsAfter
  <2> HIDE DEF record
  <2> QED
    BY <1>1, <1>2, <2>1, <2>2
<1>7. observations' \in [Call -> Ctx!ObservationRecord \cup {None}]
  <2> DEFINE record == [turn |-> call.turn, ranking |-> call.kind = "rank",
                        consumed |-> Consumed(call), produced |-> Produced(call)]
  <2>1. record \in Ctx!ObservationRecord
    BY <1>1, RefsTyped DEF Ctx!ObservationRecord
  <2>2. observations' = IF Head(todo) = "observation"
                        THEN [observations EXCEPT ![call.id] = record] ELSE observations
    BY DEF RecordsAfter
  <2> HIDE DEF record
  <2> QED
    BY <1>1, <1>2, <2>1, <2>2
<1> QED
  BY <1>3, <1>4, <1>5, <1>6, <1>7

\* A limitation of a call keeps its type and everything else.
LEMMA LimitationTyped ==
    ASSUME TypeOK, NEW c \in Call, NEW kind \in {"tool", "projection"}, NEW t \in Turn,
           Ctx!RecordLimitation(<<c, kind>>, t)
    PROVE  /\ limitations' \in [Limitation -> Ctx!LimitationRecord \cup {None}]
           /\ UNCHANGED <<status, baselines, active_context, current_turn, turns, observations,
                          results, evidence, verified_facts, diagnostics, model,
                          operating_state, calculations, domain_records>>
<1> DEFINE record == [turn |-> t]
<1>1. record \in Ctx!LimitationRecord
  BY DEF Ctx!LimitationRecord
<1>2. /\ limitations' = [limitations EXCEPT ![<<c, kind>>] = record]
      /\ UNCHANGED <<status, baselines, active_context, current_turn, turns, observations,
                     results, evidence, verified_facts, diagnostics, model,
                     operating_state, calculations, domain_records>>
  BY DEF Ctx!RecordLimitation, Ctx!MayRecordLimitation, Ctx!turnVars, Ctx!recordVars,
         Ctx!domainVars
<1>3. limitations \in [Limitation -> Ctx!LimitationRecord \cup {None}]
  BY DEF TypeOK, Ctx!TypeOK
<1> HIDE DEF record
<1> QED
  BY <1>1, <1>2, <1>3

\* An event of a projection keeps the shape of the context, and the turn.
LEMMA AppendTyped ==
    ASSUME TypeOK, CallInv, PlaceInv, ~Idle, AppendEvent(Head(todo), call)
    PROVE  /\ Ctx!TypeOK'
           /\ RecordsAfter(Head(todo))
           /\ current_turn' # None /\ current_turn'.id = call.turn
<1> DEFINE Others ==
             /\ status' = status /\ turns' = turns /\ operating_state' = operating_state
             /\ current_turn' \in Ctx!ActiveTurn /\ current_turn' # None
             /\ current_turn'.id = call.turn
             /\ verified_facts' \in [Call -> Ctx!VerifiedFact \cup {None}]
             /\ limitations' \in [Limitation -> Ctx!LimitationRecord \cup {None}]
             /\ diagnostics' \in 0..Cardinality(Call)
             /\ model' \in Ctx!Location \cup {None}
             /\ domain_records' \in [Revision -> Ctx!DomainRecord \cup {None}]
<1>1. RecordsAfter(Head(todo))
  BY AppendEffect
<1>2. /\ call.id \in Call /\ call.turn \in Turn /\ call.context \in Context
      /\ RevisionOf[call.context] \in Revision
      /\ call.kind \in {"analyse", "rank"} => call.result \in Result
      /\ current_turn # None /\ current_turn \in Ctx!ActiveTurn /\ current_turn.id = call.turn
      /\ current_turn.id \in Turn
  BY CallTyped
<1>3. /\ verified_facts \in [Call -> Ctx!VerifiedFact \cup {None}]
      /\ limitations \in [Limitation -> Ctx!LimitationRecord \cup {None}]
      /\ diagnostics \in 0..Cardinality(Call)
      /\ model \in Ctx!Location \cup {None}
      /\ domain_records \in [Revision -> Ctx!DomainRecord \cup {None}]
  BY DEF TypeOK, Ctx!TypeOK
<1>4. Others
  <2> USE DEF Ctx!turnVars, Ctx!recordVars, Ctx!noteVars, Ctx!domainVars, contextVars
  <2>1. CASE Admit(call)
    BY <1>2, <1>3, <2>1 DEF Admit, MayAdmit
  <2>2. CASE Ctx!RecordObservation(call.turn, call.id, call.kind = "rank", Consumed(call),
                                   Produced(call))
    <3>1. /\ current_turn' = Ctx!MergeTurnRefs(Consumed(call), Produced(call))
          /\ UNCHANGED <<status, turns, operating_state, verified_facts, limitations,
                         diagnostics, model, domain_records>>
      BY <2>2 DEF Ctx!RecordObservation, Ctx!MayRecordObservation, Ctx!ObservationOf
    <3>2. /\ current_turn' \in Ctx!ActiveTurn /\ current_turn' # None
          /\ current_turn'.id = call.turn
      BY <1>2, <3>1, RefsTyped, MergeTyped
    <3> QED
      BY <1>3, <3>1, <3>2
  <2>3. CASE Ctx!OpenSimulatorContext(call.turn, call.context, RevisionOf[call.context])
    BY <1>2, <1>3, <2>3 DEF Ctx!OpenSimulatorContext, Ctx!MayOpenContext
  <2>4. CASE Head(todo) = "result" /\
             Ctx!RegisterResult(call.turn, call.result, RevisionOf[call.context])
    <3>1. /\ current_turn' = Ctx!MergeTurnRefs({}, {call.result})
          /\ UNCHANGED <<status, turns, operating_state, verified_facts, limitations,
                         diagnostics, model, domain_records>>
      BY <2>4 DEF Ctx!RegisterResult, Ctx!MayRegisterResult
    <3>2. {call.result} \subseteq Ctx!Ref
      BY <1>2, <2>4, StageFacts DEF Ctx!Ref
    <3>3. /\ current_turn' \in Ctx!ActiveTurn /\ current_turn' # None
          /\ current_turn'.id = call.turn
      BY <1>2, <3>1, <3>2, MergeTyped
    <3> QED
      BY <1>3, <3>1, <3>3
  <2>5. CASE Ctx!RegisterEvidence(None, EvidenceFor(call), EvidenceRefs(call), TRUE)
    <3>1. current_turn.id # None
      BY <1>2, NoneApart
    <3>2. UNCHANGED <<status, turns, operating_state, current_turn, verified_facts,
                      limitations, diagnostics, model, domain_records>>
      BY <2>5, <3>1 DEF Ctx!RegisterEvidence, Ctx!MayRegisterEvidence
    <3> QED
      BY <1>2, <1>3, <3>2
  <2>6. CASE Head(todo) = "fact" /\ Ctx!RecordVerifiedFact(call.id, {EvidenceFor(call)})
    <3> DEFINE record == [evidence_refs |-> {EvidenceFor(call)}]
    <3>1. EvidenceFor(call) \in Evidence
      BY <1>2, <2>6, StageFacts, DocumentsAreLinked DEF EvidenceFor
    <3>2. record \in Ctx!VerifiedFact
      BY <3>1 DEF Ctx!VerifiedFact
    <3>3. /\ verified_facts' = [verified_facts EXCEPT ![call.id] = record]
          /\ UNCHANGED <<status, turns, operating_state, current_turn, limitations,
                         diagnostics, model, domain_records>>
      BY <2>6 DEF Ctx!RecordVerifiedFact, Ctx!MayRecordFact
    <3> HIDE DEF record
    <3>4. verified_facts' \in [Call -> Ctx!VerifiedFact \cup {None}]
      BY <1>3, <3>2, <3>3
    <3> QED
      BY <1>2, <1>3, <3>3, <3>4
  <2>7. CASE Head(todo) = "domain" /\ ProjectDomain(call)
    <3> DEFINE loc == [context |-> call.context, revision |-> RevisionOf[call.context]]
               record == [context |-> call.context, revision |-> RevisionOf[call.context],
                          turn |-> call.turn]
               parts == DomainParts(call)
    <3>1. loc \in Ctx!Location /\ record \in Ctx!DomainRecord
      BY <1>2 DEF Ctx!Location, Ctx!DomainRecord
    <3>2. "operating_state" \notin parts
      <4>1. call.kind \in {"open", "derive", "get", "analyse", "describe", "rank"}
        BY <2>7, CallTyped, StageFacts
      <4>2. CASE call.kind \in {"open", "derive", "get"}
        BY <4>2 DEF DomainParts
      <4>3. CASE call.kind \in {"analyse", "describe", "rank"}
        BY <4>3 DEF DomainParts
      <4> QED
        BY <4>1, <4>2, <4>3
    <3>3. /\ model' = IF "model" \in parts THEN loc ELSE model
          /\ operating_state' = IF "operating_state" \in parts THEN record ELSE operating_state
          /\ domain_records' = IF "record" \in parts
                               THEN [domain_records EXCEPT ![RevisionOf[call.context]] = record]
                               ELSE domain_records
          /\ UNCHANGED <<status, turns, current_turn, verified_facts, limitations, diagnostics>>
      BY <2>7 DEF ProjectDomain, LocationOf, Ctx!ProjectDomainState, Ctx!MayProjectDomain,
                  Ctx!DomainRecordOf
    <3> HIDE DEF loc, record, parts
    <3>4. /\ model' \in Ctx!Location \cup {None} /\ operating_state' = operating_state
      BY <1>3, <3>1, <3>2, <3>3
    <3>5. domain_records' \in [Revision -> Ctx!DomainRecord \cup {None}]
      BY <1>2, <1>3, <3>1, <3>3
    <3> QED
      BY <1>2, <1>3, <3>3, <3>4, <3>5
  <2>8. CASE Ctx!RecordLimitation(<<call.id, "tool">>, call.turn)
    BY <1>2, <1>3, <2>8, LimitationTyped
  <2>9. CASE Ctx!RecordDiagnostic
    <3>1. Cardinality(Call) \in Nat
      BY DocumentsAreLinked, FS_CardinalityType
    <3>2. diagnostics' \in 0..Cardinality(Call)
      BY <1>3, <2>9, <3>1 DEF Ctx!RecordDiagnostic, Ctx!MayRecordDiagnostic
    <3> QED
      BY <1>2, <1>3, <2>9, <3>2 DEF Ctx!RecordDiagnostic, Ctx!MayRecordDiagnostic
  <2> QED
    BY <2>1, <2>2, <2>3, <2>4, <2>5, <2>6, <2>7, <2>8, <2>9
       DEF AppendEvent, PromoteFact
<1>5. Ctx!TypeOK
  BY DEF TypeOK
<1>6. /\ baselines' \in [Context -> Revision \cup {None}]
      /\ active_context' \in Context \cup {None}
      /\ results' \in [Result -> Ctx!ResultRecord \cup {None}]
      /\ evidence' \in [Evidence -> Ctx!EvidenceRecord \cup {None}]
      /\ calculations' \in [Result -> Ctx!DomainRecord \cup {None}]
      /\ observations' \in [Call -> Ctx!ObservationRecord \cup {None}]
  BY <1>1, RecordsTyped
<1> QED
  BY <1>1, <1>4, <1>5, <1>6 DEF Ctx!TypeOK

-----------------------------------------------------------------------------
(* The shapes of a step: all that the strengthenings read of it *)

records == <<baselines, active_context, results, evidence, calculations, observations>>

\* A turn starts, is answered or closes, or nothing happens.
Quiet == /\ UNCHANGED <<records, stored, made, call, todo, failure>>
         /\ ~Idle => UNCHANGED current_turn

\* Pi makes a call.
Calls(x) == /\ Idle
            /\ current_turn # None /\ current_turn.id = x.turn
            /\ x \in Possible(x.turn)
            /\ stored' = IF x.kind \in {"failed", "diverged"} THEN stored ELSE stored \cup Written(x)
            /\ made' = [made EXCEPT ![x.id] = x]
            /\ call' = x
            /\ todo' = Stages[x.kind]
            /\ UNCHANGED <<records, current_turn, failure>>

\* A stage of a projection is done.
Moves == /\ ~Idle
         /\ Advance
         /\ current_turn' # None /\ current_turn'.id = call.turn
         /\ IF AlreadyKnown(Head(todo), call) THEN UNCHANGED records
                                              ELSE RecordsAfter(Head(todo))

\* A projection is given up.
GivesUp == /\ ~Idle
           /\ \E stage \in StageNames, fault \in BOOLEAN : Abandon(stage, fault)
           /\ UNCHANGED <<records, current_turn>>

\* The calls Pi can make are calls of their shape.
LEMMA PossibleIs ==
    ASSUME NEW t \in Turn, NEW x \in Possible(t)
    PROVE  /\ x \in ToolCall /\ x.id \in Call /\ x.turn = t /\ x.context \in Context
           /\ x.result \in Result \cup {None}
           /\ x.kind \in {"open", "derive", "get", "analyse", "describe", "rank", "failed", "diverged"}
           /\ made[x.id] = None /\ Consumed(x) \subseteq stored /\ WellFormed(x)
           /\ Written(x) \subseteq Context \cup Result
<1>1. /\ x \in ToolCall /\ x.turn = t /\ made[x.id] = None
      /\ Consumed(x) \subseteq stored /\ WellFormed(x)
  BY DEF Possible, WellFormed
<1>2. /\ x.id \in Call /\ x.context \in Context /\ x.result \in Result \cup {None}
      /\ x.kind \in {"open", "derive", "get", "analyse", "describe", "rank", "failed", "diverged"}
  BY <1>1 DEF ToolCall
<1> QED
  BY <1>1, <1>2 DEF Written

\* The stages of every kind are stages.
LEMMA StagesTyped ==
    ASSUME NEW kind \in {"open", "derive", "get", "analyse", "describe", "rank", "failed", "diverged"}
    PROVE  /\ Stages[kind] \in Seq(StageNames)
           /\ Len(Stages[kind]) \in Nat /\ Len(Stages[kind]) > 0
<1> USE DEF StageNames
<1>1. CASE kind \in {"open", "derive", "get"}
  <2>1. Stages[kind] = <<"admit", "observation", "baseline", "domain">>
    BY <1>1 DEF Stages, OpenStages, DeriveStages
  <2> QED
    BY <2>1
<1>2. CASE kind = "analyse"
  <2>1. Stages[kind]
            = <<"admit", "observation", "baseline", "result", "evidence", "fact", "domain">>
    BY <1>2 DEF Stages, AnalyseStages
  <2> QED
    BY <2>1
<1>3. CASE kind = "describe"
  <2>1. Stages[kind] = <<"admit", "observation", "baseline", "evidence", "domain">>
    BY <1>3 DEF Stages, DescribeStages
  <2> QED
    BY <2>1
<1>4. CASE kind = "rank"
  <2>1. Stages[kind] = <<"admit", "observation", "fact", "domain">>
    BY <1>4 DEF Stages, RankStages
  <2> QED
    BY <2>1
<1>5. CASE kind \in {"failed", "diverged"}
  <2>1. Stages[kind] = <<"observation", "limitation", "diagnostic">>
    BY <1>5 DEF Stages, FailedStages
  <2> QED
    BY <2>1
<1> QED
  BY <1>1, <1>2, <1>3, <1>4, <1>5

\* Giving a projection up, with or without the limitation.
LEMMA AbandonTyped ==
    ASSUME TypeOK, CallInv, PlaceInv, ~Idle, NEW fault \in BOOLEAN,
           Abandon(Head(todo), fault), faults' \in 0..MaxFaults,
           DiagnoseAbandoned \/ UNCHANGED contextVars
    PROVE  TypeOK' /\ GivesUp
<1>1. Head(todo) \in StageNames
  BY DEF TypeOK, PlaceInv
<1>2. call.id \in Call /\ current_turn.id \in Turn
  BY CallTyped
<1>3. /\ Ctx!TypeOK' /\ UNCHANGED <<records, current_turn>>
  <2>1. Ctx!TypeOK
    BY DEF TypeOK
  <2>2. CASE DiagnoseAbandoned
    BY <1>2, <2>1, <2>2, LimitationTyped DEF DiagnoseAbandoned, Ctx!TypeOK, records
  <2>3. CASE UNCHANGED contextVars
    BY <2>1, <2>3 DEF contextVars, Ctx!TypeOK, records
  <2> QED
    BY <2>2, <2>3
<1>4. failure' \in [Call -> Failure \cup {None}]
  <2> DEFINE record == [stage |-> Head(todo), fault |-> fault]
  <2>1. record \in Failure
    BY <1>1 DEF Failure, StageNames
  <2>2. failure' = [failure EXCEPT ![call.id] = record]
    BY DEF Abandon
  <2>3. failure \in [Call -> Failure \cup {None}]
    BY DEF TypeOK
  <2> HIDE DEF record
  <2> QED
    BY <2>1, <2>2, <2>3
<1>5. /\ call' = None /\ todo' = <<>> /\ UNCHANGED <<stored, made, submitted>>
  BY DEF Abandon
<1>6. TypeOK'
  <2>1. /\ stored \subseteq Context \cup Result
        /\ made \in [Call -> ToolCall \cup {None}]
        /\ submitted \subseteq Turn
    BY DEF TypeOK
  <2>2. todo' \in Seq(StageNames)
    BY <1>5
  <2> QED
    BY <1>3, <1>4, <1>5, <2>1, <2>2 DEF TypeOK
<1>7. GivesUp
  BY <1>1, <1>3 DEF GivesUp
<1> QED
  BY <1>6, <1>7

\* Every step is of one of the shapes, and keeps the types.
LEMMA StepShape ==
    ASSUME TypeOK, CallInv, PlaceInv, [Next]_vars
    PROVE  /\ TypeOK'
           /\ Quiet \/ (\E x \in ToolCall : Calls(x)) \/ Moves \/ GivesUp
<1>1. /\ Ctx!TypeOK
      /\ stored \subseteq Context \cup Result
      /\ made \in [Call -> ToolCall \cup {None}]
      /\ call \in ToolCall \cup {None}
      /\ todo \in Seq(StageNames)
      /\ failure \in [Call -> Failure \cup {None}]
      /\ submitted \subseteq Turn
      /\ faults \in 0..MaxFaults
  BY DEF TypeOK
<1>2. ASSUME NEW t \in Turn, StartTurn(t)
      PROVE  TypeOK' /\ Quiet
  <2> DEFINE started == [id |-> t, consumed |-> {}, produced |-> {}]
  <2>1. started \in Ctx!ActiveTurn
    BY DEF Ctx!ActiveTurn
  <2>2. /\ current_turn = None /\ status' = "running" /\ current_turn' = started
        /\ UNCHANGED <<baselines, active_context, turns, observations, results, evidence,
                       verified_facts, limitations, diagnostics, model, operating_state,
                       calculations, domain_records>>
    BY <1>2 DEF StartTurn, Ctx!StartTurn, Ctx!recordVars, Ctx!noteVars, Ctx!domainVars
  <2>3. UNCHANGED toolVars
    BY <1>2 DEF StartTurn
  <2> HIDE DEF started
  <2>4. Ctx!TypeOK'
    BY <1>1, <2>1, <2>2 DEF Ctx!TypeOK
  <2>5. TypeOK'
    BY <1>1, <2>3, <2>4 DEF TypeOK, toolVars
  <2>6. Idle
    BY <2>2 DEF CallInv
  <2> QED
    BY <2>2, <2>3, <2>5, <2>6 DEF Quiet, toolVars, records
<1>3. ASSUME NEW t \in Turn, CallTool(t)
      PROVE  TypeOK' /\ \E x \in ToolCall : Calls(x)
  <2>1. PICK x \in Possible(t) :
           /\ stored' = IF x.kind \in {"failed", "diverged"} THEN stored ELSE stored \cup Written(x)
           /\ made' = [made EXCEPT ![x.id] = x]
           /\ call' = x
           /\ todo' = Stages[x.kind]
    BY <1>3 DEF CallTool
  <2>2. /\ x \in ToolCall /\ x.id \in Call /\ x.turn = t /\ Written(x) \subseteq Context \cup Result
        /\ x.kind \in {"open", "derive", "get", "analyse", "describe", "rank", "failed", "diverged"}
    BY PossibleIs
  <2>3. /\ Idle /\ current_turn # None /\ current_turn.id = t
        /\ UNCHANGED <<contextVars, failure, submitted, faults>>
    BY <1>3 DEF CallTool
  <2>4. Ctx!TypeOK'
    BY <1>1, <2>3 DEF contextVars, Ctx!TypeOK
  <2>5. todo' \in Seq(StageNames)
    BY <2>1, <2>2, StagesTyped
  <2>6. stored' \subseteq Context \cup Result
    BY <1>1, <2>1, <2>2
  <2>7. TypeOK'
    BY <1>1, <2>1, <2>2, <2>3, <2>4, <2>5, <2>6 DEF TypeOK
  <2>8. Calls(x)
    BY <2>1, <2>2, <2>3 DEF Calls, contextVars, records
  <2> QED
    BY <2>2, <2>7, <2>8
<1>4. ASSUME NEW t \in Turn, SubmitAnswer(t)
      PROVE  TypeOK' /\ Quiet
  <2> DEFINE known == Ctx!Registered(baselines) \cup Ctx!Registered(results)
                          \cup Ctx!Registered(evidence)
  <2>1. PICK claims \in {stored \cap Result, {}} : Ctx!SubmitAnswer(t, claims)
    BY <1>4 DEF SubmitAnswer
  <2>2. /\ current_turn # None /\ current_turn' = Ctx!MergeTurnRefs(claims \cap known, {})
        /\ UNCHANGED <<status, baselines, active_context, turns, observations, results, evidence,
                       verified_facts, limitations, diagnostics, model, operating_state,
                       calculations, domain_records>>
    BY <2>1 DEF Ctx!SubmitAnswer, Ctx!InTurn, Ctx!recordVars, Ctx!noteVars, Ctx!domainVars
  <2>3. /\ Idle /\ submitted' = submitted \cup {t}
        /\ UNCHANGED <<stored, made, call, todo, failure, faults>>
    BY <1>4 DEF SubmitAnswer
  <2>4. claims \cap known \in SUBSET Ctx!Ref
    BY <2>1 DEF Ctx!Ref
  <2>5. current_turn \in Ctx!ActiveTurn
    BY <1>1, <2>2 DEF Ctx!TypeOK
  <2>6. current_turn' \in Ctx!ActiveTurn
    BY <2>2, <2>4, <2>5, MergeTyped
  <2>7. Ctx!TypeOK'
    BY <1>1, <2>2, <2>6 DEF Ctx!TypeOK
  <2>8. TypeOK'
    BY <1>1, <2>3, <2>7 DEF TypeOK
  <2> QED
    BY <2>2, <2>3, <2>8 DEF Quiet, records
<1>5. ASSUME NEW t \in Turn, CloseTurn(t)
      PROVE  TypeOK' /\ Quiet
  <2>1. PICK outcome \in {"success", "failed"} : Ctx!CompleteTurn(t, outcome)
    BY <1>5 DEF CloseTurn
  <2> DEFINE record == [status |-> outcome, consumed |-> current_turn.consumed,
                        produced |-> current_turn.produced]
  <2>2. /\ current_turn # None /\ turns' = [turns EXCEPT ![t] = record] /\ current_turn' = None
        /\ UNCHANGED <<status, baselines, active_context, observations, results, evidence,
                       verified_facts, limitations, diagnostics, model, operating_state,
                       calculations, domain_records>>
    BY <2>1 DEF Ctx!CompleteTurn, Ctx!InTurn, Ctx!recordVars, Ctx!noteVars, Ctx!domainVars
  <2>3. current_turn \in Ctx!ActiveTurn
    BY <1>1, <2>2 DEF Ctx!TypeOK
  <2>4. record \in Ctx!TurnRecord
    BY <2>3 DEF Ctx!ActiveTurn, Ctx!TurnRecord
  <2>5. Idle /\ UNCHANGED toolVars
    BY <1>5 DEF CloseTurn
  <2> HIDE DEF record
  <2>6. Ctx!TypeOK'
    BY <1>1, <2>2, <2>4 DEF Ctx!TypeOK
  <2>7. TypeOK'
    BY <1>1, <2>5, <2>6 DEF TypeOK, toolVars
  <2> QED
    BY <2>2, <2>5, <2>7 DEF Quiet, toolVars, records
<1>6. ASSUME ~Idle, Advance, Ctx!TypeOK'
      PROVE  TypeOK'
  <2>1. todo' \in Seq(StageNames)
    BY <1>1, <1>6 DEF Advance, PlaceInv
  <2> QED
    BY <1>1, <1>6, <2>1 DEF TypeOK, Advance
<1>7. CASE SkipKnown
  <2>1. ~Idle /\ AlreadyKnown(Head(todo), call) /\ Advance /\ UNCHANGED contextVars
    BY <1>7 DEF SkipKnown
  <2>2. Ctx!TypeOK'
    BY <1>1, <2>1 DEF contextVars, Ctx!TypeOK
  <2>3. current_turn' # None /\ current_turn'.id = call.turn
    BY <2>1, CallTyped DEF contextVars
  <2>4. Moves
    BY <2>1, <2>3 DEF Moves, contextVars, records
  <2> QED
    BY <1>6, <2>1, <2>2, <2>4
<1>8. CASE Project
  <2>1. ~Idle /\ ~AlreadyKnown(Head(todo), call) /\ AppendEvent(Head(todo), call) /\ Advance
    BY <1>8 DEF Project
  <2>2. /\ Ctx!TypeOK' /\ RecordsAfter(Head(todo))
        /\ current_turn' # None /\ current_turn'.id = call.turn
    BY <2>1, AppendTyped
  <2>3. Moves
    BY <2>1, <2>2 DEF Moves
  <2> QED
    BY <1>6, <2>1, <2>2, <2>3
<1>9. CASE Refused
  BY <1>1, <1>9, AbandonTyped DEF Refused
<1>10. faults < MaxFaults => faults + 1 \in 0..MaxFaults
  BY <1>1, DocumentsAreLinked
<1>11. CASE AppendFault
  BY <1>10, <1>11, AbandonTyped DEF AppendFault
<1>12. CASE AppendAndDiagnosisFault
  BY <1>10, <1>12, AbandonTyped DEF AppendAndDiagnosisFault
<1>13. CASE UNCHANGED vars
  <2>1. Ctx!TypeOK'
    BY <1>1, <1>13 DEF vars, contextVars, Ctx!TypeOK
  <2>2. TypeOK'
    BY <1>1, <1>13, <2>1 DEF vars, toolVars, TypeOK
  <2> QED
    BY <1>13, <2>2 DEF vars, contextVars, toolVars, Quiet, records
<1> QED
  BY <1>2, <1>3, <1>4, <1>5, <1>7, <1>8, <1>9, <1>11, <1>12, <1>13 DEF Next

-----------------------------------------------------------------------------
(* The strengthenings are kept *)

\* A step of a projection registers, and drops nothing.
LEMMA MovesGrow ==
    ASSUME TypeOK, CallInv, PlaceInv, Moves
    PROVE  /\ \A c \in Context : baselines[c] # None => baselines'[c] # None
           /\ \A r \in Result : results[r] # None => results'[r] # None
           /\ \A e \in Evidence : evidence[e] # None => evidence'[e] # None
           /\ Head(todo) = "baseline" => baselines'[call.context] # None
           /\ Head(todo) = "result" => results'[call.result] # None
           /\ Head(todo) = "evidence" => evidence'[EvidenceFor(call)] # None
<1>1. /\ baselines \in [Context -> Revision \cup {None}]
      /\ results \in [Result -> Ctx!ResultRecord \cup {None}]
      /\ evidence \in [Evidence -> Ctx!EvidenceRecord \cup {None}]
  BY DEF TypeOK, Ctx!TypeOK
<1>2. /\ call.context \in Context /\ call.turn \in Turn /\ RevisionOf[call.context] \in Revision
      /\ Head(todo) = "result" => call.result \in Result
      /\ Head(todo) = "evidence" => EvidenceFor(call) \in Evidence
  BY CallTyped, StageFacts, RefsTyped DEF Moves
<1>3. CASE AlreadyKnown(Head(todo), call) /\ UNCHANGED records
  BY <1>3 DEF AlreadyKnown, records
<1>4. CASE RecordsAfter(Head(todo))
  <2> DEFINE result == [turn |-> call.turn, revision |-> RevisionOf[call.context]]
             proof == [refs |-> EvidenceRefs(call), simulator |-> TRUE]
  <2>1. result # None
    BY <1>2, NoneApart DEF Ctx!ResultRecord
  <2>2. proof # None
    <3>1. EvidenceRefs(call) \subseteq Ctx!Ref
      BY RefsTyped DEF Moves
    <3>2. proof \in Ctx!EvidenceRecord
      BY <3>1 DEF Ctx!EvidenceRecord
    <3> QED
      BY <3>2, NoneApart
  <2>3. RevisionOf[call.context] # None
    BY <1>2, NoneApart
  <2>4. /\ baselines' = IF Head(todo) = "baseline"
                        THEN [baselines EXCEPT ![call.context] = RevisionOf[call.context]]
                        ELSE baselines
        /\ results' = IF Head(todo) = "result"
                      THEN [results EXCEPT ![call.result] = result] ELSE results
        /\ evidence' = IF Head(todo) = "evidence"
                       THEN [evidence EXCEPT ![EvidenceFor(call)] = proof] ELSE evidence
    BY <1>4 DEF RecordsAfter
  <2> HIDE DEF result, proof
  <2> QED
    BY <1>1, <1>2, <2>1, <2>2, <2>3, <2>4
<1> QED
  BY <1>3, <1>4 DEF Moves

\* One stage more is done.
LEMMA MovesOn ==
    ASSUME TypeOK, CallInv, PlaceInv, Moves, Len(todo) # 1
    PROVE  /\ call' = call /\ ~Idle'
           /\ todo' = Tail(todo) /\ Len(todo') = Len(todo) - 1 /\ Len(todo) > 1
           /\ Passed' = Passed + 1
           /\ \A s : Done(s)' => Done(s) \/ s = Head(todo)
<1>1. /\ todo \in Seq(StageNames) /\ Len(todo) \in 1..Len(Stages[call.kind])
      /\ Len(Stages[call.kind]) \in Nat
      /\ \A i \in 1..Len(todo) : todo[i] = Stages[call.kind][Passed + i]
  BY CallTyped, StagesTyped DEF TypeOK, PlaceInv, Moves
<1>2. /\ call' = call /\ todo' = Tail(todo)
  BY DEF Moves, Advance
<1>3. ~Idle'
  BY <1>2 DEF Idle, Moves
<1>4. Len(todo') = Len(todo) - 1 /\ Len(todo) > 1
  <2>1. Len(todo) > 1 /\ todo # <<>>
    <3> DEFINE l == Len(todo)
               n == Len(Stages[call.kind])
    <3>1. l \in 1..n /\ n \in Nat /\ l # 1
      BY <1>1
    <3> HIDE DEF l, n
    <3>2. l > 1
      BY <3>1
    <3>3. Len(todo) > 1
      BY <3>2 DEF l
    <3> QED
      BY <1>1, <3>3
  <2>2. Len(Tail(todo)) = Len(todo) - 1
    BY <1>1, <2>1
  <2> QED
    BY <1>2, <2>1, <2>2
<1>5. Passed' = Len(Stages[call.kind]) - Len(todo')
  BY <1>2 DEF Passed
<1>6. Passed = Len(Stages[call.kind]) - Len(todo)
  BY DEF Passed
<1>7. Len(todo) \in Nat /\ Len(todo') \in Nat
  BY <1>1, <1>4
<1>8. Passed \in Nat /\ Passed' = Passed + 1
  <2> DEFINE l == Len(todo)
             m == Len(todo')
             n == Len(Stages[call.kind])
             p == Passed
             q == Passed'
  <2>1. l \in Nat /\ m = l - 1 /\ n \in Nat /\ l \in 1..n /\ q = n - m /\ p = n - l
    BY <1>1, <1>4, <1>5, <1>6, <1>7
  <2> HIDE DEF l, m, n, p, q
  <2>2. p \in Nat /\ q = p + 1
    BY <2>1
  <2> QED
    BY <2>2 DEF p, q
<1>9. Head(todo) = Stages[call.kind][Passed + 1]
  BY <1>1
<1>10. ASSUME NEW s, Done(s)'
       PROVE  Done(s) \/ s = Head(todo)
  <2>1. PICK i \in 1..Passed' : Stages[call.kind][i] = s
    BY <1>2, <1>10 DEF Done
  <2>2. i \in 1..Passed \/ i = Passed + 1
    <3> DEFINE p == Passed
    <3>1. p \in Nat /\ i \in 1..(p + 1)
      BY <1>8, <2>1
    <3> HIDE DEF p
    <3>2. i \in 1..p \/ i = p + 1
      BY <3>1
    <3> QED
      BY <3>2 DEF p
  <2> QED
    BY <1>9, <2>1, <2>2 DEF Done
<1> QED
  BY <1>2, <1>3, <1>4, <1>8, <1>10

\* Calls: what was made, and what is being projected.
LEMMA CallStep ==
    ASSUME TypeOK, TypeOK', CallInv, PlaceInv,
           Quiet \/ (\E x \in ToolCall : Calls(x)) \/ Moves \/ GivesUp
    PROVE  CallInv'
<1>1. /\ made \in [Call -> ToolCall \cup {None}]
      /\ observations \in [Call -> Ctx!ObservationRecord \cup {None}]
  BY DEF TypeOK, Ctx!TypeOK
<1>2. CASE Quiet
  BY <1>2 DEF Quiet, CallInv, Idle, WellFormed, Produced, records
<1>3. ASSUME NEW x \in ToolCall, Calls(x)
      PROVE  CallInv'
  <2>1. x.turn \in Turn /\ x.id \in Call
    BY DEF ToolCall
  <2>2. /\ x.id \in Call /\ made[x.id] = None /\ WellFormed(x)
    BY <1>3, <2>1, PossibleIs DEF Calls
  <2>3. /\ made' = [made EXCEPT ![x.id] = x] /\ call' = x
        /\ UNCHANGED <<observations, current_turn>>
        /\ current_turn # None /\ current_turn.id = x.turn
    BY <1>3 DEF Calls, records
  <2>4. \A o \in Call : made'[o] = IF o = x.id THEN x ELSE made[o]
    BY <1>1, <2>2, <2>3
  <2>5. \A o \in Call : made'[o] # None => made'[o].id = o /\ WellFormed(made'[o])
    BY <2>2, <2>4 DEF CallInv
  <2>6. \A o \in Call : observations'[o] # None =>
            made'[o] # None /\ observations'[o].produced = Produced(made'[o])
    BY <2>2, <2>3, <2>4 DEF CallInv
  <2> QED
    BY <2>2, <2>3, <2>4, <2>5, <2>6 DEF CallInv
<1>4. CASE Moves
  <2>1. /\ call.id \in Call /\ call.turn \in Turn /\ made[call.id] = call /\ call # None
        /\ RevisionOf[call.context] \in Revision
    BY <1>4, CallTyped DEF Moves, Idle
  <2>2. made' = made /\ call' \in {call, None} /\ current_turn' # None /\ current_turn'.id = call.turn
    BY <1>4 DEF Moves, Advance
  <2>3. ASSUME NEW o \in Call, observations'[o] # None
        PROVE  made[o] # None /\ observations'[o].produced = Produced(made[o])
    <3>1. CASE UNCHANGED records
      BY <2>3, <3>1 DEF records, CallInv
    <3>2. CASE RecordsAfter(Head(todo))
      <4> DEFINE record == [turn |-> call.turn, ranking |-> call.kind = "rank",
                            consumed |-> Consumed(call), produced |-> Produced(call)]
      <4>1. observations' = IF Head(todo) = "observation"
                            THEN [observations EXCEPT ![call.id] = record] ELSE observations
        BY <3>2 DEF RecordsAfter
      <4>2. record.produced = Produced(call)
        OBVIOUS
      <4> HIDE DEF record
      <4>3. observations'[o] = observations[o] \/ (o = call.id /\ observations'[o] = record)
        BY <1>1, <2>1, <4>1
      <4> QED
        BY <2>1, <2>3, <4>2, <4>3 DEF CallInv
    <3> QED
      BY <1>4, <3>1, <3>2 DEF Moves
  <2>4. \A o \in Call : made[o] # None => made[o].id = o /\ WellFormed(made[o])
    BY DEF CallInv
  <2> QED
    BY <2>1, <2>2, <2>3, <2>4 DEF CallInv, Idle
<1>5. CASE GivesUp
  BY <1>5 DEF GivesUp, Abandon, CallInv, Idle, records
<1> QED
  BY <1>2, <1>3, <1>4, <1>5

\* Places: what is left is a suffix of the stages.
LEMMA PlaceStep ==
    ASSUME TypeOK, CallInv, PlaceInv,
           Quiet \/ (\E x \in ToolCall : Calls(x)) \/ Moves \/ GivesUp
    PROVE  PlaceInv'
<1>1. CASE Quiet
  BY <1>1 DEF Quiet, PlaceInv, Idle, Passed
<1>2. ASSUME NEW x \in ToolCall, Calls(x)
      PROVE  PlaceInv'
  <2>1. x.kind \in {"open", "derive", "get", "analyse", "describe", "rank", "failed", "diverged"}
    BY DEF ToolCall
  <2>2. call' = x /\ todo' = Stages[x.kind]
    BY <1>2 DEF Calls
  <2>3. /\ Stages[x.kind] \in Seq(StageNames)
        /\ Len(Stages[x.kind]) \in Nat /\ Len(Stages[x.kind]) > 0
    BY <2>1, StagesTyped
  <2>4. Passed' = 0
    BY <2>2, <2>3 DEF Passed
  <2>5. \A i \in 1..Len(todo') : todo'[i] = Stages[call'.kind][Passed' + i]
    BY <2>2, <2>3, <2>4
  <2> QED
    BY <2>2, <2>3, <2>5 DEF PlaceInv
<1>3. CASE Moves
  <2>1. CASE Len(todo) = 1
    BY <1>3, <2>1 DEF Moves, Advance, PlaceInv, Idle
  <2>2. CASE Len(todo) # 1
    <3>1. /\ call' = call /\ todo' = Tail(todo) /\ Len(todo') = Len(todo) - 1 /\ Len(todo) > 1
          /\ Passed' = Passed + 1
      BY <1>3, <2>2, MovesOn
    <3>2. /\ todo \in Seq(StageNames) /\ Len(todo) \in 1..Len(Stages[call.kind])
          /\ Len(Stages[call.kind]) \in Nat
          /\ \A i \in 1..Len(todo) : todo[i] = Stages[call.kind][Passed + i]
      BY <1>3, CallTyped, StagesTyped DEF TypeOK, PlaceInv, Moves
    <3>3. Passed \in Int
      BY <3>2 DEF Passed
    <3>4. ASSUME NEW i \in 1..Len(todo')
          PROVE  todo'[i] = Stages[call'.kind][Passed' + i]
      <4>1. i \in Nat /\ i + 1 \in 1..Len(todo) /\ todo'[i] = todo[i + 1]
        BY <3>1, <3>2, <3>4
      <4>2. Passed + (i + 1) = Passed' + i
        BY <3>1, <3>3, <4>1
      <4>3. todo[i + 1] = Stages[call.kind][Passed + (i + 1)]
        BY <3>2, <4>1
      <4> QED
        BY <3>1, <4>1, <4>2, <4>3
    <3>5. Len(todo') \in 1..Len(Stages[call'.kind])
      BY <3>1, <3>2
    <3> QED
      BY <3>4, <3>5 DEF PlaceInv
  <2> QED
    BY <2>1, <2>2
<1>4. CASE GivesUp
  BY <1>4 DEF GivesUp, Abandon, PlaceInv, Idle
<1> QED
  BY <1>1, <1>2, <1>3, <1>4

\* Progress: what the stages that are done have left registered.
LEMMA ProgressStep ==
    ASSUME TypeOK, CallInv, PlaceInv, ProgressInv,
           Quiet \/ (\E x \in ToolCall : Calls(x)) \/ Moves \/ GivesUp
    PROVE  ProgressInv'
<1>1. CASE Quiet
  BY <1>1 DEF Quiet, ProgressInv, Done, Passed, Idle, records, EvidenceFor
<1>2. ASSUME NEW x \in ToolCall, Calls(x)
      PROVE  ProgressInv'
  <2>1. Passed' = 0
    <3>1. x.kind \in {"open", "derive", "get", "analyse", "describe", "rank", "failed", "diverged"}
      BY DEF ToolCall
    <3> QED
      BY <1>2, <3>1, StagesTyped DEF Calls, Passed
  <2>2. \A s : ~Done(s)'
    BY <2>1 DEF Done
  <2> QED
    BY <2>2 DEF ProgressInv
<1>3. CASE Moves
  <2>1. CASE Len(todo) = 1
    BY <1>3, <2>1 DEF Moves, Advance, ProgressInv, Idle
  <2>2. CASE Len(todo) # 1
    <3>1. call' = call /\ \A s : Done(s)' => Done(s) \/ s = Head(todo)
      BY <1>3, <2>2, MovesOn
    <3>2. /\ call.context \in Context
          /\ call.kind \in {"analyse", "rank"} => call.result \in Result
          /\ call.kind \in {"analyse", "describe"} => EvidenceFor(call) \in Evidence
          /\ Head(todo) = "result" => call.kind = "analyse"
          /\ Head(todo) = "evidence" => call.kind \in {"analyse", "describe"}
      BY <1>3, CallTyped, RefsTyped, StageFacts DEF Moves
    <3>3. Done("result") => call.kind = "analyse"
      BY <1>3, DoneFits DEF Moves
    <3>4. Done("evidence") => call.kind \in {"analyse", "describe"}
      BY <1>3, DoneFits DEF Moves
    <3>5. EvidenceFor(call)' = EvidenceFor(call)
      BY <3>1 DEF EvidenceFor
    <3>6. /\ Done("baseline")' => baselines'[call.context] # None
          /\ Done("result")' => results'[call.result] # None
          /\ Done("evidence")' => evidence'[EvidenceFor(call)] # None
      BY <1>3, <3>1, <3>2, <3>3, <3>4, MovesGrow DEF ProgressInv, Moves
    <3> QED
      BY <3>1, <3>5, <3>6 DEF ProgressInv
  <2> QED
    BY <2>1, <2>2
<1>4. CASE GivesUp
  BY <1>4 DEF GivesUp, Abandon, ProgressInv, Idle
<1> QED
  BY <1>1, <1>2, <1>3, <1>4

\* Endings: a projection that ran to its end registered what was produced.
LEMMA EndedStep ==
    ASSUME TypeOK, CallInv, PlaceInv, ProgressInv, EndedInv,
           Quiet \/ (\E x \in ToolCall : Calls(x)) \/ Moves \/ GivesUp
    PROVE  EndedInv'
<1> DEFINE Has(o) ==
             /\ made[o].kind \in {"open", "derive", "get", "analyse", "describe"} =>
                   baselines[made[o].context] # None
             /\ made[o].kind = "analyse" => results[made[o].result] # None
             /\ made[o].kind \in {"analyse", "describe"} => evidence[EvidenceFor(made[o])] # None
<1>1. \A o \in Call : Over(o) => Has(o)
  BY DEF EndedInv
<1>2. made \in [Call -> ToolCall \cup {None}] /\ failure \in [Call -> Failure \cup {None}]
  BY DEF TypeOK
<1>3. ASSUME UNCHANGED <<baselines, results, evidence>>,
             NEW o \in Call, made'[o] = made[o], Has(o)
      PROVE  Has(o)'
  BY <1>3 DEF EvidenceFor
<1>4. CASE Quiet
  <2>1. \A o \in Call : Over(o)' => Over(o) /\ made'[o] = made[o]
    BY <1>4 DEF Quiet, Over, Idle
  <2>2. \A o \in Call : Over(o)' => Has(o)'
    BY <1>1, <1>3, <1>4, <2>1 DEF Quiet, records
  <2> QED
    BY <2>2 DEF EndedInv
<1>5. ASSUME NEW x \in ToolCall, Calls(x)
      PROVE  EndedInv'
  <2>1. /\ Idle /\ call' = x /\ made' = [made EXCEPT ![x.id] = x]
        /\ UNCHANGED <<records, failure>>
    BY <1>5 DEF Calls
  <2>2. ~Idle'
    BY <2>1, NoneApart DEF Idle
  <2>3. \A o \in Call : Over(o)' => Over(o) /\ made'[o] = made[o]
    BY <1>2, <2>1, <2>2 DEF Over
  <2>4. \A o \in Call : Over(o)' => Has(o)'
    BY <1>1, <1>3, <2>1, <2>3 DEF records
  <2> QED
    BY <2>4 DEF EndedInv
<1>6. CASE Moves
  <2>1. /\ ~Idle /\ call' = (IF Len(todo) = 1 THEN None ELSE call)
        /\ UNCHANGED <<stored, made, failure>>
    BY <1>6 DEF Moves, Advance
  <2>2. ASSUME NEW o \in Call, Has(o), made[o] # None
        PROVE  Has(o)'
    <3>1. made[o] \in ToolCall /\ WellFormed(made[o])
      BY <1>2, <2>2 DEF CallInv
    <3>2. /\ made[o].context \in Context
          /\ made[o].kind = "analyse" => made[o].result \in Result
      BY <3>1 DEF ToolCall, WellFormed
    <3>3. made[o].kind \in {"analyse", "describe"} => EvidenceFor(made[o]) \in Evidence
      BY <3>2, DocumentsAreLinked DEF EvidenceFor
    <3>4. EvidenceFor(made[o])' = EvidenceFor(made[o])
      BY <2>1 DEF EvidenceFor
    <3> QED
      BY <1>6, <2>1, <2>2, <3>2, <3>3, <3>4, MovesGrow
  <2>3. CASE Len(todo) = 1
    <3>1. /\ call.id \in Call /\ made[call.id] = call
          /\ call.kind \in {"open", "derive", "get", "analyse", "describe"} => Done("baseline")
          /\ call.kind = "analyse" => Done("result")
          /\ call.kind \in {"analyse", "describe"} => Done("evidence")
      BY <2>1, <2>3, CallTyped, StageFacts
    <3>2. Has(call.id)
      BY <2>1, <3>1 DEF ProgressInv
    <3>3. \A o \in Call : Over(o)' => made[o] # None /\ Has(o)
      BY <1>1, <2>1, <3>2 DEF Over
    <3>4. \A o \in Call : Over(o)' => Has(o)'
      BY <2>2, <3>3
    <3> QED
      BY <3>4 DEF EndedInv
  <2>4. CASE Len(todo) # 1
    <3>1. \A o \in Call : Over(o)' => made[o] # None /\ Has(o)
      BY <1>1, <2>1, <2>4 DEF Over, Idle
    <3>2. \A o \in Call : Over(o)' => Has(o)'
      BY <2>2, <3>1
    <3> QED
      BY <3>2 DEF EndedInv
  <2> QED
    BY <2>3, <2>4
<1>7. CASE GivesUp
  <2>1. PICK stage \in StageNames, fault \in BOOLEAN : Abandon(stage, fault)
    BY <1>7 DEF GivesUp
  <2> DEFINE record == [stage |-> stage, fault |-> fault]
  <2>2. record # None
    BY NoneApart DEF Failure, StageNames
  <2>3. /\ failure' = [failure EXCEPT ![call.id] = record]
        /\ UNCHANGED made
    BY <2>1 DEF Abandon
  <2> HIDE DEF record
  <2>4. ~Idle /\ call.id \in Call /\ UNCHANGED records
    BY <1>7, CallTyped DEF GivesUp
  <2>5. \A o \in Call : Over(o)' => Over(o) /\ made'[o] = made[o]
    BY <1>2, <2>2, <2>3, <2>4 DEF Over
  <2>6. \A o \in Call : Over(o)' => Has(o)'
    BY <1>1, <1>3, <2>4, <2>5 DEF records
  <2> QED
    BY <2>6 DEF EndedInv
<1> QED
  BY <1>4, <1>5, <1>6, <1>7

\* What is registered, by kind.
LEMMA RegisteredIs ==
    ASSUME TypeOK
    PROVE  /\ Ctx!Registered(baselines) = {c \in Context : baselines[c] # None}
           /\ Ctx!Registered(results) = {r \in Result : results[r] # None}
           /\ Ctx!Registered(evidence) = {e \in Evidence : evidence[e] # None}
           /\ Ctx!Registered(calculations) = {r \in Result : calculations[r] # None}
           /\ Ctx!Registered(observations) = {o \in Call : observations[o] # None}
<1>1. /\ baselines \in [Context -> Revision \cup {None}]
      /\ results \in [Result -> Ctx!ResultRecord \cup {None}]
      /\ evidence \in [Evidence -> Ctx!EvidenceRecord \cup {None}]
      /\ calculations \in [Result -> Ctx!DomainRecord \cup {None}]
      /\ observations \in [Call -> Ctx!ObservationRecord \cup {None}]
  BY DEF TypeOK, Ctx!TypeOK
<1> QED
  BY <1>1 DEF Ctx!Registered

\* Ground: what is registered is what the documents say.
LEMMA GroundStep ==
    ASSUME TypeOK, TypeOK', CallInv, PlaceInv, ProgressInv, GroundInv,
           Quiet \/ (\E x \in ToolCall : Calls(x)) \/ Moves \/ GivesUp
    PROVE  GroundInv'
<1>1. ASSUME UNCHANGED records
      PROVE  GroundInv'
  BY <1>1 DEF records, GroundInv, ResultsGrounded, CalculationsGrounded, Ctx!Registered
<1>2. CASE Moves
  <2>1. /\ ~Idle
        /\ call.context \in Context /\ RevisionOf[call.context] \in Revision
        /\ call.turn \in Turn
        /\ call.kind \in {"analyse", "rank"} => call.result \in Result
                                                /\ ContextOf[call.result] = call.context
    BY <1>2, CallTyped DEF Moves
  <2>2. /\ baselines \in [Context -> Revision \cup {None}]
        /\ active_context \in Context \cup {None}
        /\ results \in [Result -> Ctx!ResultRecord \cup {None}]
        /\ calculations \in [Result -> Ctx!DomainRecord \cup {None}]
    BY DEF TypeOK, Ctx!TypeOK
  <2>3. CASE UNCHANGED records
    BY <1>1, <2>3
  <2>4. CASE RecordsAfter(Head(todo))
    <3> DEFINE result == [turn |-> call.turn, revision |-> RevisionOf[call.context]]
               calculation == [context |-> call.context, revision |-> RevisionOf[call.context],
                               turn |-> call.turn]
    <3>1. /\ baselines' = IF Head(todo) = "baseline"
                          THEN [baselines EXCEPT ![call.context] = RevisionOf[call.context]]
                          ELSE baselines
          /\ active_context' = IF Head(todo) = "baseline" THEN call.context ELSE active_context
          /\ results' = IF Head(todo) = "result"
                        THEN [results EXCEPT ![call.result] = result] ELSE results
          /\ calculations' = IF Head(todo) = "domain" /\ call.kind = "analyse"
                             THEN [calculations EXCEPT ![call.result] = calculation]
                             ELSE calculations
      BY <2>4 DEF RecordsAfter
    <3>2. result.revision = RevisionOf[call.context] /\ calculation.context = call.context
      OBVIOUS
    <3> HIDE DEF result, calculation
    <3>3. \A c \in Context : baselines'[c] \in {baselines[c], RevisionOf[c]}
      BY <2>1, <2>2, <3>1
    <3>4. RevisionOf[call.context] # None
      BY <2>1, NoneApart
    <3>5. \A c \in Context : /\ baselines'[c] \in {None, RevisionOf[c]}
                             /\ baselines[c] # None => baselines'[c] # None
      BY <1>2, <3>3, MovesGrow DEF GroundInv
    <3>6. active_context' # None => baselines'[active_context'] # None
      BY <2>1, <2>2, <3>1, <3>4, <3>5 DEF GroundInv
    <3>7. ASSUME NEW r \in Result, results'[r] # None
          PROVE  /\ baselines'[ContextOf[r]] = RevisionOf[ContextOf[r]]
                 /\ results'[r].revision = RevisionOf[ContextOf[r]]
      <4>1. ContextOf[r] \in Context
        BY DocumentsAreLinked
      <4>2. CASE results'[r] = results[r]
        <5>1. r \in Ctx!Registered(results)
          BY <3>7, <4>2, RegisteredIs
        <5>2. /\ baselines[ContextOf[r]] = RevisionOf[ContextOf[r]]
              /\ results[r].revision = RevisionOf[ContextOf[r]]
          BY <5>1 DEF GroundInv, ResultsGrounded
        <5> QED
          BY <3>3, <4>1, <4>2, <5>2
      <4>3. CASE results'[r] # results[r]
        <5>1. Head(todo) = "result" /\ r = call.result /\ results'[r] = result
          BY <2>2, <3>1, <4>3
        <5>2. call.kind = "analyse" /\ Done("baseline")
          BY <2>1, <5>1, StageFacts
        <5>3. ContextOf[r] = call.context /\ baselines[call.context] # None
          BY <2>1, <5>1, <5>2 DEF ProgressInv
        <5> QED
          BY <3>2, <3>5, <4>1, <5>1, <5>3
      <4> QED
        BY <4>2, <4>3
    <3>8. ASSUME NEW r \in Result, calculations'[r] # None
          PROVE  /\ results'[r] # None
                 /\ calculations'[r].context = ContextOf[r]
                 /\ evidence'[EvidenceOf[r]] # None
      <4>1. EvidenceOf[r] \in Evidence
        BY DocumentsAreLinked
      <4>2. CASE calculations'[r] = calculations[r]
        <5>1. r \in Ctx!Registered(calculations)
          BY <3>8, <4>2, RegisteredIs
        <5>2. /\ r \in Ctx!Registered(results)
              /\ calculations[r].context = ContextOf[r]
              /\ evidence[EvidenceOf[r]] # None
          BY <5>1 DEF GroundInv, CalculationsGrounded
        <5>3. results[r] # None
          BY <5>2, RegisteredIs
        <5> QED
          BY <1>2, <4>1, <4>2, <5>2, <5>3, MovesGrow
      <4>3. CASE calculations'[r] # calculations[r]
        <5>1. /\ Head(todo) = "domain" /\ call.kind = "analyse"
              /\ r = call.result /\ calculations'[r] = calculation
          BY <2>1, <2>2, <3>1, <4>3
        <5>2. Done("result") /\ Done("evidence")
          BY <2>1, <5>1, StageFacts
        <5>3. EvidenceFor(call) = EvidenceOf[r]
          BY <5>1 DEF EvidenceFor
        <5>4. results[r] # None /\ evidence[EvidenceOf[r]] # None
          BY <2>1, <5>1, <5>2, <5>3 DEF ProgressInv
        <5> QED
          BY <1>2, <2>1, <3>2, <4>1, <5>1, <5>4, MovesGrow
      <4> QED
        BY <4>2, <4>3
    <3>9. /\ Ctx!Registered(results)' = {r \in Result : results'[r] # None}
          /\ Ctx!Registered(calculations)' = {r \in Result : calculations'[r] # None}
      <4>1. /\ results' \in [Result -> Ctx!ResultRecord \cup {None}]
            /\ calculations' \in [Result -> Ctx!DomainRecord \cup {None}]
        BY DEF TypeOK, Ctx!TypeOK
      <4> QED
        BY <4>1 DEF Ctx!Registered
    <3>10. ResultsGrounded'
      BY <3>7, <3>9 DEF ResultsGrounded
    <3>11. CalculationsGrounded'
      BY <3>8, <3>9 DEF CalculationsGrounded
    <3> QED
      BY <3>5, <3>6, <3>10, <3>11 DEF GroundInv
  <2> QED
    BY <1>2, <2>3, <2>4 DEF Moves
<1> QED
  BY <1>1, <1>2 DEF Quiet, Calls, GivesUp

\* Stored: where the documents of the simulator come from.
LEMMA StoredStep ==
    ASSUME TypeOK, CallInv, PlaceInv, StoredInv,
           Quiet \/ (\E x \in ToolCall : Calls(x)) \/ Moves \/ GivesUp
    PROVE  StoredInv'
<1>1. made \in [Call -> ToolCall \cup {None}]
  BY DEF TypeOK
<1>2. ASSUME UNCHANGED <<stored, made>>, Idle' \/ UNCHANGED call
      PROVE  StoredInv'
  BY <1>2 DEF StoredInv, Opened, Idle
<1>3. ASSUME NEW x \in ToolCall, Calls(x)
      PROVE  StoredInv'
  <2>1. x.turn \in Turn
    BY DEF ToolCall
  <2>2. /\ x.id \in Call /\ made[x.id] = None /\ x.context \in Context
        /\ x.result \in Result \cup {None} /\ Consumed(x) \subseteq stored /\ WellFormed(x)
        /\ x.kind \in {"open", "derive", "get", "analyse", "describe", "rank", "failed", "diverged"}
    BY <1>3, <2>1, PossibleIs DEF Calls
  <2>3. /\ stored' = IF x.kind \in {"failed", "diverged"} THEN stored ELSE stored \cup Written(x)
        /\ made' = [made EXCEPT ![x.id] = x] /\ call' = x
    BY <1>3 DEF Calls
  <2>4. \A c \in Context : Opened(c) => Opened(c)'
    BY <1>1, <2>2, <2>3 DEF Opened
  <2>5. x.kind \in {"open", "derive"} => Opened(x.context)'
    BY <1>1, <2>2, <2>3, NoneApart DEF Opened
  <2>6. x.kind \in {"get", "analyse", "describe"} => x.context \in stored
    BY <2>2 DEF Consumed
  <2>7. x.kind = "rank" => x.result \in stored \cap Result /\ x.context \in stored
    <3> HAVE x.kind = "rank"
    <3>1. x.result \in Result /\ ContextOf[x.result] = x.context
      BY <2>2 DEF WellFormed
    <3>2. x.result \in stored
      BY <2>2 DEF Consumed
    <3> QED
      BY <3>1, <3>2 DEF StoredInv
  <2>8. ASSUME NEW c \in stored' \cap Context
        PROVE  Opened(c)'
    <3>1. CASE c \in stored
      BY <2>4, <3>1 DEF StoredInv
    <3>2. CASE c \notin stored
      <4>1. c = x.context /\ x.kind \notin {"failed", "diverged"}
        BY <2>2, <2>3, <2>8, <3>2, DocumentsAreLinked DEF Written
      <4>2. x.kind \in {"open", "derive"}
        BY <2>2, <2>6, <2>7, <3>2, <4>1
      <4> QED
        BY <2>5, <4>1, <4>2
    <3> QED
      BY <3>1, <3>2
  <2>9. ASSUME NEW r \in stored' \cap Result
        PROVE  ContextOf[r] \in stored'
    <3>1. CASE r \in stored
      BY <2>3, <3>1 DEF StoredInv
    <3>2. CASE r \notin stored
      <4>1. r = x.result /\ x.kind \notin {"failed", "diverged"}
        BY <2>2, <2>3, <2>9, <3>2, DocumentsAreLinked DEF Written
      <4>2. ContextOf[r] = x.context /\ x.context \in stored'
        BY <2>2, <2>3, <2>9, <4>1, NoneApart DEF WellFormed, Written
      <4> QED
        BY <4>2
    <3> QED
      BY <3>1, <3>2
  <2> QED
    BY <2>3, <2>6, <2>8, <2>9 DEF StoredInv
<1>4. CASE Quiet
  BY <1>2, <1>4 DEF Quiet
<1>5. CASE Moves
  <2>1. /\ call' = (IF Len(todo) = 1 THEN None ELSE call) /\ UNCHANGED <<stored, made>>
    BY <1>5 DEF Moves, Advance
  <2> QED
    BY <1>2, <2>1 DEF Idle
<1>6. CASE GivesUp
  BY <1>2, <1>6 DEF GivesUp, Abandon, Idle
<1> QED
  BY <1>3, <1>4, <1>5, <1>6

-----------------------------------------------------------------------------
(* The theorems *)

Inv == TypeOK /\ CallInv /\ PlaceInv /\ ProgressInv /\ EndedInv /\ GroundInv /\ StoredInv

LEMMA InvInit == Init => Inv
<1> SUFFICES ASSUME Init PROVE Inv
  OBVIOUS
<1> USE DEF Ctx!Absent, Ctx!Registered
<1>1. /\ Ctx!Init /\ stored = {} /\ made = [o \in Call |-> None] /\ call = None /\ todo = <<>>
      /\ failure = [o \in Call |-> None] /\ submitted = {} /\ faults = 0
  BY DEF Init
<1>2. TypeOK
  <2>1. Cardinality(Call) \in Nat
    BY DocumentsAreLinked, FS_CardinalityType
  <2>2. Ctx!TypeOK
    BY <1>1, <2>1 DEF Ctx!Init, Ctx!TypeOK
  <2> QED
    BY <1>1, <2>2, DocumentsAreLinked DEF TypeOK
<1>3. Idle
  BY <1>1 DEF Idle
<1>4. \A o \in Call : made[o] = None /\ observations[o] = None
  BY <1>1 DEF Ctx!Init
<1>5. CallInv /\ PlaceInv /\ ProgressInv
  BY <1>3, <1>4 DEF CallInv, PlaceInv, ProgressInv
<1>6. EndedInv
  BY <1>4 DEF EndedInv, Over
<1>7. GroundInv
  BY <1>1 DEF Ctx!Init, GroundInv, ResultsGrounded, CalculationsGrounded
<1>8. StoredInv
  BY <1>1, <1>3 DEF StoredInv
<1> QED
  BY <1>2, <1>5, <1>6, <1>7, <1>8 DEF Inv

LEMMA InvStep == Inv /\ [Next]_vars => Inv'
<1> SUFFICES ASSUME Inv, [Next]_vars PROVE Inv'
  OBVIOUS
<1>1. TypeOK /\ CallInv /\ PlaceInv /\ ProgressInv /\ EndedInv /\ GroundInv /\ StoredInv
  BY DEF Inv
<1>2. /\ TypeOK'
      /\ Quiet \/ (\E x \in ToolCall : Calls(x)) \/ Moves \/ GivesUp
  BY <1>1, StepShape
<1>3. CallInv'
  BY <1>1, <1>2, CallStep
<1>4. PlaceInv' /\ ProgressInv'
  BY <1>1, <1>2, PlaceStep, ProgressStep
<1>5. EndedInv' /\ GroundInv' /\ StoredInv'
  BY <1>1, <1>2, EndedStep, GroundStep, StoredStep
<1> QED
  BY <1>2, <1>3, <1>4, <1>5 DEF Inv

LEMMA InvAlways == Spec => []Inv
  BY InvInit, InvStep, PTL DEF Spec

\* The snapshot, the documents and the call being projected keep their types,
\* whatever Pi calls and whichever appends are refused or fail.
THEOREM ProjectionTypeCorrect == Spec => []TypeOK
<1>1. Inv => TypeOK
  BY DEF Inv
<1> QED
  BY <1>1, InvAlways, PTL

\* For every set of documents: what the snapshot says of results and
\* calculations is what the simulator's documents say, and a projection that
\* ran to its end registered all that its call produced, the diagnosis of an
\* analysis that did not converge apart.
THEOREM ResultsStayGrounded == Spec => []Grounded
<1>1. ASSUME Inv PROVE Grounded
  <2>1. /\ TypeOK /\ CallInv /\ EndedInv /\ GroundInv
        /\ made \in [Call -> ToolCall \cup {None}]
    BY <1>1 DEF Inv, TypeOK
  <2> DEFINE known == {c \in Context : baselines[c] # None}
                         \cup {r \in Result : results[r] # None}
                         \cup {e \in Evidence : evidence[e] # None}
  <2>2. known \subseteq Ctx!KnownRefs
    BY <2>1, RegisteredIs DEF Ctx!KnownRefs
  <2>3. ASSUME NEW o \in Call, observations[o] # None, failure[o] = None, Idle \/ call.id # o,
               made[o].kind # "diverged"
        PROVE  observations[o].produced \subseteq Ctx!KnownRefs
    <3>1. /\ made[o] # None /\ observations[o].produced = Produced(made[o])
          /\ WellFormed(made[o])
      BY <2>1, <2>3 DEF CallInv
    <3>2. Over(o)
      BY <2>3, <3>1 DEF Over
    <3>3. made[o] \in ToolCall
      BY <2>1, <3>1
    <3>4. /\ made[o].context \in Context
          /\ made[o].kind \in {"open", "derive", "get", "analyse", "describe", "rank", "failed", "diverged"}
          /\ made[o].kind = "analyse" => made[o].result \in Result
      BY <3>1, <3>3 DEF ToolCall, WellFormed
    <3>5. /\ EvidenceOf[made[o].context] \in Evidence
          /\ made[o].kind = "analyse" => EvidenceOf[made[o].result] \in Evidence
      BY <3>4, DocumentsAreLinked
    <3>6. CASE made[o].kind \in {"open", "derive"}
      <4>1. Produced(made[o]) = {made[o].context}
        BY <3>6 DEF Produced
      <4> QED
        BY <2>1, <3>1, <3>2, <3>4, <3>6, <4>1, <2>2 DEF EndedInv
    <3>7. CASE made[o].kind = "analyse"
      <4>1. Produced(made[o]) = {made[o].result, EvidenceOf[made[o].result]}
        BY <3>7 DEF Produced
      <4>2. EvidenceFor(made[o]) = EvidenceOf[made[o].result]
        BY <3>7 DEF EvidenceFor
      <4> QED
        BY <2>1, <3>1, <3>2, <3>4, <3>5, <3>7, <4>1, <4>2, <2>2 DEF EndedInv
    <3>8. CASE made[o].kind = "describe"
      <4>1. Produced(made[o]) = {EvidenceOf[made[o].context]}
        BY <3>8 DEF Produced
      <4>2. EvidenceFor(made[o]) = EvidenceOf[made[o].context]
        BY <3>8 DEF EvidenceFor
      <4> QED
        BY <2>1, <3>1, <3>2, <3>5, <3>8, <4>1, <4>2, <2>2 DEF EndedInv
    <3>9. CASE made[o].kind \in {"get", "rank", "failed"}
      <4>1. Produced(made[o]) = {}
        BY <3>9 DEF Produced
      <4> QED
        BY <3>1, <4>1
    <3> QED
      BY <2>3, <3>4, <3>6, <3>7, <3>8, <3>9
  <2>4. ProducedKnown
    BY <2>1, <2>3, RegisteredIs DEF ProducedKnown
  <2> QED
    BY <2>1, <2>4 DEF Grounded, GroundInv
<1> QED
  BY <1>1, InvAlways, PTL

\* No result the simulator returned is silently absent from the context.
THEOREM AbsencesTraced == Spec => []AbsenceTraced
<1>1. ASSUME Inv PROVE AbsenceTraced
  <2>1. EndedInv /\ TypeOK
    BY <1>1 DEF Inv
  <2>2. ASSUME NEW r \in stored \cap Result, results[r] = None,
               NEW o \in Returned(r)
        PROVE  failure[o] # None \/ (~Idle /\ call.id = o)
    <3>1. o \in Call /\ made[o] # None /\ made[o].kind = "analyse" /\ made[o].result = r
      BY <2>2 DEF Returned
    <3>2. ~Over(o)
      BY <2>1, <2>2, <3>1 DEF EndedInv
    <3> QED
      BY <3>1, <3>2 DEF Over
  <2> QED
    BY <2>1, <2>2, RegisteredIs DEF AbsenceTraced
<1> QED
  BY <1>1, InvAlways, PTL

\* The active baseline moves only with an opened or derived model, or to make
\* up for a failed projection that should have registered it.
THEOREM BaselineMovesForReason == Spec => ActiveBaselineMoves
<1>1. ASSUME Inv, [Next]_vars, active_context' # active_context
      PROVE  \/ call.kind \in {"open", "derive"}
             \/ \E o \in Call : /\ failure[o] # None
                                /\ made[o].kind \in {"open", "derive"}
                                /\ made[o].context = active_context'
  <2>1. TypeOK /\ CallInv /\ PlaceInv /\ EndedInv /\ StoredInv
    BY <1>1 DEF Inv
  <2>2. Moves
    BY <1>1, <2>1, StepShape DEF Quiet, Calls, GivesUp, records
  <2>3. /\ Head(todo) = "baseline" /\ active_context' = call.context
        /\ ~AlreadyKnown(Head(todo), call)
    BY <1>1, <2>2 DEF Moves, RecordsAfter, records
  <2>4. ~Idle /\ baselines[call.context] = None
    BY <2>2, <2>3 DEF AlreadyKnown, Moves
  <2>5. /\ call.kind \in {"open", "derive", "get", "analyse", "describe"}
        /\ call.context \in Context /\ made[call.id] = call
    BY <2>1, <2>3, <2>4, CallTyped, StageFacts
  <2>6. CASE call.kind \in {"get", "analyse", "describe"}
    <3>1. Opened(call.context)
      BY <2>1, <2>4, <2>5, <2>6 DEF StoredInv
    <3>2. PICK o \in Call : /\ made[o] # None /\ made[o].kind \in {"open", "derive"}
                            /\ made[o].context = call.context
      BY <3>1 DEF Opened
    <3>3. o # call.id
      BY <2>5, <2>6, <3>2
    <3>4. ~Over(o)
      BY <2>1, <2>4, <3>2 DEF EndedInv
    <3>5. failure[o] # None
      BY <3>2, <3>3, <3>4 DEF Over
    <3> QED
      BY <2>3, <3>2, <3>5
  <2> QED
    BY <2>5, <2>6
<1>2. Inv /\ [Next]_vars =>
        [active_context' # active_context =>
            \/ call.kind \in {"open", "derive"}
            \/ \E o \in Call : /\ failure[o] # None
                               /\ made[o].kind \in {"open", "derive"}
                               /\ made[o].context = active_context']_vars
  BY <1>1
<1> QED
  BY <1>2, InvAlways, PTL DEF Spec, ActiveBaselineMoves

-----------------------------------------------------------------------------
(* What a turn consumed *)

\* The operations that register the baseline of the context they are about.
Registers(x) == x.kind \in {"open", "derive", "get", "analyse", "describe"}

\* The baseline of c is among the stages the projection has yet to come to.
Awaited(c) == ~Idle /\ call.context = c /\ Registers(call) /\ ~Done("baseline")

\* No analysis ends while its tools run; what a call consumed is stored; its
\* observation is recorded by its own stage only; and as long as no append
\* failed, every stored context has its baseline or is about to, and what the
\* active turn consumed is known or a stored context.
LinkInv ==
    /\ ~Ctx!Terminal
    /\ ~Idle => Consumed(call) \subseteq stored
    /\ ~Idle /\ observations[call.id] # None => Done("observation")
    /\ faults = 0 =>
         /\ \A c \in stored \cap Context : baselines[c] # None \/ Awaited(c)
         /\ current_turn # None =>
              current_turn.consumed \subseteq Ctx!KnownRefs \cup (stored \cap Context)

\* Before the baseline of a call that registers one come the checks, the
\* observation and that baseline; and no stage comes twice.
LEMMA BeforeBaseline ==
    ASSUME TypeOK, CallInv, PlaceInv, ~Idle
    PROVE  /\ Registers(call) /\ ~Done("baseline") =>
                Head(todo) \in {"admit", "observation", "baseline"}
           /\ Head(todo) = "observation" => ~Done("observation")
<1> DEFINE next == Passed + 1
           stages == Stages[call.kind]
<1>1. todo \in Seq(StageNames) /\ Len(todo) \in 1..Len(stages)
  BY DEF TypeOK, PlaceInv
<1>2. Head(todo) = stages[next]
  <2>1. 1 \in 1..Len(todo) /\ Head(todo) = todo[1]
    BY <1>1
  <2> QED
    BY <2>1 DEF PlaceInv
<1>3. call.kind \in {"open", "derive", "get", "analyse", "describe", "rank", "failed", "diverged"}
  BY CallTyped
<1>4. Len(stages) \in Nat
  BY <1>3, StagesTyped
<1>5. Passed \in Nat /\ next \in 1..Len(stages)
  <2> DEFINE l == Len(todo)
             n == Len(stages)
             p == Passed
  <2>1. l \in 1..n /\ n \in Nat /\ p = n - l
    BY <1>1, <1>4 DEF Passed
  <2> HIDE DEF l, n, p
  <2>2. p \in Nat /\ p + 1 \in 1..n
    BY <2>1
  <2> QED
    BY <2>2 DEF p, n
<1>6. \A s : Done(s) <=> \E i \in 1..Passed : stages[i] = s
  BY DEF Done
<1>7. \A i \in 1..Passed : i # next
  <2> DEFINE p == Passed
  <2>1. p \in Nat
    BY <1>5
  <2> HIDE DEF p
  <2>2. \A i \in 1..p : i # p + 1
    BY <2>1
  <2> QED
    BY <2>2 DEF p
<1>8. ASSUME Head(todo) = "observation", Done("observation")
      PROVE  FALSE
  <2>1. PICK i \in 1..Passed : stages[i] = "observation"
    BY <1>6, <1>8
  <2>2. i # next /\ i \in 1..Len(stages) /\ stages[next] = "observation"
    <3> DEFINE p == Passed
               n == Len(stages)
    <3>1. p \in Nat /\ p + 1 \in 1..n /\ i \in 1..p /\ n \in Nat
      BY <1>4, <1>5, <2>1
    <3> HIDE DEF p, n
    <3>2. i \in 1..n
      BY <3>1
    <3> QED
      BY <1>2, <1>7, <1>8, <2>1, <3>2 DEF n
  <2> HIDE DEF next
  <2>3. next \in 1..Len(stages)
    BY <1>5 DEF next
  <2>4. CASE call.kind \in {"open", "derive", "get"}
    <3>1. stages = <<"admit", "observation", "baseline", "domain">>
      BY <2>4 DEF Stages, OpenStages, DeriveStages
    <3> HIDE DEF stages
    <3> QED
      BY <2>1, <2>2, <2>3, <3>1
  <2>5. CASE call.kind = "rank"
    <3>1. stages = <<"admit", "observation", "fact", "domain">>
      BY <2>5 DEF Stages, RankStages
    <3> HIDE DEF stages
    <3> QED
      BY <2>1, <2>2, <2>3, <3>1
  <2>6. CASE call.kind \in {"failed", "diverged"}
    <3>1. stages = <<"observation", "limitation", "diagnostic">>
      BY <2>6 DEF Stages, FailedStages
    <3> HIDE DEF stages
    <3> QED
      BY <2>1, <2>2, <2>3, <3>1
  <2>7. CASE call.kind = "describe"
    <3>1. stages = <<"admit", "observation", "baseline", "evidence", "domain">>
      BY <2>7 DEF Stages, DescribeStages
    <3> HIDE DEF stages
    <3> QED
      BY <2>1, <2>2, <2>3, <3>1
  <2>8. CASE call.kind = "analyse"
    <3>1. stages = <<"admit", "observation", "baseline", "result", "evidence", "fact", "domain">>
      BY <2>8 DEF Stages, AnalyseStages
    <3> HIDE DEF stages
    <3> QED
      BY <2>1, <2>2, <2>3, <3>1
  <2> QED
    BY <1>3, <2>4, <2>5, <2>6, <2>7, <2>8
<1>9. ASSUME Registers(call), ~Done("baseline")
      PROVE  Head(todo) \in {"admit", "observation", "baseline"}
  <2>1. /\ stages[1] = "admit" /\ stages[2] = "observation" /\ stages[3] = "baseline"
    BY <1>9 DEF Registers, Stages, OpenStages, DeriveStages, DescribeStages, AnalyseStages
  <2>2. ~(3 \in 1..Passed)
    BY <1>6, <1>9, <2>1
  <2>3. next \in 1..3
    <3> DEFINE p == Passed
    <3>1. p \in Nat /\ ~(3 \in 1..p)
      BY <1>5, <2>2
    <3> HIDE DEF p
    <3>2. p + 1 \in 1..3
      BY <3>1
    <3> QED
      BY <3>2 DEF p
  <2>4. next = 1 \/ next = 2 \/ next = 3
    BY <2>3
  <2> HIDE DEF next, stages
  <2> QED
    BY <1>2, <2>1, <2>4
<1> QED
  BY <1>8, <1>9

\* What the context knows, once the active context has its baseline.
LEMMA KnownIs ==
    ASSUME TypeOK, GroundInv
    PROVE  Ctx!KnownRefs = {c \in Context : baselines[c] # None}
                               \cup {r \in Result : results[r] # None}
                               \cup {e \in Evidence : evidence[e] # None}
                               \cup {f \in Call : verified_facts[f] # None}
<1>1. Ctx!Registered(verified_facts) = {f \in Call : verified_facts[f] # None}
  BY DEF TypeOK, Ctx!TypeOK, Ctx!Registered
<1>2. active_context # None => active_context \in Context /\ baselines[active_context] # None
  BY DEF TypeOK, Ctx!TypeOK, GroundInv
<1> QED
  BY <1>1, <1>2, RegisteredIs DEF Ctx!KnownRefs

\* What an event of a projection changes of the turn: only an observation
\* consumes, and what it consumes is known or a context.
LEMMA AppendConsumes ==
    ASSUME TypeOK, CallInv, PlaceInv, ~Idle, NEW stage, stage = Head(todo),
           AppendEvent(stage, call)
    PROVE  /\ status' = status
           /\ \A f \in Call : verified_facts[f] # None => verified_facts'[f] # None
           /\ current_turn'.consumed
                  \subseteq current_turn.consumed
                            \cup (IF stage = "observation" THEN Consumed(call) ELSE {})
           /\ stage = "observation" => Consumed(call) \subseteq Ctx!KnownRefs \cup Context
<1> USE DEF Ctx!turnVars, Ctx!recordVars, Ctx!noteVars, Ctx!domainVars, contextVars
<1>1. /\ current_turn # None /\ current_turn \in Ctx!ActiveTurn /\ call.id \in Call
      /\ verified_facts \in [Call -> Ctx!VerifiedFact \cup {None}]
  BY CallTyped DEF TypeOK, Ctx!TypeOK
<1>2. ASSUME NEW consumed, NEW produced
      PROVE  Ctx!MergeTurnRefs(consumed, produced).consumed = current_turn.consumed \cup consumed
  BY <1>1 DEF Ctx!MergeTurnRefs, Ctx!ActiveTurn
<1>3. CASE stage = "admit" /\ Admit(call)
  BY <1>3 DEF Admit
<1>4. CASE stage = "observation" /\
           Ctx!RecordObservation(call.turn, call.id, call.kind = "rank", Consumed(call),
                                 Produced(call))
  <2>1. /\ current_turn' = Ctx!MergeTurnRefs(Consumed(call), Produced(call))
        /\ Consumed(call) \subseteq Ctx!KnownRefs \cup Context
        /\ UNCHANGED <<status, verified_facts>>
    BY <1>4 DEF Ctx!RecordObservation, Ctx!MayRecordObservation
  <2> QED
    BY <1>2, <1>4, <2>1
<1>5. CASE stage = "baseline" /\
           Ctx!OpenSimulatorContext(call.turn, call.context, RevisionOf[call.context])
  BY <1>5 DEF Ctx!OpenSimulatorContext
<1>6. CASE stage = "result" /\
           Ctx!RegisterResult(call.turn, call.result, RevisionOf[call.context])
  <2>1. /\ current_turn' = Ctx!MergeTurnRefs({}, {call.result})
        /\ UNCHANGED <<status, verified_facts>>
    BY <1>6 DEF Ctx!RegisterResult
  <2> QED
    BY <1>2, <1>6, <2>1
<1>7. CASE stage = "evidence" /\
           Ctx!RegisterEvidence(None, EvidenceFor(call), EvidenceRefs(call), TRUE)
  <2>1. /\ \/ current_turn' = Ctx!MergeTurnRefs({}, {EvidenceFor(call)})
           \/ current_turn' = current_turn
        /\ UNCHANGED <<status, verified_facts>>
    BY <1>7 DEF Ctx!RegisterEvidence
  <2> QED
    BY <1>2, <1>7, <2>1
<1>8. CASE stage = "fact" /\ Ctx!RecordVerifiedFact(call.id, {EvidenceFor(call)})
  <2> DEFINE record == [evidence_refs |-> {EvidenceFor(call)}]
  <2>1. /\ verified_facts' = [verified_facts EXCEPT ![call.id] = record]
        /\ UNCHANGED <<status, current_turn>>
    BY <1>8 DEF Ctx!RecordVerifiedFact
  <2>2. record # None
    <3>1. call.kind \in {"analyse", "rank"} /\ call.result \in Result
      BY <1>8, StageFacts, CallTyped
    <3>2. EvidenceFor(call) \in Evidence
      BY <3>1, DocumentsAreLinked DEF EvidenceFor
    <3>3. record \in Ctx!VerifiedFact
      BY <3>2 DEF Ctx!VerifiedFact
    <3> QED
      BY <3>3, NoneApart
  <2> HIDE DEF record
  <2> QED
    BY <1>1, <1>8, <2>1, <2>2
<1>9. CASE stage = "domain" /\ ProjectDomain(call)
  BY <1>9 DEF ProjectDomain, Ctx!ProjectDomainState
<1>10. CASE stage = "limitation" /\ Ctx!RecordLimitation(<<call.id, "tool">>, call.turn)
  BY <1>10 DEF Ctx!RecordLimitation
<1>11. CASE stage = "diagnostic" /\ Ctx!RecordDiagnostic
  BY <1>11 DEF Ctx!RecordDiagnostic
<1> QED
  BY <1>3, <1>4, <1>5, <1>6, <1>7, <1>8, <1>9, <1>10, <1>11 DEF AppendEvent, PromoteFact

\* The stages up to the baseline of a call that registers one are accepted.
LEMMA BaselineAccepted ==
    ASSUME TypeOK, CallInv, PlaceInv, GroundInv, LinkInv, ~Idle,
           Registers(call), ~Done("baseline")
    PROVE  Accepted(Head(todo), call)
<1>1. /\ call.id \in Call /\ call.context \in Context /\ RevisionOf[call.context] \in Revision
      /\ current_turn # None /\ current_turn.id = call.turn
      /\ WellFormed(call)
  BY CallTyped, NoneApart DEF CallInv, Idle
<1>2. Ctx!InTurn(call.turn)
  BY <1>1 DEF Ctx!InTurn, LinkInv
<1>3. CASE Head(todo) = "admit"
  BY <1>3 DEF Accepted, MayAdmit, Registers
<1>4. CASE Head(todo) = "observation"
  <2>1. observations[call.id] = None
    BY <1>4, BeforeBaseline DEF LinkInv
  <2>2. Consumed(call) \subseteq Context
    BY <1>1, DocumentsAreLinked DEF Consumed, Registers, WellFormed
  <2>3. call.kind # "rank"
    BY DEF Registers
  <2> QED
    BY <1>2, <1>4, <2>1, <2>2, <2>3 DEF Accepted, Ctx!MayRecordObservation, Ctx!Admissible
<1>5. CASE Head(todo) = "baseline"
  BY <1>1, <1>2, <1>5 DEF Accepted, Ctx!MayOpenContext, Ctx!Admissible, GroundInv
<1> QED
  BY <1>3, <1>4, <1>5, BeforeBaseline

\* A stage that is passed is done, as those before it are.
LEMMA DoneGrows ==
    ASSUME TypeOK, CallInv, PlaceInv, Moves, Len(todo) # 1
    PROVE  \A s : Done(s) \/ s = Head(todo) => Done(s)'
<1>1. /\ call' = call /\ Passed' = Passed + 1
  BY MovesOn
<1>2. call.kind \in {"open", "derive", "get", "analyse", "describe", "rank", "failed", "diverged"}
  BY CallTyped DEF Moves
<1>3. Passed \in Nat /\ Head(todo) = Stages[call.kind][Passed + 1]
  <2> DEFINE l == Len(todo)
             n == Len(Stages[call.kind])
             p == Passed
  <2>1. l \in 1..n /\ n \in Nat /\ p = n - l
    BY <1>2, StagesTyped DEF Passed, PlaceInv, Moves
  <2>2. todo \in Seq(StageNames) /\ l \in Nat /\ l >= 1
    BY <2>1 DEF TypeOK
  <2>3. Head(todo) = todo[1] /\ 1 \in 1..Len(todo)
    BY <2>2
  <2>4. Head(todo) = Stages[call.kind][Passed + 1]
    BY <2>3 DEF PlaceInv, Moves
  <2> HIDE DEF l, n, p
  <2>5. p \in Nat
    BY <2>1
  <2> QED
    BY <2>4, <2>5 DEF p
<1>4. \A s : Done(s)' <=> \E i \in 1..Passed' : Stages[call.kind][i] = s
  BY <1>1 DEF Done
<1>5. \A i \in 1..Passed : i \in 1..Passed'
  <2> DEFINE p == Passed
             q == Passed'
  <2>1. p \in Nat /\ q = p + 1
    BY <1>1, <1>3
  <2> HIDE DEF p, q
  <2>2. \A i \in 1..p : i \in 1..q
    BY <2>1
  <2> QED
    BY <2>2 DEF p, q
<1>6. Passed + 1 \in 1..Passed'
  <2> DEFINE p == Passed
             q == Passed'
  <2>1. p \in Nat /\ q = p + 1
    BY <1>1, <1>3
  <2> HIDE DEF p, q
  <2>2. p + 1 \in 1..q
    BY <2>1
  <2> QED
    BY <2>2 DEF p, q
<1> QED
  BY <1>3, <1>4, <1>5, <1>6 DEF Done

\* Links, when the records and what is being projected stay.
LEMMA LinkKept ==
    ASSUME LinkInv, Idle, UNCHANGED <<records, verified_facts, stored, faults, call>>,
           ~Ctx!Terminal',
           \/ current_turn' = None
           \/ current_turn' # None /\ current_turn'.consumed = {}
           \/ /\ current_turn # None
              /\ current_turn'.consumed \subseteq current_turn.consumed \cup Ctx!KnownRefs
    PROVE  LinkInv'
<1>1. Idle'
  BY DEF Idle
<1>2. Ctx!KnownRefs' = Ctx!KnownRefs
  BY DEF Ctx!KnownRefs, Ctx!Registered, records
<1>3. ASSUME faults = 0
      PROVE  \A c \in stored' \cap Context : baselines'[c] # None
  BY <1>3 DEF LinkInv, Awaited, records
<1>4. ASSUME faults = 0, current_turn' # None
      PROVE  current_turn'.consumed \subseteq Ctx!KnownRefs' \cup (stored' \cap Context)
  BY <1>2, <1>4 DEF LinkInv
<1> QED
  BY <1>1, <1>3, <1>4 DEF LinkInv

LEMMA LinkStep ==
    ASSUME Inv, LinkInv, Inv', [Next]_vars
    PROVE  LinkInv'
<1>1. /\ TypeOK /\ CallInv /\ PlaceInv /\ ProgressInv /\ GroundInv /\ StoredInv
      /\ TypeOK' /\ CallInv' /\ GroundInv'
      /\ faults \in Nat /\ stored \subseteq Context \cup Result
  BY DEF Inv, TypeOK
<1>2. ASSUME NEW t \in Turn, StartTurn(t)
      PROVE  LinkInv'
  <2>1. /\ UNCHANGED <<records, verified_facts, stored, faults, call>>
        /\ status' = "running" /\ current_turn = None
        /\ current_turn' = [id |-> t, consumed |-> {}, produced |-> {}]
    BY <1>2 DEF StartTurn, Ctx!StartTurn, Ctx!recordVars, Ctx!noteVars, Ctx!domainVars,
                toolVars, records
  <2>2. Idle
    BY <1>1, <2>1 DEF CallInv
  <2>3. current_turn' # None => current_turn'.consumed = {}
    BY <2>1
  <2>4. ~Ctx!Terminal'
    BY <2>1 DEF Ctx!Terminal
  <2> QED
    BY <2>1, <2>2, <2>3, <2>4, LinkKept
<1>3. ASSUME NEW t \in Turn, CallTool(t)
      PROVE  LinkInv'
  <2>1. PICK x \in Possible(t) :
           /\ stored' = IF x.kind \in {"failed", "diverged"} THEN stored ELSE stored \cup Written(x)
           /\ made' = [made EXCEPT ![x.id] = x]
           /\ call' = x
           /\ todo' = Stages[x.kind]
    BY <1>3 DEF CallTool
  <2>2. /\ x \in ToolCall /\ x.id \in Call /\ x.context \in Context
        /\ x.result \in Result \cup {None}
        /\ x.kind \in {"open", "derive", "get", "analyse", "describe", "rank", "failed", "diverged"}
        /\ made[x.id] = None /\ Consumed(x) \subseteq stored /\ WellFormed(x)
    BY PossibleIs
  <2>3. /\ Idle /\ UNCHANGED contextVars /\ faults' = faults
    BY <1>3 DEF CallTool
  <2>4. observations[x.id] = None
    BY <1>1, <2>2 DEF CallInv
  <2>5. /\ UNCHANGED <<status, baselines, observations, current_turn>>
        /\ Ctx!KnownRefs' = Ctx!KnownRefs
    BY <2>3 DEF contextVars, Ctx!KnownRefs, Ctx!Registered
  <2>6. Passed' = 0
    BY <2>1, <2>2, StagesTyped DEF Passed
  <2>7. \A s : ~Done(s)'
    BY <2>6 DEF Done
  <2>8. ~Idle'
    BY <2>1, <2>2, NoneApart DEF Idle
  <2>9. stored \subseteq stored'
    BY <2>1
  <2>10. ASSUME faults = 0, NEW c \in stored' \cap Context
         PROVE  baselines'[c] # None \/ Awaited(c)'
    <3>1. CASE c \in stored
      BY <2>3, <2>5, <2>10, <3>1 DEF LinkInv, Awaited
    <3>2. CASE c \notin stored
      <4>1. c = x.context /\ x.kind \notin {"failed", "diverged"}
        BY <2>1, <2>2, <2>10, <3>2, DocumentsAreLinked DEF Written
      <4>2. x.kind # "rank"
        <5>1. SUFFICES ASSUME x.kind = "rank" PROVE FALSE
          OBVIOUS
        <5>2. x.result \in Result /\ ContextOf[x.result] = x.context
          BY <2>2, <5>1 DEF WellFormed
        <5>3. x.result \in stored
          BY <2>2, <5>1 DEF Consumed
        <5> QED
          BY <1>1, <3>2, <4>1, <5>2, <5>3 DEF StoredInv
      <4>3. Registers(x)
        BY <2>2, <4>1, <4>2 DEF Registers
      <4> QED
        BY <2>1, <2>7, <2>8, <4>1, <4>3 DEF Awaited, Registers
    <3> QED
      BY <3>1, <3>2
  <2>11. ~Ctx!Terminal'
    BY <2>5 DEF LinkInv, Ctx!Terminal
  <2>12. Consumed(call') \subseteq stored' /\ observations'[call'.id] = None
    BY <2>1, <2>2, <2>4, <2>5, <2>9
  <2>13. Consumed(call)' \subseteq stored'
    BY <2>12 DEF Consumed
  <2>14. ASSUME faults = 0, current_turn # None
         PROVE  current_turn.consumed \subseteq Ctx!KnownRefs \cup (stored' \cap Context)
    BY <2>9, <2>14 DEF LinkInv
  <2> QED
    BY <2>3, <2>5, <2>10, <2>11, <2>12, <2>13, <2>14 DEF LinkInv
<1>4. ASSUME NEW t \in Turn, SubmitAnswer(t)
      PROVE  LinkInv'
  <2> DEFINE known == Ctx!Registered(baselines) \cup Ctx!Registered(results)
                          \cup Ctx!Registered(evidence)
  <2>1. PICK claims \in {stored \cap Result, {}} : Ctx!SubmitAnswer(t, claims)
    BY <1>4 DEF SubmitAnswer
  <2>2. /\ current_turn # None /\ current_turn' = Ctx!MergeTurnRefs(claims \cap known, {})
        /\ ~Ctx!Terminal
        /\ UNCHANGED <<status, records, verified_facts>>
    BY <2>1 DEF Ctx!SubmitAnswer, Ctx!InTurn, Ctx!recordVars, Ctx!noteVars, Ctx!domainVars,
                records
  <2>3. Idle /\ UNCHANGED <<stored, call, faults>>
    BY <1>4 DEF SubmitAnswer
  <2>4. current_turn \in Ctx!ActiveTurn
    BY <1>1, <2>2 DEF TypeOK, Ctx!TypeOK
  <2>5. current_turn'.consumed = current_turn.consumed \cup (claims \cap known)
    BY <2>2, <2>4 DEF Ctx!MergeTurnRefs, Ctx!ActiveTurn
  <2>6. known \subseteq Ctx!KnownRefs
    BY DEF Ctx!KnownRefs
  <2>7. ~Ctx!Terminal'
    BY <2>2 DEF Ctx!Terminal
  <2> HIDE DEF known
  <2> QED
    BY <2>2, <2>3, <2>5, <2>6, <2>7, LinkKept
<1>5. ASSUME NEW t \in Turn, CloseTurn(t)
      PROVE  LinkInv'
  <2>1. PICK outcome \in {"success", "failed"} : Ctx!CompleteTurn(t, outcome)
    BY <1>5 DEF CloseTurn
  <2>2. /\ current_turn' = None /\ ~Ctx!Terminal /\ UNCHANGED <<status, records, verified_facts>>
    BY <2>1 DEF Ctx!CompleteTurn, Ctx!InTurn, Ctx!recordVars, Ctx!noteVars, Ctx!domainVars,
                records
  <2>3. Idle /\ UNCHANGED <<stored, call, faults>>
    BY <1>5 DEF CloseTurn, toolVars
  <2>4. ~Ctx!Terminal'
    BY <2>2 DEF Ctx!Terminal
  <2> QED
    BY <2>2, <2>3, <2>4, LinkKept
<1>6. ASSUME ~Idle, Advance,
             \/ AlreadyKnown(Head(todo), call) /\ UNCHANGED contextVars
             \/ ~AlreadyKnown(Head(todo), call) /\ AppendEvent(Head(todo), call)
      PROVE  LinkInv'
  <2>1. /\ UNCHANGED <<stored, faults>> /\ call' = (IF Len(todo) = 1 THEN None ELSE call)
        /\ todo' = Tail(todo)
    BY <1>6 DEF Advance
  <2>2. /\ call.id \in Call /\ call.context \in Context /\ current_turn # None
        /\ current_turn.id = call.turn
        /\ call.kind \in {"open", "derive", "get", "analyse", "describe", "rank", "failed", "diverged"}
        /\ baselines \in [Context -> Revision \cup {None}]
        /\ observations \in [Call -> Ctx!ObservationRecord \cup {None}]
    BY <1>1, <1>6, CallTyped DEF TypeOK, Ctx!TypeOK
  <2>3. Moves
    <3>1. CASE ~AlreadyKnown(Head(todo), call) /\ AppendEvent(Head(todo), call)
      <4>1. /\ RecordsAfter(Head(todo)) /\ current_turn' # None
            /\ current_turn'.id = call.turn
        BY <1>1, <1>6, <3>1, AppendTyped
      <4> QED
        BY <1>6, <3>1, <4>1 DEF Moves
    <3>2. CASE AlreadyKnown(Head(todo), call) /\ UNCHANGED contextVars
      BY <1>6, <2>2, <3>2 DEF Moves, contextVars, records
    <3> QED
      BY <1>6, <3>1, <3>2
  <2>4. /\ status' = status
        /\ \A f \in Call : verified_facts[f] # None => verified_facts'[f] # None
        /\ current_turn'.consumed
               \subseteq current_turn.consumed
                         \cup (IF Head(todo) = "observation" THEN Consumed(call) ELSE {})
    <3>1. CASE AppendEvent(Head(todo), call)
      BY <1>1, <1>6, <3>1, AppendConsumes
    <3>2. CASE UNCHANGED contextVars
      BY <3>2 DEF contextVars
    <3> QED
      BY <1>6, <3>1, <3>2
  <2>5. AppendEvent(Head(todo), call) /\ Head(todo) = "observation" =>
            Consumed(call) \subseteq Ctx!KnownRefs \cup Context
    BY <1>1, <1>6, AppendConsumes
  <2>6. /\ \A c \in Context : baselines[c] # None => baselines'[c] # None
        /\ \A r \in Result : results[r] # None => results'[r] # None
        /\ \A e \in Evidence : evidence[e] # None => evidence'[e] # None
        /\ Head(todo) = "baseline" => baselines'[call.context] # None
    BY <1>1, <2>3, MovesGrow
  <2>7. Ctx!KnownRefs \subseteq Ctx!KnownRefs'
    <3>1. Ctx!KnownRefs = {c \in Context : baselines[c] # None}
                              \cup {r \in Result : results[r] # None}
                              \cup {e \in Evidence : evidence[e] # None}
                              \cup {f \in Call : verified_facts[f] # None}
      BY <1>1, KnownIs
    <3>2. {c \in Context : baselines'[c] # None}
              \cup {r \in Result : results'[r] # None}
              \cup {e \in Evidence : evidence'[e] # None}
              \cup {f \in Call : verified_facts'[f] # None} \subseteq Ctx!KnownRefs'
      <4>1. /\ baselines' \in [Context -> Revision \cup {None}]
            /\ results' \in [Result -> Ctx!ResultRecord \cup {None}]
            /\ evidence' \in [Evidence -> Ctx!EvidenceRecord \cup {None}]
            /\ verified_facts' \in [Call -> Ctx!VerifiedFact \cup {None}]
        BY <1>1 DEF TypeOK, Ctx!TypeOK
      <4> QED
        BY <4>1 DEF Ctx!KnownRefs, Ctx!Registered
    <3> QED
      BY <2>4, <2>6, <3>1, <3>2
  <2>8. ~Ctx!Terminal'
    BY <2>4 DEF LinkInv, Ctx!Terminal
  <2>9. ASSUME ~Idle'
        PROVE  /\ Consumed(call)' \subseteq stored'
               /\ observations'[call'.id] # None => Done("observation")'
    <3>1. Len(todo) # 1 /\ call' = call
      BY <2>1, <2>9 DEF Idle
    <3>2. Consumed(call)' = Consumed(call)
      BY <3>1 DEF Consumed
    <3>3. \A s : Done(s) \/ s = Head(todo) => Done(s)'
      BY <1>1, <2>3, <3>1, DoneGrows
    <3>4. observations'[call.id] # None => observations[call.id] # None \/ Head(todo) = "observation"
      BY <1>1, <1>6, <2>2, AppendEffect DEF RecordsAfter, contextVars
    <3> QED
      BY <1>6, <2>1, <3>1, <3>2, <3>3, <3>4 DEF LinkInv
  <2>10. ASSUME faults = 0, NEW c \in stored \cap Context, baselines'[c] = None
         PROVE  Awaited(c)'
    <3>1. /\ baselines[c] = None /\ call.context = c /\ Registers(call) /\ ~Done("baseline")
          /\ Head(todo) # "baseline"
      BY <2>6, <2>10 DEF LinkInv, Awaited
    <3>2. Len(todo) # 1
      BY <1>1, <1>6, <3>1, StageFacts DEF Registers
    <3>3. /\ call' = call /\ ~Idle' /\ \A s : Done(s)' => Done(s) \/ s = Head(todo)
      BY <1>1, <2>3, <3>2, MovesOn
    <3> QED
      BY <3>1, <3>3 DEF Awaited, Registers
  <2>11. ASSUME faults = 0
         PROVE  current_turn'.consumed \subseteq Ctx!KnownRefs' \cup (stored \cap Context)
    <3>1. current_turn.consumed \subseteq Ctx!KnownRefs \cup (stored \cap Context)
      BY <2>2, <2>11 DEF LinkInv
    <3>2. CASE Head(todo) # "observation"
      BY <2>4, <2>7, <3>1, <3>2
    <3>3. CASE Head(todo) = "observation"
      <4>1. AppendEvent(Head(todo), call)
        BY <1>6, <3>3 DEF AlreadyKnown
      <4>2. Consumed(call) \subseteq stored
        BY <1>6 DEF LinkInv
      <4> QED
        BY <2>4, <2>5, <2>7, <3>1, <3>3, <4>1, <4>2
    <3> QED
      BY <3>2, <3>3
  <2> QED
    BY <2>1, <2>8, <2>9, <2>10, <2>11 DEF LinkInv
<1>7. ASSUME ~Idle, Abandon(Head(todo), FALSE) \/ Abandon(Head(todo), TRUE),
             DiagnoseAbandoned \/ UNCHANGED contextVars,
             faults' # 0 \/ (faults' = faults /\ ~Accepted(Head(todo), call))
      PROVE  LinkInv'
  <2>1. call' = None /\ UNCHANGED stored
    BY <1>7 DEF Abandon
  <2>2. /\ UNCHANGED <<status, baselines, current_turn>>
        /\ Ctx!KnownRefs' = Ctx!KnownRefs
    BY <1>7 DEF DiagnoseAbandoned, Ctx!RecordLimitation, contextVars, Ctx!turnVars,
                Ctx!recordVars, Ctx!domainVars, Ctx!KnownRefs, Ctx!Registered
  <2>3. Idle' /\ ~Ctx!Terminal'
    BY <2>1, <2>2 DEF Idle, LinkInv, Ctx!Terminal
  <2>4. ASSUME faults' = 0
        PROVE  faults = 0 /\ \A c \in stored \cap Context : baselines[c] # None
    <3>1. faults = 0 /\ ~Accepted(Head(todo), call)
      BY <1>7, <2>4
    <3>2. \A c : ~Awaited(c)
      BY <1>1, <1>7, <3>1, BaselineAccepted DEF Awaited
    <3> QED
      BY <3>1, <3>2 DEF LinkInv
  <2> QED
    BY <2>1, <2>2, <2>3, <2>4 DEF LinkInv
<1>8. CASE SkipKnown
  BY <1>6, <1>8 DEF SkipKnown
<1>9. CASE Project
  BY <1>6, <1>9 DEF Project
<1>10. CASE Refused
  BY <1>7, <1>10 DEF Refused
<1>11. faults + 1 # 0
  BY <1>1
<1>12. CASE AppendFault
  BY <1>7, <1>11, <1>12 DEF AppendFault
<1>13. CASE AppendAndDiagnosisFault
  BY <1>7, <1>11, <1>13 DEF AppendAndDiagnosisFault
<1>14. CASE UNCHANGED vars
  <2>1. UNCHANGED <<status, baselines, observations, current_turn, stored, made, call, todo, faults>>
    BY <1>14 DEF vars, contextVars, toolVars
  <2>2. Ctx!KnownRefs' = Ctx!KnownRefs
    BY <1>14 DEF vars, contextVars, Ctx!KnownRefs, Ctx!Registered
  <2> QED
    BY <2>1, <2>2 DEF LinkInv, Awaited, Registers, Done, Passed, Idle, Consumed, Ctx!Terminal
<1> QED
  BY <1>2, <1>3, <1>4, <1>5, <1>8, <1>9, <1>10, <1>12, <1>13, <1>14 DEF Next

LEMMA LinkAlways == Spec => [](Inv /\ LinkInv)
<1>1. Init => LinkInv
  <2> SUFFICES ASSUME Init PROVE LinkInv
    OBVIOUS
  <2>1. Idle /\ status = "initializing" /\ stored = {} /\ current_turn = None
    BY DEF Init, Idle, Ctx!Init
  <2> QED
    BY <2>1 DEF LinkInv, Ctx!Terminal
<1>2. Inv /\ LinkInv /\ [Next]_vars => (Inv /\ LinkInv)'
  BY InvStep, LinkStep
<1> QED
  BY <1>1, <1>2, InvInit, PTL DEF Spec

\* For every set of documents and every order of calls: as long as no append
\* failed, whatever the reducer refused of the projections so far, the active
\* turn can be closed between two tool calls.
THEOREM RefusedNeverBlocks == Spec => []RefusalsDoNotBlock
<1>1. Inv /\ LinkInv => RefusalsDoNotBlock
  <2> SUFFICES ASSUME Inv, LinkInv, Idle, current_turn # None, faults = 0 PROVE Closable
    BY DEF RefusalsDoNotBlock
  <2>1. \A c \in stored \cap Context : baselines[c] # None
    BY DEF LinkInv, Awaited
  <2>2. stored \cap Context \subseteq Ctx!KnownRefs
    <3>1. TypeOK /\ GroundInv
      BY DEF Inv
    <3> QED
      BY <2>1, <3>1, KnownIs
  <2> QED
    BY <2>2 DEF LinkInv, Closable
<1> QED
  BY <1>1, LinkAlways, PTL

=============================================================================
