--------------------------- MODULE RunLedgerProofs ---------------------------
(***************************************************************************)
(* Proofs, for any number of instructions, tools and faults, that the      *)
(* native trajectory is never behind the context ledger, that nothing is   *)
(* answered once the recorder has lost its file, that every success has    *)
(* its one answer, that a manifest that says completed can be trusted, and *)
(* that the run is the one AnalysisRun promises its caller, liveness       *)
(* aside.                                                                  *)
(*                                                                         *)
(* The argument: PhaseInv says what the writes of the append under way     *)
(* have left behind so far, LossInv where the runner is once the recorder  *)
(* is closed, FlowInv what the answers and the memory of the store are at  *)
(* each place of the runner, and TrustInv what has been verified from the  *)
(* check of the last turn to the manifest.                                 *)
(***************************************************************************)
EXTENDS RunLedger, TLAPS, FiniteSetTheorems

LedgerLine  == [event: EventRecord, revision: Nat, native: Nat]
AnswerLine  == [turn: Nat, accepted: BOOLEAN]

\* Where the runner can be: between turns, opening one, while Pi works at it,
\* once its answer is accepted, when it fails, when it is closed, and once the
\* analysis ends without being completed, or is over.
Between  == {"boot", "prepare", "next", "complete", "finish", "verify", "write_completed"}
Opening  == {"mark", "start"}
Working  == {"inject", "prompt", "tool", "project", "diagnose", "respond", "publish",
             "reject", "reject_limit"}
Settling == {"accept", "close"}
Losing   == {"reject_close", "fail", "fail_limit", "fail_close", "fail_publish"}
Ending   == {"failing", "abandon", "write_failed", "closing", "done"}
Steps    == Between \cup Opening \cup Working \cup Settling \cup Losing \cup Ending \cup {"unmark"}

TypeOK ==
    /\ native \in Seq(EventRecord) /\ native_torn \in BOOLEAN
    /\ recorder \in {"open", "closed"}
    /\ ledger \in Seq(LedgerLine) /\ ledger_torn \in BOOLEAN
    /\ snapshot \in Seq(EventRecord) /\ memory \in Seq(EventRecord)
    /\ active_turn \in Nat \cup {None}
    /\ answers \in Seq(AnswerLine)
    /\ manifest \in {None, "completed", "failed"}
    /\ pc \in Steps
    /\ phase \in {"native", "finish", "ledger", "snapshot"}
    /\ turn \in 0..Instructions
    /\ tools \in Nat
    /\ gap \in {"no", "missing", "consumed"}
    /\ faults \in Nat

-----------------------------------------------------------------------------
(* The strengthenings *)

\* How far the append under way has come: its event is the last native one,
\* then its line is in the ledger, under the revision the store will have.
PhaseInv ==
    /\ phase # "native" => /\ Appending /\ recorder = "open"
                           /\ native # <<>> /\ native[Len(native)] = Draft
    /\ phase \in {"finish", "ledger"} =>
         \A i \in DOMAIN ledger : ledger[i].native < Len(native)
    /\ phase = "finish" => Ops[pc].scope # "recorder"
    /\ phase \in {"ledger", "snapshot"} => Ops[pc].scope = "store"
    /\ phase = "snapshot" /\ ~ledger_torn =>
         \E i \in DOMAIN ledger : /\ ledger[i].revision = Len(memory) + 1
                                  /\ ledger[i].event = Draft

\* Once the recorder is closed no native event is appended, and no append is
\* under way: the runner is on its way out.
Lost == {"diagnose", "respond", "fail", "fail_limit"} \cup Ending
LossInv == recorder = "closed" => phase = "native" /\ pc \in Lost

\* The files are in step.
DurableInv == TypeOK /\ PhaseInv /\ LossInv /\ Durable

\* The lines of the first n accepted answers.
Answered(n) == [t \in 1..n |-> [turn |-> t, accepted |-> TRUE]]

\* The first n turns have succeeded, and none has failed.
AnsweredTo(log, n) == Succeeded(log) = 1..n /\ FailedTurns(log) = {}

\* What is answered and remembered, by where the runner is.
FlowInv ==
  /\ pc \in Between => /\ AnsweredTo(memory, turn)
                       /\ answers = Answered(turn)
                       /\ active_turn = None
  /\ pc \notin Between \cup Ending => turn >= 1
  /\ pc \in Opening \cup Working \cup Settling => AnsweredTo(memory, turn - 1)
  /\ pc \in Opening \cup Working => answers = Answered(turn - 1)
  /\ pc \in Settling => answers = Answered(turn)
  /\ pc \in {"start"} \cup Working \cup Settling => active_turn = turn
  /\ pc \in Working \cup Settling => HasEvent(memory, "turn.started", turn)
  /\ pc = "close" => HasEvent(memory, "answer.submitted", turn)
  /\ pc \in Losing => Succeeded(memory) = 1..(turn - 1)
  /\ pc = "unmark" => \/ AnsweredTo(memory, turn) /\ answers = Answered(turn)
                      \/ Succeeded(memory) = 1..(turn - 1)
  /\ SuccessAnswered

\* The ledger replays to the snapshot the store holds.
Replayable == /\ ~ledger_torn
              /\ \A i \in DOMAIN ledger : ledger[i].revision = i
              /\ memory = [i \in DOMAIN ledger |-> ledger[i].event]

\* The three copies of the context agree.
Settled == snapshot = memory /\ Replayable

\* What has been verified, from the check of the last turn to the manifest.
TrustInv ==
  /\ pc \in {"complete", "finish", "verify", "write_completed"} => turn = Instructions
  /\ pc = "finish" /\ phase # "snapshot" => Settled
  /\ pc = "finish" /\ phase = "snapshot" =>
        /\ ~ledger_torn /\ Len(ledger) = Len(memory) + 1
        /\ \A i \in DOMAIN ledger : ledger[i].revision = i
        /\ \A i \in DOMAIN memory : ledger[i].event = memory[i]
        /\ ledger[Len(ledger)].event = Draft
  /\ pc \in {"verify", "write_completed"} => Settled
  /\ pc = "write_completed" => ~native_torn /\ Last(native) = Event("analysis.completed", 0)
  /\ manifest # None => pc \in {"closing", "done"}
  /\ CompletedIsTrusted

-----------------------------------------------------------------------------
(* The table of the appends *)

\* What the runner appends, and that it goes on to a step of its own.
LEMMA OpsTyped ==
    /\ DOMAIN Ops = {"boot", "prepare", "start", "inject", "tool", "project", "diagnose",
                     "respond", "accept", "close", "reject", "reject_limit", "reject_close",
                     "fail_limit", "fail_close", "finish", "abandon"}
    /\ \A s \in DOMAIN Ops : /\ Ops[s].type \in EventTypes
                             /\ Ops[s].scope \in {"store", "bridge", "recorder"}
                             /\ Ops[s].ok \in Steps
                             /\ Ops[s].error \in Steps
                             /\ Ops[s].os \in Steps
<1>1. /\ DOMAIN Ops = {"boot", "prepare", "start", "inject", "tool", "project", "diagnose",
                       "respond", "accept", "close", "reject", "reject_limit", "reject_close",
                       "fail_limit", "fail_close", "finish", "abandon"}
  BY DEF Ops, Op
<1>2. \A s \in DOMAIN Ops : Ops[s].type \in EventTypes
  BY DEF EventTypes
<1>3. \A s \in DOMAIN Ops : Ops[s].scope \in {"store", "bridge", "recorder"}
  BY DEF Ops, Op
<1>4. \A s \in DOMAIN Ops : Ops[s].ok \in Steps
  BY DEF Ops, Op, Steps, Between, Opening, Working, Settling, Losing, Ending
<1>5. \A s \in DOMAIN Ops : Ops[s].error \in Steps
  BY DEF Ops, Op, Steps, Between, Opening, Working, Settling, Losing, Ending
<1>6. \A s \in DOMAIN Ops : Ops[s].os \in Steps
  BY DEF Ops, Op, Steps, Between, Opening, Working, Settling, Losing, Ending
<1> QED
  BY <1>1, <1>2, <1>3, <1>4, <1>5, <1>6

\* Which of them reach the ledger.
LEMMA StoreOps ==
    \A s \in DOMAIN Ops : Ops[s].scope = "store" <=>
        s \in {"boot", "start", "project", "diagnose", "accept", "close", "reject_limit",
               "reject_close", "fail_limit", "fail_close", "finish", "abandon"}
  BY DEF Ops, Op

\* Where the runner goes when an append raises.
LEMMA RaiseTargets ==
    ASSUME Appending, NEW kind \in {"os", "error"}, Raise(kind)
    PROVE  /\ pc \in {"boot"} => pc' = "closing"
           /\ pc \in {"prepare", "finish"} => pc' = "failing"
           /\ pc \in {"start", "fail_limit", "fail_close"} => pc' \in {"failing", "closing"}
           /\ pc = "project" => pc' = "diagnose"
           /\ pc = "diagnose" => pc' \in {"respond", "closing"}
           /\ pc \in {"inject", "tool", "respond", "accept", "close", "reject",
                      "reject_limit", "reject_close"} => pc' \in {"fail", "closing"}
           /\ pc = "abandon" => pc' \in {"write_failed", "closing"}
           /\ kind = "error" /\ pc = "diagnose" => pc' = "respond"
           /\ pc' \in Steps /\ phase' = "native"
           /\ active_turn' \in {active_turn, None}
           /\ pc # "start" => active_turn' = active_turn
           /\ UNCHANGED <<answers, manifest, turn, tools>>
<1>1. pc' = IF kind = "os" THEN Ops[pc].os ELSE Ops[pc].error
  BY DEF Raise, Goto
<1>2. pc' \in Steps
  BY <1>1, OpsTyped DEF Appending
<1>3. /\ phase' = "native" /\ UNCHANGED <<answers, manifest, turn, tools>>
      /\ active_turn' = IF pc = "start" THEN None ELSE active_turn
  BY DEF Raise, Goto
<1> QED
  BY <1>1, <1>2, <1>3 DEF Ops, Op

\* Where it goes when an append succeeds.
LEMMA SucceedTargets ==
    ASSUME Appending, Succeed
    PROVE  /\ pc = "boot" => pc' = "prepare"
           /\ pc = "prepare" => pc' = "next"
           /\ pc = "start" => pc' = "inject"
           /\ pc \in {"inject", "respond"} => pc' = "prompt"
           /\ pc = "tool" => pc' = "project"
           /\ pc \in {"project", "diagnose"} => pc' = "respond"
           /\ pc = "accept" => pc' = "close"
           /\ pc \in {"close", "reject_close"} => pc' = "unmark"
           /\ pc = "reject" => pc' = "reject_limit"
           /\ pc = "reject_limit" => pc' = "reject_close"
           /\ pc = "fail_limit" => pc' = "fail_close"
           /\ pc = "fail_close" => pc' = "fail_publish"
           /\ pc = "finish" => pc' = "verify"
           /\ pc = "abandon" => pc' = "write_failed"
           /\ pc' \in Steps /\ phase' = "native"
           /\ UNCHANGED <<fileVars, turn, tools, faults>>
<1>1. pc' = Ops[pc].ok /\ phase' = "native" /\ UNCHANGED <<fileVars, turn, tools, faults>>
  BY DEF Succeed, Goto
<1>2. pc' \in Steps
  BY <1>1, OpsTyped DEF Appending
<1> QED
  BY <1>1, <1>2 DEF Ops, Op

-----------------------------------------------------------------------------
(* Typing *)

\* The event under way is an event.
LEMMA DraftTyped == TypeOK /\ Appending => Draft \in EventRecord
<1> SUFFICES ASSUME TypeOK, Appending PROVE Draft \in EventRecord
  OBVIOUS
<1>1. turn \in Nat /\ Ops[pc].type \in EventTypes
  BY RunBounds, OpsTyped DEF TypeOK, Appending
<1> QED
  BY <1>1 DEF Draft, Event, EventRecord

\* A fault only counts itself, and may cost a context.
LEMMA FaultTyped ==
    ASSUME TypeOK, Fault
    PROVE  faults' \in Nat /\ gap' \in {"no", "missing", "consumed"}
  BY DEF TypeOK, Fault, AfterLoss

\* Every append leaves the run well typed.
LEMMA AppendTypeStep == TypeOK /\ AppendStep => TypeOK'
<1> SUFFICES ASSUME TypeOK, AppendStep PROVE TypeOK'
  OBVIOUS
<1> USE DEF storeVars, nativeVars, ledgerVars, fileVars
<1>1. Appending
  BY DEF AppendStep, Rejected, RecorderClosed, RecorderRefuses, AppendNative, AppendNativeFault,
         FinishCommit, FinishCommitFault, AppendLedger, AppendLedgerFault, ReplaceSnapshot,
         ReplaceSnapshotFault
<1>2. Draft \in EventRecord
  BY <1>1, DraftTyped
<1>3. /\ Append(native, Draft) \in Seq(EventRecord)
      /\ Append(memory, Draft) \in Seq(EventRecord)
      /\ Append(ledger, Line) \in Seq(LedgerLine)
  BY <1>2 DEF TypeOK, Line, LedgerLine
<1>4. ASSUME NEW kind \in {"os", "error"}, Raise(kind)
      PROVE  /\ pc' \in Steps /\ phase' = "native"
             /\ active_turn' \in Nat \cup {None}
             /\ UNCHANGED <<answers, manifest, turn, tools>>
  BY <1>1, <1>4, RaiseTargets DEF TypeOK
<1>5. ASSUME Succeed
      PROVE  /\ pc' \in Steps /\ phase' = "native"
             /\ gap' \in {"no", "missing", "consumed"}
             /\ UNCHANGED <<fileVars, turn, tools, faults>>
  <2>1. gap' \in {"no", "missing", "consumed"}
    BY <1>5 DEF TypeOK, Succeed, AfterProject
  <2> QED
    BY <1>1, <1>5, <2>1, SucceedTargets
<1>6. CASE Rejected \/ RecorderClosed
  BY <1>4, <1>6 DEF Rejected, RecorderClosed, TypeOK
<1>7. CASE RecorderRefuses \/ AppendNativeFault
  BY <1>3, <1>4, <1>7, FaultTyped DEF RecorderRefuses, AppendNativeFault, TypeOK
<1>8. CASE AppendNative
  BY <1>3, <1>5, <1>8 DEF AppendNative, TypeOK
<1>9. CASE FinishCommit
  BY <1>5, <1>9 DEF FinishCommit, TypeOK
<1>10. CASE FinishCommitFault
  BY <1>4, <1>10, FaultTyped DEF FinishCommitFault, TypeOK
<1>11. CASE AppendLedger
  BY <1>3, <1>11 DEF AppendLedger, TypeOK
<1>12. CASE AppendLedgerFault
  BY <1>3, <1>4, <1>12, FaultTyped DEF AppendLedgerFault, TypeOK
<1>13. CASE ReplaceSnapshot
  BY <1>3, <1>5, <1>13 DEF ReplaceSnapshot, TypeOK
<1>14. CASE ReplaceSnapshotFault
  BY <1>4, <1>14, FaultTyped DEF ReplaceSnapshotFault, TypeOK
<1> QED
  BY <1>6, <1>7, <1>8, <1>9, <1>10, <1>11, <1>12, <1>13, <1>14 DEF AppendStep

\* So does what the runner does between appends.
LEMMA RunnerTypeStep == TypeOK /\ RunnerStep => TypeOK'
<1> SUFFICES ASSUME TypeOK, RunnerStep PROVE TypeOK'
  OBVIOUS
<1> USE DEF storeVars, nativeVars, ledgerVars, fileVars, Goto
<1>1. turn \in Nat /\ Instructions \in Nat
  BY RunBounds DEF TypeOK
<1>2. Append(answers, Answer) \in Seq(AnswerLine)
  BY <1>1 DEF TypeOK, Answer, AnswerLine
<1>3. {"closing", "mark", "complete", "start", "tool", "publish", "reject", "fail", "accept",
       "unmark", "next", "failing", "fail_limit", "finish", "write_completed", "abandon",
       "write_failed", "done"} \subseteq Steps
  BY DEF Steps, Between, Opening, Working, Settling, Losing, Ending
<1>4. CASE WriteFault
  BY <1>2, <1>3, <1>4, FaultTyped DEF WriteFault, TypeOK
<1>5. CASE NextTurn
  BY <1>1, <1>3, <1>5 DEF NextTurn, TypeOK
<1>6. CASE MarkActive
  BY <1>1, <1>3, <1>6 DEF MarkActive, TypeOK
<1>7. CASE Prompt
  BY <1>3, <1>7 DEF Prompt, TypeOK
<1>8. CASE Publish
  BY <1>2, <1>3, <1>8 DEF Publish, TypeOK
<1>9. CASE Unmark \/ FailTurn \/ Complete \/ VerifyCompleted \/ FailAnalysis \/ WriteManifest \/ Close
  BY <1>3, <1>9 DEF Unmark, FailTurn, Complete, VerifyCompleted, FailAnalysis, WriteManifest, Close, TypeOK
<1> QED
  BY <1>4, <1>5, <1>6, <1>7, <1>8, <1>9 DEF RunnerStep

\* The run starts well typed.
LEMMA RunTypeInit == Init => TypeOK
<1> SUFFICES ASSUME Init PROVE TypeOK
  OBVIOUS
<1>1. 0 \in 0..Instructions
  BY RunBounds
<1>2. pc \in Steps
  BY DEF Init, Steps, Between
<1>3. native \in Seq(EventRecord) /\ ledger \in Seq(LedgerLine) /\ answers \in Seq(AnswerLine)
  BY DEF Init
<1> QED
  BY <1>1, <1>2, <1>3 DEF Init, TypeOK

\* Every step of the run leaves it well typed.
LEMMA RunTypeStep == TypeOK /\ [Next]_vars => TypeOK'
<1> SUFFICES ASSUME TypeOK, [Next]_vars PROVE TypeOK'
  OBVIOUS
<1>1. CASE UNCHANGED vars
  BY <1>1 DEF vars, storeVars, nativeVars, ledgerVars, fileVars, TypeOK
<1> QED
  BY <1>1, AppendTypeStep, RunnerTypeStep DEF Next

-----------------------------------------------------------------------------
(* Durability *)

\* The lines of a sequence that is appended to stay where they are.
LEMMA AppendKeeps ==
    ASSUME NEW S, NEW s \in Seq(S), NEW e \in S
    PROVE  /\ Append(s, e) \in Seq(S)
           /\ DOMAIN s = 1..Len(s) /\ Len(s) \in Nat
           /\ DOMAIN Append(s, e) = 1..(Len(s) + 1) /\ Len(Append(s, e)) = Len(s) + 1
           /\ \A i \in DOMAIN s : i \in DOMAIN Append(s, e) /\ Append(s, e)[i] = s[i]
           /\ Append(s, e)[Len(s) + 1] = e
  OBVIOUS

\* A native event more leaves the ledger behind.
LEMMA NativeGrows ==
    ASSUME TypeOK, NativeFirst, Appending, native' = Append(native, Draft), UNCHANGED ledger
    PROVE  /\ NativeFirst'
           /\ \A i \in DOMAIN ledger : ledger[i].native < Len(native')
           /\ native' # <<>> /\ native'[Len(native')] = Draft
<1>1. Draft \in EventRecord /\ native \in Seq(EventRecord)
  BY DraftTyped DEF TypeOK
<1>2. /\ DOMAIN native = 1..Len(native) /\ Len(native) \in Nat
      /\ DOMAIN native' = 1..(Len(native) + 1) /\ Len(native') = Len(native) + 1
      /\ \A i \in DOMAIN native : i \in DOMAIN native' /\ native'[i] = native[i]
      /\ native'[Len(native) + 1] = Draft
  BY <1>1, AppendKeeps
<1>3. native' # <<>>
  BY <1>2
<1>4. \A i \in DOMAIN ledger : ledger[i].native \in 1..Len(native)
  BY <1>2 DEF NativeFirst
<1> QED
  BY <1>2, <1>3, <1>4 DEF NativeFirst

\* A line that a fault cut off, or that is appended to a ledger already torn,
\* is no line of it; any other names the native event that was just appended.
LEMMA LedgerGrows ==
    ASSUME TypeOK, PhaseInv, NativeFirst, Appending, phase = "ledger",
           ledger' = Append(ledger, Line), UNCHANGED native
    PROVE  /\ NativeFirst'
           /\ \A i \in DOMAIN ledger : i \in DOMAIN ledger' /\ ledger'[i] = ledger[i]
           /\ Len(ledger) + 1 \in DOMAIN ledger' /\ ledger'[Len(ledger) + 1] = Line
           /\ Len(ledger') = Len(ledger) + 1 /\ DOMAIN ledger' = 1..Len(ledger')
<1>1. Draft \in EventRecord /\ native \in Seq(EventRecord) /\ ledger \in Seq(LedgerLine)
      /\ memory \in Seq(EventRecord)
  BY DraftTyped DEF TypeOK
<1>2. Line \in LedgerLine
  BY <1>1 DEF Line, LedgerLine
<1>3. /\ DOMAIN ledger = 1..Len(ledger) /\ Len(ledger) \in Nat
      /\ DOMAIN ledger' = 1..(Len(ledger) + 1) /\ Len(ledger') = Len(ledger) + 1
      /\ \A i \in DOMAIN ledger : i \in DOMAIN ledger' /\ ledger'[i] = ledger[i]
      /\ ledger'[Len(ledger) + 1] = Line
  BY <1>1, <1>2, AppendKeeps
<1>4. /\ native # <<>> /\ native[Len(native)] = Draft
      /\ \A i \in DOMAIN ledger : ledger[i].native < Len(native)
  BY DEF PhaseInv
<1>5. Len(native) \in DOMAIN native
  BY <1>1, <1>4
<1>6. Line.native = Len(native) /\ Line.event = Draft
  BY DEF Line
<1>7. \A i \in DOMAIN ledger' : /\ ledger'[i].native \in DOMAIN native'
                                /\ native'[ledger'[i].native] = ledger'[i].event
  BY <1>3, <1>4, <1>5, <1>6 DEF NativeFirst
<1>8. ASSUME NEW i \in DOMAIN ledger', NEW j \in DOMAIN ledger', i < j
      PROVE  ledger'[i].native < ledger'[j].native
  <2>1. i \in DOMAIN ledger
    BY <1>3, <1>8
  <2>2. CASE j \in DOMAIN ledger
    BY <1>3, <1>8, <2>1, <2>2 DEF NativeFirst
  <2>3. CASE j = Len(ledger) + 1
    BY <1>3, <1>4, <1>6, <2>1, <2>3
  <2> QED
    BY <1>3, <2>2, <2>3
<1> QED
  BY <1>3, <1>7, <1>8 DEF NativeFirst

\* What the store has is in the ledger: it takes over what the ledger got.
LEMMA MemoryGrows ==
    ASSUME TypeOK, PhaseInv, MemoryDurable, Appending, phase = "snapshot",
           memory' = Append(memory, Draft), UNCHANGED ledgerVars
    PROVE  MemoryDurable'
<1>1. Draft \in EventRecord /\ memory \in Seq(EventRecord)
  BY DraftTyped DEF TypeOK
<1>2. /\ DOMAIN memory = 1..Len(memory) /\ Len(memory) \in Nat
      /\ DOMAIN memory' = 1..(Len(memory) + 1)
      /\ \A i \in DOMAIN memory : memory'[i] = memory[i]
      /\ memory'[Len(memory) + 1] = Draft
  BY <1>1, AppendKeeps
<1> SUFFICES ASSUME ~ledger_torn, NEW k \in DOMAIN memory'
             PROVE  \E i \in DOMAIN ledger : ledger[i].revision = k /\ ledger[i].event = memory'[k]
  BY DEF MemoryDurable, ledgerVars
<1>3. CASE k \in DOMAIN memory
  BY <1>2, <1>3 DEF MemoryDurable
<1>4. CASE k = Len(memory) + 1
  BY <1>2, <1>4 DEF PhaseInv
<1> QED
  BY <1>2, <1>3, <1>4

\* The append of one event, write by write, keeps the files in step.
LEMMA AppendDurable ==
    ASSUME TypeOK, PhaseInv, LossInv, Durable, AppendStep
    PROVE  PhaseInv' /\ LossInv' /\ Durable'
<1> USE DEF storeVars, nativeVars, ledgerVars, fileVars
<1>1. Appending
  BY DEF AppendStep, Rejected, RecorderClosed, RecorderRefuses, AppendNative, AppendNativeFault,
         FinishCommit, FinishCommitFault, AppendLedger, AppendLedgerFault, ReplaceSnapshot,
         ReplaceSnapshotFault
<1>2. Draft \in EventRecord
  BY <1>1, DraftTyped
<1>3. ASSUME NEW kind \in {"os", "error"}, Raise(kind), recorder' = "closed" => kind = "error"
      PROVE  PhaseInv' /\ LossInv'
  <2>1. phase' = "native"
    BY <1>3 DEF Raise, Goto
  <2>2. kind = "error" => pc' \in Lost
    BY <1>1, <1>3, RaiseTargets, OpsTyped DEF Appending, Lost, Ending
  <2> QED
    BY <1>3, <2>1, <2>2 DEF PhaseInv, LossInv
<1>4. phase # "native" => recorder = "open"
  BY DEF PhaseInv
<1>5. UNCHANGED <<native, ledger, memory>> /\ (ledger_torn => ledger_torn') => Durable'
  BY DEF Durable, NativeFirst, MemoryDurable
<1>6. CASE Rejected \/ RecorderClosed \/ RecorderRefuses
  BY <1>3, <1>5, <1>6 DEF Rejected, RecorderClosed, RecorderRefuses
<1>7. CASE AppendNative
  <2>1. native' = Append(native, Draft) /\ UNCHANGED <<recorder, ledger, ledger_torn, memory>>
    BY <1>7 DEF AppendNative
  <2>2. /\ NativeFirst' /\ native' # <<>> /\ native'[Len(native')] = Draft
        /\ \A i \in DOMAIN ledger : ledger[i].native < Len(native')
    BY <1>1, <2>1, NativeGrows DEF Durable
  <2>3. Durable'
    BY <2>1, <2>2 DEF Durable, MemoryDurable
  <2>4. recorder' = "open" /\ phase' \in {"native", "finish"}
    BY <1>7, <2>1 DEF AppendNative, Succeed, Goto
  <2>5. phase' = "finish" => Draft' = Draft /\ Appending' /\ Ops[pc'].scope # "recorder"
    BY <1>7 DEF AppendNative, Draft, Appending, Succeed, Goto
  <2>6. PhaseInv' /\ LossInv'
    BY <2>1, <2>2, <2>4, <2>5 DEF PhaseInv, LossInv
  <2> QED
    BY <2>3, <2>6
<1>8. CASE AppendNativeFault
  <2>1. /\ Raise("error") /\ UNCHANGED <<ledger, ledger_torn, memory>>
        /\ native' = native \/ native' = Append(native, Draft)
    BY <1>8 DEF AppendNativeFault
  <2>2. Durable'
    BY <1>1, <1>5, <2>1, NativeGrows DEF Durable, MemoryDurable
  <2> QED
    BY <1>3, <2>1, <2>2
<1>9. CASE FinishCommit
  <2>1. Ops[pc].scope # "bridge" => Ops[pc].scope = "store"
    BY <1>1, <1>9, OpsTyped DEF FinishCommit, PhaseInv, Appending
  <2>2. Durable'
    BY <1>5, <1>9 DEF FinishCommit
  <2> QED
    BY <1>4, <1>9, <2>1, <2>2 DEF FinishCommit, PhaseInv, LossInv, Succeed, Goto, Draft, Appending
<1>10. CASE FinishCommitFault \/ ReplaceSnapshotFault
  <2>1. UNCHANGED storeVars /\ \E kind \in {"os", "error"} : Raise(kind)
    BY <1>10 DEF FinishCommitFault, ReplaceSnapshotFault
  <2> QED
    BY <1>3, <1>4, <1>5, <1>10, <2>1 DEF FinishCommitFault, ReplaceSnapshotFault
<1>11. CASE AppendLedger
  <2>1. /\ phase = "ledger" /\ phase' = "snapshot" /\ UNCHANGED <<native, recorder, memory, ledger_torn, pc, turn>>
        /\ IF ledger_torn THEN UNCHANGED ledger ELSE ledger' = Append(ledger, Line)
    BY <1>11 DEF AppendLedger
  <2>2. Durable'
    <3>1. CASE UNCHANGED ledger
      BY <1>5, <2>1, <3>1
    <3>2. CASE ledger' = Append(ledger, Line)
      <4>1. NativeFirst' /\ \A i \in DOMAIN ledger : i \in DOMAIN ledger' /\ ledger'[i] = ledger[i]
        BY <1>1, <2>1, <3>2, LedgerGrows DEF Durable
      <4> QED
        BY <2>1, <4>1 DEF Durable, MemoryDurable
    <3> QED
      BY <2>1, <3>1, <3>2
  <2>3. Draft' = Draft /\ Appending' /\ Ops[pc'].scope = "store"
    BY <1>1, <2>1 DEF Draft, Appending, PhaseInv
  <2>4. ~ledger_torn => \E i \in DOMAIN ledger' : /\ ledger'[i].revision = Len(memory) + 1
                                                  /\ ledger'[i].event = Draft
    BY <1>1, <2>1, LedgerGrows DEF Durable, Line
  <2> QED
    BY <1>4, <2>1, <2>2, <2>3, <2>4 DEF PhaseInv, LossInv
<1>12. CASE AppendLedgerFault
  <2>1. /\ phase = "ledger" /\ Raise("os") /\ UNCHANGED <<native, recorder, memory>>
        /\ \/ UNCHANGED <<ledger, ledger_torn>>
           \/ ledger' = Append(ledger, Line) /\ UNCHANGED ledger_torn
           \/ ledger_torn' = TRUE /\ UNCHANGED ledger
    BY <1>12 DEF AppendLedgerFault
  <2>2. Durable'
    BY <1>1, <1>5, <2>1, LedgerGrows DEF Durable, MemoryDurable
  <2> QED
    BY <1>3, <1>4, <2>1, <2>2
<1>13. CASE ReplaceSnapshot
  <2>1. /\ phase = "snapshot" /\ memory' = Append(memory, Draft) /\ Succeed
        /\ UNCHANGED <<native, recorder, ledger, ledger_torn>>
    BY <1>13 DEF ReplaceSnapshot
  <2>2. Durable'
    BY <1>1, <2>1, MemoryGrows DEF Durable, NativeFirst
  <2> QED
    BY <1>4, <2>1, <2>2 DEF PhaseInv, LossInv, Succeed, Goto
<1> QED
  BY <1>6, <1>7, <1>8, <1>9, <1>10, <1>11, <1>12, <1>13 DEF AppendStep

\* Between appends the runner writes none of these files.
LEMMA RunnerDurable ==
    ASSUME TypeOK, PhaseInv, LossInv, Durable, RunnerStep
    PROVE  PhaseInv' /\ LossInv' /\ Durable'
<1> USE DEF storeVars, nativeVars, ledgerVars, fileVars, Goto
<1>1. phase' = "native" /\ UNCHANGED <<native, ledger, memory, ledger_torn>>
  BY DEF RunnerStep, WriteFault, NextTurn, MarkActive, Prompt, Publish, Unmark, FailTurn,
         Complete, VerifyCompleted, FailAnalysis, WriteManifest, Close
<1>2. PhaseInv' /\ Durable'
  BY <1>1 DEF PhaseInv, Durable, NativeFirst, MemoryDurable
<1>3. CASE recorder = "closed"
  <2>1. pc' \in Lost
    BY <1>3 DEF LossInv, Lost, Ending, RunnerStep, WriteFault, NextTurn, MarkActive, Prompt,
                Publish, Unmark, FailTurn, Complete, VerifyCompleted, FailAnalysis, WriteManifest, Close
  <2> QED
    BY <1>1, <1>2, <2>1 DEF LossInv
<1>4. CASE recorder # "closed"
  <2>1. recorder' = "closed" => pc' = "done"
    BY <1>4 DEF RunnerStep, WriteFault, NextTurn, MarkActive, Prompt, Publish, Unmark, FailTurn,
                Complete, VerifyCompleted, FailAnalysis, WriteManifest, Close
  <2> QED
    BY <1>1, <1>2, <2>1 DEF LossInv, Lost, Ending
<1> QED
  BY <1>3, <1>4

\* The files start in step.
LEMMA DurableInit == Init => DurableInv
<1> SUFFICES ASSUME Init PROVE DurableInv
  OBVIOUS
<1>1. PhaseInv /\ LossInv /\ Durable
  BY DEF Init, PhaseInv, LossInv, Durable, NativeFirst, MemoryDurable
<1> QED
  BY <1>1, RunTypeInit DEF DurableInv

\* Every step keeps the files in step.
LEMMA DurableStep == DurableInv /\ [Next]_vars => DurableInv'
<1> SUFFICES ASSUME DurableInv, [Next]_vars PROVE DurableInv'
  OBVIOUS
<1>1. CASE UNCHANGED vars
  BY <1>1, RunTypeStep DEF vars, storeVars, nativeVars, ledgerVars, fileVars, DurableInv, PhaseInv,
                           LossInv, Durable, NativeFirst, MemoryDurable, Draft, Appending
<1> QED
  BY <1>1, RunTypeStep, AppendDurable, RunnerDurable DEF Next, DurableInv

\* Every variable of the run keeps its type.
THEOREM RunTypeCorrect == Spec => []TypeOK
  BY RunTypeInit, RunTypeStep, PTL DEF Spec

\* Wherever the run is cut off, each line of the context ledger retains the
\* sequence of a native event that is already durable and is the same event,
\* and what the store holds in memory is in the ledger.
THEOREM RunDurable == Spec => []Durable
<1>1. DurableInv => Durable
  BY DEF DurableInv
<1> QED
  BY <1>1, DurableInit, DurableStep, PTL DEF Spec

\* Once the recorder has lost its file the analysis publishes no answer.
THEOREM NoAnswerOnceLost == Spec => NoAnswerAfterLoss
<1>1. DurableInv /\ [Next]_vars => [recorder = "closed" => answers' = answers]_vars
  <2> SUFFICES ASSUME DurableInv, Next, recorder = "closed" PROVE answers' = answers
    OBVIOUS
  <2>1. pc \in Lost
    BY DEF DurableInv, LossInv
  <2>2. CASE AppendStep
    BY <2>2 DEF AppendStep, Rejected, RecorderClosed, RecorderRefuses, AppendNative, AppendNativeFault,
         FinishCommit, FinishCommitFault, AppendLedger, AppendLedgerFault, ReplaceSnapshot,
         ReplaceSnapshotFault, Raise, Succeed, fileVars
  <2>3. CASE RunnerStep
    BY <2>1, <2>3 DEF Lost, Ending, RunnerStep, WriteFault, NextTurn, MarkActive, Prompt, Publish,
         Unmark, FailTurn, Complete, VerifyCompleted, FailAnalysis, WriteManifest, Close, fileVars
  <2> QED
    BY <2>2, <2>3 DEF Next
<1> QED
  BY <1>1, DurableInit, DurableStep, PTL DEF Spec, NoAnswerAfterLoss

-----------------------------------------------------------------------------
(* The turns *)

\* Of the appends, these close, open and answer a turn.
LEMMA TurnOps ==
    \A s \in DOMAIN Ops : /\ Ops[s].type = "turn.succeeded" <=> s = "close"
                          /\ Ops[s].type = "turn.failed" <=> s \in {"reject_close", "fail_close"}
                          /\ s = "start" => Ops[s].type = "turn.started"
                          /\ s = "accept" => Ops[s].type = "answer.submitted"
  BY DEF Ops, Op

\* The store remembers one event more, and forgets none.
LEMMA MemoryAppends ==
    ASSUME TypeOK, Appending, memory' = Append(memory, Draft)
    PROVE  \A type, t : HasEvent(memory', type, t) <=>
               HasEvent(memory, type, t) \/ (type = Draft.type /\ t = Draft.turn)
<1>1. Draft \in EventRecord /\ memory \in Seq(EventRecord)
  BY DraftTyped DEF TypeOK
<1>2. /\ DOMAIN memory = 1..Len(memory) /\ Len(memory) \in Nat
      /\ DOMAIN memory' = 1..(Len(memory) + 1)
      /\ \A i \in DOMAIN memory : memory'[i] = memory[i]
      /\ memory'[Len(memory) + 1] = Draft
  BY <1>1, AppendKeeps
<1>3. ToSet(memory') = ToSet(memory) \cup {Draft}
  BY <1>2 DEF ToSet
<1>4. \A type, t : Event(type, t) = Draft <=> type = Draft.type /\ t = Draft.turn
  BY DEF Event, Draft
<1> QED
  BY <1>3, <1>4 DEF HasEvent

\* Only the closing of a turn changes which turns are closed.
LEMMA TurnsClose ==
    ASSUME TypeOK, Appending, memory' = Append(memory, Draft)
    PROVE  /\ pc # "close" => Succeeded(memory') = Succeeded(memory)
           /\ pc = "close" /\ turn >= 1 => Succeeded(memory') = Succeeded(memory) \cup {turn}
           /\ pc \notin {"reject_close", "fail_close"} => FailedTurns(memory') = FailedTurns(memory)
<1>1. Draft.type = Ops[pc].type /\ (pc \in {"close", "start", "accept"} => Draft.turn = turn)
  BY DEF Draft, Event
<1>2. turn \in Nat /\ turn <= Instructions /\ Instructions \in Nat
  BY RunBounds DEF TypeOK
<1>3. pc # "close" => Draft.type # "turn.succeeded"
  BY <1>1, TurnOps DEF Appending
<1>4. pc = "close" => Draft.type = "turn.succeeded" /\ Draft.turn = turn
  BY <1>1, TurnOps DEF Appending
<1>5. pc \notin {"reject_close", "fail_close"} => Draft.type # "turn.failed"
  BY <1>1, TurnOps DEF Appending
<1> QED
  BY <1>2, <1>3, <1>4, <1>5, MemoryAppends DEF Succeeded, FailedTurns

\* The accepted lines, one by one.
LEMMA AnsweredNext ==
    ASSUME NEW n \in Nat
    PROVE  Append(Answered(n), [turn |-> n + 1, accepted |-> TRUE]) = Answered(n + 1)
<1> DEFINE longer == Append(Answered(n), [turn |-> n + 1, accepted |-> TRUE])
<1>1. /\ Answered(n) \in Seq(AnswerLine) /\ Len(Answered(n)) = n
      /\ Answered(n + 1) \in Seq(AnswerLine) /\ Len(Answered(n + 1)) = n + 1
  BY DEF Answered, AnswerLine
<1>2. [turn |-> n + 1, accepted |-> TRUE] \in AnswerLine
  BY DEF AnswerLine
<1>3. /\ longer \in Seq(AnswerLine) /\ Len(longer) = n + 1
      /\ \A t \in 1..n : longer[t] = Answered(n)[t]
      /\ longer[n + 1] = [turn |-> n + 1, accepted |-> TRUE]
  BY <1>1, <1>2
<1>4. \A t \in 1..n : Answered(n)[t] = Answered(n + 1)[t]
  BY DEF Answered
<1>5. Answered(n + 1)[n + 1] = [turn |-> n + 1, accepted |-> TRUE]
  BY DEF Answered
<1>6. \A t \in 1..(n + 1) : longer[t] = Answered(n + 1)[t]
  <2> SUFFICES ASSUME NEW t \in 1..(n + 1) PROVE longer[t] = Answered(n + 1)[t]
    OBVIOUS
  <2>1. t \in 1..n \/ t = n + 1
    OBVIOUS
  <2> HIDE DEF longer
  <2> QED
    BY <1>3, <1>4, <1>5, <2>1
<1> HIDE DEF longer
<1>7. longer = Answered(n + 1)
  BY <1>1, <1>3, <1>6
<1> QED
  BY <1>7 DEF longer

\* An answer for a turn that has not succeeded changes nothing for the others.
LEMMA OtherAnswered ==
    ASSUME SuccessAnswered, answers \in Seq(AnswerLine), NEW line \in AnswerLine,
           answers' = Append(answers, line), line.turn \notin Succeeded(memory), UNCHANGED memory
    PROVE  SuccessAnswered'
<1>1. /\ DOMAIN answers = 1..Len(answers) /\ Len(answers) \in Nat
      /\ DOMAIN answers' = 1..(Len(answers) + 1)
      /\ \A i \in DOMAIN answers : answers'[i] = answers[i]
      /\ answers'[Len(answers) + 1] = line
  BY AppendKeeps
<1> SUFFICES ASSUME NEW t \in Succeeded(memory)
             PROVE  /\ HasEvent(memory, "answer.submitted", t)
                    /\ \A i \in DOMAIN answers' : answers'[i].turn = t => answers'[i].accepted
                    /\ Cardinality({i \in DOMAIN answers' : answers'[i].turn = t}) = 1
  BY DEF SuccessAnswered
<1>2. line.turn # t
  OBVIOUS
<1>3. {i \in DOMAIN answers' : answers'[i].turn = t} = {i \in DOMAIN answers : answers[i].turn = t}
  BY <1>1, <1>2
<1> QED
  BY <1>1, <1>2, <1>3 DEF SuccessAnswered

\* The turn that succeeds has its answer, and it is the only one.
LEMMA TurnAnswered ==
    ASSUME SuccessAnswered, TypeOK, turn >= 1, Succeeded(memory) = 1..(turn - 1),
           Succeeded(memory') = 1..turn, answers = Answered(turn), UNCHANGED answers,
           \A t : HasEvent(memory, "answer.submitted", t) => HasEvent(memory', "answer.submitted", t),
           HasEvent(memory, "answer.submitted", turn)
    PROVE  SuccessAnswered'
<1>1. turn \in Nat
  BY DEF TypeOK
<1>2. DOMAIN answers = 1..turn /\ \A i \in 1..turn : answers[i].turn = i /\ answers[i].accepted = TRUE
  BY DEF Answered
<1>3. ASSUME NEW t \in 1..turn PROVE HasEvent(memory', "answer.submitted", t)
  <2>1. t = turn \/ t \in Succeeded(memory)
    BY <1>1, <1>3
  <2> QED
    BY <2>1 DEF SuccessAnswered
<1>4. ASSUME NEW t \in 1..turn PROVE Cardinality({i \in DOMAIN answers : answers[i].turn = t}) = 1
  <2>1. {i \in DOMAIN answers : answers[i].turn = t} = {t}
    BY <1>2
  <2> QED
    BY <2>1, FS_Singleton
<1>5. \A i \in DOMAIN answers : answers[i].accepted
  BY <1>2
<1>6. \A t \in Succeeded(memory') : /\ HasEvent(memory', "answer.submitted", t)
                                    /\ \A i \in DOMAIN answers' : answers'[i].turn = t => answers'[i].accepted
                                    /\ Cardinality({i \in DOMAIN answers' : answers'[i].turn = t}) = 1
  BY <1>3, <1>4, <1>5
<1> QED
  BY <1>6 DEF SuccessAnswered

\* What leaves the answers and the closed turns alone.
LEMMA AnswersKept ==
    ASSUME SuccessAnswered, UNCHANGED answers, Succeeded(memory') = Succeeded(memory),
           \A t : HasEvent(memory, "answer.submitted", t) => HasEvent(memory', "answer.submitted", t)
    PROVE  SuccessAnswered'
  BY DEF SuccessAnswered

\* An append that raises leaves the turn to be failed, or the analysis.
LEMMA RaiseFlow ==
    ASSUME TypeOK, FlowInv, Appending, NEW kind \in {"os", "error"}, Raise(kind), UNCHANGED memory
    PROVE  FlowInv'
<1>1. SuccessAnswered'
  BY AnswersKept, RaiseTargets DEF FlowInv
<1>2. pc' \in {"diagnose", "respond", "fail"} \cup Ending
  BY RaiseTargets, OpsTyped DEF Appending, Ending
<1>3. pc' \in {"diagnose", "respond"} => pc \in {"project", "diagnose"} /\ active_turn' = active_turn
  BY RaiseTargets, OpsTyped DEF Appending
<1>4. pc' = "fail" => pc \in Working \cup Settling \cup Losing
  BY RaiseTargets, OpsTyped DEF Appending, Working, Settling, Losing
<1>5. UNCHANGED <<answers, turn>>
  BY RaiseTargets
<1>6. pc \in {"project", "diagnose"} => pc \in Working
  BY DEF Working
<1> QED
  BY <1>1, <1>2, <1>3, <1>4, <1>5, <1>6
     DEF FlowInv, Between, Opening, Working, Settling, Losing, Ending, AnsweredTo

\* An append that succeeds without the store.
LEMMA QuietFlow ==
    ASSUME TypeOK, FlowInv, Appending, Ops[pc].scope # "store", Succeed, UNCHANGED memory
    PROVE  FlowInv'
<1>1. pc \in {"prepare", "inject", "tool", "respond", "reject"}
  BY StoreOps, OpsTyped DEF Appending
<1>2. UNCHANGED <<answers, turn, active_turn>>
  BY SucceedTargets DEF fileVars
<1>3. SuccessAnswered'
  BY <1>2, AnswersKept DEF FlowInv
<1>4. pc = "prepare" => pc' = "next"
  BY SucceedTargets
<1>5. pc # "prepare" => pc' \in Working /\ pc \in Working
  BY <1>1, SucceedTargets DEF Working
<1> QED
  BY <1>1, <1>2, <1>3, <1>4, <1>5 DEF FlowInv, Between, Opening, Working, Settling, Losing, Ending

\* An append that reaches the store: a turn is opened, answered or closed.
LEMMA StoreFlow ==
    ASSUME TypeOK, FlowInv, Appending, Ops[pc].scope = "store", Succeed,
           memory' = Append(memory, Draft)
    PROVE  FlowInv'
<1>1. UNCHANGED <<answers, turn, active_turn>>
  BY SucceedTargets DEF fileVars
<1>2. \A type, t : HasEvent(memory, type, t) => HasEvent(memory', type, t)
  BY MemoryAppends
<1>3. turn \in Nat
  BY DEF TypeOK
<1>4. Draft.type = Ops[pc].type /\ (pc \in {"start", "accept"} => Draft.turn = turn)
  BY DEF Draft, Event
<1>5. ASSUME pc # "close" PROVE SuccessAnswered' /\ Succeeded(memory') = Succeeded(memory)
  BY <1>1, <1>2, <1>5, TurnsClose, AnswersKept DEF FlowInv
<1>6. ASSUME pc \notin {"close", "reject_close", "fail_close"}
      PROVE  \A n : AnsweredTo(memory', n) <=> AnsweredTo(memory, n)
  BY <1>6, TurnsClose DEF AnsweredTo
<1>7. CASE pc \in {"boot", "finish", "abandon"}
  BY <1>1, <1>5, <1>6, <1>7, SucceedTargets
     DEF FlowInv, Between, Opening, Working, Settling, Losing, Ending
<1>8. CASE pc = "start"
  <2>1. HasEvent(memory', "turn.started", turn)
    BY <1>4, <1>8, TurnOps, MemoryAppends DEF Appending
  <2> QED
    BY <1>1, <1>5, <1>6, <1>8, <2>1, SucceedTargets
       DEF FlowInv, Between, Opening, Working, Settling, Losing, Ending
<1>9. CASE pc \in {"project", "diagnose"}
  BY <1>1, <1>2, <1>5, <1>6, <1>9, SucceedTargets
     DEF FlowInv, Between, Opening, Working, Settling, Losing, Ending
<1>10. CASE pc = "accept"
  <2>1. HasEvent(memory', "answer.submitted", turn)
    BY <1>4, <1>10, TurnOps, MemoryAppends DEF Appending
  <2> QED
    BY <1>1, <1>2, <1>5, <1>6, <1>10, <2>1, SucceedTargets
       DEF FlowInv, Between, Opening, Working, Settling, Losing, Ending
<1>11. CASE pc = "close"
  <2>1. /\ AnsweredTo(memory, turn - 1) /\ answers = Answered(turn) /\ turn >= 1
        /\ HasEvent(memory, "answer.submitted", turn)
    BY <1>11 DEF FlowInv, Between, Settling, Ending
  <2>2. Succeeded(memory') = 1..turn /\ FailedTurns(memory') = {}
    <3>1. 1..(turn - 1) \cup {turn} = 1..turn
      BY <1>3, <2>1
    <3> QED
      BY <1>11, <2>1, <3>1, TurnsClose DEF AnsweredTo
  <2>3. SuccessAnswered'
    BY <1>1, <1>2, <2>1, <2>2, TurnAnswered DEF FlowInv, AnsweredTo
  <2> QED
    BY <1>1, <1>11, <2>1, <2>2, <2>3, SucceedTargets
       DEF FlowInv, Between, Opening, Working, Settling, Losing, Ending, AnsweredTo
<1>12. CASE pc \in {"reject_limit", "reject_close", "fail_limit", "fail_close"}
  BY <1>1, <1>5, <1>12, SucceedTargets
     DEF FlowInv, Between, Opening, Working, Settling, Losing, Ending, AnsweredTo
<1> QED
  BY <1>7, <1>8, <1>9, <1>10, <1>11, <1>12, StoreOps DEF Appending

\* An append in progress, or over.
LEMMA AppendFlow == TypeOK /\ PhaseInv /\ FlowInv /\ AppendStep => FlowInv'
<1> SUFFICES ASSUME TypeOK, PhaseInv, FlowInv, AppendStep PROVE FlowInv'
  OBVIOUS
<1> USE DEF storeVars, nativeVars, ledgerVars, fileVars
<1>1. Appending
  BY DEF AppendStep, Rejected, RecorderClosed, RecorderRefuses, AppendNative, AppendNativeFault,
         FinishCommit, FinishCommitFault, AppendLedger, AppendLedgerFault, ReplaceSnapshot,
         ReplaceSnapshotFault
<1>2. ASSUME UNCHANGED <<pc, turn, answers, active_turn, memory>> PROVE FlowInv'
  BY <1>2 DEF FlowInv, SuccessAnswered
<1>3. CASE Rejected \/ RecorderClosed \/ RecorderRefuses \/ AppendNativeFault
           \/ FinishCommitFault \/ AppendLedgerFault \/ ReplaceSnapshotFault
  <2>1. UNCHANGED memory /\ \E kind \in {"os", "error"} : Raise(kind)
    BY <1>3 DEF Rejected, RecorderClosed, RecorderRefuses, AppendNativeFault, FinishCommitFault,
                AppendLedgerFault, ReplaceSnapshotFault
  <2> QED
    BY <1>1, <2>1, RaiseFlow
<1>4. CASE AppendNative
  BY <1>1, <1>2, <1>4, QuietFlow DEF AppendNative
<1>5. CASE FinishCommit
  BY <1>1, <1>2, <1>5, QuietFlow DEF FinishCommit
<1>6. CASE AppendLedger
  BY <1>2, <1>6 DEF AppendLedger
<1>7. CASE ReplaceSnapshot
  <2>1. Ops[pc].scope = "store" /\ Succeed /\ memory' = Append(memory, Draft)
    BY <1>7 DEF ReplaceSnapshot, PhaseInv
  <2> QED
    BY <1>1, <2>1, StoreFlow
<1> QED
  BY <1>3, <1>4, <1>5, <1>6, <1>7 DEF AppendStep

\* The turn controller and the runner publish an answer once, and go on to the
\* next turn only from one that has succeeded.
LEMMA RunnerFlow == TypeOK /\ FlowInv /\ RunnerStep => FlowInv'
<1> SUFFICES ASSUME TypeOK, FlowInv, RunnerStep PROVE FlowInv'
  OBVIOUS
<1> USE DEF storeVars, nativeVars, ledgerVars, fileVars, Goto
<1>1. UNCHANGED memory /\ turn \in Nat
  BY DEF TypeOK, RunnerStep, WriteFault, NextTurn, MarkActive, Prompt, Publish, Unmark, FailTurn,
         Complete, VerifyCompleted, FailAnalysis, WriteManifest, Close
<1>2. UNCHANGED answers => SuccessAnswered'
  BY <1>1, AnswersKept DEF FlowInv
<1>3. ASSUME pc \in {"publish", "fail_publish"}, answers' = Append(answers, Answer)
      PROVE  SuccessAnswered'
  <2>1. turn >= 1 /\ Succeeded(memory) = 1..(turn - 1)
    BY <1>3 DEF FlowInv, Between, Working, Losing, Ending, AnsweredTo
  <2>2. Answer \in AnswerLine /\ Answer.turn \notin Succeeded(memory)
    BY <1>1, <2>1 DEF Answer, AnswerLine
  <2> QED
    BY <1>1, <1>3, <2>2, OtherAnswered DEF FlowInv, TypeOK
<1>4. CASE WriteFault
  <2>1. SuccessAnswered' /\ pc' = "closing"
    BY <1>2, <1>3, <1>4 DEF WriteFault
  <2> QED
    BY <2>1 DEF FlowInv, Between, Opening, Working, Settling, Losing, Ending
<1>5. CASE NextTurn
  BY <1>1, <1>2, <1>5 DEF NextTurn, FlowInv, Between, Opening, Working, Settling, Losing, Ending
<1>6. CASE MarkActive
  BY <1>1, <1>2, <1>6 DEF MarkActive, FlowInv, Between, Opening, Working, Settling, Losing, Ending
<1>7. CASE Prompt
  BY <1>1, <1>2, <1>7 DEF Prompt, FlowInv, Between, Opening, Working, Settling, Losing, Ending, AnsweredTo
<1>8. CASE Publish
  <2>1. SuccessAnswered'
    BY <1>3, <1>8 DEF Publish
  <2>2. CASE pc = "publish"
    <3>1. answers = Answered(turn - 1) /\ turn - 1 \in Nat
      BY <1>1, <2>2 DEF FlowInv, Working, Between, Ending
    <3>2. Append(Answered(turn - 1), [turn |-> (turn - 1) + 1, accepted |-> TRUE])
            = Answered((turn - 1) + 1)
      BY <3>1, AnsweredNext
    <3>3. (turn - 1) + 1 = turn
      BY <1>1
    <3>4. Answer = [turn |-> turn, accepted |-> TRUE]
      BY <2>2 DEF Answer
    <3>5. answers' = Answered(turn)
      BY <1>8, <3>1, <3>2, <3>3, <3>4 DEF Publish
    <3> QED
      BY <1>1, <1>8, <2>1, <2>2, <3>5
         DEF Publish, FlowInv, Between, Opening, Working, Settling, Losing, Ending
  <2>3. CASE pc = "fail_publish"
    BY <1>1, <1>8, <2>1, <2>3
       DEF Publish, FlowInv, Between, Opening, Working, Settling, Losing, Ending
  <2> QED
    BY <1>8, <2>2, <2>3 DEF Publish
<1>9. CASE Unmark
  BY <1>1, <1>2, <1>9 DEF Unmark, FlowInv, Between, Opening, Working, Settling, Losing, Ending, AnsweredTo
<1>10. CASE FailTurn \/ Complete \/ VerifyCompleted
  BY <1>1, <1>2, <1>10
     DEF FailTurn, Complete, VerifyCompleted, FlowInv, Between, Opening, Working, Settling, Losing, Ending
<1>11. CASE FailAnalysis \/ WriteManifest \/ Close
  BY <1>1, <1>2, <1>11
     DEF FailAnalysis, WriteManifest, Close, FlowInv, Between, Opening, Working, Settling, Losing, Ending
<1> QED
  BY <1>4, <1>5, <1>6, <1>7, <1>8, <1>9, <1>10, <1>11 DEF RunnerStep

\* Before the first turn nothing is answered.
LEMMA FlowInit == Init => FlowInv
<1> SUFFICES ASSUME Init PROVE FlowInv
  OBVIOUS
<1>1. pc = "boot" /\ turn = 0 /\ answers = <<>> /\ active_turn = None /\ memory = <<>>
  BY DEF Init
<1>2. ToSet(memory) = {}
  BY <1>1 DEF ToSet
<1>3. Succeeded(memory) = {} /\ FailedTurns(memory) = {}
  BY <1>2 DEF Succeeded, FailedTurns, HasEvent
<1>4. 1..0 = {} /\ Answered(0) = <<>>
  BY DEF Answered
<1> QED
  BY <1>1, <1>3, <1>4
     DEF FlowInv, SuccessAnswered, AnsweredTo, Between, Opening, Working, Settling, Losing, Ending

\* Every step keeps the account of the turns.
LEMMA FlowStep == DurableInv /\ FlowInv /\ [Next]_vars => FlowInv'
<1> SUFFICES ASSUME DurableInv, FlowInv, [Next]_vars PROVE FlowInv'
  OBVIOUS
<1>1. CASE UNCHANGED vars
  BY <1>1 DEF vars, storeVars, fileVars, FlowInv, SuccessAnswered
<1> QED
  BY <1>1, AppendFlow, RunnerFlow DEF Next, DurableInv

\* A turn the context counts as a success has its answer submitted and exactly
\* one line in answers.jsonl, the accepted one; while Pi is at work the
\* active-turn file names the turn the context is in.
THEOREM RunAccounted == Spec => []TurnsAccounted
<1>1. DurableInv /\ FlowInv => TurnsAccounted
  <2> SUFFICES ASSUME DurableInv, FlowInv PROVE TurnsAccounted
    OBVIOUS
  <2>1. ASSUME pc \in {"prompt", "tool", "project", "diagnose", "respond", "publish", "accept", "reject"}
        PROVE  active_turn = turn /\ InTurn(memory)
    <3>1. /\ turn \in Nat /\ turn <= Instructions /\ turn >= 1
          /\ AnsweredTo(memory, turn - 1) /\ active_turn = turn
          /\ HasEvent(memory, "turn.started", turn)
      BY <2>1, RunBounds DEF DurableInv, TypeOK, FlowInv, Between, Opening, Working, Settling, Ending
    <3> QED
      BY <3>1, RunBounds DEF InTurn, AnsweredTo
  <2> QED
    BY <2>1 DEF TurnsAccounted, ActiveTurnNamed, FlowInv
<1> QED
  BY <1>1, DurableInit, DurableStep, FlowInit, FlowStep, PTL DEF Spec

-----------------------------------------------------------------------------
(* The completed analysis *)

\* Replaying a ledger that is whole gives what the store holds, and only then.
LEMMA ReplayIsMemory == TypeOK => (Replay = memory <=> Replayable)
<1> SUFFICES ASSUME TypeOK PROVE Replay = memory <=> Replayable
  OBVIOUS
<1>1. memory # None
  BY NoneApart DEF TypeOK
<1> QED
  BY <1>1 DEF Replay, Replayable

\* The event of a completed analysis is the next line of the ledger.
LEMMA FinishLedger ==
    ASSUME TypeOK, Replayable, Appending, ledger' = Append(ledger, Line), UNCHANGED <<memory, ledger_torn>>
    PROVE  /\ ~ledger_torn' /\ Len(ledger') = Len(memory) + 1
           /\ \A i \in DOMAIN ledger' : ledger'[i].revision = i
           /\ \A i \in DOMAIN memory : ledger'[i].event = memory[i]
           /\ ledger'[Len(ledger')].event = Draft
<1>1. Draft \in EventRecord /\ ledger \in Seq(LedgerLine) /\ memory \in Seq(EventRecord)
  BY DraftTyped DEF TypeOK
<1>2. Line \in LedgerLine
  BY <1>1 DEF Line, LedgerLine
<1>3. /\ DOMAIN ledger = 1..Len(ledger) /\ Len(ledger) \in Nat
      /\ DOMAIN ledger' = 1..(Len(ledger) + 1) /\ Len(ledger') = Len(ledger) + 1
      /\ \A i \in DOMAIN ledger : ledger'[i] = ledger[i]
      /\ ledger'[Len(ledger) + 1] = Line
  BY <1>1, <1>2, AppendKeeps
<1>4. /\ ~ledger_torn /\ \A i \in DOMAIN ledger : ledger[i].revision = i
      /\ DOMAIN memory = DOMAIN ledger /\ \A i \in DOMAIN ledger : memory[i] = ledger[i].event
  BY DEF Replayable
<1>5. Len(memory) = Len(ledger)
  BY <1>1, <1>3, <1>4
<1>6. Line.revision = Len(memory) + 1 /\ Line.event = Draft
  BY DEF Line
<1>7. \A i \in DOMAIN ledger' : ledger'[i].revision = i
  <2> SUFFICES ASSUME NEW i \in DOMAIN ledger' PROVE ledger'[i].revision = i
    OBVIOUS
  <2>1. i \in DOMAIN ledger \/ i = Len(ledger) + 1
    BY <1>3
  <2> QED
    BY <1>3, <1>4, <1>5, <1>6, <2>1
<1> QED
  BY <1>3, <1>4, <1>5, <1>6, <1>7

\* The store takes it over, and the ledger replays to what the store holds.
LEMMA FinishSnapshot ==
    ASSUME TypeOK, Appending, memory' = Append(memory, Draft), UNCHANGED ledgerVars,
           ~ledger_torn, Len(ledger) = Len(memory) + 1,
           \A i \in DOMAIN ledger : ledger[i].revision = i,
           \A i \in DOMAIN memory : ledger[i].event = memory[i],
           ledger[Len(ledger)].event = Draft
    PROVE  Replayable'
<1>1. Draft \in EventRecord /\ ledger \in Seq(LedgerLine) /\ memory \in Seq(EventRecord)
  BY DraftTyped DEF TypeOK
<1>2. /\ DOMAIN memory = 1..Len(memory) /\ Len(memory) \in Nat
      /\ DOMAIN memory' = 1..(Len(memory) + 1) /\ memory' \in Seq(EventRecord)
      /\ Len(memory') = Len(memory) + 1
      /\ \A i \in DOMAIN memory : memory'[i] = memory[i]
      /\ memory'[Len(memory) + 1] = Draft
  BY <1>1, AppendKeeps
<1>3. DOMAIN ledger = 1..(Len(memory) + 1)
  BY <1>1
<1>4. \A i \in 1..(Len(memory) + 1) : memory'[i] = ledger[i].event
  <2> SUFFICES ASSUME NEW i \in 1..(Len(memory) + 1) PROVE memory'[i] = ledger[i].event
    OBVIOUS
  <2>1. i \in DOMAIN memory \/ i = Len(memory) + 1
    BY <1>2
  <2> QED
    BY <1>2, <2>1
<1>5. \A i \in 1..(Len(memory) + 1) : ledger[i].event \in EventRecord
  <2>1. \A i \in 1..Len(ledger) : ledger[i] \in LedgerLine
    BY <1>1
  <2> QED
    BY <2>1 DEF LedgerLine
<1> DEFINE events == [i \in 1..(Len(memory) + 1) |-> ledger[i].event]
<1>6. events \in Seq(EventRecord) /\ Len(events) = Len(memory) + 1
  BY <1>2, <1>5
<1>7. \A i \in 1..(Len(memory) + 1) : memory'[i] = events[i]
  BY <1>4
<1>8. memory' = events
  <2> HIDE DEF events
  <2> QED
    BY <1>2, <1>6, <1>7
<1>9. memory' = [i \in DOMAIN ledger |-> ledger[i].event]
  BY <1>3, <1>8
<1> QED
  BY <1>9 DEF Replayable, ledgerVars

\* Where the outcome is not decided yet, and no turn is being completed.
Undecided == Steps \ {"complete", "finish", "verify", "write_completed"}

\* An append leads to a claim about the outcome only from finish, step by step.
LEMMA AppendTrust == TypeOK /\ PhaseInv /\ TrustInv /\ AppendStep => TrustInv'
<1> SUFFICES ASSUME TypeOK, PhaseInv, TrustInv, AppendStep PROVE TrustInv'
  OBVIOUS
<1> USE DEF storeVars, nativeVars, ledgerVars, fileVars
<1>1. Appending
  BY DEF AppendStep, Rejected, RecorderClosed, RecorderRefuses, AppendNative, AppendNativeFault,
         FinishCommit, FinishCommitFault, AppendLedger, AppendLedgerFault, ReplaceSnapshot,
         ReplaceSnapshotFault
<1>2. manifest = None /\ pc \notin {"complete", "verify", "write_completed"}
  BY <1>1, OpsTyped DEF Appending, TrustInv
<1>3. manifest' = None /\ turn' = turn
  BY <1>1, <1>2, RaiseTargets, SucceedTargets
     DEF AppendStep, Rejected, RecorderClosed, RecorderRefuses, AppendNative, AppendNativeFault,
         FinishCommit, FinishCommitFault, AppendLedger, AppendLedgerFault, ReplaceSnapshot,
         ReplaceSnapshotFault
<1>4. pc' \in Undecided /\ manifest' = None => TrustInv'
  BY NoneApart DEF Undecided, TrustInv, CompletedIsTrusted
<1>5. ASSUME \E kind \in {"os", "error"} : Raise(kind) PROVE TrustInv'
  <2>1. pc' \in Undecided
    BY <1>1, <1>5, RaiseTargets, OpsTyped DEF Appending, Undecided
  <2> QED
    BY <1>3, <1>4, <2>1
<1>6. ASSUME pc # "finish", pc' = pc PROVE TrustInv'
  <2>1. pc' \in Undecided
    BY <1>2, <1>6 DEF TypeOK, Undecided
  <2> QED
    BY <1>3, <1>4, <2>1
<1>7. ASSUME pc # "finish", Succeed PROVE TrustInv'
  <2>1. pc' \in Undecided
    BY <1>1, <1>7, SucceedTargets, OpsTyped DEF Appending, Undecided
  <2> QED
    BY <1>3, <1>4, <2>1
<1>8. CASE Rejected \/ RecorderClosed \/ RecorderRefuses \/ AppendNativeFault
           \/ FinishCommitFault \/ AppendLedgerFault \/ ReplaceSnapshotFault
  BY <1>5, <1>8 DEF Rejected, RecorderClosed, RecorderRefuses, AppendNativeFault, FinishCommitFault,
                    AppendLedgerFault, ReplaceSnapshotFault
<1>9. CASE pc # "finish" /\ (AppendNative \/ FinishCommit \/ AppendLedger \/ ReplaceSnapshot)
  BY <1>6, <1>7, <1>9 DEF AppendNative, FinishCommit, AppendLedger, ReplaceSnapshot
<1>10. CASE pc = "finish" /\ (AppendNative \/ FinishCommit)
  <2>1. Ops[pc].scope = "store"
    BY <1>1, <1>10, StoreOps DEF Appending
  <2>2. /\ phase' \in {"finish", "ledger"} /\ phase \in {"native", "finish"} /\ pc' = "finish"
        /\ UNCHANGED <<ledger, ledger_torn, snapshot, memory>>
    BY <1>10, <2>1 DEF AppendNative, FinishCommit
  <2> QED
    BY <1>2, <1>3, <1>10, <2>2, NoneApart DEF TrustInv, Settled, Replayable, CompletedIsTrusted
<1>11. CASE pc = "finish" /\ AppendLedger
  <2>1. /\ phase = "ledger" /\ phase' = "snapshot" /\ pc' = "finish"
        /\ UNCHANGED <<snapshot, memory, ledger_torn>>
    BY <1>11 DEF AppendLedger
  <2>2. Settled /\ turn = Instructions
    BY <1>11, <2>1 DEF TrustInv
  <2>3. ledger' = Append(ledger, Line)
    BY <1>11, <2>2 DEF AppendLedger, Settled, Replayable
  <2>4. /\ ~ledger_torn' /\ Len(ledger') = Len(memory) + 1
        /\ \A i \in DOMAIN ledger' : ledger'[i].revision = i
        /\ \A i \in DOMAIN memory : ledger'[i].event = memory[i]
        /\ ledger'[Len(ledger')].event = Draft
    BY <1>1, <2>1, <2>2, <2>3, FinishLedger DEF Settled
  <2>5. Draft' = Draft
    BY <1>3, <1>11, <2>1 DEF Draft
  <2> QED
    BY <1>3, <2>1, <2>2, <2>4, <2>5, NoneApart DEF TrustInv, CompletedIsTrusted
<1>12. CASE pc = "finish" /\ ReplaceSnapshot
  <2>1. /\ phase = "snapshot" /\ memory' = Append(memory, Draft) /\ snapshot' = memory'
        /\ UNCHANGED ledgerVars
    BY <1>12 DEF ReplaceSnapshot
  <2>2. Replayable'
    BY <1>1, <1>12, <2>1, FinishSnapshot DEF TrustInv
  <2>3. Settled'
    BY <2>1, <2>2 DEF Settled
  <2>4. pc' = "verify" /\ turn = Instructions
    BY <1>1, <1>12, SucceedTargets DEF ReplaceSnapshot, TrustInv
  <2> QED
    BY <1>3, <2>3, <2>4, NoneApart DEF TrustInv, CompletedIsTrusted
<1> QED
  BY <1>8, <1>9, <1>10, <1>11, <1>12 DEF AppendStep

\* The runner claims completion only after it has verified the files.
LEMMA RunnerTrust == TypeOK /\ FlowInv /\ TrustInv /\ RunnerStep => TrustInv'
<1> SUFFICES ASSUME TypeOK, FlowInv, TrustInv, RunnerStep PROVE TrustInv'
  OBVIOUS
<1> USE DEF storeVars, nativeVars, ledgerVars, fileVars, Goto
<1>1. turn \in 0..Instructions /\ Instructions \in Nat
  BY RunBounds DEF TypeOK
<1>2. CASE WriteFault \/ MarkActive \/ Prompt \/ Publish \/ Unmark \/ FailTurn \/ FailAnalysis
  <2>1. manifest = None
    BY <1>2 DEF TrustInv, WriteFault, MarkActive, Prompt, Publish, Unmark, FailTurn, FailAnalysis
  <2>2. manifest' = None /\ pc' \in Undecided
    BY <1>2, <2>1 DEF Undecided, WriteFault, MarkActive, Prompt, Publish, Unmark, FailTurn, FailAnalysis,
                      Steps, Between, Opening, Working, Settling, Losing, Ending
  <2>3. pc' \in Undecided /\ manifest' = None => TrustInv'
    BY NoneApart DEF Undecided, TrustInv, CompletedIsTrusted
  <2> QED
    BY <2>2, <2>3
<1>3. CASE NextTurn
  <2>1. manifest' = None
    BY <1>3 DEF NextTurn, TrustInv
  <2> QED
    BY <1>1, <1>3, <2>1, NoneApart DEF NextTurn, TrustInv, CompletedIsTrusted
<1>4. CASE Complete
  <2>1. manifest' = None /\ turn = Instructions
    BY <1>4 DEF Complete, TrustInv
  <2>2. Verified => Settled
    BY ReplayIsMemory DEF Verified, Settled
  <2>3. pc' = "finish" => Settled' /\ phase' # "snapshot"
    BY <1>4, <2>2 DEF Complete, Settled, Replayable
  <2> QED
    BY <1>4, <2>1, <2>3, NoneApart DEF Complete, TrustInv, CompletedIsTrusted
<1>5. CASE VerifyCompleted
  <2>1. manifest' = None /\ turn = Instructions /\ Settled
    BY <1>5 DEF VerifyCompleted, TrustInv
  <2>2. Settled'
    BY <1>5, <2>1 DEF VerifyCompleted, Settled, Replayable
  <2> QED
    BY <1>5, <2>1, <2>2, NoneApart DEF VerifyCompleted, TrustInv, CompletedIsTrusted
<1>6. CASE WriteManifest
  <2>1. pc' = "closing" /\ UNCHANGED <<native, native_torn, ledger, ledger_torn, snapshot, answers, active_turn>>
    BY <1>6 DEF WriteManifest
  <2>2. CASE pc = "write_completed"
    <3>1. Settled /\ ~native_torn /\ Last(native) = Event("analysis.completed", 0) /\ turn = Instructions
      BY <2>2 DEF TrustInv
    <3>2. answers = Answered(turn) /\ active_turn = None
      BY <2>2 DEF FlowInv, Between
    <3>3. Replay = snapshot
      BY <3>1, ReplayIsMemory DEF Settled
    <3>4. CompletedIsTrusted'
      BY <2>1, <3>1, <3>2, <3>3 DEF CompletedIsTrusted, Answered, Replay
    <3> QED
      BY <2>1, <3>4 DEF TrustInv
  <2>3. CASE pc = "write_failed"
    BY <1>6, <2>1, <2>3 DEF WriteManifest, TrustInv, CompletedIsTrusted
  <2> QED
    BY <1>6, <2>2, <2>3 DEF WriteManifest
<1>7. CASE Close
  BY <1>7 DEF Close, TrustInv, CompletedIsTrusted, Replay
<1> QED
  BY <1>2, <1>3, <1>4, <1>5, <1>6, <1>7 DEF RunnerStep

\* Nothing is claimed at the start.
LEMMA TrustInit == Init => TrustInv
  BY NoneApart DEF Init, TrustInv, CompletedIsTrusted

\* Every step keeps what can be trusted.
LEMMA TrustStep == DurableInv /\ FlowInv /\ TrustInv /\ [Next]_vars => TrustInv'
<1> SUFFICES ASSUME DurableInv, FlowInv, TrustInv, [Next]_vars PROVE TrustInv'
  OBVIOUS
<1>1. CASE UNCHANGED vars
  BY <1>1 DEF vars, storeVars, nativeVars, ledgerVars, fileVars, TrustInv, Settled, Replayable,
              CompletedIsTrusted, Replay, Draft
<1> QED
  BY <1>1, AppendTrust, RunnerTrust DEF Next, DurableInv

\* A manifest that says completed can be trusted, whatever failed on the way.
THEOREM RunTrusted == Spec => []CompletedIsTrusted
<1>1. TrustInv => CompletedIsTrusted
  BY DEF TrustInv
<1> QED
  BY <1>1, DurableInit, DurableStep, FlowInit, FlowStep, TrustInit, TrustStep, PTL DEF Spec

-----------------------------------------------------------------------------
(* The run as its caller sees it *)

\* An append answers the next instruction when it closes a turn, and is not
\* seen otherwise.
LEMMA AppendRefines ==
    ASSUME DurableInv, FlowInv, TrustInv, AppendStep
    PROVE  [Run!RunNext]_(Run!runVars)
<1> USE DEF storeVars, nativeVars, ledgerVars, fileVars
<1>1. Appending /\ TypeOK
  BY DEF DurableInv, AppendStep, Rejected, RecorderClosed, RecorderRefuses, AppendNative,
         AppendNativeFault, FinishCommit, FinishCommitFault, AppendLedger, AppendLedgerFault,
         ReplaceSnapshot, ReplaceSnapshotFault
<1>2. manifest = None /\ pc # "done"
  BY <1>1, OpsTyped DEF Appending, TrustInv
<1>3. /\ (\E kind \in {"os", "error"} : Raise(kind)) \/ Succeed \/ pc' = pc
      /\ manifest' = manifest
  BY DEF AppendStep, Rejected, RecorderClosed, RecorderRefuses, AppendNative, AppendNativeFault,
         FinishCommit, FinishCommitFault, AppendLedger, AppendLedgerFault, ReplaceSnapshot,
         ReplaceSnapshotFault, Raise, Succeed
<1>4. pc' # "done"
  BY <1>1, <1>2, <1>3, RaiseTargets, SucceedTargets, OpsTyped DEF Appending
<1>5. Outcome = "running" /\ Outcome' = "running"
  BY <1>2, <1>3, <1>4 DEF Outcome
<1>6. memory' = memory \/ ReplaceSnapshot
  BY DEF AppendStep, Rejected, RecorderClosed, RecorderRefuses, AppendNative, AppendNativeFault,
         FinishCommit, FinishCommitFault, AppendLedger, AppendLedgerFault, ReplaceSnapshotFault
<1>7. CASE memory' = memory \/ pc # "close"
  <2>1. Succeeded(memory') = Succeeded(memory)
    BY <1>1, <1>6, <1>7, TurnsClose DEF ReplaceSnapshot
  <2> QED
    BY <1>5, <2>1 DEF Run!runVars
<1>8. CASE ReplaceSnapshot /\ pc = "close"
  <2>1. turn >= 1 /\ Succeeded(memory) = 1..(turn - 1)
    BY <1>8 DEF FlowInv, AnsweredTo, Between, Settling, Ending
  <2>2. turn \in Nat /\ turn - 1 \in Nat /\ turn <= Instructions /\ Instructions \in Nat
    BY <1>1, <2>1, RunBounds DEF TypeOK
  <2>3. Succeeded(memory') = Succeeded(memory) \cup {turn}
    BY <1>1, <1>8, <2>1, TurnsClose DEF ReplaceSnapshot
  <2>4. Succeeded(memory') = 1..turn
    BY <2>1, <2>2, <2>3
  <2>5. Cardinality(Succeeded(memory)) = turn - 1 /\ Cardinality(Succeeded(memory')) = turn
    BY <2>1, <2>2, <2>4, FS_Interval
  <2> QED
    BY <1>5, <2>2, <2>5 DEF Run!RunNext, Run!AnswerNext
<1> QED
  BY <1>6, <1>7, <1>8

\* The manifest ends the run, and so does an exception that leaves none.
LEMMA RunnerRefines ==
    ASSUME DurableInv, FlowInv, TrustInv, RunnerStep
    PROVE  [Run!RunNext]_(Run!runVars)
<1> USE DEF storeVars, nativeVars, ledgerVars, fileVars, Goto
<1>1. memory' = memory /\ pc # "done"
  BY DEF RunnerStep, WriteFault, NextTurn, MarkActive, Prompt, Publish, Unmark, FailTurn,
         Complete, VerifyCompleted, FailAnalysis, WriteManifest, Close
<1>2. Cardinality(Succeeded(memory')) = Cardinality(Succeeded(memory))
  BY <1>1
<1>3. CASE ~WriteManifest /\ ~Close
  <2>1. manifest' = manifest /\ pc' # "done"
    BY <1>3 DEF RunnerStep, WriteFault, NextTurn, MarkActive, Prompt, Publish, Unmark, FailTurn,
                Complete, VerifyCompleted, FailAnalysis
  <2>2. Outcome' = Outcome
    BY <1>1, <2>1 DEF Outcome
  <2> QED
    BY <1>2, <2>2 DEF Run!runVars
<1>4. CASE WriteManifest
  <2>1. manifest = None /\ Outcome = "running"
    BY <1>1, <1>4 DEF WriteManifest, TrustInv, Outcome
  <2>2. CASE pc = "write_failed"
    <3>1. Outcome' = "failed"
      BY <1>4, <2>2, NoneApart DEF WriteManifest, Outcome
    <3> QED
      BY <1>2, <2>1, <3>1 DEF Run!RunNext, Run!EndOtherwise
  <2>3. CASE pc = "write_completed"
    <3>1. Outcome' = "completed"
      BY <1>4, <2>3, NoneApart DEF WriteManifest, Outcome
    <3>2. Succeeded(memory) = 1..Instructions /\ Instructions \in Nat
      BY <2>3, RunBounds DEF FlowInv, TrustInv, AnsweredTo, Between
    <3>3. Cardinality(Succeeded(memory)) = Instructions
      BY <3>2, FS_Interval
    <3> QED
      BY <1>2, <2>1, <3>1, <3>3 DEF Run!RunNext, Run!EndCompleted
  <2> QED
    BY <1>4, <2>2, <2>3 DEF WriteManifest
<1>5. CASE Close
  <2>1. manifest' = manifest /\ pc' = "done"
    BY <1>5 DEF Close
  <2>2. CASE manifest # None
    <3>1. Outcome' = Outcome
      BY <2>1, <2>2 DEF Outcome
    <3> QED
      BY <1>2, <3>1 DEF Run!runVars
  <2>3. CASE manifest = None
    <3>1. Outcome = "running" /\ Outcome' = "interrupted"
      BY <1>1, <2>1, <2>3 DEF Outcome
    <3> QED
      BY <1>2, <3>1 DEF Run!RunNext, Run!EndOtherwise
  <2> QED
    BY <2>2, <2>3
<1> QED
  BY <1>3, <1>4, <1>5

\* The run implements AnalysisRun, but for its liveness: it answers one
\* instruction after the other, and ends once and for all, completed only with
\* every instruction answered.
THEOREM RunImplementsAnalysisRun == Spec => Run!RunInit /\ [][Run!RunNext]_(Run!runVars)
<1>1. Init => Run!RunInit
  <2> SUFFICES ASSUME Init PROVE Run!RunInit
    OBVIOUS
  <2>1. Succeeded(memory) = 1..0
    BY FlowInit DEF FlowInv, AnsweredTo, Between, Init
  <2>2. Cardinality(Succeeded(memory)) = 0
    BY <2>1, FS_Interval
  <2>3. Outcome = "running"
    BY DEF Init, Outcome
  <2> QED
    BY <2>2, <2>3 DEF Run!RunInit
<1>2. DurableInv /\ FlowInv /\ TrustInv /\ [Next]_vars => [Run!RunNext]_(Run!runVars)
  <2> SUFFICES ASSUME DurableInv, FlowInv, TrustInv, [Next]_vars PROVE [Run!RunNext]_(Run!runVars)
    OBVIOUS
  <2>1. CASE UNCHANGED vars
    BY <2>1 DEF vars, storeVars, fileVars, Run!runVars, Outcome
  <2> QED
    BY <2>1, AppendRefines, RunnerRefines DEF Next
<1> QED
  BY <1>1, <1>2, DurableInit, DurableStep, FlowInit, FlowStep, TrustInit, TrustStep, PTL DEF Spec
=============================================================================
