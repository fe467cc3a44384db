--------------------------- MODULE EventLogProofs ---------------------------
(***************************************************************************)
(* Proofs, for any processes, names and contents and any bounds, that an   *)
(* artifact never changes, that a pointer once returned verifies for ever, *)
(* that every event a reader trusts cites committed artifacts, that every  *)
(* event append has returned is on disk for a reader to find, and that the *)
(* file a reader sees is the list that TrajectoryLog promises.             *)
(*                                                                         *)
(* The argument: link(2) never rebinds a name (KeepsBound, from the guard  *)
(* of Link alone), so that what is committed stays committed. Citable is   *)
(* asked once, when an event is built; IInv says that it held of every     *)
(* event that is on its way to the file or in it, trusted or not. ChainInv *)
(* says that the file is the chain of the returned events and at most one  *)
(* line behind it, which is the owner's draft while there is an owner:     *)
(* that is why the chain a recorder remembers is the chain of the file.    *)
(***************************************************************************)
EXTENDS EventLog, TLAPS, WellFoundedInduction, FiniteSetTheorems

Committed(cites) == \A c \in cites : \E n \in Names : bound[n] = c

\* After the step; what cites is, is not primed.
RemainsCommitted(cites) == \A c \in cites : \E n \in Names : bound'[n] = c

\* What a step may never do to the names.
KeepsBound == \A n \in Names : bound[n] # None => bound'[n] = bound[n]

\* The strengthening of CitationsHold: every event built so far, in the file
\* or on its way, cites committed contents, whether a reader trusts it or not.
LinesCite == \A i \in 1..Len(lines) : lines[i] # Torn => Committed(lines[i].cites)
DraftsCite == \A p \in Procs : draft[p] # NoDraft => Committed(draft[p].event.cites)

IInv == TypeOK /\ PointersHold /\ LinesCite /\ DraftsCite

-----------------------------------------------------------------------------
(* Typing *)

\* A call of the registry that goes on to another step stays a call.
LEMMA GotoTyped ==
    ASSUME call \in [Procs -> {Idle} \cup Calls], NEW p \in Procs, call[p] # Idle,
           NEW step \in Steps, Goto(p, step)
    PROVE  call' \in [Procs -> {Idle} \cup Calls]
<1>1. call[p] \in Calls
  OBVIOUS
<1>2. [call[p] EXCEPT !.at = step] \in Calls
  BY <1>1 DEF Calls
<1>3. call' = [call EXCEPT ![p] = [call[p] EXCEPT !.at = step]]
  BY DEF Goto
<1> QED
  BY <1>2, <1>3

\* Every step of a registry leaves the artifacts and the registries well typed.
LEMMA StoreTypeStep ==
    ASSUME StoreTypeOK, NEW p \in Procs, StoreStep(p)
    PROVE  StoreTypeOK'
<1> USE DEF storeVars, diskVars, Raise, Fault
<1>1. call \in [Procs -> {Idle} \cup Calls]
  BY DEF StoreTypeOK
<1>2. call[p] # Idle => call[p] \in Calls /\ call[p].name \in Names
  BY <1>1 DEF Calls
<1>3. Idle.at = "idle"
  BY DEF Idle
<1>4. ASSUME NEW n \in Names, NEW c \in Contents, WriteJson(p, n, c) PROVE StoreTypeOK'
  <2>1. [at |-> "open", name |-> n, value |-> c] \in Calls
    BY DEF Calls, Steps
  <2> QED
    BY <1>4, <2>1, StoreBounds DEF WriteJson, StoreTypeOK
<1>5. ASSUME NEW n \in Names, RegisterExisting(p, n) PROVE StoreTypeOK'
  <2>1. [Idle EXCEPT !.at = "admit", !.name = n] \in Calls
    BY DEF Calls, Steps, Idle
  <2> QED
    BY <1>5, <2>1, StoreBounds DEF RegisterExisting, StoreTypeOK
<1>6. CASE OpenParent(p)
  <2>1. call' \in [Procs -> {Idle} \cup Calls]
    BY <1>1, <1>3, <1>6, GotoTyped DEF OpenParent, Steps
  <2> QED
    BY <1>6, <2>1 DEF OpenParent, StoreTypeOK
<1>7. CASE SyncParent(p)
  <2>1. call' \in [Procs -> {Idle} \cup Calls]
    BY <1>1, <1>3, <1>7, GotoTyped DEF SyncParent, Steps
  <2> QED
    BY <1>7, <2>1, StoreBounds DEF SyncParent, StoreTypeOK
<1>8. CASE ReadExisting(p)
  <2>1. call' \in [Procs -> {Idle} \cup Calls]
    BY <1>1, <1>3, <1>8, GotoTyped DEF ReadExisting, Steps
  <2> QED
    BY <1>8, <2>1 DEF ReadExisting, StoreTypeOK
<1>9. CASE Link(p)
  <2>1. call' \in [Procs -> {Idle} \cup Calls]
    BY <1>1, <1>3, <1>9, GotoTyped DEF Link, Steps
  <2>2. call[p].value \in Contents \cup {None}
    BY <1>2, <1>3, <1>9 DEF Link, Calls
  <2> QED
    BY <1>9, <2>1, <2>2, StoreBounds DEF Link, StoreTypeOK
<1>10. CASE SyncEntry(p)
  <2>1. call' \in [Procs -> {Idle} \cup Calls]
    BY <1>1, <1>3, <1>10, GotoTyped DEF SyncEntry, Steps
  <2>2. call[p].name \in Names
    BY <1>2, <1>3, <1>10 DEF SyncEntry
  <2> QED
    BY <1>10, <2>1, <2>2, StoreBounds DEF SyncEntry, StoreTypeOK
<1>11. CASE Admit(p)
  <2>1. call[p] \in Calls
    BY <1>2, <1>3, <1>11 DEF Admit
  <2>2. bound[call[p].name] \in Contents \cup {None}
    BY <2>1 DEF StoreTypeOK, Calls
  <2>3. [call[p] EXCEPT !.at = "verify", !.value = bound[call[p].name]] \in Calls
    BY <2>1, <2>2 DEF Calls, Steps
  <2>4. call' \in [Procs -> {Idle} \cup Calls]
    BY <1>1, <1>11, <2>3 DEF Admit
  <2> QED
    BY <1>11, <2>4 DEF Admit, StoreTypeOK
<1>12. CASE Verify(p)
  <2>1. call[p].name \in Names
    BY <1>2, <1>3, <1>12 DEF Verify
  <2>2. registered' \in [Procs -> [Contents -> Names \cup {None}]]
    BY <1>12, <2>1 DEF Verify, StoreTypeOK
  <2> QED
    BY <1>12, <2>2 DEF Verify, StoreTypeOK
<1> QED
  BY <1>4, <1>5, <1>6, <1>7, <1>8, <1>9, <1>10, <1>11, <1>12 DEF StoreStep

\* Every step of a recorder leaves the log well typed.
LEMMA RecordTypeStep ==
    ASSUME TypeOK, NEW p \in Procs, Record(p)
    PROVE  TypeOK'
<1> USE DEF storeVars, diskVars, fileVars, Closed, Release
<1>1. /\ draft \in [Procs -> {NoDraft} \cup [at: {"writing", "written"}, event: EventRecord]]
      /\ recorder \in [Procs -> [phase: {"open", "closed"}, next: Nat,
                                 previous: Nat, sync_entry: BOOLEAN]]
      /\ lines \in Seq(EventRecord \cup {Torn})
  BY DEF TypeOK
<1>2. draft[p].at # "none" => /\ draft[p] \in [at: {"writing", "written"}, event: EventRecord]
                              /\ draft[p].event \in EventRecord
                              /\ draft[p].event.hash \in Nat
  BY <1>1 DEF NoDraft, EventRecord
<1>3. Front(lines) \in Seq(EventRecord \cup {Torn})
  BY <1>1 DEF Front
<1>4. StoreTypeOK
  BY DEF TypeOK
<1>5. UNCHANGED storeVars => StoreTypeOK'
  BY <1>4 DEF StoreTypeOK
<1>6. CASE Claim(p)
  <2>1. recorder' \in [Procs -> [phase: {"open", "closed"}, next: Nat,
                                 previous: Nat, sync_entry: BOOLEAN]]
    BY <1>1, <1>6 DEF Claim, ZeroHash, TypeOK
  <2> QED
    BY <1>5, <1>6, <2>1 DEF Claim, TypeOK
<1>7. ASSUME NEW cites \in SUBSET Contents, Begin(p, cites) PROVE TypeOK'
  <2>1. BuildEvent(p, cites) \in EventRecord
    BY <1>1 DEF BuildEvent, EventRecord, TypeOK
  <2>2. draft' \in [Procs -> {NoDraft} \cup [at: {"writing", "written"}, event: EventRecord]]
    BY <1>1, <1>7, <2>1 DEF Begin
  <2>3. lines' \in Seq(EventRecord \cup {Torn})
    BY <1>1, <1>7 DEF Begin
  <2> QED
    BY <1>5, <1>7, <2>2, <2>3 DEF Begin, TypeOK
<1>8. CASE Complete(p)
  <2>1. draft[p] \in [at: {"writing", "written"}, event: EventRecord]
    BY <1>2, <1>8 DEF Complete
  <2>2. [draft[p] EXCEPT !.at = "written"] \in [at: {"writing", "written"}, event: EventRecord]
    BY <2>1
  <2>3. draft' \in [Procs -> {NoDraft} \cup [at: {"writing", "written"}, event: EventRecord]]
    BY <1>1, <1>8, <2>2 DEF Complete
  <2>4. lines' \in Seq(EventRecord \cup {Torn})
    BY <1>2, <1>3, <1>8, <2>1 DEF Complete
  <2> QED
    BY <1>5, <1>8, <2>3, <2>4 DEF Complete, TypeOK
<1>9. CASE Return(p)
  <2>1. draft[p].event.hash \in Nat
    BY <1>2, <1>9 DEF Return
  <2>2. recorder' \in [Procs -> [phase: {"open", "closed"}, next: Nat,
                                 previous: Nat, sync_entry: BOOLEAN]]
    BY <1>1, <1>9, <2>1 DEF Return
  <2>3. entry_on_disk' \in BOOLEAN
    BY <1>9 DEF Return
  <2>4. synced' \in Nat
    BY <1>1, <1>9 DEF Return
  <2> QED
    BY <1>5, <1>9, <2>1, <2>2, <2>3, <2>4 DEF Return, TypeOK
<1>10. recorder' = [recorder EXCEPT ![p] = Closed]
           => recorder' \in [Procs -> [phase: {"open", "closed"}, next: Nat,
                                       previous: Nat, sync_entry: BOOLEAN]]
  BY <1>1 DEF ZeroHash
<1>11. CASE Fail(p)
  <2>1. StoreTypeOK'
    BY <1>4, <1>11, StoreBounds DEF Fail, Fault, StoreTypeOK
  <2> QED
    BY <1>3, <1>10, <1>11, <2>1 DEF Fail, TypeOK
<1>12. CASE Close(p)
  BY <1>5, <1>10, <1>12 DEF Close, TypeOK
<1>13. CASE Crash(p)
  <2>1. StoreTypeOK'
    BY <1>4, <1>13, StoreBounds DEF Crash, Fault, Forget, EmptyRegistry, StoreTypeOK
  <2> QED
    BY <1>10, <1>13, <2>1 DEF Crash, TypeOK
<1> QED
  BY <1>6, <1>7, <1>8, <1>9, <1>11, <1>12, <1>13 DEF Record

\* The run starts well typed.
LEMMA LogTypeInit == Init => TypeOK
<1> SUFFICES ASSUME Init PROVE TypeOK
  OBVIOUS
<1>1. StoreTypeOK
  BY StoreBounds DEF Init, StoreInit, EmptyRegistry, StoreTypeOK
<1>2. draft \in [Procs -> {NoDraft} \cup [at: {"writing", "written"}, event: EventRecord]]
  BY DEF Init
<1>3. recorder \in [Procs -> [phase: {"open", "closed"}, next: Nat,
                             previous: Nat, sync_entry: BOOLEAN]]
  BY DEF Init, Closed, ZeroHash
<1>4. lines \in Seq(EventRecord \cup {Torn})
  BY DEF Init
<1>5. exists \in BOOLEAN /\ entry_on_disk \in BOOLEAN /\ inherited \in BOOLEAN
  BY DEF Init
<1>6. synced \in Nat /\ returned \subseteq Nat /\ drafts \in Nat /\ owner \in Procs \cup {None}
  BY DEF Init
<1> QED
  BY <1>1, <1>2, <1>3, <1>4, <1>5, <1>6 DEF TypeOK

\* Every step, of a registry or a recorder, leaves the run well typed.
LEMMA LogTypeStep == TypeOK /\ [Next]_vars => TypeOK'
<1> SUFFICES ASSUME TypeOK, [Next]_vars PROVE TypeOK'
  OBVIOUS
<1>1. ASSUME NEW p \in Procs, Record(p) PROVE TypeOK'
  BY <1>1, RecordTypeStep
<1>2. ASSUME NEW p \in Procs, Publish(p) PROVE TypeOK'
  BY <1>2, StoreTypeStep DEF Publish, logVars, fileVars, TypeOK
<1>3. CASE UNCHANGED vars
  BY <1>3 DEF vars, storeVars, diskVars, logVars, fileVars, TypeOK, StoreTypeOK
<1> QED
  BY <1>1, <1>2, <1>3 DEF Next

\* The artifacts and the log are well typed in every reachable state.
THEOREM LogTypeCorrect == Spec => []TypeOK
  BY LogTypeInit, LogTypeStep, PTL DEF Spec

-----------------------------------------------------------------------------
(* Names are bound once *)

\* Only Link binds a name, and only one that nobody has bound.
LEMMA BoundStep == TypeOK /\ [Next]_vars => KeepsBound
<1> SUFFICES ASSUME TypeOK, [Next]_vars PROVE KeepsBound
  OBVIOUS
<1> USE DEF storeVars, diskVars
<1>1. ASSUME NEW p \in Procs, Record(p) PROVE UNCHANGED bound
  BY <1>1 DEF Record, Claim, Begin, Complete, Return, Fail, Close, Crash
<1>2. ASSUME NEW p \in Procs, Link(p) PROVE KeepsBound
  BY <1>2 DEF Link, KeepsBound, TypeOK, StoreTypeOK
<1>3. ASSUME NEW p \in Procs, StoreStep(p), ~Link(p) PROVE UNCHANGED bound
  BY <1>3 DEF StoreStep, WriteJson, RegisterExisting, OpenParent, SyncParent,
              ReadExisting, SyncEntry, Admit, Verify
<1>4. CASE UNCHANGED vars
  BY <1>4 DEF vars, KeepsBound
<1> QED
  BY <1>1, <1>2, <1>3, <1>4 DEF Next, Publish, KeepsBound

\* An artifact is never written again: a name keeps the content link(2) gave
\* it, whatever the processes publish at the same time and wherever they fail.
THEOREM NeverRebound == Spec => WriteOnce
<1>1. TypeOK /\ [Next]_vars => [\A n \in Names : bound[n] # None => bound'[n] = bound[n]]_bound
  BY BoundStep DEF KeepsBound
<1> QED
  BY <1>1, LogTypeCorrect, PTL DEF Spec, WriteOnce

-----------------------------------------------------------------------------
(* Pointers *)

\* Only Verify remembers a name, and only with the content it has just read.
LEMMA PointerStep ==
    ASSUME TypeOK, PointersHold, KeepsBound, [Next]_vars
    PROVE  PointersHold'
<1> USE DEF storeVars, diskVars, Raise
<1>1. /\ registered \in [Procs -> [Contents -> Names \cup {None}]]
      /\ call \in [Procs -> {Idle} \cup Calls]
      /\ bound \in [Names -> Contents \cup {None}]
      /\ None \notin Contents \cup Names
  BY StoreBounds DEF TypeOK, StoreTypeOK
<1>2. SUFFICES ASSUME NEW q \in Procs, NEW c \in Contents, registered'[q][c] # None
               PROVE  bound'[registered'[q][c]] = c
  BY DEF PointersHold, Verifies
<1>3. ASSUME registered'[q][c] = registered[q][c] PROVE bound'[registered'[q][c]] = c
  <2>1. bound[registered[q][c]] = c /\ registered[q][c] \in Names
    BY <1>1, <1>2, <1>3 DEF PointersHold, Verifies
  <2> QED
    BY <1>1, <1>3, <2>1 DEF KeepsBound
<1>4. ASSUME NEW p \in Procs, Verify(p) PROVE bound'[registered'[q][c]] = c
  <2>1. UNCHANGED bound
    BY <1>4 DEF Verify
  <2>2. CASE registered'[q][c] # registered[q][c]
    <3>1. /\ bound[call[p].name] = call[p].value
          /\ registered' = [registered EXCEPT ![p][call[p].value] = call[p].name]
      BY <1>4, <2>2 DEF Verify
    <3>2. q = p /\ c = call[p].value /\ registered'[q][c] = call[p].name
      BY <1>1, <2>2, <3>1
    <3> QED
      BY <2>1, <3>1, <3>2
  <2> QED
    BY <1>3, <2>2
<1>5. ASSUME NEW p \in Procs, Crash(p) PROVE bound'[registered'[q][c]] = c
  <2>1. registered' = [registered EXCEPT ![p] = EmptyRegistry]
    BY <1>5 DEF Crash, Forget
  <2>2. q # p
    BY <1>1, <1>2, <2>1 DEF EmptyRegistry
  <2> QED
    BY <1>1, <1>3, <2>1, <2>2
<1>6. ASSUME NEW p \in Procs, Record(p), ~Crash(p) PROVE UNCHANGED registered
  BY <1>6 DEF Record, Claim, Begin, Complete, Return, Fail, Close
<1>7. ASSUME NEW p \in Procs, StoreStep(p), ~Verify(p) PROVE UNCHANGED registered
  BY <1>7 DEF StoreStep, WriteJson, RegisterExisting, OpenParent, SyncParent,
              ReadExisting, Link, SyncEntry, Admit
<1>8. CASE UNCHANGED vars
  BY <1>3, <1>8 DEF vars
<1> QED
  BY <1>3, <1>4, <1>5, <1>6, <1>7, <1>8 DEF Next, Publish

-----------------------------------------------------------------------------
(* Citations *)

\* What is committed stays committed.
LEMMA CommittedStays ==
    ASSUME TypeOK, KeepsBound, NEW cites \in SUBSET Contents, Committed(cites)
    PROVE  RemainsCommitted(cites)
  BY StoreBounds DEF Committed, RemainsCommitted, KeepsBound, TypeOK, StoreTypeOK

\* An event cites what its recorder could verify; the file only gets what was
\* on its way to it.
LEMMA CitationStep ==
    ASSUME IInv, KeepsBound, [Next]_vars
    PROVE  (LinesCite /\ DraftsCite)'
<1> USE DEF storeVars, diskVars, fileVars
<1>1. /\ draft \in [Procs -> {NoDraft} \cup [at: {"writing", "written"}, event: EventRecord]]
      /\ lines \in Seq(EventRecord \cup {Torn})
      /\ registered \in [Procs -> [Contents -> Names \cup {None}]]
  BY DEF IInv, TypeOK, StoreTypeOK
<1>2. \A e \in EventRecord : Committed(e.cites) => RemainsCommitted(e.cites)
  <2> SUFFICES ASSUME NEW e \in EventRecord, Committed(e.cites) PROVE RemainsCommitted(e.cites)
    OBVIOUS
  <2>1. e.cites \in SUBSET Contents
    BY DEF EventRecord
  <2> QED
    BY <2>1, CommittedStays DEF IInv
<1>3. ASSUME NEW i \in 1..Len(lines), lines[i] # Torn PROVE RemainsCommitted(lines[i].cites)
  <2>1. lines[i] \in EventRecord
    BY <1>1, <1>3
  <2>2. Committed(lines[i].cites)
    BY <1>3 DEF IInv, LinesCite
  <2>3. PICK e \in EventRecord : e = lines[i]
    BY <2>1
  <2> QED
    BY <1>2, <2>2, <2>3
<1>4. ASSUME NEW p \in Procs, draft[p] # NoDraft PROVE RemainsCommitted(draft[p].event.cites)
  <2>1. draft[p].event \in EventRecord
    BY <1>1, <1>4
  <2>2. Committed(draft[p].event.cites)
    BY <1>4 DEF IInv, DraftsCite
  <2>3. PICK e \in EventRecord : e = draft[p].event
    BY <2>1
  <2> QED
    BY <1>2, <2>2, <2>3
<1>5. UNCHANGED lines => LinesCite'
  BY <1>3 DEF LinesCite, Committed, RemainsCommitted
<1>6. UNCHANGED draft => DraftsCite'
  BY <1>4 DEF DraftsCite, Committed, RemainsCommitted
<1>7. ASSUME NEW p \in Procs, draft' = [draft EXCEPT ![p] = NoDraft] PROVE DraftsCite'
  BY <1>1, <1>4, <1>7 DEF DraftsCite, Committed, RemainsCommitted
<1>8. ASSUME lines' = Front(lines) PROVE LinesCite'
  <2>1. Len(lines') <= Len(lines) /\ \A i \in 1..Len(lines') : lines'[i] = lines[i]
    BY <1>1, <1>8 DEF Front
  <2> QED
    BY <1>1, <1>3, <2>1 DEF LinesCite, Committed, RemainsCommitted
<1>9. ASSUME NEW p \in Procs, NEW cites \in SUBSET Contents, Begin(p, cites)
      PROVE  LinesCite' /\ DraftsCite'
  <2>1. RemainsCommitted(cites)
    <3>1. Committed(cites)
      BY <1>1, <1>9 DEF IInv, Begin, Citable, Verifies, Committed
    <3> QED
      BY <3>1, CommittedStays DEF IInv
  <2>2. BuildEvent(p, cites).cites = cites
    BY DEF BuildEvent
  <2>3. DraftsCite'
    BY <1>1, <1>4, <1>9, <2>1, <2>2 DEF Begin, DraftsCite, Committed, RemainsCommitted
  <2>4. LinesCite'
    BY <1>1, <1>3, <1>9 DEF Begin, LinesCite, Committed, RemainsCommitted
  <2> QED
    BY <2>3, <2>4
<1>10. ASSUME NEW p \in Procs, Complete(p) PROVE LinesCite' /\ DraftsCite'
  <2>1. draft[p] # NoDraft /\ draft[p].event \in EventRecord
    BY <1>1, <1>10 DEF Complete, NoDraft
  <2>2. RemainsCommitted(draft[p].event.cites)
    BY <1>4, <2>1
  <2>3. draft' = [draft EXCEPT ![p].at = "written"]
    BY <1>10 DEF Complete
  <2>4. \A q \in Procs : draft'[q] # NoDraft => /\ draft[q] # NoDraft
                                                /\ draft'[q].event = draft[q].event
    BY <1>1, <2>1, <2>3
  <2>5. DraftsCite'
    BY <1>4, <2>4 DEF DraftsCite, Committed, RemainsCommitted
  <2>6. Front(lines) \in Seq(EventRecord \cup {Torn}) /\ Len(Front(lines)) <= Len(lines)
        /\ \A i \in 1..Len(Front(lines)) : Front(lines)[i] = lines[i]
    BY <1>1 DEF Front
  <2>7. lines' = Append(Front(lines), draft[p].event)
    BY <1>10 DEF Complete
  <2>8. LinesCite'
    BY <1>1, <1>3, <2>1, <2>2, <2>6, <2>7 DEF LinesCite, Committed, RemainsCommitted
  <2> QED
    BY <2>5, <2>8
<1>11. ASSUME NEW p \in Procs, Fail(p) PROVE LinesCite' /\ DraftsCite'
  BY <1>5, <1>7, <1>8, <1>11 DEF Fail
<1>12. ASSUME NEW p \in Procs, Return(p) \/ Crash(p) PROVE LinesCite' /\ DraftsCite'
  BY <1>5, <1>7, <1>12 DEF Return, Crash
<1>13. ASSUME NEW p \in Procs, Claim(p) \/ Close(p) \/ Publish(p) PROVE LinesCite' /\ DraftsCite'
  BY <1>5, <1>6, <1>13 DEF Claim, Close, Publish, logVars
<1>14. CASE UNCHANGED vars
  BY <1>5, <1>6, <1>14 DEF vars, logVars
<1> QED
  BY <1>9, <1>10, <1>11, <1>12, <1>13, <1>14 DEF Next, Record

\* Every set of numbers that has a bound has a greatest number.
LEMMA MaxExists ==
    ASSUME NEW S \in SUBSET Nat, NEW b \in Nat, S # {}, \A n \in S : n <= b
    PROVE  \E m \in S : \A n \in S : n <= m
<1> DEFINE T == {b - n : n \in S}
<1>1. T # {}
  OBVIOUS
<1>2. T \subseteq Nat
  <2>1. \A n \in S : n \in Nat /\ n <= b
    OBVIOUS
  <2>2. \A n \in S : b - n \in Nat
    BY <2>1
  <2> QED
    BY <2>2
<1>3. \E x \in T : \A y \in T : ~(<<y, x>> \in OpToRel(<, Nat))
  <2> HIDE DEF T
  <2> QED
  BY <1>1, <1>2, WFMin, NatLessThanWellFounded
<1>4. PICK x \in T : \A y \in T : ~(<<y, x>> \in OpToRel(<, Nat))
  BY <1>3
<1>5. \A y \in T : ~(y < x)
  BY <1>2, <1>4 DEF OpToRel
<1>6. PICK m \in S : x = b - m
  BY <1>4
<1>7. \A n \in S : n <= m
  <2>1. SUFFICES ASSUME NEW n \in S PROVE n <= m
    OBVIOUS
  <2>2. b - n \in T
    OBVIOUS
  <2>3. ~(b - n < b - m)
    BY <1>5, <1>6, <2>2
  <2> QED
    BY <2>3
<1> QED
  BY <1>7

\* A reader's prefix is the longest prefix of the file that is a chain.
LEMMA TrustedIsPrefix ==
    ASSUME TypeOK
    PROVE  /\ Len(Trusted) \in 0..Len(lines)
           /\ \A i \in 1..Len(Trusted) : Trusted[i] = lines[i] /\ Extends(i)
           /\ \A n \in 0..Len(lines) : (\A i \in 1..n : Extends(i)) => n <= Len(Trusted)
<1> DEFINE lengths == {n \in 0..Len(lines) : \A i \in 1..n : Extends(i)}
           longest == CHOOSE n \in lengths : \A m \in lengths : m <= n
<1>1. lines \in Seq(EventRecord \cup {Torn}) /\ Len(lines) \in Nat
  BY DEF TypeOK
<1>2. longest \in lengths /\ \A n \in lengths : n <= longest
  <2>1. lengths \in SUBSET Nat /\ 0 \in lengths /\ \A n \in lengths : n <= Len(lines)
    BY <1>1
  <2>2. \E n \in lengths : \A m \in lengths : m <= n
    <3> HIDE DEF lengths
    <3> QED
      BY <1>1, <2>1, MaxExists
  <2> HIDE DEF lengths
  <2> QED
    BY <2>2
<1>3. longest \in 0..Len(lines) /\ \A i \in 1..longest : Extends(i)
  BY <1>2
<1>4. Trusted = SubSeq(lines, 1, longest)
  BY DEF Trusted
<1>5. \A n \in 0..Len(lines) : (\A i \in 1..n : Extends(i)) => n <= longest
  BY <1>2
<1> HIDE DEF longest
<1>6. Len(Trusted) = longest /\ \A i \in 1..longest : Trusted[i] = lines[i]
  BY <1>1, <1>3, <1>4
<1> QED
  BY <1>3, <1>5, <1>6

\* Every pointer a registry has returned verifies for ever, and every event a
\* reader trusts, returned or not, cites artifacts that have been committed
\* with the cited content, in every reachable state.
THEOREM CitationsCommitted == Spec => []CitationsHold
<1>1. Init => IInv
  <2> SUFFICES ASSUME Init PROVE IInv
    OBVIOUS
  <2>1. PointersHold
    BY DEF Init, StoreInit, EmptyRegistry, PointersHold
  <2>2. LinesCite /\ DraftsCite
    BY DEF Init, LinesCite, DraftsCite
  <2> QED
    BY <2>1, <2>2, LogTypeInit DEF IInv
<1>2. IInv /\ [Next]_vars => IInv'
  <2> SUFFICES ASSUME IInv, [Next]_vars PROVE IInv'
    OBVIOUS
  <2>1. KeepsBound
    BY BoundStep DEF IInv
  <2> QED
    BY <2>1, LogTypeStep, PointerStep, CitationStep DEF IInv
<1>3. IInv => CitationsHold
  <2> SUFFICES ASSUME IInv PROVE CitationsHold
    OBVIOUS
  <2> QED
    BY TrustedIsPrefix DEF IInv, LinesCite, CitationsHold, CitedIsCommitted, Committed, Extends
<1> QED
  BY <1>1, <1>2, <1>3, PTL DEF Spec

-----------------------------------------------------------------------------
(* The chain *)

\* What the recorder of p continues: the hash of the last returned event.
LastHash == IF synced = 0 THEN ZeroHash ELSE lines[synced].hash

\* The returned events are the first lines; at most one line follows them.
\* Hashes are drawn in order, so no two lines share one.
Chained ==
    /\ synced <= Len(lines) /\ Len(lines) <= synced + 1
    /\ \A i \in 1..synced : Extends(i)
    /\ \A i \in 1..Len(lines) : lines[i] # Torn =>
           /\ lines[i].hash \in 1..drafts
           /\ \A j \in 1..(i-1) : lines[j].hash < lines[i].hash
    /\ (Len(lines) = synced + 1 /\ lines[synced + 1] # Torn) => Extends(synced + 1)
    /\ drafts <= MaxDrafts

\* They are what append has returned, each once.
ReturnedAreLines ==
    /\ returned = {lines[i].hash : i \in 1..synced}
    /\ IsFiniteSet(returned)
    /\ Cardinality(returned) = synced

\* Only the owner has a draft, and it continues the chain of the file.
OwnerContinues(p) ==
    /\ recorder[p].phase = "open" <=> p = owner
    /\ draft[p] # NoDraft => p = owner
    /\ p = owner =>
         /\ recorder[p].next = synced + 1
         /\ recorder[p].previous = LastHash
         /\ draft[p] = NoDraft => Len(lines) = synced
         /\ draft[p] # NoDraft =>
              /\ Len(lines) = synced + 1
              /\ draft[p].event.sequence = synced + 1
              /\ draft[p].event.previous = LastHash
              /\ draft[p].event.hash \in 1..drafts
              /\ \A i \in 1..synced : lines[i].hash < draft[p].event.hash
              /\ lines[synced + 1] = IF draft[p].at = "writing" THEN Torn ELSE draft[p].event

\* A recorder that made the file syncs its entry before it returns an event.
EntryPending ==
    ~inherited => /\ returned # {} => entry_on_disk
                  /\ owner # None /\ returned = {} => recorder[owner].sync_entry

ChainInv == /\ TypeOK
            /\ Chained
            /\ ReturnedAreLines
            /\ \A p \in Procs : OwnerContinues(p)
            /\ EntryPending

\* The run starts with no chain and no owner.
LEMMA ChainInit == Init => ChainInv
<1> SUFFICES ASSUME Init PROVE ChainInv
  OBVIOUS
<1>1. lines = <<>> /\ synced = 0 /\ returned = {} /\ drafts = 0 /\ owner = None
  BY DEF Init
<1>2. Chained
  BY <1>1, LogBounds DEF Chained
<1>3. ReturnedAreLines
  BY <1>1, FS_EmptySet DEF ReturnedAreLines
<1>4. \A p \in Procs : OwnerContinues(p)
  BY <1>1, LogBounds DEF Init, Closed, OwnerContinues
<1>5. EntryPending
  BY <1>1 DEF EntryPending
<1> QED
  BY <1>2, <1>3, <1>4, <1>5, LogTypeInit DEF ChainInv

\* What leaves the file and the events alone leaves the chain alone.
LEMMA ChainFrame ==
    ASSUME ChainInv, UNCHANGED <<lines, synced, returned, drafts>>
    PROVE  Chained' /\ ReturnedAreLines' /\ LastHash' = LastHash
  BY DEF ChainInv, Chained, Extends, ReturnedAreLines, LastHash

\* Whether a line extends the chain depends on the lines up to it.
LEMMA ExtendsKept ==
    ASSUME NEW n \in Nat, \A i \in 1..n : lines'[i] = lines[i], NEW k \in 1..n
    PROVE  Extends(k)' <=> Extends(k)
<1>1. k # 1 => k - 1 \in 1..n
  OBVIOUS
<1> QED
  BY <1>1 DEF Extends

\* A claimed file has no line, so that its chain starts with the claim.
LEMMA ClaimChain ==
    ASSUME ChainInv, TypeOK', NEW p \in Procs, Claim(p)
    PROVE  ChainInv'
<1>1. UNCHANGED <<lines, synced, returned, drafts>> /\ lines = <<>> /\ owner = None
  BY DEF Claim, fileVars, Free
<1>2. synced = 0 /\ returned = {}
  BY <1>1 DEF ChainInv, Chained, ReturnedAreLines, TypeOK
<1>3. /\ recorder' = [recorder EXCEPT ![p] = [Closed EXCEPT !.phase = "open", !.sync_entry = ~exists]]
      /\ recorder'[p].phase = "open"
      /\ recorder'[p].next = 1
      /\ recorder'[p].previous = ZeroHash
      /\ recorder'[p].sync_entry = ~exists
      /\ \A q \in Procs \ {p} : recorder'[q] = recorder[q]
  BY DEF Claim, ChainInv, TypeOK, Closed
<1>4. \A q \in Procs : OwnerContinues(q)'
  <2> SUFFICES ASSUME NEW q \in Procs PROVE OwnerContinues(q)'
    OBVIOUS
  <2>1. draft[q] = NoDraft /\ draft' = draft /\ owner' = p
    BY <1>1, LogBounds DEF Claim, ChainInv, OwnerContinues
  <2>2. q # p => recorder[q].phase # "open"
    BY <1>1, LogBounds DEF ChainInv, OwnerContinues
  <2> QED
    BY <1>1, <1>2, <1>3, <2>1, <2>2 DEF OwnerContinues, LastHash
<1>5. EntryPending'
  <2>1. inherited' = exists /\ owner' = p
    BY DEF Claim
  <2> QED
    BY <1>1, <1>2, <1>3, <2>1 DEF EntryPending
<1> QED
  BY <1>1, <1>4, <1>5, ChainFrame DEF ChainInv

\* An append draws the next hash and leaves a torn line behind the chain.
LEMMA BeginChain ==
    ASSUME ChainInv, TypeOK', NEW p \in Procs, NEW cites \in SUBSET Contents, Begin(p, cites)
    PROVE  ChainInv'
<1>1. /\ lines' = Append(lines, Torn)
      /\ drafts' = drafts + 1 /\ drafts < MaxDrafts
      /\ draft' = [draft EXCEPT ![p] = [at |-> "writing", event |-> BuildEvent(p, cites)]]
      /\ UNCHANGED <<synced, entry_on_disk, inherited, owner, recorder, returned>>
      /\ recorder[p].phase = "open" /\ draft[p] = NoDraft
  BY DEF Begin, Available
<1>2. /\ lines \in Seq(EventRecord \cup {Torn})
      /\ drafts \in Nat /\ synced \in Nat
      /\ draft \in [Procs -> {NoDraft} \cup [at: {"writing", "written"}, event: EventRecord]]
  BY DEF ChainInv, TypeOK
<1>3. p = owner /\ Len(lines) = synced
  BY <1>1 DEF ChainInv, OwnerContinues
<1>4. /\ Len(lines') = synced + 1 /\ lines'[synced + 1] = Torn
      /\ \A i \in 1..synced : lines'[i] = lines[i]
  BY <1>1, <1>2, <1>3
<1>5. LastHash' = LastHash
  BY <1>1, <1>2, <1>4 DEF LastHash
<1>6. Chained'
  <2>1. \A i \in 1..synced : Extends(i)'
    BY <1>2, <1>4, ExtendsKept DEF ChainInv, Chained
  <2>2. \A i \in 1..Len(lines') : lines'[i] # Torn =>
           /\ lines'[i].hash \in 1..drafts'
           /\ \A j \in 1..(i-1) : lines'[j].hash < lines'[i].hash
    <3> SUFFICES ASSUME NEW i \in 1..Len(lines'), lines'[i] # Torn
                 PROVE  /\ lines'[i].hash \in 1..drafts'
                        /\ \A j \in 1..(i-1) : lines'[j].hash < lines'[i].hash
      OBVIOUS
    <3>1. i \in 1..synced /\ i \in 1..Len(lines)
      BY <1>2, <1>3, <1>4
    <3> QED
      BY <1>1, <1>2, <1>4, <3>1 DEF ChainInv, Chained
  <2> QED
    BY <1>1, <1>2, <1>4, <2>1, <2>2, LogBounds DEF Chained
<1>7. ReturnedAreLines'
  BY <1>1, <1>4 DEF ChainInv, ReturnedAreLines
<1>8. \A q \in Procs : OwnerContinues(q)'
  <2> SUFFICES ASSUME NEW q \in Procs PROVE OwnerContinues(q)'
    OBVIOUS
  <2>1. CASE q # p
    BY <1>1, <1>2, <1>3, <2>1 DEF ChainInv, OwnerContinues
  <2>2. CASE q = p
    <3>1. /\ draft'[p].event.sequence = synced + 1
          /\ draft'[p].event.previous = LastHash
          /\ draft'[p].event.hash = drafts + 1
          /\ draft'[p].at = "writing"
          /\ draft'[p] # NoDraft
      BY <1>1, <1>2, <1>3 DEF ChainInv, OwnerContinues, BuildEvent, NoDraft
    <3>2. \A i \in 1..synced : lines'[i].hash < drafts + 1
      BY <1>2, <1>3, <1>4 DEF ChainInv, Chained, Extends
    <3> QED
      BY <1>1, <1>2, <1>3, <1>4, <1>5, <2>2, <3>1, <3>2 DEF ChainInv, OwnerContinues
  <2> QED
    BY <2>1, <2>2
<1>9. EntryPending'
  BY <1>1 DEF ChainInv, EntryPending
<1> QED
  BY <1>6, <1>7, <1>8, <1>9 DEF ChainInv

\* The event of the draft takes the place of the torn line.
LEMMA CompleteChain ==
    ASSUME ChainInv, TypeOK', NEW p \in Procs, Complete(p)
    PROVE  ChainInv'
<1>1. /\ draft[p].at = "writing"
      /\ lines' = Append(Front(lines), draft[p].event)
      /\ draft' = [draft EXCEPT ![p].at = "written"]
      /\ UNCHANGED <<synced, entry_on_disk, inherited, owner, recorder, returned, drafts>>
  BY DEF Complete
<1>2. /\ lines \in Seq(EventRecord \cup {Torn})
      /\ drafts \in Nat /\ synced \in Nat
      /\ draft \in [Procs -> {NoDraft} \cup [at: {"writing", "written"}, event: EventRecord]]
  BY DEF ChainInv, TypeOK
<1>3. /\ draft[p] # NoDraft /\ draft[p].event \in EventRecord /\ draft[p].event # Torn
      /\ draft[p] \in [at: {"writing", "written"}, event: EventRecord]
  BY <1>1, <1>2, LogBounds DEF NoDraft
<1>4. /\ p = owner /\ Len(lines) = synced + 1
      /\ draft[p].event.sequence = synced + 1
      /\ draft[p].event.previous = LastHash
      /\ draft[p].event.hash \in 1..drafts
      /\ \A i \in 1..synced : lines[i].hash < draft[p].event.hash
  BY <1>3 DEF ChainInv, OwnerContinues
<1>5. Len(Front(lines)) = synced /\ \A i \in 1..synced : Front(lines)[i] = lines[i]
  BY <1>2, <1>4 DEF Front
<1>6. Front(lines) \in Seq(EventRecord \cup {Torn})
  BY <1>2 DEF Front
<1>7. /\ Len(lines') = synced + 1 /\ lines'[synced + 1] = draft[p].event
      /\ \A i \in 1..synced : lines'[i] = lines[i]
  BY <1>1, <1>2, <1>3, <1>5, <1>6
<1>8. LastHash' = LastHash
  BY <1>1, <1>2, <1>7 DEF LastHash
<1>9. Chained'
  <2>1. \A i \in 1..synced : Extends(i)'
    BY <1>2, <1>7, ExtendsKept DEF ChainInv, Chained
  <2>2. Extends(synced + 1)'
    BY <1>1, <1>2, <1>3, <1>4, <1>7, <1>8 DEF Extends, LastHash
  <2>3. \A i \in 1..Len(lines') : lines'[i] # Torn =>
           /\ lines'[i].hash \in 1..drafts'
           /\ \A j \in 1..(i-1) : lines'[j].hash < lines'[i].hash
    <3> SUFFICES ASSUME NEW i \in 1..Len(lines'), lines'[i] # Torn
                 PROVE  /\ lines'[i].hash \in 1..drafts'
                        /\ \A j \in 1..(i-1) : lines'[j].hash < lines'[i].hash
      OBVIOUS
    <3>1. CASE i = synced + 1
      BY <1>1, <1>2, <1>4, <1>7, <3>1
    <3>2. CASE i \in 1..synced
      <4>1. i \in 1..Len(lines) /\ lines[i] = lines'[i]
        BY <1>2, <1>4, <1>7, <3>2
      <4>2. \A j \in 1..(i-1) : lines'[j] = lines[j]
        BY <1>2, <1>7, <3>2
      <4>3. /\ lines[i].hash \in 1..drafts
            /\ \A j \in 1..(i-1) : lines[j].hash < lines[i].hash
        BY <4>1 DEF ChainInv, Chained
      <4> QED
        BY <1>1, <4>1, <4>2, <4>3
    <3> QED
      BY <1>2, <1>7, <3>1, <3>2
  <2> QED
    BY <1>1, <1>2, <1>7, <2>1, <2>2, <2>3 DEF ChainInv, Chained
<1>10. ReturnedAreLines'
  BY <1>1, <1>7 DEF ChainInv, ReturnedAreLines
<1>11. \A q \in Procs : OwnerContinues(q)'
  <2> SUFFICES ASSUME NEW q \in Procs PROVE OwnerContinues(q)'
    OBVIOUS
  <2>1. CASE q # p
    BY <1>1, <1>2, <1>4, <2>1 DEF ChainInv, OwnerContinues
  <2>2. CASE q = p
    <3>1. /\ draft'[p].event = draft[p].event
          /\ draft'[p].at = "written"
          /\ draft'[p] # NoDraft
      BY <1>1, <1>2, <1>3 DEF NoDraft
    <3> QED
      BY <1>1, <1>2, <1>3, <1>4, <1>7, <1>8, <2>2, <3>1 DEF ChainInv, OwnerContinues
  <2> QED
    BY <2>1, <2>2
<1>12. EntryPending'
  BY <1>1 DEF ChainInv, EntryPending
<1> QED
  BY <1>9, <1>10, <1>11, <1>12 DEF ChainInv

\* What append returns is the line behind the chain, which is one longer then.
LEMMA ReturnChain ==
    ASSUME ChainInv, TypeOK', NEW p \in Procs, Return(p)
    PROVE  ChainInv'
<1>1. /\ draft[p].at = "written"
      /\ synced' = Len(lines)
      /\ entry_on_disk' = (entry_on_disk \/ recorder[p].sync_entry)
      /\ recorder' = [recorder EXCEPT
             ![p] = [phase |-> "open", next |-> @.next + 1,
                     previous |-> draft[p].event.hash, sync_entry |-> FALSE]]
      /\ returned' = returned \cup {draft[p].event.hash}
      /\ draft' = [draft EXCEPT ![p] = NoDraft]
      /\ UNCHANGED <<lines, inherited, owner, drafts>>
  BY DEF Return
<1>2. /\ lines \in Seq(EventRecord \cup {Torn})
      /\ drafts \in Nat /\ synced \in Nat
      /\ draft \in [Procs -> {NoDraft} \cup [at: {"writing", "written"}, event: EventRecord]]
      /\ recorder \in [Procs -> [phase: {"open", "closed"}, next: Nat,
                                 previous: Nat, sync_entry: BOOLEAN]]
  BY DEF ChainInv, TypeOK
<1>3. /\ draft[p] # NoDraft /\ draft[p].event \in EventRecord /\ draft[p].event # Torn
  BY <1>1, <1>2, LogBounds DEF NoDraft
<1>4. /\ p = owner /\ Len(lines) = synced + 1
      /\ recorder[p].phase = "open" /\ recorder[p].next = synced + 1
      /\ draft[p].event.hash \in 1..drafts
      /\ \A i \in 1..synced : lines[i].hash < draft[p].event.hash
      /\ lines[synced + 1] = draft[p].event
  BY <1>1, <1>3 DEF ChainInv, OwnerContinues
<1>5. synced' = synced + 1 /\ LastHash' = draft[p].event.hash
  BY <1>1, <1>2, <1>4 DEF LastHash
<1>6. Chained'
  <2>1. \A i \in 1..(synced + 1) : Extends(i)' <=> Extends(i)
    BY <1>1 DEF Extends
  <2>2. \A i \in 1..(synced + 1) : Extends(i)
    BY <1>2, <1>3, <1>4 DEF ChainInv, Chained
  <2> QED
    BY <1>1, <1>2, <1>4, <1>5, <2>1, <2>2 DEF ChainInv, Chained
<1>7. ReturnedAreLines'
  <2>1. returned' = {lines[i].hash : i \in 1..(synced + 1)}
    BY <1>1, <1>2, <1>4 DEF ChainInv, ReturnedAreLines
  <2>2. draft[p].event.hash \notin returned
    <3> SUFFICES ASSUME NEW i \in 1..synced, draft[p].event.hash = lines[i].hash PROVE FALSE
      BY DEF ChainInv, ReturnedAreLines
    <3>1. i \in 1..Len(lines) /\ lines[i] # Torn
      BY <1>2, <1>4 DEF ChainInv, Chained, Extends
    <3>2. lines[i].hash \in Nat /\ lines[i].hash < draft[p].event.hash
      BY <1>2, <1>4, <3>1 DEF ChainInv, Chained
    <3> QED
      BY <1>2, <1>4, <3>2
  <2>3. IsFiniteSet(returned') /\ Cardinality(returned') = synced + 1
    BY <1>1, <2>2, FS_AddElement DEF ChainInv, ReturnedAreLines
  <2> QED
    BY <1>1, <1>5, <2>1, <2>3 DEF ReturnedAreLines
<1>8. \A q \in Procs : OwnerContinues(q)'
  <2> SUFFICES ASSUME NEW q \in Procs PROVE OwnerContinues(q)'
    OBVIOUS
  <2>1. CASE q # p
    BY <1>1, <1>2, <1>4, <2>1 DEF ChainInv, OwnerContinues
  <2>2. CASE q = p
    <3>1. /\ draft'[p] = NoDraft
          /\ recorder'[p].phase = "open"
          /\ recorder'[p].next = synced + 2
          /\ recorder'[p].previous = draft[p].event.hash
      BY <1>1, <1>2, <1>4
    <3> QED
      BY <1>1, <1>2, <1>4, <1>5, <2>2, <3>1 DEF OwnerContinues
  <2> QED
    BY <2>1, <2>2
<1>9. EntryPending'
  <2>1. returned' # {}
    BY <1>1
  <2>2. ~inherited => entry_on_disk'
    BY <1>1, <1>4, LogBounds DEF ChainInv, EntryPending
  <2> QED
    BY <1>1, <2>1, <2>2 DEF EntryPending
<1> QED
  BY <1>6, <1>7, <1>8, <1>9 DEF ChainInv

\* Whoever loses or gives up the file leaves the chain, and perhaps a line
\* behind it; nobody owns the file then.
LEMMA ReleaseChain ==
    ASSUME ChainInv, TypeOK', NEW p \in Procs, Release(p),
           draft' = [draft EXCEPT ![p] = NoDraft],
           \/ UNCHANGED lines
           \/ draft[p].at = "writing" /\ lines' = Front(lines),
           UNCHANGED <<synced, entry_on_disk, inherited, returned, drafts>>
    PROVE  ChainInv'
<1>1. /\ owner' = IF owner = p THEN None ELSE owner
      /\ recorder' = [recorder EXCEPT ![p] = Closed]
  BY DEF Release
<1>2. /\ lines \in Seq(EventRecord \cup {Torn})
      /\ drafts \in Nat /\ synced \in Nat
      /\ draft \in [Procs -> {NoDraft} \cup [at: {"writing", "written"}, event: EventRecord]]
      /\ recorder \in [Procs -> [phase: {"open", "closed"}, next: Nat,
                                 previous: Nat, sync_entry: BOOLEAN]]
  BY DEF ChainInv, TypeOK
<1>3. CASE lines' = Front(lines) /\ draft[p].at = "writing"
  <2>1. draft[p] # NoDraft
    BY <1>3 DEF NoDraft
  <2>2. p = owner /\ Len(lines) = synced + 1
    BY <2>1 DEF ChainInv, OwnerContinues
  <2>3. Len(lines') = synced /\ \A i \in 1..synced : lines'[i] = lines[i]
    BY <1>2, <1>3, <2>2 DEF Front
  <2>4. Chained'
    <3>1. \A i \in 1..synced : Extends(i)'
      BY <1>2, <2>3, ExtendsKept DEF ChainInv, Chained
    <3>2. \A i \in 1..synced : i \in 1..Len(lines)
      BY <1>2, <2>2
    <3>3. \A i \in 1..synced : lines'[i] # Torn =>
             /\ lines'[i].hash \in 1..drafts
             /\ \A j \in 1..(i-1) : lines'[j].hash < lines'[i].hash
      <4> SUFFICES ASSUME NEW i \in 1..synced, lines'[i] # Torn
                   PROVE  /\ lines'[i].hash \in 1..drafts
                          /\ \A j \in 1..(i-1) : lines'[j].hash < lines'[i].hash
        OBVIOUS
      <4>1. \A j \in 1..(i-1) : lines'[j] = lines[j]
        BY <1>2, <2>3
      <4> QED
        BY <2>3, <3>2, <4>1 DEF ChainInv, Chained
    <3> QED
      BY <1>2, <2>3, <3>1, <3>3 DEF ChainInv, Chained
  <2>5. ReturnedAreLines'
    BY <2>3 DEF ChainInv, ReturnedAreLines
  <2>6. \A q \in Procs : OwnerContinues(q)'
    BY <1>1, <1>2, <2>2, LogBounds DEF ChainInv, OwnerContinues, Closed
  <2>7. EntryPending'
    BY <1>1, <2>2 DEF ChainInv, EntryPending
  <2> QED
    BY <2>4, <2>5, <2>6, <2>7 DEF ChainInv
<1>4. CASE UNCHANGED lines
  <2>1. Chained' /\ ReturnedAreLines' /\ LastHash' = LastHash
    BY <1>4, ChainFrame
  <2>2. \A q \in Procs : OwnerContinues(q)'
    <3> SUFFICES ASSUME NEW q \in Procs PROVE OwnerContinues(q)'
      OBVIOUS
    <3>1. CASE q = p
      BY <1>1, <1>2, <3>1, LogBounds DEF OwnerContinues, Closed
    <3>2. CASE q # p
      <4>1. recorder'[q] = recorder[q] /\ draft'[q] = draft[q] /\ (q = owner' <=> q = owner)
        BY <1>1, <1>2, <3>2, LogBounds
      <4> QED
        BY <1>4, <2>1, <4>1 DEF ChainInv, OwnerContinues
    <3> QED
      BY <3>1, <3>2
  <2>3. EntryPending'
    <3>1. owner' # None => owner' = owner /\ owner # p
      BY <1>1
    <3>2. owner' # None => recorder'[owner'] = recorder[owner]
      BY <1>1, <1>2, <3>1 DEF ChainInv, TypeOK
    <3> QED
      BY <3>1, <3>2 DEF ChainInv, EntryPending
  <2> QED
    BY <2>1, <2>2, <2>3 DEF ChainInv
<1> QED
  BY <1>3, <1>4

\* Every step keeps the chain.
LEMMA ChainStep == ChainInv /\ [Next]_vars => ChainInv'
<1> SUFFICES ASSUME ChainInv, [Next]_vars PROVE ChainInv'
  OBVIOUS
<1>1. TypeOK'
  BY LogTypeStep DEF ChainInv
<1>2. ASSUME UNCHANGED logVars PROVE ChainInv'
  BY <1>1, <1>2, ChainFrame DEF logVars, fileVars, ChainInv, OwnerContinues, EntryPending
<1>3. ASSUME NEW p \in Procs, Record(p) PROVE ChainInv'
  <2>1. CASE Claim(p)
    BY <1>1, <2>1, ClaimChain
  <2>2. CASE \E cites \in SUBSET Contents : Begin(p, cites)
    BY <1>1, <2>2, BeginChain
  <2>3. CASE Complete(p)
    BY <1>1, <2>3, CompleteChain
  <2>4. CASE Return(p)
    BY <1>1, <2>4, ReturnChain
  <2>5. CASE Fail(p)
    <3>1. /\ Release(p) /\ draft' = [draft EXCEPT ![p] = NoDraft]
          /\ \/ UNCHANGED lines
             \/ draft[p].at = "writing" /\ lines' = Front(lines)
          /\ UNCHANGED <<synced, entry_on_disk, inherited, returned, drafts>>
      BY <2>5 DEF Fail
    <3> QED
      BY <1>1, <3>1, ReleaseChain
  <2>6. CASE Close(p)
    <3>1. draft' = [draft EXCEPT ![p] = NoDraft]
      BY <2>6 DEF Close, Available, ChainInv, TypeOK
    <3>2. Release(p) /\ UNCHANGED <<lines, synced, entry_on_disk, inherited, returned, drafts>>
      BY <2>6 DEF Close, fileVars
    <3> QED
      BY <1>1, <3>1, <3>2, ReleaseChain
  <2>7. CASE Crash(p)
    <3>1. /\ Release(p) /\ draft' = [draft EXCEPT ![p] = NoDraft]
          /\ UNCHANGED <<lines, synced, entry_on_disk, inherited, returned, drafts>>
      BY <2>7 DEF Crash, fileVars
    <3> QED
      BY <1>1, <3>1, ReleaseChain
  <2> QED
    BY <1>3, <2>1, <2>2, <2>3, <2>4, <2>5, <2>6, <2>7 DEF Record
<1>4. ASSUME NEW p \in Procs, Publish(p) PROVE ChainInv'
  BY <1>2, <1>4 DEF Publish
<1>5. CASE UNCHANGED vars
  BY <1>2, <1>5 DEF vars
<1> QED
  BY <1>3, <1>4, <1>5 DEF Next

\* A reader trusts the returned events, and the one behind them once all of
\* its bytes are there.
LEMMA TrustedIsReturned ==
    ASSUME ChainInv
    PROVE  Len(Trusted) = IF Len(lines) = synced + 1 /\ lines[synced + 1] # Torn
                            THEN synced + 1 ELSE synced
<1>1. Len(Trusted) \in 0..Len(lines) /\ synced \in Nat /\ Len(lines) \in Nat
  BY TrustedIsPrefix DEF ChainInv, TypeOK
<1>2. synced <= Len(Trusted)
  BY <1>1, TrustedIsPrefix DEF ChainInv, Chained
<1>3. CASE Len(lines) = synced + 1 /\ lines[synced + 1] # Torn
  <2>1. \A i \in 1..(synced + 1) : Extends(i)
    BY <1>1, <1>3 DEF ChainInv, Chained
  <2> QED
    BY <1>1, <1>3, <2>1, TrustedIsPrefix DEF ChainInv
<1>4. CASE ~(Len(lines) = synced + 1 /\ lines[synced + 1] # Torn)
  <2>1. SUFFICES ASSUME Len(Trusted) = synced + 1 PROVE FALSE
    BY <1>1, <1>2, <1>4 DEF ChainInv, Chained
  <2>2. Extends(synced + 1) /\ Len(lines) = synced + 1
    BY <1>1, <2>1, TrustedIsPrefix DEF ChainInv, Chained
  <2> QED
    BY <1>4, <2>2 DEF Extends
<1> QED
  BY <1>3, <1>4

\* Every event append has returned is on disk at its sequence, where a reader
\* finds it, whatever the next append does; and the name of the file is on
\* disk too if a recorder made the file and was not closed before it returned.
THEOREM ReturnedDurable == Spec => []ReturnedIsDurable
<1>1. ChainInv => ReturnedIsDurable
  <2> SUFFICES ASSUME ChainInv PROVE ReturnedIsDurable
    OBVIOUS
  <2>1. synced \in Nat /\ Len(Trusted) \in Nat /\ synced <= Len(Trusted)
    BY TrustedIsReturned DEF ChainInv, TypeOK
  <2>2. \A i \in 1..synced : i \in 1..Len(Trusted) /\ Trusted[i] = lines[i]
    BY <2>1, TrustedIsPrefix DEF ChainInv
  <2>3. ReturnedIsReadable
    BY <2>1, <2>2 DEF ChainInv, ReturnedAreLines, ReturnedIsReadable
  <2>4. ReturnedIsNamed
    BY DEF ChainInv, EntryPending, ReturnedIsNamed
  <2> QED
    BY <2>3, <2>4 DEF ReturnedIsDurable
<1> QED
  BY <1>1, ChainInit, ChainStep, PTL DEF Spec

-----------------------------------------------------------------------------
(* What a reader is promised *)

\* The hashes a reader sees, one for one with the list of TrajectoryLog.
Seen == [i \in 1..Len(Trusted) |-> Trusted[i].hash]

\* The number of lines a reader trusts, and what it sees of them, by the file.
Readable == IF Len(lines) = synced + 1 /\ lines[synced + 1] # Torn
              THEN synced + 1 ELSE synced
SeesLines == /\ Seen \in Seq(1..MaxDrafts)
             /\ Len(Seen) = Readable
             /\ Readable <= Len(lines)
             /\ \A i \in 1..Readable : Seen[i] = lines[i].hash

\* A reader sees the hashes of the readable lines, and nothing else.
LEMMA SeenIsReadable == ChainInv => SeesLines
<1> SUFFICES ASSUME ChainInv PROVE SeesLines
  OBVIOUS
<1>1. Len(Trusted) \in 0..Len(lines) /\ Len(lines) \in Nat /\ Len(Trusted) = Readable
  BY TrustedIsPrefix, TrustedIsReturned DEF ChainInv, TypeOK, Readable
<1>2. \A i \in 1..Len(Trusted) : Trusted[i] = lines[i] /\ lines[i] # Torn /\ i \in 1..Len(lines)
  BY <1>1, TrustedIsPrefix DEF ChainInv, Extends
<1>3. \A i \in 1..Len(Trusted) : Trusted[i].hash = lines[i].hash /\ lines[i].hash \in 1..MaxDrafts
  BY <1>2, LogBounds DEF ChainInv, Chained, TypeOK
<1> HIDE DEF Readable
<1>4. Len(Trusted) \in Nat /\ Seen = [i \in 1..Len(Trusted) |-> Trusted[i].hash]
  BY <1>1 DEF Seen
<1>5. \A i \in 1..Len(Trusted) : Trusted[i].hash \in 1..MaxDrafts
  BY <1>3
<1>6. Seen \in Seq(1..MaxDrafts) /\ Len(Seen) = Len(Trusted)
  BY <1>4, <1>5
<1>7. \A i \in 1..Len(Trusted) : Seen[i] = lines[i].hash
  BY <1>3, <1>4
<1> QED
  BY <1>1, <1>6, <1>7 DEF SeesLines

\* Two files with the same readable lines look the same to a reader.
LEMMA SeenKept ==
    ASSUME SeesLines, SeesLines', Readable' = Readable,
           \A i \in 1..Readable : lines'[i] = lines[i]
    PROVE  Seen' = Seen
<1>1. Len(Seen') = Len(Seen) /\ \A i \in 1..Len(Seen) : Seen'[i] = Seen[i]
  BY DEF SeesLines
<1>2. Seen \in Seq(1..MaxDrafts) /\ Seen' \in Seq(1..MaxDrafts)
  BY DEF SeesLines
<1> QED
  BY <1>1, <1>2

\* The bytes of the event that was torn let a reader see one event more.
LEMMA CompleteExtends ==
    ASSUME ChainInv, ChainInv', SeesLines, SeesLines', NEW p \in Procs, Complete(p)
    PROVE  Log!Extend
<1>1. /\ draft[p].at = "writing"
      /\ lines' = Append(Front(lines), draft[p].event)
      /\ UNCHANGED <<synced, returned>>
  BY DEF Complete
<1>2. /\ lines \in Seq(EventRecord \cup {Torn}) /\ synced \in Nat
      /\ draft[p] # NoDraft /\ draft[p].event \in EventRecord
  BY <1>1 DEF ChainInv, TypeOK, NoDraft
<1>3. /\ Len(lines) = synced + 1 /\ lines[synced + 1] = Torn
      /\ draft[p].event.hash \in 1..drafts
  BY <1>1, <1>2 DEF ChainInv, OwnerContinues
<1>4. /\ Front(lines) \in Seq(EventRecord \cup {Torn}) /\ Len(Front(lines)) = synced
      /\ \A i \in 1..synced : Front(lines)[i] = lines[i]
  BY <1>2, <1>3 DEF Front
<1>5. /\ Len(lines') = synced + 1 /\ lines'[synced + 1] = draft[p].event
      /\ \A i \in 1..synced : lines'[i] = lines[i]
  BY <1>1, <1>2, <1>4
<1>6. Readable = synced /\ Readable' = synced + 1
  BY <1>1, <1>2, <1>3, <1>5, LogBounds DEF Readable
<1>7. /\ Len(Seen) = synced /\ Len(Seen') = synced + 1
      /\ \A i \in 1..synced : Seen'[i] = Seen[i]
      /\ Seen'[synced + 1] = draft[p].event.hash
  <2>1. Len(Seen) = synced /\ Len(Seen') = synced + 1
    BY <1>6 DEF SeesLines
  <2>2. \A i \in 1..synced : Seen'[i] = lines'[i].hash /\ Seen[i] = lines[i].hash
    BY <1>2, <1>6 DEF SeesLines
  <2>3. Seen'[synced + 1] = lines'[synced + 1].hash
    BY <1>2, <1>6 DEF SeesLines
  <2> QED
    BY <1>5, <2>1, <2>2, <2>3
<1>8. Seen \in Seq(1..MaxDrafts) /\ Seen' \in Seq(1..MaxDrafts)
  BY DEF SeesLines
<1>9. draft[p].event.hash \in 1..MaxDrafts
  BY <1>3, LogBounds DEF ChainInv, TypeOK, Chained
<1>10. Seen' = Append(Seen, draft[p].event.hash)
  <2> DEFINE longer == Append(Seen, draft[p].event.hash)
  <2>1. /\ longer \in Seq(1..MaxDrafts) /\ Len(longer) = synced + 1
        /\ \A i \in 1..synced : longer[i] = Seen[i]
        /\ longer[synced + 1] = draft[p].event.hash
    BY <1>2, <1>7, <1>8, <1>9
  <2> HIDE DEF longer
  <2>2. \A i \in 1..(synced + 1) : Seen'[i] = longer[i]
    <3> SUFFICES ASSUME NEW i \in 1..(synced + 1) PROVE Seen'[i] = longer[i]
      OBVIOUS
    <3>1. i \in 1..synced \/ i = synced + 1
      BY <1>2
    <3> QED
      BY <1>7, <2>1, <3>1
  <2>3. Seen' = longer
    BY <1>2, <1>7, <1>8, <2>1, <2>2
  <2> QED
    BY <2>3 DEF longer
<1>11. Cardinality(returned) = Len(Seen) /\ Cardinality(returned)' = Cardinality(returned)
  BY <1>1, <1>7 DEF ChainInv, ReturnedAreLines
<1> QED
  BY <1>9, <1>10, <1>11 DEF Log!Extend, Seen

\* What append returns is what a reader saw already.
LEMMA ReturnPublishes ==
    ASSUME ChainInv, ChainInv', SeesLines, SeesLines', NEW p \in Procs, Return(p)
    PROVE  Log!Publish
<1>1. draft[p].at = "written" /\ synced' = Len(lines) /\ UNCHANGED lines
  BY DEF Return
<1>2. /\ lines \in Seq(EventRecord \cup {Torn}) /\ synced \in Nat
      /\ draft[p] # NoDraft /\ draft[p].event \in EventRecord
  BY <1>1 DEF ChainInv, TypeOK, NoDraft
<1>3. Len(lines) = synced + 1 /\ lines[synced + 1] # Torn
  BY <1>1, <1>2, LogBounds DEF ChainInv, OwnerContinues
<1>4. Readable = synced + 1 /\ Readable' = synced + 1
  BY <1>1, <1>2, <1>3 DEF Readable
<1>5. Seen' = Seen
  BY <1>1, <1>4, SeenKept
<1>6. Cardinality(returned) = synced /\ Cardinality(returned)' = synced + 1 /\ Len(Seen) = synced + 1
  BY <1>1, <1>2, <1>3, <1>4 DEF ChainInv, ReturnedAreLines, SeesLines
<1> QED
  BY <1>2, <1>5, <1>6 DEF Log!Publish, Seen

\* A torn line more, or less, shows a reader nothing.
LEMMA TornUnseen ==
    ASSUME ChainInv, ChainInv', SeesLines, SeesLines', UNCHANGED <<synced, returned>>,
           Readable' = Readable, \A i \in 1..Readable : lines'[i] = lines[i]
    PROVE  UNCHANGED Log!vars
<1>1. Seen' = Seen
  BY SeenKept
<1>2. Cardinality(returned)' = Cardinality(returned)
  OBVIOUS
<1> QED
  BY <1>1, <1>2 DEF Log!vars, Seen

\* Only the last bytes of an append, and its return, show a reader anything: a
\* file that is claimed, given up or lost, an append that begins or fails, and
\* an artifact that is published do not.
LEMMA LogStep == ChainInv /\ ChainInv' /\ SeesLines /\ SeesLines' /\ [Next]_vars
                 => [Log!Next]_(Log!vars)
<1> SUFFICES ASSUME ChainInv, ChainInv', SeesLines, SeesLines', [Next]_vars
             PROVE  [Log!Next]_(Log!vars)
  OBVIOUS
<1>1. lines \in Seq(EventRecord \cup {Torn}) /\ synced \in Nat
  BY DEF ChainInv, TypeOK
<1>2. ASSUME UNCHANGED <<lines, synced, returned>> PROVE UNCHANGED Log!vars
  BY <1>2, TornUnseen DEF Readable
<1>3. ASSUME NEW p \in Procs, Record(p) PROVE [Log!Next]_(Log!vars)
  <2>1. CASE Claim(p) \/ Close(p) \/ Crash(p)
    BY <1>2, <2>1 DEF Claim, Close, Crash, fileVars
  <2>2. ASSUME NEW cites \in SUBSET Contents, Begin(p, cites) PROVE UNCHANGED Log!vars
    <3>1. /\ lines' = Append(lines, Torn) /\ UNCHANGED <<synced, returned>>
          /\ recorder[p].phase = "open" /\ draft[p] = NoDraft
      BY <2>2 DEF Begin, Available
    <3>2. Len(lines) = synced
      BY <3>1 DEF ChainInv, OwnerContinues
    <3>3. /\ Len(lines') = synced + 1 /\ lines'[synced + 1] = Torn
          /\ \A i \in 1..synced : lines'[i] = lines[i]
      BY <1>1, <3>1, <3>2
    <3>4. Readable = synced /\ Readable' = synced
      BY <1>1, <3>1, <3>2, <3>3 DEF Readable
    <3> QED
      BY <3>1, <3>3, <3>4, TornUnseen
  <2>3. CASE Complete(p)
    BY <2>3, CompleteExtends DEF Log!Next
  <2>4. CASE Return(p)
    BY <2>4, ReturnPublishes DEF Log!Next
  <2>5. CASE Fail(p)
    <3>1. CASE UNCHANGED lines
      BY <1>2, <2>5, <3>1 DEF Fail
    <3>2. CASE draft[p].at = "writing" /\ lines' = Front(lines)
      <4>1. draft[p] # NoDraft /\ UNCHANGED <<synced, returned>>
        BY <2>5, <3>2 DEF Fail, NoDraft
      <4>2. Len(lines) = synced + 1 /\ lines[synced + 1] = Torn
        BY <3>2, <4>1 DEF ChainInv, OwnerContinues
      <4>3. Len(lines') = synced /\ \A i \in 1..synced : lines'[i] = lines[i]
        BY <1>1, <3>2, <4>2 DEF Front
      <4>4. Readable = synced /\ Readable' = synced
        BY <1>1, <4>1, <4>2, <4>3 DEF Readable
      <4> QED
        BY <4>1, <4>3, <4>4, TornUnseen
    <3> QED
      BY <2>5, <3>1, <3>2 DEF Fail
  <2> QED
    BY <1>3, <2>1, <2>2, <2>3, <2>4, <2>5 DEF Record
<1>4. ASSUME NEW p \in Procs, Publish(p) PROVE [Log!Next]_(Log!vars)
  BY <1>2, <1>4 DEF Publish, logVars, fileVars
<1>5. CASE UNCHANGED vars
  BY <1>2, <1>5 DEF vars, logVars, fileVars
<1> QED
  BY <1>3, <1>4, <1>5 DEF Next

\* What RunEventReader trusts of the recorder's file, while processes start,
\* write, fail and crash, is a list that only grows, one event at a time, and
\* of which every event but the last has been returned.
THEOREM LogImplementsTrajectoryLog == Spec => ImplementsTrajectoryLog
<1>1. Init => Log!Init
  <2> SUFFICES ASSUME Init PROVE Log!Init
    OBVIOUS
  <2>1. ChainInv /\ SeesLines
    BY ChainInit, SeenIsReadable
  <2>2. lines = <<>> /\ synced = 0 /\ returned = {}
    BY DEF Init
  <2>3. Seen = <<>>
    BY <2>1, <2>2 DEF SeesLines, Readable
  <2>4. Cardinality(returned) = 0
    BY <2>2, FS_EmptySet
  <2> QED
    BY <2>3, <2>4 DEF Log!Init, Seen
<1> QED
  BY <1>1, ChainInit, ChainStep, SeenIsReadable, LogStep, PTL
     DEF Spec, ImplementsTrajectoryLog, Log!Spec

=============================================================================
