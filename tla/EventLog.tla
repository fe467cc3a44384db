------------------------------- MODULE EventLog -------------------------------
(***************************************************************************)
(* The native event log of one run: RunEventRecorder                       *)
(* (grid_agent/trajectory/recorder.py), which owns events/run-events.jsonl *)
(* by a file lock and appends to it, and RunEventReader                    *)
(* (trajectory/reader.py), which trusts a prefix of whatever it finds      *)
(* there.  Events cite artifacts of ArtifactStore, whose registry the      *)
(* recorder asks.  Several processes try to record the same run.           *)
(*                                                                         *)
(* Abstractions.  A line is an event, with its sequence, the hash it       *)
(* follows, its own hash and the contents it cites, or Torn: bytes that    *)
(* are no event, as an append under way or a failed one leaves; the reader *)
(* stops there, so that what would be joined to it does not matter.        *)
(* Hashes are numbers, drawn anew for every event built.  A process does   *)
(* one thing at a time.                                                    *)
(***************************************************************************)
EXTENDS ArtifactStore, Sequences, SequencesExt

CONSTANTS
    Torn,
    MaxDrafts      \* bound: events built

EventRecord == [sequence: Nat, previous: Nat, hash: Nat, cites: SUBSET Contents]

ASSUME LogBounds == /\ MaxDrafts \in Nat
                    /\ None \notin Procs
                    /\ Torn \notin EventRecord

VARIABLES
    exists,        \* the file is there
    lines,         \* its lines
    synced,        \* the lines that have been synced
    entry_on_disk, \* the directory entry of the file has been synced
    inherited,     \* the recorder that last claimed the file found it there
    owner,         \* the process that holds the lock, None if there is none
    recorder,      \* per process: its phase, the next sequence, the previous
                   \* hash, and whether the entry has to be synced
    draft,         \* per process, the event being appended, and how far it is
    returned,      \* the hashes of the events append has returned
    drafts         \* events built so far

fileVars == <<exists, lines, synced, entry_on_disk>>
logVars  == <<fileVars, inherited, owner, recorder, draft, returned, drafts>>
vars     == <<storeVars, logVars>>

ZeroHash == 0

Closed == [phase |-> "closed", next |-> 1, previous |-> ZeroHash,
           sync_entry |-> FALSE]
NoDraft == [at |-> "none", event |-> None]

TypeOK ==
    /\ StoreTypeOK
    /\ exists \in BOOLEAN
    /\ lines \in Seq(EventRecord \cup {Torn})
    /\ synced \in Nat
    /\ entry_on_disk \in BOOLEAN
    /\ inherited \in BOOLEAN
    /\ owner \in Procs \cup {None}
    /\ recorder \in [Procs -> [phase: {"open", "closed"}, next: Nat,
                               previous: Nat, sync_entry: BOOLEAN]]
    /\ draft \in [Procs -> {NoDraft} \cup [at: {"writing", "written"},
                                          event: EventRecord]]
    /\ returned \subseteq Nat
    /\ drafts \in Nat

Init ==
    /\ StoreInit
    /\ exists = FALSE
    /\ lines = <<>>
    /\ synced = 0
    /\ entry_on_disk = FALSE
    /\ inherited = FALSE
    /\ owner = None
    /\ recorder = [p \in Procs |-> Closed]
    /\ draft = [p \in Procs |-> NoDraft]
    /\ returned = {}
    /\ drafts = 0

-----------------------------------------------------------------------------
(* RunEventReader.read_prefix *)

\* The first line that cannot extend the trusted prefix ends it.
Extends(i) == /\ lines[i] # Torn
              /\ lines[i].sequence = i
              /\ lines[i].previous = (IF i = 1 THEN ZeroHash ELSE lines[i-1].hash)

Trusted ==
    LET lengths == {n \in 0..Len(lines) : \A i \in 1..n : Extends(i)}
    IN  SubSeq(lines, 1, CHOOSE n \in lengths : \A m \in lengths : m <= n)

-----------------------------------------------------------------------------
(* The recorder *)

Available(p) == call[p] = Idle /\ draft[p] = NoDraft

\* One process at a time, and only a file without content.
Free == owner = None /\ lines = <<>>

Claim(p) ==
    /\ Available(p)
    /\ recorder[p].phase = "closed"
    /\ Free
    /\ owner' = p
    /\ recorder' = [recorder EXCEPT ![p] = [Closed EXCEPT
                       !.phase = "open", !.sync_entry = ~exists]]
    /\ inherited' = exists
    /\ UNCHANGED <<storeVars, fileVars, draft, returned, drafts>>

\* Plausible fault: references are not verified.
CitableUnverified(p, cites) == TRUE

\* The event continues the chain this recorder remembers, not the file's.
BuildEvent(p, cites) ==
    [sequence |-> recorder[p].next, previous |-> recorder[p].previous,
     hash |-> drafts + 1, cites |-> cites]

\* append: every content the draft cites must verify in this process's own
\* registry.  The file is opened, and created if it was not there; the bytes
\* of the event are on their way.
Citable(p, cites) == \A c \in cites : Verifies(p, c)

Begin(p, cites) ==
    /\ Available(p)
    /\ recorder[p].phase = "open"
    /\ Citable(p, cites)
    /\ drafts < MaxDrafts
    /\ drafts' = drafts + 1
    /\ draft' = [draft EXCEPT ![p] = [at |-> "writing",
                                      event |-> BuildEvent(p, cites)]]
    /\ lines' = Append(lines, Torn)
    /\ exists' = TRUE
    /\ UNCHANGED <<storeVars, synced, entry_on_disk, inherited, owner, recorder,
                   returned>>

\* The rest of the bytes arrives: the torn line becomes the event.
Complete(p) ==
    /\ draft[p].at = "writing"
    /\ lines' = Append(Front(lines), draft[p].event)
    /\ draft' = [draft EXCEPT ![p].at = "written"]
    /\ UNCHANGED <<storeVars, exists, synced, entry_on_disk, inherited, owner,
                   recorder, returned, drafts>>

\* Plausible fault: the entry is never synced.
ReturnWithoutEntry(p) ==
    /\ draft[p].at = "written"
    /\ synced' = Len(lines)
    /\ recorder' = [recorder EXCEPT
           ![p] = [phase |-> "open", next |-> @.next + 1,
                   previous |-> draft[p].event.hash, sync_entry |-> FALSE]]
    /\ returned' = returned \cup {draft[p].event.hash}
    /\ draft' = [draft EXCEPT ![p] = NoDraft]
    /\ UNCHANGED <<storeVars, exists, lines, entry_on_disk, inherited, owner, drafts>>

\* fsync of the file, and of its directory if this recorder found no file:
\* the event is returned, and then published.
Return(p) ==
    /\ draft[p].at = "written"
    /\ synced' = Len(lines)
    /\ entry_on_disk' = (entry_on_disk \/ recorder[p].sync_entry)
    /\ recorder' = [recorder EXCEPT
           ![p] = [phase |-> "open", next |-> @.next + 1,
                   previous |-> draft[p].event.hash, sync_entry |-> FALSE]]
    /\ returned' = returned \cup {draft[p].event.hash}
    /\ draft' = [draft EXCEPT ![p] = NoDraft]
    /\ UNCHANGED <<storeVars, exists, lines, inherited, owner, drafts>>

\* _close_locked, and what the end of the process does to the lock.
Release(p) ==
    /\ owner' = IF owner = p THEN None ELSE owner
    /\ recorder' = [recorder EXCEPT ![p] = Closed]

\* Plausible fault: the recorder stays open after a failed append.
FailOpen(p) ==
    /\ draft[p].at # "none"
    /\ Fault
    /\ draft' = [draft EXCEPT ![p] = NoDraft]
    /\ UNCHANGED <<diskVars, registered, call, writes, fileVars, inherited, owner,
                   recorder, returned, drafts>>

\* An append fails: nothing may have been written, or a part of the line, or
\* all of it.  The recorder closes itself for good.
Fail(p) ==
    /\ draft[p].at # "none"
    /\ Fault
    /\ \/ UNCHANGED lines
       \/ draft[p].at = "writing" /\ lines' = Front(lines)
    /\ draft' = [draft EXCEPT ![p] = NoDraft]
    /\ Release(p)
    /\ UNCHANGED <<diskVars, registered, call, writes, exists, synced,
                   entry_on_disk, inherited, returned, drafts>>

Close(p) ==
    /\ Available(p)
    /\ recorder[p].phase = "open"
    /\ Release(p)
    /\ UNCHANGED <<storeVars, fileVars, inherited, draft, returned, drafts>>

\* The process dies, between any two steps; what it has written stays.
Crash(p) ==
    /\ Fault
    /\ Forget(p)
    /\ Release(p)
    /\ draft' = [draft EXCEPT ![p] = NoDraft]
    /\ UNCHANGED <<diskVars, writes, fileVars, inherited, returned, drafts>>

Record(p) ==
    \/ Claim(p)
    \/ \E cites \in SUBSET Contents : Begin(p, cites)
    \/ Complete(p)
    \/ Return(p)
    \/ Fail(p)
    \/ Close(p)
    \/ Crash(p)

Publish(p) == /\ draft[p] = NoDraft
              /\ StoreStep(p)
              /\ UNCHANGED logVars

Next == \E p \in Procs : Record(p) \/ Publish(p)

Spec == Init /\ [][Next]_vars

-----------------------------------------------------------------------------
(* Properties *)

\* Every event append has returned is on disk, and a reader finds it at its
\* sequence, even while the next append is under way, or has failed.  The file
\* has its name on disk too, if the recorder made it (recorder.py:80, "Durably
\* append"); a recorder that claims an empty file another one left, when its
\* first append failed, syncs the entry no more: sync_entry is decided by the
\* file's existence (recorder.py append, _claim_ownership).
ReturnedIsReadable ==
    \A h \in returned : \E i \in 1..Len(Trusted) : /\ Trusted[i].hash = h
                                                   /\ i <= synced
ReturnedIsNamed == (returned # {} /\ ~inherited) => entry_on_disk
ReturnedIsDurable == ReturnedIsReadable /\ ReturnedIsNamed

\* What a returned event cites has been committed with the cited content: no
\* event of the trusted prefix, returned or not, leads to a file that is not
\* there or has changed ("Artifact-before-event is mandatory",
\* docs/architecture/trajectory-events.md), and every pointer
\* a registry has returned still verifies, for ever.
CitedIsCommitted ==
    \A i \in 1..Len(Trusted) : \A c \in Trusted[i].cites :
        \E n \in Names : bound[n] = c
CitationsHold == PointersHold /\ CitedIsCommitted

\* RunEventReader sees TrajectoryLog's list in the recorder's file.
Log == INSTANCE TrajectoryLog WITH
         Events    <- 1..MaxDrafts,
         trusted   <- [i \in 1..Len(Trusted) |-> Trusted[i].hash],
         published <- Cardinality(returned)

ImplementsTrajectoryLog == Log!Spec

==============================================================================
