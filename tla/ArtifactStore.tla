---------------------------- MODULE ArtifactStore ----------------------------
(***************************************************************************)
(* The immutable artifacts of one run: ImmutableArtifactRegistry           *)
(* (grid_agent/trajectory/artifacts.py), as several processes use it on    *)
(* the same run root.  An artifact is published under a name once, with    *)
(* link(2), which refuses a name that exists; a registry keeps, in memory, *)
(* the pointers it has verified itself.                                    *)
(*                                                                         *)
(* Each system call that another process can come between, and each one    *)
(* that can fail with the earlier ones done, is a step.  A name stands for *)
(* a kind, an identity and the directory they lead to; a content for the   *)
(* bytes, their size and their digest.  A registry keys its pointers by    *)
(* content, as the code keys them by the digest: of two names with one     *)
(* content the last one registered is remembered.                          *)
(***************************************************************************)
EXTENDS Naturals, FiniteSets

CONSTANTS
    Procs,         \* the processes, each with a registry of its own
    Names,         \* names write_json publishes
    Contents,
    MaxWrites,     \* bound: calls of write_json and register_existing
    MaxFaults,     \* bound: failing system calls, and crashes
    None

ASSUME StoreBounds == /\ None \notin Names \cup Contents
                      /\ MaxWrites \in Nat
                      /\ MaxFaults \in Nat

VARIABLES
    directory,     \* of each name: "absent", "made", or "synced" when its
                   \* own entry is on disk
    bound,         \* the content a name is bound to, or None
    entry_synced,  \* the names whose directory entry is on disk
    registered,    \* per process, the name it remembers for each content
    call,          \* per process, the call of the registry under way
    writes,        \* calls so far
    faults         \* faults so far

diskVars  == <<directory, bound, entry_synced>>
storeVars == <<diskVars, registered, call, writes, faults>>

Idle == [at |-> "idle", name |-> None, value |-> None]
Steps == {"open", "sync_parent", "read", "link", "sync_entry", "admit", "verify"}
Calls == [at: Steps, name: Names, value: Contents \cup {None}]

StoreTypeOK ==
    /\ directory \in [Names -> {"absent", "made", "synced"}]
    /\ bound \in [Names -> Contents \cup {None}]
    /\ entry_synced \subseteq Names
    /\ registered \in [Procs -> [Contents -> Names \cup {None}]]
    /\ call \in [Procs -> {Idle} \cup Calls]
    /\ writes \in 0..MaxWrites
    /\ faults \in 0..MaxFaults

EmptyRegistry == [c \in Contents |-> None]

StoreInit ==
    /\ directory = [n \in Names |-> "absent"]
    /\ bound = [n \in Names |-> None]
    /\ entry_synced = {}
    /\ registered = [p \in Procs |-> EmptyRegistry]
    /\ call = [p \in Procs |-> Idle]
    /\ writes = 0
    /\ faults = 0

Goto(p, step) == call' = [call EXCEPT ![p].at = step]

\* The call raises ArtifactIntegrityError or an OSError: nothing is undone.
Raise(p) == call' = [call EXCEPT ![p] = Idle]

Fault == /\ faults < MaxFaults
         /\ faults' = faults + 1

\* The pointer of content c still leads to a file with that content.
Verifies(p, c) == LET n == registered[p][c]
                  IN  n # None /\ bound[n] = c

-----------------------------------------------------------------------------
(* write_json and register_existing *)

WriteJson(p, n, c) ==
    /\ call[p] = Idle
    /\ writes < MaxWrites
    /\ writes' = writes + 1
    /\ call' = [call EXCEPT ![p] = [at |-> "open", name |-> n, value |-> c]]
    /\ UNCHANGED <<diskVars, registered, faults>>

\* The parent is opened, or made first; only who makes it syncs its entry.
OpenParent(p) ==
    /\ call[p].at = "open"
    /\ IF directory[call[p].name] = "absent"
       THEN /\ directory' = [directory EXCEPT ![call[p].name] = "made"]
            /\ Goto(p, "sync_parent")
       ELSE /\ Goto(p, "read")
            /\ UNCHANGED directory
    /\ UNCHANGED <<bound, entry_synced, registered, writes, faults>>

SyncParent(p) ==
    /\ call[p].at = "sync_parent"
    /\ \/ /\ directory' = [directory EXCEPT ![call[p].name] = "synced"]
          /\ Goto(p, "read")
          /\ UNCHANGED faults
       \/ /\ Fault
          /\ Raise(p)
          /\ UNCHANGED directory
    /\ UNCHANGED <<bound, entry_synced, registered, writes>>

\* A name that is bound already is compared, and never written again.
ReadExisting(p) ==
    /\ call[p].at = "read"
    /\ LET existing == bound[call[p].name]
       IN  CASE existing = None          -> Goto(p, "link")
             [] existing = call[p].value -> Goto(p, "verify")
             [] OTHER                    -> Raise(p)
    /\ UNCHANGED <<diskVars, registered, writes, faults>>

\* Plausible fault: os.replace instead of os.link.
LinkReplacing(p) ==
    /\ call[p].at = "link"
    /\ bound' = [bound EXCEPT ![call[p].name] = call[p].value]
    /\ Goto(p, "sync_entry")
    /\ UNCHANGED <<directory, entry_synced, registered, writes, faults>>

\* The temporary file is complete and synced before it gets the name; a name
\* another process has bound meanwhile is read again.
Link(p) ==
    /\ call[p].at = "link"
    /\ \/ /\ bound[call[p].name] = None
          /\ bound' = [bound EXCEPT ![call[p].name] = call[p].value]
          /\ Goto(p, "sync_entry")
          /\ UNCHANGED faults
       \/ /\ bound[call[p].name] # None
          /\ Goto(p, "read")
          /\ UNCHANGED <<bound, faults>>
       \/ /\ Fault
          /\ Raise(p)
          /\ UNCHANGED bound
    /\ UNCHANGED <<directory, entry_synced, registered, writes>>

SyncEntry(p) ==
    /\ call[p].at = "sync_entry"
    /\ \/ /\ entry_synced' = entry_synced \cup {call[p].name}
          /\ Goto(p, "verify")
          /\ UNCHANGED faults
       \/ /\ Fault
          /\ Raise(p)
          /\ UNCHANGED entry_synced
    /\ UNCHANGED <<directory, bound, registered, writes>>

RegisterExisting(p, n) ==
    /\ call[p] = Idle
    /\ writes < MaxWrites
    /\ writes' = writes + 1
    /\ call' = [call EXCEPT ![p] = [Idle EXCEPT !.at = "admit", !.name = n]]
    /\ UNCHANGED <<diskVars, registered, faults>>

Admit(p) ==
    /\ call[p].at = "admit"
    /\ IF bound[call[p].name] = None
       THEN Raise(p)
       ELSE call' = [call EXCEPT ![p].at = "verify",
                                 ![p].value = bound[call[p].name]]
    /\ UNCHANGED <<diskVars, registered, writes, faults>>

\* The file is opened and digested again before its pointer is remembered.
Verify(p) ==
    /\ call[p].at = "verify"
    /\ LET c == call[p]
       IN  registered' = IF bound[c.name] = c.value
                         THEN [registered EXCEPT ![p][c.value] = c.name]
                         ELSE registered
    /\ Raise(p)
    /\ UNCHANGED <<diskVars, writes, faults>>

\* The process ends in the middle of whatever it did; nothing restores the
\* registry of the next one.
Forget(p) ==
    /\ call' = [call EXCEPT ![p] = Idle]
    /\ registered' = [registered EXCEPT ![p] = EmptyRegistry]

StoreStep(p) ==
    \/ \E n \in Names, c \in Contents : WriteJson(p, n, c)
    \/ \E n \in Names : RegisterExisting(p, n)
    \/ OpenParent(p)
    \/ SyncParent(p)
    \/ ReadExisting(p)
    \/ Link(p)
    \/ SyncEntry(p)
    \/ Admit(p)
    \/ Verify(p)

-----------------------------------------------------------------------------
(* Properties *)

\* No artifact ever changes: whatever two processes publish at the same time,
\* a name that has a content keeps it (artifacts.py _write_bytes_atomic).
WriteOnce ==
    [][\A n \in Names : bound[n] # None => bound'[n] = bound[n]]_bound

\* Every pointer a registry has returned still verifies, in every process,
\* for ever (artifacts.py verify_reference): a citation never goes stale.
PointersHold ==
    \A p \in Procs, c \in Contents : registered[p][c] # None => Verifies(p, c)

==============================================================================
