---------------------------- MODULE TrajectoryLog ----------------------------
(***************************************************************************)
(* What the native event log of a run promises to who reads it: a list of  *)
(* events that only grows, one event at a time, and of which every event   *)
(* but the last has been published.  EventLog shows that the recorder's    *)
(* file, read by RunEventReader while processes start, write, fail and     *)
(* crash, keeps this promise; TrajectoryServing builds on it.              *)
(***************************************************************************)
EXTENDS Naturals, Sequences

CONSTANT Events

VARIABLES
    trusted,       \* the events a reader trusts
    published      \* how many of them the recorder has returned

vars == <<trusted, published>>

Init == /\ trusted = <<>>
        /\ published = 0

\* One more event can be read; the one before it has been published.
Extend ==
    /\ published = Len(trusted)
    /\ \E e \in Events : trusted' = Append(trusted, e)
    /\ UNCHANGED published

Publish ==
    /\ published < Len(trusted)
    /\ published' = Len(trusted)
    /\ UNCHANGED trusted

Next == Extend \/ Publish

Spec == Init /\ [][Next]_vars

==============================================================================
