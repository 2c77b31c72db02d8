--------------------------- MODULE SnapshotStore ---------------------------
(***************************************************************************)
(* What Aspen's versioned_graph promises its readers: versions are         *)
(* published one after the other, and acquire_version returns a version    *)
(* that was the latest one at some moment between its call and its return. *)
(***************************************************************************)
EXTENDS Integers

CONSTANTS
    Thread,     \* the readers and the writer
    NoVersion   \* what a thread has that holds no version: no number >= 0

VARIABLES
    latest,     \* timestamp of the version published last
    since,      \* latest when a thread's acquire_version was called
    held        \* the version a thread holds

vars == <<latest, since, held>>

Init ==
    /\ latest = 0
    /\ since = [t \in Thread |-> 0]
    /\ held = [t \in Thread |-> NoVersion]

Call(t) ==
    /\ held[t] = NoVersion
    /\ since' = [since EXCEPT ![t] = latest]
    /\ UNCHANGED <<latest, held>>

Acquire(t) ==
    /\ held[t] = NoVersion
    /\ \E v \in since[t] .. latest : held' = [held EXCEPT ![t] = v]
    /\ since' = [since EXCEPT ![t] = 0]
    /\ UNCHANGED latest

\* A new version can only come from a thread that holds the latest one.
Publish(t) ==
    /\ held[t] = latest
    /\ latest' = latest + 1
    /\ UNCHANGED <<since, held>>

Release(t) ==
    /\ held[t] # NoVersion
    /\ held' = [held EXCEPT ![t] = NoVersion]
    /\ UNCHANGED <<latest, since>>

Next == \E t \in Thread : Call(t) \/ Acquire(t) \/ Publish(t) \/ Release(t)
Spec == Init /\ [][Next]_vars

=============================================================================
