----------------------------- MODULE EdgeSource -----------------------------
(***************************************************************************)
(* What a driver may rely on when it calls BufferedEdgeInput::get_edge: an *)
(* edge source hands out the records of the stream file in file order.     *)
(* Records are named by their position in the file, 1, 2, ..., total.      *)
(*                                                                         *)
(* The promise has one hole, which the class really has: its constructor   *)
(* starts the reader thread before it reserves the buffers, so the first   *)
(* buffer may lose records (lossy).  Everything after that buffer is       *)
(* delivered, and nothing is ever repeated or reordered.                   *)
(***************************************************************************)
EXTENDS Naturals

CONSTANT
    BUFFER_SIZE     \* records per buffer: no record past it can be lost

VARIABLES
    total,          \* records the file can yield
    last,           \* position of the last record handed out, 0 at first
    calls,          \* get_edge calls that have returned
    lossy           \* the constructor's race has dropped records

vars == <<total, last, calls, lossy>>

Init ==
    /\ total \in Nat
    /\ last = 0
    /\ calls = 0
    /\ lossy = FALSE

\* The only place where a lossy source may misbehave: before it has left the
\* first buffer.
InLossWindow == lossy /\ last < BUFFER_SIZE

\* get_edge returns true and hands out record r.
Deliver ==
    /\ \E r \in (last + 1) .. total :
          /\ r = last + 1 \/ (InLossWindow /\ r <= BUFFER_SIZE + 1)
          /\ last' = r
    /\ calls' = calls + 1
    /\ UNCHANGED <<total, lossy>>

\* get_edge returns false.
Exhausted ==
    /\ last = total \/ InLossWindow
    /\ calls' = calls + 1
    /\ UNCHANGED <<total, last, lossy>>

\* Records are dropped while the source is being constructed.
Lose ==
    /\ calls = 0
    /\ lossy' = TRUE
    /\ UNCHANGED <<total, last, calls>>

Next == Deliver \/ Exhausted \/ Lose

Spec == Init /\ [][Next]_vars
=============================================================================
