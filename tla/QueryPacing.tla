---------------------------- MODULE QueryPacing ----------------------------
(***************************************************************************)
(* The loop of the continuous query tests, without the graph: when the     *)
(* clock is looked at, when connected components are computed and what the *)
(* query file then says.  It is modelled from Terrace's                    *)
(* continuous_query_test.cc; Aspen's driver is shown to follow it          *)
(* (AspenIngest).                                                          *)
(***************************************************************************)
EXTENDS DriverLoop

vars == <<pc, i, num_updates, status_idx, log_count, rows, lastRow>>

Init ==
    /\ pc = "loop"
    /\ i = 0
    /\ num_updates = NumEdges
    /\ status_idx = 0
    /\ log_count = 0
    /\ rows = 0
    /\ lastRow = FALSE

\* The top of an iteration; every status_interval iterations the clock is
\* looked at, and the timeout has not passed.
StatusCheck ==
    /\ pc = "loop"
    /\ i < num_updates
    /\ status_idx' = IF status_idx + 1 >= status_interval THEN 0 ELSE status_idx + 1
    /\ pc' = "query"
    /\ UNCHANGED <<i, num_updates, log_count, rows, lastRow>>

\* The timeout has passed: the loop is left with the updates made so far.
Timeout ==
    /\ pc = "loop"
    /\ i < num_updates
    /\ status_idx + 1 >= status_interval
    /\ num_updates' = i
    /\ pc' = "flush"
    /\ UNCHANGED <<i, status_idx, log_count, rows, lastRow>>

\* A query, and its row.
Query ==
    /\ pc = "query"
    /\ log_count >= query_interval
    /\ rows' = rows + 1
    /\ log_count' = 0
    /\ pc' = "update"
    /\ UNCHANGED <<i, num_updates, status_idx, lastRow>>

NoQuery ==
    /\ pc = "query"
    /\ log_count < query_interval
    /\ log_count' = log_count + 1
    /\ pc' = "update"
    /\ UNCHANGED <<i, num_updates, status_idx, rows, lastRow>>

\* The update itself.
MakeUpdate ==
    /\ pc = "update"
    /\ i' = i + 1
    /\ pc' = "loop"
    /\ UNCHANGED <<num_updates, status_idx, log_count, rows, lastRow>>

LoopEnds ==
    /\ pc = "loop"
    /\ i >= num_updates
    /\ pc' = "flush"
    /\ UNCHANGED <<i, num_updates, status_idx, log_count, rows, lastRow>>

\* The flush and the last query, whose row says 100 whatever ended the loop.
LastQuery ==
    /\ pc = "flush"
    /\ lastRow' = TRUE
    /\ pc' = "done"
    /\ UNCHANGED <<i, num_updates, status_idx, log_count, rows>>

Done == pc = "done" /\ UNCHANGED vars

Next ==
    \/ StatusCheck \/ Timeout \/ Query \/ NoQuery \/ MakeUpdate \/ LoopEnds
    \/ LastQuery \/ Done

Spec == Init /\ [][Next]_vars

-----------------------------------------------------------------------------
TypeOK ==
    /\ pc \in {"loop", "query", "update", "flush", "done"}
    /\ i \in 0 .. NumEdges
    /\ num_updates \in 0 .. NumEdges
    /\ status_idx \in 0 .. status_interval - 1
    /\ log_count \in 0 .. query_interval
    /\ rows \in Nat
    /\ lastRow \in BOOLEAN
=============================================================================
