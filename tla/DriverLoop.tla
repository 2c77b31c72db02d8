----------------------------- MODULE DriverLoop -----------------------------
(***************************************************************************)
(* What the loops of the continuous query tests of Aspen and Terrace have  *)
(* in common: their counters, how often they query, and what the query file*)
(* is to say.  QueryPacing and AspenIngest are the loops themselves.       *)
(***************************************************************************)
EXTENDS Integers

CONSTANTS
    NumEdges,           \* the header's num_edges
    Queries,            \* the number of queries asked for, X
    status_interval     \* updates between two looks at the clock (100000)

ASSUME NumEdgesAssumption == NumEdges \in Nat
ASSUME QueriesAssumption == Queries \in Nat \ {0}
ASSUME StatusAssumption == status_interval \in Nat \ {0}

VARIABLES
    pc,
    i,                  \* the loop counter
    num_updates,
    status_idx,
    log_count,
    rows,               \* rows of the query file, the last one excepted
    lastRow             \* the row labelled 100 has been given to the file's
                        \* stream, which exit() leaves unflushed

\* round() of an integer quotient.
query_interval == NumEdges \div Queries

-----------------------------------------------------------------------------
(* Properties.                                                             *)

\* The iteration that makes a query is not counted towards the next one: the
\* k-th query comes after k intervals and one more update for each query before
\* it, never earlier.
QueryDrift ==
    rows * (query_interval + 1) + log_count = i + IF pc = "update" THEN 1 ELSE 0

\* "If this parameter is X, then we perform X connected components queries": the
\* drift costs none of them over a whole stream that is not absurdly short.
QueriesMade ==
    /\ pc = "done"
    /\ num_updates = NumEdges
    /\ Queries * Queries <= NumEdges
    => rows + 1 = Queries

\* The rate is computed from the updates made, also after a timeout.
RateCountsUpdates == pc \in {"flush", "last", "done"} => num_updates = i
=============================================================================
