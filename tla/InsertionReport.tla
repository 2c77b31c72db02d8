--------------------------- MODULE InsertionReport ---------------------------
(***************************************************************************)
(* What an experiment is told about its insertions: the counters of        *)
(* perform_insertions and track_insertions (util/insertion_mgr.cpp), and   *)
(* what the log and the statistics that are made from them are to say.     *)
(* InsertionMgr is the two functions.                                      *)
(***************************************************************************)
EXTENDS Naturals

CONSTANTS
    Edges,          \* stream.edges()
    Chunk,          \* edges between two looks at the clock (10000000 in the code)
    Hundred,        \* the scale of percent (100 in the code)
    Bar,            \* the length of the progress bar (20 in the code)
    Calls           \* bound on the calls of perform_insertions

ASSUME EdgesAssumption == Edges \in Nat \ {0}
ASSUME ChunkAssumption == Chunk \in Nat \ {0}
ASSUME ScaleAssumption == Hundred \in Nat \ {0} /\ Bar \in Nat \ {0}
ASSUME CallsAssumption == Calls \in Nat

VARIABLES
    call,           \* the call of perform_insertions that runs
    timed,          \* timeout > 0
    expired,        \* the timeout has passed
    m, chunk_i, total,     \* locals of perform_insertions; chunk_i is its i
    inserted,       \* edges given to g.update in this call
    num_updates,    \* g.num_updates
    shutdown,       \* the flag that both threads see
    ppc,            \* where perform_insertions is
    tpc,            \* where track_insertions is
    updates, prev_updates, percent,    \* locals of track_insertions
    progress,       \* the length of the bar last displayed
    statsWritten    \* the output file holds the final statistics

\* "we insert 2 edge updates per edge"
TrackTotal == 2 * Edges

\* What the log says has happened has happened: the percentages, each rounded
\* down before it is added, never claim more than the updates logged so far.
PercentHonest ==
    tpc \in {"sleep", "decide", "done"} =>
       /\ percent * TrackTotal <= prev_updates * Hundred
       /\ prev_updates <= num_updates

\* "reduce total by number of unprocessed edges": after the loop the total, from
\* which the rate is computed, is the number of edges that were inserted, timeout
\* or not.
TotalCountsInserted ==
    ppc \in {"cc", "signal", "join", "report"} => total = inserted

\* The tracker of a call never stops before the stream is processed: neither
\* the flag of an earlier call nor a partial count ends its loop.
TrackerOutlastsStream ==
    /\ tpc = "done"
    /\ ppc \in {"ingest", "cc", "signal"}
    => num_updates = TrackTotal

\* The statistics are written to a file that the tracker will neither empty nor
\* write to any more.
StatsSurvive ==
    /\ ppc = "report" => statsWritten
    /\ statsWritten /\ ppc # "out" => tpc \in {"open", "done", "exited"}

\* Every call ends, a timeout included: the tracker leaves its loop and the join
\* returns.
InsertionsEnd == <>(ppc = "exited" \/ (ppc = "out" /\ call = Calls))
==============================================================================
