---------------------------- MODULE InsertionMgr ----------------------------
(***************************************************************************)
(* util/insertion_mgr.cpp: perform_insertions streams a file into a        *)
(* GraphZeppelin graph while a second thread, track_insertions, samples    *)
(* how far the graph has got and logs it.  The experiments call it once    *)
(* per configuration, so that the file-scope flag shutdown outlives a call.*)
(*                                                                         *)
(* The graph is external: g.update() buffers two updates per edge, its     *)
(* workers apply them in their own time and count them in num_updates, and *)
(* connected_components() returns after all of them are applied.           *)
(*                                                                         *)
(* Time is abstracted to what the code compares: whether the timeout has   *)
(* expired, and that the tracker's sleep ends.                             *)
(***************************************************************************)
EXTENDS InsertionReport

mainVars  == <<call, timed, m, chunk_i, total, inserted, ppc>>
trackVars == <<tpc, updates, prev_updates, percent, progress>>
vars == <<call, timed, expired, m, chunk_i, total, inserted, num_updates, shutdown,
          ppc, tpc, updates, prev_updates, percent, progress, statsWritten>>

Init ==
    /\ call = 0
    /\ timed = FALSE
    /\ expired = FALSE
    /\ m = 0 /\ chunk_i = 0 /\ total = 0
    /\ inserted = 0
    /\ num_updates = 0
    /\ shutdown = FALSE
    /\ ppc = "out"
    /\ tpc = "done"
    /\ updates = 0 /\ prev_updates = 0 /\ percent = 0
    /\ progress = 0
    /\ statsWritten = FALSE

-----------------------------------------------------------------------------
(* track_insertions.                                                       *)

\* The output file is opened, and emptied.
TrackOpen ==
    /\ tpc = "open"
    /\ tpc' = "sleep"
    /\ statsWritten' = FALSE
    /\ prev_updates' = 0
    /\ percent' = 0
    /\ UNCHANGED <<mainVars, expired, num_updates, shutdown, updates, progress>>

\* It cannot be opened: exit() ends the process, whatever main is doing.
TrackOpenFails ==
    /\ tpc = "open"
    /\ tpc' = "exited"
    /\ ppc' = "exited"
    /\ UNCHANGED <<call, timed, m, chunk_i, total, inserted, expired, num_updates,
                   shutdown, updates, prev_updates, percent, progress, statsWritten>>

\* How much of a scale n updates are.
Share(n, scale) == (n * scale) \div TrackTotal

\* Mutant of TrackSample: the next sample counts from the same point again.
TrackSampleNoAdvance ==
    /\ tpc = "sleep"
    /\ tpc' = "decide"
    /\ updates' = num_updates
    /\ LET amount == Share(num_updates - prev_updates, Hundred)
       IN  percent' = IF amount > 1 THEN percent + amount ELSE percent
    /\ UNCHANGED <<mainVars, expired, num_updates, shutdown, prev_updates, progress,
                   statsWritten>>

\* A sample: the tracker reads num_updates and logs it when it has grown by
\* two percent or more since the last entry.
TrackSample ==
    /\ tpc = "sleep"
    /\ tpc' = "decide"
    /\ updates' = num_updates
    /\ LET amount == Share(num_updates - prev_updates, Hundred)
       IN  IF amount > 1
             THEN /\ percent' = percent + amount
                  /\ prev_updates' = num_updates
             ELSE UNCHANGED <<percent, prev_updates>>
    /\ UNCHANGED <<mainVars, expired, num_updates, shutdown, progress, statsWritten>>

\* Mutant of TrackFinished: only a complete stream ends the loop.
TrackFinishedIfComplete == updates >= TrackTotal

\* The tracker's way out of its loop.
TrackFinished == updates >= TrackTotal \/ shutdown

TrackStop ==
    /\ tpc = "decide"
    /\ TrackFinished
    /\ tpc' = "done"
    /\ UNCHANGED <<mainVars, expired, num_updates, shutdown, updates,
                   prev_updates, percent, progress, statsWritten>>

\* The bar is displayed, Bar - progress blanks after progress marks.
TrackDisplay ==
    /\ tpc = "decide"
    /\ ~TrackFinished
    /\ progress' = Share(updates, Bar)
    /\ tpc' = "sleep"
    /\ UNCHANGED <<mainVars, expired, num_updates, shutdown, updates,
                   prev_updates, percent, statsWritten>>

-----------------------------------------------------------------------------
(* perform_insertions.                                                     *)

\* Mutant of Begin: the flag keeps its value from the last call.
BeginNoReset ==
    /\ ppc = "out"
    /\ call < Calls
    /\ call' = call + 1
    /\ timed' \in BOOLEAN
    /\ expired' = FALSE
    /\ m' = Edges /\ chunk_i' = 0 /\ total' = Edges
    /\ inserted' = 0
    /\ num_updates' = 0
    /\ tpc' = "open"
    /\ ppc' = "ingest"
    /\ UNCHANGED <<shutdown, updates, prev_updates, percent, progress, statsWritten>>

\* A new stream and graph; the tracker starts.
Begin ==
    /\ ppc = "out"
    /\ call < Calls
    /\ call' = call + 1
    /\ timed' \in BOOLEAN
    /\ expired' = FALSE
    /\ shutdown' = FALSE
    /\ m' = Edges /\ chunk_i' = 0 /\ total' = Edges
    /\ inserted' = 0
    /\ num_updates' = 0
    /\ tpc' = "open"
    /\ ppc' = "ingest"
    /\ UNCHANGED <<updates, prev_updates, percent, progress, statsWritten>>

\* No timeout: the whole stream.
InsertUntimed ==
    /\ ppc = "ingest"
    /\ ~timed
    /\ m > 0
    /\ m' = m - 1
    /\ inserted' = inserted + 1
    /\ UNCHANGED <<call, timed, expired, chunk_i, total, num_updates, shutdown, ppc,
                   trackVars, statsWritten>>

\* With a timeout: the edges of a chunk ...
InsertTimed ==
    /\ ppc = "ingest"
    /\ timed
    /\ chunk_i < m
    /\ chunk_i < Chunk
    /\ chunk_i' = chunk_i + 1
    /\ inserted' = inserted + 1
    /\ UNCHANGED <<call, timed, expired, m, total, num_updates, shutdown, ppc,
                   trackVars, statsWritten>>

ChunkDone == timed /\ m > 0 /\ (chunk_i = m \/ chunk_i = Chunk)

\* ... and, after a chunk, the clock: the loop goes on ...
NextChunk ==
    /\ ppc = "ingest"
    /\ ChunkDone
    /\ ~expired
    /\ m' = m - chunk_i
    /\ chunk_i' = 0
    /\ UNCHANGED <<call, timed, expired, total, inserted, num_updates, shutdown,
                   ppc, trackVars, statsWritten>>

\* ... or stops, with m not yet reduced by the chunk just inserted.
StopShort ==
    /\ ppc = "ingest"
    /\ ChunkDone
    /\ expired
    /\ total' = total - m
    /\ ppc' = "cc"
    /\ UNCHANGED <<call, timed, expired, m, chunk_i, inserted, num_updates, shutdown,
                   trackVars, statsWritten>>

\* The stream is exhausted.
StreamEnds ==
    /\ ppc = "ingest"
    /\ m = 0
    /\ ppc' = "cc"
    /\ UNCHANGED <<call, timed, expired, m, chunk_i, total, inserted, num_updates,
                   shutdown, trackVars, statsWritten>>

\* The components are computed: every buffered update is applied first.
ConnectedComponents ==
    /\ ppc = "cc"
    /\ num_updates' = 2 * inserted
    /\ ppc' = "signal"
    /\ UNCHANGED <<call, timed, expired, m, chunk_i, total, inserted, shutdown,
                   trackVars, statsWritten>>

SignalShutdown ==
    /\ ppc = "signal"
    /\ shutdown' = TRUE
    /\ ppc' = "join"
    /\ UNCHANGED <<call, timed, expired, m, chunk_i, total, inserted, num_updates,
                   trackVars, statsWritten>>

\* Mutant of Report: the tracker is not waited for.
ReportNoJoin ==
    /\ ppc = "join"
    /\ statsWritten' = TRUE
    /\ ppc' = "report"
    /\ UNCHANGED <<call, timed, expired, m, chunk_i, total, inserted, num_updates,
                   shutdown, trackVars>>

\* The tracker is joined and the statistics are appended to its file.
Report ==
    /\ ppc = "join"
    /\ tpc = "done"
    /\ statsWritten' = TRUE
    /\ ppc' = "report"
    /\ UNCHANGED <<call, timed, expired, m, chunk_i, total, inserted, num_updates,
                   shutdown, trackVars>>

Return ==
    /\ ppc = "report"
    /\ ppc' = "out"
    /\ UNCHANGED <<call, timed, expired, m, chunk_i, total, inserted, num_updates,
                   shutdown, trackVars, statsWritten>>

-----------------------------------------------------------------------------
(* The world outside.                                                      *)

\* The graph's workers apply a batch.
Apply ==
    /\ ppc \in {"ingest", "cc"}
    /\ num_updates < 2 * inserted
    /\ num_updates' \in (num_updates + 1) .. (2 * inserted)
    /\ UNCHANGED <<mainVars, expired, shutdown, trackVars, statsWritten>>

\* Time passes.
Expire ==
    /\ ppc = "ingest"
    /\ timed
    /\ ~expired
    /\ expired' = TRUE
    /\ UNCHANGED <<mainVars, num_updates, shutdown, trackVars, statsWritten>>

\* The last call has returned, or the process was ended.
Ended ==
    /\ ppc = "exited" \/ (ppc = "out" /\ call = Calls)
    /\ UNCHANGED vars

PerformStep ==
    \/ Begin \/ InsertUntimed \/ InsertTimed \/ NextChunk \/ StopShort \/ StreamEnds
    \/ ConnectedComponents \/ SignalShutdown \/ Report \/ Return

TrackStep ==
    \/ TrackOpen \/ TrackOpenFails \/ TrackSample \/ TrackStop \/ TrackDisplay

Next == PerformStep \/ TrackStep \/ Apply \/ Expire \/ Ended

Spec == Init /\ [][Next]_vars

\* Both threads are scheduled and sleep() ends; the workers and the clock owe
\* nothing.
FairSpec == Spec /\ WF_vars(PerformStep) /\ WF_vars(TrackStep)

-----------------------------------------------------------------------------
(* Properties.                                                             *)

TypeOK ==
    /\ call \in 0 .. Calls
    /\ timed \in BOOLEAN
    /\ expired \in BOOLEAN
    /\ m \in 0 .. Edges
    /\ chunk_i \in 0 .. Chunk
    /\ total \in 0 .. Edges
    /\ inserted \in 0 .. Edges
    /\ num_updates \in Nat
    /\ shutdown \in BOOLEAN
    /\ ppc \in {"out", "ingest", "cc", "signal", "join", "report", "exited"}
    /\ tpc \in {"open", "sleep", "decide", "done", "exited"}
    /\ updates \in Nat
    /\ prev_updates \in Nat
    /\ percent \in Nat
    /\ progress \in Nat
    /\ statsWritten \in BOOLEAN
=============================================================================
