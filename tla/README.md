# A TLA+ development of ZeppelinExperiments

ZeppelinExperiments drives the experiments of the GraphZeppelin paper: it builds
GraphZeppelin (an external library that CMake fetches), streams graph updates
into it and into two competitors kept under `comparison_systems/` (Aspen and
Terrace), measures insertion rate, memory and query latency, and turns the
results into CSV files and plots.  The repository's own logic is a set of small
programs that coordinate threads, processes, files and batches around a stream
of edge updates.  A mistake there seldom crashes: it publishes a wrong number.
This development models those programs, model-checks them with TLC on small
instances and proves the main safety properties with TLAPS for every instance.

Paths below are relative to `src/`; `aspen/` stands for
`comparison_systems/aspen/code/tools/` and `terrace/` for
`comparison_systems/terrace/code/src/`.

## 1. Inventory

| Component | State it keeps | Operations | What is hard | What makes it correct |
|---|---|---|---|---|
| Stream reader `aspen/BufferedEdgeInput.h` (same class in `terrace/`) | two vectors and two pointers to them, `currentElement`, `swapWaiting`, `endOfFile`, a mutex, one condition variable, the file | constructor, `get_edge`, `ingest` (reader thread), destructor | buffers are cleared and filled outside the mutex; the reader starts before the buffers are reserved; one condition variable for two waits; the join | the k-th call returns the k-th record; nobody waits for ever |
| Insertion manager `util/insertion_mgr.cpp` | file-scope `shutdown`; `m`, `total`; the tracker's `percent`, `prev_updates`; the output file | `perform_insertions`, `track_insertions` (second thread) | the flag outlives a call; timeout between two chunks; two writers of one file; rounding | log never ahead of the graph; the total; both threads end |
| Aspen drivers `aspen/ingestion_test.cpp`, `continuous_query_test.cpp` | `insert_buffer`, `delete_buffer` and their counts, `status_idx`, `log_count`, the graph | one loop iteration, batch insert/delete, query, final flush | two buffers reorder updates; never cleared; sort bounds at the flush; file shorter than its header | the graph is the stream's |
| Terrace drivers `terrace/ingestion_test.cc`, `continuous_query_test.cc` | `edges`, its copies `ins_srcs`/`ins_dests`, the count, the graph | the same, deletions made at once | a deletion overtakes its insertion; two copies of a batch | the graph is the stream's |
| Query pacing (the loop of both `continuous_query_test`s) | `log_count`, `query_interval`, `num_updates` | iteration, query, timeout | integer division, an iteration that is not counted | queries asked for are made, the rate counts the updates made |
| Speed experiment: `speed_expr/*`, `experiment_runners/run_compare_*_speed.sh`, `util/shell_exec.cpp` | result directories that outlive an execution, three CSV files, uninitialised locals | manager, four scripts, processes started one by one | jobs that die, interruptions, files left by an earlier execution, jobs run in one order and read in another | each row reports its own job's measurement |
| Memory log tools `util/clean.cpp`, `util/max_finder.cpp` | lines of `top`, running maxima | a pass over a frame, a pass over a line | `kill -9` cuts the log anywhere; units | the peak is reported |
| Terrace's lock `terrace/PMA_Lock.cc` | `x`, `reason`, `reason_set_by` | `lock`, `try_lock`, `unlock`, `make_shared`, `lock_shared`, `unlock_shared` | compare-and-swap retries, wrap-around, lesser reasons that give the lock back | writers exclude each other and readers; reasons are respected |
| Aspen's versions `comparison_systems/aspen/code/graph/versioned_graph.h`, `lib_extensions/sequentialHT.h` | `current_timestamp`, a table of (timestamp, count and timestamp, root) | `acquire_version`, `release_version`, `insert_edges_batch`, `delete_edges_batch` | no lock: an entry is found, counted, freed and filled again by several threads, word by word | a held version stays intact; roots are freed once; a reader gets a latest version |
| Terrace's array `terrace/PMA.cc` | `edges.N`, `nodes[].beginning`, `nodes[].lock` | `add_edge_update_fast`, `remove_edge_fast`, `insert`, `remove`, `double_list`, `half_list` in parallel tasks | locks are looked up without being held, taken one by one, given back on failure; reasons stay on released locks; the array is resized under everybody | a task owns what it rewrites; no lock or reason is left; no mutual blocking |
| Query experiment `query_expr/*`, `run_compare_*_query.sh` | three temporary CSV files used by two experiments | manager, scripts, processes | a process killed before it opens its file leaves the previous experiment's | rows report their own experiment |
| Parallel, buffer size and correctness experiments `parallel_expr`, `buffer_expr`, `cont_expr`; sketch scripts `sketch_expr/run_sketch_expr.sh`, `combine_sketch_expr_results.cpp` | loop counters, result files, CSV files | sequences of processes, `cat`, `rm` | loop bounds changed in the body; one process of several fails; files matched line by line | every result appears once, as its own |
| AGM sketch `sketch_expr/agm_sketching/*` | buckets of (a, b, c), the `already_quered` flag | `update`, `query`, `operator+`, pairing functions, `int127`, primes | modular arithmetic on 128 bits | a one-element sketch is decoded |
| `run.sh`, configuration, plotting | files | order of the experiments, prompts, plots | interruption and a second execution | files of one execution do not reach the next |
| Aspen's trees, Terrace's B-trees and filter, the vendored libraries | | | third-party | |

How they interact.  `run.sh` runs the managers one after the other.  A manager
runs shell scripts through `shell_exec`; a script starts one process per input
and `top` beside it, waits for the process, kills `top`, and pipes the log
through `top_cleaner` and `top_max_finder`.  GraphZeppelin's process calls
`perform_insertions`; the Aspen and Terrace processes are the drivers, which
take their updates from `BufferedEdgeInput` and give them to the third-party
graph.  Results travel in files only; no script looks at an exit status.

`PROJECT.json` lists every component, the hazards at their lines, and for every
definition the lines it stands for.

## 2. The modules

Each module states its abstraction at the top.  Definitions whose comment starts
with "Mutant of" are deliberately wrong versions of the definition after them:
replacing it by one must break a property, which shows that the property says
something about the code.  They are not part of any specification.

**`BufferedEdgeInput`** — two threads, "main" and "reader", with program counters
`mpc` and `rpc`.  A step is a critical section of the mutex or a stretch of code
that touches shared state once; `wait()` is split into blocking, waking (by
`notify_all` or spuriously) and testing the predicate again.  A record is its
position in the file.  The file has any length up to `MaxRecords` and may end in
a torn record, which the code emplaces like any other.  The constructor's data
race on `writeBuffer` (line 36 against line 38) is a choice: a suffix of what the
reader emplaced is lost (`ReserveEnd`), or the process aborts
(`ReserveCorrupts`).  The driver then calls `exit()` (`Exit`, as the two drivers
do) or destroys the object (`Destroy`, `Joined`, as `buffer_test.cpp` does).

**`EdgeSource`** — the abstract promise of `get_edge`: records in file order, each
at most once, `false` only at the end, with a hole the size of the first buffer
if the constructor's race struck.  `BufferedEdgeInput` is shown to implement it
(`ImplementsEdgeSource`); `AspenIngest` and `TerraceIngest` use `get_edge` as
`EdgeSource` promises it.

**`InsertionMgr`** — `perform_insertions` (`ppc`) and `track_insertions` (`tpc`)
over several calls, so that `shutdown` outlives a call.  GraphZeppelin's graph is
external: two updates per edge are counted in `num_updates` in the workers' own
time, and `connected_components` returns when all are.  Time is whether the
timeout has expired; `chunk_i` is the loop's `i`.  The counters and what the log is to say of them are in
**`InsertionReport`**, which `InsertionMgr` extends.

**`AspenIngest`** — one iteration of the drivers' loop in three steps (clock,
query, update), both buffers with their stale contents, the sort of a prefix and
the final flush.  An edge (u, v) is the number `u * Nodes + v`, which orders edges
as `std::sort` does and makes a value-initialised entry 0.  `truth` is the graph
the stream describes; `clash` holds edges that were pending in both buffers.
Aspen's graph is its directed edges and the `vertices` of its tree: a deletion for a
vertex that is not in the tree adds the edges instead (`Removed`), and a batch
without edges makes `release_version` call `exit(0)` (`FlushExits`), which the
flush meets when nothing is pending in one of the buffers.

**`TerraceIngest`** — the same for Terrace: `edges`, its copy `ins`, deletions made
at once; `overtaken` holds the edges deleted while their insertion was pending.

**`QueryPacing`** — the loop without its data: where queries fall and what the
counters say.  `AspenIngest` refines it (`FollowsPacing`, proved), so its theorems
hold of the Aspen driver; its actions follow Terrace's `continuous_query_test.cc`,
whose loop is the same.  What the two have in common (the counters, the interval,
and what the query file is to say) is **`DriverLoop`**, which both extend.

**`SpeedExperiment`** — the manager, the order of the jobs in the four scripts,
each job's process and its two files.  A measurement is its origin: the job and
the execution that made it.  Processes may die (`Die`), the whole may be
interrupted (`Interrupt`) and started again; `CleanUp` is `run.sh`.  A local that
`sscanf` does not assign holds what the last pass left there, or anything.

**`MemoryLog`** — `top_cleaner` and `top_max_finder` on both ends of a pipe, over
every log cut at any line, with or without a last frame that lacks the process.
**`MemoryReport`**, which it extends, holds what `top` writes, how `extract` reads a
size and what the result is to say.

**`PMALock`** — one lock, any number of threads, one action per access to the
shared words, in the build the experiments use (`-DNDEBUG`).  `x` wraps around at
`Word`.  Threads release only what they hold, as the callers in `PMA.cc` do.
`make_exclusive` has no caller and is left out.

**`VersionedGraph`** — the updating thread and readers of Aspen's versioned graph,
one action per access to a shared word, in program order; the assignment of a
table entry is one store per word, in the order of its members.  The hash of
every timestamp is the same, as in the code, so `insert` and `find` probe from one
slot.  A version is its timestamp, which is also the name of its root.  Updates have
at least one edge, so a root is never shared between versions and the `exit(0)` of
`release_version` (line 160) is not reached here; `AspenIngest` has it.

**`SnapshotStore`** — what `acquire_version` promises: a version that was the latest
at some moment since the call, and a writer that builds on the latest.
`VersionedGraph` is shown to implement it step by step (`ImplementsSnapshots`).

**`PMARanges`** — tasks of a parallel batch on Terrace's packed memory array.  Of
the array only the places of the nodes' sentinels are kept; how full a part is
is a choice, so every way up the tree, out of it and to a resize occurs.  A lock
is taken in one step (`PMALock` has the accesses within); a `try_lock` also fails
while a task whose reason is too small has the word for a moment (`InPassing`).  While another task
rewrites something, what a search finds among nodes the task does not own is
arbitrary; the nodes it owns are where they are.  `remove` and `half_list` have the
control of `insert` and `double_list` and are the same actions with `batch` =
"remove".

**`Experiments`** — the experiments of `run.sh` other than the speed experiment as
one list of commands: start a process, `cat`, `rm`, begin a CSV file, combine.  A
process has its file emptied by the shell before it starts (`>`), empties it itself
when it has read the header of the stream (the Aspen and Terrace drivers: `Open` is
a step of its own, and the process may die before it), or writes it only at its end
(`one_query_expr`, `buffersize_experiment`, `cont_test`, `parallel_experiment`).  It
may die anywhere; Aspen's and Terrace's may also stop at their timeout with fewer
queries, and their last row never reaches the file.  An execution may be interrupted and
followed by another, with or without the comparison systems (`LeaveOut` passes over
the processes of `Comparison`; the `cat`s that read their files are executed all the
same, as in the manager).  A line is who measured it, when and as what.

The `MC*` modules only give values to constants (inputs, process lines, a
symmetry set), except `MCSpeedExperiment`: it puts the manager beside the two things
its processes do, `perform_insertions` and the reading of the memory log.  The three
share no state, so a behaviour is about one of them (`part`) with the others at rest.  The `*_proofs` modules hold the theorems.  `InsertionReport`,
`DriverLoop` and `MemoryReport` are what a component is asked for, apart from how
it does it; a proof module extends them and has the component itself as an instance
(`Ins`, `Pace`, `Mem`), beside another component's theorems.

## 3. What TLC checks

| Run | Module | Bounds | Result |
|---|---|---|---|
| `buffered_edge_input` | `BufferedEdgeInput` | buffers of 2, files of 0..6 records, torn or not, 6 calls, then `exit()` or destructor | holds |
| `aspen_ingest` | `AspenIngest` | 3 vertices, 16 updates, batches of 2 (buffers of 4), 4 queries, the clock looked at every 3 updates | holds |
| `aspen_flush` | same | 4 vertices, 6 updates, batches of 3: the smallest batch that leaves fewer deletions than insertions pending, and more than none | `FlushesRemainder` violated |
| `terrace_ingest` | `TerraceIngest` | 3 edges, 12 updates, batches of 2 | holds |
| `terrace_flush` | same | 3 updates, batches of 2 | `RemainderFlushed` violated |
| `speed_experiment` | `MCSpeedExperiment` | manager: 2 inputs (one is kron_18), 2 executions, 1 process that dies, an interruption anywhere; memory: logs of 0..3 frames over 5 process lines in three units, cut at any line; insertions: 5 edges in chunks of 2, scale 13, bar of 3, 2 calls, each timed or not | holds |
| `insertion_total` | `InsertionMgr` | 5 edges in chunks of 2, 1 call | `TotalCountsInserted` violated |
| `memory_units` | `MCMemoryLog` | logs of 0..2 frames over 2 process lines, one of them in MiB | `MaximumUsage` violated |
| `pma_lock` | `MCPMALock` | 3 threads, 2 reasons, 3 tries, word of 8 values | holds |
| `versioned_graph` | `VersionedGraph` | 1 writer with 3 updates, 2 readers with 1 query each, table of 4 | holds |
| `experiments` | `Experiments` | 2 vector lengths, 2 datasets, 2 queries, 11 or 46 threads in steps of 8, 2 executions, an interruption anywhere, 2 processes that die | holds |
| `pma_ranges` | `MCPMARanges` | 2 tasks with 2 updates each, 3 nodes, leaves of 2, arrays of 4 and 8 that double or halve, every initial layout | holds |

What the passing runs show:

- *Reader*: whenever main may swap, the reader is parked (`ReaderParked`), though
  main never looks where it is; records are conserved in order across unlocked clears and
  swaps (`NothingLost`); the k-th call returns the k-th record
  (`KthCallKthRecord`); the constructor's race costs records of the first buffer
  only (`ImplementsEdgeSource`); no wakeup is lost, and the one way not to end is
  to destroy the object while the reader is parked on a full buffer
  (`Terminates`).
- *Insertion manager*: logged percentages never claim more than was applied
  (`PercentHonest`); an earlier call's flag does
  not stop the next tracker (`TrackerOutlastsStream`); statistics are appended
  after the tracker is done with the file (`StatsSurvive`); the join returns after
  a timeout as well (`InsertionsEnd`).
- *Drivers*: batching delays an update and loses none while the stream runs; only
  an edge pending in both Aspen buffers, or deleted in Terrace while its
  insertion is pending, may differ (`GraphFollowsStream`).  After a flush of Aspen's
  that the program survives and that sorted within the pending deletions, the graph is
  the stream's, but for edges that were pending in both buffers at once
  (`FinalGraph`).
- *Pacing*: the exact place of each query (`QueryDrift`); all queries are made on
  a whole stream of at least `Queries * Queries` updates (`QueriesMade`).
- *Speed experiment*: a job that had its result is reported with that result
  (`ResultsReported`); memory is that of the row's own process even if it died
  (`MemoryReported`); a system is credited with another one's rate only until it
  has had a result of its own (`CreditedToAnother`: the locals are not reset); a
  failing process holds nobody up (`Terminates`).
- *Memory log*: no process line of the log is missed and no other taken for one,
  wherever the log was cut; of the lines as `extract` reads them, the largest is
  reported (`PeakReported`).
- *Lock*: two writers never hold it at once, even after a reader intruded and `x`
  wrapped around (`WritersExclude`); reasons are respected and changed only by the
  writer that left them (`ReasonRespected`, `ReasonKept`); without an intrusion `x`
  says who has the lock, a writer alone or so many readers (`WordTruthful`), so that a
  lock nobody has is free and whoever spins waits for somebody.
- *Versions*: as long as no table entry was filled again under a thread that
  still goes by it, a held version stays what it was (`HeldIntact`), roots are
  freed once and by one thread (`FreedOnce`) and not forgotten (`Reclaimed`),
  `acquire_version` returns what was the latest version since its call
  (`ImplementsSnapshots`) and all calls return (`Terminates`).  The condition is
  `Sane`, and the model says exactly how it fails: a reader may raise the count of
  a version that is not visible yet ("early", line 128); a release that reads the
  count again may see the next version's and free that one too ("stolen", line
  149); and `insert` may fill an entry between the stores of its release ("torn",
  line 169).  The properties say that these three are all that can go wrong.
- *Array*: a task owns every node with a slot in the part it rewrites, though
  which nodes these are is looked up without locks (`Covered`); it has exactly the
  locks its variables say, so it never releases another's (`HeldExactly`); on every
  way out no reason stays behind (`NothingLeft`); the tasks never wait for each
  other all round (`NoStandstill`).  The count `double_list` uses is current if all
  locks took the reason DOUBLE and no other task was about to resize
  (`SealedCount`); the conditions are needed: where another's reason stood,
  `unlock` keeps it, others get in, and the array may be doubled twice or with a
  stale count ("TODO don't double double", `PMA.cc` line 1462).
- *Other experiments*: a CSV file presents as a job's results only its own, unless
  the job was not executed or ended before it had opened its file; and then only what
  an interrupted execution left or, with a memory limit, the same system's results
  without one (`CreditedRight`).  Both happen: `one_query_expr` killed by the memory
  limit, or Aspen's driver killed before line 60, is credited with its results without
  a limit, and with "no" for the comparison an interrupted execution's Aspen and
  Terrace results are read.  All lines that a finished job wrote are in a CSV file as
  that job's, together and in order (`Complete`; the two sketches, whose lines become
  columns, are in `PairedByLength`).  The sketch rows compare equal lengths unless a
  process died (`PairedByLength`).  `parallel_expr` measures 1, every multiple of 8,
  each once and in order, and `max_thr` itself unless it is one to three above a
  multiple of 8 (`MaxMeasured`; the 46 of `run.sh` is measured).

The four violations are disagreements between the code and its own comments or build
file, quoted in `PROJECT.json`:

- Aspen's flush sorts the deletions up to the count of the *insertions*, so pending
  deletions may be replaced by zeros or old entries (`FlushesRemainder`).
- Terrace's flush gives the arrays of the last full batch to the graph with the
  remainder's count: the remainder is lost and old edges come back
  (`RemainderFlushed`).
- After a timeout `perform_insertions` subtracts `m` before the chunk just inserted is
  taken off it, so the total and the rate leave that chunk out
  (`TotalCountsInserted`).
- `top_max_finder` adds the unit of a size in MiB instead of multiplying by it, so what
  it prints is not the largest usage of the log (`MaximumUsage`).

Further disagreements show in the models and are built into the definitions or, as
stated exceptions, into the properties: the destructor of `BufferedEdgeInput` joins a
reader that waits for a swap only `get_edge` makes, so `buffer_test` hangs on a file
that fills two buffers (line 43; the exception in `Terminates`); `lock_shared` checks
the parity of `x` once and retries its compare-and-swap with a value it read later, so a
reader gets in beside a writer (`PMA_Lock.cc` line 248; `intruded` in `PMALock`);
Aspen's driver ends in its flush, without its last query and its rate and with status
0, when nothing is pending in one of the two buffers (`ingestion_test.cpp` lines 156
and 160; `FlushExits`); the row of the last query is given to a stream that `exit()`
never flushes, so it is in no file (`continuous_query_test.cpp` line 181, `.cc` line
178; `MaxSamples` in `Experiments`).

### Why the bounds are enough

Buffers of 2 with files of up to 6 records and 6 calls give the empty file, a
partial buffer, exactly one, two and three buffers, calls past the end, and both
buffers swapped several times.  Five edges in chunks of 2 give full chunks and a
partial last one; scale 13 and bar 3 do not divide the 10 updates, so rounding
happens; 2 calls let `shutdown` be stale.  16 updates in batches of 2 fill each
buffer several times with every remainder; an even number is needed for both buffers
to have something pending at the end of a whole stream, which is what the flush
survives.  4 queries are the most for which `Queries * Queries <= NumEdges` holds: a
drift by one more update per query would cost one.  Two inputs and two executions suffice for
rows of one job to be confused with another input's, another system's or another
execution's.  Three threads on a lock give a writer, a reader that intrudes and a
second writer; a word of 8 values wraps around.

Three updates and a table of four entries let an entry be freed and filled again
while a reader is between `find` and its count, which each of the three failures
needs; with two readers a version can be released by one while the other
acquires it.  Three nodes on leaves of two give nodes within a leaf, across leaves
and sentinels at a leaf's first slot; two array sizes give a resize during another
task's search; two updates each let a task meet the reason of another's earlier
update.  Three tasks with one update each were also checked (the same result).
Two executions and two deaths let a file of one experiment or execution be read
by another; 46 is the argument in `run.sh` and 11 a case in which the largest
count is skipped.

### Fairness

`BufferedEdgeInput` and `InsertionMgr` (in `PartSpec`) assume weak fairness of each thread: the
operating system runs a thread that can run, and a mutex that is released again
and again is eventually acquired.  Nothing is assumed of spurious wakeups,
GraphZeppelin's workers (beyond `connected_components` returning when they are
done) or the clock.  `SpeedExperiment` assumes weak fairness of the manager, its
scripts and processes together: they run one after the other, the Aspen and
Terrace drivers stop at their timeout and streams are finite.  `VersionedGraph`
assumes it of each thread.  `PMALock` and `PMARanges` state no liveness: spinning
tasks may reset each other for ever, and nothing in the code prevents it;
`WordTruthful` and `NoStandstill` are safety properties.  Deadlock checking is off
where the program really stops (`SpeedExperiment`, `MemoryLog`, `Experiments`,
`VersionedGraph`, `PMARanges` when all calls are made) and for the lock, where
`WordTruthful` says what can be said: once a reader has intruded, `x` may stay odd and
everybody spins.

## 4. What is proved

All theorems hold for every value of the constants that satisfies the named
`ASSUME`s of the module.

- **`BufferedEdgeInput_proofs`** — `TypeCorrect`, `ParkedCorrect`, `BoundCorrect`,
  `ConservationCorrect`, `KthCallCorrect`, for every buffer size, file and number
  of calls.  The inductive invariant `Inv` adds three facts to the properties:
  `Control` (which program counters go with which flags and which buffer is
  empty), `Filled` (how full `writeBuffer` is when the reader parks, which is why
  a swap never hands out a partial buffer before the end) and `FalseAtEnd` (an
  empty buffer after a swap means the file is exhausted).  Without `Control` the
  unlocked `clear()` could empty a buffer with records in it; without `FalseAtEnd`
  `get_edge` could return false early.
  `SourceCorrect` is the step simulation of `EdgeSource`.  `Inv` says what is handed
  out as long as the constructor's race has lost nothing; once it has, `LossInv`
  says that what is left in the two buffers and the file is still in order
  (`ReadOrder`, `WriteOrder`) and that the one gap (`Follows`) is in the first
  buffer, so that an empty `get_edge` is at the end or at that gap.
- **`AspenIngest_proofs`** — `AspenStreamCorrect`, `AspenFinalCorrect`, for every number
  of vertices, stream length, batch size and number of queries.  `AspenInv` adds to the
  types that the counters stay within the buffers (`Counts`) and, while the loop runs
  (`InStep`), that a pending entry is due in the stream's graph unless its edge is
  pending in both buffers (`Due`), that both directions of an edge are stored together
  (`Whole`), that the tree has the vertices of every edge that a deletion may meet
  (`Listed`), so that the deletion finds them, and that all else agrees with the stream
  (`Follows`).  `AspenFinalCorrect` speaks of flushes that the program survives and that
  sort within the pending deletions, and of edges that were never in `clash`.  What a sort leaves
  is proved from ranks: the places of the first n entries are a permutation of 1 .. n
  (`Permutation`, by cardinalities), so a sort within the pending entries keeps their
  set, which is why `FinalGraph` needs exactly that of the deletions' sort.
  `AspenFollowsPacing` is the refinement of `QueryPacing`, step by step.  Of the loop
  itself (`Pace`), `DriftCorrect`, `RateCorrect`, `QueriesCorrect`, for every stream
  length and number of queries: `PacingInv` is the types, `QueryDrift` and
  `PacingCounter` (how far `i` and `num_updates` can be apart); the last theorem needs
  the bounds of the integer quotient (`IntervalBounds`).
- **`TerraceIngest_proofs`** — `StreamCorrect`, for every set of edges, stream length
  and batch size.  `Inv` adds `PendingDue`: a pending insertion whose
  deletion did not overtake it is in the stream's graph.
- **`SpeedExperiment_proofs`** — `TypeCorrect`, `ReportCorrect`, `MemoryCorrect`,
  `CreditCorrect`, for every list of inputs and every number of executions, deaths
  and interruptions.  `Inv` adds `ResultsKept` (a result of this execution stays in its file), `Busy` (a running
  process' job has no result yet) and `NotYetReported` (no row of an experiment is
  written while its jobs run): together, reading happens after writing and before
  the next writing.  For the memory, `MemInv` says which jobs the scripts are past
  (`Passed`, in their loop order) and that the files of those are of this execution
  (`Collected`): a job that died has a memory and no result, so `ResultsKept` is not
  enough.  For the rates, `CreditInv` follows the uninitialised locals through the
  loops: systems are reported one after the other (`InTurn`), a file holds only its own
  job's result (`FilesOwn`), and so another system's rate is in the locals only while
  the present one has had no result (`NoneYet`).
  The same module proves `PeakCorrect` of the memory log tools (`Mem`), for every log
  of any length, cut anywhere.  `LogInv` follows each process line: it is still to be
  cleaned, in the pipe, or not above the maxima (`Found`), and in what is left of the
  log such lines are only at the place `top_cleaner` looks at (`Framed`), so none is
  skipped.  Sizes are as `extract` reads them; nothing is assumed of them.
- **`Synchronization_proofs`** — of the lock, `WritersCorrect`, `ReasonCorrect`,
  `ReasonKeptCorrect`, `WordCorrect`, for every set of threads, number of tries and even
  word size above 2.  Mutual exclusion cannot rest on `x = 1`, which the intrusion breaks; it
  rests on parity (`OddForWriter`): all that readers do keeps the parity of `x`, and a
  writer enters only from 0.  `WordTruthful` holds until that intrusion and counts the
  readers, so it alone needs `FewThreads`, that twice the number of threads is below
  the size of the word (2^64 in the code); `NobodyStuck` follows.
  Of the insertion manager (`Ins`), `PercentCorrect`, `TrackerCorrect`,
  `StatsCorrect`, for every stream, chunk size, scale and number of calls.
  `InsertionInv` adds `Control` (where the two threads can be at once, and the flag
  then), `Counting` (the loop's counters: `m` goes down by a chunk only when the chunk
  is done) and `Sampled` (the sample the tracker decides by is no larger than the
  count).
- **`PMARanges_proofs`** — `CoveredCorrect`, `HeldCorrect`, `NothingLeftCorrect`,
  `SealedCorrect`, `NoStandstillCorrect`, for every set of tasks, number of nodes and
  size of the array.  `Inv` says of each
  task, by its control point, which locks it owns (`HoldsAt`), how far its loops are
  (`Loop`), which sizes it knows (`Sizes`) and where its nodes are (`Place`).
  `HeldExactly` and `Covered` have to be proved together: what a task gives back in
  `HandBack` is right only because the range it looked at again still overlaps the
  one it holds, and that it does only because it owns the nodes of the leaf it wrote,
  which therefore did not move.  `NothingLeft` rests on a second invariant, `Reasons`:
  a task's reason is only on locks it can still name (`MaySet`, `WithinSpan`).  `SealedCount`
  rests on a third, `Seals`: once every lock has a task's reason DOUBLE, no other task
  has a lock or can get one, and by `Inv` a task without locks is not about to write
  (`OthersWait`).  `NoStandstill` needs `Reasons` and `Raised` (a reason is some task's,
  DOUBLE that of a task on its way to resize): of the tasks that lock the whole array
  the farthest goes on (`FarthestGoesOn`); if there is none, no lock asks for DOUBLE and
  any task that rebalances goes on; if there is none of those either, no lock asks for
  anything.
- **`VersionedGraph_proofs`** — `HeldCorrect`, `FreedCorrect`, `ReclaimedCorrect`,
  `SnapshotsCorrect`, for any number of readers, updates and queries and any size of
  the table, until one of the three failures of `Sane` happens.  `Inv` says of every
  entry that its count is one more than the threads that hold it (`FilledOK`), or what
  the writer has stored of it so far (`FillingOK`), of every thread what it may rely
  on at the entry it is at (`ThreadOK`), and that a version has one entry
  (`Distinct`).  The three failures are exactly where the induction breaks: `Cas` on an
  entry being filled, `Drop` with the next version's count, and the last two stores of
  a release on an entry in use again.  That everything else is safe rests on one fact
  about the keys: an entry's key changes only to one that no thread can be looking
  for (`KeyKept`).  `SnapshotsCorrect` is the step simulation of `SnapshotStore`: a
  version is taken at the compare-and-swap and given back at the decrement.

- **`Experiments_proofs`** — `LinesCreditedRight`, `NothingMissing`, `RowsPaired`,
  `ThreadsMeasured`, for every number of vector lengths, datasets, queries, threads,
  executions, interruptions and deaths.  First the script, whose length depends on the
  constants, is unrolled to tables of which command is where (`RunTable`, `CatTable`
  and so on), and from these come the two facts about its order that everything rests
  on: between a process and the `cat` of its results nobody else writes or removes the
  file (`CatFacts`), and every file is removed after its last writer (`AllRemoved`).
  `Inv` then follows a line from the process to the CSV file.  Once a process' file has
  been opened there are only its own lines in it (`Fresh`), nothing is presented as a
  job's before that job (`Settled`): this gives `CreditedRight`.  What a process that
  replaced nothing leaves to be read is of this execution or of an interrupted one
  (`Stamps`), because a complete execution took its files with it (`Removed`).  Results
  stay until they are read (`Kept`) and in the CSV file from then on (`Read`), and every
  CSV file is begun anew (`Renewed`): this gives `Complete`.  While no sketch process
  has died, the n-th line of its file is that of the n-th length (`Sketches`).  The loop
  of `parallel_expr` is `Climbing`: every multiple of `inc` below the counter has been
  measured, and only the last pass cuts the counter down to `max_thr`; whether there is
  such a pass is arithmetic on `max_thr % inc` (`Pass`, `LastPass`).  `inc` is assumed to
  be above 2 (it is 8): with 1 or 2 and one thread the counter would come back below
  the bound for ever.

`TypeOK`, `BuffersBounded` and `RateCountsUpdates` are proved and no longer part of a
run: what they say, a theorem says for every instance.  The inductive invariants were
model-checked on the instances of the runs before they were proved.

Only model-checked: liveness (the three `Terminates` and `InsertionsEnd`), which is out of the prover's
reach, as is induction over data.  Every other property of a passing run is stated by
a theorem.

## 5. What is not modelled

- The AGM sketch: sequential arithmetic whose answer is right only with a
  probability over hash functions and a prime.  The experiments construct a sketch
  and time `update`; nothing calls `query`, `batch_update` or the operators.  Two
  things a reader of it should know: `batch_update` seeds each bucket where `update`
  seeds each column, so their sketches do not add up; and the loop at
  `prime_generator.h` line 53 tests `d % 2 != 0` for an even `d` and never runs, so
  `IsPrime` is Fermat's test for twelve bases, which 56052361 = 211 * 421 * 631
  passes.
- GraphZeppelin, Aspen's trees, Terrace's container, B-trees and quotient filter:
  third-party or external; they appear as the sets and counters that the
  repository's code observes.  Of Terrace's array, the sorted batch merges
  (`add_edge_batch_wrapper`), which nothing calls, and all queries are left out.
- Vendored code, which is most of the repository's lines (the Cilk runtime, spdlog,
  fmt, pbbslib, the B-tree and filter libraries, about 120 thousand lines): it is
  not this project's logic, and no statement about the experiments needs more of it
  than its interface.
- Weak memory: threads see each other's stores in order, as on x86.
- A line of `top`'s log cut within itself; the text of the CSV files and logs.
- Prompts, downloads and builds of `run.sh`, plotting, `configuration.cpp`: I/O and
  copying.
- `BufferedEdgeInput_old.h`, `BufferedEdgeInput_new.h`, `BufferedFileInput.h`,
  `graph_stream.h`: no target of the experiments includes them.

## 6. Plan

Done, in this order: `EdgeSource` and `BufferedEdgeInput` with proofs;
`InsertionMgr`; `QueryPacing` with proofs, and `AspenIngest`, `TerraceIngest` on top
of it; `SpeedExperiment` with proofs; `MemoryLog`; `PMALock` with proofs;
`SnapshotStore` and `VersionedGraph`; `Experiments`; `PMARanges`.  Then the proofs of
`InsertionMgr`, `TerraceIngest`, `PMARanges`, `VersionedGraph`, of the refinement of
`EdgeSource` and of the memory and the rates in `SpeedExperiment`; then those of
`AspenIngest` with its refinement of `QueryPacing`, of `MemoryLog` and of `Experiments`.

What would come next: the queries of Terrace's `continuous_query_test` in
`TerraceIngest`, and its refinement of `QueryPacing` like Aspen's.
