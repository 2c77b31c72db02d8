-------------------------- MODULE SpeedExperiment --------------------------
(***************************************************************************)
(* The speed experiment: speed_expr/speed_expr_manager.cpp, the scripts    *)
(* run_{unlim,lim}_speed_expr.sh and run_compare_{unlim,lim}_speed.sh that *)
(* it executes one after the other, and the processes these start, one at  *)
(* a time: speed_process_stream, aspen_ingest_expr and terrace_ingest_expr *)
(* with their files runtime_stats and max_memory.                          *)
(*                                                                         *)
(* A job is a process on one input: <<limit, dir, input>>, where limit and *)
(* dir make the name of the result directory ("unlim" and "results_aspen", *)
(* say) and input is the basename of the stream.  What a file or a local   *)
(* variable holds is abstracted to its origin: which job of which          *)
(* execution of the manager measured it.  The result directories outlive   *)
(* an execution; run.sh removes them after a complete one.                 *)
(*                                                                         *)
(* A process may end at any time without a result (killed by the memory    *)
(* limit, a failed check of its arguments); no script looks at its status. *)
(***************************************************************************)
EXTENDS Naturals, Sequences

CONSTANTS
    Inputs,         \* basenames of the input files, in the order of argv
    Kron18,         \* kron_18_stream_binary, which Terrace is not run on
    MaxRuns,        \* bound on the executions of the manager
    MaxDeaths       \* bound on the processes that end without a result

ASSUME InputsAssumption == Inputs \in Seq(STRING) /\ Len(Inputs) > 0
ASSUME MaxRunsAssumption == MaxRuns \in Nat
ASSUME MaxDeathsAssumption == MaxDeaths \in Nat

VARIABLES
    pc,             \* what the manager is doing
    run,            \* executions of the manager begun so far
    compare,        \* aspen_terrace
    limit,          \* prefix of the result directories: which experiment
    script, k,      \* the running script's directory and input
    proc,           \* the process on that input
    runtime_stats,  \* the files, for every job
    max_memory,
    s, i,           \* the two loops over the results
    stats,          \* origin of ins_sec, cc_time and num_nodes
    mem,            \* origin of res and swap
    csv,            \* rows of the three csv files
    deaths,
    outcome         \* how the jobs of this execution ended

managerVars == <<run, compare, csv>>
loopVars == <<s, i, stats, mem>>
jobVars == <<script, k, proc>>
fileVars == <<runtime_stats, max_memory>>
vars == <<pc, limit, managerVars, loopVars, jobVars, fileVars, deaths, outcome>>

Limit == {"unlim", "speed"}
Dir == {"results", "gutter_results", "results_aspen", "results_terrace"}
Input == {Inputs[n] : n \in 1 .. Len(Inputs)}
Job == Limit \X Dir \X Input
Csv == {"unlim_speed", "lim_speed", "mem_usage"}

\* The origin of a measurement, and what may stand in its place.
Origin == [run : 1 .. MaxRuns, job : Job]
Absent == [run |-> 0, job |-> <<"absent">>]
Empty == [run |-> 0, job |-> <<"empty">>]
Garbage == [run |-> 0, job |-> <<"garbage">>]
Row == [job : Job, stats : Origin \cup {Garbage}, mem : Origin \cup {Garbage}]

\* The job the scripts are at, and the one whose files the manager reads.
job == <<limit, script, Inputs[k]>>
result_dir == [n \in 0 .. 3 |->
                CASE n = 0 -> "results"
                  [] n = 1 -> "gutter_results"
                  [] n = 2 -> "results_aspen"
                  [] n = 3 -> "results_terrace"]
result_loc == <<limit, result_dir[s], Inputs[i]>>
This(j) == [run |-> run, job |-> j]

Init ==
    /\ pc = "off"
    /\ run = 0
    /\ compare = FALSE
    /\ limit = "unlim"
    /\ script = "results"
    /\ k = 1
    /\ proc = "none"
    /\ runtime_stats = [j \in Job |-> Absent]
    /\ max_memory = [j \in Job |-> Absent]
    /\ s = 0
    /\ i = 1
    /\ stats = Garbage
    /\ mem = Garbage
    /\ csv = [c \in Csv |-> <<>>]
    /\ deaths = 0
    /\ outcome = [j \in Job |-> "none"]

---------------------------------------------------------------------------
\* The manager begins: its arguments are accepted and the csv files emptied.
Begin ==
    /\ pc \in {"off", "done", "refused", "interrupted"}
    /\ run < MaxRuns
    /\ run' = run + 1
    /\ compare' \in BOOLEAN
    /\ csv' = [c \in Csv |-> <<>>]
    /\ limit' = "unlim"
    /\ script' = "results"
    /\ k' = 1
    /\ proc' = "none"
    /\ stats' = Garbage
    /\ mem' = Garbage
    /\ outcome' = [j \in Job |-> "none"]
    /\ pc' = "script"
    /\ UNCHANGED <<s, i, fileVars, deaths>>

\* It refuses its arguments, misses the executables of Aspen or Terrace, or
\* cannot open a csv file; the ones it opened before are empty by then.
Refuse ==
    /\ pc \in {"off", "done", "refused", "interrupted"}
    /\ run < MaxRuns
    /\ run' = run + 1
    /\ \E emptied \in {{}, {"unlim_speed"}, {"unlim_speed", "lim_speed"}} :
          csv' = [c \in Csv |-> IF c \in emptied THEN <<>> ELSE csv[c]]
    /\ pc' = "refused"
    /\ UNCHANGED <<compare, limit, loopVars, jobVars, fileVars, deaths, outcome>>

---------------------------------------------------------------------------
\* A script starts the process of a job (and top, to watch its memory).
Launch ==
    /\ pc = "script"
    /\ proc = "none"
    /\ proc' = "running"
    /\ outcome' = [outcome EXCEPT ![job] = "started"]
    /\ UNCHANGED <<pc, limit, managerVars, loopVars, script, k, fileVars, deaths>>

\* The process opens its output: Aspen's and Terrace's drivers when they
\* start, speed_process_stream when it has its result.
OpenOutput ==
    /\ proc = "running"
    /\ runtime_stats' = [runtime_stats EXCEPT ![job] = Empty]
    /\ proc' = "opened"
    /\ UNCHANGED <<pc, limit, managerVars, loopVars, script, k, max_memory, deaths,
                   outcome>>

\* Mutant of WriteResult: the process ends before what it wrote is flushed.
WriteResultNotFlushed ==
    /\ proc = "opened"
    /\ proc' = "ended"
    /\ outcome' = [outcome EXCEPT ![job] = "ok"]
    /\ UNCHANGED <<pc, limit, managerVars, loopVars, script, k, fileVars, deaths>>

\* It writes its result, one line, and ends.
WriteResult ==
    /\ proc = "opened"
    /\ runtime_stats' = [runtime_stats EXCEPT ![job] = This(job)]
    /\ proc' = "ended"
    /\ outcome' = [outcome EXCEPT ![job] = "ok"]
    /\ UNCHANGED <<pc, limit, managerVars, loopVars, script, k, max_memory, deaths>>

\* It ends without a result.
Die ==
    /\ proc \in {"running", "opened"}
    /\ deaths < MaxDeaths
    /\ deaths' = deaths + 1
    /\ proc' = "ended"
    /\ UNCHANGED <<pc, limit, managerVars, loopVars, script, k, fileVars, outcome>>

\* The job that follows in the scripts: the two sizes of gutters over all the
\* inputs, then Aspen and Terrace on each input.
HasNext(n) == n < Len(Inputs)
AfterGutters(n) ==
    IF HasNext(n) THEN <<"script", "gutter_results", n + 1>>
    ELSE IF compare THEN <<"script", "results_aspen", 1>>
         ELSE <<"process", "results", 1>>
AfterTerrace(n) ==
    IF HasNext(n) THEN <<"script", "results_aspen", n + 1>>
    ELSE <<"process", "results", 1>>
FollowingJob(d, n) ==
    CASE d = "results" ->
            IF HasNext(n) THEN <<"script", "results", n + 1>>
            ELSE <<"script", "gutter_results", 1>>
      [] d = "gutter_results" -> AfterGutters(n)
      [] d = "results_aspen" ->
            IF Inputs[n] # Kron18 THEN <<"script", "results_terrace", n>>
            ELSE AfterTerrace(n)
      [] d = "results_terrace" -> AfterTerrace(n)

GoTo(next) == pc' = next[1] /\ script' = next[2] /\ k' = next[3]

\* Mutant of Collect: the last process' log is left when the process failed.
CollectResultsOnly ==
    /\ proc = "ended"
    /\ max_memory' = IF outcome[job] = "ok"
                     THEN [max_memory EXCEPT ![job] = This(job)] ELSE max_memory
    /\ proc' = "none"
    /\ GoTo(FollowingJob(script, k))
    /\ s' = 0
    /\ i' = 1
    /\ UNCHANGED <<limit, managerVars, stats, mem, runtime_stats, deaths,
                   outcome>>

\* Mutant of Collect: the script does not go on after a failed process.
CollectStuck ==
    /\ proc = "ended"
    /\ outcome[job] = "ok"
    /\ max_memory' = [max_memory EXCEPT ![job] = This(job)]
    /\ proc' = "none"
    /\ GoTo(FollowingJob(script, k))
    /\ s' = 0
    /\ i' = 1
    /\ UNCHANGED <<limit, managerVars, stats, mem, runtime_stats, deaths,
                   outcome>>

\* The script waited for the process, ends top, and max_memory is made from
\* top's log whether or not the process had a result.
Collect ==
    /\ proc = "ended"
    /\ max_memory' = [max_memory EXCEPT ![job] = This(job)]
    /\ proc' = "none"
    /\ GoTo(FollowingJob(script, k))
    /\ s' = 0
    /\ i' = 1
    /\ UNCHANGED <<limit, managerVars, stats, mem, runtime_stats, deaths,
                   outcome>>

---------------------------------------------------------------------------
\* shell_exec("cat ...", true) returns what was printed: the assertion on its
\* status is not compiled into the release build, and a file that is not there
\* prints nothing.
Cat(file) == IF file = Absent THEN Empty ELSE file

\* sscanf leaves its arguments alone when there is nothing to read.  They are
\* locals of the loop's body without an initial value: what they hold then is
\* what the previous pass left in the same memory, or anything else.
Scanned(file, local) == IF Cat(file) = Empty THEN {local, Garbage} ELSE {file}

\* The csv files that the row of system n goes to.
Reported(n) ==
    IF limit = "speed" THEN {"lim_speed"}
    ELSE (IF n # 3 THEN {"unlim_speed"} ELSE {})
            \cup (IF n # 1 THEN {"mem_usage"} ELSE {})

AddRow(row, n) ==
    csv' = [c \in Csv |-> IF c \in Reported(n) THEN Append(csv[c], row) ELSE csv[c]]

\* The number of systems.
Systems == IF compare THEN 4 ELSE 2

\* What follows a pass: the next input, the next system, the experiment with
\* a memory limit, or the end.
NextPass ==
    \/ /\ i < Len(Inputs)
       /\ i' = i + 1
       /\ UNCHANGED <<s, pc, limit>>
    \/ /\ i = Len(Inputs)
       /\ s + 1 < Systems
       /\ s' = s + 1
       /\ i' = 1
       /\ UNCHANGED <<pc, limit>>
    \/ /\ i = Len(Inputs)
       /\ s + 1 = Systems
       /\ limit = "unlim"
       /\ limit' = "speed"
       /\ pc' = "script"
       /\ UNCHANGED <<s, i>>
    \/ /\ i = Len(Inputs)
       /\ s + 1 = Systems
       /\ limit = "speed"
       /\ pc' = "done"
       /\ UNCHANGED <<s, i, limit>>

\* Mutant of Process: the loop over the inputs is the outer one.
ProcessInputsOutside ==
    /\ pc = "process"
    /\ stats' \in Scanned(runtime_stats[result_loc], stats)
    /\ mem' \in Scanned(max_memory[result_loc], mem)
    /\ AddRow([job |-> result_loc, stats |-> stats', mem |-> mem'], s)
    /\ \/ s + 1 < Systems /\ s' = s + 1 /\ UNCHANGED <<i, pc, limit>>
       \/ s + 1 = Systems /\ i < Len(Inputs) /\ s' = 0 /\ i' = i + 1 /\ UNCHANGED <<pc, limit>>
       \/ s + 1 = Systems /\ i = Len(Inputs) /\ NextPass
    /\ UNCHANGED <<run, compare, jobVars, fileVars, deaths, outcome>>

\* One pass of the loops: read the two files of a job and report them.
Process ==
    /\ pc = "process"
    /\ stats' \in Scanned(runtime_stats[result_loc], stats)
    /\ mem' \in Scanned(max_memory[result_loc], mem)
    /\ AddRow([job |-> result_loc, stats |-> stats', mem |-> mem'], s)
    /\ NextPass
    /\ UNCHANGED <<run, compare, jobVars, fileVars, deaths, outcome>>

---------------------------------------------------------------------------
\* Everything is stopped at some point; the files stay as they are.
Interrupt ==
    /\ pc \in {"script", "process"}
    /\ pc' = "interrupted"
    /\ proc' = "none"
    /\ UNCHANGED <<limit, managerVars, loopVars, script, k, fileVars, deaths, outcome>>

\* run.sh removes the result directories after the last experiment.
CleanUp ==
    /\ pc = "done"
    /\ runtime_stats' = [j \in Job |-> Absent]
    /\ max_memory' = [j \in Job |-> Absent]
    /\ pc' = "off"
    /\ UNCHANGED <<limit, managerVars, loopVars, jobVars, deaths, outcome>>

Step == Launch \/ OpenOutput \/ WriteResult \/ Die \/ Collect \/ Process
Next == Begin \/ Refuse \/ Step \/ Interrupt \/ CleanUp

\* The manager and the scripts go on while they can, and a process that is
\* not interrupted ends: Aspen and Terrace stop at their timeout, and
\* GraphZeppelin's streams are finite.
Spec == Init /\ [][Next]_vars /\ WF_vars(Step)

---------------------------------------------------------------------------
TypeOK ==
    /\ pc \in {"off", "script", "process", "done", "refused", "interrupted"}
    /\ run \in 0 .. MaxRuns
    /\ compare \in BOOLEAN
    /\ limit \in Limit
    /\ script \in Dir
    /\ k \in 1 .. Len(Inputs)
    /\ proc \in {"none", "running", "opened", "ended"}
    /\ runtime_stats \in [Job -> Origin \cup {Absent, Empty}]
    /\ max_memory \in [Job -> Origin \cup {Absent}]
    /\ s \in 0 .. 3
    /\ i \in 1 .. Len(Inputs)
    /\ stats \in Origin \cup {Garbage}
    /\ mem \in Origin \cup {Garbage}
    /\ csv \in [Csv -> Seq(Row)]
    /\ deaths \in 0 .. MaxDeaths
    /\ outcome \in [Job -> {"none", "started", "ok"}]

\* The csv files are those of the current execution.
Current == pc \in {"script", "process", "done"}
RowsOf(c) == {csv[c][n] : n \in 1 .. Len(csv[c])}

\* The row of a job that had its result in this execution reports that very
\* result, whatever an earlier execution left in the result directories and
\* whatever went wrong with other jobs: the scripts' and the manager's result
\* directories agree, and the results are read after they are written and
\* before they are written again.
ResultsReported ==
    Current =>
        \A c \in Csv : \A row \in RowsOf(c) :
            outcome[row.job] = "ok" => row.stats = This(row.job)

\* The memory reported in mem_usage.csv is that of the row's own process of
\* this execution, even if the process had no result, unless the job is the
\* one that the scripts leave out.
MemoryReported ==
    Current =>
        \A row \in RowsOf("mem_usage") :
            ~(row.job[2] = "results_terrace" /\ row.job[3] = Kron18)
                => row.mem = This(row.job)

\* A system is credited with the rate of another one (the uninitialized
\* locals keep it) only while no job of its own, up to this row's input, has
\* had a result.
CreditedToAnother ==
    Current =>
        \A c \in Csv : \A n \in 1 .. Len(csv[c]) :
            LET row == csv[c][n]
            IN  row.stats # Garbage /\ row.stats.job[2] # row.job[2]
                  => \A m \in 1 .. n :
                        csv[c][m].job[2] = row.job[2] => outcome[csv[c][m].job] # "ok"

\* Every execution that begins comes to its end or is interrupted: no
\* failing process, and no order of failures, holds up the scripts.
Terminates == (pc = "script") ~> (pc \in {"done", "interrupted"})

=============================================================================
