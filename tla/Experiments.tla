---------------------------- MODULE Experiments ----------------------------
(***************************************************************************)
(* The experiments of run.sh other than the speed experiment: what         *)
(* run_sketch_expr.sh, query_expr_manager.cpp (with the two comparison     *)
(* scripts), run_buffer_expr.sh, parallel_expr.cpp and                     *)
(* run_correctness_test.sh execute one command after the other, the files  *)
(* the processes leave for later commands, and the csv files made of them. *)
(*                                                                         *)
(* A process does its work line by line and may end at any time without a  *)
(* result (killed by a memory limit, say); no script looks at its status.  *)
(* run.sh may be interrupted at any time; its files survive.  A line is    *)
(* abstracted to who measured what: the execution of run.sh, the job, and  *)
(* what the line says of its own.                                          *)
(***************************************************************************)
EXTENDS Integers, Sequences

CONSTANTS
    Lengths,        \* number of vector lengths of the sketch experiment (10)
    Datasets,       \* number of datasets of the correctness test (5)
    samples,        \* queries of one query experiment (10)
    MaxThreads,     \* values of max_thr (run.sh: 46)
    inc,            \* step of the number of groups (8); with 1 or 2 the loop of
                    \* parallel_expr would not end for one thread
    MaxRuns,        \* bound on the executions of run.sh
    MaxDeaths       \* bound on the processes that end without a result

ASSUME SizesAssumption == {Lengths, Datasets, samples, MaxRuns} \subseteq Nat \ {0}
ASSUME StepAssumption == inc \in Nat \ {0, 1, 2}
ASSUME ThreadsAssumption == MaxThreads \subseteq Nat \ {0}
ASSUME DeathsAssumption == MaxDeaths \in Nat

VARIABLES
    run,            \* executions of run.sh begun so far
    ip,             \* the command it is at; 0 when it does not run
    compare,        \* aspen_terrace of the query manager
    max_thr,        \* argument of the parallel experiment
    lines,          \* what the running process has measured
    groups,         \* its loop counter in the parallel experiment
    working,        \* a process is running
    opened,         \* ... and its file has been opened, for it or by it
    file,           \* the files processes leave for later commands: their
                    \* lines, none when the file is not there
    csv,            \* the files in csv_directory
    outcome,        \* how the jobs of this execution ended, and what each had
                    \* measured by then
    deaths,
    cut             \* executions that were interrupted

argVars == <<run, compare, max_thr>>
procVars == <<lines, groups, working, opened>>
diskVars == <<file, csv>>
vars == <<argVars, ip, procVars, diskVars, outcome, deaths, cut>>

File == {"agm_results", "cube_results", "temp_gz", "temp_asp", "temp_ter",
         "in_mem_buffer", "disk_buffer", "parallel_out", "temp_out"}
Csv == {"sketch", "unlim_query", "lim_query", "buffer", "parallel", "correctness"}

---------------------------------------------------------------------------
(* The commands.  A file is opened by the shell before the process starts, *)
(* with > ("early") or >> ("append"), or by the process itself: once it has*)
(* read the header of the stream ("open"), then to be written line by line,*)
(* or when all is measured, then to be written at once ("late").           *)
Run(job, f, mode) == [op |-> "run", job |-> job, file |-> f, mode |-> mode]
Cat(f, c, job) == [op |-> "cat", job |-> job, file |-> f, csv |-> c]
Rm(fs) == [op |-> "rm", files |-> fs]
New(cs) == [op |-> "new", csvs |-> cs]
Combine == [op |-> "combine"]

\* Mutant of Sketch: >> for every length.
SketchAppend(name, f) == [k \in 1 .. Lengths |-> Run(<<name, k>>, f, "append")]

\* > for the first length, >> for the others.
Sketch(name, f) ==
    [k \in 1 .. Lengths |-> Run(<<name, k>>, f, IF k = 1 THEN "early" ELSE "append")]

run_sketch_expr ==
    Sketch("agm", "agm_results") \o Sketch("cube", "cube_results")
        \o <<Combine, Rm({"agm_results", "cube_results"})>>

\* The two query experiments use the same files, and read Aspen's and
\* Terrace's whether or not these were executed.
query_expr_manager ==
    << New({"unlim_query", "lim_query"}),
       Run(<<"gz_unlim", 1>>, "temp_gz", "late"),
       Run(<<"asp_unlim", 1>>, "temp_asp", "open"),
       Run(<<"ter_unlim", 1>>, "temp_ter", "open"),
       Cat("temp_gz", "unlim_query", <<"gz_unlim", 1>>),
       Cat("temp_asp", "unlim_query", <<"asp_unlim", 1>>),
       Cat("temp_ter", "unlim_query", <<"ter_unlim", 1>>),
       Run(<<"gz_lim", 1>>, "temp_gz", "late"),
       Run(<<"asp_lim", 1>>, "temp_asp", "open"),
       Cat("temp_gz", "lim_query", <<"gz_lim", 1>>),
       Cat("temp_asp", "lim_query", <<"asp_lim", 1>>) >>

\* The processes that the manager executes only if (aspen_terrace).
Comparison == {"asp_unlim", "ter_unlim", "asp_lim"}

run_buffer_expr ==
    << Run(<<"in_mem", 1>>, "in_mem_buffer", "late"),
       Run(<<"disk", 1>>, "disk_buffer", "late"),
       New({"buffer"}),
       Cat("in_mem_buffer", "buffer", <<"in_mem", 1>>),
       Cat("disk_buffer", "buffer", <<"disk", 1>>),
       Rm({"in_mem_buffer", "disk_buffer"}) >>

\* parallel_experiment writes its csv file itself.
parallel_expr == <<Run(<<"parallel", 1>>, "parallel_out", "late")>>

\* Mutant of correctness_test: the file is removed before it is read.
correctness_testRmFirst(k) ==
    << Run(<<"cont_test", k>>, "temp_out", "late"),
       Rm({"temp_out"}),
       Cat("temp_out", "correctness", <<"cont_test", k>>) >>

\* The body of the script's loop over the datasets.
correctness_test(k) ==
    << Run(<<"cont_test", k>>, "temp_out", "late"),
       Cat("temp_out", "correctness", <<"cont_test", k>>),
       Rm({"temp_out"}) >>

run_correctness_test ==
    <<New({"correctness"})>>
        \o [n \in 1 .. 3 * Datasets |-> correctness_test(((n - 1) \div 3) + 1)[((n - 1) % 3) + 1]]

\* rm -f temp* at the end of run.sh.
clean_up == <<Rm({"temp_gz", "temp_asp", "temp_ter", "temp_out"})>>

Script ==
    run_sketch_expr \o query_expr_manager \o run_buffer_expr \o parallel_expr
        \o run_correctness_test \o clean_up

Job == {Script[n].job : n \in {k \in DOMAIN Script : Script[k].op = "run"}}

---------------------------------------------------------------------------
Command == Script[ip]
Executes(op) == ip # 0 /\ ip <= Len(Script) /\ Command.op = op
This(says) == [run |-> run, job |-> Command.job, says |-> says]

\* How a job ended: "ok", or without a result, "died" when its file had been
\* opened and "unopened" when not; "skipped" when it has not been executed.
Outcome(j) == IF j \in DOMAIN outcome THEN outcome[j].end ELSE "skipped"
Result(j) == outcome[j].lines

Init ==
    /\ run = 0
    /\ ip = 0
    /\ compare = FALSE
    /\ max_thr \in MaxThreads
    /\ lines = <<>>
    /\ groups = 1
    /\ working = FALSE
    /\ opened = FALSE
    /\ file = [f \in File |-> <<>>]
    /\ csv = [c \in Csv |-> <<>>]
    /\ outcome = <<>>
    /\ deaths = 0
    /\ cut = {}

\* run.sh is executed, after a complete execution or an interrupted one.
Begin ==
    /\ ip \in {0, Len(Script) + 1}
    /\ run < MaxRuns
    /\ run' = run + 1
    /\ compare' \in BOOLEAN
    /\ ip' = 1
    /\ outcome' = <<>>
    /\ UNCHANGED <<max_thr, procVars, diskVars, deaths, cut>>

Interrupt ==
    /\ ip \in 1 .. Len(Script)
    /\ run < MaxRuns
    /\ ip' = 0
    /\ lines' = <<>>
    /\ groups' = 1
    /\ working' = FALSE
    /\ opened' = FALSE
    /\ cut' = cut \cup {run}
    /\ UNCHANGED <<argVars, diskVars, outcome, deaths>>

---------------------------------------------------------------------------
\* Aspen and Terrace are not executed.
LeaveOut ==
    /\ Executes("run")
    /\ Command.job[1] \in Comparison
    /\ ~compare
    /\ ~working
    /\ ip' = ip + 1
    /\ UNCHANGED <<argVars, procVars, diskVars, outcome, deaths, cut>>

\* A process starts.  What the shell opens for it is emptied, unless with >>.
Start ==
    /\ Executes("run")
    /\ Command.job[1] \in Comparison => compare
    /\ ~working
    /\ working' = TRUE
    /\ opened' \in BOOLEAN /\ (opened' <=> Command.mode \in {"early", "append"})
    /\ file' = IF Command.mode = "early" THEN [file EXCEPT ![Command.file] = <<>>] ELSE file
    /\ UNCHANGED <<argVars, ip, lines, groups, csv, outcome, deaths, cut>>

\* Mutant of Open: what is in the file is kept.
OpenKeeps ==
    /\ working
    /\ Command.mode = "open"
    /\ ~opened
    /\ opened' = TRUE
    /\ UNCHANGED <<argVars, ip, lines, groups, working, diskVars, outcome, deaths, cut>>

\* The drivers of Aspen and Terrace open their file once they have the stream's
\* header and a timeout that is in range; it is emptied.
Open ==
    /\ working
    /\ Command.mode = "open"
    /\ ~opened
    /\ opened' = TRUE
    /\ file' = [file EXCEPT ![Command.file] = <<>>]
    /\ UNCHANGED <<argVars, ip, lines, groups, working, csv, outcome, deaths, cut>>

\* It does a piece of its work.
Measure(says) ==
    /\ lines' = Append(lines, This(says))
    /\ file' = IF Command.mode = "late" THEN file
               ELSE [file EXCEPT ![Command.file] = Append(@, This(says))]

Queries == {"gz_unlim", "asp_unlim", "ter_unlim", "gz_lim", "asp_lim"}

\* The lines that a query experiment can leave.  The last query of Aspen's and
\* Terrace's drivers leaves none: its row is still in the buffer of the stream
\* when exit() ends the process without closing it.
MaxSamples == IF Command.mode = "open" THEN samples - 1 ELSE samples

\* A query of the query experiment.  When GraphZeppelin is out of queries the
\* exception is caught, and the line says 0: there is a line in any case.
Sample ==
    /\ working
    /\ Command.job[1] \in Queries
    /\ Command.mode = "open" => opened
    /\ Len(lines) < MaxSamples
    /\ Measure("time")
    /\ UNCHANGED <<argVars, ip, groups, working, opened, csv, outcome, deaths, cut>>

\* Mutant of Groups: the counter is not set back after the first pass.
GroupsShifted == <<IF groups > max_thr THEN max_thr ELSE groups, groups + inc>>

\* A pass of the loop of parallel_expr: the number of groups it measures, and
\* the counter of the next pass.
Groups ==
    LET g == IF groups > max_thr THEN max_thr ELSE groups
    IN  <<g, (IF g = 1 THEN 0 ELSE g) + inc>>

MoreGroups == groups <= max_thr + (max_thr % inc)

Scale ==
    /\ working
    /\ Command.job[1] = "parallel"
    /\ MoreGroups
    /\ Measure(Groups[1])
    /\ groups' = Groups[2]
    /\ UNCHANGED <<argVars, ip, working, opened, csv, outcome, deaths, cut>>

\* The one line of any other process.
Work ==
    /\ working
    /\ Command.job[1] \notin Queries \cup {"parallel"}
    /\ lines = <<>>
    /\ Measure("result")
    /\ UNCHANGED <<argVars, ip, groups, working, opened, csv, outcome, deaths, cut>>

\* Aspen and Terrace end with fewer queries when the timeout passes.
WorkDone ==
    CASE Command.mode = "open" -> opened
      [] Command.job[1] \in {"gz_unlim", "gz_lim"} -> Len(lines) = samples
      [] Command.job[1] = "parallel" -> ~MoreGroups
      [] OTHER -> lines # <<>>

\* What an entry of a csv file is: a line, the job it is presented as the
\* result of, and the execution that put it there.
Entries(ls, j) == [n \in DOMAIN ls |-> [line |-> ls[n], as |-> j, at |-> run]]

EndProcess(how) ==
    /\ outcome' = [j \in DOMAIN outcome \cup {Command.job} |->
                     IF j = Command.job THEN [end |-> how, lines |-> lines] ELSE outcome[j]]
    /\ ip' = ip + 1
    /\ lines' = <<>>
    /\ groups' = 1
    /\ working' = FALSE
    /\ opened' = FALSE

\* It has finished: a file written late is written now, over any older one.
Finish ==
    /\ working
    /\ WorkDone
    /\ EndProcess("ok")
    /\ file' = IF Command.mode = "late" THEN [file EXCEPT ![Command.file] = lines] ELSE file
    /\ csv' = IF Command.job[1] = "parallel"
              THEN [csv EXCEPT !["parallel"] = Entries(lines, Command.job)] ELSE csv
    /\ UNCHANGED <<argVars, deaths, cut>>

\* It ends without a result; a line it flushed stays.
Die ==
    /\ working
    /\ deaths < MaxDeaths
    /\ deaths' = deaths + 1
    /\ EndProcess(IF opened THEN "died" ELSE "unopened")
    /\ UNCHANGED <<argVars, diskVars, cut>>

---------------------------------------------------------------------------
Step == ip' = ip + 1 /\ UNCHANGED <<argVars, procVars, outcome, deaths, cut>>

\* cat prints nothing when the file is empty or not there.
CatFile ==
    /\ Executes("cat")
    /\ csv' = [csv EXCEPT ![Command.csv] = @ \o Entries(file[Command.file], Command.job)]
    /\ UNCHANGED file
    /\ Step

RmFiles ==
    /\ Executes("rm")
    /\ file' = [f \in File |-> IF f \in Command.files THEN <<>> ELSE file[f]]
    /\ UNCHANGED csv
    /\ Step

NewCsv ==
    /\ Executes("new")
    /\ csv' = [c \in Csv |-> IF c \in Command.csvs THEN <<>> ELSE csv[c]]
    /\ UNCHANGED file
    /\ Step

NoLine == [run |-> 0, job |-> <<"none", 0>>, says |-> "garbage"]

\* combine_sketch_expr_results: the n-th line of one file with the n-th of the
\* other; when there is none, what the last line left in the variables.
CubeLine(n) ==
    LET cube == file["cube_results"] IN
    IF n <= Len(cube) THEN cube[n] ELSE IF cube # <<>> THEN cube[Len(cube)] ELSE NoLine

CombineResults ==
    /\ Executes("combine")
    /\ csv' = [csv EXCEPT !["sketch"] =
                 [n \in DOMAIN file["agm_results"] |->
                    [line |-> CubeLine(n), as |-> <<"cube", file["agm_results"][n].job[2]>>,
                     at |-> run]]]
    /\ UNCHANGED file
    /\ Step

Process == LeaveOut \/ Start \/ Open \/ Sample \/ Scale \/ Work \/ Finish \/ Die
Shell == CatFile \/ RmFiles \/ NewCsv \/ CombineResults
Next == Begin \/ Interrupt \/ Process \/ Shell

Spec == Init /\ [][Next]_vars

---------------------------------------------------------------------------
Died(j) == Outcome(j) \in {"died", "unopened"}
Own(e) == e.line.run = run /\ e.line.job = e.as
Reported(c) == {n \in DOMAIN csv[c] : csv[c][n].at = run}

\* Jobs whose file the next one finds: <<the earlier, the later>>.
Inherits == {<<<<"gz_unlim", 1>>, <<"gz_lim", 1>>>>, <<<<"asp_unlim", 1>>, <<"asp_lim", 1>>>>}

\* Whose lines a csv file presents as a job's: the job's own, unless it was not
\* executed (Aspen and Terrace, when they are left out) or ended before it had
\* opened its file.  Then they may be lines that an interrupted execution left,
\* but of this one only those of the same system without a memory limit: killed
\* by the limit before it opens its file, one_query_expr or Aspen's driver is
\* credited with its own results without one.  Nothing else is ever mixed up, a
\* dataset of the correctness test with the one before it, say, or results of
\* a complete execution with those of the next.
CreditedRight ==
    \A c \in Csv \ {"sketch"} : \A n \in Reported(c) :
        LET e == csv[c][n] IN
        \/ Own(e)
        \/ /\ Outcome(e.as) \in {"skipped", "unopened"}
           /\ \/ e.line.run \in cut \ {run}
              \/ e.line.run = run /\ <<e.line.job, e.as>> \in Inherits

\* The csv file c has, one after the other and as those of the job j, the lines
\* ls, put there by this execution.
Holds(c, j, ls) ==
    \E d \in 0 .. Len(csv[c]) :
        /\ d + Len(ls) <= Len(csv[c])
        /\ \A n \in DOMAIN ls : csv[c][d + n] = [line |-> ls[n], as |-> j, at |-> run]

\* At the end every line that a finished job wrote is in a csv file as that
\* job's, all of them together and in their order, and a csv file that is older
\* than this execution is the parallel experiment's.  The two sketches, whose
\* lines become columns of one row, are the matter of PairedByLength.
Complete ==
    ip = Len(Script) + 1 =>
        /\ \A c \in Csv : \A n \in DOMAIN csv[c] :
              csv[c][n].at # run => c = "parallel" /\ Died(<<"parallel", 1>>)
        /\ \A j \in Job : Outcome(j) = "ok" /\ j[1] \notin {"agm", "cube"} =>
              \E c \in Csv : Holds(c, j, Result(j))

\* The rows of the sketch experiment compare the two sketches at the same
\* length, and there is one for every length, as long as no process of it died.
PairedByLength ==
    (\A k \in 1 .. Lengths : ~Died(<<"agm", k>>) /\ ~Died(<<"cube", k>>)) =>
        /\ \A n \in Reported("sketch") :
              Own(csv["sketch"][n]) /\ csv["sketch"][n].as = <<"cube", n>>
        /\ ip = Len(Script) + 1 => Reported("sketch") = 1 .. Lengths

\* max_thr itself is measured unless it is one to three above a multiple of 8.
Measured == {csv["parallel"][n].line.says : n \in Reported("parallel")}
MaxMeasured ==
    Reported("parallel") # {} =>
        /\ 1 \in Measured /\ \A g \in Measured : g <= max_thr
        /\ \A g \in 1 .. max_thr : g % inc = 0 => g \in Measured
        /\ max_thr \in Measured <=> max_thr = 1 \/ max_thr % inc = 0 \/ 2 * (max_thr % inc) >= inc
        /\ \A n, k \in Reported("parallel") :
              n < k => csv["parallel"][n].line.says < csv["parallel"][k].line.says

=============================================================================
