----------------------- MODULE SpeedExperiment_proofs -----------------------
(***************************************************************************)
(* ResultsReported, MemoryReported and CreditedToAnother for every list of *)
(* inputs and every number of executions and failures; and PeakReported,   *)
(* of the programs that read the log of a process' memory, for every log.  *)
(***************************************************************************)
EXTENDS SpeedExperiment, MemoryReport, TLAPS

\* A result of this execution stays in its file until the next execution.
ResultsKept ==
    Current => \A j \in Job : outcome[j] = "ok" => runtime_stats[j] = This(j)

\* A process runs only for a script, and its job has no result yet.
Busy ==
    /\ proc # "none" => pc = "script"
    /\ proc \in {"running", "opened"} => outcome[job] = "started"

\* While the jobs of an experiment run, none of them has been reported.
NotYetReported ==
    /\ pc = "script" => \A c \in Csv : \A n \in 1 .. Len(csv[c]) : csv[c][n].job[1] # limit
    /\ Current /\ limit = "unlim" =>
          \A c \in Csv : \A n \in 1 .. Len(csv[c]) : csv[c][n].job[1] = "unlim"

Inv ==
    /\ TypeOK
    /\ (Current => run > 0)
    /\ ResultsKept
    /\ Busy
    /\ NotYetReported
    /\ ResultsReported

---------------------------------------------------------------------------
LEMMA InputsType == /\ Len(Inputs) \in Nat \ {0}
                    /\ \A n \in 1 .. Len(Inputs) : Inputs[n] \in Input
BY InputsAssumption DEF Input

LEMMA JobType == TypeOK => job \in Job
BY InputsType DEF TypeOK, job, Job

LEMMA LocType == TypeOK => result_loc \in Job
<1>1. \A n \in 0 .. 3 : result_dir[n] \in Dir
  BY DEF result_dir, Dir
<1>2. QED
  BY <1>1, InputsType DEF TypeOK, result_loc, Job

LEMMA FollowingType ==
    ASSUME NEW d \in Dir, NEW n \in 1 .. Len(Inputs)
    PROVE  /\ FollowingJob(d, n)[1] \in {"script", "process"}
           /\ FollowingJob(d, n)[2] \in Dir
           /\ FollowingJob(d, n)[3] \in 1 .. Len(Inputs)
<1>1. CASE d = "results"
  BY <1>1, InputsType DEF FollowingJob, HasNext, Dir
<1>2. CASE d = "gutter_results"
  BY <1>2, InputsType DEF FollowingJob, AfterGutters, HasNext, Dir
<1>3. CASE d = "results_aspen"
  BY <1>3, InputsType DEF FollowingJob, AfterTerrace, HasNext, Dir
<1>4. CASE d = "results_terrace"
  BY <1>4, InputsType DEF FollowingJob, AfterTerrace, HasNext, Dir
<1>5. QED
  BY <1>1, <1>2, <1>3, <1>4 DEF Dir

LEMMA RowType ==
    ASSUME TypeOK, NEW c \in Csv, NEW n \in 1 .. Len(csv[c])
    PROVE  csv[c][n] \in Row /\ csv[c][n].job \in Job
<1>1. csv[c] \in Seq(Row)
  BY DEF TypeOK
<1>2. csv[c][n] \in Row
  BY <1>1
<1>3. QED
  BY <1>2 DEF Row

\* A row that a new value of outcome calls good was good before.
LEMMA ReportKept ==
    ASSUME TypeOK, ResultsReported, UNCHANGED <<pc, run, csv>>,
           \A c \in Csv : \A n \in 1 .. Len(csv[c]) :
                outcome'[csv[c][n].job] = "ok" => outcome[csv[c][n].job] = "ok"
    PROVE  ResultsReported'
<1>1. SUFFICES ASSUME Current, NEW c \in Csv, NEW n \in 1 .. Len(csv[c]),
                      outcome'[csv[c][n].job] = "ok"
               PROVE  csv[c][n].stats = This(csv[c][n].job)
  BY DEF ResultsReported, RowsOf, Current, This
<1>2. outcome[csv[c][n].job] = "ok"
  BY <1>1
<1>3. QED
  BY <1>1, <1>2 DEF ResultsReported, RowsOf

---------------------------------------------------------------------------
LEMMA Initially == Init => Inv
<1> SUFFICES ASSUME Init PROVE Inv
  OBVIOUS
<1>1. compare \in BOOLEAN
  BY Zenon DEF Init
<1>2. csv \in [Csv -> Seq(Row)]
  BY DEF Init
<1>3. TypeOK
  BY <1>1, <1>2, InputsType, MaxRunsAssumption, MaxDeathsAssumption DEF Init, TypeOK, Limit, Dir
<1>4. ~Current
  BY DEF Init, Current
<1>5. Busy
  BY DEF Init, Busy
<1>6. NotYetReported /\ ResultsKept /\ ResultsReported
  BY <1>4 DEF NotYetReported, ResultsKept, ResultsReported, Init
<1>7. QED
  BY <1>3, <1>4, <1>5, <1>6 DEF Inv

LEMMA BeginStep == Inv /\ Begin => Inv'
<1> SUFFICES ASSUME Inv, Begin PROVE Inv'
  OBVIOUS
<1>2. csv' \in [Csv -> Seq(Row)] /\ \A c \in Csv : csv'[c] = <<>>
  BY DEF Begin
<1>3. TypeOK'
  BY <1>2, InputsType, MaxRunsAssumption DEF Inv, TypeOK, Begin, Limit, Dir, fileVars
<1>4. ResultsKept' /\ Busy'
  BY DEF Begin, ResultsKept, Busy
<1>5. NotYetReported' /\ ResultsReported'
  BY <1>2 DEF NotYetReported, ResultsReported, RowsOf
<1>6. run' > 0
  BY DEF Begin, Inv, TypeOK
<1>7. QED
  BY <1>3, <1>4, <1>5, <1>6 DEF Inv

LEMMA RefuseStep == Inv /\ Refuse => Inv'
<1> SUFFICES ASSUME Inv, Refuse PROVE Inv'
  OBVIOUS
<1>1. csv' \in [Csv -> Seq(Row)]
  BY DEF Refuse, Inv, TypeOK
<1>2. TypeOK'
  BY <1>1, MaxRunsAssumption DEF Inv, TypeOK, Refuse, loopVars, jobVars, fileVars
<1>3. ~Current' /\ pc' = "refused"
  BY DEF Refuse, Current
<1>4. proc = "none" /\ proc' = "none"
  BY DEF Refuse, Inv, Busy, jobVars
<1>5. QED
  BY <1>2, <1>3, <1>4 DEF Inv, ResultsKept, Busy, NotYetReported, ResultsReported

LEMMA LaunchStep == Inv /\ Launch => Inv'
<1> SUFFICES ASSUME Inv, Launch PROVE Inv'
  OBVIOUS
<1>1. UNCHANGED <<pc, limit, run, compare, csv, s, i, stats, mem, script, k,
                  runtime_stats, max_memory, deaths>>
  BY DEF Launch, managerVars, loopVars, fileVars
<1>2. job \in Job /\ job' = job
  BY <1>1, JobType DEF Inv, job
<1>3. outcome' \in [Job -> {"none", "started", "ok"}] /\ outcome'[job] = "started"
  BY <1>2 DEF Launch, Inv, TypeOK
<1>4. \A j \in Job : outcome'[j] = "ok" => outcome[j] = "ok"
  BY <1>2 DEF Launch, Inv, TypeOK
<1>5. TypeOK'
  BY <1>1, <1>3 DEF Inv, TypeOK, Launch
<1>6. ResultsKept' /\ Busy'
  BY <1>1, <1>2, <1>3, <1>4 DEF Inv, ResultsKept, Busy, Current, This, Launch
<1>7. NotYetReported'
  BY <1>1 DEF Inv, NotYetReported, Current
<1>8. ResultsReported'
  BY <1>1, <1>4, RowType, ReportKept DEF Inv
<1>9. QED
  BY <1>1, <1>5, <1>6, <1>7, <1>8 DEF Inv, Current

LEMMA OpenOutputStep == Inv /\ OpenOutput => Inv'
<1> SUFFICES ASSUME Inv, OpenOutput PROVE Inv'
  OBVIOUS
<1>1. UNCHANGED <<pc, limit, run, compare, csv, s, i, stats, mem, script, k,
                  max_memory, deaths, outcome>>
  BY DEF OpenOutput, managerVars, loopVars
<1>2. job \in Job /\ job' = job /\ outcome[job] = "started"
  BY <1>1, JobType DEF Inv, job, Busy, OpenOutput
<1>3. /\ runtime_stats' \in [Job -> Origin \cup {Absent, Empty}]
      /\ \A j \in Job : j # job => runtime_stats'[j] = runtime_stats[j]
  BY <1>2 DEF OpenOutput, Inv, TypeOK
<1>4. TypeOK'
  BY <1>1, <1>3 DEF Inv, TypeOK, OpenOutput
<1>5. ResultsKept' /\ Busy'
  BY <1>1, <1>2, <1>3 DEF Inv, ResultsKept, Busy, Current, This, OpenOutput
<1>6. NotYetReported'
  BY <1>1 DEF Inv, NotYetReported, Current
<1>7. ResultsReported'
  BY <1>1, ReportKept DEF Inv
<1>8. QED
  BY <1>1, <1>4, <1>5, <1>6, <1>7 DEF Inv, Current

LEMMA WriteResultStep == Inv /\ WriteResult => Inv'
<1> SUFFICES ASSUME Inv, WriteResult PROVE Inv'
  OBVIOUS
<1>1. UNCHANGED <<pc, limit, run, compare, csv, s, i, stats, mem, script, k,
                  max_memory, deaths>>
  BY DEF WriteResult, managerVars, loopVars
<1>2. job \in Job /\ job' = job /\ pc = "script" /\ job[1] = limit
  BY <1>1, JobType DEF Inv, job, Busy, WriteResult
<1>3. This(job) \in Origin
  BY <1>2 DEF This, Origin, Inv, TypeOK, Current
<1>4. /\ runtime_stats' \in [Job -> Origin \cup {Absent, Empty}]
      /\ runtime_stats'[job] = This(job)
      /\ \A j \in Job : j # job => runtime_stats'[j] = runtime_stats[j]
  BY <1>2, <1>3 DEF WriteResult, Inv, TypeOK
<1>5. /\ outcome' \in [Job -> {"none", "started", "ok"}]
      /\ \A j \in Job : j # job => outcome'[j] = outcome[j]
  BY <1>2 DEF WriteResult, Inv, TypeOK
<1>6. TypeOK'
  BY <1>1, <1>4, <1>5 DEF Inv, TypeOK, WriteResult
<1>7. ResultsKept' /\ Busy'
  BY <1>1, <1>2, <1>4, <1>5 DEF Inv, ResultsKept, Busy, Current, This, WriteResult
<1>8. NotYetReported'
  BY <1>1 DEF Inv, NotYetReported, Current
<1>9. \A c \in Csv : \A n \in 1 .. Len(csv[c]) : csv[c][n].job # job
  BY <1>2 DEF Inv, NotYetReported
<1>10. ResultsReported'
  BY <1>1, <1>5, <1>9, RowType, ReportKept DEF Inv
<1>11. QED
  BY <1>1, <1>6, <1>7, <1>8, <1>10 DEF Inv, Current

LEMMA DieStep == Inv /\ Die => Inv'
<1> SUFFICES ASSUME Inv, Die PROVE Inv'
  OBVIOUS
<1>1. UNCHANGED <<pc, limit, run, compare, csv, s, i, stats, mem, script, k,
                  runtime_stats, max_memory, outcome>>
  BY DEF Die, managerVars, loopVars, fileVars
<1>2. TypeOK'
  BY <1>1, MaxDeathsAssumption DEF Inv, TypeOK, Die
<1>3. ResultsKept' /\ Busy'
  BY <1>1 DEF Inv, ResultsKept, Busy, Current, This, Die
<1>4. NotYetReported'
  BY <1>1 DEF Inv, NotYetReported, Current
<1>5. ResultsReported'
  BY <1>1, ReportKept DEF Inv
<1>6. QED
  BY <1>1, <1>2, <1>3, <1>4, <1>5 DEF Inv, Current

LEMMA CollectStep == Inv /\ Collect => Inv'
<1> SUFFICES ASSUME Inv, Collect PROVE Inv'
  OBVIOUS
<1>1. UNCHANGED <<limit, run, compare, csv, stats, mem, runtime_stats, deaths,
                  outcome>>
  BY DEF Collect, managerVars
<1>2. job \in Job /\ pc = "script"
  BY JobType DEF Inv, Busy, Collect
<1>3. This(job) \in Origin
  BY <1>2 DEF This, Origin, Inv, TypeOK, Current
<1>4. max_memory' \in [Job -> Origin \cup {Absent}]
  BY <1>2, <1>3 DEF Collect, Inv, TypeOK
<1>5. pc' \in {"script", "process"} /\ script' \in Dir /\ k' \in 1 .. Len(Inputs)
  BY FollowingType DEF Collect, GoTo, Inv, TypeOK
<1>6. TypeOK'
  BY <1>1, <1>4, <1>5, InputsType DEF Inv, TypeOK, Collect
<1>7. Current /\ Current'
  BY <1>2, <1>5 DEF Current
<1>8. ResultsKept' /\ Busy'
  BY <1>1, <1>7 DEF Inv, ResultsKept, Busy, This, Collect
<1>9. NotYetReported'
  BY <1>1, <1>2, <1>7 DEF Inv, NotYetReported
<1>10. ResultsReported'
  BY <1>1, <1>7 DEF Inv, ResultsReported, RowsOf, This
<1>11. QED
  BY <1>1, <1>6, <1>7, <1>8, <1>9, <1>10 DEF Inv

LEMMA InterruptStep == Inv /\ Interrupt => Inv'
<1> SUFFICES ASSUME Inv, Interrupt PROVE Inv'
  OBVIOUS
<1>1. TypeOK'
  BY DEF Inv, TypeOK, Interrupt, managerVars, loopVars, fileVars
<1>2. pc' = "interrupted" /\ proc' = "none" /\ ~Current'
  BY DEF Interrupt, Current
<1>3. QED
  BY <1>1, <1>2 DEF Inv, ResultsKept, Busy, NotYetReported, ResultsReported

LEMMA CleanUpStep == Inv /\ CleanUp => Inv'
<1> SUFFICES ASSUME Inv, CleanUp PROVE Inv'
  OBVIOUS
<1>1. TypeOK'
  BY DEF Inv, TypeOK, CleanUp, managerVars, loopVars, jobVars
<1>2. pc' = "off" /\ proc' = "none" /\ ~Current'
  BY DEF CleanUp, Current, Inv, Busy, jobVars
<1>3. QED
  BY <1>1, <1>2 DEF Inv, ResultsKept, Busy, NotYetReported, ResultsReported

LEMMA ProcessStep == Inv /\ Process => Inv'
<1> SUFFICES ASSUME Inv, Process PROVE Inv'
  OBVIOUS
<1> DEFINE row == [job |-> result_loc, stats |-> stats', mem |-> mem']
<1>1. UNCHANGED <<run, compare, script, k, proc, runtime_stats, max_memory, deaths,
                  outcome>>
  BY DEF Process, jobVars, fileVars
<1>2. pc = "process" /\ Current /\ Current' /\ proc = "none"
  BY DEF Process, Inv, Busy, Current, NextPass
<1>3. result_loc \in Job /\ result_loc[1] = limit
  BY LocType DEF Inv, result_loc
<1>4. runtime_stats[result_loc] \in Origin \cup {Absent, Empty}
  BY <1>3 DEF Inv, TypeOK
<1>5. stats' \in Origin \cup {Garbage}
  BY <1>4 DEF Process, Scanned, Cat, Inv, TypeOK
<1>6. max_memory[result_loc] \in Origin \cup {Absent}
  BY <1>3 DEF Inv, TypeOK
<1>7. mem' \in Origin \cup {Garbage}
  BY <1>6 DEF Process, Scanned, Cat, Inv, TypeOK
<1>8. row \in Row
  BY <1>3, <1>5, <1>7 DEF Row
<1>9. /\ csv' \in [Csv -> Seq(Row)]
      /\ \A c \in Csv : csv'[c] = csv[c] \/ csv'[c] = Append(csv[c], row)
  BY <1>8 DEF Process, AddRow, Inv, TypeOK
<1>10. \A c \in Csv : \A n \in 1 .. Len(csv'[c]) :
          \/ csv'[c][n] = row
          \/ n \in 1 .. Len(csv[c]) /\ csv'[c][n] = csv[c][n]
  <2>1. SUFFICES ASSUME NEW c \in Csv, NEW n \in 1 .. Len(csv'[c])
                 PROVE  \/ csv'[c][n] = row
                        \/ n \in 1 .. Len(csv[c]) /\ csv'[c][n] = csv[c][n]
    OBVIOUS
  <2>2. csv[c] \in Seq(Row)
    BY DEF Inv, TypeOK
  <2> HIDE DEF row
  <2>3. CASE csv'[c] = Append(csv[c], row)
    BY <1>8, <2>1, <2>2, <2>3
  <2>4. QED
    BY <1>9, <2>1, <2>3
<1>12. /\ s' \in 0 .. 3
       /\ i' \in 1 .. Len(Inputs)
       /\ limit' \in Limit
       /\ pc' \in {"script", "process", "done"}
  BY <1>2, InputsType DEF Process, NextPass, Systems, Inv, TypeOK, Limit
<1>13. TypeOK'
  BY <1>1, <1>5, <1>7, <1>9, <1>12 DEF Inv, TypeOK
<1>14. ResultsKept' /\ Busy'
  BY <1>1, <1>2 DEF Inv, ResultsKept, Busy, This
<1>15. NotYetReported'
  <2>1. \/ pc' # "script" /\ limit' = limit
        \/ pc' = "script" /\ limit = "unlim" /\ limit' = "speed"
    BY <1>2 DEF Process, NextPass
  <2>2. ASSUME limit = "unlim", NEW c \in Csv, NEW n \in 1 .. Len(csv'[c])
        PROVE  csv'[c][n].job[1] = "unlim"
    BY <1>2, <1>3, <1>10, <2>2 DEF Inv, NotYetReported
  <2>3. QED
    BY <2>1, <2>2 DEF NotYetReported
<1>16. ResultsReported'
  <2>1. SUFFICES ASSUME NEW c \in Csv, NEW n \in 1 .. Len(csv'[c]),
                        outcome[csv'[c][n].job] = "ok"
                 PROVE  csv'[c][n].stats = This(csv'[c][n].job)
    BY <1>1 DEF ResultsReported, RowsOf, This
  <2>2. CASE csv'[c][n] = row
    <3>1. runtime_stats[result_loc] = This(result_loc)
      BY <1>2, <1>3, <2>1, <2>2 DEF Inv, ResultsKept
    <3>2. This(result_loc) \notin {Absent, Empty}
      BY <1>2 DEF This, Absent, Empty, Inv
    <3>3. stats' = This(result_loc)
      BY <3>1, <3>2 DEF Process, Scanned, Cat
    <3>4. QED
      BY <2>2, <3>3
  <2>3. CASE n \in 1 .. Len(csv[c]) /\ csv'[c][n] = csv[c][n]
    BY <1>2, <2>1, <2>3 DEF Inv, ResultsReported, RowsOf
  <2>4. QED
    BY <1>10, <2>2, <2>3
<1>17. QED
  BY <1>1, <1>2, <1>13, <1>14, <1>15, <1>16 DEF Inv

---------------------------------------------------------------------------
LEMMA StutterStep == Inv /\ UNCHANGED vars => Inv'
<1> SUFFICES ASSUME Inv, UNCHANGED vars PROVE Inv'
  OBVIOUS
<1>1. UNCHANGED <<pc, run, compare, limit, script, k, proc, runtime_stats, max_memory,
                  s, i, stats, mem, csv, deaths, outcome>>
  BY DEF vars, managerVars, loopVars, jobVars, fileVars
<1>2. TypeOK'
  BY <1>1 DEF Inv, TypeOK
<1>3. ResultsKept' /\ Busy'
  BY <1>1 DEF Inv, ResultsKept, Busy, Current, This, job
<1>4. NotYetReported'
  BY <1>1 DEF Inv, NotYetReported, Current
<1>5. ResultsReported'
  BY <1>1, ReportKept DEF Inv
<1>6. QED
  BY <1>1, <1>2, <1>3, <1>4, <1>5 DEF Inv, Current

\* Inv holds throughout: the results of an execution stay in their files and
\* are reported after its last job of the same limit has ended.
THEOREM Invariance == Spec => []Inv
<1>1. Inv /\ [Next]_vars => Inv'
  BY BeginStep, RefuseStep, LaunchStep, OpenOutputStep, WriteResultStep, DieStep,
     CollectStep, ProcessStep, InterruptStep, CleanUpStep, StutterStep DEF Next, Step
<1>2. QED
  BY Initially, <1>1, PTL DEF Spec

\* The variables of the manager, the scripts and the files keep their types.
THEOREM TypeCorrect == Spec => []TypeOK
<1>1. Inv => TypeOK
  BY DEF Inv
<1>2. QED
  BY Invariance, <1>1, PTL

\* A job that had its result is reported with that result, for any inputs,
\* any number of executions of the manager and any failures and
\* interruptions (speed_expr_manager.cpp and its scripts).
THEOREM ReportCorrect == Spec => []ResultsReported
<1>1. Inv => ResultsReported
  BY DEF Inv
<1>2. QED
  BY Invariance, <1>1, PTL

---------------------------------------------------------------------------
(* Memory *)

\* The scripts have been through the n-th input for directory d.
Passed(d, n) ==
    \/ pc = "process" /\ (d \in {"results", "gutter_results"} \/ compare)
    \/ /\ pc = "script"
       /\ \/ d = "results" /\ (script # "results" \/ n < k)
          \/ d = "gutter_results" /\ script # "results" /\ (script # "gutter_results" \/ n < k)
          \/ d \in {"results_aspen", "results_terrace"}
                /\ script \in {"results_aspen", "results_terrace"} /\ n < k
          \/ d = "results_aspen" /\ script = "results_terrace" /\ n = k

\* The job the scripts leave out.
LeftOut(d, input) == d = "results_terrace" /\ input = Kron18

\* The file of every job passed is the one this execution made.
Collected ==
    \A d \in Dir, n \in 1 .. Len(Inputs) :
        Passed(d, n) /\ ~LeftOut(d, Inputs[n])
            => max_memory[<<limit, d, Inputs[n]>>] = This(<<limit, d, Inputs[n]>>)

\* The loops over the results stay within the systems that were run, and the
\* scripts of the next experiment will begin at their first job.
Loops == pc = "process" => (s \in {0, 1} \/ compare) /\ script = "results" /\ k = 1

MemInv == Collected /\ Loops /\ MemoryReported

LEMMA MemInitially == Init => MemInv
<1> SUFFICES ASSUME Init PROVE MemInv
  OBVIOUS
<1>1. ~Current /\ pc = "off"
  BY DEF Init, Current
<1> QED
  BY <1>1 DEF MemInv, Collected, Passed, Loops, MemoryReported

\* A step of a process changes none of this.
LEMMA MemQuiet ==
    ASSUME MemInv, UNCHANGED <<pc, limit, run, compare, csv, s, script, k, max_memory>>
    PROVE  MemInv'
<1>1. Collected'
  BY DEF MemInv, Collected, Passed, This
<1>2. Loops'
  BY DEF MemInv, Loops
<1>3. MemoryReported'
  BY DEF MemInv, MemoryReported, Current, RowsOf, This
<1> QED
  BY <1>1, <1>2, <1>3 DEF MemInv

\* Outside the scripts and the loops there is nothing to keep.
LEMMA MemIdle ==
    ASSUME pc' \in {"off", "refused", "interrupted"}
    PROVE  MemInv'
<1>1. ~Current'
  BY DEF Current
<1> QED
  BY <1>1 DEF MemInv, Collected, Passed, Loops, MemoryReported

LEMMA MemBegin == ASSUME Inv, MemInv, Begin PROVE MemInv'
<1>1. pc' = "script" /\ script' = "results" /\ k' = 1 /\ csv' = [c \in Csv |-> <<>>]
  BY DEF Begin
<1>2. Collected'
  BY <1>1, InputsType DEF Collected, Passed
<1>3. Loops'
  BY <1>1 DEF Loops
<1>4. MemoryReported'
  <2>1. csv'["mem_usage"] = <<>>
    BY <1>1 DEF Csv
  <2> QED BY <2>1 DEF MemoryReported, RowsOf
<1> QED
  BY <1>2, <1>3, <1>4 DEF MemInv

\* A job is passed when its process is collected, except the one left out.
LEMMA CollectPasses ==
    ASSUME Inv, Collect, NEW d \in Dir, NEW n \in 1 .. Len(Inputs), Passed(d, n)'
    PROVE  Passed(d, n) \/ (d = script /\ n = k) \/ LeftOut(d, Inputs[n])
<1>1. /\ pc = "script" /\ script \in Dir /\ k \in 1 .. Len(Inputs) /\ compare' = compare
      /\ GoTo(FollowingJob(script, k))
  BY DEF Inv, Busy, TypeOK, Collect, managerVars
<1>2. n \in Nat /\ k \in Nat /\ Len(Inputs) \in Nat /\ n <= Len(Inputs) /\ k <= Len(Inputs)
  BY <1>1, InputsType
<1>3. CASE script = "results"
  BY <1>1, <1>2, <1>3 DEF FollowingJob, HasNext, GoTo, Passed, Dir
<1>4. CASE script = "gutter_results"
  BY <1>1, <1>2, <1>4 DEF FollowingJob, AfterGutters, HasNext, GoTo, Passed, Dir
<1>5. CASE script = "results_aspen" /\ Inputs[k] # Kron18
  BY <1>1, <1>2, <1>5 DEF FollowingJob, GoTo, Passed, Dir
<1>6. CASE script = "results_aspen" /\ Inputs[k] = Kron18
  <2>1. GoTo(AfterTerrace(k))
    BY <1>1, <1>6 DEF FollowingJob
  <2>2. n < k \/ n = k \/ n > k
    BY <1>2
  <2> QED BY <1>1, <1>2, <1>6, <2>1, <2>2 DEF AfterTerrace, HasNext, GoTo, Passed, Dir, LeftOut
<1>7. CASE script = "results_terrace"
  BY <1>1, <1>2, <1>7 DEF FollowingJob, AfterTerrace, HasNext, GoTo, Passed, Dir
<1> QED
  BY <1>1, <1>3, <1>4, <1>5, <1>6, <1>7 DEF Dir

LEMMA MemCollect == ASSUME Inv, MemInv, Collect PROVE MemInv'
<1>1. /\ UNCHANGED <<limit, run, compare, csv>> /\ s' = 0 /\ pc = "script"
      /\ max_memory' = [max_memory EXCEPT ![job] = This(job)]
      /\ GoTo(FollowingJob(script, k)) /\ script \in Dir
  BY DEF Collect, managerVars, Inv, Busy, TypeOK
<1>2. job \in Job /\ max_memory \in [Job -> Origin \cup {Absent}]
  BY JobType DEF Inv, TypeOK
<1>3. /\ max_memory'[job] = This(job)
      /\ \A j \in Job : j # job => max_memory'[j] = max_memory[j]
  BY <1>1, <1>2
<1>4. Collected'
  <2> SUFFICES ASSUME NEW d \in Dir, NEW n \in 1 .. Len(Inputs), Passed(d, n)',
                      ~LeftOut(d, Inputs[n])
               PROVE  max_memory'[<<limit, d, Inputs[n]>>] = This(<<limit, d, Inputs[n]>>)
    BY <1>1 DEF Collected, LeftOut, This
  <2>1. <<limit, d, Inputs[n]>> \in Job
    BY InputsType DEF Job, Inv, TypeOK
  <2>2. CASE <<limit, d, Inputs[n]>> = job
    BY <1>3, <2>2
  <2>3. CASE <<limit, d, Inputs[n]>> # job
    <3>1. Passed(d, n)
      BY <2>3, CollectPasses DEF job
    <3> QED BY <1>3, <2>1, <2>3, <3>1 DEF MemInv, Collected
  <2> QED BY <2>2, <2>3
<1>5. Loops'
  BY <1>1 DEF Loops, FollowingJob, AfterGutters, AfterTerrace, HasNext, GoTo, Dir
<1>6. MemoryReported'
  BY <1>1 DEF MemInv, MemoryReported, Current, RowsOf, This
<1> QED
  BY <1>4, <1>5, <1>6 DEF MemInv

LEMMA MemProcess == ASSUME Inv, MemInv, Process PROVE MemInv'
<1> DEFINE row == [job |-> result_loc, stats |-> stats', mem |-> mem']
<1>1. /\ UNCHANGED <<run, compare, script, k, max_memory>> /\ pc = "process" /\ NextPass
      /\ mem' \in Scanned(max_memory[result_loc], mem) /\ AddRow(row, s)
  BY DEF Process, jobVars, fileVars
<1>2. /\ s \in 0 .. 3 /\ i \in 1 .. Len(Inputs) /\ (s \in {0, 1} \/ compare)
      /\ script = "results" /\ k = 1 /\ run > 0
  BY <1>1 DEF Inv, TypeOK, MemInv, Loops, Current
<1>3. \/ pc' = "process" /\ limit' = limit
      \/ pc' = "script" \/ pc' = "done"
  BY <1>1 DEF NextPass
<1>4. Collected'
  <2>1. CASE pc' = "process" /\ limit' = limit
    BY <1>1, <2>1 DEF MemInv, Collected, Passed, This
  <2>2. CASE pc' \in {"script", "done"}
    <3>1. \A n \in 1 .. Len(Inputs) : ~(n < 1)
      BY InputsType
    <3> QED BY <1>1, <1>2, <2>2, <3>1 DEF Collected, Passed
  <2> QED BY <1>3, <2>1, <2>2
<1>5. Loops'
  <2> SUFFICES ASSUME pc' = "process" PROVE s' \in {0, 1} \/ compare
    BY <1>1, <1>2 DEF Loops
  <2> QED BY <1>1, <1>2 DEF NextPass, Systems
<1>6. MemoryReported'
  <2>1. csv["mem_usage"] \in Seq(Row) /\ "mem_usage" \in Csv
    BY DEF Inv, TypeOK, Csv
  <2>2. result_loc = <<limit, result_dir[s], Inputs[i]>> /\ result_loc \in Job
    BY LocType DEF result_loc, Inv
  <2>3. ~LeftOut(result_dir[s], Inputs[i]) => mem' = This(result_loc)
    <3> SUFFICES ASSUME ~LeftOut(result_dir[s], Inputs[i]) PROVE mem' = This(result_loc)
      OBVIOUS
    <3>1. result_dir[s] \in Dir /\ (s \in {0, 1} => result_dir[s] \in {"results", "gutter_results"})
      BY <1>2 DEF result_dir, Dir
    <3>2. Passed(result_dir[s], i)
      BY <1>1, <1>2, <3>1 DEF Passed
    <3>3. max_memory[result_loc] = This(result_loc)
      BY <1>2, <2>2, <3>1, <3>2 DEF MemInv, Collected
    <3>4. This(result_loc) \notin {Absent, Empty}
      BY <1>2 DEF This, Absent, Empty
    <3> QED BY <1>1, <3>3, <3>4 DEF Scanned, Cat
  <2>4. csv'["mem_usage"] = csv["mem_usage"] \/ csv'["mem_usage"] = Append(csv["mem_usage"], row)
    BY <1>1, <2>1 DEF AddRow
  <2>5. row.job = result_loc /\ row.mem = mem'
    OBVIOUS
  <2>6. result_loc[2] = result_dir[s] /\ result_loc[3] = Inputs[i]
    BY <2>2
  <2> HIDE DEF row
  <2>7. \A x \in RowsOf("mem_usage") :
           ~(x.job[2] = "results_terrace" /\ x.job[3] = Kron18) => x.mem = This(x.job)
    BY <1>1 DEF MemInv, MemoryReported, Current
  <2>8. ASSUME NEW n \in 1 .. Len(csv'["mem_usage"])
        PROVE  LET x == csv'["mem_usage"][n] IN
               ~(x.job[2] = "results_terrace" /\ x.job[3] = Kron18) => x.mem = This(x.job)
    <3>1. CASE csv'["mem_usage"][n] = row
      BY <2>3, <2>5, <2>6, <3>1 DEF LeftOut
    <3>2. CASE n \in 1 .. Len(csv["mem_usage"]) /\ csv'["mem_usage"][n] = csv["mem_usage"][n]
      BY <2>7, <3>2 DEF RowsOf
    <3>3. \/ csv'["mem_usage"][n] = row
          \/ n \in 1 .. Len(csv["mem_usage"]) /\ csv'["mem_usage"][n] = csv["mem_usage"][n]
      BY <2>1, <2>4
    <3> QED BY <3>1, <3>2, <3>3
  <2> QED BY <1>1, <2>8 DEF MemoryReported, RowsOf, This
<1> QED
  BY <1>4, <1>5, <1>6 DEF MemInv

\* The memory in mem_usage.csv is that of the row's own process in this execution,
\* whether it had a result or died, for any inputs, also if one is given twice.
THEOREM MemoryCorrect == Spec => []MemoryReported
<1>1. Inv /\ MemInv /\ [Next]_vars => MemInv'
  <2> SUFFICES ASSUME Inv, MemInv, [Next]_vars PROVE MemInv'
    OBVIOUS
  <2>1. CASE Launch \/ OpenOutput \/ WriteResult \/ Die \/ UNCHANGED vars
    <3>1. UNCHANGED <<pc, limit, run, compare, csv, s, script, k, max_memory>>
      BY <2>1 DEF Launch, OpenOutput, WriteResult, Die, vars, managerVars, loopVars, jobVars,
         fileVars
    <3> QED BY <3>1, MemQuiet
  <2>2. CASE Refuse \/ Interrupt \/ CleanUp
    BY <2>2, MemIdle DEF Refuse, Interrupt, CleanUp
  <2> QED
    BY <2>1, <2>2, MemBegin, MemCollect, MemProcess DEF Next, Step
<1>2. MemInv => MemoryReported
  BY DEF MemInv
<1>3. Spec => []MemInv
  BY MemInitially, Invariance, <1>1, PTL DEF Spec
<1> QED
  BY <1>2, <1>3, PTL

---------------------------------------------------------------------------
(* Credit *)

\* A process writes to its own job's file only, in this execution or another.
FilesOwn ==
    \A j \in Job : runtime_stats[j] \in {Absent, Empty} \/ runtime_stats[j].job = j

\* A csv file has the rows of one experiment.
OneExperiment ==
    Current => \A c \in Csv : \A n \in 1 .. Len(csv[c]) :
        csv[c][n].job[1] = IF c = "lim_speed" THEN "speed" ELSE "unlim"

\* The systems are reported one after the other.
InTurn ==
    pc = "process" => \A c \in Csv : \A n \in 1 .. Len(csv[c]) :
        csv[c][n].job[1] = limit => \E x \in 0 .. s : csv[c][n].job[2] = result_dir[x]

\* The locals hold another system's result only while this one has had none.
NoneYet ==
    pc = "process" /\ stats # Garbage /\ stats.job[2] # result_dir[s] =>
        \A c \in Csv : \A n \in 1 .. Len(csv[c]) :
            csv[c][n].job[1] = limit /\ csv[c][n].job[2] = result_dir[s] =>
                outcome[csv[c][n].job] # "ok"

CreditInv == FilesOwn /\ OneExperiment /\ InTurn /\ NoneYet /\ CreditedToAnother

LEMMA CreditInitially == Init => CreditInv
<1> SUFFICES ASSUME Init PROVE CreditInv
  OBVIOUS
<1>1. ~Current /\ pc = "off"
  BY DEF Init, Current
<1>2. FilesOwn
  BY DEF Init, FilesOwn
<1> QED
  BY <1>1, <1>2 DEF CreditInv, OneExperiment, InTurn, NoneYet, CreditedToAnother

\* A step that leaves the manager's files and loops alone.
LEMMA CreditQuiet ==
    ASSUME CreditInv, FilesOwn', UNCHANGED <<pc, limit, s, stats, csv>>,
           \A c \in Csv : \A n \in 1 .. Len(csv[c]) :
                outcome'[csv[c][n].job] = "ok" => outcome[csv[c][n].job] = "ok"
    PROVE  CreditInv'
<1>1. OneExperiment'
  BY DEF CreditInv, OneExperiment, Current
<1>2. InTurn'
  BY DEF CreditInv, InTurn
<1>3. NoneYet'
  BY DEF CreditInv, NoneYet
<1>4. CreditedToAnother'
  <2>1. SUFFICES ASSUME Current, NEW c \in Csv, NEW n \in 1 .. Len(csv[c]),
                        csv[c][n].stats # Garbage, csv[c][n].stats.job[2] # csv[c][n].job[2],
                        NEW m \in 1 .. n, csv[c][m].job[2] = csv[c][n].job[2]
                 PROVE  outcome'[csv[c][m].job] # "ok"
    BY DEF CreditedToAnother, Current
  <2>2. outcome[csv[c][m].job] # "ok"
    BY <2>1 DEF CreditInv, CreditedToAnother
  <2>3. m \in 1 .. Len(csv[c])
    BY <2>1
  <2> QED BY <2>2, <2>3
<1> QED
  BY <1>1, <1>2, <1>3, <1>4 DEF CreditInv

\* Outside the scripts and the loops only the files matter.
LEMMA CreditIdle ==
    ASSUME FilesOwn', pc' \in {"off", "refused", "interrupted"}
    PROVE  CreditInv'
<1>1. ~Current' /\ pc' # "process"
  BY DEF Current
<1> QED
  BY <1>1 DEF CreditInv, OneExperiment, InTurn, NoneYet, CreditedToAnother

LEMMA CreditBegin == ASSUME Inv, CreditInv, Begin PROVE CreditInv'
<1>1. pc' = "script" /\ UNCHANGED runtime_stats /\ csv' = [c \in Csv |-> <<>>]
  BY DEF Begin, fileVars
<1>2. \A c \in Csv : 1 .. Len(csv'[c]) = {}
  BY <1>1
<1>3. FilesOwn'
  BY <1>1 DEF CreditInv, FilesOwn
<1> QED
  BY <1>1, <1>2, <1>3 DEF CreditInv, OneExperiment, InTurn, NoneYet, CreditedToAnother

\* The loops begin with no row of their experiment in any file.
LEMMA CreditCollect == ASSUME Inv, CreditInv, Collect PROVE CreditInv'
<1>1. UNCHANGED <<limit, csv, stats, runtime_stats, outcome>> /\ pc = "script"
  BY DEF Collect, managerVars, Inv, Busy
<1>2. pc' \in {"script", "process"}
  BY FollowingType DEF Collect, GoTo, Inv, TypeOK
<1>3. Current /\ Current'
  BY <1>1, <1>2 DEF Current
<1>4. \A c \in Csv : \A n \in 1 .. Len(csv[c]) : csv[c][n].job[1] # limit
  BY <1>1 DEF Inv, NotYetReported
<1>5. FilesOwn' /\ OneExperiment'
  BY <1>1, <1>3 DEF CreditInv, FilesOwn, OneExperiment
<1>6. InTurn' /\ NoneYet'
  BY <1>1, <1>4 DEF InTurn, NoneYet
<1>7. CreditedToAnother'
  BY <1>1, <1>3 DEF CreditInv, CreditedToAnother
<1> QED
  BY <1>5, <1>6, <1>7 DEF CreditInv

LEMMA CreditProcess == ASSUME Inv, CreditInv, Process PROVE CreditInv'
<1> DEFINE row == [job |-> result_loc, stats |-> stats', mem |-> mem']
<1>1. /\ UNCHANGED <<run, compare, runtime_stats, outcome>> /\ pc = "process" /\ NextPass
      /\ stats' \in Scanned(runtime_stats[result_loc], stats) /\ AddRow(row, s)
  BY DEF Process, jobVars, fileVars
<1>2. /\ s \in 0 .. 3 /\ i \in 1 .. Len(Inputs) /\ run > 0 /\ limit \in Limit
      /\ Current /\ Current'
  BY <1>1 DEF Inv, TypeOK, Current, NextPass
<1>3. /\ result_loc = <<limit, result_dir[s], Inputs[i]>> /\ result_loc \in Job
      /\ result_loc[1] = limit /\ result_loc[2] = result_dir[s]
  BY LocType DEF result_loc, Inv
<1>4. row.job = result_loc /\ row.stats = stats'
  OBVIOUS
<1>5. \A c \in Csv : csv[c] \in Seq(Row)
  BY DEF Inv, TypeOK
<1>6. \A c \in Csv : csv'[c] = IF c \in Reported(s) THEN Append(csv[c], row) ELSE csv[c]
  BY <1>1 DEF AddRow
<1>t. csv' \in [Csv -> Seq(Row)] /\ row \in Row
  <2>1. TypeOK'
    BY ProcessStep DEF Inv
  <2> QED BY <1>3, <2>1 DEF TypeOK, Row
<1> HIDE DEF row
<1>7. \A c \in Csv : \A n \in 1 .. Len(csv'[c]) :
         \/ n = Len(csv[c]) + 1 /\ c \in Reported(s) /\ csv'[c][n] = row
         \/ n \in 1 .. Len(csv[c]) /\ csv'[c][n] = csv[c][n]
  <2>1. SUFFICES ASSUME NEW c \in Csv, NEW n \in 1 .. Len(csv'[c])
                 PROVE  \/ n = Len(csv[c]) + 1 /\ c \in Reported(s) /\ csv'[c][n] = row
                        \/ n \in 1 .. Len(csv[c]) /\ csv'[c][n] = csv[c][n]
    OBVIOUS
  <2>2. csv[c] \in Seq(Row)
    BY <1>5
  <2>3. CASE c \in Reported(s)
    <3>1. csv'[c] = Append(csv[c], row)
      BY <1>6, <2>3
    <3> QED BY <1>t, <2>1, <2>2, <2>3, <3>1
  <2>4. CASE c \notin Reported(s)
    <3>1. csv'[c] = csv[c]
      BY <1>6, <2>4
    <3> QED BY <2>1, <3>1
  <2> QED BY <2>3, <2>4
\* What the pass reads is the system's own, or what the locals held.
<1>8. /\ \/ stats' = Garbage
         \/ stats'.job[2] = result_dir[s]
         \/ stats' = stats
      /\ outcome[result_loc] = "ok" => stats'.job[2] = result_dir[s]
  <2>1. runtime_stats[result_loc] \in {Absent, Empty} \/ runtime_stats[result_loc].job = result_loc
    BY <1>3 DEF CreditInv, FilesOwn
  <2>2. \/ stats' = Garbage \/ stats' = stats
        \/ stats' = runtime_stats[result_loc] /\ runtime_stats[result_loc] \notin {Absent, Empty}
    BY <1>1 DEF Scanned, Cat
  <2>3. \/ stats' = Garbage \/ stats' = stats \/ stats'.job[2] = result_dir[s]
    BY <1>3, <2>1, <2>2
  <2>4. ASSUME outcome[result_loc] = "ok" PROVE stats'.job[2] = result_dir[s]
    <3>1. runtime_stats[result_loc] = This(result_loc)
      BY <1>2, <1>3, <2>4 DEF Inv, ResultsKept
    <3>2. This(result_loc) \notin {Absent, Empty} /\ This(result_loc).job = result_loc
      BY <1>2 DEF This, Absent, Empty
    <3>3. stats' = This(result_loc)
      BY <1>1, <3>1, <3>2 DEF Scanned, Cat
    <3> QED BY <1>3, <3>2, <3>3
  <2> QED BY <2>3, <2>4
\* So if it ends up with another's, no job of the system has had a result.
<1>9. ASSUME stats' # Garbage, stats'.job[2] # result_dir[s],
             NEW c \in Csv, NEW n \in 1 .. Len(csv'[c]),
             csv'[c][n].job[1] = limit, csv'[c][n].job[2] = result_dir[s]
      PROVE  outcome[csv'[c][n].job] # "ok"
  <2>1. stats' = stats /\ outcome[result_loc] # "ok"
    BY <1>8, <1>9
  <2>2. CASE csv'[c][n] = row
    BY <1>4, <2>1, <2>2
  <2>3. CASE n \in 1 .. Len(csv[c]) /\ csv'[c][n] = csv[c][n]
    BY <1>1, <1>9, <2>1, <2>3 DEF CreditInv, NoneYet
  <2> QED BY <1>7, <2>2, <2>3
<1>10. FilesOwn'
  BY <1>1 DEF CreditInv, FilesOwn
<1>11. OneExperiment'
  <2>1. \A c \in Reported(s) : limit = IF c = "lim_speed" THEN "speed" ELSE "unlim"
    BY <1>2 DEF Reported, Limit
  <2>2. SUFFICES ASSUME NEW c \in Csv, NEW n \in 1 .. Len(csv'[c])
                 PROVE  csv'[c][n].job[1] = IF c = "lim_speed" THEN "speed" ELSE "unlim"
    BY DEF OneExperiment
  <2>3. CASE c \in Reported(s) /\ csv'[c][n] = row
    BY <1>3, <1>4, <2>1, <2>3
  <2>4. CASE n \in 1 .. Len(csv[c]) /\ csv'[c][n] = csv[c][n]
    BY <1>2, <2>4 DEF CreditInv, OneExperiment
  <2> QED BY <1>7, <2>3, <2>4
<1>12. \A c \in Csv : \A n \in 1 .. Len(csv'[c]) :
          csv'[c][n].job[1] = limit => \E x \in 0 .. s : csv'[c][n].job[2] = result_dir[x]
  <2>1. SUFFICES ASSUME NEW c \in Csv, NEW n \in 1 .. Len(csv'[c]), csv'[c][n].job[1] = limit
                 PROVE  \E x \in 0 .. s : csv'[c][n].job[2] = result_dir[x]
    OBVIOUS
  <2>2. CASE csv'[c][n] = row
    BY <1>2, <1>3, <1>4, <2>2
  <2>3. CASE n \in 1 .. Len(csv[c]) /\ csv'[c][n] = csv[c][n]
    BY <1>1, <2>1, <2>3 DEF CreditInv, InTurn
  <2> QED BY <1>7, <2>2, <2>3
<1>13. pc' = "process" => limit' = limit /\ (s' = s \/ s' = s + 1)
  BY <1>1 DEF NextPass
<1>14. InTurn'
  <2>1. SUFFICES ASSUME pc' = "process" PROVE InTurn'
    BY DEF InTurn
  <2>2. limit' = limit /\ 0 .. s \subseteq 0 .. s'
    BY <1>2, <1>13, <2>1
  <2> QED BY <1>12, <2>2 DEF InTurn
<1>15. NoneYet'
  <2>1. SUFFICES ASSUME pc' = "process", stats' # Garbage, stats'.job[2] # result_dir[s'],
                        NEW c \in Csv, NEW n \in 1 .. Len(csv'[c]),
                        csv'[c][n].job[1] = limit, csv'[c][n].job[2] = result_dir[s']
                 PROVE  outcome[csv'[c][n].job] # "ok"
    BY <1>1, <1>13 DEF NoneYet, result_dir
  <2>2. CASE s' = s
    BY <1>9, <2>1, <2>2
  <2>3. CASE s' = s + 1
    <3>1. s + 1 \in 0 .. 3
      BY <1>1, <1>2, <2>1, <2>3 DEF NextPass, Systems
    <3>2. \A x \in 0 .. s : result_dir[x] # result_dir[s + 1]
      BY <1>2, <3>1 DEF result_dir
    <3> QED BY <1>12, <2>1, <2>3, <3>2
  <2> QED BY <1>13, <2>1, <2>2, <2>3
<1>16. CreditedToAnother'
  <2>1. SUFFICES ASSUME NEW c \in Csv, NEW n \in 1 .. Len(csv'[c]),
                        csv'[c][n].stats # Garbage, csv'[c][n].stats.job[2] # csv'[c][n].job[2],
                        NEW m \in 1 .. n, csv'[c][m].job[2] = csv'[c][n].job[2]
                 PROVE  outcome[csv'[c][m].job] # "ok"
    BY <1>1 DEF CreditedToAnother
  <2>2. m \in 1 .. Len(csv'[c])
    <3>1. Len(csv'[c]) \in Nat
      BY <1>t
    <3> QED BY <2>1, <3>1
  <2>3. CASE csv'[c][n] = row
    <3>1. csv'[c][m].job[1] = csv'[c][n].job[1]
      BY <1>2, <1>11, <2>1, <2>2 DEF OneExperiment
    <3> QED BY <1>3, <1>4, <1>9, <2>1, <2>2, <2>3, <3>1
  <2>4. CASE n \in 1 .. Len(csv[c]) /\ csv'[c][n] = csv[c][n]
    <3>1. Len(csv[c]) \in Nat
      BY <1>5
    <3>2. m \in 1 .. Len(csv[c]) /\ m # Len(csv[c]) + 1
      BY <2>1, <2>4, <3>1
    <3>3. csv'[c][m] = csv[c][m]
      BY <1>7, <2>2, <3>2
    <3> QED BY <1>2, <2>1, <2>4, <3>3 DEF CreditInv, CreditedToAnother
  <2> QED BY <1>7, <2>1, <2>3, <2>4
<1> QED
  BY <1>10, <1>11, <1>14, <1>15, <1>16 DEF CreditInv

\* A system is credited with another's rate only in rows up to which no job of
\* its own had a result: one result of its own ends it, in whatever execution,
\* with whatever failures and files left behind.
THEOREM CreditCorrect == Spec => []CreditedToAnother
<1>1. Inv /\ CreditInv /\ [Next]_vars => CreditInv'
  <2> SUFFICES ASSUME Inv, CreditInv, [Next]_vars PROVE CreditInv'
    OBVIOUS
  <2>0. job \in Job /\ runtime_stats \in [Job -> Origin \cup {Absent, Empty}]
        /\ outcome \in [Job -> {"none", "started", "ok"}]
    BY JobType DEF Inv, TypeOK
  <2>1. CASE Launch
    <3>1. UNCHANGED <<pc, limit, s, stats, csv, runtime_stats>>
      BY <2>1 DEF Launch, managerVars, loopVars, fileVars
    <3>2. \A j \in Job : outcome'[j] = "ok" => outcome[j] = "ok"
      BY <2>0, <2>1 DEF Launch
    <3>3. FilesOwn'
      BY <3>1 DEF CreditInv, FilesOwn
    <3> QED BY <3>1, <3>2, <3>3, RowType, CreditQuiet DEF Inv
  <2>2. CASE OpenOutput
    <3>1. UNCHANGED <<pc, limit, s, stats, csv, outcome>>
      BY <2>2 DEF OpenOutput, managerVars, loopVars
    <3>2. FilesOwn'
      BY <2>0, <2>2 DEF OpenOutput, CreditInv, FilesOwn
    <3> QED BY <3>1, <3>2, CreditQuiet
  <2>3. CASE WriteResult
    <3>1. UNCHANGED <<pc, limit, s, stats, csv>> /\ pc = "script" /\ job[1] = limit
      BY <2>3 DEF WriteResult, managerVars, loopVars, Inv, Busy, job
    <3>2. FilesOwn'
      BY <2>0, <2>3 DEF WriteResult, CreditInv, FilesOwn, This
    <3>3. \A c \in Csv : \A n \in 1 .. Len(csv[c]) : csv[c][n].job # job
      BY <3>1 DEF Inv, NotYetReported
    <3>4. \A j \in Job : j # job => outcome'[j] = outcome[j]
      BY <2>0, <2>3 DEF WriteResult
    <3> QED BY <3>1, <3>2, <3>3, <3>4, RowType, CreditQuiet DEF Inv
  <2>4. CASE Die \/ UNCHANGED vars
    <3>1. UNCHANGED <<pc, limit, s, stats, csv, runtime_stats, outcome>>
      BY <2>4 DEF Die, vars, managerVars, loopVars, fileVars
    <3>2. FilesOwn'
      BY <3>1 DEF CreditInv, FilesOwn
    <3> QED BY <3>1, <3>2, CreditQuiet
  <2>5. CASE Refuse \/ Interrupt
    <3>1. runtime_stats' = runtime_stats /\ pc' \in {"refused", "interrupted"}
      BY <2>5 DEF Refuse, Interrupt, fileVars
    <3>2. FilesOwn'
      BY <3>1 DEF CreditInv, FilesOwn
    <3> QED BY <3>1, <3>2, CreditIdle
  <2>6. CASE CleanUp
    <3>1. FilesOwn' /\ pc' = "off"
      BY <2>6 DEF CleanUp, FilesOwn
    <3> QED BY <3>1, CreditIdle
  <2> QED
    BY <2>1, <2>2, <2>3, <2>4, <2>5, <2>6, CreditBegin, CreditCollect, CreditProcess DEF Next, Step
<1>2. CreditInv => CreditedToAnother
  BY DEF CreditInv
<1>3. Spec => []CreditInv
  BY CreditInitially, Invariance, <1>1, PTL DEF Spec
<1> QED
  BY <1>2, <1>3, PTL

-----------------------------------------------------------------------------
\* The programs that make max_memory from the log of top.
Mem == INSTANCE MemoryLog

Lines == [kind : {"header", "blank", "task"}, task : Task \cup {Mem!NoTask}]

\* The place of a line in its frame, from 0 to 8.
InFrame(l) == (l - 1) % 9

\* What is left of a log is cut into frames: a line of the process only at the
\* eighth place of one, and there nothing else but the blank line that ends a
\* last frame without the process.
Framed(lines) ==
    \A l \in 1 .. Len(lines) :
        /\ lines[l].kind = "task" => InFrame(l) = 7 /\ lines[l].task \in Task
        /\ InFrame(l) = 7 => lines[l].kind = "task" \/ l = Len(lines)
        /\ InFrame(l) = 7 /\ lines[l].kind # "task" => lines[l] = Mem!Blank

\* The result so far is not below a line.
Found(task) ==
    /\ virt >= Mem!extract(task.virt)
    /\ res + swap >= Mem!extract(task.res) + Mem!extract(task.swap)

ToClean(task) == \E l \in 1 .. Len(log) : log[l].kind = "task" /\ log[l].task = task
InPipe(task) == \E n \in 1 .. Len(pipe) : pipe[n] = task

LogType ==
    /\ log \in Seq(Lines)
    /\ cleaning \in BOOLEAN
    /\ pipe \in Seq(Task)
    /\ reading \in BOOLEAN
    /\ virt \in Nat /\ res \in Nat /\ swap \in Nat
    /\ shown \subseteq Task

LogInv ==
    /\ LogType
    /\ Framed(log)
    /\ \A task \in shown : ToClean(task) \/ InPipe(task) \/ Found(task)
    /\ \A task : ToClean(task) \/ InPipe(task) => task \in shown
    /\ ~cleaning => \A l \in 1 .. Len(log) : log[l].kind # "task"
    /\ ~reading => pipe = <<>> /\ ~cleaning
    /\ virt = 0 \/ \E task \in shown : virt = Mem!extract(task.virt)
    /\ \/ res = 0 /\ swap = 0
       \/ \E task \in shown : res = Mem!extract(task.res) /\ swap = Mem!extract(task.swap)

LEMMA ProductNat == ASSUME NEW a \in Nat, NEW b \in Nat PROVE a * b \in Nat
  OBVIOUS

LEMMA SumNat == ASSUME NEW a \in Nat, NEW b \in Nat PROVE a + b \in Nat
  OBVIOUS

\* A size is converted to a natural number.
LEMMA ExtractNat ==
    ASSUME NEW size \in Size
    PROVE  Mem!extract(size) \in Nat
  <1>1. size[1] \in Nat /\ size[2] \in {" ", "m", "g"}
    BY DEF Size
  <1>2. kb \in Nat /\ gb \in Nat /\ mb \in Nat
    BY UnitsAssumption
  <1>3. size[1] * kb \in Nat /\ size[1] * gb \in Nat /\ size[1] + mb \in Nat
    BY <1>1, <1>2, ProductNat, SumNat
  <1> QED BY <1>1, <1>3 DEF Mem!extract

\* The conversion that the report speaks of is the program's.
LEMMA SameExtract == \A size : Mem!extract(size) = extract(size)
  BY DEF Mem!extract, extract

\* A line of the process has three sizes.
LEMMA TaskSizes ==
    ASSUME NEW task \in Task
    PROVE  task.virt \in Size /\ task.res \in Size /\ task.swap \in Size
  BY TaskAssumption

LEMMA TaskNumbers ==
    ASSUME NEW task \in Task
    PROVE  /\ Mem!extract(task.virt) \in Nat /\ Mem!extract(task.res) \in Nat
           /\ Mem!extract(task.swap) \in Nat
  BY TaskSizes, ExtractNat

\* The lines of a frame.
LEMMA FrameLines ==
    /\ Mem!Header \in Lines /\ Mem!Header.kind = "header"
    /\ Mem!Blank \in Lines /\ Mem!Blank.kind = "blank"
  <1>1. Mem!Header \in Lines /\ Mem!Header.kind = "header"
    BY DEF Mem!Header, Mem!Line, Lines
  <1>2. Mem!Blank \in Lines /\ Mem!Blank.kind = "blank"
    BY DEF Mem!Blank, Mem!Line, Lines
  <1> QED BY <1>1, <1>2

LEMMA FrameOfTask ==
    ASSUME NEW task \in Task
    PROVE  /\ \A j \in 1 .. 9 : Mem!Frame(task)[j] \in Lines
           /\ Mem!Frame(task)[8].kind = "task" /\ Mem!Frame(task)[8].task = task
           /\ \A j \in (1 .. 9) \ {8} : Mem!Frame(task)[j].kind # "task"
  <1> DEFINE t == Mem!Line("task", task)
  <1>1. t \in Lines /\ t.kind = "task" /\ t.task = task
    BY DEF Mem!Line, Lines
  <1> HIDE DEF t
  <1>2. \A j \in 1 .. 9 : Mem!Frame(task)[j] =
          IF j <= 7 THEN Mem!Header ELSE IF j = 8 THEN t ELSE Mem!Blank
    BY DEF Mem!Frame, t
  <1> QED BY <1>1, <1>2, FrameLines

\* A log of whole frames.
LEMMA WholeLines ==
    ASSUME NEW n \in Nat, NEW tasks \in [1 .. n -> Task]
    PROVE  LET w == Mem!Whole(tasks, n)
           IN  /\ w \in Seq(Lines) /\ Len(w) = 9 * n
               /\ \A l \in 1 .. 9 * n :
                     IF InFrame(l) = 7 THEN w[l].kind = "task" /\ w[l].task \in Task
                     ELSE w[l].kind # "task"
  <1> DEFINE Of(l) == tasks[((l - 1) \div 9) + 1]
             w == [l \in 1 .. 9 * n |-> Mem!Frame(Of(l))[((l - 1) % 9) + 1]]
  <1>1. Mem!Whole(tasks, n) = w
    BY DEF Mem!Whole
  <1>2. ASSUME NEW l \in 1 .. 9 * n
        PROVE  /\ Of(l) \in Task
               /\ w[l] = Mem!Frame(Of(l))[InFrame(l) + 1]
               /\ InFrame(l) + 1 \in 1 .. 9
    <2>1. ((l - 1) \div 9) + 1 \in 1 .. n /\ InFrame(l) + 1 \in 1 .. 9
      BY DEF InFrame
    <2>2. Of(l) \in Task
      BY <2>1
    <2>3. w[l] = Mem!Frame(Of(l))[InFrame(l) + 1]
      BY DEF InFrame
    <2> QED BY <2>1, <2>2, <2>3
  <1>3. w = [l \in DOMAIN w |-> w[l]] /\ DOMAIN w = 1 .. 9 * n
    OBVIOUS
  <1> HIDE DEF Of, w
  <1>4. ASSUME NEW l \in 1 .. 9 * n
        PROVE  /\ w[l] \in Lines
               /\ IF InFrame(l) = 7 THEN w[l].kind = "task" /\ w[l].task \in Task
                  ELSE w[l].kind # "task"
    <2> DEFINE f == Mem!Frame(Of(l))
               j == InFrame(l) + 1
    <2>1. w[l] = f[j] /\ j \in 1 .. 9 /\ (InFrame(l) = 7 <=> j = 8)
      <3>1. InFrame(l) \in Int
        BY DEF InFrame
      <3> QED BY <1>2, <3>1
    <2>2. /\ \A p \in 1 .. 9 : f[p] \in Lines
          /\ f[8].kind = "task" /\ f[8].task \in Task
          /\ \A p \in (1 .. 9) \ {8} : f[p].kind # "task"
      BY <1>2, FrameOfTask
    <2> HIDE DEF f, j
    <2> QED BY <2>1, <2>2
  <1>5. w \in [1 .. 9 * n -> Lines]
    BY <1>3, <1>4
  <1>6. w \in Seq(Lines) /\ Len(w) = 9 * n
    BY <1>5
  <1> QED BY <1>1, <1>4, <1>6

LEMMA SeqOf ==
    ASSUME NEW S, NEW n \in Nat, NEW f \in [1 .. n -> S]
    PROVE  f \in Seq(S) /\ Len(f) = n
  OBVIOUS

LEMMA Concat ==
    ASSUME NEW S, NEW a \in Seq(S), NEW b \in Seq(S)
    PROVE  /\ a \o b \in Seq(S) /\ Len(a \o b) = Len(a) + Len(b)
           /\ \A l \in 1 .. Len(a) : (a \o b)[l] = a[l]
           /\ \A l \in Len(a) + 1 .. Len(a) + Len(b) : (a \o b)[l] = b[l - Len(a)]
  OBVIOUS

\* A log, with or without a last frame that the process is missing from.
LEMMA LogLines ==
    ASSUME NEW n \in Nat, NEW tasks \in [1 .. n -> Task], NEW over \in BOOLEAN
    PROVE  LET all == Mem!Log(tasks, n, over)
           IN  all \in Seq(Lines) /\ Framed(all)
  <1> DEFINE w == Mem!Whole(tasks, n)
  <1>1. /\ w \in Seq(Lines) /\ Len(w) = 9 * n
        /\ \A l \in 1 .. 9 * n :
              IF InFrame(l) = 7 THEN w[l].kind = "task" /\ w[l].task \in Task
              ELSE w[l].kind # "task"
    BY WholeLines
  <1> HIDE DEF w
  <1>2. CASE ~over
    <2>1. Mem!Log(tasks, n, over) = w
      BY <1>2 DEF Mem!Log, w
    <2>2. Framed(w)
      BY <1>1 DEF Framed
    <2> QED BY <1>1, <2>1, <2>2
  <1>3. CASE over
    <2> DEFINE f == Mem!LastFrame
               all == w \o f
    <2>1. f \in [1 .. 8 -> Lines] /\ f[8] = Mem!Blank /\ \A j \in 1 .. 7 : f[j] = Mem!Header
      BY FrameLines DEF Mem!LastFrame
    <2> HIDE DEF f
    <2>2. f \in Seq(Lines) /\ Len(f) = 8
      <3>1. PICK m \in Nat : m = 8
        OBVIOUS
      <3>2. f \in [1 .. m -> Lines]
        BY <2>1, <3>1
      <3>3. f \in Seq(Lines) /\ Len(f) = m
        BY ONLY <3>2, SeqOf, m \in Nat
      <3> QED BY <3>1, <3>3
    <2>3. /\ all \in Seq(Lines) /\ Len(all) = 9 * n + 8
          /\ \A l \in 1 .. 9 * n : all[l] = w[l]
          /\ \A l \in 9 * n + 1 .. 9 * n + 8 : all[l] = f[l - 9 * n]
      <3>1. w \in Seq(Lines) /\ f \in Seq(Lines) /\ Len(w) = 9 * n /\ Len(f) = 8
        BY <1>1, <2>2
      <3>2. /\ all \in Seq(Lines) /\ Len(all) = Len(w) + Len(f)
            /\ \A l \in 1 .. Len(w) : all[l] = w[l]
            /\ \A l \in Len(w) + 1 .. Len(w) + Len(f) : all[l] = f[l - Len(w)]
        BY ONLY <3>1, Concat
      <3> QED BY ONLY <3>1, <3>2
    <2>4. Mem!Log(tasks, n, over) = all
      BY <1>3 DEF Mem!Log, w, f
    <2> HIDE DEF all
    <2>5. ASSUME NEW l \in 1 .. 9 * n + 8
          PROVE  /\ all[l].kind = "task" => InFrame(l) = 7 /\ all[l].task \in Task
                 /\ InFrame(l) = 7 => all[l].kind = "task" \/ l = 9 * n + 8
                 /\ InFrame(l) = 7 /\ all[l].kind # "task" => all[l] = Mem!Blank
      <3>1. CASE l \in 1 .. 9 * n
        BY <1>1, <2>3, <3>1
      <3>2. CASE l \in 9 * n + 1 .. 9 * n + 7
        <4>1. l - 9 * n \in 1 .. 7 /\ InFrame(l) # 7
          BY <3>2 DEF InFrame
        <4>2. all[l] = Mem!Header
          BY <2>1, <2>3, <3>2, <4>1
        <4> QED BY <4>1, <4>2, FrameLines
      <3>3. CASE l = 9 * n + 8
        <4>1. l - 9 * n = 8 /\ l \in 9 * n + 1 .. 9 * n + 8
          BY <3>3
        <4>2. all[l] = Mem!Blank
          BY <2>1, <2>3, <4>1
        <4> QED BY <3>3, <4>2, FrameLines
      <3> QED BY <3>1, <3>2, <3>3
    <2>6. Framed(all)
      BY <2>3, <2>5 DEF Framed
    <2> QED BY <2>3, <2>4, <2>6
  <1> QED BY <1>2, <1>3

\* Cutting a log short leaves its frames as they are.
LEMMA CutFramed ==
    ASSUME NEW all \in Seq(Lines), Framed(all), NEW cut \in 0 .. Len(all)
    PROVE  SubSeq(all, 1, cut) \in Seq(Lines) /\ Framed(SubSeq(all, 1, cut))
  <1> DEFINE part == SubSeq(all, 1, cut)
  <1>1. part \in Seq(Lines) /\ Len(part) = cut /\ \A l \in 1 .. cut : part[l] = all[l]
    OBVIOUS
  <1> HIDE DEF part
  <1>2. Framed(part)
    BY <1>1 DEF Framed
  <1> QED BY <1>1, <1>2 DEF part

\* The initial states satisfy the inductive invariant.
LEMMA LogInitially == Mem!Init => LogInv
  <1> SUFFICES ASSUME Mem!Init PROVE LogInv
    OBVIOUS
  <1>1. PICK n \in 0 .. MaxFrames, over \in BOOLEAN :
          \E tasks \in [1 .. n -> Task] :
             \E cut \in 0 .. Len(Mem!Log(tasks, n, over)) :
                log = SubSeq(Mem!Log(tasks, n, over), 1, cut)
    BY DEF Mem!Init
  <1>2. PICK tasks \in [1 .. n -> Task] :
             \E cut \in 0 .. Len(Mem!Log(tasks, n, over)) :
                log = SubSeq(Mem!Log(tasks, n, over), 1, cut)
    BY <1>1
  <1>3. PICK cut \in 0 .. Len(Mem!Log(tasks, n, over)) :
                log = SubSeq(Mem!Log(tasks, n, over), 1, cut)
    BY <1>2
  <1>4. n \in Nat
    BY MaxFramesAssumption
  <1>5. Mem!Log(tasks, n, over) \in Seq(Lines) /\ Framed(Mem!Log(tasks, n, over))
    BY <1>4, LogLines
  <1>6. log \in Seq(Lines) /\ Framed(log)
    BY <1>3, <1>5, CutFramed
  <1>7. shown = {log[l].task : l \in {j \in 1 .. Len(log) : log[j].kind = "task"}}
    BY DEF Mem!Init, Mem!TaskLines
  <1>8. /\ \A task \in shown : ToClean(task)
        /\ \A task : ToClean(task) => task \in shown
    BY <1>7 DEF ToClean
  <1>9. shown \subseteq Task
    BY <1>6, <1>7 DEF Framed
  <1>10. /\ cleaning = TRUE /\ reading = TRUE /\ pipe = <<>>
         /\ virt = 0 /\ res = 0 /\ swap = 0
    BY DEF Mem!Init
  <1>11. cleaning \in BOOLEAN /\ reading \in BOOLEAN
    BY <1>10, Zenon
  <1>12. \A task : ~InPipe(task)
    BY <1>10 DEF InPipe
  <1>13. LogType
    BY <1>6, <1>9, <1>10, <1>11 DEF LogType
  <1> QED BY <1>6, <1>8, <1>10, <1>12, <1>13 DEF LogInv

\* A pass of top_cleaner takes a whole frame off the log and no process line but
\* the one it prints.
LEMMA CleanFrameInv ==
    ASSUME LogInv, Mem!CleanFrame
    PROVE  LogInv'
  <1>1. /\ log \in Seq(Lines) /\ pipe \in Seq(Task) /\ Framed(log) /\ Len(log) \in Nat
        /\ Len(log) >= 8 /\ log[8] # Mem!Blank
        /\ pipe' = Append(pipe, log[8].task) /\ log' = SubSeq(log, 10, Len(log))
        /\ cleaning /\ cleaning' \in BOOLEAN /\ (cleaning' <=> Len(log) >= 9)
        /\ reading' = reading /\ virt' = virt /\ res' = res /\ swap' = swap
        /\ shown' = shown
    BY DEF LogInv, LogType, Mem!CleanFrame
  <1>2. log[8].kind = "task" /\ log[8].task \in Task
    <2>1. InFrame(8) = 7 /\ 8 \in 1 .. Len(log)
      BY <1>1 DEF InFrame
    <2> QED BY <1>1, <2>1 DEF Framed
  <1>3. /\ log' \in Seq(Lines) /\ Len(log') = (IF Len(log) >= 9 THEN Len(log) - 9 ELSE 0)
        /\ \A l \in 1 .. Len(log') : log'[l] = log[l + 9]
    BY <1>1
  <1>4. \A l \in 1 .. Len(log') : l + 9 \in 1 .. Len(log) /\ (l = Len(log') <=> l + 9 = Len(log))
    BY <1>1, <1>3
  <1>5. \A l \in 1 .. Len(log') : InFrame(l + 9) = InFrame(l)
    BY <1>3 DEF InFrame
  <1>6. Framed(log')
    BY <1>1, <1>3, <1>4, <1>5 DEF Framed
  <1>7. /\ pipe' \in Seq(Task) /\ Len(pipe') = Len(pipe) + 1
        /\ pipe'[Len(pipe) + 1] = log[8].task
        /\ \A n \in 1 .. Len(pipe) : pipe'[n] = pipe[n]
    <2>1. log[8].task \in Task /\ pipe \in Seq(Task) /\ pipe' = Append(pipe, log[8].task)
      BY <1>1, <1>2
    <2> QED BY ONLY <2>1
  <1>8. \A task : InPipe(task)' <=> InPipe(task) \/ task = log[8].task
    <2>1. Len(pipe) \in Nat
      BY <1>1
    <2>2. 1 .. Len(pipe') = (1 .. Len(pipe)) \cup {Len(pipe) + 1}
      BY <1>7, <2>1
    <2> QED BY <1>7, <2>2 DEF InPipe
  <1>9. \A task : ToClean(task) => ToClean(task)' \/ task = log[8].task
    <2> SUFFICES ASSUME NEW task, NEW l \in 1 .. Len(log), log[l].kind = "task",
                        log[l].task = task, l # 8
                 PROVE  ToClean(task)'
      BY DEF ToClean
    <2>1. InFrame(l) = 7
      BY <1>1 DEF Framed
    <2>2. l - 9 \in 1 .. Len(log') /\ (l - 9) + 9 = l
      <3>1. l \in Nat /\ l > 9 /\ l <= Len(log)
        <4>1. l \in Int /\ l >= 1 /\ l <= Len(log)
          BY <1>1
        <4>2. ASSUME l <= 9 PROVE FALSE
          <5>1. PICK j \in 0 .. 8 : j = l - 1
            BY <4>1, <4>2
          <5>2. j % 9 = j
            BY ONLY j \in 0 .. 8
          <5> QED BY <2>1, <4>1, <5>1, <5>2 DEF InFrame
        <4> QED BY <1>1, <4>1, <4>2
      <3>2. Len(log') = Len(log) - 9
        BY <1>1, <1>3, <3>1
      <3> QED BY <1>1, <3>1, <3>2
    <2>3. log'[l - 9] = log[l]
      BY <1>3, <2>2
    <2> QED BY <2>2, <2>3 DEF ToClean
  <1>10. \A task : ToClean(task)' => ToClean(task)
    BY <1>3, <1>4 DEF ToClean
  <1>11. ToClean(log[8].task)
    BY <1>1, <1>2 DEF ToClean
  <1>12. \A task : Found(task)' <=> Found(task)
    BY <1>1 DEF Found
  <1>13. /\ \A task \in shown' : ToClean(task)' \/ InPipe(task)' \/ Found(task)'
         /\ \A task : ToClean(task)' \/ InPipe(task)' => task \in shown'
    BY <1>1, <1>8, <1>9, <1>10, <1>11, <1>12 DEF LogInv
  <1>14. ~cleaning' => \A l \in 1 .. Len(log') : log'[l].kind # "task"
    BY <1>1, <1>3
  <1>15. LogType'
    BY <1>1, <1>3, <1>7 DEF LogInv, LogType
  <1>16. reading'
    BY <1>1 DEF LogInv
  <1>17. /\ virt' = 0 \/ \E task \in shown' : virt' = Mem!extract(task.virt)
         /\ \/ res' = 0 /\ swap' = 0
            \/ \E task \in shown' : res' = Mem!extract(task.res) /\ swap' = Mem!extract(task.swap)
    BY <1>1 DEF LogInv
  <1> QED BY <1>6, <1>13, <1>14, <1>15, <1>16, <1>17 DEF LogInv, Mem!extract

\* It ends only when what is left of the log has no line of the process.
LEMMA CleanEndInv ==
    ASSUME LogInv, Mem!CleanEnd
    PROVE  LogInv'
  <1>1. /\ log \in Seq(Lines) /\ Framed(log) /\ Len(log) \in Nat
        /\ ~(Len(log) >= 8 /\ log[8] # Mem!Blank) /\ cleaning' = FALSE /\ cleaning
        /\ UNCHANGED <<log, pipe, reading, virt, res, swap, shown>>
    BY DEF LogInv, LogType, Mem!CleanEnd
  <1>2. ASSUME NEW l \in 1 .. Len(log) PROVE log[l].kind # "task"
    <2> SUFFICES ASSUME log[l].kind = "task" PROVE FALSE
      OBVIOUS
    <2>1. InFrame(l) = 7
      BY <1>1, <1>2 DEF Framed
    <2>2. l >= 8 /\ Len(log) >= 8
      BY <1>1, <2>1 DEF InFrame
    <2>3. log[8] = Mem!Blank
      <3>1. ~(Len(log) >= 8 /\ log[8] # Mem!Blank) /\ Len(log) >= 8
        BY <1>1, <2>2
      <3> QED BY ONLY <3>1
    <2>4. InFrame(8) = 7 /\ 8 \in 1 .. Len(log)
      BY <1>1, <2>2 DEF InFrame
    <2>5. log[8].kind # "task"
      BY <2>3, FrameLines
    <2>6. Len(log) = 8
      BY <1>1, <2>4, <2>5 DEF Framed
    <2> QED BY <1>2, <2>2, <2>5, <2>6
  <1>3. cleaning' \in BOOLEAN /\ ~cleaning'
    BY <1>1, Zenon
  <1>4. LogType'
    BY <1>1, <1>3 DEF LogInv, LogType
  <1>5. \A task : (ToClean(task)' <=> ToClean(task)) /\ (InPipe(task)' <=> InPipe(task))
                    /\ (Found(task)' <=> Found(task))
    BY <1>1 DEF ToClean, InPipe, Found
  <1> QED BY <1>1, <1>2, <1>3, <1>4, <1>5 DEF LogInv, Mem!extract

\* A pass of top_max_finder: the result never goes down, and is not below the
\* line it has read.
LEMMA FindMaxInv ==
    ASSUME LogInv, Mem!FindMax
    PROVE  LogInv'
  <1>0. PICK task : task = Head(pipe)
    OBVIOUS
  <1> DEFINE v == Mem!extract(task.virt)
             r == Mem!extract(task.res)
             w == Mem!extract(task.swap)
  <1>1. /\ pipe \in Seq(Task) /\ pipe # <<>> /\ virt \in Nat /\ res \in Nat /\ swap \in Nat
        /\ shown \subseteq Task
    BY DEF LogInv, LogType, Mem!FindMax
  <1>2. task \in Task /\ task = pipe[1] /\ InPipe(task)
    <2>1. task \in Task /\ task = pipe[1] /\ 1 \in 1 .. Len(pipe)
      BY <1>0, <1>1
    <2> QED BY <2>1 DEF InPipe
  <1>3. v \in Nat /\ r \in Nat /\ w \in Nat
    BY <1>2, TaskNumbers
  <1>4. /\ virt' = (IF v > virt THEN v ELSE virt)
        /\ res' = (IF r + w > res + swap THEN r ELSE res)
        /\ swap' = (IF r + w > res + swap THEN w ELSE swap)
        /\ pipe' = Tail(pipe) /\ UNCHANGED <<log, cleaning, reading, shown>>
    BY <1>0 DEF Mem!FindMax
  <1>5. task \in shown
    BY <1>2 DEF LogInv
  <1>6. /\ pipe' \in Seq(Task) /\ Len(pipe') = Len(pipe) - 1 /\ Len(pipe) \in Nat
        /\ \A n \in 1 .. Len(pipe') : pipe'[n] = pipe[n + 1]
    BY <1>1, <1>4
  <1>7. \A t : InPipe(t) => InPipe(t)' \/ t = task
    <2> SUFFICES ASSUME NEW t, NEW n \in 1 .. Len(pipe), pipe[n] = t, n # 1 PROVE InPipe(t)'
      BY <1>2 DEF InPipe
    <2>1. n - 1 \in 1 .. Len(pipe') /\ (n - 1) + 1 = n
      BY <1>6
    <2>2. pipe'[n - 1] = t
      BY <1>6, <2>1
    <2> QED BY <2>1, <2>2 DEF InPipe
  <1>8. \A t : InPipe(t)' => InPipe(t)
    <2>1. \A n \in 1 .. Len(pipe') : n + 1 \in 1 .. Len(pipe)
      BY <1>6
    <2> QED BY <1>6, <2>1 DEF InPipe
  <1>9. \A t : ToClean(t)' <=> ToClean(t)
    BY <1>4 DEF ToClean
  <1> HIDE DEF v, r, w
  <1>10. /\ virt' \in Nat /\ res' \in Nat /\ swap' \in Nat
         /\ virt' >= virt /\ virt' >= v
         /\ res' + swap' >= res + swap /\ res' + swap' >= r + w
    BY <1>1, <1>3, <1>4
  <1>11. Found(task)'
    BY <1>10 DEF Found, v, r, w
  <1>12. \A t \in Task : Found(t) => Found(t)'
    <2> SUFFICES ASSUME NEW t \in Task, Found(t) PROVE Found(t)'
      OBVIOUS
    <2> DEFINE a == Mem!extract(t.virt)
               b == Mem!extract(t.res)
               c == Mem!extract(t.swap)
    <2>1. a \in Nat /\ b \in Nat /\ c \in Nat
      BY TaskNumbers
    <2>2. virt >= a /\ res + swap >= b + c
      BY DEF Found
    <2> HIDE DEF a, b, c
    <2>3. virt' >= a
      BY <1>1, <1>10, <2>1, <2>2
    <2>4. res' + swap' >= b + c
      <3>1. res + swap \in Nat /\ res' + swap' \in Nat /\ b + c \in Nat
        <4>1. res \in Nat /\ swap \in Nat /\ res' \in Nat /\ swap' \in Nat
          BY <1>1, <1>10
        <4>2. b + c \in Nat
          BY <2>1
        <4>3. res + swap \in Nat
          BY <4>1
        <4>4. res' + swap' \in Nat
          BY <4>1, SumNat
        <4> QED BY <4>2, <4>3, <4>4
      <3>2. res' + swap' >= res + swap /\ res + swap >= b + c
        BY <1>10, <2>2
      <3> QED BY ONLY <3>1, <3>2
    <2> QED BY <2>3, <2>4 DEF Found, a, b, c
  <1>13. /\ \A t \in shown' : ToClean(t)' \/ InPipe(t)' \/ Found(t)'
         /\ \A t : ToClean(t)' \/ InPipe(t)' => t \in shown'
    BY <1>1, <1>4, <1>7, <1>8, <1>9, <1>11, <1>12 DEF LogInv
  <1>14. virt' = 0 \/ \E t \in shown' : virt' = Mem!extract(t.virt)
    <2>1. CASE virt' = virt
      BY <1>4, <2>1 DEF LogInv
    <2>2. CASE virt' = v
      BY <1>4, <1>5, <2>2 DEF v
    <2> QED BY <1>4, <2>1, <2>2
  <1>15. \/ res' = 0 /\ swap' = 0
         \/ \E t \in shown' : res' = Mem!extract(t.res) /\ swap' = Mem!extract(t.swap)
    <2>1. CASE res' = res /\ swap' = swap
      BY <1>4, <2>1 DEF LogInv
    <2>2. CASE res' = r /\ swap' = w
      BY <1>4, <1>5, <2>2 DEF r, w
    <2> QED BY <1>4, <2>1, <2>2
  <1>16. LogType'
    BY <1>4, <1>6, <1>10 DEF LogInv, LogType
  <1>17. reading' /\ Framed(log')
    BY <1>1, <1>4 DEF LogInv
  <1>18. ~cleaning' => \A l \in 1 .. Len(log') : log'[l].kind # "task"
    BY <1>4 DEF LogInv
  <1> QED BY <1>13, <1>14, <1>15, <1>16, <1>17, <1>18 DEF LogInv, Mem!extract

\* Every step of the two programs preserves the inductive invariant.
LEMMA LogStep == LogInv /\ [Mem!Next]_(Mem!vars) => LogInv'
  <1> SUFFICES ASSUME LogInv, [Mem!Next]_(Mem!vars) PROVE LogInv'
    OBVIOUS
  <1>1. CASE Mem!FindEnd
    <2>1. reading' \in BOOLEAN /\ ~reading'
      BY <1>1, Zenon DEF Mem!FindEnd
    <2>2. /\ UNCHANGED <<log, cleaning, pipe, virt, res, swap, shown>>
          /\ pipe = <<>> /\ ~cleaning
      BY <1>1 DEF Mem!FindEnd
    <2>3. LogType'
      BY <2>1, <2>2 DEF LogInv, LogType
    <2>4. \A task : (ToClean(task)' <=> ToClean(task)) /\ (InPipe(task)' <=> InPipe(task))
                      /\ (Found(task)' <=> Found(task))
      BY <2>2 DEF ToClean, InPipe, Found
    <2> QED BY <2>1, <2>2, <2>3, <2>4 DEF LogInv, Mem!extract
  <1>2. CASE UNCHANGED Mem!vars
    <2>1. UNCHANGED <<log, cleaning, pipe, reading, virt, res, swap, shown>>
      BY <1>2 DEF Mem!vars
    <2>2. LogType'
      BY <2>1 DEF LogInv, LogType
    <2>3. \A task : (ToClean(task)' <=> ToClean(task)) /\ (InPipe(task)' <=> InPipe(task))
                      /\ (Found(task)' <=> Found(task))
      BY <2>1 DEF ToClean, InPipe, Found
    <2> QED BY <2>1, <2>2, <2>3 DEF LogInv, Mem!extract
  <1> QED
    BY <1>1, <1>2, CleanFrameInv, CleanEndInv, FindMaxInv DEF Mem!Next, Mem!Clean, Mem!Find

\* The inductive invariant of the memory log tools holds in every reachable state.
THEOREM LogInvariance == Mem!Spec => []LogInv
  BY LogInitially, LogStep, PTL DEF Mem!Spec

\* When top_max_finder has ended every process line of the log is found.
LEMMA PeakFromInv == LogInv => PeakReported
  <1> SUFFICES ASSUME LogInv, ~reading PROVE PeakReported
    BY DEF PeakReported
  <1>1. /\ shown \subseteq Task /\ virt \in Nat /\ res \in Nat /\ swap \in Nat
        /\ \A task \in shown : Found(task)
    <2>1. pipe = <<>> /\ ~cleaning
      BY DEF LogInv
    <2>2. \A task : ~ToClean(task) /\ ~InPipe(task)
      BY <2>1 DEF LogInv, ToClean, InPipe
    <2> QED BY <2>2 DEF LogInv, LogType
  <1>2. /\ virt = 0 \/ \E task \in shown : virt = Mem!extract(task.virt)
        /\ \/ res = 0 /\ swap = 0
           \/ \E task \in shown : res = Mem!extract(task.res) /\ swap = Mem!extract(task.swap)
    BY DEF LogInv
  <1>3. CASE shown = {}
    BY <1>2, <1>3 DEF PeakReported
  <1>4. CASE shown # {}
    <2>1. ASSUME NEW task \in shown
          PROVE  /\ Mem!extract(task.virt) \in Nat /\ Mem!extract(task.res) \in Nat
                 /\ Mem!extract(task.swap) \in Nat
      BY <1>1, TaskNumbers
    <2>2. ASSUME NEW task \in shown
          PROVE  /\ virt >= Mem!extract(task.virt)
                 /\ res + swap >= Mem!extract(task.res) + Mem!extract(task.swap)
      BY <1>1 DEF Found
    <2>3. \E task \in shown : virt = Mem!extract(task.virt)
      <3>1. CASE virt = 0
        <4>1. PICK task \in shown : TRUE
          BY <1>4
        <4>2. Mem!extract(task.virt) = 0
          BY <2>1, <2>2, <3>1
        <4> QED BY <3>1, <4>2
      <3> QED BY <1>2, <3>1
    <2>4. \E task \in shown : res = Mem!extract(task.res) /\ swap = Mem!extract(task.swap)
      <3>1. CASE res = 0 /\ swap = 0
        <4>1. PICK task \in shown : TRUE
          BY <1>4
        <4>2. Mem!extract(task.res) = 0 /\ Mem!extract(task.swap) = 0
          BY <2>1, <2>2, <3>1
        <4> QED BY <3>1, <4>2
      <3> QED BY <1>2, <3>1
    <2>5. \A task \in shown : virt >= extract(task.virt)
      BY <2>2, SameExtract
    <2>6. \E task \in shown : virt = extract(task.virt)
      BY <2>3, SameExtract
    <2>7. \E task \in shown :
             /\ res = extract(task.res) /\ swap = extract(task.swap)
             /\ \A other \in shown : Extracted(other) <= Extracted(task)
      <3>1. PICK task \in shown : res = Mem!extract(task.res) /\ swap = Mem!extract(task.swap)
        BY <2>4
      <3>2. ASSUME NEW other \in shown PROVE Extracted(other) <= Extracted(task)
        <4>1. /\ Extracted(task) = res + swap
              /\ Extracted(other) = Mem!extract(other.res) + Mem!extract(other.swap)
          BY <3>1, SameExtract DEF Extracted
        <4>2. /\ res + swap >= Mem!extract(other.res) + Mem!extract(other.swap)
              /\ res + swap \in Nat
              /\ Mem!extract(other.res) + Mem!extract(other.swap) \in Nat
          BY <1>1, <2>1, <2>2, SumNat
        <4> QED BY <4>1, <4>2
      <3> QED BY <3>1, <3>2, SameExtract
    <2> QED BY <1>4, <2>5, <2>6, <2>7 DEF PeakReported
  <1> QED BY <1>3, <1>4

\* What top_max_finder prints is the largest of what extract reads in the process
\* lines of the log, RES and SWAP from one line: for every log and every place
\* where kill -9 cut it.  (Whether extract reads what top meant is another matter:
\* see MaximumUsage.)
THEOREM PeakCorrect == Mem!Spec => []PeakReported
  BY PeakFromInv, LogInvariance, PTL
=============================================================================
